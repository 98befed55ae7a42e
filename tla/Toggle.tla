------------------------------- MODULE Toggle -------------------------------
(***************************************************************************)
(* Toggle<T> of src/utils.rs: a slot that always owns its inner value and  *)
(* carries a separate "on" bit.  The handshake keeps its key slots s, e,   *)
(* rs and re in Toggles; writing the inner value (through DerefMut) does   *)
(* not change the bit, and nothing ever turns a Toggle off again.          *)
(***************************************************************************)

\* Toggle::on / Toggle::off: construct a slot holding x.
ToggleOn(x)  == [inner |-> x, on |-> TRUE]
ToggleOff(x) == [inner |-> x, on |-> FALSE]

\* Toggle::enable and Toggle::is_on.
Enable(t) == [t EXCEPT !.on = TRUE]
IsOn(t)   == t.on

\* Toggle::as_option_ref (what the handshake's slot .get() calls return):
\* Some(inner) iff the bit is on, as a set of at most one value.
AsOptionRef(t) == IF t.on THEN {t.inner} ELSE {}

\* A write through DerefMut (e.generate(rng), re[..] = ...): the bit is kept.
SetInner(t, x) == [t EXCEPT !.inner = x]

=============================================================================
