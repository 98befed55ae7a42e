---------------------------- MODULE NoisePatterns ----------------------------
(***************************************************************************)
(* The pattern expander (params/patterns.rs, referenced by params/mod.rs   *)
(* but not part of src/): HandshakeTokens::try_from(&HandshakeChoice).     *)
(* Modelled from spec section 4.C.                                         *)
(*                                                                         *)
(* The message tables are written in the convention the dispatch of        *)
(* handshakestate.rs requires: a DH token XY names the WRITER's key X and  *)
(* the READER's key Y (write: Dhes = dh(e, rs); read: Dhes = dh(s, re)).   *)
(* The Noise specification names the INITIATOR's key first instead; the   *)
(* reference tables at the end of this module are in that convention and  *)
(* the property NoiseDhSemantics of NoiseSession relates the two.          *)
(***************************************************************************)
EXTENDS Naturals, Sequences, TLC

\* Token of patterns.rs.  Psk(n) carries the psk slot it reads.
Tok(k)  == [kind |-> k, n |-> 0]
Psk(n)  == [kind |-> "Psk", n |-> n]
E == Tok("E")
S == Tok("S")
Dhee == Tok("Dhee")
Dhes == Tok("Dhes")
Dhse == Tok("Dhse")
Dhss == Tok("Dhss")

BasePatterns == {"N", "K", "X", "NN", "NK", "NX", "XN", "XK", "XX",
                 "KN", "KK", "KX", "IN", "IK", "IX"}

\* Pre-message tokens of the initiator and of the responder.
PremsgI(p) == IF p \in {"K", "KN", "KK", "KX"} THEN <<S>> ELSE <<>>
PremsgR(p) == IF p \in {"N", "K", "X", "NK", "XK", "KK", "IK"} THEN <<S>> ELSE <<>>

\* Message patterns of each base pattern, writer-relative.
MessageTable ==
  ("N"  :> << <<E, Dhes>> >>) @@
  ("K"  :> << <<E, Dhes, Dhss>> >>) @@
  ("X"  :> << <<E, Dhes, S, Dhss>> >>) @@
  ("NN" :> << <<E>>, <<E, Dhee>> >>) @@
  ("NK" :> << <<E, Dhes>>, <<E, Dhee>> >>) @@
  ("NX" :> << <<E>>, <<E, Dhee, S, Dhse>> >>) @@
  ("XN" :> << <<E>>, <<E, Dhee>>, <<S, Dhse>> >>) @@
  ("XK" :> << <<E, Dhes>>, <<E, Dhee>>, <<S, Dhse>> >>) @@
  ("XX" :> << <<E>>, <<E, Dhee, S, Dhse>>, <<S, Dhse>> >>) @@
  ("KN" :> << <<E>>, <<E, Dhee, Dhes>> >>) @@
  ("KK" :> << <<E, Dhes, Dhss>>, <<E, Dhee, Dhes>> >>) @@
  ("KX" :> << <<E>>, <<E, Dhee, Dhes, S, Dhse>> >>) @@
  ("IN" :> << <<E, S>>, <<E, Dhee, Dhes>> >>) @@
  ("IK" :> << <<E, Dhes, S, Dhss>>, <<E, Dhee, Dhes>> >>) @@
  ("IX" :> << <<E, S>>, <<E, Dhee, Dhes, S, Dhse>> >>)

\* Mutant: IK's second message transcribed in the Noise spelling "ee, se".
BaseMessagesNoiseSpelling(p) ==
  IF p = "IK" THEN << <<E, Dhes, S, Dhss>>, <<E, Dhee, Dhse>> >> ELSE MessageTable[p]

BaseMessages(p) == MessageTable[p]

\* A psk<n> modifier: psk0 puts Psk(0) in front of the first message,
\* psk<n> for n >= 1 appends Psk(n) to the n-th message.
ApplyPsk(msgs, n) ==
  IF n = 0 THEN [msgs EXCEPT ![1] = <<Psk(0)>> \o @]
           ELSE [msgs EXCEPT ![n] = Append(@, Psk(n))]

\* The modifiers are applied in the order they are written.
RECURSIVE ApplyMods(_, _)
ApplyMods(msgs, mods) ==
  IF mods = <<>> THEN msgs ELSE ApplyMods(ApplyPsk(msgs, Head(mods)), Tail(mods))

\* HandshakeChoice::is_psk().
IsPskChoice(mods) == mods # <<>>

\* HandshakeTokens::try_from: fails unless every psk<n> names a message.
ValidChoice(p, mods) ==
  /\ p \in BasePatterns
  /\ \A i \in 1..Len(mods) : mods[i] <= Len(BaseMessages(p))

HandshakeTokens(p, mods) ==
  [premsg_i |-> PremsgI(p), premsg_r |-> PremsgR(p),
   msgs     |-> ApplyMods(BaseMessages(p), mods)]

-----------------------------------------------------------------------------
(***************************************************************************)
(* Reference: the DH tokens of each message as the Noise specification     *)
(* writes them, naming the initiator's key first ("es" = initiator's e     *)
(* with responder's s).  Messages alternate, the initiator writing first.  *)
(***************************************************************************)
NoiseDhTokens(p) ==
  LET ee == <<"e", "e">>  es == <<"e", "s">>  se == <<"s", "e">>  ss == <<"s", "s">>
  IN  CASE p = "N"  -> << <<es>> >>
        [] p = "K"  -> << <<es, ss>> >>
        [] p = "X"  -> << <<es, ss>> >>
        [] p = "NN" -> << <<>>, <<ee>> >>
        [] p = "NK" -> << <<es>>, <<ee>> >>
        [] p = "NX" -> << <<>>, <<ee, es>> >>
        [] p = "XN" -> << <<>>, <<ee>>, <<se>> >>
        [] p = "XK" -> << <<es>>, <<ee>>, <<se>> >>
        [] p = "XX" -> << <<>>, <<ee, es>>, <<se>> >>
        [] p = "KN" -> << <<>>, <<ee, se>> >>
        [] p = "KK" -> << <<es, ss>>, <<ee, se>> >>
        [] p = "KX" -> << <<>>, <<ee, se, es>> >>
        [] p = "IN" -> << <<>>, <<ee, se>> >>
        [] p = "IK" -> << <<es, ss>>, <<ee, se>> >>
        [] p = "IX" -> << <<>>, <<ee, se, es>> >>

=============================================================================
