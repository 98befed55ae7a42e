----------------------------- MODULE NoiseParams -----------------------------
(***************************************************************************)
(* The protocol-name parser of src/params/mod.rs: FromStr for the choice   *)
(* enums and for NoiseParams, in the default build and with the "hfs"      *)
(* feature (constant HFS).                                                 *)
(*                                                                         *)
(* A name is a sequence of atoms: the separators "_" and "+" and words     *)
(* that contain neither.  A choice value is represented by its spelling,   *)
(* and "bad" stands for any word no parser accepts.  str::split is         *)
(* modelled by what it does, empty fields and all.                         *)
(*                                                                         *)
(* One call is one step: a caller holds a name and parses it.  The         *)
(* reference at the end is the grammar of spec sections 4.B and 6.         *)
(***************************************************************************)
EXTENDS Naturals, Sequences

LOCAL INSTANCE SequencesExt

CONSTANTS
  HFS,     \* whether the crate is built with the "hfs" feature
  Names    \* the names callers parse

VARIABLES
  name,    \* the &str passed to from_str
  result   \* Unparsed, or the Result it returned

vars == <<name, result>>

\* The choice enums, each value by its spelling in a name.
BaseChoices   == {"Noise"}
DHChoices     == {"25519", "448"}
CipherChoices == {"ChaChaPoly", "AESGCM"}
HashChoices   == {"SHA256", "SHA512", "BLAKE2s", "BLAKE2b"}
KemChoices    == {"Kyber1024"}

Ok(v)  == [err |-> "none", val |-> v]
Err(e) == [err |-> e, val |-> "none"]

\* from_str of a choice enum: an exact match of the whole field.
ParseChoice(f, choices, e) == IF f \in {<<c>> : c \in choices} THEN Ok(f[1]) ELSE Err(e)

BaseFromStr(f)   == ParseChoice(f, BaseChoices, "UnsupportedBaseType")
DhFromStr(f)     == ParseChoice(f, DHChoices, "UnsupportedDhType")
CipherFromStr(f) == ParseChoice(f, CipherChoices, "UnsupportedCipherType")
HashFromStr(f)   == ParseChoice(f, HashChoices, "UnsupportedHashType")
KemFromStr(f)    == ParseChoice(f, KemChoices, "UnsupportedKemType")

\* HandshakeChoice::from_str lives in params/patterns.rs: only the two
\* handshakes the names use, XX and (with the feature) XXhfs.
HandshakeChoices == IF HFS THEN {"XX", "XXhfs"} ELSE {"XX"}
HandshakeFromStr(f) == ParseChoice(f, HandshakeChoices, "UnsupportedHandshakeType")
IsHfs(h) == h = "XXhfs"

\* Mutant: split that drops a trailing empty field (split_terminator).
SplitTerminator(s, sep) ==
  LET fs == FoldLeft(LAMBDA acc, c : IF c = sep THEN Append(acc, <<>>)
                                     ELSE [acc EXCEPT ![Len(acc)] = Append(@, c)],
                     << <<>> >>, s)
  IN  IF Len(fs) > 1 /\ Last(fs) = <<>> THEN Front(fs) ELSE fs

\* str::split(sep): always at least one field; adjacent, leading and
\* trailing separators give empty fields.
SplitOn(s, sep) ==
  FoldLeft(LAMBDA acc, c : IF c = sep THEN Append(acc, <<>>)
                           ELSE [acc EXCEPT ![Len(acc)] = Append(@, c)],
           << <<>> >>, s)

\* The `?` chain: the first failing step, in evaluation order, decides.
FirstErr(steps) ==
  LET bad == {i \in DOMAIN steps : steps[i].err # "none"}
  IN  IF bad = {} THEN "none" ELSE steps[Min(bad)].err

NoParams == [name |-> <<>>, base |-> "none", handshake |-> "none", dh |-> "none",
             kem |-> "none", cipher |-> "none", hash |-> "none"]
Failed(e) == [err |-> e, params |-> NoParams]

\* NoiseParams::new: kem is None.
ParamsNew(nm, base, handshake, dh, cipher, hash) ==
  [name |-> nm, base |-> base, handshake |-> handshake, dh |-> dh,
   kem |-> "none", cipher |-> cipher, hash |-> hash]

\* from_str without the feature: new's arguments are evaluated left to right.
FromStrPlain(s) ==
  LET fs == SplitOn(s, "_")
      \* split.next().ok_or(TooFewParameters)?.parse()
      Field(xs, i, Parse(_)) == IF i <= Len(xs) THEN Parse(xs[i]) ELSE Err("TooFewParameters")
      st == <<Field(fs, 1, BaseFromStr), Field(fs, 2, HandshakeFromStr),
              Field(fs, 3, DhFromStr), Field(fs, 4, CipherFromStr), Field(fs, 5, HashFromStr)>>
  IN  IF FirstErr(st) # "none" THEN Failed(FirstErr(st))
      ELSE [err |-> "none",
            params |-> ParamsNew(s, st[1].val, st[2].val, st[3].val, st[4].val, st[5].val)]

\* Mutant: the check that a KEM is given iff hfs is dropped.
FromStrHfsUnchecked(s) ==
  LET fs  == SplitOn(s, "_")
      Field(xs, i, Parse(_)) == IF i <= Len(xs) THEN Parse(xs[i]) ELSE Err("TooFewParameters")
      pkc == IF 3 <= Len(fs) THEN SplitOn(fs[3], "+") ELSE <<>>
      kem == IF Len(pkc) >= 2 THEN KemFromStr(pkc[2]) ELSE Ok("none")
      st  == <<Field(fs, 1, BaseFromStr), Field(fs, 2, HandshakeFromStr),
               Field(fs, 3, Ok), Field(pkc, 1, DhFromStr), kem,
               Field(fs, 4, CipherFromStr), Field(fs, 5, HashFromStr)>>
  IN  IF FirstErr(st) # "none" THEN Failed(FirstErr(st))
      ELSE [err |-> "none",
            params |-> [ParamsNew(s, st[1].val, st[2].val, st[4].val, st[6].val, st[7].val)
                          EXCEPT !.kem = kem.val]]

\* from_str with the feature: the third field is split on '+' into the DH
\* and an optional KEM; fields after the first two parts are never read.
FromStrHfs(s) ==
  LET fs  == SplitOn(s, "_")
      Field(xs, i, Parse(_)) == IF i <= Len(xs) THEN Parse(xs[i]) ELSE Err("TooFewParameters")
      pkc == IF 3 <= Len(fs) THEN SplitOn(fs[3], "+") ELSE <<>>
      kem == IF Len(pkc) >= 2 THEN KemFromStr(pkc[2]) ELSE Ok("none")
      st  == <<Field(fs, 1, BaseFromStr), Field(fs, 2, HandshakeFromStr),
               Field(fs, 3, Ok), Field(pkc, 1, DhFromStr), kem,
               Field(fs, 4, CipherFromStr), Field(fs, 5, HashFromStr)>>
  IN  CASE FirstErr(st) # "none"               -> Failed(FirstErr(st))
        [] IsHfs(st[2].val) # (kem.val # "none") -> Failed("TooFewParameters")
        [] OTHER -> [err |-> "none",
                     params |-> [ParamsNew(s, st[1].val, st[2].val, st[4].val, st[6].val, st[7].val)
                                   EXCEPT !.kem = kem.val]]

FromStr(s) == IF HFS THEN FromStrHfs(s) ELSE FromStrPlain(s)

Unparsed == [err |-> "unparsed", params |-> NoParams]

Init == name \in Names /\ result = Unparsed

\* "...".parse::<NoiseParams>()
Parse == result = Unparsed /\ result' = FromStr(name) /\ UNCHANGED name

Next == Parse

Spec == Init /\ [][Next]_vars

-----------------------------------------------------------------------------
(***************************************************************************)
(* Reference: the grammar Noise_<pattern>_<DH>[+<KEM>]_<cipher>_<hash> of   *)
(* spec sections 4.B and 6.  The fields are read off the positions of the  *)
(* separators; each is checked in order, a missing one is TooFewParameters *)
(* and a wrong one Unsupported<Kind>; a KEM is required iff hfs is given.   *)
(***************************************************************************)
RefFields(s, sep) ==
  LET b == <<0>> \o SetToSortSeq({j \in DOMAIN s : s[j] = sep}, <) \o <<Len(s) + 1>>
  IN  [i \in 1..Len(b) - 1 |-> SubSeq(s, b[i] + 1, b[i + 1] - 1)]

Spelled(choices) == {<<c>> : c \in choices}
KemSuffixes == IF HFS THEN {<<>>} \cup {<<"+", k>> : k \in KemChoices} ELSE {<<>>}

ValidField ==
  <<Spelled(BaseChoices), Spelled(HandshakeChoices),
    {d \o k : d \in Spelled(DHChoices), k \in KemSuffixes},
    Spelled(CipherChoices), Spelled(HashChoices)>>

RefUnsupported(i, f) ==
  IF i = 3 /\ HFS /\ RefFields(f, "+")[1] \in Spelled(DHChoices)
  THEN "UnsupportedKemType"
  ELSE <<"UnsupportedBaseType", "UnsupportedHandshakeType", "UnsupportedDhType",
         "UnsupportedCipherType", "UnsupportedHashType">>[i]

RefParse(s) ==
  LET fs  == RefFields(s, "_")
      bad == {i \in 1..5 : i > Len(fs) \/ fs[i] \notin ValidField[i]}
      i   == Min(bad)
  IN  CASE bad # {} /\ i > Len(fs)                -> Failed("TooFewParameters")
        [] bad # {}                              -> Failed(RefUnsupported(i, fs[i]))
        [] Len(fs) > 5                           -> Failed("TooManyParameters")
        [] IsHfs(fs[2][1]) # (Len(fs[3]) > 1)    -> Failed("TooFewParameters")
        [] OTHER ->
             [err |-> "none",
              params |-> [name |-> s, base |-> fs[1][1], handshake |-> fs[2][1],
                          dh |-> fs[3][1], kem |-> IF Len(fs[3]) > 1 THEN fs[3][3] ELSE "none",
                          cipher |-> fs[4][1], hash |-> fs[5][1]]]

\* NoiseParams::from_str returns exactly what the protocol-name grammar
\* says: the same parameters for a well-formed name, and otherwise the error
\* of the first field, in order, that is missing or unsupported (empty
\* fields, a name cut short, a KEM without hfs and hfs without a KEM).
ParseMatchesGrammar == result # Unparsed => result = RefParse(name)

=============================================================================
