---------------------------- MODULE MCNoiseParams ----------------------------
(***************************************************************************)
(* Names for checking NoiseParams: every prefix of up to five fields, each *)
(* drawn from a small set per position that holds an accepted spelling,   *)
(* a rejected word and, where it matters, an empty field or a KEM suffix.   *)
(***************************************************************************)
EXTENDS NoiseParams

LOCAL INSTANCE SequencesExt

\* Fields joined with "_" (the inverse of split).
Join(fs) == IF fs = <<>> THEN <<>> ELSE FoldLeft(LAMBDA acc, f : acc \o <<"_">> \o f, fs[1], Tail(fs))

MCFieldCands ==
  << {<<"Noise">>, <<"bad">>},
     {<<"XX">>, <<"XXhfs">>, <<"bad">>},
     {<<"25519">>, <<"25519", "+", "Kyber1024">>, <<"25519", "+", "bad">>,
      <<"bad", "+", "Kyber1024">>, <<>>},
     {<<"AESGCM">>, <<"bad">>},
     {<<"SHA256">>, <<"bad">>, <<>>} >>

\* Well-formed names followed by more: a sixth field, or a third '+' part.
MCLongCands ==
  << {<<"Noise">>}, {<<"XX">>, <<"XXhfs">>},
     {<<"25519">>, <<"25519", "+", "Kyber1024">>, <<"25519", "+", "Kyber1024", "+", "Kyber1024">>},
     {<<"AESGCM">>}, {<<"SHA256">>}, {<<"SHA256">>} >>

RECURSIVE FieldSeqs(_, _)
FieldSeqs(cands, k) ==
  IF k = 0 THEN {<<>>} ELSE {Append(p, f) : p \in FieldSeqs(cands, k - 1), f \in cands[k]}

MCNames     == {Join(fs) : fs \in UNION {FieldSeqs(MCFieldCands, k) : k \in 0..5}}
MCLongNames == {Join(fs) : fs \in FieldSeqs(MCLongCands, 5) \cup FieldSeqs(MCLongCands, 6)}

=============================================================================
