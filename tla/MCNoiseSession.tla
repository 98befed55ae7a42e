--------------------------- MODULE MCNoiseSession ---------------------------
(* Model values for NoiseSession: keys, psks and the pattern choices of the *)
(* runs.  Lengths are scaled down (DHLEN 2, TAGLEN 1) so that payload and   *)
(* buffer sizes around every bound fit in a few values.                     *)
EXTENDS NoiseSession

MCStaticKey == [p \in {"I", "R"} |-> IF p = "I" THEN "si" ELSE "sr"]
MCEphKeys   == [p \in {"I", "R"} |-> IF p = "I" THEN {"ei1", "ei2"} ELSE {"er1", "er2"}]
MCPrologue  == [p \in {"I", "R"} |-> "prologue"]
\* Both sides parsed their parameters from the same protocol name.
MCProtocolName == [p \in {"I", "R"} |-> "name"]
MCNoMods    == <<>>
MCPsk2      == <<2>>
MCPsk0      == <<0>>
\* Both sides were given the same psk in every slot a modifier uses.
MCPskInit   == [p \in {"I", "R"} |->
                 [i \in 0..NPSK-1 |-> IF \E j \in 1..Len(Mods) : Mods[j] = i
                                      THEN "pskA" ELSE "nopsk"]]
\* The initiator was given the psk; the responder has to get it by set_psk.
MCPskInitLate == [p \in {"I", "R"} |->
                   [i \in 0..NPSK-1 |-> IF p = "I" /\ \E j \in 1..Len(Mods) : Mods[j] = i
                                        THEN "pskA" ELSE "nopsk"]]
\* A message of another session: a public key and an empty payload.
MCForged    == {<< [len |-> DHLEN, data |-> PubItem("x")],
                   [len |-> 0, data |-> PayloadItem(0)] >>}
=============================================================================
