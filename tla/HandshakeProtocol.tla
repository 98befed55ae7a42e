-------------------------- MODULE HandshakeProtocol --------------------------
(***************************************************************************)
(* What a Noise handshake promises its two callers, abstractly (spec       *)
(* sections 4.E and 8): messages are processed in order, the initiator     *)
(* writes the odd ones and the responder the even ones, a side reads       *)
(* message k only after the peer has written it, and writes message k only *)
(* after it has processed every earlier one.  done[p] is how many messages *)
(* side p has processed (pattern_position).                                *)
(***************************************************************************)
EXTENDS Naturals

CONSTANT NMsgs     \* messages in the handshake pattern

VARIABLE done

Sides == {"I", "R"}
Other(p) == IF p = "I" THEN "R" ELSE "I"

\* The side that writes message k.
Writer(k) == IF k % 2 = 1 THEN "I" ELSE "R"

Init == done = [p \in Sides |-> 0]

\* p writes the next message, which is its to write.
Send(p) ==
  /\ done[p] < NMsgs
  /\ Writer(done[p] + 1) = p
  /\ done' = [done EXCEPT ![p] = @ + 1]

\* p reads the next message, which the peer has already written.
Receive(p) ==
  /\ done[p] < NMsgs
  /\ Writer(done[p] + 1) = Other(p)
  /\ done[Other(p)] > done[p]
  /\ done' = [done EXCEPT ![p] = @ + 1]

Next == \E p \in Sides : Send(p) \/ Receive(p)

Spec == Init /\ [][Next]_done

=============================================================================
