---------------------------- MODULE NoiseSession ----------------------------
(***************************************************************************)
(* Two HandshakeStates, an initiator "I" and a responder "R", driven by    *)
(* their callers through write_handshake_message, read_handshake_message   *)
(* and set_psk.  Every message a side writes stays on the wire: a caller   *)
(* may hand the peer any of them, in any order, any number of times, or   *)
(* never (loss, reordering, duplication).  With Corrupt the channel may   *)
(* also overwrite a field with junk, drop the last field or append a byte; *)
(* Forged are messages from elsewhere that a caller may pass to a read.   *)
(* A call that panics ends its side (panicked records where).             *)
(***************************************************************************)
EXTENDS HandshakeState, FiniteSets

LOCAL INSTANCE SequencesExt

CONSTANTS
  StaticKey,     \* [Parties -> key]: the key pair in s (HasStatic) and the peer's rs
  HasStatic,     \* parties built with a local static key
  FixedEph,      \* parties built with a fixed ephemeral (fixed_ephemeral)
  EphKeys,       \* [Parties -> SUBSET keys]: what e.generate(rng) may produce
  PskInit,       \* [Parties -> [0..NPSK-1 -> PskKeys \cup {NoPsk}]]: psks given to new
  PskKeys,       \* 32-byte psk values
  PskLocations,  \* locations set_psk is called with
  Prologue,      \* [Parties -> prologue]
  ProtocolName,  \* [Parties -> params.name]: the name each side's params were parsed from
  PayloadLens,   \* payload.len() of a write
  BufLens,       \* message.len() of a write's output buffer
  Corrupt,       \* whether the channel may corrupt messages
  Forged         \* messages from another session

VARIABLES
  hs,        \* [Parties -> handshake state record]
  wire,      \* [Parties -> Seq(message)]: the messages each side has written
  panicked,  \* [Parties -> {"none", "read", "write"}]
  received   \* [Parties -> Seq(Nat)]: the Ok(payload_len) of each successful read

vars == <<hs, wire, panicked, received>>

Parties == {"I", "R"}
Peer(p) == IF p = "I" THEN "R" ELSE "I"

\* The builder puts the peer's static into rs exactly when the pre-message
\* pattern needs it.
RsPreKnown(p) == IF p = "I" THEN PremsgR(Pattern) # <<>> ELSE PremsgI(Pattern) # <<>>

InitSlots(p) ==
  [s  |-> IF p \in HasStatic THEN ToggleOn(StaticKey[p]) ELSE ToggleOff(StaticKey[p]),
   e  |-> IF p \in FixedEph THEN ToggleOn(CHOOSE k \in EphKeys[p] : TRUE) ELSE ToggleOff("zero"),
   rs |-> IF RsPreKnown(p) THEN ToggleOn(StaticKey[Peer(p)]) ELSE ToggleOff("zero"),
   re |-> ToggleOff("zero")]

Built(p) ==
  LET sl == InitSlots(p)
  IN  New(ProtocolName[p], p = "I", sl.s, sl.e, sl.rs, sl.re, PskInit[p], Prologue[p])

ASSUME \A p \in Parties : Built(p).ok

-----------------------------------------------------------------------------
\* What the channel can make of a message m.
Corruptions(m) ==
  {[m EXCEPT ![j] = Field(m[j].len, Junk)] : j \in DOMAIN m}
    \cup {SubSeq(m, 1, Len(m) - 1), Append(m, Field(1, Junk))}

Deliverable(p) ==
  LET sent == {wire[Peer(p)][i] : i \in DOMAIN wire[Peer(p)]}
  IN  sent \cup Forged \cup (IF Corrupt THEN UNION {Corruptions(m) : m \in sent} ELSE {})

Init ==
  /\ hs = [p \in Parties |-> Built(p).st]
  /\ wire = [p \in Parties |-> <<>>]
  /\ panicked = [p \in Parties |-> "none"]
  /\ received = [p \in Parties |-> <<>>]

\* Apply the result r of a call by side p.
Apply(p, r, where) ==
  IF r.err = "Panic"
  THEN /\ panicked' = [panicked EXCEPT ![p] = where]
       /\ UNCHANGED <<hs, wire>>
  ELSE /\ hs' = [hs EXCEPT ![p] = r.st]
       /\ wire' = IF r.msg # <<>> THEN [wire EXCEPT ![p] = Append(@, r.msg)] ELSE wire
       /\ UNCHANGED panicked

Write(p) ==
  /\ panicked[p] = "none"
  /\ \E plen \in PayloadLens, buflen \in BufLens, eph \in EphKeys[p] :
       Apply(p, WriteHandshakeMessage(hs[p], plen, buflen, eph, p \in FixedEph), "write")
  /\ UNCHANGED received

Read(p) ==
  /\ panicked[p] = "none"
  /\ \E m \in Deliverable(p) :
       LET r == ReadHandshakeMessage(hs[p], m)
       IN  /\ Apply(p, r, "read")
           /\ received' = IF r.err = "none" THEN [received EXCEPT ![p] = Append(@, r.len)]
                          ELSE received

SetPsk(p) ==
  /\ panicked[p] = "none"
  /\ \E loc \in PskLocations, key \in PskKeys \cup {ShortKey} :
       Apply(p, SetPskOp(hs[p], loc, key), "none")
  /\ UNCHANGED received

Next == \E p \in Parties : Write(p) \/ Read(p) \/ SetPsk(p)

Spec == Init /\ [][Next]_vars

\* Callers that want the handshake to complete: while it is p's turn, p
\* keeps calling write with a buffer that fits; once the peer has written,
\* p passes the peer's latest message to read.  Nothing in the code
\* schedules these calls, so fairness is assumed of them only.  It is
\* weak fairness of "p's pattern_position advances", with its enabling
\* condition written as the state predicate it amounts to.
CanWrite(p) ==
  \E eph \in EphKeys[p] :
    WriteHandshakeMessage(hs[p], Min(PayloadLens), Max(BufLens), eph, p \in FixedEph).err = "none"

CanReadLatest(p) ==
  wire[Peer(p)] # <<>> /\ ReadHandshakeMessage(hs[p], Last(wire[Peer(p)])).err = "none"

CanAdvance(p) == panicked[p] = "none" /\ (CanWrite(p) \/ CanReadLatest(p))

Advances(p) == hs'[p].pos = hs[p].pos + 1

CallerFairness == \A p \in Parties : <>[]CanAdvance(p) => []<><<Advances(p)>>_vars

\* The abstract handshake, with pattern_position as the count of messages
\* each side has processed.
Protocol == INSTANCE HandshakeProtocol WITH done <- [p \in Parties |-> hs[p].pos], NMsgs <- Len(Msgs)

-----------------------------------------------------------------------------
\* Whenever the two sides have processed the same number of messages they
\* hold the same symmetric state (h, ck, k, n) and the same transport
\* keys: failed writes and reads, replayed, reordered and lost messages and
\* psk changes never let the transcripts of write_handshake_message and
\* read_handshake_message drift apart.
TranscriptAgreement ==
  hs["I"].pos = hs["R"].pos =>
    /\ hs["I"].sym = hs["R"].sym
    /\ hs["I"].cs = hs["R"].cs

\* The payload length a write encrypted into message m (its last field).
WrittenLen(m) == LET d == m[Len(m)].data IN IF d.t = "ct" THEN d.pt[1].n ELSE d.n

\* The i-th successful read_handshake_message of a side returns, as
\* Ok(payload_len), the length of the payload the peer passed to its i-th
\* write: the tag is subtracted exactly when the trailer was encrypted
\* (handshakestate.rs:337), so the subtraction never underflows and an
\* unencrypted first message is returned whole.
PayloadLenReturned ==
  \A p \in Parties : \A i \in DOMAIN received[p] :
    received[p][i] = WrittenLen(wire[Peer(p)][i])

\* From a successful write_handshake_message until the caller's next
\* successful read, was_write_payload_encrypted() tells whether the payload
\* of that write went out encrypted.  The getter reads the key state of
\* the moment (handshakestate.rs:141), so this holds only because failed
\* writes and failed reads, of corrupted or replayed messages, restore the
\* symmetric state to its checkpoint, key included.
WriteEncryptionReported ==
  \A p \in Parties :
    wire[p] # <<>> /\ ~hs[p].myTurn =>
      WasWritePayloadEncrypted(hs[p]) = (Last(Last(wire[p])).data.t = "ct")

\* Once both sides report is_finished(), they agree on the handshake hash
\* and on both transport keys, even over a channel that corrupts messages:
\* any corruption is caught by a later decryption.
FinishedAgreement ==
  IsFinished(hs["I"]) /\ IsFinished(hs["R"]) =>
    /\ GetHandshakeHash(hs["I"]) = GetHandshakeHash(hs["R"])
    /\ hs["I"].cs = hs["R"].cs

\* get_remote_static() only ever returns the peer's real static key, although
\* read_handshake_message writes rs before the message is accepted.
RemoteStaticGenuine ==
  \A p \in Parties : GetRemoteStatic(hs[p]) \subseteq {StaticKey[Peer(p)]}

\* Every DH a finished side has mixed into its chaining key is, in order,
\* the DH the Noise pattern names (initiator's key first): the expander's
\* tables and the read/write dispatch of Dhes and Dhse (handshakestate.rs
\* write 214-221, read 317-324) together compute the Noise DHs.
NoiseKey(p, kind) == IF kind = "e" THEN hs[p].e.inner ELSE StaticKey[p]

ExpectedDhs ==
  LET toks == FlattenSeq(NoiseDhTokens(Pattern))
  IN  [i \in 1..Len(toks) |-> DhItem(NoiseKey("I", toks[i][1]), NoiseKey("R", toks[i][2]))]

NoiseDhSemantics ==
  \A p \in Parties :
    IsFinished(hs[p]) => SelectSeq(hs[p].sym.ck, LAMBDA x : x.t = "dh") = ExpectedDhs

\* Every successful write_handshake_message and read_handshake_message is a
\* step of the abstract handshake: messages are processed in order, each
\* side writes only its own messages and reads a message only after the
\* peer wrote it, whatever the channel replays or reorders.
Refinement == Protocol!Spec

\* Under callers that keep writing on their turn and deliver the latest
\* message, both sides reach is_finished(): retries after failed writes
\* and replayed messages never wedge the handshake.
HandshakeCompletes == CallerFairness => <>(IsFinished(hs["I"]) /\ IsFinished(hs["R"]))

\* read_handshake_message never panics, whatever message it is given
\* (spec section 7: no panics on user-supplied input).
NoReadPanic == \A p \in Parties : panicked[p] # "read"

\* write_handshake_message never panics, whatever buffer it is given: a
\* buffer too small fails with Error::Input (spec section 8, property 6).
NoWritePanic == \A p \in Parties : panicked[p] # "write"

\* A read_handshake_message succeeds only when it is not the caller's turn
\* to write (spec section 8, property 3: reads and writes alternate per
\* my_turn and a call out of turn fails without changing the state).
ReadRespectsTurn ==
  [][\A p \in Parties : (hs'[p].pos = hs[p].pos + 1 /\ wire' = wire) => ~hs[p].myTurn]_vars

=============================================================================
