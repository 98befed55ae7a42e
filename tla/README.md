# TLA+ models of the screech Noise handshake

This directory holds TLA+ models of the handshake state machine of this
repository (a Rust implementation of the Noise Protocol Framework) and the
TLC configurations that check them.

## The system

The code under `src/` has three parts:

| part | file | what it does |
|------|------|--------------|
| HandshakeState | `src/src/handshakestate.rs` | `new` validates key lengths, expands the pattern, initialises the symmetric state and mixes the prologue and pre-message keys; `write_handshake_message` / `read_handshake_message` process one message pattern token by token, each wrapped in a checkpoint/restore of the symmetric state; `set_psk` fills a psk slot; `split` at the last message yields the transport ciphers. |
| Toggle | `src/src/utils.rs` | the key slots `s`, `e`, `rs`, `re` are `Toggle`s: an inner value that is always present plus an `on` bit; writes through `DerefMut` keep the bit. |
| NoiseParams | `src/src/params/mod.rs` | `FromStr` parsers for protocol names such as `Noise_XXpsk2_25519_AESGCM_SHA256`. |

The handshake calls components that are not under `src/` (the pattern tables
of `params/patterns.rs`, `SymmetricState`, `CipherState`, the builder and the
crypto resolvers). The models represent the first two from the spec and mark
their `map` entries `spec_modelled`.

Two `HandshakeState`s interact only through the bytes their callers carry
between them. Nothing in the code orders the calls: any caller can call `read`,
`write` or `set_psk` at any time, with any buffer, and pass any bytes to `read`.

## Modules

| module | models | state / operations |
|--------|--------|--------------------|
| `Toggle` | `Toggle<T>` | `ToggleOn`, `ToggleOff`, `Enable`, `IsOn`, `AsOptionRef` (the slots' `get()`: Some iff on), `SetInner` (DerefMut write). |
| `NoisePatterns` | pattern expander (spec) | token tables of the 15 base patterns, pre-messages, `psk<n>` modifiers (`ApplyMods`, RECURSIVE), `ValidChoice`. The tables use the convention the code's DH dispatch needs: `Dhes` names the writer's `e` and the reader's `s`. `NoiseDhTokens` is the Noise-spec reference, naming the initiator's key first. |
| `SymmetricState` | symmetric state (spec) | symbolic crypto. `h` and `ck` are the sequences of items mixed into them (collision-free hashing). A key is the HKDF output it came from. A ciphertext records key, nonce, associated data and plaintext, so decryption succeeds exactly when all four match. |
| `HandshakeState` | `handshakestate.rs` | the state record `[sym, cs, s, e, rs, re, psks, myTurn, pos]` and pure operators for `new`, `write_handshake_message` (token loop `WriteTokens`, then the `Restore` wrapper), `read_handshake_message` (`ReadTokens`), `set_psk`, `dh`, `is_finished` and the getters `get_remote_static`, `get_handshake_hash` and `was_write_payload_encrypted`. `new` hashes the name it is given (`params.name`). A successful read returns `len`, the `Ok(payload_len)` of line 337 (`PayloadLen`). Every early return of the code is a `Fail(acc, err)`. A panic in the code is the error `"Panic"`. Messages are sequences of `[len, data]` fields, and `Take` cuts fields by byte count, so misaligned input becomes junk. |
| `NoiseSession` | two HandshakeStates plus the channel | variables `hs`, `wire` (all messages each side wrote), `panicked`, and `received` (the `payload_len` each successful read returned). Constant `ProtocolName` is the name each side's params came from. Actions `Write(p)`, `Read(p)`, `SetPsk(p)`. A read may take any message the peer ever wrote (loss, duplication, reordering and replay), any `Forged` message, and, with `Corrupt`, a message with one field replaced by junk, its last field dropped or a byte appended. A panic stops that side. |
| `HandshakeProtocol` | what a handshake promises (spec 4.E, 8) | abstract lock-step protocol: `done[p]` counts processed messages; `Send(p)` for a message p writes, `Receive(p)` for one the peer has already written. `NoiseSession` instantiates it with `done <- [p \|-> hs[p].pos]` and checks it as the property `Refinement`. |
| `MCNoiseSession` | model values for TLC | keys, ephemeral key choices, psk layouts, forged messages. |
| `NoiseParams` | `params/mod.rs` | `FromStr` of every choice enum and of `NoiseParams`, in the default build and the `hfs` build (constant `HFS`). A name is a sequence of words and the separators `_` and `+`. `SplitOn` is `str::split`, empty fields included. `FirstErr` is the `?` chain, so the first failing argument in evaluation order decides. One action, `Parse`, is one call. `RefParse` is the reference: the grammar of spec sections 4.B and 6, which reads the fields off the separator positions. |
| `MCNoiseParams` | names for TLC | every prefix of up to five fields from small per-position sets (accepted word, rejected word, empty field, KEM suffixes); `MCLongNames` adds a sixth field or a third `+` part. |

Each action is a whole call. For example, `Write(p)` applies
`WriteHandshakeMessage`. That operator does the turn and finish checks, every
token, the payload bound, the encryption, the MAXMSGLEN check and the split.
On error it restores the checkpoint of the symmetric state and leaves the other
slots as they are, just as lines 145-159 do. On success it increments `pos`.

## Runs

All runs use DHLEN = 2, TAGLEN = 1 and 10 psk slots. Keys are model values.
Payload and buffer sizes are chosen so that every bounds check in the code
both passes and fails. For example, XX uses `BufLens {1,4,8}`: the E check fails
at 1, and the payload check fails at 4 for the initiator's message 3. At 4,
the responder's message 2 passes the S check and panics in encryption (the
`writepanic` run). Every run sets `CHECK_DEADLOCK FALSE`: a side that
panics stops for good, and both sides panicking after the handshake is a real
final state of the program.

| run | cfg | expect | shows |
|-----|-----|--------|-------|
| xx | `MCNoiseSession_xx.cfg` | pass | XX over a lossy, reordering channel, with failing writes. `PayloadLenReturned`: the i-th successful read returns the payload length the peer's i-th write was given, so the tag is subtracted exactly when the trailer is encrypted. `TranscriptAgreement`: sides at the same position hold equal symmetric states and transport keys. `RemoteStaticGenuine`: `rs` only ever holds the peer's key. `Refinement`: every successful call is a step of `HandshakeProtocol`. |
| ikpsk2 | `MCNoiseSession_ikpsk2.cfg` | pass | IKpsk2 with psks changed between messages, a fixed initiator ephemeral, and a responder that has no psk until `set_psk`. `TranscriptAgreement`. `NoiseDhSemantics`: the DHs a finished side mixed are exactly those the Noise pattern names, so the writer-relative dispatch and the tables agree. |
| xxcorrupt | `MCNoiseSession_xxcorrupt.cfg` | pass | XX over a corrupting channel. `FinishedAgreement`: two finished sides agree on `h` and the transport keys. `Refinement` still holds: corruption never makes a side skip or repeat a message. `WriteEncryptionReported`: from a successful write until the next successful read, `was_write_payload_encrypted()` says whether that write's payload was encrypted. The getter reads the current key (line 141), so this relies on failed reads of corrupted messages restoring the key. |
| live | `MCNoiseSession_live.cfg` | pass | `HandshakeCompletes`: under `CallerFairness`, both sides of XX reach `is_finished()` over a lossy, reordering channel with failing writes. |
| params_plain | `MCNoiseParams_plain.cfg` | pass | `ParseMatchesGrammar`, default build: `from_str` agrees with the grammar on 279 names, errors included. |
| params_hfs | `MCNoiseParams_hfs.cfg` | pass | `ParseMatchesGrammar`, hfs build: the same, with the `+` split and the KEM-iff-hfs check. |
| params_trailing | `MCNoiseParams_trailing.cfg` | violation | `ParseMatchesGrammar`: `from_str` accepts a sixth field and a third `+` part, which the grammar rejects (mod.rs:167, 183). |
| readpanic | `MCNoiseSession_readpanic.cfg` | violation | `NoReadPanic`: a read after the handshake finished indexes `message_patterns` out of bounds (line 270). |
| writepanic | `MCNoiseSession_writepanic.cfg` | violation | `NoWritePanic`: the S-token bound (line 194) leaves out TAGLEN, so encryption runs out of buffer. |
| turn | `MCNoiseSession_turn.cfg` | violation | `ReadRespectsTurn`: `read_handshake_message` never checks `my_turn`. |

These bounds are enough because the handshake runs at most three messages.
Every message a side can produce is on the wire. The small buffer sizes hit
each failing branch, and two values per key or psk let a stale or wrong value
show up as a different item in `h`. Each property of a passing run has a
mutant in `PROJECT.json` (a dropped restore, early `rs` enable, missing turn
check, payload length off by the tag, Noise-spelled table entry, AEAD
ignoring associated data) that TLC
catches under the same configuration.

The parser names use one accepted and one rejected word per field. `from_str`
compares whole words exactly, so any other rejected word behaves like `bad`.
Empty fields, the empty name and KEM suffixes are included because that is
where `split` and the hfs branch differ.

### Fairness

The code schedules nothing: progress depends entirely on the callers. Only the
run `live` assumes fairness, and it assumes it of the callers.
`CallerFairness` is weak fairness of "side p's `pattern_position`
advances", with the action's enabling condition written as the state predicate
`CanAdvance(p)`. That predicate says p has not panicked, and either a write
with the smallest payload and largest buffer would succeed, or reading the
peer's latest message would. (The predicate is spelled out because TLC is too slow with the literal form. With
`WF_vars(Next /\ Advances(p))`, even a one-ephemeral XX instance stalls
after about ten states: TLC re-evaluates the recursive token loops for
every transition and every ENABLED test.)
`HandshakeCompletes` is `CallerFairness => <>(both finished)`. Without the
assumption, TLC finds the behaviour in which a caller simply stops. The run
leaves out the buffer size at which a write panics (see `writepanic`), since a
panicking side can never finish.

## Not modelled

- The DH primitive is outside `src/`. `Dh` reports `Error::Dh` when the
  remote key is junk (from a corrupted or forged message), but X25519 would
  compute an output from any bytes. This only removes behaviours in which a
  side that already accepted a corrupted `e` goes on to write. That side's
  transcript has diverged anyway, so no run's verdict depends on it.
- The key slots `e`, `re` and `rs` keep what a failed read or write put in
  them. Only `sym` is restored. Spec sections 4.E and 9 document this as the
  design: a failed handshake is to be abandoned. No property treats it as a
  defect.
- In `xx`, `set_psk` changes only psk slot 0, which XX never reads, or is
  refused at slot 10. Psk changes that matter are checked in `ikpsk2`.

- The transport phase (`CipherState` nonces, rekey) and the builder and
  resolvers are outside `src/`.
- The payload buffer of a read is not modelled. The copy into it happens in
  `cipherstate.rs`, outside `src/`. `utils::copy_memory` has no caller under
  `src/`.
- The `fallback` and `hfs` modifiers are not modelled.
- The `TryFrom`/`TryInto` shims of `utils.rs` are trait plumbing with no
  state. `Toggle::into_inner` moves the value out and is never called by
  the handshake. The unit tests of `params/mod.rs` exercise modifier
  parsing in `patterns.rs`.
- `HandshakeChoice::from_str` (in `patterns.rs`) is modelled from the spec
  for `XX` and `XXhfs` only. Modifier parsing belongs to the pattern
  expander.

## Further work

1. More patterns (one-way N/K/X, KK, NK with psk0) where they ask a question
   the current runs do not.
2. Liveness under the corrupting channel. XX's first message is
   unauthenticated, so a corrupted one can be accepted and leave both sides
   stuck. A useful property must say what callers can still rely on.
