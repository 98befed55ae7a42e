\* IKpsk2 (pre-known responder static, psk at the end of message 2), with
\* set_psk able to replace a psk by another value or be refused.  The
\* initiator uses a fixed ephemeral, as the test vectors build it; the
\* responder has no psk until a set_psk call.
CONSTANTS
  Pattern = "IK"
  Mods <- MCPsk2
  DHLEN = 2
  TAGLEN = 1
  MAXMSGLEN = 12
  NPSK = 10
  StaticKey <- MCStaticKey
  HasStatic = {"I", "R"}
  FixedEph = {"I"}
  EphKeys <- MCEphKeys
  PskInit <- MCPskInitLate
  PskKeys = {"pskA", "pskB"}
  PskLocations = {2, 10}
  Prologue <- MCPrologue
  ProtocolName <- MCProtocolName
  PayloadLens = {0, 1}
  BufLens = {5, 12}
  Corrupt = FALSE
  Forged = {}
SPECIFICATION Spec
INVARIANTS TranscriptAgreement NoiseDhSemantics
\* A read after the last message panics (handshakestate.rs:270); once both
\* sides have panicked no call is left, which TLC would report as deadlock.
CHECK_DEADLOCK FALSE
