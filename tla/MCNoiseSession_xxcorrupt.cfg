\* XX over a channel that may also corrupt, truncate or extend messages.
CONSTANTS
  Pattern = "XX"
  Mods <- MCNoMods
  DHLEN = 2
  TAGLEN = 1
  MAXMSGLEN = 7
  NPSK = 10
  StaticKey <- MCStaticKey
  HasStatic = {"I", "R"}
  FixedEph = {}
  EphKeys <- MCEphKeys
  PskInit <- MCPskInit
  PskKeys = {"pskA"}
  PskLocations = {0}
  Prologue <- MCPrologue
  ProtocolName <- MCProtocolName
  PayloadLens = {0, 1}
  BufLens = {8}
  Corrupt = TRUE
  Forged = {}
SPECIFICATION Spec
INVARIANTS FinishedAgreement WriteEncryptionReported
\* A read after the last message panics (handshakestate.rs:270); once both
\* sides have panicked no call is left, which TLC would report as deadlock.
CHECK_DEADLOCK FALSE
PROPERTY Refinement
