\* XX over a channel that loses, reorders and duplicates but never corrupts.
CONSTANTS
  Pattern = "XX"
  Mods <- MCNoMods
  DHLEN = 2
  TAGLEN = 1
  MAXMSGLEN = 6
  NPSK = 10
  StaticKey <- MCStaticKey
  HasStatic = {"I", "R"}
  FixedEph = {}
  EphKeys <- MCEphKeys
  PskInit <- MCPskInit
  PskKeys = {"pskA"}
  PskLocations = {0, 10}
  Prologue <- MCPrologue
  ProtocolName <- MCProtocolName
  PayloadLens = {0, 1}
  BufLens = {1, 4, 8}
  Corrupt = FALSE
  Forged = {}
SPECIFICATION Spec
INVARIANTS TranscriptAgreement RemoteStaticGenuine PayloadLenReturned
PROPERTY Refinement
\* A read after the last message panics (handshakestate.rs:270); once both
\* sides have panicked no call is left, which TLC would report as deadlock.
CHECK_DEADLOCK FALSE
