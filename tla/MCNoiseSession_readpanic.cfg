\* NN over a reliable channel: a read after the handshake has finished.
CONSTANTS
  Pattern = "NN"
  Mods <- MCNoMods
  DHLEN = 2
  TAGLEN = 1
  MAXMSGLEN = 8
  NPSK = 10
  StaticKey <- MCStaticKey
  HasStatic = {"I", "R"}
  FixedEph = {}
  EphKeys <- MCEphKeys
  PskInit <- MCPskInit
  PskKeys = {"pskA"}
  PskLocations = {0}
  Prologue <- MCPrologue
  ProtocolName <- MCProtocolName
  PayloadLens = {0}
  BufLens = {8}
  Corrupt = FALSE
  Forged = {}
SPECIFICATION Spec
INVARIANT NoReadPanic
CHECK_DEADLOCK FALSE
