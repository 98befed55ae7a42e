\* NN where a caller may pass a message of another session to a read.
CONSTANTS
  Pattern = "NN"
  Mods <- MCNoMods
  DHLEN = 2
  TAGLEN = 1
  MAXMSGLEN = 8
  NPSK = 10
  StaticKey <- MCStaticKey
  HasStatic = {"I", "R"}
  FixedEph = {}
  EphKeys <- MCEphKeys
  PskInit <- MCPskInit
  PskKeys = {"pskA"}
  PskLocations = {0}
  Prologue <- MCPrologue
  ProtocolName <- MCProtocolName
  PayloadLens = {0}
  BufLens = {8}
  Corrupt = FALSE
  Forged <- MCForged
SPECIFICATION Spec
PROPERTY ReadRespectsTurn
CHECK_DEADLOCK FALSE
