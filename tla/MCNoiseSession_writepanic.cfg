\* XX with a buffer that fits the static key but not its tag.
CONSTANTS
  Pattern = "XX"
  Mods <- MCNoMods
  DHLEN = 2
  TAGLEN = 1
  MAXMSGLEN = 8
  NPSK = 10
  StaticKey <- MCStaticKey
  HasStatic = {"I", "R"}
  FixedEph = {}
  EphKeys <- MCEphKeys
  PskInit <- MCPskInit
  PskKeys = {"pskA"}
  PskLocations = {0}
  Prologue <- MCPrologue
  ProtocolName <- MCProtocolName
  PayloadLens = {0}
  BufLens = {4, 8}
  Corrupt = FALSE
  Forged = {}
SPECIFICATION Spec
INVARIANT NoWritePanic
CHECK_DEADLOCK FALSE
