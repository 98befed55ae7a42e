\* Protocol-name parsing, with the "hfs" feature: names of up to five fields.
CONSTANTS
  HFS = TRUE
  Names <- MCNames
SPECIFICATION Spec
INVARIANT ParseMatchesGrammar
\* A from_str call returns and nothing follows it: every behaviour ends.
CHECK_DEADLOCK FALSE
