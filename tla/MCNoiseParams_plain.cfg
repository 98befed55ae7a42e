\* Protocol-name parsing, default build: names of up to five fields.
CONSTANTS
  HFS = FALSE
  Names <- MCNames
SPECIFICATION Spec
INVARIANT ParseMatchesGrammar
\* A from_str call returns and nothing follows it: every behaviour ends.
CHECK_DEADLOCK FALSE
