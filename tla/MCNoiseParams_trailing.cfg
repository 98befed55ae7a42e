\* Protocol-name parsing with the "hfs" feature: well-formed names with a
\* sixth field or a third '+' part in the DH field.
CONSTANTS
  HFS = TRUE
  Names <- MCLongNames
SPECIFICATION Spec
INVARIANT ParseMatchesGrammar
\* A from_str call returns and nothing follows it: every behaviour ends.
CHECK_DEADLOCK FALSE
