\* The connection can break at any time.
SPECIFICATION Spec
CONSTANTS
  Cmds = {c1, c2}
  Faults = TRUE
  TxErrors = FALSE
  Null = Null
  c1 = c1
  c2 = c2
SYMMETRY Symmetry
INVARIANTS
  OnReadAssertion
\* When the commands are used up and answered, nothing is left to do.
CHECK_DEADLOCK FALSE
