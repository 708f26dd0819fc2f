\* The connection can break, and redis can refuse to queue a command.
SPECIFICATION Spec
CONSTANTS
  Cmds = {c1, c2, c3, c4}
  Faults = TRUE
  TxErrors = TRUE
  Null = Null
  c1 = c1
  c2 = c2
  c3 = c3
  c4 = c4
SYMMETRY Symmetry
INVARIANTS
  OneRead
  CleanReuse
\* When the commands are used up and answered, nothing is left to do.
CHECK_DEADLOCK FALSE
