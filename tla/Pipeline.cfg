\* Pipelined commands and a transaction of two commands; the link can break at any time.
SPECIFICATION Spec
CONSTANTS
  Cmds = {c1, c2, c3, c4}
  Faults = TRUE
  TxErrors = FALSE
  Null = Null
  c1 = c1
  c2 = c2
  c3 = c3
  c4 = c4
PROPERTIES
  ChannelSpec
  EveryCommandAnswered
\* When the commands are used up and answered, nothing is left to do.
CHECK_DEADLOCK FALSE
