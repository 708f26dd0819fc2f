\* Names of up to three characters, and URLs with endings of up to four; IDs of two digits.
SPECIFICATION Spec
CONSTANTS
  Intents <- MCIntents
  Targets <- MCTargets
  IdLength = 2
INVARIANTS
  RoundTrip
  ReadSeparable
CHECK_DEADLOCK FALSE
