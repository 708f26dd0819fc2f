\* Two sessions; one socket more than can be in use.
SPECIFICATION Spec
CONSTANTS
  Sessions = {s1, s2}
  Ops = {"view", "login", "upload", "invalid"}
  Descriptors = 6
  MaxDraining = 1
  s1 = s1
  s2 = s2
INVARIANTS
  SocketsBounded
  OneResponseEach
PROPERTIES
  
  CommandsAnswered
  
