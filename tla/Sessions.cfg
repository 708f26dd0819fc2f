\* Renewal, logout, lost responses and expiry, requests taking up to half the grace period.
SPECIFICATION Spec
CONSTANTS
  Sessions = {s1, s2, s3}
  Requests = {r1, r2}
  Length = 6
  Grace = 2
  MaxDelay = 1
  Faults = TRUE
  Null = Null
  s1 = s1
  s2 = s2
  s3 = s3
  r1 = r1
  r2 = r2
SYMMETRY Symmetry
INVARIANTS
  TypeOK
  OneHeir
  RenewedSessionsEnd
PROPERTIES
  NoResurrection
  NoSpuriousLogout
  RenewalDelivered
  LogoutEnds
