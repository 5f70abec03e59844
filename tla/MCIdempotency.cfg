CONSTANTS
  User = {alice, bob}
  Key = {key}
  Payload = {p1, p2}
  Request = {r1, r2, r3}
  Nobody = Nobody
SPECIFICATION Spec
SYMMETRY Interchangeable
INVARIANTS
  TypeOK
  ExclusiveRun
  RecordTellsOutcome
  ReplayIsFaithful
PROPERTIES
  OncePerRecord
CHECK_DEADLOCK FALSE
