\* Two attempts on one session, copies that may come late.
\* The clock stops at MaxTime, so the bounded system stops.
SPECIFICATION Spec
CONSTANTS
  File = {u1}
  Attempt = {a1, a2}
  Server = {s1}
  Key <- Keys
  NoRow = NoRow
  Removed = Removed
  NoAttempt = NoAttempt
  TTL = 3
  FormTTL = 1
  Lease = 2
  Grace = 1
  SignDelay = 0
  LateCopies = TRUE
  MaxTime = 5
INVARIANTS TypeOK CommittedKept
PROPERTIES LeaseRespected ContractSpec
SYMMETRY AttemptSymmetry
CHECK_DEADLOCK FALSE
