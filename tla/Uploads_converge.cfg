\* Every request and pass may stop, forms are signed late, copies land in
\* their lease or not at all.
\* The clock stops at MaxTime, so the bounded system stops.
SPECIFICATION FairSpec
CONSTANTS
  File = {u1}
  Attempt = {a1}
  Server = {s1}
  Key <- Keys
  NoRow = NoRow
  Removed = Removed
  NoAttempt = NoAttempt
  TTL = 3
  FormTTL = 1
  Lease = 2
  Grace = 2
  SignDelay = 1
  LateCopies = FALSE
  MaxTime = 6
INVARIANTS EveryObjectTracked CleanAfterForms
PROPERTIES SessionsEnd Converges
CHECK_DEADLOCK FALSE
