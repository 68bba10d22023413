\* Two clients start turns under the same keys, append, edit and refer to a file
\* that is removed; the scope keeps one kind of these at a time.
\* The ids run out (MaxItems, MaxTurns), so the bounded system stops.
SPECIFICATION TxSpec
CONSTANTS
  Conv = {c1}
  File = {f1}
  StartKey = {k1, k2}
  TurnKey = {tk}
  BatchKey = {b1, b2}
  Response = {r1}
  NewConv = NewConv
  NoKey = NoKey
  k1 = k1
  b1 = b1
  b2 = b2
  MaxSeq = 3
  MaxItems = 2
  MaxTurns = 2
  Client = {a, b}
  Payload <- MixedPayload
  TxRequest <- Requests
CONSTRAINT Scope
INVARIANTS AnswersAgree NoServerError RetryAnswersOwnItems NoDeadlock
PROPERTIES LedgerSpec
SYMMETRY ClientSymmetry
CHECK_DEADLOCK FALSE
