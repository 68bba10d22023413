\* A truncation between the read and the insert of create_continuation.
SPECIFICATION Spec
CONSTANTS
  k1 = k1
  b1 = b1
  Conv = {c1}
  File = {}
  StartKey = {k1}
  TurnKey = {}
  BatchKey = {b1, b2}
  Response = {r1}
  NewConv = NewConv
  NoKey = NoKey
  MaxSeq = 4
  MaxItems = 4
  MaxTurns = 2
  Payload <- PlainPayload
INVARIANT ContinuationInTranscript
CHECK_DEADLOCK FALSE
