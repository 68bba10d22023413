\* Turn starts, and numbers handed out, cut off and handed out again.
\* The ids run out (MaxItems, MaxTurns), so the bounded system stops.
SPECIFICATION Spec
CONSTANTS
  k1 = k1
  b1 = b1
  Conv = {c1}
  File = {}
  StartKey = {k1, k2}
  TurnKey = {tk}
  BatchKey = {b1, b2}
  Response = {r1}
  NewConv = NewConv
  NoKey = NoKey
  MaxSeq = 4
  MaxItems = 4
  MaxTurns = 3
  Payload <- PlainPayload
CONSTRAINT Scope
INVARIANTS TypeOK OneActiveTurn SequenceDiscipline
PROPERTIES StartLifecycle BatchKeepsItsItems CheckpointCoversFixedTranscript AgentContextStable
CHECK_DEADLOCK FALSE
