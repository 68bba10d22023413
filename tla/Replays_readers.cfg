\* An owner's client follows a conversation, or the agents of two turns ask
\* again and again, while it is written, cut off and written again.
\* The ids run out (MaxItems, MaxTurns), so the bounded system stops.
SPECIFICATION ReplaysSpec
CONSTANTS
  b1 = b1
  Conv = {c1}
  File = {f1}
  StartKey = {k1, k2}
  TurnKey = {tk}
  BatchKey = {b1, b2}
  Response = {}
  NewConv = NewConv
  NoKey = NoKey
  MaxSeq = 4
  MaxItems = 4
  MaxTurns = 2
  Payload <- MixedPayload
  Followed = c1
  PageLimit = 1
  Odd = {}
  AgentMaxItems = 3
CONSTRAINT Scope
INVARIANTS FollowerComplete HydrationResolves AgentAnswersComplete AgentAnswersAgree
CHECK_DEADLOCK FALSE
