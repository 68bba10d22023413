\* Every operation under good and bad tokens; URLs and links over time.
SPECIFICATION Spec
CONSTANTS
  x = x
  y = y
  Client = {x, y}
  Owner = {"o1", "o2"}
  File = {"f1"}
  Kid = {"k1", "k2"}
  Token <- MCToken
  Request <- MCRequest
  Asked <- MCAsked
  None = None
  ConvOwner <- MCConvOwner
  TurnConv <- MCTurnConv
  TurnAgent <- MCTurnAgent
  PublicUrl = TRUE
  Skew = 1
  MaxOwner = 3
  MaxDelegated = 3
  CapabilityTTL = 1
  Pause = 1
  MaxTime = 6
  MaxUrls = 2
CONSTRAINT Scope
SYMMETRY Clients
INVARIANTS AnsweredWithinToken AcceptedWindow GrantsAuthorized LinksBounded RemovedFileClosed
CHECK_DEADLOCK FALSE
