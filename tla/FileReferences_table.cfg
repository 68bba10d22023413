\* A file that is sent, or one that is uploaded, next to a conversation that
\* comes to refer to it.
\* Ids and the clock run out, so the bounded system stops.
SPECIFICATION RefSpec
CONSTANTS
  Conv = {c1}
  Sent = {f1}
  Uploaded = {u1}
  File = {f1, u1}
  StartKey = {}
  TurnKey = {tk}
  BatchKey = {b1}
  Response = {}
  NewConv = NewConv
  NoKey = NoKey
  MaxSeq = 2
  MaxItems = 1
  MaxTurns = 1
  Payload <- FilePayload
  NoRow = NoRow
  Removed = Removed
  SentKey = {f1}
  StorageKey <- IdKey
  UploadKey <- UploadKeys
  Attempt = {a1, a2}
  Server = {s1}
  NoAttempt = NoAttempt
  TTL = 2
  FormTTL = 1
  Lease = 1
  Grace = 1
  SignDelay = 0
  LateCopies = FALSE
  MaxTime = 3
CONSTRAINT Scope
SYMMETRY AttemptSymmetry
INVARIANT ReferencesReadable
CHECK_DEADLOCK FALSE
