\* An insert that commits, and whose answer is lost.
SPECIFICATION Spec
CONSTANTS
  File = {f1, f2}
  Key = {f1, f2}
  NoRow = NoRow
  Removed = Removed
  StorageKey <- IdKey
INVARIANT RowsBacked
CHECK_DEADLOCK FALSE
