\* Two files, saved and removed with failures at every step.
\* Every request may end, so the bounded system stops.
SPECIFICATION Spec
CONSTANTS
  File = {f1, f2}
  Key = {f1, f2}
  NoRow = NoRow
  Removed = Removed
  StorageKey <- IdKey
INVARIANTS AnsweredBacked AnsweredTracked
PROPERTY DeletionsConverge
CHECK_DEADLOCK FALSE
