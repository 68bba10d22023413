------------------------------ MODULE FileRows ------------------------------
(***************************************************************************)
(* The rows of the table "files", the objects of the bucket and the        *)
(* removal of a file (src/src/files.rs), shared by the files a client      *)
(* sends through the server (Files) and those a browser sends to S3        *)
(* (Uploads).  A removal commits a row of file_deletion_outbox; the        *)
(* handler and the periodic pass both empty that table, in two steps of    *)
(* their own: delete_all_versions, then the deletion of the outbox row.    *)
(***************************************************************************)
EXTENDS Integers

CONSTANTS
  File,     \* file ids
  Key,      \* storage keys
  NoRow,    \* the file has no row yet
  Removed   \* the row has been deleted

ASSUME RowAssumption == NoRow \notin Key /\ Removed \notin Key /\ NoRow # Removed

VARIABLES
  row,        \* storage_key of each file's row
  stored,     \* keys that have an object version
  deletions,  \* file_deletion_outbox: keys to delete
  erased      \* keys a remover has emptied, their outbox row still there

rowVars == <<row, stored, deletions, erased>>

RowsTypeOK ==
  /\ row \in [File -> Key \cup {NoRow, Removed}]
  /\ stored \in SUBSET Key
  /\ deletions \in SUBSET Key
  /\ erased \in SUBSET Key

RowsInit ==
  /\ row = [f \in File |-> NoRow]
  /\ stored = {} /\ deletions = {} /\ erased = {}

Live(f) == row[f] \in Key

-----------------------------------------------------------------------------
\* Mutant: the object goes first, the row in a later transaction.
Remove_ObjectFirst(f) ==
  /\ Live(f)
  /\ stored' = stored \ {row[f]}
  /\ UNCHANGED <<row, deletions, erased>>

\* Mutant: the key is read after the row is gone.
Remove_KeyReadLate(f) ==
  /\ Live(f)
  /\ row' = [row EXCEPT ![f] = Removed]
  /\ deletions' = deletions \cup {row'[f]}
  /\ UNCHANGED <<stored, erased>>

\* Mutant: only the handler deletes the object, nothing durable is left.
Remove_NoOutbox(f) ==
  /\ Live(f)
  /\ row' = [row EXCEPT ![f] = Removed]
  /\ UNCHANGED <<stored, deletions, erased>>

\* The transaction of files::remove, for a file nothing refers to (Ledger has
\* the references).
Remove(f) ==
  /\ Live(f)
  /\ row' = [row EXCEPT ![f] = Removed]
  /\ deletions' = deletions \cup {row[f]}
  /\ UNCHANGED <<stored, erased>>

\* delete_pending: every version goes, in the handler or in the pass.
EraseObject(k) ==
  /\ k \in deletions
  /\ stored' = stored \ {k}
  /\ erased' = erased \cup {k}
  /\ UNCHANGED <<row, deletions>>

\* Mutant: the outbox row goes before the object.
ForgetDeletion_Early(k) ==
  /\ k \in deletions
  /\ deletions' = deletions \ {k}
  /\ UNCHANGED <<row, stored, erased>>

ForgetDeletion(k) ==
  /\ k \in erased
  /\ deletions' = deletions \ {k}
  /\ erased' = erased \ {k}
  /\ UNCHANGED <<row, stored>>

\* The remover stops between its two steps: an error, or the end of its server.
RemoverStops(k) ==
  /\ k \in erased
  /\ erased' = erased \ {k}
  /\ UNCHANGED <<row, stored, deletions>>

RemovalNext ==
  \E k \in Key : EraseObject(k) \/ ForgetDeletion(k) \/ RemoverStops(k)

-----------------------------------------------------------------------------
\* Direct uploads RFC, line 55: "every row in `files` names a complete,
\* immutable, owner-scoped object that can immediately be referenced and
\* downloaded": no row comes before its object or outlives it.
RowsBacked == \A f \in File : Live(f) => row[f] \in stored
=============================================================================
