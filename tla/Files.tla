-------------------------------- MODULE Files --------------------------------
(***************************************************************************)
(* Files sent through the server: files::save and files::remove of         *)
(* src/src/files.rs.  save puts the object, inserts the row and answers;   *)
(* if the insert answers with an error it deletes the object again.  The   *)
(* error may come from a connection lost after the database committed.     *)
(***************************************************************************)
EXTENDS FileRows

CONSTANT StorageKey   \* the key save makes of the file's id

ASSUME KeyAssumption ==
  /\ StorageKey \in [File -> Key]
  /\ \A f, g \in File : StorageKey[f] = StorageKey[g] => f = g

VARIABLE saving   \* where the request that makes the file is

vars == <<rowVars, saving>>

Saving == {"idle", "put", "inserted", "undoing", "answered", "failed"}

TypeOK == RowsTypeOK /\ saving \in [File -> Saving]

Init == RowsInit /\ saving = [f \in File |-> "idle"]

Moves(f, from, to) ==
  /\ saving[f] = from
  /\ saving' = [saving EXCEPT ![f] = to]

-----------------------------------------------------------------------------
PutObject(f) ==
  /\ Moves(f, "idle", "put")
  /\ stored' = stored \cup {StorageKey[f]}
  /\ UNCHANGED <<row, deletions, erased>>

\* An error of S3 does not say whether the object is there.
PutFails(f) ==
  /\ Moves(f, "idle", "failed")
  /\ stored' \in {stored, stored \cup {StorageKey[f]}}
  /\ UNCHANGED <<row, deletions, erased>>

InsertRow(f) ==
  /\ Moves(f, "put", "inserted")
  /\ row' = [row EXCEPT ![f] = StorageKey[f]]
  /\ UNCHANGED <<stored, deletions, erased>>

AnswerSave(f) == Moves(f, "inserted", "answered") /\ UNCHANGED rowVars

\* The insert fails, or it commits and the answer is lost.
InsertFails(f) ==
  /\ Moves(f, "put", "undoing") \/ Moves(f, "inserted", "undoing")
  /\ UNCHANGED rowVars

\* The clean-up of an untracked object; its own failure is only logged.
UndoPut(f) ==
  /\ Moves(f, "undoing", "failed")
  /\ stored' \in {stored, stored \ {StorageKey[f]}}
  /\ UNCHANGED <<row, deletions, erased>>

SaverStops(f) ==
  /\ \/ Moves(f, "put", "failed")
     \/ Moves(f, "inserted", "failed")
     \/ Moves(f, "undoing", "failed")
  /\ UNCHANGED rowVars

\* A client knows the ids it was answered.
RemoveAnswered(f) ==
  /\ saving[f] = "answered"
  /\ Remove(f)
  /\ UNCHANGED saving

Next ==
  \/ \E f \in File :
       \/ PutObject(f) \/ PutFails(f)
       \/ InsertRow(f) \/ InsertFails(f) \/ AnswerSave(f)
       \/ UndoPut(f) \/ SaverStops(f)
       \/ RemoveAnswered(f)
  \/ RemovalNext /\ UNCHANGED saving

\* The pass runs every minute and S3 does not fail for ever.
Fairness == \A k \in Key : WF_vars(EraseObject(k) /\ UNCHANGED saving)

Spec == Init /\ [][Next]_vars /\ Fairness

-----------------------------------------------------------------------------
\* The object of a file whose save was answered is there as long as the row
\* is, whatever other saves undo and removers delete (files.rs:36-57, 85-171).
AnsweredBacked ==
  \A f \in File : saving[f] = "answered" /\ Live(f) => row[f] \in stored

\* An object of an answered save is never lost track of: it has its row, or
\* file_deletion_outbox still holds its key (service-authorization RFC, line
\* 426: the outbox row goes "only after successful object deletion").
AnsweredTracked ==
  \A f \in File :
    saving[f] = "answered" /\ StorageKey[f] \in stored =>
      row[f] = StorageKey[f] \/ StorageKey[f] \in deletions

\* The object of a removed file goes and does not come back, although
\* removers stop between any two of their steps.
DeletionsConverge ==
  \A f \in File : row[f] = Removed ~> [](StorageKey[f] \notin stored)
=============================================================================
