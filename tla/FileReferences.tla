--------------------------- MODULE FileReferences ---------------------------
(***************************************************************************)
(* The table "files" and all who use it.  Ledger has it as the life of a   *)
(* file id: transcripts refer to rows, and a row that is referred to is    *)
(* not removed.  Files and Uploads have the objects behind the rows: the   *)
(* saves that pass through the server, the uploads of browsers, and what   *)
(* clean-up passes delete.  Here all three run together over one table.    *)
(*                                                                         *)
(* The instances are of the proof modules, so that what is proved there    *)
(* can be cited here.                                                      *)
(***************************************************************************)
EXTENDS Ledger

CONSTANTS
  Sent,       \* ids of files sent through the server
  Uploaded,   \* ids of files that browsers upload
  NoRow, Removed,
  SentKey, StorageKey,                              \* of Files
  UploadKey, Attempt, Server, NoAttempt, TTL, FormTTL, Lease, Grace, SignDelay,
  LateCopies, MaxTime                               \* of Uploads

ASSUME TableAssumption == File = Sent \cup Uploaded /\ Sent \cap Uploaded = {}

VARIABLES
  sentRow, sentStored, sentDeletions, sentErased, saving,          \* of Files
  row, stored, deletions, erased, now, status, expires, lease, leaseEnd,
  candidate, formEnd, signing, pc, of, began, inflight, queue, issue, work,
  emptied, passing                                                 \* of Uploads

F == INSTANCE FilesProofs WITH
       File <- Sent, Key <- SentKey, row <- sentRow, stored <- sentStored,
       deletions <- sentDeletions, erased <- sentErased
U == INSTANCE UploadsProofs WITH File <- Uploaded, Key <- UploadKey

ASSUME PartsAssumption ==
  /\ F!RowAssumption /\ F!KeyAssumption
  /\ U!RowAssumption /\ U!KeyAssumption /\ U!TimeAssumption

sentVars == <<sentRow, sentStored, sentDeletions, sentErased, saving>>
uploadedVars ==
  <<row, stored, deletions, erased, now, status, expires, lease, leaseEnd,
    candidate, formEnd, signing, pc, of, began, inflight, queue, issue, work,
    emptied, passing>>
refVars == <<vars, sentVars, uploadedVars>>

-----------------------------------------------------------------------------
\* The two kinds of ids and of keys are apart, so a row is in one of the two
\* parts of the table and its object in one of the two parts of the bucket.
HasRow(f) == IF f \in Sent THEN F!Live(f) ELSE U!Live(f)
HasObject(f) == IF f \in Sent THEN sentRow[f] \in sentStored ELSE row[f] \in stored

\* What one of them commits the others see.
OneTable == \A f \in File : Live(f) <=> HasRow(f)

\* Who makes requests has the id of a sent file from the answer of its save.
NamesKnown == \A f \in Sent : Referenced(f) => saving[f] = "answered"

RefInit == Init /\ F!Init /\ U!Init

\* What a step of Files or Uploads is in the ledger: a row is inserted, or is
\* removed and nothing refers to it, or the table stays as it is.
TableStep == UNCHANGED vars \/ \E f \in File : SaveFile(f) \/ RemoveFile(f)

\* What the saves and the uploads see of a transaction on transcripts.
Elsewhere == file' = file /\ UNCHANGED <<sentVars, uploadedVars>> /\ NamesKnown'

ObjectStep ==
  /\ \/ F!Next /\ UNCHANGED uploadedVars
     \/ U!Next /\ UNCHANGED sentVars
  /\ TableStep

RefNext == ((Next /\ Elsewhere) \/ ObjectStep) /\ OneTable'

RefSpec == RefInit /\ [][RefNext]_refVars

-----------------------------------------------------------------------------
\* Whatever a transcript or a turn refers to can be downloaded: the row of the
\* file is there and the object of the row is in the bucket, however saves are
\* undone, uploads taken over, files removed and keys cleaned meanwhile
\* (store.rs:708-724, files.rs:101-123, uploads.rs:324-345).
ReferencesReadable == \A f \in File : Referenced(f) => HasRow(f) /\ HasObject(f)
=============================================================================
