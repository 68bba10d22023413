-------------------------- MODULE MCFileReferences --------------------------
(***************************************************************************)
(* Small instances of FileReferences: the union of one with a file that is *)
(* sent and one with a file that is uploaded.                              *)
(***************************************************************************)
EXTENDS FileReferences, TLC

IdKey == [f \in Sent |-> f]
UploadKeys == Uploaded \cup Attempt

\* An item names one file.
FilePayload == {<<{f}>> : f \in File}

NoUploads ==
  /\ now = 0 /\ \A u \in Uploaded : status[u] = "none"
  /\ \A a \in Attempt : pc[a] = "idle"
  /\ \A s \in Server : passing[s] = "idle"
NoSaves ==
  /\ \A f \in Sent : saving[f] = "idle"
  /\ \A c \in Conv : conv[c] # "deleted"

AttemptSymmetry == Permutations(Attempt)

Scope == NoUploads \/ NoSaves
=============================================================================
