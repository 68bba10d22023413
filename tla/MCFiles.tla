------------------------------- MODULE MCFiles -------------------------------
(* Small instances of Files: the key of a file is the file's id.           *)
EXTENDS Files

IdKey == [f \in File |-> f]
=============================================================================
