------------------------------ MODULE MCUploads ------------------------------
(* Small instances of Uploads.  Attempts are interchangeable.              *)
EXTENDS Uploads, TLC

Keys == File \cup Attempt
AttemptSymmetry == Permutations(Attempt)
=============================================================================
