---------------------------- MODULE UploadContract ----------------------------
(***************************************************************************)
(* What direct uploads promise, without leases, attempts, objects or       *)
(* clocks: a session opens once, ends once, and makes at most one file,    *)
(* which is readable from the step that completes the session until its    *)
(* owner removes it (direct uploads RFC, lines 525-541).                   *)
(***************************************************************************)
CONSTANT File
VARIABLES
  session,  \* "none", "open", "completed", "expired"
  file      \* "absent", "readable", "removed"

Init ==
  /\ session = [u \in File |-> "none"]
  /\ file = [u \in File |-> "absent"]

Open(u) ==
  /\ session[u] = "none"
  /\ session' = [session EXCEPT ![u] = "open"]
  /\ UNCHANGED file

Publish(u) ==
  /\ session[u] = "open" /\ file[u] = "absent"
  /\ session' = [session EXCEPT ![u] = "completed"]
  /\ file' = [file EXCEPT ![u] = "readable"]

\* One cleanup transaction may end several sessions.
Expire(gone) ==
  /\ \A u \in gone : session[u] = "open"
  /\ session' = [u \in File |-> IF u \in gone THEN "expired" ELSE session[u]]
  /\ UNCHANGED file

Remove(u) ==
  /\ file[u] = "readable"
  /\ file' = [file EXCEPT ![u] = "removed"]
  /\ UNCHANGED session

Next ==
  \/ \E u \in File : Open(u) \/ Publish(u) \/ Remove(u)
  \/ \E gone \in SUBSET File : Expire(gone)

Spec == Init /\ [][Next]_<<session, file>>
=============================================================================
