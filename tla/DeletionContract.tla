--------------------------- MODULE DeletionContract ---------------------------
(***************************************************************************)
(* What the deletion outboxes promise, without workers, pages or failures: *)
(* only versions of a key that is pending are deleted, and a key stays     *)
(* pending until none is left that counts (service-authorization RFC, line *)
(* 426; direct uploads RFC, line 594).                                     *)
(***************************************************************************)
CONSTANTS
  Key,
  Late,      \* keys that get versions while they are pending
  Version
VARIABLES
  left,      \* the versions of each key that have to go
  pending,   \* keys to delete
  asked      \* keys that ever were

Init == left \in [Key -> SUBSET Version] /\ pending = {} /\ asked = {}

Ask(k) ==
  /\ k \notin asked
  /\ pending' = pending \cup {k} /\ asked' = asked \cup {k}
  /\ UNCHANGED left

Arrive(k, v) ==
  /\ k \in pending \cap Late
  /\ left' = [left EXCEPT ![k] = @ \cup {v}]
  /\ UNCHANGED <<pending, asked>>

Lose(k, v) ==
  /\ k \in pending /\ v \in left[k]
  /\ left' = [left EXCEPT ![k] = @ \ {v}]
  /\ UNCHANGED <<pending, asked>>

Forget(k) ==
  /\ k \in pending /\ left[k] = {}
  /\ pending' = pending \ {k}
  /\ UNCHANGED <<left, asked>>

Next ==
  \E k \in Key :
    Ask(k) \/ Forget(k) \/ \E v \in Version : Arrive(k, v) \/ Lose(k, v)

Spec == Init /\ [][Next]_<<left, pending, asked>>
=============================================================================
