---------------------------- MODULE UploadsProofs ----------------------------
(***************************************************************************)
(* Proofs about Uploads: types, the safety of committed content, leases,   *)
(* the implementation of UploadContract, and what uploads leave behind:    *)
(* forms end before their staging key is declared clean, and no object is  *)
(* lost track of.                                                          *)
(***************************************************************************)
EXTENDS Uploads, TLAPS

\* The times a row or a form may be given.
LEMMA TimesType ==
  ASSUME TypeOK, NEW u \in File
  PROVE  /\ FormExpiry(u) \in Nat
         /\ Later(formEnd[u], FormExpiry(u)) \in Nat
         /\ \A a \in Attempt : StagingDue(a) \in Nat
BY TimeAssumption DEF TypeOK, FormExpiry, Later, Sooner, StagingDue

\* Enqueue keeps the types of the outbox.
LEMMA EnqueueType ==
  ASSUME TypeOK, NEW keys \in SUBSET Key, NEW at \in Nat, Enqueue(keys, at)
  PROVE  /\ queue' \in [Key -> Nat \cup {NotQueued}]
         /\ issue' \in [Key -> Nat]
BY DEF TypeOK, Enqueue

-----------------------------------------------------------------------------
\* The initial state is well typed.
LEMMA TypeInit == Init => TypeOK
BY KeyAssumption, RowAssumption, TimeAssumption
   DEF Init, RowsInit, TypeOK, RowsTypeOK, NotQueued, NoRead, Running

\* Every step keeps the types.
LEMMA TypeStep == TypeOK /\ [Next]_vars => TypeOK'
<1> USE KeyAssumption, RowAssumption, TimeAssumption
<1> USE DEF sessionVars, formVars, attemptVars, outboxVars, passVars, rowVars
<1> SUFFICES ASSUME TypeOK, [Next]_vars
             PROVE  TypeOK'
  OBVIOUS
<1>1. CASE Tick
  BY <1>1 DEF Tick, TypeOK, RowsTypeOK
<1>2. ASSUME NEW u \in File, CreateSession(u)
      PROVE  TypeOK'
  BY <1>2 DEF CreateSession, TypeOK, RowsTypeOK
<1>3. ASSUME NEW u \in File, ReadSession(u)
      PROVE  TypeOK'
  BY <1>3 DEF ReadSession, TypeOK, RowsTypeOK
<1>4. ASSUME NEW u \in File, SignForm(u)
      PROVE  TypeOK'
  BY <1>4, TimesType DEF SignForm, TypeOK, RowsTypeOK
<1>5. ASSUME NEW u \in File, PostForm(u)
      PROVE  TypeOK'
  BY <1>5 DEF PostForm, uploadVars, TypeOK, RowsTypeOK
<1>6. ASSUME NEW u \in File, Remove(u), UNCHANGED uploadVars
      PROVE  TypeOK'
  BY <1>6 DEF Remove, Live, uploadVars, TypeOK, RowsTypeOK
<1>7. ASSUME NEW a \in Attempt, NEW u \in File, Claim(a, u)
      PROVE  TypeOK'
  <2>1. /\ {candidate[u]} \cap Attempt \in SUBSET Key
        /\ began[a] \in Nat
        /\ Enqueue({candidate[u]} \cap Attempt, began[a])
    BY <1>7 DEF Claim, TypeOK
  <2>2. /\ queue' \in [Key -> Nat \cup {NotQueued}]
        /\ issue' \in [Key -> Nat]
    BY <2>1, EnqueueType
  <2>3. /\ pc' \in [Attempt -> Running \cup {"idle", "done"}]
        /\ of' \in [Attempt -> File \cup {NoAttempt}]
        /\ candidate' \in [File -> Attempt \cup {NoAttempt}]
    BY <1>7 DEF Claim, Moves, TypeOK, Running
  <2>4. /\ status' = [status EXCEPT ![u] = "finalizing"]
        /\ lease' = [lease EXCEPT ![u] = a]
        /\ leaseEnd' = [leaseEnd EXCEPT ![u] = began[a] + Lease]
        /\ began' = [began EXCEPT ![a] = 0]
        /\ UNCHANGED <<rowVars, now, expires, formVars, inflight, passVars>>
    BY <1>7 DEF Claim
  <2>5. leaseEnd' \in [File -> Nat] /\ began' \in [Attempt -> 0..now']
    BY <2>1, <2>4 DEF TypeOK
  <2>6. \A v \in File : lease'[v] \in Attempt <=> status'[v] = "finalizing"
    BY <2>4 DEF TypeOK
  <2> QED
    BY <2>2, <2>3, <2>4, <2>5, <2>6 DEF TypeOK, RowsTypeOK
<1>8. ASSUME NEW a \in Attempt,
             \/ BeginClaim(a) \/ RejectStaged(a) \/ CopyAnswered(a)
             \/ AcceptCandidate(a) \/ AttemptStops(a)
      PROVE  TypeOK'
  BY <1>8 DEF BeginClaim, RejectStaged, CopyAnswered, AcceptCandidate, AttemptStops,
              AttemptStep, Moves, TypeOK, RowsTypeOK, Running
<1>9. ASSUME NEW a \in Attempt, SendCopy(a)
      PROVE  TypeOK'
  BY <1>9 DEF SendCopy, Moves, TypeOK, RowsTypeOK, Running
<1>10. ASSUME NEW a \in Attempt, CopyLands(a)
       PROVE  TypeOK'
  BY <1>10 DEF CopyLands, TypeOK, RowsTypeOK
<1>11. ASSUME NEW a \in Attempt, RejectCandidate(a)
       PROVE  TypeOK'
  <2>1. {a} \in SUBSET Key /\ now \in Nat /\ Enqueue({a}, now)
    BY <1>11 DEF RejectCandidate, TypeOK
  <2>2. /\ queue' \in [Key -> Nat \cup {NotQueued}]
        /\ issue' \in [Key -> Nat]
    BY <2>1, EnqueueType
  <2> QED
    BY <1>11, <2>2 DEF RejectCandidate, Moves, TypeOK, RowsTypeOK, Running
<1>12. ASSUME NEW a \in Attempt, Restore(a)
       PROVE  TypeOK'
  BY <1>12 DEF Restore, HoldsLease, Moves, TypeOK, RowsTypeOK, Running
<1>13. ASSUME NEW a \in Attempt, BeginCommit(a)
       PROVE  TypeOK'
  BY <1>13 DEF BeginCommit, Moves, TypeOK, RowsTypeOK, Running
<1>14. ASSUME NEW a \in Attempt, Commit(a)
       PROVE  TypeOK'
  <2>1. /\ queue' \in [Key -> Nat \cup {NotQueued}]
        /\ issue' \in [Key -> Nat]
    BY <1>14, EnqueueType, TimesType, ZenonT(60)
       DEF Commit, MayCommit, HoldsLease, TypeOK
  <2>2. /\ row' \in [File -> Key \cup {NoRow, Removed}]
        /\ leaseEnd' \in [File -> Nat]
    BY <1>14 DEF Commit, TypeOK, RowsTypeOK
  <2>3. pc' \in [Attempt -> Running \cup {"idle", "done"}]
    BY <1>14 DEF Commit, Moves, TypeOK, Running
  <2>4. began' \in [Attempt -> 0..now']
    <3>1. now' = now /\ began' = [began EXCEPT ![a] = 0]
      BY <1>14 DEF Commit
    <3> QED
      BY <3>1 DEF TypeOK
  <2>5. /\ status' = [status EXCEPT ![of[a]] = "completed"]
        /\ lease' = [lease EXCEPT ![of[a]] = NoAttempt]
        /\ UNCHANGED <<stored, deletions, erased, now, expires, candidate,
                       formVars, of, inflight, passVars>>
    BY <1>14 DEF Commit
  <2>6. \A v \in File : lease'[v] \in Attempt <=> status'[v] = "finalizing"
    BY <2>5 DEF TypeOK
  <2> QED
    BY <2>1, <2>2, <2>3, <2>4, <2>5, <2>6 DEF TypeOK, RowsTypeOK
<1>15. ASSUME NEW s \in Server, ExpireSessions(s)
       PROVE  TypeOK'
  <2> DEFINE gone == {u \in File : Abandoned(u)}
  <2>1. gone \cup ({candidate[u] : u \in gone} \cap Attempt) \in SUBSET Key
    OBVIOUS
  <2>2. /\ queue' \in [Key -> Nat \cup {NotQueued}]
        /\ issue' \in [Key -> Nat]
    BY <1>15, <2>1, EnqueueType DEF ExpireSessions, TypeOK
  <2> HIDE DEF gone
  <2>3. /\ passing' = [passing EXCEPT ![s] = "selecting"]
        /\ status' = [u \in File |->
                        IF u \in gone THEN "cleanup_pending" ELSE status[u]]
        /\ lease' = [u \in File |->
                       IF u \in gone THEN NoAttempt ELSE lease[u]]
        /\ leaseEnd' = [u \in File |-> IF u \in gone THEN 0 ELSE leaseEnd[u]]
        /\ UNCHANGED <<rowVars, now, expires, candidate, formVars,
                       attemptVars, work, emptied>>
    BY <1>15 DEF ExpireSessions, gone
  <2> QED
    BY <2>2, <2>3 DEF TypeOK, RowsTypeOK
<1>16. ASSUME NEW s \in Server, SelectDue(s)
       PROVE  TypeOK'
  <2>1. {[key |-> k, issue |-> issue[k]] :
           k \in {q \in Key : Queued(q) /\ queue[q] <= now}} \subseteq Entry
    BY DEF TypeOK, Entry
  <2> QED
    BY <1>16, <2>1 DEF SelectDue, TypeOK, RowsTypeOK
<1>17. ASSUME NEW s \in Server, NEW e \in work[s],
              SweepKey(s, e) \/ SkipKey(s, e)
       PROVE  TypeOK'
  BY <1>17 DEF SweepKey, SkipKey, TypeOK, RowsTypeOK
<1>18. ASSUME NEW s \in Server, DropRow(s)
       PROVE  TypeOK'
  BY <1>18 DEF DropRow, TypeOK, RowsTypeOK, Entry, NotQueued
<1>19. ASSUME NEW s \in Server, EndPass(s) \/ PassStops(s)
       PROVE  TypeOK'
  BY <1>19 DEF EndPass, PassStops, TypeOK, RowsTypeOK
<1>20. CASE RemovalNext /\ UNCHANGED uploadVars
  BY <1>20 DEF RemovalNext, EraseObject, ForgetDeletion, RemoverStops,
               uploadVars, TypeOK, RowsTypeOK
<1>21. CASE UNCHANGED vars
  BY <1>21 DEF vars, uploadVars, TypeOK, RowsTypeOK
<1> QED
  BY <1>1, <1>2, <1>3, <1>4, <1>5, <1>6, <1>7, <1>8, <1>9, <1>10, <1>11,
     <1>12, <1>13, <1>14, <1>15, <1>16, <1>17, <1>18, <1>19, <1>20, <1>21
     DEF Next, SessionNext, AttemptNext, PassNext

\* Every reachable state is well typed, and a lease token is set exactly
\* while its session is finalizing.
THEOREM TypeCorrect == Spec => []TypeOK
BY TypeInit, TypeStep, PTL DEF Spec

-----------------------------------------------------------------------------
(* What one step can do to a session, to an attempt, to a key.             *)

LEMMA SessionSteps ==
  ASSUME TypeOK, [Next]_vars, NEW u \in File
  PROVE  \/ /\ lease'[u] = lease[u] /\ candidate'[u] = candidate[u]
            /\ row'[u] = row[u]
            /\ \/ status'[u] = status[u]
               \/ status[u] = "none" /\ status'[u] = "pending"
         \/ \E a \in Attempt : Claim(a, u)
         \/ \E a \in Attempt : Restore(a) /\ of[a] = u
         \/ \E a \in Attempt : Commit(a) /\ of[a] = u
         \/ Abandoned(u) /\ \E s \in Server : ExpireSessions(s)
         \/ Remove(u) /\ UNCHANGED uploadVars
<1> USE DEF vars, rowVars, uploadVars, sessionVars, formVars, attemptVars,
            outboxVars, passVars
<1>1. CASE Tick \/ UNCHANGED vars
  BY <1>1 DEF Tick
<1>2. ASSUME NEW v \in File, SessionNext(v)
      PROVE  \/ /\ lease'[u] = lease[u] /\ candidate'[u] = candidate[u]
                /\ row'[u] = row[u]
                /\ \/ status'[u] = status[u]
                   \/ status[u] = "none" /\ status'[u] = "pending"
             \/ Remove(u) /\ UNCHANGED uploadVars
  BY <1>2 DEF SessionNext, CreateSession, ReadSession, SignForm, PostForm,
              Remove, TypeOK, RowsTypeOK
<1>3. ASSUME NEW a \in Attempt, AttemptNext(a)
      PROVE  \/ /\ lease'[u] = lease[u] /\ candidate'[u] = candidate[u]
                /\ row'[u] = row[u] /\ status'[u] = status[u]
             \/ Claim(a, u)
             \/ Restore(a) /\ of[a] = u
             \/ Commit(a) /\ of[a] = u
  <2>1. ASSUME NEW v \in File, Claim(a, v), v # u
        PROVE  /\ lease'[u] = lease[u] /\ candidate'[u] = candidate[u]
               /\ row'[u] = row[u] /\ status'[u] = status[u]
    BY <2>1 DEF Claim, TypeOK
  <2>2. ASSUME Restore(a), of[a] # u
        PROVE  /\ lease'[u] = lease[u] /\ candidate'[u] = candidate[u]
               /\ row'[u] = row[u] /\ status'[u] = status[u]
    BY <2>2 DEF Restore, TypeOK
  <2>3. ASSUME Commit(a), of[a] # u
        PROVE  /\ lease'[u] = lease[u] /\ candidate'[u] = candidate[u]
               /\ row'[u] = row[u] /\ status'[u] = status[u]
    BY <2>3 DEF Commit, TypeOK, RowsTypeOK
  <2> QED
    BY <1>3, <2>1, <2>2, <2>3
       DEF AttemptNext, BeginClaim, RejectStaged, SendCopy, CopyLands,
           CopyAnswered, AcceptCandidate, RejectCandidate, BeginCommit,
           AttemptStops, AttemptStep
<1>4. ASSUME NEW s \in Server, PassNext(s)
      PROVE  \/ /\ lease'[u] = lease[u] /\ candidate'[u] = candidate[u]
                /\ row'[u] = row[u] /\ status'[u] = status[u]
             \/ Abandoned(u) /\ ExpireSessions(s)
  <2>1. ASSUME ExpireSessions(s), ~Abandoned(u)
        PROVE  /\ lease'[u] = lease[u] /\ candidate'[u] = candidate[u]
               /\ row'[u] = row[u] /\ status'[u] = status[u]
    BY <2>1 DEF ExpireSessions
  <2> QED
    BY <1>4, <2>1 DEF PassNext, SelectDue, SweepKey, SkipKey, DropRow, EndPass,
                      PassStops
<1>5. CASE RemovalNext /\ UNCHANGED uploadVars
  BY <1>5 DEF RemovalNext, EraseObject, ForgetDeletion, RemoverStops
<1> QED
  BY <1>1, <1>2, <1>3, <1>4, <1>5 DEF Next

\* An attempt goes through its states in order; of each it knows what it saw.
LEMMA AttemptSteps ==
  ASSUME TypeOK, [Next]_vars, NEW a \in Attempt
  PROVE  \/ /\ pc'[a] = pc[a] /\ of'[a] = of[a]
            /\ a \in inflight' => a \in inflight
         \/ \E u \in File : Claim(a, u)
         \/ /\ of'[a] = of[a]
            /\ \/ /\ pc[a] = "idle" /\ pc'[a] = "claiming"
                  /\ inflight' = inflight
               \/ /\ pc[a] \in Running /\ pc'[a] = "done"
                  /\ inflight' = inflight
               \/ /\ pc[a] \in {"claimed", "copied"} /\ pc'[a] = "restoring"
                  /\ inflight' = inflight
               \/ pc[a] = "claimed" /\ pc'[a] = "copying"
               \/ /\ pc[a] = "copying" /\ pc'[a] = "copied"
                  /\ a \notin inflight /\ inflight' = inflight
               \/ /\ pc[a] = "copied" /\ pc'[a] = "verified"
                  /\ a \in stored /\ inflight' = inflight
               \/ /\ pc[a] = "verified" /\ pc'[a] = "committing"
                  /\ inflight' = inflight
<1> USE DEF vars, rowVars, uploadVars, sessionVars, formVars, attemptVars,
            outboxVars, passVars
<1> DEFINE Same == /\ pc'[a] = pc[a] /\ of'[a] = of[a]
                   /\ a \in inflight' => a \in inflight
<1>1. CASE Tick \/ UNCHANGED vars
  BY <1>1 DEF Tick
<1>2. ASSUME NEW v \in File, SessionNext(v)
      PROVE  Same
  BY <1>2 DEF SessionNext, CreateSession, ReadSession, SignForm, PostForm
<1>3. ASSUME NEW b \in Attempt, AttemptNext(b), b # a
      PROVE  Same
  <2>1. CASE \E u \in File : Claim(b, u)
    BY <1>3, <2>1 DEF Claim, Moves, TypeOK
  <2>2. CASE CopyLands(b) \/ SendCopy(b)
    BY <1>3, <2>2 DEF CopyLands, SendCopy, Moves, TypeOK
  <2>3. CASE \/ BeginClaim(b) \/ RejectCandidate(b) \/ Restore(b)
             \/ BeginCommit(b) \/ Commit(b)
    BY <1>3, <2>3 DEF BeginClaim, RejectCandidate, Restore, BeginCommit,
                      Commit, Moves, TypeOK
  <2>4. CASE \/ RejectStaged(b) \/ CopyAnswered(b) \/ AcceptCandidate(b)
             \/ AttemptStops(b)
    BY <1>3, <2>4 DEF RejectStaged, CopyAnswered, AcceptCandidate,
                      AttemptStops, AttemptStep, Moves, TypeOK
  <2> QED
    BY <1>3, <2>1, <2>2, <2>3, <2>4 DEF AttemptNext
<1>4. CASE AttemptNext(a)
  <2>1. CASE CopyLands(a)
    BY <2>1 DEF CopyLands
  <2>2. CASE \/ BeginClaim(a) \/ RejectStaged(a) \/ RejectCandidate(a)
             \/ Restore(a) \/ Commit(a) \/ AttemptStops(a)
    BY <2>2 DEF BeginClaim, RejectStaged, RejectCandidate, Restore, Commit,
                AttemptStops, AttemptStep, Moves, TypeOK, Running
  <2>3. CASE \/ SendCopy(a) \/ CopyAnswered(a) \/ AcceptCandidate(a)
             \/ BeginCommit(a)
    BY <2>3 DEF SendCopy, CopyAnswered, AcceptCandidate, BeginCommit,
                AttemptStep, Moves, TypeOK, Running
  <2> QED
    BY <1>4, <2>1, <2>2, <2>3 DEF AttemptNext
<1>5. ASSUME NEW s \in Server, PassNext(s)
      PROVE  Same
  BY <1>5 DEF PassNext, ExpireSessions, SelectDue, SweepKey, SkipKey, DropRow,
              EndPass, PassStops
<1>6. CASE RemovalNext /\ UNCHANGED uploadVars
  BY <1>6
<1> QED
  BY <1>1, <1>2, <1>3, <1>4, <1>5, <1>6 DEF Next

\* A spared key stays spared unless a step queues it.
LEMMA SparedSteps ==
  ASSUME TypeOK, [Next]_vars, NEW k \in Attempt, Spared(k)
  PROVE  \/ Spared(k)'
         \/ \E a \in Attempt, u \in File : Claim(a, u) /\ candidate[u] = k
         \/ RejectCandidate(k)
         \/ \E s \in Server, u \in File :
              ExpireSessions(s) /\ Abandoned(u) /\ candidate[u] = k
<1> USE DEF vars, rowVars, uploadVars, sessionVars, formVars, attemptVars,
            outboxVars, passVars
<1> USE KeyAssumption DEF Spared, Queued, InHand
<1>1. ASSUME UNCHANGED <<queue, work, emptied>>
      PROVE  Spared(k)'
  BY <1>1
<1>2. ASSUME NEW keys, NEW at \in Nat, Enqueue(keys, at), k \notin keys,
             UNCHANGED <<work, emptied>>
      PROVE  Spared(k)'
  BY <1>2 DEF Enqueue
<1>3. ASSUME NEW v \in File, SessionNext(v)
      PROVE  Spared(k)'
  BY <1>1, <1>3 DEF SessionNext, CreateSession, ReadSession, SignForm, PostForm
<1>4. ASSUME NEW b \in Attempt, AttemptNext(b)
      PROVE  \/ Spared(k)'
             \/ \E u \in File : Claim(b, u) /\ candidate[u] = k
             \/ RejectCandidate(k)
  <2>1. ASSUME NEW u \in File, Claim(b, u), candidate[u] # k
        PROVE  Spared(k)'
    <3>1. began[b] \in Nat /\ Enqueue({candidate[u]} \cap Attempt, began[b])
      BY <2>1 DEF Claim, TypeOK
    <3> QED
      BY <1>2, <2>1, <3>1 DEF Claim
  <2>2. ASSUME RejectCandidate(b), b # k
        PROVE  Spared(k)'
    <3>1. now \in Nat /\ Enqueue({b}, now)
      BY <2>2 DEF RejectCandidate, TypeOK
    <3> QED
      BY <1>2, <2>2, <3>1 DEF RejectCandidate
  <2>3. ASSUME Commit(b)
        PROVE  Spared(k)'
    <3>1. /\ of[b] \in File /\ StagingDue(b) \in Nat
          /\ Enqueue({of[b]}, StagingDue(b))
      BY <2>3, TimesType DEF Commit, MayCommit, HoldsLease
    <3> QED
      BY <1>2, <2>3, <3>1 DEF Commit
  <2>4. CASE \/ BeginClaim(b) \/ RejectStaged(b) \/ SendCopy(b) \/ CopyLands(b)
             \/ CopyAnswered(b) \/ AcceptCandidate(b) \/ Restore(b)
             \/ BeginCommit(b) \/ AttemptStops(b)
    BY <1>1, <2>4 DEF BeginClaim, RejectStaged, SendCopy, CopyLands, CopyAnswered,
                      AcceptCandidate, Restore, BeginCommit, AttemptStops,
                      AttemptStep
  <2> QED
    BY <1>4, <2>1, <2>2, <2>3, <2>4 DEF AttemptNext
<1>5. ASSUME NEW s \in Server, PassNext(s)
      PROVE  \/ Spared(k)'
             \/ \E u \in File :
                  ExpireSessions(s) /\ Abandoned(u) /\ candidate[u] = k
  <2>1. ASSUME ExpireSessions(s),
               \A u \in File : Abandoned(u) => candidate[u] # k
        PROVE  Spared(k)'
    <3> DEFINE gone == {u \in File : Abandoned(u)}
               keys == gone \cup ({candidate[u] : u \in gone} \cap Attempt)
    <3>1. now \in Nat /\ Enqueue(keys, now) /\ UNCHANGED <<work, emptied>>
      BY <2>1 DEF ExpireSessions, TypeOK
    <3>2. k \notin keys
      BY <2>1
    <3> HIDE DEF keys
    <3> QED
      BY <1>2, <3>1, <3>2
  <2>2. CASE SelectDue(s)
    <3>1. /\ UNCHANGED <<queue, emptied>>
          /\ \A t \in Server : \A e \in work'[t] : e \in work[t] \/ Queued(e.key)
      BY <2>2 DEF SelectDue, TypeOK
    <3> QED
      BY <3>1
  <2>3. CASE \E e \in work[s] : SweepKey(s, e) \/ SkipKey(s, e)
    <3> PICK e \in work[s] : SweepKey(s, e) \/ SkipKey(s, e)
      BY <2>3
    <3>1. /\ UNCHANGED queue
          /\ \A t \in Server : work'[t] \subseteq work[t]
          /\ \A t \in Server : emptied'[t] \in {emptied[t], e}
      BY SMTT(60) DEF SweepKey, SkipKey, TypeOK
    <3>2. e.key # k
      OBVIOUS
    <3> QED
      BY <3>1, <3>2
  <2>4. CASE DropRow(s) \/ EndPass(s) \/ PassStops(s)
    <3>1. /\ queue'[k] \in {queue[k], NotQueued}
          /\ \A t \in Server : work'[t] \subseteq work[t]
          /\ \A t \in Server : emptied'[t] \in {emptied[t], NoEntry}
      BY <2>4 DEF DropRow, EndPass, PassStops, TypeOK
    <3>2. NoEntry.key # k
      BY DEF NoEntry
    <3> QED
      BY <3>1, <3>2
  <2> QED
    BY <1>5, <2>1, <2>2, <2>3, <2>4 DEF PassNext
<1>6. CASE Tick \/ UNCHANGED vars \/ (RemovalNext /\ UNCHANGED uploadVars)
  BY <1>1, <1>6 DEF Tick
<1> QED
  BY <1>3, <1>4, <1>5, <1>6 DEF Next

\* Only cleanup passes and removers take an object away, each only the key it
\* has in hand, and only the removal of a file puts a key in their way.
LEMMA ObjectSteps ==
  ASSUME TypeOK, [Next]_vars, NEW k \in Attempt
  PROVE  /\ k \in stored => k \in stored' \/ InHand(k) \/ k \in deletions
         /\ k \in deletions' \cup erased' =>
              \/ k \in deletions \cup erased
              \/ \E u \in File : Remove(u) /\ UNCHANGED uploadVars /\ row[u] = k
<1> USE DEF vars, rowVars, uploadVars, sessionVars, formVars, attemptVars,
            outboxVars, passVars
<1> DEFINE Kept == (k \in stored => k \in stored')
           None == UNCHANGED <<deletions, erased>>
<1>1. CASE Tick \/ UNCHANGED vars
  BY <1>1 DEF Tick
<1>2. ASSUME NEW v \in File, SessionNext(v)
      PROVE  Kept /\ (None \/ (/\ Remove(v) /\ UNCHANGED uploadVars
                              /\ deletions' = deletions \cup {row[v]}
                              /\ erased' = erased))
  BY <1>2 DEF SessionNext, CreateSession, ReadSession, SignForm, PostForm,
              Remove
<1>3. ASSUME NEW b \in Attempt, AttemptNext(b)
      PROVE  Kept /\ None
  BY <1>3 DEF AttemptNext, BeginClaim, Claim, RejectStaged, SendCopy,
              CopyLands, CopyAnswered, AcceptCandidate, RejectCandidate,
              Restore, BeginCommit, Commit, AttemptStops, AttemptStep
<1>4. ASSUME NEW s \in Server, PassNext(s)
      PROVE  (Kept \/ InHand(k)) /\ None
  BY <1>4 DEF PassNext, ExpireSessions, SelectDue, SweepKey, SkipKey, DropRow,
              EndPass, PassStops, InHand
<1>5. CASE RemovalNext /\ UNCHANGED uploadVars
  BY <1>5 DEF RemovalNext, EraseObject, ForgetDeletion, RemoverStops
<1> QED
  BY <1>1, <1>2, <1>3, <1>4, <1>5 DEF Next

-----------------------------------------------------------------------------
(* The inductive invariant.                                                *)

\* Once it has claimed one, an attempt keeps its session; a finished one does
\* nothing more.
LEMMA BegunAttempts ==
  ASSUME IInv, [Next]_vars, NEW a \in Attempt, of[a] \in File
  PROVE  /\ of'[a] = of[a]
         /\ pc[a] \notin {"idle", "claiming"} /\ pc'[a] \notin {"idle", "claiming"}
         /\ pc[a] = "done" =>
              pc'[a] = "done" /\ (a \in inflight' => a \in inflight)
<1>1. TypeOK /\ pc[a] \notin {"idle", "claiming"}
  BY DEF IInv, FreshAttempts
<1>2. \A u \in File : ~Claim(a, u)
  BY <1>1 DEF Claim, Moves
<1> QED
  BY <1>1, <1>2, AttemptSteps DEF Running

\* Nothing but the attempt that names it queues the candidate of a session
\* that keeps its lease, of one that is completed, or of none.
LEMMA SparedStays ==
  ASSUME IInv, [Next]_vars, NEW a \in Attempt, Spared(a), ~RejectCandidate(a),
         NEW u \in File, of[a] \in File => of[a] = u,
         \/ of[a] \notin File \/ status'[u] = "completed" \/ lease'[u] = a
  PROVE  Spared(a)'
<1>1. ASSUME NEW b \in Attempt, NEW v \in File, Claim(b, v), candidate[v] = a
      PROVE  FALSE
  <2>1. of[a] \in File /\ v = u
    BY <1>1 DEF IInv, OwnAttempts
  <2>2. status'[v] = "finalizing" /\ lease'[v] = b /\ of[b] \notin File
    BY <1>1 DEF Claim, Moves, IInv, TypeOK, FreshAttempts
  <2> QED
    BY <2>1, <2>2
<1>2. ASSUME NEW s \in Server, NEW v \in File, ExpireSessions(s), Abandoned(v),
             candidate[v] = a
      PROVE  FALSE
  <2>1. of[a] \in File /\ v = u
    BY <1>2 DEF IInv, OwnAttempts
  <2>2. status'[v] = "cleanup_pending" /\ lease'[v] = NoAttempt
    BY <1>2 DEF ExpireSessions
  <2> QED
    BY <2>1, <2>2, KeyAssumption
<1> QED
  BY <1>1, <1>2, SparedSteps DEF IInv

\* Nothing comes to know of an attempt before claim_completion records it.
LEMMA FreshStep ==
  ASSUME IInv, [Next]_vars
  PROVE  FreshAttempts'
<1> SUFFICES ASSUME NEW a \in Attempt
             PROVE  IF of'[a] \in File
                    THEN pc'[a] \notin {"idle", "claiming"}
                    ELSE /\ pc'[a] \in {"idle", "claiming", "done"}
                         /\ Spared(a)'
                         /\ a \notin inflight' \cup deletions' \cup erased'
                         /\ \A u \in File : /\ lease'[u] # a
                                            /\ candidate'[u] # a /\ row'[u] # a
  BY DEF FreshAttempts
<1>1. TypeOK
  BY DEF IInv
<1>2. ASSUME of'[a] \in File
      PROVE  pc'[a] \notin {"idle", "claiming"}
  <2>1. ASSUME NEW u \in File, Claim(a, u)
        PROVE  pc'[a] = "claimed"
    BY <1>1, <2>1 DEF Claim, Moves, TypeOK
  <2>2. CASE of[a] \in File
    BY <2>2, BegunAttempts
  <2> QED
    BY <1>1, <1>2, <2>1, <2>2, AttemptSteps
<1>3. ASSUME of'[a] \notin File
      PROVE  /\ pc'[a] \in {"idle", "claiming", "done"} /\ Spared(a)'
             /\ a \notin inflight' \cup deletions' \cup erased'
             /\ \A u \in File : lease'[u] # a /\ candidate'[u] # a /\ row'[u] # a
  <2>1. of[a] \notin File
    BY <1>3, BegunAttempts
  <2>2. /\ pc[a] \in {"idle", "claiming", "done"}
        /\ Spared(a) /\ a \notin inflight \cup deletions \cup erased
        /\ \A u \in File : lease[u] # a /\ candidate[u] # a /\ row[u] # a
    BY <2>1 DEF IInv, FreshAttempts
  <2>3. \A u \in File : ~Claim(a, u)
    BY <1>1, <1>3 DEF Claim, TypeOK
  <2>4. ~RejectCandidate(a) /\ ~Restore(a) /\ ~Commit(a)
    BY <2>2 DEF RejectCandidate, Restore, Commit, Moves
  <2>5. Spared(a)'
    BY <1>1, <2>2, <2>4, SparedSteps
  <2>6. /\ a \notin inflight' \cup deletions' \cup erased'
        /\ pc'[a] \in {"idle", "claiming", "done"}
    <3>1. a \notin inflight' /\ pc'[a] \in {"idle", "claiming", "done"}
      BY <1>1, <2>2, <2>3, AttemptSteps
    <3> QED
      BY <1>1, <2>2, <3>1, ObjectSteps
  <2>7. ASSUME NEW u \in File
        PROVE  lease'[u] # a /\ candidate'[u] # a /\ row'[u] # a
    <3>1. ASSUME NEW b \in Attempt, Claim(b, u)
          PROVE  lease'[u] # a /\ candidate'[u] # a /\ row'[u] # a
      <4>1. b # a /\ lease'[u] = b /\ candidate'[u] = b /\ row' = row
        BY <1>1, <2>3, <3>1 DEF Claim, TypeOK, rowVars
      <4> QED
        BY <2>2, <4>1
    <3>2. ASSUME NEW b \in Attempt, Restore(b), of[b] = u
          PROVE  lease'[u] # a /\ candidate'[u] # a /\ row'[u] # a
      <4>1. lease'[u] = NoAttempt /\ UNCHANGED <<candidate, row>>
        BY <1>1, <3>2 DEF Restore, TypeOK, rowVars
      <4> QED
        BY <2>2, <4>1, KeyAssumption
    <3>3. ASSUME NEW b \in Attempt, Commit(b), of[b] = u
          PROVE  lease'[u] # a /\ candidate'[u] # a /\ row'[u] # a
      <4>1. /\ b # a /\ lease'[u] = NoAttempt /\ row'[u] = b
            /\ UNCHANGED candidate
        BY <1>1, <2>4, <3>3 DEF Commit, TypeOK, RowsTypeOK
      <4> QED
        BY <2>2, <4>1, KeyAssumption
    <3>4. CASE Abandoned(u) /\ \E s \in Server : ExpireSessions(s)
      BY <1>1, <2>2, <3>4, KeyAssumption DEF ExpireSessions, rowVars
    <3>5. CASE Remove(u) /\ UNCHANGED uploadVars
      BY <1>1, <2>2, <3>5, KeyAssumption, RowAssumption
         DEF Remove, uploadVars, TypeOK, RowsTypeOK
    <3> QED
      BY <1>1, <2>2, <3>1, <3>2, <3>3, <3>4, <3>5, SessionSteps
  <2> QED
    BY <2>5, <2>6, <2>7
<1> QED
  BY <1>2, <1>3

\* The lease and the candidate of a session stay those of its own attempts.
LEMMA OwnStep ==
  ASSUME IInv, [Next]_vars
  PROVE  OwnAttempts'
<1> SUFFICES ASSUME NEW u \in File
             PROVE  /\ candidate'[u] \in Attempt => of'[candidate'[u]] = u
                    /\ lease'[u] \in Attempt => candidate'[u] = lease'[u]
  BY DEF OwnAttempts
<1> USE KeyAssumption
<1>1. TypeOK
  BY DEF IInv
<1>2. /\ candidate[u] \in Attempt => of[candidate[u]] = u
      /\ lease[u] \in Attempt => candidate[u] = lease[u]
  BY DEF IInv, OwnAttempts
<1>3. ASSUME candidate[u] \in Attempt
      PROVE  of'[candidate[u]] = u
  BY <1>2, <1>3, BegunAttempts
<1>4. ASSUME NEW a \in Attempt, Claim(a, u)
      PROVE  candidate'[u] = a /\ lease'[u] = a /\ of'[a] = u
  BY <1>1, <1>4 DEF Claim, TypeOK
<1>5. CASE \/ \E a \in Attempt : (Restore(a) \/ Commit(a)) /\ of[a] = u
           \/ Abandoned(u) /\ \E s \in Server : ExpireSessions(s)
  <2>1. candidate' = candidate /\ lease'[u] = NoAttempt
    BY <1>1, <1>5 DEF Restore, Commit, ExpireSessions, TypeOK
  <2> QED
    BY <1>3, <2>1
<1>6. CASE Remove(u) /\ UNCHANGED uploadVars
  BY <1>2, <1>3, <1>6 DEF uploadVars
<1> QED
  BY <1>1, <1>2, <1>3, <1>4, <1>5, <1>6, SessionSteps

\* A lease that an attempt holds after the step, it held before or claims.
LEMMA LeaseKept ==
  ASSUME IInv, [Next]_vars, NEW a \in Attempt, of[a] \in File, HoldsLease(a)'
  PROVE  HoldsLease(a) /\ lease'[of[a]] = a
<1> DEFINE u == of[a]
<1>1. TypeOK /\ u \in File
  BY DEF IInv
<1>2. lease'[u] = a
  BY <1>1, BegunAttempts DEF HoldsLease
<1>3. \A b \in Attempt : Claim(b, u) => lease'[u] = b /\ b # a
  BY <1>1 DEF Claim, Moves, IInv, FreshAttempts, TypeOK
<1>4. \A b \in Attempt : (Restore(b) \/ Commit(b)) /\ of[b] = u =>
                          lease'[u] = NoAttempt
  BY <1>1 DEF Restore, Commit, TypeOK
<1>5. \A s \in Server : Abandoned(u) /\ ExpireSessions(s) =>
                          lease'[u] = NoAttempt
  BY <1>1 DEF ExpireSessions
<1>6. UNCHANGED uploadVars => lease'[u] = lease[u]
  BY DEF uploadVars
<1> HIDE DEF u
<1>7. lease[u] = a
  BY <1>1, <1>2, <1>3, <1>4, <1>5, <1>6, KeyAssumption, SessionSteps
<1> QED
  BY <1>1, <1>2, <1>7 DEF u, HoldsLease

\* The candidate of a lease holder stays out of the outbox and in the bucket.
LEMMA CandidateStep ==
  ASSUME IInv, [Next]_vars
  PROVE  CandidateSafe'
<1> SUFFICES ASSUME NEW a \in Attempt
             PROVE  /\ pc'[a] \in {"copied", "verified", "committing"} =>
                         a \notin inflight'
                    /\ HoldsLease(a)' /\ pc'[a] \in Running \ {"restoring"} =>
                         Spared(a)'
                    /\ HoldsLease(a)' /\ pc'[a] \in {"verified", "committing"} =>
                         a \in stored'
  BY DEF CandidateSafe
<1>1. TypeOK
  BY DEF IInv
<1>2. ASSUME NEW u \in File, Claim(a, u)
      PROVE  pc'[a] = "claimed" /\ of[a] \notin File /\ lease'[u] = a
  BY <1>1, <1>2 DEF Claim, Moves, IInv, FreshAttempts, TypeOK
<1>3. pc'[a] \in {"copied", "verified", "committing"} => a \notin inflight'
  BY <1>1, <1>2, AttemptSteps DEF IInv, CandidateSafe
<1>4. ASSUME HoldsLease(a)', pc'[a] \in Running \ {"restoring"}
      PROVE  Spared(a)'
  <2>1. ~RejectCandidate(a)
    BY <1>1, <1>4 DEF RejectCandidate, Moves, TypeOK
  <2>2. CASE of[a] \notin File
    <3>1. Spared(a)
      BY <2>2 DEF IInv, FreshAttempts
    <3>2. \E u \in File : Claim(a, u)
      BY <1>1, <1>4, <2>2, AttemptSteps DEF HoldsLease
    <3> QED
      BY <2>1, <2>2, <3>1, <3>2, SparedStays
  <2>3. CASE of[a] \in File
    <3>1. HoldsLease(a) /\ lease'[of[a]] = a
      BY <1>4, <2>3, LeaseKept
    <3>2. pc[a] \in Running \ {"restoring"}
      BY <1>1, <1>2, <1>4, <2>3, BegunAttempts, AttemptSteps DEF Running
    <3>3. Spared(a)
      BY <3>1, <3>2 DEF IInv, CandidateSafe
    <3> QED
      BY <2>1, <2>3, <3>1, <3>3, SparedStays
  <2> QED
    BY <2>2, <2>3
<1>5. ASSUME HoldsLease(a)', pc'[a] \in {"verified", "committing"}
      PROVE  a \in stored'
  <2>1. /\ pc[a] \in {"copied", "verified", "committing"}
        /\ of[a] \in File
    BY <1>1, <1>2, <1>5, AttemptSteps DEF IInv, FreshAttempts
  <2>2. HoldsLease(a)
    BY <1>5, <2>1, LeaseKept
  <2>3. a \in stored
    BY <1>1, <1>2, <1>5, <2>1, <2>2, AttemptSteps DEF IInv, CandidateSafe
  <2>4. ~InHand(a)
    BY <2>1, <2>2 DEF IInv, CandidateSafe, Spared, Running
  <2>5. a \notin deletions
    BY <2>1 DEF IInv, OnlyRemovedErased
  <2> QED
    BY <1>1, <2>3, <2>4, <2>5, ObjectSteps
<1> QED
  BY <1>3, <1>4, <1>5

\* Only the last transaction of complete makes a file, of the lease it holds.
LEMMA RowsStep ==
  ASSUME IInv, [Next]_vars
  PROVE  RowsAndSessions'
<1> SUFFICES ASSUME NEW u \in File
             PROVE  /\ row'[u] # NoRow <=> status'[u] = "completed"
                    /\ Live(u)' => /\ row'[u] \in Attempt /\ of'[row'[u]] = u
                                  /\ pc'[row'[u]] = "done"
  BY DEF RowsAndSessions
<1> USE KeyAssumption, RowAssumption
<1>1. TypeOK
  BY DEF IInv
<1>2. /\ row[u] # NoRow <=> status[u] = "completed"
      /\ Live(u) => row[u] \in Attempt /\ of[row[u]] = u /\ pc[row[u]] = "done"
  BY DEF IInv, RowsAndSessions
<1>3. ASSUME row'[u] = row[u]
      PROVE  Live(u)' => /\ row'[u] \in Attempt /\ of'[row'[u]] = u
                         /\ pc'[row'[u]] = "done"
  BY <1>1, <1>2, <1>3, BegunAttempts DEF Live
<1>4. ASSUME NEW a \in Attempt, Claim(a, u)
      PROVE  row'[u] = row[u] /\ status[u] # "completed"
             /\ status'[u] = "finalizing"
  BY <1>1, <1>4 DEF Claim, LeaseFree, rowVars, TypeOK
<1>5. ASSUME NEW a \in Attempt, Restore(a), of[a] = u
      PROVE  row'[u] = row[u] /\ status[u] # "completed"
             /\ status'[u] = "pending"
  BY <1>1, <1>5 DEF Restore, HoldsLease, rowVars, TypeOK
<1>6. ASSUME NEW a \in Attempt, Commit(a), of[a] = u
      PROVE  /\ row'[u] = a /\ status'[u] = "completed"
             /\ of'[a] = u /\ pc'[a] = "done"
  BY <1>1, <1>6 DEF Commit, Moves, TypeOK, RowsTypeOK
<1>7. ASSUME Abandoned(u), NEW s \in Server, ExpireSessions(s)
      PROVE  row'[u] = row[u] /\ status[u] # "completed"
             /\ status'[u] = "cleanup_pending"
  BY <1>1, <1>7 DEF ExpireSessions, Abandoned, LeaseFree, rowVars
<1>8. ASSUME Remove(u), UNCHANGED uploadVars
      PROVE  /\ row[u] # NoRow /\ row'[u] = Removed /\ status'[u] = status[u]
             /\ ~Live(u)'
  BY <1>1, <1>8 DEF Remove, Live, uploadVars, TypeOK, RowsTypeOK
<1> QED
  BY <1>1, <1>2, <1>3, <1>4, <1>5, <1>6, <1>7, <1>8, SessionSteps

\* Only the removal of a file lets its object be erased.
LEMMA ErasedStep ==
  ASSUME IInv, [Next]_vars
  PROVE  OnlyRemovedErased'
<1> SUFFICES ASSUME NEW a \in Attempt, a \in deletions' \cup erased'
             PROVE  pc'[a] = "done" /\ row'[of'[a]] = Removed
  BY DEF OnlyRemovedErased
<1> USE KeyAssumption, RowAssumption
<1>1. TypeOK
  BY DEF IInv
<1>2. CASE a \in deletions \cup erased
  <2>1. pc[a] = "done" /\ row[of[a]] = Removed /\ of[a] \in File
    BY <1>2 DEF IInv, OnlyRemovedErased, FreshAttempts
  <2>2. pc'[a] = "done" /\ of'[a] = of[a]
    BY <1>1, <2>1, BegunAttempts
  <2>3. status[of[a]] = "completed"
    BY <2>1 DEF IInv, RowsAndSessions
  <2>4. \A b \in Attempt : of[b] = of[a] => ~Commit(b)
    BY <1>1, <2>1, <2>3 DEF Commit, MayCommit, HoldsLease, TypeOK
  <2>5. ~Remove(of[a])
    BY <2>1 DEF Remove, Live
  <2>6. row'[of[a]] = row[of[a]]
    BY <1>1, <2>1, <2>4, <2>5, SessionSteps
       DEF Claim, Restore, ExpireSessions, rowVars
  <2> QED
    BY <2>1, <2>2, <2>6
<1>3. CASE a \notin deletions \cup erased
  <2>1. PICK u \in File : Remove(u) /\ UNCHANGED uploadVars /\ row[u] = a
    BY <1>1, <1>3, ObjectSteps
  <2>2. of[a] = u /\ pc[a] = "done"
    BY <2>1 DEF IInv, RowsAndSessions, Live
  <2> QED
    BY <1>1, <2>1, <2>2 DEF Remove, uploadVars, TypeOK, RowsTypeOK
<1> QED
  BY <1>2, <1>3

\* No step brings the object of a file within reach of a deletion.
LEMMA CommittedStep ==
  ASSUME IInv, [Next]_vars
  PROVE  CommittedKept'
<1> SUFFICES ASSUME NEW u \in File, Live(u)'
             PROVE  (row[u] \in stored /\ row[u] \notin inflight /\ Spared(row[u]))'
  BY DEF CommittedKept
<1> USE KeyAssumption, RowAssumption
<1>1. TypeOK /\ RowsAndSessions'
  BY RowsStep DEF IInv
<1>2. PICK a \in Attempt : /\ row'[u] = a /\ of'[a] = u /\ pc'[a] = "done"
                           /\ status'[u] = "completed"
  BY <1>1 DEF RowsAndSessions, Live
<1> SUFFICES a \in stored' /\ a \notin inflight' /\ Spared(a)'
  BY <1>2 DEF Spared, Queued, InHand
<1>3. CASE row[u] = a
  <2>1. /\ Live(u) /\ of[a] = u /\ pc[a] = "done"
        /\ a \in stored /\ a \notin inflight /\ Spared(a)
    BY <1>2, <1>3 DEF Live, IInv, RowsAndSessions, CommittedKept
  <2>2. a \notin deletions
    BY <1>2, <1>3, <2>1 DEF IInv, OnlyRemovedErased, Live
  <2>3. a \in stored'
    BY <1>1, <1>2, <2>1, <2>2, ObjectSteps DEF Spared
  <2>4. a \notin inflight'
    BY <1>1, <1>2, <2>1, BegunAttempts
  <2>5. ~RejectCandidate(a)
    BY <2>1 DEF RejectCandidate, Moves
  <2>6. Spared(a)'
    BY <1>2, <2>1, <2>5, SparedStays
  <2> QED
    BY <2>3, <2>4, <2>6
<1>4. CASE row[u] # a
  <2>1. PICK b \in Attempt : Commit(b) /\ of[b] = u
    <3>1. Remove(u) => row'[u] = Removed
      BY <1>1 DEF Remove, TypeOK, RowsTypeOK
    <3>2. \A b \in Attempt : Claim(b, u) \/ Restore(b) => row' = row
      BY DEF Claim, Restore, rowVars
    <3>3. \A s \in Server : ExpireSessions(s) => row' = row
      BY DEF ExpireSessions, rowVars
    <3>4. a # Removed
      OBVIOUS
    <3> QED
      BY <1>1, <1>2, <1>4, <3>1, <3>2, <3>3, <3>4, SessionSteps
  <2>2. a = b
    <3>1. row \in [File -> Key \cup {NoRow, Removed}]
      BY <1>1 DEF TypeOK, RowsTypeOK
    <3>2. row' = [row EXCEPT ![u] = b]
      BY <2>1 DEF Commit
    <3> QED
      BY <1>2, <3>1, <3>2
  <2>3. pc[a] = "committing" /\ HoldsLease(a) /\ UNCHANGED <<stored, inflight>>
    BY <2>1, <2>2 DEF Commit, MayCommit, Moves
  <2>4. a \in stored /\ a \notin inflight /\ Spared(a)
    BY <1>2, <2>3 DEF IInv, CandidateSafe, Running
  <2>5. ~RejectCandidate(a)
    BY <2>3 DEF RejectCandidate, Moves
  <2>6. Spared(a)'
    BY <1>2, <2>1, <2>2, <2>4, <2>5, SparedStays
  <2> QED
    BY <2>3, <2>4, <2>6
<1> QED
  BY <1>3, <1>4

\* The empty tables satisfy the inductive invariant.
LEMMA InitIInv == Init => IInv
<1> SUFFICES ASSUME Init
             PROVE  IInv
  OBVIOUS
<1>1. TypeOK
  BY TypeInit
<1>2. \A a \in Attempt : Spared(a)
  BY KeyAssumption DEF Init, Spared, Queued, InHand, NoEntry
<1> QED
  BY <1>1, <1>2, KeyAssumption, RowAssumption
     DEF Init, RowsInit, IInv, FreshAttempts, OwnAttempts, CandidateSafe,
         RowsAndSessions, OnlyRemovedErased, CommittedKept, Live

\* Every reachable state of uploads.rs satisfies the inductive invariant.
THEOREM Inductive == Spec => []IInv
<1>1. IInv /\ [Next]_vars => IInv'
  BY TypeStep, FreshStep, OwnStep, CandidateStep, RowsStep, ErasedStep,
     CommittedStep DEF IInv
<1>2. IInv /\ UNCHANGED vars => IInv'
  BY <1>1
<1> QED
  BY InitIInv, <1>1, PTL DEF Spec

\* RFC, line 451: the object of a file stays stored and out of the reach of
\* every cleanup pass and late copy until the file is removed.
THEOREM CommittedSafety == Spec => []CommittedKept
<1>1. IInv => CommittedKept
  BY DEF IInv
<1> QED
  BY Inductive, <1>1, PTL

\* While a lease runs only its holder ends it.
THEOREM LeaseExclusive == Spec => LeaseRespected
<1>1. TypeOK /\ [Next]_vars =>
        [\A u \in File, a \in Attempt :
           lease[u] = a /\ now < leaseEnd[u] /\ lease'[u] # a =>
             pc[a] # "done" /\ pc'[a] = "done"]_vars
  <2> SUFFICES ASSUME TypeOK, [Next]_vars, NEW u \in File, NEW a \in Attempt,
                      lease[u] = a, now < leaseEnd[u], lease'[u] # a
               PROVE  pc[a] # "done" /\ pc'[a] = "done"
    OBVIOUS
  <2>1. \A at \in 0..now : ~LeaseFree(u, at)
    <3>1. status[u] = "finalizing" /\ leaseEnd[u] \in Nat /\ now \in Nat
      BY DEF TypeOK
    <3> QED
      BY <3>1 DEF LeaseFree
  <2>2. \A b \in Attempt : ~Claim(b, u)
    BY <2>1 DEF Claim, TypeOK
  <2>3. ~Abandoned(u)
    BY <2>1 DEF Abandoned, TypeOK
  <2>4. PICK b \in Attempt : (Restore(b) \/ Commit(b)) /\ of[b] = u
    BY <2>2, <2>3, SessionSteps DEF uploadVars
  <2>5. b = a
    BY <2>4 DEF Restore, Commit, MayCommit, HoldsLease
  <2> QED
    BY <2>4, <2>5 DEF Restore, Commit, Moves, TypeOK
<1> QED
  BY TypeCorrect, <1>1, PTL DEF Spec, LeaseRespected

-----------------------------------------------------------------------------
(* Uploads implements UploadContract.                                      *)

SessionOf(st) == IF st = "none" THEN "none"
                 ELSE IF st \in {"pending", "finalizing"} THEN "open"
                 ELSE IF st = "completed" THEN "completed" ELSE "expired"
FileOf(r) == IF r = NoRow THEN "absent"
             ELSE IF r = Removed THEN "removed" ELSE "readable"

\* What the clients see follows from the statuses and the rows alone: since
\* CommittedKept holds no file is ever broken.
LEMMA ClientView ==
  ASSUME IInv, IInv'
  PROVE  /\ session = [u \in File |-> SessionOf(status[u])]
         /\ session' = [u \in File |-> SessionOf(status'[u])]
         /\ file = [u \in File |-> FileOf(row[u])]
         /\ file' = [u \in File |-> FileOf(row'[u])]
<1> USE RowAssumption
<1> DEFINE Status == {"none", "pending", "finalizing", "completed",
                      "cleanup_pending"}
<1>1. ASSUME NEW u \in File
      PROVE  /\ status[u] \in Status /\ status'[u] \in Status
             /\ row[u] \in Key \cup {NoRow, Removed}
             /\ row'[u] \in Key \cup {NoRow, Removed}
             /\ row[u] \in Key => row[u] \in stored
             /\ row'[u] \in Key => row'[u] \in stored'
  BY DEF IInv, TypeOK, RowsTypeOK, CommittedKept, Live
<1>2. session = [u \in File |-> SessionOf(status[u])]
  BY <1>1 DEF session, SessionOf
<1>3. session' = [u \in File |-> SessionOf(status'[u])]
  BY <1>1 DEF session, SessionOf
<1>4. file = [u \in File |-> FileOf(row[u])]
  BY <1>1 DEF file, FileOf, Live
<1>5. file' = [u \in File |-> FileOf(row'[u])]
  BY <1>1 DEF file, FileOf, Live
<1> QED
  BY <1>2, <1>3, <1>4, <1>5

\* Two functions that differ at one point.
LEMMA ExceptAt ==
  ASSUME NEW S, NEW f, NEW g, NEW u \in S, NEW x,
         f = [v \in S |-> f[v]], g = [v \in S |-> g[v]],
         g[u] = x, \A v \in S \ {u} : g[v] = f[v]
  PROVE  g = [f EXCEPT ![u] = x]
OBVIOUS

\* The initial states of Uploads map to that of the contract.
LEMMA ContractInit == Init => Contract!Init
<1> SUFFICES ASSUME Init
             PROVE  Contract!Init
  OBVIOUS
<1>1. session = [u \in File |-> "none"]
  BY DEF Init, session
<1>2. \A u \in File : row[u] = NoRow
  BY DEF Init, RowsInit
<1>3. file = [u \in File |-> "absent"]
  BY <1>2, RowAssumption DEF file, Live
<1> QED
  BY <1>1, <1>3 DEF Contract!Init

\* A step of Uploads is one step of the contract or none.
LEMMA ContractStep ==
  ASSUME IInv, IInv', [Next]_vars
  PROVE  [Contract!Next]_<<session, file>>
<1> USE DEF vars, rowVars, uploadVars, sessionVars, formVars, attemptVars,
            outboxVars, passVars
<1> USE KeyAssumption, RowAssumption
<1>1. TypeOK
  BY DEF IInv
<1>2. ASSUME UNCHANGED <<status, row>>
      PROVE  UNCHANGED <<session, file>>
  BY <1>2, ClientView
<1>3. /\ session = [u \in File |-> session[u]]
      /\ session' = [u \in File |-> session'[u]]
      /\ file = [u \in File |-> file[u]]
      /\ file' = [u \in File |-> file'[u]]
  BY ClientView
<1>4. ASSUME NEW u \in File, CreateSession(u)
      PROVE  Contract!Open(u)
  <2>1. /\ status[u] = "none" /\ status' = [status EXCEPT ![u] = "pending"]
        /\ row' = row
    BY <1>4 DEF CreateSession
  <2>2. session[u] = "none" /\ session'[u] = "open"
    BY <1>1, <2>1, ClientView DEF SessionOf, TypeOK
  <2>3. ASSUME NEW v \in File \ {u}
        PROVE  session'[v] = session[v]
    <3>1. status'[v] = status[v]
      BY <1>1, <2>1 DEF TypeOK
    <3> QED
      BY <3>1, ClientView
  <2>4. session' = [session EXCEPT ![u] = "open"]
    BY <1>3, <2>2, <2>3, ExceptAt
  <2>5. UNCHANGED file
    BY <2>1, ClientView
  <2> QED
    BY <2>2, <2>4, <2>5 DEF Contract!Open
<1>5. ASSUME NEW a \in Attempt, NEW u \in File, Claim(a, u)
      PROVE  UNCHANGED <<session, file>>
  <2>1. /\ status[u] \in {"pending", "finalizing"}
        /\ status' = [status EXCEPT ![u] = "finalizing"] /\ row' = row
    BY <1>5 DEF Claim, LeaseFree
  <2>2. \A v \in File : SessionOf(status'[v]) = SessionOf(status[v])
    BY <1>1, <2>1 DEF SessionOf, TypeOK
  <2> QED
    BY <2>1, <2>2, ClientView
<1>6. ASSUME NEW a \in Attempt, Restore(a)
      PROVE  UNCHANGED <<session, file>>
  <2>1. /\ of[a] \in File /\ status[of[a]] = "finalizing"
        /\ status' = [status EXCEPT ![of[a]] = "pending"] /\ row' = row
    BY <1>1, <1>6 DEF Restore, HoldsLease, TypeOK
  <2>2. \A v \in File : SessionOf(status'[v]) = SessionOf(status[v])
    BY <1>1, <2>1 DEF SessionOf, TypeOK
  <2> QED
    BY <2>1, <2>2, ClientView
<1>7. ASSUME NEW a \in Attempt, Commit(a)
      PROVE  Contract!Publish(of[a])
  <2> DEFINE u == of[a]
  <2>1. /\ u \in File /\ status[u] = "finalizing"
        /\ status' = [status EXCEPT ![u] = "completed"]
        /\ row' = [row EXCEPT ![u] = a]
    BY <1>1, <1>7 DEF Commit, MayCommit, HoldsLease, TypeOK
  <2>2. row[u] = NoRow
    BY <2>1 DEF IInv, RowsAndSessions
  <2>3. /\ SessionOf("finalizing") = "open"
        /\ SessionOf("completed") = "completed"
        /\ FileOf(NoRow) = "absent" /\ FileOf(a) = "readable"
    BY DEF SessionOf, FileOf
  <2> HIDE DEF u
  <2>4. session[u] = "open" /\ file[u] = "absent"
    BY <2>1, <2>2, <2>3, ClientView
  <2>5. session' = [session EXCEPT ![u] = "completed"]
    <3>1. session'[u] = "completed"
      BY <1>1, <2>1, <2>3, ClientView DEF TypeOK
    <3>2. ASSUME NEW v \in File \ {u}
          PROVE  session'[v] = session[v]
      <4>1. status'[v] = status[v]
        BY <1>1, <2>1 DEF TypeOK
      <4> QED
        BY <4>1, ClientView
    <3> QED
      BY <1>3, <2>1, <3>1, <3>2, ExceptAt
  <2>6. file' = [file EXCEPT ![u] = "readable"]
    <3>1. file'[u] = "readable"
      BY <1>1, <2>1, <2>3, ClientView, ZenonT(60) DEF TypeOK, RowsTypeOK
    <3>2. ASSUME NEW v \in File \ {u}
          PROVE  file'[v] = file[v]
      <4>1. row'[v] = row[v]
        BY <1>1, <2>1 DEF TypeOK, RowsTypeOK
      <4> QED
        BY <4>1, ClientView
    <3> QED
      BY <1>3, <2>1, <3>1, <3>2, ExceptAt
  <2> QED
    BY <2>4, <2>5, <2>6 DEF u, Contract!Publish
<1>8. ASSUME NEW s \in Server, ExpireSessions(s)
      PROVE  \E gone \in SUBSET File : Contract!Expire(gone)
  <2> DEFINE gone == {u \in File : Abandoned(u)}
  <2>1. /\ \A u \in gone : status[u] \in {"pending", "finalizing"}
        /\ status' = [u \in File |->
                        IF u \in gone THEN "cleanup_pending" ELSE status[u]]
        /\ row' = row
    BY <1>8 DEF ExpireSessions, Abandoned, LeaseFree
  <2>2. gone \in SUBSET File
    OBVIOUS
  <2> HIDE DEF gone
  <2>3. Contract!Expire(gone)
    BY <2>1, <2>2, ClientView DEF Contract!Expire, SessionOf
  <2> QED
    BY <2>2, <2>3
<1>9. ASSUME NEW u \in File, Remove(u), UNCHANGED uploadVars
      PROVE  Contract!Remove(u)
  <2>1. /\ row[u] \in Key /\ row' = [row EXCEPT ![u] = Removed]
        /\ status' = status
    BY <1>9 DEF Remove, Live
  <2>2. row \in [File -> Key \cup {NoRow, Removed}]
    BY <1>1 DEF TypeOK, RowsTypeOK
  <2>3. file[u] = "readable" /\ file'[u] = "removed"
    BY <2>1, <2>2, ClientView DEF FileOf
  <2>4. \A v \in File \ {u} : file'[v] = file[v]
    BY <2>1, <2>2, ClientView
  <2>5. file' = [file EXCEPT ![u] = "removed"]
    BY <1>3, <2>3, <2>4, ExceptAt
  <2>6. UNCHANGED session
    BY <2>1, ClientView
  <2> QED
    BY <2>3, <2>5, <2>6 DEF Contract!Remove
<1>10. ASSUME NEW u \in File, ReadSession(u) \/ SignForm(u) \/ PostForm(u)
      PROVE  UNCHANGED <<status, row>>
  BY <1>10 DEF ReadSession, SignForm, PostForm
<1>11. ASSUME NEW a \in Attempt,
              \/ BeginClaim(a) \/ RejectStaged(a) \/ SendCopy(a)
              \/ CopyLands(a) \/ CopyAnswered(a) \/ AcceptCandidate(a)
              \/ RejectCandidate(a)
              \/ BeginCommit(a) \/ AttemptStops(a)
       PROVE  UNCHANGED <<status, row>>
  BY <1>11 DEF BeginClaim, RejectStaged, SendCopy, CopyLands, CopyAnswered,
               AcceptCandidate, RejectCandidate, BeginCommit, AttemptStops,
               AttemptStep
<1>12. ASSUME NEW s \in Server, PassNext(s), ~ExpireSessions(s)
       PROVE  UNCHANGED <<status, row>>
  BY <1>12 DEF PassNext, SelectDue, SweepKey, SkipKey, DropRow, EndPass,
               PassStops
<1>13. CASE Tick \/ UNCHANGED vars \/ (RemovalNext /\ UNCHANGED uploadVars)
  <2>1. UNCHANGED <<status, row>>
    BY <1>13 DEF Tick, RemovalNext, EraseObject, ForgetDeletion, RemoverStops
  <2> QED
    BY <1>2, <2>1
<1>14. ASSUME NEW u \in File, SessionNext(u)
       PROVE  [Contract!Next]_<<session, file>>
  BY <1>2, <1>4, <1>9, <1>10, <1>14 DEF SessionNext, Contract!Next
<1>15. ASSUME NEW a \in Attempt, AttemptNext(a)
       PROVE  [Contract!Next]_<<session, file>>
  <2>1. ASSUME Commit(a)
        PROVE  Contract!Next
    <3>1. of[a] \in File
      BY <2>1 DEF Commit, MayCommit, HoldsLease
    <3> QED
      BY <1>7, <2>1, <3>1 DEF Contract!Next
  <2> QED
    BY <1>2, <1>5, <1>6, <1>11, <1>15, <2>1 DEF AttemptNext
<1>16. ASSUME NEW s \in Server, PassNext(s)
       PROVE  [Contract!Next]_<<session, file>>
  BY <1>2, <1>8, <1>12, <1>16 DEF Contract!Next
<1> QED
  BY <1>13, <1>14, <1>15, <1>16 DEF Next

\* Direct uploads RFC, lines 525-541: whatever attempts, copies, passes and
\* crashes do, a session ends once and its file is readable from its
\* completion to its removal.
THEOREM Implements == Spec => ContractSpec
<1>1. IInv /\ IInv' /\ [Next]_vars => [Contract!Next]_<<session, file>>
  BY ContractStep
<1> QED
  BY ContractInit, Inductive, <1>1, PTL DEF Spec, ContractSpec, Contract!Spec

\* What the contract keeps: types, and one file for each completed session.
ContractInv ==
  /\ session \in [File -> {"none", "open", "completed", "expired"}]
  /\ file \in [File -> {"absent", "readable", "removed"}]
  /\ \A u \in File : session[u] = "completed" <=> file[u] # "absent"

LEMMA ContractInvStep ==
  ASSUME ContractInv, [Contract!Next]_<<session, file>>
  PROVE  ContractInv'
<1>1. CASE UNCHANGED <<session, file>>
  BY <1>1 DEF ContractInv
<1>2. ASSUME NEW u \in File, Contract!Open(u)
      PROVE  ContractInv'
  BY <1>2 DEF ContractInv, Contract!Open
<1>3. ASSUME NEW u \in File, Contract!Publish(u)
      PROVE  ContractInv'
  BY <1>3 DEF ContractInv, Contract!Publish
<1>4. ASSUME NEW u \in File, Contract!Remove(u)
      PROVE  ContractInv'
  BY <1>4 DEF ContractInv, Contract!Remove
<1>5. ASSUME NEW gone \in SUBSET File, Contract!Expire(gone)
      PROVE  ContractInv'
  BY <1>5 DEF ContractInv, Contract!Expire
<1> QED
  BY <1>1, <1>2, <1>3, <1>4, <1>5 DEF Contract!Next

LEMMA ContractKept == ContractSpec => []ContractInv
<1>1. Contract!Init => ContractInv
  BY DEF Contract!Init, ContractInv
<1>2. ContractInv /\ [Contract!Next]_<<session, file>> => ContractInv'
  BY ContractInvStep
<1> QED
  BY <1>1, <1>2, PTL DEF ContractSpec, Contract!Spec

\* A session is completed exactly when there is, or was, a file of it, and a
\* file that is there is readable: no request, pass or crash leaves the one
\* without the other.
THEOREM CompletedIffFile ==
  Spec => [](\A u \in File :
               /\ session[u] = "completed" <=> file[u] \in {"readable", "removed"}
               /\ file[u] # "broken")
<1>1. ContractInv =>
        \A u \in File :
          /\ session[u] = "completed" <=> file[u] \in {"readable", "removed"}
          /\ file[u] # "broken"
  BY DEF ContractInv
<1> QED
  BY <1>1, Implements, ContractKept, PTL

\* What has ended has ended: a completed or expired session never changes, and
\* a removed file is neither readable again nor made anew.
THEOREM EndsForGood ==
  Spec => [][\A u \in File :
               /\ session[u] \in {"completed", "expired"} => session'[u] = session[u]
               /\ file[u] = "removed" => file'[u] = "removed"]_<<session, file>>
<1>1. ASSUME ContractInv, Contract!Next, NEW u \in File
      PROVE  /\ session[u] \in {"completed", "expired"} => session'[u] = session[u]
             /\ file[u] = "removed" => file'[u] = "removed"
  <2>1. ASSUME NEW v \in File, Contract!Open(v) \/ Contract!Publish(v)
        PROVE  /\ session[u] \in {"completed", "expired"} => session'[u] = session[u]
               /\ file[u] = "removed" => file'[u] = "removed"
    BY <1>1, <2>1 DEF ContractInv, Contract!Open, Contract!Publish
  <2>2. ASSUME NEW v \in File, Contract!Remove(v)
        PROVE  /\ session[u] \in {"completed", "expired"} => session'[u] = session[u]
               /\ file[u] = "removed" => file'[u] = "removed"
    BY <1>1, <2>2 DEF ContractInv, Contract!Remove
  <2>3. ASSUME NEW gone \in SUBSET File, Contract!Expire(gone)
        PROVE  /\ session[u] \in {"completed", "expired"} => session'[u] = session[u]
               /\ file[u] = "removed" => file'[u] = "removed"
    BY <1>1, <2>3 DEF ContractInv, Contract!Expire
  <2> QED
    BY <1>1, <2>1, <2>2, <2>3 DEF Contract!Next
<1>2. ContractInv /\ [Contract!Next]_<<session, file>> =>
        [\A u \in File :
           /\ session[u] \in {"completed", "expired"} => session'[u] = session[u]
           /\ file[u] = "removed" => file'[u] = "removed"]_<<session, file>>
  BY <1>1
<1> QED
  BY <1>2, Implements, ContractKept, PTL DEF ContractSpec, Contract!Spec

-----------------------------------------------------------------------------
(* Forms and objects.                                                      *)

\* Pauses and forms are shorter than the wait for the staging key: 5 s, at
\* most 300 s, 305 s.
Margin == SignDelay + FormTTL <= Grace

\* Every form of the session, signed or still to be signed, ends by t.
FormsEndBy(u, t) ==
  /\ formEnd[u] <= t
  /\ signing[u] # NoRead =>
       expires[u] <= t \/ signing[u] + SignDelay + FormTTL <= t

Ended(u) == status[u] \in {"completed", "cleanup_pending"}

\* A form is signed soon after its session was read, and for no longer than
\* the session and FormTTL,
FormsSigned ==
  \A u \in File :
    /\ status[u] = "none" => formEnd[u] = 0 /\ signing[u] = NoRead
    /\ formEnd[u] <= expires[u] /\ formEnd[u] <= now + FormTTL
    /\ signing[u] # NoRead => signing[u] <= now /\ now <= signing[u] + SignDelay
\* a staging key is queued when its session ends, and not before,
StagingQueued == \A u \in File : Queued(u) => Ended(u)
\* the commit knows when the forms of its session end,
CommitAfterForms ==
  \A a \in Attempt :
    HoldsLease(a) /\ pc[a] = "committing" =>
      FormsEndBy(of[a], began[a] + SignDelay + FormTTL)
\* and they end before the staging key may be cleaned.
FormsCovered ==
  \A u \in File : Ended(u) => FormsEndBy(u, IF Queued(u) THEN queue[u] ELSE now)

\* e is the row that is now queued for its key.
Current(e) == e.issue = issue[e.key] /\ Queued(e.key)
Hands(s) == work[s] \cup ({emptied[s]} \ {NoEntry})
\* What a pass has in hand is due, or has been dropped and perhaps queued again.
HandsDue ==
  \A s \in Server : \A e \in Hands(s) :
    e.issue <= issue[e.key] /\ (Current(e) => queue[e.key] <= now)

\* The inductive invariant behind CleanAfterForms.
FInv ==
  /\ TypeOK /\ FormsSigned /\ StagingQueued /\ CommitAfterForms
  /\ FormsCovered /\ HandsDue

\* A key a pass has found empty stays empty while its row is there,
EmptiedEmpty ==
  \A s \in Server :
    emptied[s] # NoEntry /\ Current(emptied[s]) => emptied[s].key \notin stored
\* so does one a remover has emptied,
ErasedEmpty == deletions \cup erased \subseteq Attempt /\ erased \cap stored = {}
\* and a copy that may still land in its lease lands on a key nothing empties.
CopiesSpared == \A a \in inflight : HoldsLease(a) => Spared(a)

\* The inductive invariant behind EveryObjectTracked.
TInv ==
  /\ IInv /\ FInv /\ EmptiedEmpty /\ ErasedEmpty /\ CopiesSpared
  /\ EveryObjectTracked

-----------------------------------------------------------------------------
(* What one step can do to a form, to an outbox row, to what a pass holds. *)

LEMMA FormSteps ==
  ASSUME TypeOK, [Next]_vars, NEW u \in File
  PROVE  \/ /\ formEnd'[u] = formEnd[u] /\ signing'[u] = signing[u]
            /\ expires'[u] = expires[u] /\ now' = now
         \/ Tick \/ CreateSession(u) \/ ReadSession(u) \/ SignForm(u)
<1> USE DEF vars, rowVars, uploadVars, sessionVars, formVars, attemptVars,
            outboxVars, passVars
<1> DEFINE Same == /\ formEnd'[u] = formEnd[u] /\ signing'[u] = signing[u]
                   /\ expires'[u] = expires[u] /\ now' = now
<1>1. ASSUME NEW v \in File, SessionNext(v), v # u
      PROVE  Same
  BY <1>1 DEF SessionNext, CreateSession, ReadSession, SignForm, PostForm, Remove,
              TypeOK
<1>2. CASE SessionNext(u)
  BY <1>2 DEF SessionNext, PostForm, Remove
<1>3. ASSUME NEW a \in Attempt, AttemptNext(a)
      PROVE  Same
  BY <1>3 DEF AttemptNext, BeginClaim, Claim, RejectStaged, SendCopy, CopyLands,
              CopyAnswered, AcceptCandidate, RejectCandidate, Restore, BeginCommit,
              Commit, AttemptStops, AttemptStep
<1>4. ASSUME NEW s \in Server, PassNext(s)
      PROVE  Same
  BY <1>4 DEF PassNext, ExpireSessions, SelectDue, SweepKey, SkipKey, DropRow,
              EndPass, PassStops
<1> QED
  BY <1>1, <1>2, <1>3, <1>4 DEF Next

\* A key that is put into the outbox gets a row of its own.
LEMMA EnqueueRow ==
  ASSUME TypeOK, NEW keys \in SUBSET Key, NEW at \in Nat, Enqueue(keys, at), NEW k \in Key
  PROVE  IF k \in keys /\ ~Queued(k)
         THEN queue'[k] = at /\ issue'[k] = issue[k] + 1
         ELSE queue'[k] = queue[k] /\ issue'[k] = issue[k]
BY DEF Enqueue, TypeOK

LEMMA QueueSteps ==
  ASSUME TypeOK, [Next]_vars, NEW k \in Key
  PROVE  \/ queue'[k] = queue[k] /\ issue'[k] = issue[k]
         \/ ~Queued(k) /\ queue'[k] \in Nat /\ issue'[k] = issue[k] + 1
         \/ /\ issue'[k] = issue[k]
            /\ \E s \in Server :
                 /\ DropRow(s) /\ emptied[s].key = k
                 /\ emptied[s].issue = issue[k] /\ queue'[k] = NotQueued
<1> USE DEF vars, rowVars, uploadVars, sessionVars, formVars, attemptVars,
            outboxVars, passVars
<1> DEFINE Same == queue'[k] = queue[k] /\ issue'[k] = issue[k]
           New == ~Queued(k) /\ queue'[k] \in Nat /\ issue'[k] = issue[k] + 1
<1>1. ASSUME NEW keys \in SUBSET Key, NEW at \in Nat, Enqueue(keys, at)
      PROVE  Same \/ New
  BY <1>1, EnqueueRow
<1>2. ASSUME NEW v \in File, SessionNext(v)
      PROVE  Same
  BY <1>2 DEF SessionNext, CreateSession, ReadSession, SignForm, PostForm
<1>3. ASSUME NEW b \in Attempt, AttemptNext(b)
      PROVE  Same \/ New
  <2>1. ASSUME NEW u \in File, Claim(b, u)
        PROVE  Same \/ New
    <3>1. /\ {candidate[u]} \cap Attempt \in SUBSET Key /\ began[b] \in Nat
          /\ Enqueue({candidate[u]} \cap Attempt, began[b])
      BY <2>1, KeyAssumption DEF Claim, TypeOK
    <3> QED
      BY <1>1, <3>1
  <2>2. ASSUME RejectCandidate(b)
        PROVE  Same \/ New
    <3>1. {b} \in SUBSET Key /\ now \in Nat /\ Enqueue({b}, now)
      BY <2>2, KeyAssumption DEF RejectCandidate, TypeOK
    <3> QED
      BY <1>1, <3>1
  <2>3. ASSUME Commit(b)
        PROVE  Same \/ New
    <3>1. /\ {of[b]} \in SUBSET Key /\ StagingDue(b) \in Nat
          /\ Enqueue({of[b]}, StagingDue(b))
      BY <2>3, TimesType, KeyAssumption DEF Commit, MayCommit, HoldsLease
    <3> QED
      BY <1>1, <3>1
  <2>4. CASE \/ BeginClaim(b) \/ RejectStaged(b) \/ SendCopy(b) \/ CopyLands(b)
             \/ CopyAnswered(b) \/ AcceptCandidate(b) \/ Restore(b)
             \/ BeginCommit(b) \/ AttemptStops(b)
    BY <2>4 DEF BeginClaim, RejectStaged, SendCopy, CopyLands, CopyAnswered,
                AcceptCandidate, Restore, BeginCommit, AttemptStops, AttemptStep
  <2> QED
    BY <1>3, <2>1, <2>2, <2>3, <2>4 DEF AttemptNext
<1>4. ASSUME NEW s \in Server, ExpireSessions(s)
      PROVE  Same \/ New
  <2> DEFINE gone == {u \in File : Abandoned(u)}
             keys == gone \cup ({candidate[u] : u \in gone} \cap Attempt)
  <2>1. keys \in SUBSET Key /\ now \in Nat /\ Enqueue(keys, now)
    BY <1>4, KeyAssumption DEF ExpireSessions, TypeOK
  <2> HIDE DEF keys
  <2> QED
    BY <1>1, <2>1
<1>5. ASSUME NEW s \in Server, DropRow(s), ~Same
      PROVE  /\ issue'[k] = issue[k] /\ emptied[s].key = k
             /\ emptied[s].issue = issue[k] /\ queue'[k] = NotQueued
  BY <1>5 DEF DropRow, TypeOK
<1>6. ASSUME NEW s \in Server, PassNext(s), ~ExpireSessions(s), ~DropRow(s)
      PROVE  Same
  BY <1>6 DEF PassNext, SelectDue, SweepKey, SkipKey, EndPass, PassStops
<1>7. CASE Tick \/ UNCHANGED vars \/ (RemovalNext /\ UNCHANGED uploadVars)
  BY <1>7 DEF Tick
<1> QED
  BY <1>2, <1>3, <1>4, <1>5, <1>6, <1>7 DEF Next

\* A staging key is queued by what ends its session.
LEMMA StagingSteps ==
  ASSUME TypeOK, [Next]_vars, NEW u \in File, ~Queued(u)
  PROVE  \/ queue'[u] = NotQueued
         \/ \E a \in Attempt : Commit(a) /\ of[a] = u
         \/ Abandoned(u) /\ \E s \in Server : ExpireSessions(s)
<1> USE DEF vars, rowVars, uploadVars, sessionVars, formVars, attemptVars,
            outboxVars, passVars
<1>1. queue[u] = NotQueued /\ u \in Key
  BY KeyAssumption DEF Queued
<1>2. ASSUME NEW keys \in SUBSET Key, NEW at \in Nat, Enqueue(keys, at), u \notin keys
      PROVE  queue'[u] = NotQueued
  BY <1>1, <1>2, EnqueueRow
<1>3. ASSUME NEW v \in File, SessionNext(v)
      PROVE  queue'[u] = NotQueued
  BY <1>1, <1>3 DEF SessionNext, CreateSession, ReadSession, SignForm, PostForm
<1>4. ASSUME NEW b \in Attempt, AttemptNext(b), ~(Commit(b) /\ of[b] = u)
      PROVE  queue'[u] = NotQueued
  <2>1. ASSUME NEW v \in File, Claim(b, v)
        PROVE  queue'[u] = NotQueued
    <3>1. /\ {candidate[v]} \cap Attempt \in SUBSET Key /\ began[b] \in Nat
          /\ Enqueue({candidate[v]} \cap Attempt, began[b])
          /\ u \notin {candidate[v]} \cap Attempt
      BY <2>1, KeyAssumption DEF Claim, TypeOK
    <3> QED
      BY <1>2, <3>1
  <2>2. ASSUME RejectCandidate(b)
        PROVE  queue'[u] = NotQueued
    <3>1. {b} \in SUBSET Key /\ now \in Nat /\ Enqueue({b}, now) /\ u \notin {b}
      BY <2>2, KeyAssumption DEF RejectCandidate, TypeOK
    <3> QED
      BY <1>2, <3>1
  <2>3. ASSUME Commit(b)
        PROVE  queue'[u] = NotQueued
    <3>1. /\ {of[b]} \in SUBSET Key /\ StagingDue(b) \in Nat
          /\ Enqueue({of[b]}, StagingDue(b)) /\ u \notin {of[b]}
      BY <1>4, <2>3, TimesType, KeyAssumption DEF Commit, MayCommit, HoldsLease
    <3> QED
      BY <1>2, <3>1
  <2>4. CASE \/ BeginClaim(b) \/ RejectStaged(b) \/ SendCopy(b) \/ CopyLands(b)
             \/ CopyAnswered(b) \/ AcceptCandidate(b) \/ Restore(b)
             \/ BeginCommit(b) \/ AttemptStops(b)
    BY <1>1, <2>4 DEF BeginClaim, RejectStaged, SendCopy, CopyLands, CopyAnswered,
                AcceptCandidate, Restore, BeginCommit, AttemptStops, AttemptStep
  <2> QED
    BY <1>4, <2>1, <2>2, <2>3, <2>4 DEF AttemptNext
<1>5. ASSUME NEW s \in Server, ExpireSessions(s), ~Abandoned(u)
      PROVE  queue'[u] = NotQueued
  <2> DEFINE gone == {v \in File : Abandoned(v)}
             keys == gone \cup ({candidate[v] : v \in gone} \cap Attempt)
  <2>1. keys \in SUBSET Key /\ now \in Nat /\ Enqueue(keys, now) /\ u \notin keys
    BY <1>5, KeyAssumption DEF ExpireSessions, TypeOK
  <2> HIDE DEF keys
  <2> QED
    BY <1>2, <2>1
<1>6. ASSUME NEW s \in Server, PassNext(s), ~ExpireSessions(s)
      PROVE  queue'[u] = NotQueued
  BY <1>1, <1>6 DEF PassNext, SelectDue, SweepKey, SkipKey, DropRow, EndPass, PassStops,
                    TypeOK
<1>7. CASE Tick \/ UNCHANGED vars \/ (RemovalNext /\ UNCHANGED uploadVars)
  BY <1>1, <1>7 DEF Tick
<1> QED
  BY <1>3, <1>4, <1>5, <1>6, <1>7 DEF Next

\* The clock does not go back.
LEMMA ClockSteps ==
  ASSUME TypeOK, [Next]_vars
  PROVE  now' \in {now, now + 1}
BY ZenonT(60) DEF Next, vars, rowVars, uploadVars, sessionVars, formVars, attemptVars, outboxVars,
       passVars, Tick, SessionNext, CreateSession, ReadSession, SignForm, PostForm,
       AttemptNext, BeginClaim, Claim, RejectStaged, SendCopy, CopyLands, CopyAnswered,
       AcceptCandidate, RejectCandidate, Restore, BeginCommit, Commit, AttemptStops,
       AttemptStep, PassNext, ExpireSessions, SelectDue, SweepKey, SkipKey, DropRow,
       EndPass, PassStops

\* A pass takes up rows that are due, and gives them up.
LEMMA HandsSteps ==
  ASSUME TypeOK, [Next]_vars, NEW s \in Server
  PROVE  /\ \/ Hands(s)' \subseteq Hands(s)
            \/ /\ UNCHANGED <<queue, issue, now>>
               /\ \A e \in Hands(s)' \ Hands(s) :
                    /\ e.key \in Key /\ Queued(e.key) /\ queue[e.key] <= now
                    /\ e.issue = issue[e.key]
         /\ \/ emptied'[s] \in {emptied[s], NoEntry}
            \/ \E e \in work[s] : SweepKey(s, e) /\ emptied'[s] = e
<1> USE DEF vars, rowVars, uploadVars, sessionVars, formVars, attemptVars,
            outboxVars, passVars
<1> DEFINE Less == /\ Hands(s)' \subseteq Hands(s)
                   /\ emptied'[s] \in {emptied[s], NoEntry}
<1>1. ASSUME UNCHANGED <<work, emptied>>
      PROVE  Less
  BY <1>1 DEF Hands
<1>2. ASSUME NEW v \in File, SessionNext(v)
      PROVE  Less
  BY <1>1, <1>2 DEF SessionNext, CreateSession, ReadSession, SignForm, PostForm
<1>3. ASSUME NEW a \in Attempt, AttemptNext(a)
      PROVE  Less
  BY <1>1, <1>3 DEF AttemptNext, BeginClaim, Claim, RejectStaged, SendCopy, CopyLands,
              CopyAnswered, AcceptCandidate, RejectCandidate, Restore, BeginCommit,
              Commit, AttemptStops, AttemptStep
<1>4. ASSUME NEW t \in Server, PassNext(t), t # s
      PROVE  Less
  <2>1. work'[s] = work[s] /\ emptied'[s] = emptied[s]
    BY <1>4 DEF PassNext, ExpireSessions, SelectDue, SweepKey, SkipKey, DropRow,
              EndPass, PassStops, TypeOK
  <2> QED
    BY <2>1 DEF Hands
<1>5. ASSUME SelectDue(s)
      PROVE  /\ UNCHANGED <<queue, issue, now>> /\ emptied'[s] = emptied[s]
             /\ \A e \in Hands(s)' \ Hands(s) :
                  /\ e.key \in Key /\ Queued(e.key) /\ queue[e.key] <= now
                  /\ e.issue = issue[e.key]
  <2>1. /\ UNCHANGED <<queue, issue, now, emptied>>
        /\ work'[s] = {[key |-> k, issue |-> issue[k]] :
                         k \in {q \in Key : Queued(q) /\ queue[q] <= now}}
    BY <1>5 DEF SelectDue, TypeOK
  <2> QED
    BY <2>1 DEF Hands
<1>6. ASSUME NEW e \in work[s], SweepKey(s, e)
      PROVE  emptied'[s] = e /\ Hands(s)' \subseteq Hands(s)
  <2>1. emptied'[s] = e /\ work'[s] = work[s] \ {e}
    BY <1>6 DEF SweepKey, TypeOK
  <2> QED
    BY <2>1 DEF Hands
<1>7. ASSUME NEW e \in work[s], SkipKey(s, e)
      PROVE  Less
  <2>1. emptied'[s] = emptied[s] /\ work'[s] = work[s] \ {e}
    BY <1>7 DEF SkipKey, TypeOK
  <2> QED
    BY <2>1 DEF Hands
<1>8. ASSUME DropRow(s) \/ PassStops(s)
      PROVE  Less
  <2>1. emptied'[s] = NoEntry /\ work'[s] \subseteq work[s]
    BY <1>8 DEF DropRow, PassStops, TypeOK
  <2> QED
    BY <2>1 DEF Hands
<1>9. CASE ExpireSessions(s) \/ EndPass(s)
  BY <1>1, <1>9 DEF ExpireSessions, EndPass
<1>10. CASE Tick \/ UNCHANGED vars \/ (RemovalNext /\ UNCHANGED uploadVars)
  BY <1>1, <1>10 DEF Tick
<1> QED
  BY <1>2, <1>3, <1>4, <1>5, <1>6, <1>7, <1>8, <1>9, <1>10 DEF Next, PassNext

-----------------------------------------------------------------------------
(* Forms.                                                                  *)

LEMMA InitFInv == Init => FInv
<1> SUFFICES ASSUME Init
             PROVE  FInv
  OBVIOUS
<1>1. TypeOK
  BY TypeInit
<1>2. /\ \A u \in File : /\ formEnd[u] = 0 /\ signing[u] = NoRead /\ expires[u] = 0
                         /\ ~Queued(u) /\ ~Ended(u)
      /\ now = 0
      /\ \A a \in Attempt : pc[a] = "idle"
      /\ \A s \in Server : Hands(s) = {}
  BY KeyAssumption DEF Init, Queued, Ended, Hands
<1> QED
  BY <1>1, <1>2, TimeAssumption
     DEF FInv, FormsSigned, StagingQueued, CommitAfterForms, FormsCovered, HandsDue

\* A session that is not pending gives out no new forms but those it was read for.
LEMMA FormsEndStays ==
  ASSUME TypeOK, FormsSigned, [Next]_vars, NEW u \in File, NEW t \in Int,
         status[u] \notin {"none", "pending"}, FormsEndBy(u, t)
  PROVE  /\ formEnd'[u] <= t
         /\ signing'[u] # NoRead =>
              expires'[u] <= t \/ signing'[u] + SignDelay + FormTTL <= t
<1> USE TimeAssumption
<1>1. /\ formEnd[u] \in Nat /\ signing[u] \in Nat \cup {NoRead} /\ expires[u] \in Nat
      /\ now \in Nat /\ SignDelay \in Nat /\ FormTTL \in Nat
  BY DEF TypeOK
<1>2. CASE Tick
  <2>1. /\ formEnd'[u] = formEnd[u] /\ expires'[u] = expires[u]
        /\ signing'[u] \in {signing[u], NoRead}
    BY <1>2 DEF Tick, formVars, sessionVars
  <2> QED
    BY <2>1 DEF FormsEndBy
<1>3. CASE SignForm(u)
  <2>1. /\ signing[u] # NoRead /\ signing'[u] = NoRead
        /\ formEnd'[u] = Later(formEnd[u], FormExpiry(u))
    BY <1>3 DEF SignForm, TypeOK
  <2>2. now <= signing[u] + SignDelay
    BY <2>1 DEF FormsSigned
  <2>3. FormExpiry(u) <= expires[u] /\ FormExpiry(u) <= now + FormTTL
    BY <1>1 DEF FormExpiry, Sooner
  <2>4. FormExpiry(u) <= t
    BY <1>1, <2>1, <2>2, <2>3, TimesType DEF FormsEndBy
  <2> QED
    BY <2>1, <2>4 DEF FormsEndBy, Later
<1>4. ~CreateSession(u) /\ ~ReadSession(u)
  BY DEF CreateSession, ReadSession
<1> QED
  BY <1>2, <1>3, <1>4, FormSteps DEF FormsEndBy

LEMMA SignedStep ==
  ASSUME FInv, [Next]_vars
  PROVE  FormsSigned'
<1> SUFFICES ASSUME NEW u \in File
             PROVE  /\ status'[u] = "none" => formEnd'[u] = 0 /\ signing'[u] = NoRead
                    /\ formEnd'[u] <= expires'[u] /\ formEnd'[u] <= now' + FormTTL
                    /\ signing'[u] # NoRead =>
                         signing'[u] <= now' /\ now' <= signing'[u] + SignDelay
  BY DEF FormsSigned
<1> USE TimeAssumption
<1>1. /\ TypeOK
      /\ status[u] = "none" => formEnd[u] = 0 /\ signing[u] = NoRead
      /\ formEnd[u] <= expires[u] /\ formEnd[u] <= now + FormTTL
      /\ signing[u] # NoRead => signing[u] <= now /\ now <= signing[u] + SignDelay
      /\ formEnd[u] \in Nat /\ signing[u] \in Nat \cup {NoRead} /\ expires[u] \in Nat
      /\ now \in Nat
  BY DEF FInv, FormsSigned, TypeOK
<1>2. status'[u] = "none" => status[u] = "none"
  <2>1. \A a \in Attempt : Claim(a, u) => status'[u] = "finalizing"
    BY <1>1 DEF Claim, TypeOK
  <2>2. \A a \in Attempt : Restore(a) /\ of[a] = u => status'[u] = "pending"
    BY <1>1 DEF Restore, TypeOK
  <2>3. \A a \in Attempt : Commit(a) /\ of[a] = u => status'[u] = "completed"
    BY <1>1 DEF Commit, TypeOK
  <2>4. \A s \in Server : Abandoned(u) /\ ExpireSessions(s) => status'[u] = "cleanup_pending"
    BY DEF ExpireSessions
  <2> QED
    BY <1>1, <2>1, <2>2, <2>3, <2>4, SessionSteps DEF uploadVars
<1>3. CASE Tick
  <2>1. /\ formEnd'[u] = formEnd[u] /\ expires'[u] = expires[u] /\ now' = now + 1
        /\ signing'[u] = IF signing[u] + SignDelay <= now THEN NoRead ELSE signing[u]
    BY <1>3 DEF Tick, formVars, sessionVars
  <2> QED
    BY <1>1, <1>2, <2>1 DEF NoRead
<1>4. CASE CreateSession(u)
  <2>1. /\ status[u] = "none" /\ status'[u] = "pending"
        /\ formEnd'[u] = formEnd[u] /\ signing'[u] = now /\ now' = now
        /\ expires'[u] = now + TTL
    BY <1>1, <1>4 DEF CreateSession, TypeOK
  <2> QED
    BY <1>1, <2>1
<1>5. CASE ReadSession(u)
  <2>1. /\ status[u] = "pending" /\ status'[u] = status[u]
        /\ formEnd'[u] = formEnd[u] /\ signing'[u] = now /\ now' = now
        /\ expires'[u] = expires[u]
    BY <1>1, <1>5 DEF ReadSession, sessionVars, TypeOK
  <2> QED
    BY <1>1, <2>1
<1>6. CASE SignForm(u)
  <2>1. /\ signing[u] # NoRead /\ signing'[u] = NoRead /\ now' = now
        /\ formEnd'[u] = Later(formEnd[u], FormExpiry(u)) /\ expires'[u] = expires[u]
    BY <1>1, <1>6 DEF SignForm, sessionVars, TypeOK
  <2>2. FormExpiry(u) <= expires[u] /\ FormExpiry(u) <= now + FormTTL
    BY <1>1 DEF FormExpiry, Sooner
  <2> QED
    BY <1>1, <1>2, <2>1, <2>2 DEF Later
<1> QED
  BY <1>1, <1>2, <1>3, <1>4, <1>5, <1>6, FormSteps

\* An ended session stays so.
LEMMA EndedSteps ==
  ASSUME TypeOK, [Next]_vars, NEW u \in File
  PROVE  /\ Ended(u) => status'[u] = status[u]
         /\ Ended(u)' =>
              \/ Ended(u)
              \/ \E a \in Attempt : Commit(a) /\ of[a] = u /\ HoldsLease(a)
                                    /\ status[u] = "finalizing"
              \/ Abandoned(u) /\ \E s \in Server : ExpireSessions(s)
<1>1. \A a \in Attempt : Claim(a, u) => ~Ended(u) /\ status'[u] = "finalizing"
  BY DEF Claim, LeaseFree, Ended, TypeOK
<1>2. \A a \in Attempt : Restore(a) /\ of[a] = u =>
        status[u] = "finalizing" /\ status'[u] = "pending"
  BY DEF Restore, HoldsLease, TypeOK
<1>3. \A a \in Attempt : Commit(a) /\ of[a] = u =>
        status[u] = "finalizing" /\ HoldsLease(a)
  BY DEF Commit, MayCommit, HoldsLease, TypeOK
<1>4. Abandoned(u) => ~Ended(u)
  BY DEF Abandoned, LeaseFree, Ended
<1>5. Remove(u) /\ UNCHANGED uploadVars => status' = status
  BY DEF uploadVars
<1> QED
  BY <1>1, <1>2, <1>3, <1>4, <1>5, SessionSteps DEF Ended

LEMMA QueuedStep ==
  ASSUME FInv, [Next]_vars
  PROVE  StagingQueued'
<1> SUFFICES ASSUME NEW u \in File, Queued(u)'
             PROVE  Ended(u)'
  BY DEF StagingQueued
<1>1. TypeOK
  BY DEF FInv
<1>2. CASE Queued(u)
  BY <1>1, <1>2, EndedSteps DEF FInv, StagingQueued, Ended
<1>3. CASE ~Queued(u)
  <2>1. ASSUME NEW a \in Attempt, Commit(a), of[a] = u
        PROVE  status'[u] = "completed"
    BY <1>1, <2>1 DEF Commit, TypeOK
  <2>2. ASSUME Abandoned(u), NEW s \in Server, ExpireSessions(s)
        PROVE  status'[u] = "cleanup_pending"
    BY <2>2 DEF ExpireSessions
  <2> QED
    BY <1>1, <1>3, <2>1, <2>2, StagingSteps DEF Ended, Queued
<1> QED
  BY <1>2, <1>3

LEMMA CommitAfterStep ==
  ASSUME FInv, [Next]_vars
  PROVE  CommitAfterForms'
<1> SUFFICES ASSUME NEW a \in Attempt, HoldsLease(a)', pc'[a] = "committing"
             PROVE  FormsEndBy(of[a], began[a] + SignDelay + FormTTL)'
  BY DEF CommitAfterForms
<1> USE TimeAssumption
<1>1. TypeOK /\ FormsSigned /\ now \in Nat
  BY DEF FInv, TypeOK
<1>2. ~ \E u \in File : Claim(a, u)
  BY <1>1, ZenonT(60) DEF Claim, Moves, TypeOK
<1>3. of'[a] = of[a] /\ of[a] \in File
  BY <1>1, <1>2, AttemptSteps DEF HoldsLease
<1> DEFINE u == of[a]
<1>4. lease[u] = a /\ status[u] = "finalizing"
  <2>1. lease'[u] = a
    BY <1>3 DEF HoldsLease
  <2>2. \A b \in Attempt : Claim(b, u) => lease'[u] = b
    BY <1>1, <1>3 DEF Claim, TypeOK
  <2>3. \A b \in Attempt : (Restore(b) \/ Commit(b)) /\ of[b] = u => lease'[u] = NoAttempt
    BY <1>1, <1>3 DEF Restore, Commit, TypeOK
  <2>4. \A s \in Server : Abandoned(u) /\ ExpireSessions(s) => lease'[u] = NoAttempt
    BY <1>3 DEF ExpireSessions
  <2>5. Remove(u) /\ UNCHANGED uploadVars => lease' = lease
    BY DEF uploadVars
  <2>6. lease[u] = a
    BY <1>1, <1>2, <1>3, <2>1, <2>2, <2>3, <2>4, <2>5, SessionSteps, KeyAssumption
  <2> QED
    BY <1>1, <1>3, <2>6 DEF TypeOK
<1>5. CASE BeginCommit(a)
  <2>1. /\ began'[a] = now /\ now' = now
        /\ UNCHANGED <<formEnd, signing, expires>>
    BY <1>1, <1>5 DEF BeginCommit, formVars, sessionVars, TypeOK
  <2>2. /\ formEnd[u] <= now + FormTTL
        /\ signing[u] # NoRead => signing[u] <= now
        /\ formEnd[u] \in Nat /\ signing[u] \in Nat \cup {NoRead} /\ expires[u] \in Nat
    BY <1>1, <1>3 DEF FormsSigned, TypeOK
  <2>3. formEnd'[u] <= began'[a] + SignDelay + FormTTL
    BY <1>1, <2>1, <2>2
  <2>4. signing'[u] # NoRead => signing'[u] + SignDelay + FormTTL <= began'[a] + SignDelay + FormTTL
    BY <1>1, <2>1, <2>2
  <2> HIDE DEF u
  <2>5. u = of'[a]
    BY <1>3 DEF u
  <2> QED
    BY <2>3, <2>4, <2>5 DEF FormsEndBy
<1>6. CASE ~BeginCommit(a)
  <2>1. pc[a] = "committing" /\ began'[a] = began[a]
    <3> USE DEF vars, rowVars, uploadVars, sessionVars, formVars, attemptVars,
                outboxVars, passVars
    <3>1. ASSUME NEW b \in Attempt, AttemptNext(b), b # a
          PROVE  pc'[a] = pc[a] /\ began'[a] = began[a]
      <4>1. \A x \in Attempt : \A y : x # b => [pc EXCEPT ![b] = y][x] = pc[x]
        BY <1>1 DEF TypeOK
      <4>2. \A x \in Attempt : \A y : x # b => [began EXCEPT ![b] = y][x] = began[x]
        BY <1>1 DEF TypeOK
      <4>3. CASE BeginClaim(b) \/ BeginCommit(b) \/ Commit(b) \/ AttemptStops(b)
        <5>1. CASE BeginClaim(b) \/ BeginCommit(b)
          BY <3>1, <4>1, <4>2, <5>1, ZenonT(60) DEF BeginClaim, BeginCommit, Moves
        <5>2. CASE Commit(b)
          BY <3>1, <4>1, <4>2, <5>2 DEF Commit, Moves
        <5>3. CASE AttemptStops(b)
          BY <3>1, <4>1, <4>2, <5>3 DEF AttemptStops, Moves
        <5> QED
          BY <4>3, <5>1, <5>2, <5>3
      <4>4. ASSUME NEW v \in File, Claim(b, v)
            PROVE  pc'[a] = pc[a] /\ began'[a] = began[a]
        BY <3>1, <4>1, <4>2, <4>4 DEF Claim, Moves
      <4>5. CASE \/ RejectStaged(b) \/ SendCopy(b) \/ CopyLands(b) \/ CopyAnswered(b)
                 \/ AcceptCandidate(b) \/ RejectCandidate(b) \/ Restore(b)
        BY <3>1, <4>1, <4>5 DEF RejectStaged, SendCopy, CopyLands, CopyAnswered,
               AcceptCandidate, RejectCandidate, Restore, AttemptStep, Moves
      <4> QED
        BY <3>1, <4>3, <4>4, <4>5 DEF AttemptNext
    <3>2. CASE AttemptNext(a)
      <4>1. CASE CopyLands(a)
        BY <4>1 DEF CopyLands
      <4>2. CASE ~CopyLands(a)
        BY <1>1, <1>2, <1>6, <3>2, <4>2 DEF AttemptNext, BeginClaim, RejectStaged,
             SendCopy, CopyAnswered, AcceptCandidate, RejectCandidate, Restore,
             Commit, AttemptStops, AttemptStep, Moves, TypeOK
      <4> QED
        BY <4>1, <4>2
    <3>3. ASSUME NEW v \in File, SessionNext(v)
          PROVE  pc'[a] = pc[a] /\ began'[a] = began[a]
      BY <3>3 DEF SessionNext, CreateSession, ReadSession, SignForm, PostForm
    <3>4. ASSUME NEW s \in Server, PassNext(s)
          PROVE  pc'[a] = pc[a] /\ began'[a] = began[a]
      BY <3>4 DEF PassNext, ExpireSessions, SelectDue, SweepKey, SkipKey, DropRow,
             EndPass, PassStops
    <3>5. CASE Tick \/ UNCHANGED vars \/ (RemovalNext /\ UNCHANGED uploadVars)
      BY <3>5 DEF Tick
    <3> QED
      BY <3>1, <3>2, <3>3, <3>4, <3>5 DEF Next
  <2>2. FormsEndBy(u, began[a] + SignDelay + FormTTL) /\ began[a] + SignDelay + FormTTL \in Int
    BY <1>3, <1>4, <2>1 DEF FInv, CommitAfterForms, HoldsLease, TypeOK
  <2> HIDE DEF u
  <2>3. u \in File /\ u = of[a]
    BY <1>3 DEF u
  <2>4. /\ formEnd'[u] <= began[a] + SignDelay + FormTTL
        /\ signing'[u] # NoRead => \/ expires'[u] <= began[a] + SignDelay + FormTTL
                                   \/ signing'[u] + SignDelay + FormTTL
                                        <= began[a] + SignDelay + FormTTL
    BY <1>1, <1>4, <2>2, <2>3, FormsEndStays
  <2> QED
    BY <1>3, <2>1, <2>3, <2>4 DEF FormsEndBy
<1> QED
  BY <1>5, <1>6

LEMMA CoveredStep ==
  ASSUME Margin, FInv, [Next]_vars
  PROVE  FormsCovered'
<1> SUFFICES ASSUME NEW u \in File, Ended(u)'
             PROVE  FormsEndBy(u, IF Queued(u) THEN queue[u] ELSE now)'
  BY DEF FormsCovered
<1> USE TimeAssumption
<1>1. /\ TypeOK /\ FormsSigned /\ now \in Nat /\ now' \in Nat /\ now <= now'
      /\ u \in Key /\ queue[u] \in Nat \cup {NotQueued}
      /\ formEnd[u] \in Nat /\ signing[u] \in Nat \cup {NoRead} /\ expires[u] \in Nat
  BY ClockSteps, KeyAssumption DEF FInv, TypeOK
<1>2. ASSUME NEW t \in Int, NEW after \in Int, t <= after, FormsEndBy(u, t),
             status[u] \notin {"none", "pending"},
             after = IF Queued(u)' THEN queue'[u] ELSE now'
      PROVE  FormsEndBy(u, IF Queued(u) THEN queue[u] ELSE now)'
  <2>1. /\ formEnd'[u] <= t
        /\ signing'[u] # NoRead =>
             expires'[u] <= t \/ signing'[u] + SignDelay + FormTTL <= t
    BY <1>1, <1>2, FormsEndStays
  <2>2. TypeOK'
    BY <1>1, TypeStep
  <2>3. formEnd'[u] \in Nat /\ signing'[u] \in Nat \cup {NoRead} /\ expires'[u] \in Nat
    BY <2>2 DEF TypeOK
  <2>4. /\ formEnd'[u] <= after
        /\ signing'[u] # NoRead =>
             expires'[u] <= after \/ signing'[u] + SignDelay + FormTTL <= after
    BY <1>2, <2>1, <2>3 DEF NoRead
  <2> QED
    BY <1>2, <2>4 DEF FormsEndBy
<1>3. CASE Ended(u)
  <2>1. /\ status[u] \notin {"none", "pending"}
        /\ FormsEndBy(u, IF Queued(u) THEN queue[u] ELSE now)
    BY <1>3 DEF Ended, FInv, FormsCovered
  <2>2. CASE queue'[u] = queue[u]
    <3>1. CASE Queued(u)
      <4>1. /\ queue[u] \in Int /\ queue[u] <= queue[u] /\ FormsEndBy(u, queue[u])
            /\ queue[u] = IF Queued(u)' THEN queue'[u] ELSE now'
        BY <1>1, <2>1, <2>2, <3>1 DEF Queued, NotQueued
      <4> QED
        BY <1>2, <2>1, <4>1
    <3>2. CASE ~Queued(u)
      <4>1. /\ now \in Int /\ now' \in Int /\ FormsEndBy(u, now)
            /\ now' = IF Queued(u)' THEN queue'[u] ELSE now'
        BY <1>1, <2>1, <2>2, <3>2 DEF Queued
      <4> QED
        BY <1>1, <1>2, <2>1, <4>1
    <3> QED
      BY <3>1, <3>2
  <2>3. ASSUME NEW s \in Server, DropRow(s), emptied[s].key = u,
               emptied[s].issue = issue[u], queue'[u] = NotQueued, Queued(u)
        PROVE  FormsEndBy(u, IF Queued(u) THEN queue[u] ELSE now)'
    <3>1. emptied[s] \in Hands(s) /\ Current(emptied[s])
      BY <2>3 DEF Hands, Current, DropRow
    <3>2. queue[u] <= now
      BY <2>3, <3>1 DEF FInv, HandsDue
    <3>3. /\ queue[u] \in Int /\ now' \in Int /\ queue[u] <= now' /\ FormsEndBy(u, queue[u])
          /\ now' = IF Queued(u)' THEN queue'[u] ELSE now'
      BY <1>1, <2>1, <2>3, <3>2 DEF Queued, NotQueued
    <3> QED
      BY <1>2, <2>1, <3>3
  <2>4. Queued(u) \/ queue'[u] = queue[u]
    <3>1. ASSUME NEW a \in Attempt, Commit(a), of[a] = u
          PROVE  FALSE
      BY <1>1, <1>3, <3>1 DEF Commit, MayCommit, HoldsLease, TypeOK, Ended
    <3>2. ~Abandoned(u)
      BY <1>3 DEF Abandoned, LeaseFree, Ended
    <3> QED
      BY <1>1, <3>1, <3>2, StagingSteps DEF Queued
  <2> QED
    BY <1>1, <2>2, <2>3, <2>4, QueueSteps
<1>4. ASSUME ~Ended(u), NEW a \in Attempt, Commit(a), of[a] = u, HoldsLease(a),
             status[u] = "finalizing"
      PROVE  FormsEndBy(u, IF Queued(u) THEN queue[u] ELSE now)'
  <2>1. ~Queued(u) /\ pc[a] = "committing" /\ began[a] \in Nat
    BY <1>1, <1>4 DEF FInv, StagingQueued, Commit, Moves, TypeOK
  <2>2. FormsEndBy(u, began[a] + SignDelay + FormTTL)
    BY <1>4, <2>1 DEF FInv, CommitAfterForms
  <2>3. Enqueue({u}, StagingDue(a)) /\ StagingDue(a) \in Nat /\ {u} \in SUBSET Key
    BY <1>1, <1>4, TimesType DEF Commit
  <2>4. queue'[u] = began[a] + Grace
    BY <1>1, <2>1, <2>3, EnqueueRow DEF StagingDue
  <2>5. /\ queue'[u] \in Int /\ began[a] + SignDelay + FormTTL \in Int
        /\ began[a] + SignDelay + FormTTL <= queue'[u]
        /\ queue'[u] = IF Queued(u)' THEN queue'[u] ELSE now'
    BY <2>1, <2>4 DEF Queued, NotQueued, Margin
  <2> QED
    BY <1>2, <1>4, <2>2, <2>5
<1>5. ASSUME ~Ended(u), Abandoned(u), NEW s \in Server, ExpireSessions(s)
      PROVE  FormsEndBy(u, IF Queued(u) THEN queue[u] ELSE now)'
  <2>1. ~Queued(u) /\ expires[u] <= now
    BY <1>5 DEF FInv, StagingQueued, Abandoned
  <2>2. formEnd[u] <= now
    BY <1>1, <2>1 DEF FormsSigned
  <2>3. /\ formEnd' = formEnd /\ signing' = signing /\ expires' = expires
        /\ now' = now
    BY <1>5 DEF ExpireSessions, formVars
  <2>4. queue'[u] = now
    <3> DEFINE gone == {v \in File : Abandoned(v)}
               keys == gone \cup ({candidate[v] : v \in gone} \cap Attempt)
    <3>1. keys \in SUBSET Key /\ Enqueue(keys, now) /\ u \in keys
      BY <1>5, KeyAssumption DEF ExpireSessions
    <3> HIDE DEF keys
    <3> QED
      BY <1>1, <2>1, <3>1, EnqueueRow
  <2> QED
    BY <1>1, <2>1, <2>2, <2>3, <2>4 DEF FormsEndBy, Queued, NotQueued
<1> QED
  BY <1>1, <1>3, <1>4, <1>5, EndedSteps

LEMMA HandsStep ==
  ASSUME FInv, [Next]_vars
  PROVE  HandsDue'
<1> SUFFICES ASSUME NEW s \in Server, NEW e \in Hands(s)'
             PROVE  /\ e.issue <= issue'[e.key]
                    /\ e.issue = issue'[e.key] /\ queue'[e.key] # NotQueued =>
                         queue'[e.key] <= now'
  BY DEF HandsDue, Current, Queued
<1>1. TypeOK /\ now \in Nat /\ now' \in {now, now + 1}
  BY ClockSteps DEF FInv, TypeOK
<1>2. CASE e \in Hands(s)
  <2>1. /\ e.issue <= issue[e.key] /\ (Current(e) => queue[e.key] <= now)
        /\ e \in Entry
    BY <1>1, <1>2 DEF FInv, HandsDue, Hands, TypeOK
  <2>2. e.key \in Key /\ e.issue \in Nat /\ issue[e.key] \in Nat
        /\ queue[e.key] \in Nat \cup {NotQueued}
    BY <1>1, <2>1 DEF Entry, TypeOK
  <2>3. CASE queue'[e.key] = queue[e.key] /\ issue'[e.key] = issue[e.key]
    BY <1>1, <2>1, <2>2, <2>3 DEF Current, Queued, NotQueued
  <2>4. CASE issue'[e.key] = issue[e.key] + 1
    BY <2>1, <2>2, <2>4
  <2>5. CASE queue'[e.key] = NotQueued /\ issue'[e.key] = issue[e.key]
    BY <2>1, <2>5
  <2> QED
    BY <1>1, <2>2, <2>3, <2>4, <2>5, QueueSteps
<1>3. CASE e \notin Hands(s)
  <2>1. /\ UNCHANGED <<queue, issue, now>>
        /\ e.key \in Key /\ queue[e.key] <= now /\ e.issue = issue[e.key]
    BY <1>1, <1>3, HandsSteps
  <2>2. issue[e.key] \in Nat
    BY <1>1, <2>1 DEF TypeOK
  <2> QED
    BY <2>1, <2>2
<1> QED
  BY <1>2, <1>3

\* The forms of a session end before its staging key may be cleaned.
LEMMA FormsInductive ==
  ASSUME Margin
  PROVE  Spec => []FInv
<1>1. FInv /\ [Next]_vars => FInv'
  BY TypeStep, SignedStep, QueuedStep, CommitAfterStep, CoveredStep, HandsStep DEF FInv
<1> QED
  BY InitFInv, <1>1, PTL DEF Spec

\* uploads.rs:335: no staging key is declared clean while a form of its session
\* is valid or may still be signed, if pauses and forms are shorter than the
\* wait: for any sessions, attempts, servers and times.
THEOREM FormsClean ==
  ASSUME Margin
  PROVE  Spec => []CleanAfterForms
<1>1. FInv => CleanAfterForms
  BY DEF FInv, FormsCovered, Ended, FormsEndBy, CleanAfterForms
<1> QED
  BY FormsInductive, <1>1, PTL

-----------------------------------------------------------------------------
(* Objects.                                                                *)

\* An object comes from a form or from a copy.
LEMMA StoredSteps ==
  ASSUME TypeOK, [Next]_vars, NEW k \in stored', k \notin stored
  PROVE  (k \in File /\ PostForm(k)) \/ (k \in Attempt /\ CopyLands(k))
<1> USE DEF vars, rowVars
<1>1. ASSUME NEW v \in File, SessionNext(v)
      PROVE  k \in File /\ PostForm(k)
  BY <1>1 DEF SessionNext, CreateSession, ReadSession, SignForm, PostForm, Remove
<1>2. ASSUME NEW a \in Attempt, AttemptNext(a)
      PROVE  k \in Attempt /\ CopyLands(k)
  <2>1. CASE CopyLands(a)
    BY <1>2, <2>1 DEF CopyLands
  <2>2. stored' = stored \/ CopyLands(a)
    BY <1>2 DEF AttemptNext, BeginClaim, Claim, RejectStaged, SendCopy, CopyAnswered,
                AcceptCandidate, RejectCandidate, Restore, BeginCommit, Commit,
                AttemptStops, AttemptStep
  <2> QED
    BY <2>1, <2>2
<1>3. ASSUME NEW s \in Server, PassNext(s)
      PROVE  FALSE
  BY <1>3 DEF PassNext, ExpireSessions, SelectDue, SweepKey, SkipKey, DropRow,
              EndPass, PassStops
<1>4. ~Tick /\ ~UNCHANGED vars /\ ~(RemovalNext /\ UNCHANGED uploadVars)
  BY DEF Tick, RemovalNext, EraseObject, ForgetDeletion, RemoverStops
<1> QED
  BY <1>1, <1>2, <1>3, <1>4 DEF Next

\* A deletion is recorded by a removal, and forgotten by a remover that has
\* emptied the key.
LEMMA DeletionSteps ==
  ASSUME TypeOK, [Next]_vars, NEW k \in Key
  PROVE  /\ k \in deletions' \cup erased' =>
              \/ k \in deletions \cup erased
              \/ \E u \in File : Remove(u) /\ row[u] = k
         /\ k \in deletions => k \in deletions' \/ k \in erased
         /\ k \in erased' => k \in erased \/ k \notin stored'
<1> USE DEF vars, rowVars
<1> DEFINE Same == deletions' = deletions /\ erased' = erased
           Goal == /\ k \in deletions' \cup erased' =>
                        \/ k \in deletions \cup erased
                        \/ \E u \in File : Remove(u) /\ row[u] = k
                   /\ k \in deletions => k \in deletions' \/ k \in erased
                   /\ k \in erased' => k \in erased \/ k \notin stored'
<1>1. ASSUME NEW v \in File, SessionNext(v)
      PROVE  Same \/ Remove(v)
  BY <1>1 DEF SessionNext, CreateSession, ReadSession, SignForm, PostForm
<1>2. ASSUME NEW a \in Attempt, AttemptNext(a)
      PROVE  Same
  BY <1>2 DEF AttemptNext, BeginClaim, Claim, RejectStaged, SendCopy, CopyLands,
              CopyAnswered, AcceptCandidate, RejectCandidate, Restore, BeginCommit,
              Commit, AttemptStops, AttemptStep
<1>3. ASSUME NEW s \in Server, PassNext(s)
      PROVE  Same
  BY <1>3 DEF PassNext, ExpireSessions, SelectDue, SweepKey, SkipKey, DropRow,
              EndPass, PassStops
<1>4. ASSUME NEW v \in File, Remove(v)
      PROVE  Goal
  BY <1>4 DEF Remove
<1>5. ASSUME RemovalNext
      PROVE  Goal
  BY <1>5 DEF RemovalNext, EraseObject, ForgetDeletion, RemoverStops
<1>6. Tick \/ UNCHANGED vars => Same
  BY DEF Tick
<1> QED
  BY <1>1, <1>2, <1>3, <1>4, <1>5, <1>6 DEF Next

\* S3 is asked for a copy by SendCopy alone.
LEMMA InflightSteps ==
  ASSUME TypeOK, [Next]_vars, NEW a \in inflight', a \notin inflight
  PROVE  SendCopy(a)
<1> USE DEF vars, uploadVars, attemptVars
<1>1. ASSUME NEW v \in File, SessionNext(v)
      PROVE  FALSE
  BY <1>1 DEF SessionNext, CreateSession, ReadSession, SignForm, PostForm
<1>2. ASSUME NEW b \in Attempt, AttemptNext(b)
      PROVE  SendCopy(a)
  <2>1. CASE SendCopy(b)
    BY <1>2, <2>1 DEF SendCopy
  <2>2. inflight' \subseteq inflight \/ SendCopy(b)
    BY <1>2 DEF AttemptNext, BeginClaim, Claim, RejectStaged, CopyLands, CopyAnswered,
                AcceptCandidate, RejectCandidate, Restore, BeginCommit, Commit,
                AttemptStops, AttemptStep
  <2> QED
    BY <2>1, <2>2
<1>3. ASSUME NEW s \in Server, PassNext(s)
      PROVE  FALSE
  BY <1>3 DEF PassNext, ExpireSessions, SelectDue, SweepKey, SkipKey, DropRow,
              EndPass, PassStops
<1>4. ~Tick /\ ~UNCHANGED vars /\ ~(RemovalNext /\ UNCHANGED uploadVars)
  BY DEF Tick
<1> QED
  BY <1>1, <1>2, <1>3, <1>4 DEF Next

\* A form that is taken belongs to a session that is open, or to one whose
\* staging key waits for the end of its forms.
LEMMA PostedTracked ==
  ASSUME FInv, NEW u \in File, PostForm(u)
  PROVE  \/ status[u] \in {"pending", "finalizing"}
         \/ Queued(u) /\ now < queue[u]
<1>1. /\ now < formEnd[u] /\ now \in Nat /\ formEnd[u] \in Nat
      /\ u \in Key /\ queue[u] \in Nat \cup {NotQueued}
      /\ status[u] \in {"none", "pending", "finalizing", "completed", "cleanup_pending"}
  BY KeyAssumption DEF FInv, TypeOK, PostForm
<1>2. status[u] # "none"
  BY <1>1 DEF FInv, FormsSigned
<1>3. CASE Ended(u)
  <2>1. formEnd[u] <= (IF Queued(u) THEN queue[u] ELSE now)
    BY <1>3 DEF FInv, FormsCovered, FormsEndBy
  <2>2. CASE Queued(u)
    BY <1>1, <2>1, <2>2 DEF Queued, NotQueued
  <2>3. CASE ~Queued(u)
    BY <1>1, <2>1, <2>3
  <2> QED
    BY <2>2, <2>3
<1> QED
  BY <1>1, <1>2, <1>3 DEF Ended

LEMMA EmptiedStep ==
  ASSUME LateCopies = FALSE, TInv, [Next]_vars
  PROVE  EmptiedEmpty'
<1> SUFFICES ASSUME NEW s \in Server, emptied'[s] # NoEntry, Current(emptied[s])'
             PROVE  emptied'[s].key \notin stored'
  BY DEF EmptiedEmpty
<1>1. TypeOK /\ FInv
  BY DEF TInv, FInv
<1>2. ASSUME NEW e \in work[s], SweepKey(s, e), emptied'[s] = e
      PROVE  emptied'[s].key \notin stored'
  BY <1>2 DEF SweepKey
<1>3. CASE emptied'[s] = emptied[s]
  <2> DEFINE e == emptied[s]
             k == e.key
  <2>1. /\ e \in Entry /\ e \in Hands(s) /\ e # NoEntry
        /\ e.issue = issue'[k] /\ queue'[k] # NotQueued
    BY <1>1, <1>3 DEF TypeOK, Hands, Current, Queued
  <2>2. /\ k \in Key /\ e.issue \in Nat /\ issue[k] \in Nat
        /\ queue[k] \in Nat \cup {NotQueued} /\ now \in Nat
    BY <1>1, <2>1 DEF Entry, TypeOK
  <2>3. e.issue <= issue[k] /\ (Current(e) => queue[k] <= now)
    BY <1>1, <2>1 DEF FInv, HandsDue
  <2> HIDE DEF e, k
  <2>4. queue'[k] = queue[k] /\ issue'[k] = issue[k]
    BY <1>1, <2>1, <2>2, <2>3, QueueSteps
  <2>5. Current(e) /\ Queued(k) /\ queue[k] <= now
    BY <2>1, <2>3, <2>4 DEF Current, Queued, k
  <2>6. k \notin stored
    BY <2>1, <2>5 DEF TInv, EmptiedEmpty, e, k
  <2>7. ASSUME k \in File, PostForm(k)
        PROVE  FALSE
    <3>1. now < queue[k] \/ ~Ended(k)
      BY <1>1, <2>7, PostedTracked DEF Ended
    <3>2. Ended(k)
      BY <1>1, <2>5, <2>7 DEF FInv, StagingQueued
    <3> QED
      BY <2>2, <2>5, <3>1, <3>2 DEF Queued, NotQueued
  <2>8. ASSUME k \in Attempt, CopyLands(k)
        PROVE  FALSE
    BY <2>5, <2>8 DEF CopyLands, InLease, TInv, CopiesSpared, Spared
  <2>9. k \notin stored'
    BY <1>1, <2>6, <2>7, <2>8, StoredSteps
  <2> QED
    BY <1>3, <2>9 DEF e, k
<1> QED
  BY <1>1, <1>2, <1>3, HandsSteps

LEMMA EmptiedKeysStep ==
  ASSUME LateCopies = FALSE, TInv, [Next]_vars
  PROVE  ErasedEmpty'
<1> USE KeyAssumption
<1>1. TypeOK /\ deletions \cup erased \subseteq Attempt /\ erased \cap stored = {}
  BY DEF TInv, FInv, ErasedEmpty
<1>2. \A k \in deletions' \cup erased' : k \in Key
  <2>1. TypeOK'
    BY <1>1, TypeStep
  <2> QED
    BY <2>1 DEF TypeOK, RowsTypeOK
<1>3. ASSUME NEW k \in deletions' \cup erased'
      PROVE  k \in Attempt
  <2>1. ASSUME NEW u \in File, Remove(u), row[u] = k
        PROVE  k \in Attempt
    BY <2>1 DEF Remove, TInv, IInv, RowsAndSessions
  <2> QED
    BY <1>1, <1>2, <1>3, <2>1, DeletionSteps
<1>4. ASSUME NEW k \in erased', k \in stored'
      PROVE  FALSE
  <2>1. k \in erased /\ k \notin stored /\ k \in Attempt
    BY <1>1, <1>2, <1>4, DeletionSteps
  <2>2. k \in inflight /\ HoldsLease(k)
    BY <1>1, <1>4, <2>1, StoredSteps DEF CopyLands, InLease
  <2>3. row[of[k]] = Removed /\ of[k] \in File
    BY <2>1, <2>2 DEF TInv, IInv, OnlyRemovedErased, HoldsLease
  <2>4. status[of[k]] = "completed"
    BY <2>3, RowAssumption DEF TInv, IInv, RowsAndSessions
  <2>5. status[of[k]] = "finalizing"
    BY <1>1, <2>1, <2>2, <2>3 DEF HoldsLease, TypeOK
  <2> QED
    BY <2>4, <2>5
<1> QED
  BY <1>3, <1>4 DEF ErasedEmpty

LEMMA CopiesStep ==
  ASSUME TInv, [Next]_vars
  PROVE  CopiesSpared'
<1> SUFFICES ASSUME NEW a \in inflight', HoldsLease(a)'
             PROVE  Spared(a)'
  BY DEF CopiesSpared
<1> USE KeyAssumption
<1>1. TypeOK /\ IInv
  BY DEF TInv, FInv
<1>2. a \in Attempt
  <2>1. TypeOK'
    BY <1>1, TypeStep
  <2> QED
    BY <2>1 DEF TypeOK
<1>3. of[a] \in File /\ ~RejectCandidate(a)
      /\ (a \in inflight \/ pc[a] = "claimed")
  <2>1. CASE a \in inflight
    BY <1>1, <1>2, <2>1 DEF IInv, FreshAttempts, CandidateSafe, RejectCandidate, Moves
  <2>2. CASE SendCopy(a)
    BY <1>1, <1>2, <2>2 DEF SendCopy, RejectCandidate, Moves, TypeOK, RowsTypeOK
  <2> QED
    BY <1>1, <2>1, <2>2, InflightSteps
<1>4. HoldsLease(a) /\ lease'[of[a]] = a
  BY <1>1, <1>2, <1>3, LeaseKept
<1>5. Spared(a)
  <2>1. CASE a \in inflight
    BY <1>4, <2>1 DEF TInv, CopiesSpared
  <2>2. CASE pc[a] = "claimed"
    BY <1>1, <1>2, <1>4, <2>2 DEF IInv, CandidateSafe, Running
  <2> QED
    BY <1>3, <2>1, <2>2
<1> QED
  BY <1>1, <1>2, <1>3, <1>4, <1>5, SparedStays

\* A step keeps track of what an open session names: it stays open, or its
\* keys are queued, or its candidate becomes the file's object.
LEMMA OpenStep ==
  ASSUME IInv, [Next]_vars, NEW u \in File, NEW k \in Key,
         status[u] \in {"pending", "finalizing"}, k \in {u, candidate[u]}
  PROVE  \/ status'[u] \in {"pending", "finalizing"} /\ k \in {u, candidate'[u]}
         \/ Queued(k)' \/ row'[u] = k
<1> USE KeyAssumption
<1>1. TypeOK /\ (k \in Attempt => k = candidate[u]) /\ (k \in File => k = u)
  BY DEF IInv, TypeOK
<1>2. ASSUME NEW keys \in SUBSET Key, NEW at \in Nat, Enqueue(keys, at), k \in keys
      PROVE  Queued(k)'
  BY <1>1, <1>2, EnqueueRow DEF Queued, NotQueued, TypeOK
<1>3. ASSUME NEW b \in Attempt, Claim(b, u)
      PROVE  (status'[u] = "finalizing" /\ k = u) \/ Queued(k)'
  <2>1. CASE k = u
    BY <1>1, <1>3, <2>1 DEF Claim, TypeOK
  <2>2. CASE k # u
    <3>1. /\ {candidate[u]} \cap Attempt \in SUBSET Key /\ began[b] \in Nat
          /\ Enqueue({candidate[u]} \cap Attempt, began[b])
          /\ k \in {candidate[u]} \cap Attempt
      BY <1>1, <1>3, <2>2 DEF Claim, TypeOK
    <3> QED
      BY <1>2, <3>1
  <2> QED
    BY <2>1, <2>2
<1>4. ASSUME NEW b \in Attempt, Restore(b), of[b] = u
      PROVE  status'[u] = "pending" /\ candidate' = candidate
  BY <1>1, <1>4 DEF Restore, TypeOK
<1>5. ASSUME NEW b \in Attempt, Commit(b), of[b] = u
      PROVE  Queued(k)' \/ row'[u] = k
  <2>1. CASE k = u
    <3>1. {u} \in SUBSET Key /\ StagingDue(b) \in Nat /\ Enqueue({u}, StagingDue(b))
      BY <1>1, <1>5, TimesType DEF Commit
    <3> QED
      BY <1>2, <2>1, <3>1
  <2>2. CASE k = candidate[u]
    <3>1. lease[u] = b /\ candidate[u] = b
      BY <1>5 DEF Commit, MayCommit, HoldsLease, IInv, OwnAttempts
    <3> QED
      BY <1>1, <1>5, <2>2, <3>1 DEF Commit, TypeOK, RowsTypeOK
  <2> QED
    BY <2>1, <2>2
<1>6. ASSUME Abandoned(u), NEW s \in Server, ExpireSessions(s)
      PROVE  Queued(k)'
  <2> DEFINE gone == {v \in File : Abandoned(v)}
             keys == gone \cup ({candidate[v] : v \in gone} \cap Attempt)
  <2>1. keys \in SUBSET Key /\ now \in Nat /\ Enqueue(keys, now) /\ k \in keys
    BY <1>1, <1>6 DEF ExpireSessions, TypeOK
  <2> HIDE DEF keys
  <2> QED
    BY <1>2, <2>1
<1>7. UNCHANGED uploadVars => status' = status /\ candidate' = candidate
  BY DEF uploadVars
<1> QED
  BY <1>1, <1>3, <1>4, <1>5, <1>6, <1>7, SessionSteps

\* A row names its object until its removal is recorded.
LEMMA RowStep ==
  ASSUME IInv, [Next]_vars, NEW u \in File, row[u] \in Key
  PROVE  row'[u] = row[u] \/ row[u] \in deletions'
<1>1. TypeOK /\ status[u] = "completed"
  BY RowAssumption DEF IInv, RowsAndSessions
<1>2. \A b \in Attempt : Claim(b, u) => row' = row
  BY DEF Claim, rowVars
<1>3. \A b \in Attempt : Restore(b) => row' = row
  BY DEF Restore, rowVars
<1>4. \A b \in Attempt : ~(Commit(b) /\ of[b] = u)
  BY <1>1 DEF Commit, MayCommit, HoldsLease, TypeOK
<1>5. ~Abandoned(u)
  BY <1>1 DEF Abandoned, LeaseFree
<1>6. Remove(u) => row[u] \in deletions'
  BY DEF Remove
<1> QED
  BY <1>1, <1>2, <1>3, <1>4, <1>5, <1>6, SessionSteps

LEMMA TrackedStep ==
  ASSUME LateCopies = FALSE, TInv, [Next]_vars
  PROVE  EveryObjectTracked'
<1> DEFINE Open(u, k) == status[u] \in {"pending", "finalizing"} /\ k \in {u, candidate[u]}
<1> SUFFICES ASSUME NEW k \in stored'
             PROVE  \/ k \in deletions' \/ Queued(k)'
                    \/ \E u \in File : row'[u] = k \/ Open(u, k)'
  BY DEF EveryObjectTracked
<1>1. TypeOK /\ TypeOK' /\ FInv /\ IInv
  BY TypeStep DEF TInv, FInv
<1>2. k \in Key
  BY <1>1 DEF TypeOK, RowsTypeOK
<1>3. CASE k \notin stored
  <2>1. CASE k \in File /\ PostForm(k)
    <3>1. UNCHANGED uploadVars
      BY <2>1 DEF PostForm
    <3>2. status' = status /\ candidate' = candidate /\ (Queued(k)' <=> Queued(k))
      BY <3>1 DEF uploadVars, Queued
    <3> QED
      BY <1>1, <2>1, <3>2, PostedTracked
  <2>2. CASE k \in Attempt /\ CopyLands(k)
    <3>1. of[k] \in File /\ lease[of[k]] = k /\ status' = status /\ candidate' = candidate
      BY <2>2 DEF CopyLands, InLease, HoldsLease, sessionVars
    <3>2. candidate[of[k]] = k /\ status[of[k]] = "finalizing"
      BY <1>1, <2>2, <3>1 DEF IInv, OwnAttempts, TypeOK
    <3> QED
      BY <3>1, <3>2
  <2> QED
    BY <1>1, <1>3, <2>1, <2>2, StoredSteps
<1>4. CASE k \in stored
  <2>1. CASE k \in deletions
    BY <1>1, <1>2, <1>4, <2>1, DeletionSteps DEF TInv, ErasedEmpty
  <2>2. CASE Queued(k)
    <3>1. ASSUME NEW s \in Server, DropRow(s), emptied[s].key = k,
                 emptied[s].issue = issue[k]
          PROVE  FALSE
      BY <1>4, <2>2, <3>1 DEF DropRow, TInv, EmptiedEmpty, Current
    <3>2. queue'[k] # NotQueued
      BY <1>1, <1>2, <2>2, <3>1, QueueSteps DEF Queued, NotQueued
    <3> QED
      BY <3>2 DEF Queued
  <2>3. ASSUME NEW u \in File, row[u] = k
        PROVE  row'[u] = k \/ k \in deletions'
    BY <1>1, <1>2, <2>3, RowStep
  <2>4. ASSUME NEW u \in File, Open(u, k)
        PROVE  Open(u, k)' \/ Queued(k)' \/ row'[u] = k
    BY <1>1, <1>2, <2>4, OpenStep
  <2> QED
    BY <1>4, <2>1, <2>2, <2>3, <2>4 DEF TInv, EveryObjectTracked
<1> QED
  BY <1>3, <1>4

LEMMA InitTInv == Init => TInv
<1> SUFFICES ASSUME Init
             PROVE  TInv
  OBVIOUS
<1>1. \A s \in Server : emptied[s] = NoEntry
  BY DEF Init
<1> QED
  BY <1>1, InitIInv, InitFInv
     DEF Init, RowsInit, TInv, EmptiedEmpty, ErasedEmpty, CopiesSpared, EveryObjectTracked

\* No object is lost track of, if pauses and forms are shorter than the wait for
\* the staging key and no copy outlives its lease: for any sessions, attempts,
\* servers and times.
THEOREM ObjectsTracked ==
  ASSUME Margin, LateCopies = FALSE
  PROVE  Spec => []EveryObjectTracked
<1>1. TInv /\ IInv' /\ FInv' /\ [Next]_vars => TInv'
  BY EmptiedStep, EmptiedKeysStep, CopiesStep, TrackedStep DEF TInv
<1>2. TInv => EveryObjectTracked
  BY DEF TInv
<1> QED
  BY Inductive, FormsInductive, InitTInv, <1>1, <1>2, PTL DEF Spec
=============================================================================
