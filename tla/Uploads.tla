------------------------------- MODULE Uploads -------------------------------
(***************************************************************************)
(* Direct browser uploads (src/src/uploads.rs): sessions, completion       *)
(* attempts that hold a lease, the candidate object each attempt copies    *)
(* to, and the deletion outbox that cleanup passes empty.  A session fixes *)
(* the id of the file it will make, so the file ids stand for the sessions *)
(* and for their staging keys; an attempt stands for one run of complete,  *)
(* for its lease token and for its candidate key.                          *)
(*                                                                         *)
(* Database statements are steps, calls to S3 are steps, and any request   *)
(* may end between two of them.  now() of a transaction is the time it     *)
(* began, so both transactions of complete read the clock in a step of     *)
(* their own.  (Were that of cleanup_expired to do so, it would only miss  *)
(* deadlines.)  The servers' clocks and the database's are one clock.      *)
(***************************************************************************)
EXTENDS FileRows

CONSTANTS
  Attempt,     \* completion attempts
  Server,      \* processes that run the cleanup task
  NoAttempt,   \* lease_token, candidate_key IS NULL
  TTL,         \* FILE_UPLOAD_SESSION_TTL_SECONDS
  FormTTL,     \* FILE_UPLOAD_URL_TTL_SECONDS
  Lease,       \* 120 s
  Grace,       \* 305 s
  SignDelay,   \* longest pause between reading a session and signing its form
  LateCopies,  \* S3 may carry out a copy after the attempt has lost its lease
  MaxTime      \* bound: the clock stops here, after every deadline

ASSUME KeyAssumption ==
  /\ Key = File \cup Attempt /\ File \cap Attempt = {}
  /\ NoAttempt \notin Attempt /\ NoAttempt \notin File
ASSUME TimeAssumption ==
  /\ TTL \in Nat /\ FormTTL \in Nat /\ Lease \in Nat \ {0} /\ Grace \in Nat
  /\ SignDelay \in Nat /\ MaxTime \in Nat
  /\ LateCopies \in BOOLEAN

VARIABLES
  now,        \* the clock
  status,     \* file_uploads.status, "none" before the row exists
  expires,    \* expires_at
  lease,      \* lease_token
  leaseEnd,   \* lease_expires_at, 0 when NULL
  candidate,  \* candidate_key
  formEnd,    \* time from which S3 takes no form of the session any more
  signing,    \* when the latest initiate request read the session
  pc,         \* where each attempt is
  of,         \* the session of the attempt
  began,      \* now() of the transaction the attempt is in
  inflight,   \* copies S3 has been asked for and has not done
  queue,      \* object_deletion_outbox: not_before of each key queued
  issue,      \* how often a key has been queued: the identity of its row
  work,       \* outbox rows a cleanup pass has read and not yet handled
  emptied,    \* the row whose key the pass has found empty
  passing     \* where each cleanup task is

uploadVars == <<now, status, expires, lease, leaseEnd, candidate, formEnd,
                signing, pc, of, began, inflight, queue, issue, work,
                emptied, passing>>
sessionVars == <<status, expires, lease, leaseEnd, candidate>>
formVars == <<formEnd, signing>>
attemptVars == <<pc, of, began, inflight>>
outboxVars == <<queue, issue>>
passVars == <<work, emptied, passing>>
vars == <<rowVars, uploadVars>>

NotQueued == -1
NoRead == -1
Entry == [key: Key, issue: Nat]
NoEntry == [key |-> NoAttempt, issue |-> 0]
Running == {"claiming", "claimed", "copying", "copied", "restoring", "verified",
            "committing"}

Later(a, b) == IF a < b THEN b ELSE a
Sooner(a, b) == IF a < b THEN a ELSE b

\* Type invariant; lease_token is set exactly while a session is finalizing.
TypeOK ==
  /\ RowsTypeOK
  /\ now \in Nat
  /\ status \in [File -> {"none", "pending", "finalizing", "completed",
                          "cleanup_pending"}]
  /\ expires \in [File -> Nat]
  /\ lease \in [File -> Attempt \cup {NoAttempt}]
  /\ \A u \in File : lease[u] \in Attempt <=> status[u] = "finalizing"
  /\ leaseEnd \in [File -> Nat]
  /\ candidate \in [File -> Attempt \cup {NoAttempt}]
  /\ formEnd \in [File -> Nat]
  /\ signing \in [File -> Nat \cup {NoRead}]
  /\ pc \in [Attempt -> Running \cup {"idle", "done"}]
  /\ of \in [Attempt -> File \cup {NoAttempt}]
  /\ began \in [Attempt -> 0..now]
  /\ inflight \in SUBSET Attempt
  /\ queue \in [Key -> Nat \cup {NotQueued}]
  /\ issue \in [Key -> Nat]
  /\ work \in [Server -> SUBSET Entry]
  /\ emptied \in [Server -> Entry \cup {NoEntry}]
  /\ passing \in [Server -> {"idle", "selecting", "sweeping"}]

Init ==
  /\ RowsInit
  /\ now = 0
  /\ status = [u \in File |-> "none"]
  /\ expires = [u \in File |-> 0]
  /\ lease = [u \in File |-> NoAttempt]
  /\ leaseEnd = [u \in File |-> 0]
  /\ candidate = [u \in File |-> NoAttempt]
  /\ formEnd = [u \in File |-> 0]
  /\ signing = [u \in File |-> NoRead]
  /\ pc = [a \in Attempt |-> "idle"]
  /\ of = [a \in Attempt |-> NoAttempt]
  /\ began = [a \in Attempt |-> 0]
  /\ inflight = {}
  /\ queue = [k \in Key |-> NotQueued]
  /\ issue = [k \in Key |-> 0]
  /\ work = [s \in Server |-> {}]
  /\ emptied = [s \in Server |-> NoEntry]
  /\ passing = [s \in Server |-> "idle"]

-----------------------------------------------------------------------------
(* The clock, sessions and the browser.                                    *)

\* A request that has paused for longer than SignDelay signs no form.
Tick ==
  /\ now < MaxTime
  /\ now' = now + 1
  /\ signing' = [u \in File |-> IF signing[u] + SignDelay <= now
                                THEN NoRead ELSE signing[u]]
  /\ UNCHANGED <<rowVars, sessionVars, formEnd, attemptVars, outboxVars,
                 passVars>>

\* initiate, for a key that has no session; the request goes on to sign a form.
CreateSession(u) ==
  /\ status[u] = "none"
  /\ now + TTL + Later(Lease, Grace) <= MaxTime
  /\ status' = [status EXCEPT ![u] = "pending"]
  /\ expires' = [expires EXCEPT ![u] = now + TTL]
  /\ signing' = [signing EXCEPT ![u] = now]
  /\ UNCHANGED <<rowVars, now, lease, leaseEnd, candidate, formEnd,
                 attemptVars, outboxVars, passVars>>

\* initiate again.  A session in any other state is answered without a form.
\* One pending request stands for all: each signs at most one form.
ReadSession(u) ==
  /\ status[u] = "pending" /\ now < expires[u]
  /\ signing' = [signing EXCEPT ![u] = now]
  /\ UNCHANGED <<rowVars, now, sessionVars, formEnd, attemptVars, outboxVars,
                 passVars>>

FormExpiry(u) == Sooner(expires[u], now + FormTTL)

\* response_for_upload signs from the row it read, whatever has happened since.
SignForm(u) ==
  /\ signing[u] # NoRead
  /\ formEnd' = [formEnd EXCEPT ![u] = Later(@, FormExpiry(u))]
  /\ signing' = [signing EXCEPT ![u] = NoRead]
  /\ UNCHANGED <<rowVars, now, sessionVars, attemptVars, outboxVars, passVars>>

\* The browser posts to the staging key.
PostForm(u) ==
  /\ now < formEnd[u]
  /\ stored' = stored \cup {u}
  /\ UNCHANGED <<row, deletions, erased, uploadVars>>

-----------------------------------------------------------------------------
(* The deletion outbox: ON CONFLICT DO NOTHING keeps an earlier row.       *)

Queued(k) == queue[k] # NotQueued

Enqueue(keys, at) ==
  LET new == {k \in keys : ~Queued(k)} IN
  /\ queue' = [k \in Key |-> IF k \in new THEN at ELSE queue[k]]
  /\ issue' = [k \in Key |-> IF k \in new THEN issue[k] + 1 ELSE issue[k]]

-----------------------------------------------------------------------------
(* complete.                                                               *)

Moves(a, from, to) ==
  /\ pc[a] = from
  /\ pc' = [pc EXCEPT ![a] = to]

HoldsLease(a) == of[a] \in File /\ lease[of[a]] = a

LeaseFree(u, at) == status[u] = "pending"
                    \/ (status[u] = "finalizing" /\ leaseEnd[u] <= at)

\* claim_completion begins its transaction, which may then have to wait.
BeginClaim(a) ==
  /\ Moves(a, "idle", "claiming")
  /\ began' = [began EXCEPT ![a] = now]
  /\ UNCHANGED <<rowVars, now, sessionVars, formVars, of, inflight,
                 outboxVars, passVars>>

\* claim_completion, after the checks of complete that its WHERE repeats.
Claim(a, u) ==
  /\ Moves(a, "claiming", "claimed")
  /\ began[a] < expires[u] /\ LeaseFree(u, began[a])
  /\ of' = [of EXCEPT ![a] = u]
  /\ status' = [status EXCEPT ![u] = "finalizing"]
  /\ lease' = [lease EXCEPT ![u] = a]
  /\ leaseEnd' = [leaseEnd EXCEPT ![u] = began[a] + Lease]
  /\ candidate' = [candidate EXCEPT ![u] = a]
  /\ began' = [began EXCEPT ![a] = 0]
  /\ Enqueue({candidate[u]} \cap Attempt, began[a])
  /\ UNCHANGED <<rowVars, now, expires, formVars, inflight, passVars>>

AttemptStep(a, from, to) ==
  /\ Moves(a, from, to)
  /\ UNCHANGED <<rowVars, now, sessionVars, formVars, of, began, inflight,
                 outboxVars, passVars>>

\* HEAD of the staging key: nothing there, or not what the session expects
\* (the file limit may have been lowered since).
RejectStaged(a) == AttemptStep(a, "claimed", "restoring")

\* HEAD finds the object; the copy request goes out.
SendCopy(a) ==
  /\ of[a] \in stored
  /\ Moves(a, "claimed", "copying")
  /\ inflight' = inflight \cup {a}
  /\ UNCHANGED <<rowVars, now, sessionVars, formVars, of, began, outboxVars,
                 passVars>>

InLease(a) == HoldsLease(a) /\ now < leaseEnd[of[a]]

\* S3 carries the copy out, also when the attempt has given it up.
CopyLands(a) ==
  /\ a \in inflight /\ of[a] \in stored
  /\ LateCopies \/ InLease(a)
  /\ inflight' = inflight \ {a}
  /\ stored' = stored \cup {a}
  /\ UNCHANGED <<row, deletions, erased, now, sessionVars, formVars, pc, of,
                 began, outboxVars, passVars>>

\* S3 answers the copy.
CopyAnswered(a) == a \notin inflight /\ AttemptStep(a, "copying", "copied")

\* HEAD of the candidate finds it good,
AcceptCandidate(a) == a \in stored /\ AttemptStep(a, "copied", "verified")

\* or finds something else, which goes into the outbox before the session is
\* given back.
RejectCandidate(a) ==
  /\ a \in stored
  /\ Moves(a, "copied", "restoring")
  /\ Enqueue({a}, now)
  /\ UNCHANGED <<rowVars, now, sessionVars, formVars, of, began, inflight,
                 passVars>>

\* Mutant: the token of the lease stays.
Restore_KeepsToken(a) ==
  LET u == of[a] IN
  /\ HoldsLease(a)
  /\ Moves(a, "restoring", "done")
  /\ status' = [status EXCEPT ![u] = "pending"]
  /\ UNCHANGED <<rowVars, now, expires, lease, leaseEnd, candidate, formVars,
                 of, began, inflight, outboxVars, passVars>>

\* restore_pending; candidate_key stays.  (A session whose lease was lost is
\* left alone: the attempt just ends, AttemptStops.)
Restore(a) ==
  LET u == of[a] IN
  /\ HoldsLease(a)
  /\ Moves(a, "restoring", "done")
  /\ status' = [status EXCEPT ![u] = "pending"]
  /\ lease' = [lease EXCEPT ![u] = NoAttempt]
  /\ leaseEnd' = [leaseEnd EXCEPT ![u] = 0]
  /\ UNCHANGED <<rowVars, now, expires, candidate, formVars, of, began,
                 inflight, outboxVars, passVars>>

BeginCommit(a) ==
  /\ Moves(a, "verified", "committing")
  /\ began' = [began EXCEPT ![a] = now]
  /\ UNCHANGED <<rowVars, now, sessionVars, formVars, of, inflight,
                 outboxVars, passVars>>

\* Mutant: the status is checked, the token is not.
MayCommit_AnyLease(a) ==
  /\ status[of[a]] = "finalizing"
  /\ began[a] < expires[of[a]] /\ began[a] < leaseEnd[of[a]]

MayCommit(a) ==
  /\ HoldsLease(a)
  /\ began[a] < expires[of[a]] /\ began[a] < leaseEnd[of[a]]

\* Mutant: the staging key may be cleaned at once.
StagingDue_Now(a) == began[a]
StagingDue(a) == began[a] + Grace

Commit(a) ==
  LET u == of[a] IN
  /\ Moves(a, "committing", "done")
  /\ MayCommit(a)
  /\ row' = [row EXCEPT ![u] = a]
  /\ status' = [status EXCEPT ![u] = "completed"]
  /\ lease' = [lease EXCEPT ![u] = NoAttempt]
  /\ leaseEnd' = [leaseEnd EXCEPT ![u] = 0]
  /\ Enqueue({u}, StagingDue(a))
  /\ began' = [began EXCEPT ![a] = 0]
  /\ UNCHANGED <<stored, deletions, erased, now, expires, candidate, formVars,
                 of, inflight, passVars>>

\* The session is taken, the lease is lost, S3 fails or has no version id, the
\* candidate is gone, the client or the server goes away: nothing is undone.
AttemptStops(a) ==
  /\ pc[a] \in Running
  /\ Moves(a, pc[a], "done")
  /\ began' = [began EXCEPT ![a] = 0]
  /\ UNCHANGED <<rowVars, now, sessionVars, formVars, of, inflight,
                 outboxVars, passVars>>

-----------------------------------------------------------------------------
(* cleanup_expired: a pass of a server's cleanup task.                     *)

\* Mutant: whatever the session is doing.
Abandoned_AnyStatus(u) == expires[u] <= now /\ status[u] # "none"

\* Mutant: a session whose completion stopped half way is never ended.
Abandoned_PendingOnly(u) == expires[u] <= now /\ status[u] = "pending"

Abandoned(u) == expires[u] <= now /\ LeaseFree(u, now)

\* The first transaction of a pass.
ExpireSessions(s) ==
  LET gone == {u \in File : Abandoned(u)} IN
  /\ passing[s] = "idle"
  /\ passing' = [passing EXCEPT ![s] = "selecting"]
  /\ status' = [u \in File |->
                  IF u \in gone THEN "cleanup_pending" ELSE status[u]]
  /\ lease' = [u \in File |-> IF u \in gone THEN NoAttempt ELSE lease[u]]
  /\ leaseEnd' = [u \in File |-> IF u \in gone THEN 0 ELSE leaseEnd[u]]
  /\ Enqueue(gone \cup ({candidate[u] : u \in gone} \cap Attempt), now)
  /\ UNCHANGED <<rowVars, now, expires, candidate, formVars, attemptVars,
                 work, emptied>>

SelectDue(s) ==
  /\ passing[s] = "selecting"
  /\ passing' = [passing EXCEPT ![s] = "sweeping"]
  /\ work' = [work EXCEPT ![s] =
       {[key |-> k, issue |-> issue[k]] :
          k \in {q \in Key : Queued(q) /\ queue[q] <= now}}]
  /\ UNCHANGED <<rowVars, now, sessionVars, formVars, attemptVars,
                 outboxVars, emptied>>

\* Every listed version is deleted and a second listing is empty.
SweepKey(s, e) ==
  /\ e \in work[s] /\ emptied[s] = NoEntry
  /\ stored' = stored \ {e.key}
  /\ work' = [work EXCEPT ![s] = @ \ {e}]
  /\ emptied' = [emptied EXCEPT ![s] = e]
  /\ UNCHANGED <<row, deletions, erased, now, sessionVars, formVars,
                 attemptVars, outboxVars, passing>>

\* A version arrives between the two listings: the row waits for a next pass.
SkipKey(s, e) ==
  /\ e \in work[s] /\ emptied[s] = NoEntry
  /\ e.key \in stored
  /\ work' = [work EXCEPT ![s] = @ \ {e}]
  /\ UNCHANGED <<rowVars, now, sessionVars, formVars, attemptVars,
                 outboxVars, emptied, passing>>

\* DELETE ... WHERE id: nothing, if another pass has deleted that row.
DropRow(s) ==
  LET e == emptied[s] IN
  /\ e # NoEntry
  /\ queue' = IF issue[e.key] = e.issue
              THEN [queue EXCEPT ![e.key] = NotQueued] ELSE queue
  /\ emptied' = [emptied EXCEPT ![s] = NoEntry]
  /\ UNCHANGED <<rowVars, now, sessionVars, formVars, attemptVars, issue,
                 work, passing>>

EndPass(s) ==
  /\ passing[s] = "sweeping" /\ work[s] = {} /\ emptied[s] = NoEntry
  /\ passing' = [passing EXCEPT ![s] = "idle"]
  /\ UNCHANGED <<rowVars, now, sessionVars, formVars, attemptVars,
                 outboxVars, work, emptied>>

\* An error of S3 or of the database ends the pass; so does a crash.
PassStops(s) ==
  /\ passing[s] # "idle"
  /\ passing' = [passing EXCEPT ![s] = "idle"]
  /\ work' = [work EXCEPT ![s] = {}]
  /\ emptied' = [emptied EXCEPT ![s] = NoEntry]
  /\ UNCHANGED <<rowVars, now, sessionVars, formVars, attemptVars, outboxVars>>

-----------------------------------------------------------------------------
SessionNext(u) ==
  \/ CreateSession(u) \/ ReadSession(u) \/ SignForm(u) \/ PostForm(u)
  \/ Remove(u) /\ UNCHANGED uploadVars

AttemptNext(a) ==
  \/ BeginClaim(a)
  \/ \E u \in File : Claim(a, u)
  \/ RejectStaged(a) \/ SendCopy(a) \/ CopyLands(a) \/ CopyAnswered(a)
  \/ AcceptCandidate(a) \/ RejectCandidate(a) \/ Restore(a)
  \/ BeginCommit(a) \/ Commit(a) \/ AttemptStops(a)

PassNext(s) ==
  \/ ExpireSessions(s) \/ SelectDue(s)
  \/ \E e \in work[s] : SweepKey(s, e) \/ SkipKey(s, e)
  \/ DropRow(s) \/ EndPass(s) \/ PassStops(s)

Next ==
  \/ Tick
  \/ \E u \in File : SessionNext(u)
  \/ \E a \in Attempt : AttemptNext(a)
  \/ \E s \in Server : PassNext(s)
  \/ RemovalNext /\ UNCHANGED uploadVars

Spec == Init /\ [][Next]_vars

\* Every server repeats its pass, and neither S3 nor the database fails for
\* ever on one key; requests, browsers and copies are promised nothing.
Fairness ==
  /\ WF_vars(Tick)
  /\ \A s \in Server :
       /\ WF_vars(ExpireSessions(s))
       /\ SF_vars(SelectDue(s))
       /\ WF_vars(EndPass(s))
       /\ SF_vars(DropRow(s))
       /\ \A k \in Key :
            SF_vars(\E e \in work[s] : e.key = k /\ SweepKey(s, e))
  /\ \A k \in Key : WF_vars(EraseObject(k) /\ UNCHANGED uploadVars)

FairSpec == Spec /\ Fairness

-----------------------------------------------------------------------------
(* Properties.                                                             *)

\* A pass has the outbox row of key k in hand, or may come to have it.
InHand(k) == \E s \in Server :
               emptied[s].key = k \/ \E e \in work[s] : e.key = k
Spared(k) == ~Queued(k) /\ ~InHand(k)

\* RFC, line 451: "Cleanup never enqueues the candidate referenced by a
\* completed file."  No cleanup pass holds it either, however long ago it
\* read the outbox, and no copy is still on its way to it.
CommittedKept ==
  \A u \in File : Live(u) =>
    row[u] \in stored /\ row[u] \notin inflight /\ Spared(row[u])

\* The inductive invariant behind CommittedKept and ContractSpec: nothing knows
\* of an attempt that has claimed nothing, a session names only its own attempts,
FreshAttempts ==
  \A a \in Attempt :
    IF of[a] \in File
    THEN pc[a] \notin {"idle", "claiming"}
    ELSE /\ pc[a] \in {"idle", "claiming", "done"}
         /\ Spared(a) /\ a \notin inflight \cup deletions \cup erased
         /\ \A u \in File : lease[u] # a /\ candidate[u] # a /\ row[u] # a
OwnAttempts ==
  \A u \in File :
    /\ candidate[u] \in Attempt => of[candidate[u]] = u
    /\ lease[u] \in Attempt => candidate[u] = lease[u]
\* the candidate of a lease holder that may still commit is in no outbox, and
\* what the holder has seen of it stays true,
CandidateSafe ==
  \A a \in Attempt :
    /\ pc[a] \in {"copied", "verified", "committing"} => a \notin inflight
    /\ HoldsLease(a) /\ pc[a] \in Running \ {"restoring"} =>
         Spared(a)
    /\ HoldsLease(a) /\ pc[a] \in {"verified", "committing"} => a \in stored
\* a file exists exactly since its session completed, and only the objects of
\* removed files are in file_deletion_outbox,
RowsAndSessions ==
  \A u \in File :
    /\ row[u] # NoRow <=> status[u] = "completed"
    /\ Live(u) => row[u] \in Attempt /\ of[row[u]] = u /\ pc[row[u]] = "done"
OnlyRemovedErased ==
  \A a \in Attempt \cap (deletions \cup erased) :
    pc[a] = "done" /\ row[of[a]] = Removed
IInv ==
  /\ TypeOK /\ FreshAttempts /\ OwnAttempts /\ CandidateSafe
  /\ RowsAndSessions /\ OnlyRemovedErased /\ CommittedKept

\* uploads.rs:335: "Do not declare the staging key clean until every form can
\* no longer be accepted": when a session has ended and its staging key is
\* not queued, no form of the session is valid, also none that an initiate
\* request signs after it read the session as pending.
CleanAfterForms ==
  \A u \in File :
    status[u] \in {"completed", "cleanup_pending"} /\ ~Queued(u) =>
      formEnd[u] <= now

\* While a lease runs only its holder ends it: no other attempt takes the
\* session and no pass expires it (claim_completion, cleanup_expired,
\* restore_pending).
LeaseRespected ==
  [][\A u \in File, a \in Attempt :
       lease[u] = a /\ now < leaseEnd[u] /\ lease'[u] # a =>
         pc[a] # "done" /\ pc'[a] = "done"]_vars

\* Every object is a file's, or some later step is bound to deal with it: its
\* removal is recorded, its deletion is queued, or a session that is still
\* open names it as its staging key or its candidate (claim_completion,
\* complete, cleanup_expired; copies land in their lease).
EveryObjectTracked ==
  \A k \in stored :
    \/ k \in deletions \/ Queued(k)
    \/ \E u \in File :
         \/ row[u] = k
         \/ status[u] \in {"pending", "finalizing"} /\ k \in {u, candidate[u]}

\* What a client can tell of the sessions and their files.
session == [u \in File |->
  CASE status[u] = "none" -> "none"
    [] status[u] \in {"pending", "finalizing"} -> "open"
    [] status[u] = "completed" -> "completed"
    [] status[u] = "cleanup_pending" -> "expired"]
file == [u \in File |->
  CASE row[u] = NoRow -> "absent"
    [] row[u] = Removed -> "removed"
    [] Live(u) -> IF row[u] \in stored THEN "readable" ELSE "broken"]

Contract == INSTANCE UploadContract WITH session <- session, file <- file

\* Leases, retries, late copies and passes implement the contract.
ContractSpec == Contract!Spec

\* A session does not stay open: it completes or a pass ends it, also when
\* every attempt on it has stopped half way.
SessionsEnd ==
  \A u \in File : session[u] = "open" ~> session[u] \in {"completed", "expired"}

\* RFC, line 594: "cleanup must converge without a visible partial file or
\* permanent orphan": in the end every object is the object of a file.
Converges == <>[](\A k \in stored : \E u \in File : row[u] = k)
=============================================================================
