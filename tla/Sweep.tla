-------------------------------- MODULE Sweep --------------------------------
(***************************************************************************)
(* Start-up and the clean-up passes (src/src/main.rs), with the loops over *)
(* the two deletion outboxes (files::cleanup_deletions, the second half of *)
(* uploads::cleanup_expired), the request that removes a file, and the     *)
(* version listing they all rest on (ObjectStore::versions).               *)
(*                                                                         *)
(* A call to S3 or to the database is a step and may fail.  A bucket lists *)
(* the versions of every key that begins with the one asked for, in pages, *)
(* while others delete.  Files and Uploads model when a key is queued and  *)
(* why; here a key is queued once, and its row is due at once.  The code   *)
(* queues all versions of a key only, never a single one.                  *)
(***************************************************************************)
EXTENDS Naturals

CONSTANTS
  FileKey,    \* keys that file_deletion_outbox may hold
  UploadKey,  \* keys that object_deletion_outbox may hold
  NoKey,
  Version,    \* version ids
  Under,      \* the keys that begin with a key; the ids in a key may hold '/'
  Place,      \* where a version of a key stands in the listing of the bucket
  Broken,     \* keys whose versions S3 never deletes
  Server,
  Request,    \* removers, each inside a server that serves
  MaxFaults   \* bound: crashes and calls that fail by chance

Key == FileKey \cup UploadKey
Worker == Server \cup Request
Item == Key \X Version

ASSUME KeyAssumption ==
  /\ FileKey \cap UploadKey = {} /\ NoKey \notin Key
  /\ Under \in [Key -> SUBSET Key] /\ \A k \in Key : k \in Under[k]
  /\ Broken \subseteq Key
ASSUME ListingAssumption ==
  /\ Place \in [Item -> Nat \ {0}]
  /\ \A d, e \in Item : Place[d] = Place[e] => d = e
ASSUME WorkerAssumption ==
  /\ Server \cap Request = {}
  /\ MaxFaults \in Nat

VARIABLES
  versions,   \* the versions each key has
  late,       \* those of them that came when no listing was left to see them
  unborn,     \* version ids S3 has not given yet
  rows,       \* the keys in the two outboxes
  queued,     \* the keys that ever were
  serving,    \* servers past their start-up
  job,        \* what each worker is doing
  faults

vars == <<versions, late, unborn, rows, queued, serving, job, faults>>
bucketVars == <<versions, late, unborn>>
outboxVars == <<rows, queued>>

Job == [at: {"down", "idle", "files", "objects", "removing"},
        step: {"none", "select", "pick", "list", "delete", "relist", "drop"},
        todo: SUBSET Key, key: Key \cup {NoKey}, marker: Nat,
        found: SUBSET Version]

Rest == [at |-> "idle", step |-> "none", todo |-> {}, key |-> NoKey,
         marker |-> 0, found |-> {}]
Down == [Rest EXCEPT !.at = "down"]
Pass(table) == [Rest EXCEPT !.at = table, !.step = "select"]
NextKey(j) == [Rest EXCEPT !.at = j.at, !.step = "pick", !.todo = j.todo]
List(j, k) == [Rest EXCEPT !.at = j.at, !.step = "list", !.key = k,
                           !.todo = j.todo \ {k}]
Relist(j) == [j EXCEPT !.step = "relist", !.marker = 0, !.found = {}]

Table(at) == IF at = "objects" THEN UploadKey ELSE FileKey
Busy == {"files", "objects", "removing"}
HasKey == {"list", "delete", "relist", "drop"}

Proper(j) ==
  /\ j.step # "none" <=> j.at \in Busy
  /\ j.step \in HasKey <=> j.key \in Key

TypeOK ==
  /\ versions \in [Key -> SUBSET Version]
  /\ late \in [Key -> SUBSET Version]
  /\ unborn \in [Key -> SUBSET Version]
  /\ \A k \in Key : unborn[k] \cap versions[k] = {}
  /\ rows \in SUBSET queued /\ queued \in SUBSET Key
  /\ serving \in SUBSET Server
  /\ job \in [Worker -> Job]
  /\ \A w \in Worker : Proper(job[w])
  /\ \A s \in serving : job[s].at # "down"
  /\ faults \in 0..MaxFaults

\* Some versions are there at the start: an overwritten object has several.
Init ==
  /\ versions \in [Key -> SUBSET Version]
  /\ late = [k \in Key |-> {}]
  /\ unborn = [k \in Key |-> Version \ versions[k]]
  /\ rows = {} /\ queued = {}
  /\ serving = {}
  /\ job = [w \in Worker |-> IF w \in Server THEN Down ELSE Rest]
  /\ faults = 0

Becomes(w, j) == job' = [job EXCEPT ![w] = j]
Doing(w, step) == job[w].step = step

-----------------------------------------------------------------------------
(* Keys are queued, and late versions arrive.                              *)

\* files::remove: the row goes into the outbox, and the same request goes on
\* to delete the object.
Remove(r, k) ==
  /\ job[r].at = "idle" /\ serving # {}
  /\ k \notin queued
  /\ rows' = rows \cup {k} /\ queued' = queued \cup {k}
  /\ Becomes(r, List([Rest EXCEPT !.at = "removing"], k))
  /\ UNCHANGED <<bucketVars, serving, faults>>

Enqueue(k) ==
  /\ k \notin queued
  /\ rows' = rows \cup {k} /\ queued' = queued \cup {k}
  /\ UNCHANGED <<bucketVars, serving, job, faults>>

\* A copy lands although its key is queued, or even was and is no longer.
\* History: nothing looks for a version that lands behind the marker of a
\* second listing, between that listing and the deletion of the row, or after
\* it.
Unseen(k, v) ==
  \/ k \notin rows
  \/ \E w \in Worker : /\ job[w].key = k
                      /\ \/ Doing(w, "drop")
                         \/ /\ Doing(w, "relist")
                            /\ Place[<<k, v>>] <= job[w].marker
Arrive(k) ==
  /\ k \in queued
  /\ \E v \in unborn[k] :
       /\ versions' = [versions EXCEPT ![k] = @ \cup {v}]
       /\ unborn' = [unborn EXCEPT ![k] = @ \ {v}]
       /\ late' = IF Unseen(k, v) THEN [late EXCEPT ![k] = @ \cup {v}] ELSE late
  /\ UNCHANGED <<outboxVars, serving, job, faults>>

-----------------------------------------------------------------------------
(* The passes.                                                             *)

Boot(s) ==
  /\ job[s].at = "down"
  /\ Becomes(s, Pass("files"))
  /\ UNCHANGED <<bucketVars, outboxVars, serving, faults>>

\* The interval of the spawned task.
Tick(s) ==
  /\ job[s].at = "idle"
  /\ Becomes(s, Pass("files"))
  /\ UNCHANGED <<bucketVars, outboxVars, serving, faults>>

Select(w) ==
  /\ Doing(w, "select")
  /\ Becomes(w, [job[w] EXCEPT !.step = "pick",
                               !.todo = rows \cap Table(job[w].at)])
  /\ UNCHANGED <<bucketVars, outboxVars, serving, faults>>

\* The outbox of files is read in the order of created_at, the other in none;
\* any order is allowed for both.
Pick(w, k) ==
  /\ Doing(w, "pick") /\ k \in job[w].todo
  /\ Becomes(w, List(job[w], k))
  /\ UNCHANGED <<bucketVars, outboxVars, serving, faults>>

\* The pass over the files is followed by the other; then a server serves.
EndPass(w) ==
  /\ Doing(w, "pick") /\ job[w].todo = {}
  /\ IF job[w].at = "files"
     THEN Becomes(w, Pass("objects")) /\ UNCHANGED serving
     ELSE Becomes(w, Rest) /\ serving' = serving \cup {w}
  /\ UNCHANGED <<bucketVars, outboxVars, faults>>

\* S3 answers with the next versions under the prefix, as many as it likes;
\* those of other keys are passed over.
Remaining(k, marker) ==
  {e \in Item : /\ e[1] \in Under[k] /\ e[2] \in versions[e[1]]
                /\ Place[e] > marker}
Pages(k, marker) ==
  LET remaining == Remaining(k, marker) IN
  {page \in SUBSET remaining :
     /\ page = {} => remaining = {}
     /\ \A e \in page, d \in remaining : Place[d] < Place[e] => d \in page}
IsLast(page, e) == e \in page /\ \A d \in page : Place[d] <= Place[e]
Own(page, k) == {v \in Version : <<k, v>> \in page}

\* What follows a complete listing: the versions found are deleted, the file
\* outbox trusts that, the other lists again and keeps a row whose key is not
\* empty.
Listed(j) ==
  IF j.step = "relist"
  THEN IF j.found = {} THEN [j EXCEPT !.step = "drop"] ELSE NextKey(j)
  ELSE IF j.found # {} THEN [j EXCEPT !.step = "delete"]
  ELSE IF j.at = "objects" THEN Relist(j)
  ELSE [j EXCEPT !.step = "drop"]

\* Mutant: is_truncated is not looked at.
ListPage_First(w) ==
  LET k == job[w].key IN
  /\ job[w].step \in {"list", "relist"}
  /\ \E page \in Pages(k, job[w].marker) :
       Becomes(w, Listed([job[w] EXCEPT !.found = @ \cup Own(page, k)]))
  /\ UNCHANGED <<bucketVars, outboxVars, serving, faults>>
ListPage(w) ==
  LET k == job[w].key IN
  /\ job[w].step \in {"list", "relist"}
  /\ \E page \in Pages(k, job[w].marker) :
       LET j == [job[w] EXCEPT !.found = @ \cup Own(page, k)] IN
       IF page = Remaining(k, job[w].marker)
       THEN Becomes(w, Listed(j))
       ELSE \E e \in page :
              IsLast(page, e) /\ Becomes(w, [j EXCEPT !.marker = Place[e]])
  /\ UNCHANGED <<bucketVars, outboxVars, serving, faults>>

\* S3 does not mind if another worker has deleted the version.
DeleteVersion(w) ==
  LET k == job[w].key IN
  /\ Doing(w, "delete") /\ k \notin Broken
  /\ \E v \in job[w].found :
       /\ versions' = [versions EXCEPT ![k] = @ \ {v}]
       /\ late' = [late EXCEPT ![k] = @ \ {v}]
       /\ Becomes(w, Listed([job[w] EXCEPT !.found = @ \ {v}]))
  /\ UNCHANGED <<unborn, outboxVars, serving, faults>>

DropRow(w) ==
  /\ Doing(w, "drop")
  /\ rows' = rows \ {job[w].key}
  /\ Becomes(w, IF job[w].at = "removing" THEN Rest ELSE NextKey(job[w]))
  /\ UNCHANGED <<bucketVars, queued, serving, faults>>

-----------------------------------------------------------------------------
(* Failures.                                                               *)

\* An error about one file is logged and the pass goes on; any other error
\* ends the pass, and the server too while it starts.
\* Mutant: delete_pending(..).await? in cleanup_deletions.
Failed_EndsPass(w) ==
  CASE job[w].at = "removing" -> Rest
    [] job[w].at = "files" /\ w \in serving -> Pass("objects")
    [] job[w].at = "objects" /\ w \in serving -> Rest
    [] OTHER -> Down
Failed(w) ==
  IF job[w].at = "removing" THEN Rest
  ELSE IF job[w].at = "files" /\ job[w].step # "select" THEN NextKey(job[w])
  ELSE IF w \notin serving THEN Down
  ELSE IF job[w].at = "files" THEN Pass("objects")
  ELSE Rest

Refuse(w) ==
  /\ Doing(w, "delete") /\ job[w].key \in Broken
  /\ Becomes(w, Failed(w))
  /\ UNCHANGED <<bucketVars, outboxVars, serving, faults>>

CallFails(w) ==
  /\ faults < MaxFaults
  /\ job[w].step \notin {"none", "pick"}
  /\ Becomes(w, Failed(w))
  /\ faults' = faults + 1
  /\ UNCHANGED <<bucketVars, outboxVars, serving>>

Crash(s) ==
  /\ faults < MaxFaults /\ job[s].at # "down"
  /\ Becomes(s, Down)
  /\ serving' = serving \ {s}
  /\ faults' = faults + 1
  /\ UNCHANGED <<bucketVars, outboxVars>>

-----------------------------------------------------------------------------
Erase(w) == ListPage(w) \/ DeleteVersion(w) \/ DropRow(w) \/ Refuse(w)

ServerStep(s) ==
  \/ Boot(s) \/ Tick(s) \/ Select(s) \/ EndPass(s) \/ Erase(s)
  \/ \E k \in job[s].todo : Pick(s, k)

Next ==
  \/ \E r \in Request, k \in FileKey : Remove(r, k)
  \/ \E k \in UploadKey : Enqueue(k) \/ Arrive(k)
  \/ \E s \in Server : ServerStep(s) \/ Crash(s)
  \/ \E r \in Request : Erase(r)
  \/ \E w \in Worker : CallFails(w)

Spec == Init /\ [][Next]_vars

\* Servers are started again when they stop, and run; requests are promised
\* nothing.
FairSpec == Spec /\ \A s \in Server : WF_vars(ServerStep(s))

-----------------------------------------------------------------------------
\* The versions that some listing had to see.
Due == [k \in Key |-> versions[k] \ late[k]]

\* No version of a key is deleted unless the key waits in an outbox, and the
\* row goes only when no version of the key is left that its second listing
\* could have shown, although listings hold the versions of other keys, pages
\* are read while other workers delete, and versions arrive at any moment
\* (files.rs:144-171, uploads.rs:426-460, object_store.rs:143-184).
Contract == INSTANCE DeletionContract
  WITH Late <- UploadKey, left <- Due, pending <- rows, asked <- queued
ContractSpec == Contract!Spec

\* A file that has versions keeps its row; an upload key does unless all its
\* versions came too late for the second listing (uploads.rs:436-457); nothing looks for those again.
NoOrphans ==
  \A k \in queued \ rows :
    versions[k] \subseteq IF k \in FileKey THEN {} ELSE late[k]

\* The inductive invariant behind both: a worker has the keys of one table only,
\* where no version of a file arrives; a listing that counts has found what
\* was there up to its marker, the deletions that follow have all the rest to
\* do, and nothing is left of a key whose row is about to go but what came
\* since.
Covered(j, present) ==
  \A v \in present[j.key] : Place[<<j.key, v>>] <= j.marker => v \in j.found
Learnt(j, present) ==
  /\ j.todo \subseteq Table(j.at)
  /\ j.step \in HasKey => j.key \in Table(j.at)
  /\ j.step = "list" /\ j.at # "objects" => Covered(j, present)
  /\ j.step = "relist" => j.at = "objects" /\ Covered(j, present)
  /\ j.step = "delete" /\ j.at # "objects" => present[j.key] \subseteq j.found
  /\ j.step = "drop" => present[j.key] = {}
IInv ==
  /\ TypeOK /\ NoOrphans
  /\ \A k \in FileKey : late[k] = {}
  /\ \A w \in Worker : Learnt(job[w], Due)

\* Files that S3 refuses to delete keep no server from starting.
Serves == \A s \in Server : job[s].at = "down" ~> s \in serving

\* uploads RFC, line 594: "cleanup must converge without a visible partial
\* file or permanent orphan": whatever files S3 refuses to delete, and even if
\* these stop a pass each time, every other key is erased in the end
\* (main.rs:48-64, uploads.rs:428).
KeysSwept == \A k \in (FileKey \cup UploadKey) \ Broken : k \in rows ~> k \notin rows
=============================================================================
