------------------------------ MODULE SweepProofs ------------------------------
(***************************************************************************)
(* A row of a deletion outbox goes only when nothing is left of its key    *)
(* but versions that came too late to be listed: Sweep's NoOrphans,        *)
(* for any keys, prefixes, pages and number of servers.  From it, what the *)
(* passes do implements DeletionContract.                                  *)
(***************************************************************************)
EXTENDS Sweep, TLAPS

\* The jobs the steps make are jobs.
LEMMA JobTypes ==
  ASSUME NEW j \in Job
  PROVE  /\ Rest \in Job /\ Down \in Job
         /\ Pass("files") \in Job /\ Pass("objects") \in Job
         /\ NextKey(j) \in Job /\ Relist(j) \in Job
         /\ \A k \in Key : List(j, k) \in Job
  BY DEF Job, Rest, Down, Pass, NextKey, Relist, List

\* Listed gives one of four jobs.
LEMMA ListedCases ==
  ASSUME NEW j \in Job, j.step \in {"list", "delete", "relist"}
  PROVE  /\ Listed(j) \in Job
         /\ \/ j.step = "relist" /\ j.found = {}
               /\ Listed(j) = [j EXCEPT !.step = "drop"]
            \/ j.step = "relist" /\ j.found # {} /\ Listed(j) = NextKey(j)
            \/ j.step # "relist" /\ j.found # {}
               /\ Listed(j) = [j EXCEPT !.step = "delete"]
            \/ j.step # "relist" /\ j.found = {} /\ j.at = "objects"
               /\ Listed(j) = Relist(j)
            \/ j.step # "relist" /\ j.found = {} /\ j.at # "objects"
               /\ Listed(j) = [j EXCEPT !.step = "drop"]
  <1>1. NextKey(j) \in Job /\ Relist(j) \in Job  BY JobTypes
  <1>2. /\ [j EXCEPT !.step = "drop"] \in Job
        /\ [j EXCEPT !.step = "delete"] \in Job
    BY DEF Job
  <1> QED  BY <1>1, <1>2 DEF Listed
\* What is due is there, and only a step that changes the bucket changes it.
LEMMA DueFacts ==
  /\ TypeOK => /\ Due \in [Key -> SUBSET Version]
               /\ \A k \in Key : Due[k] \subseteq versions[k]
  /\ UNCHANGED bucketVars => Due' = Due
  BY DEF TypeOK, Due, bucketVars
-----------------------------------------------------------------------------
\* A worker takes one step: it is enough to look at its own job, and at what
\* the step does to the bucket and to the outboxes.
LEMMA OneWorker ==
  ASSUME IInv, NEW w \in Worker, NEW j, Becomes(w, j),
         j \in Job, Proper(j), Learnt(j, Due'),
         versions' \in [Key -> SUBSET Version],
         late' \in [Key -> SUBSET Version],
         \A k \in Key : versions'[k] \subseteq versions[k],
         \A k \in Key : Due'[k] \subseteq Due[k],
         \A k \in FileKey : late'[k] = {},
         unborn' = unborn, rows' \in SUBSET queued', queued' \in SUBSET Key,
         serving' \in SUBSET Server,
         \A s \in serving' : s \in serving \/ s = w,
         w \in serving' => j.at # "down",
         faults' \in 0..MaxFaults, NoOrphans'
  PROVE  IInv'
  <1> USE DEF IInv, TypeOK
  <1>1. job' = [job EXCEPT ![w] = j]  BY DEF Becomes
  <1>2. job' \in [Worker -> Job]  BY <1>1
  <1>3. job'[w] = j /\ \A u \in Worker \ {w} : job'[u] = job[u]  BY <1>1
  <1>4. \A u \in Worker : Proper(job'[u])
    <2> SUFFICES ASSUME NEW u \in Worker PROVE Proper(job'[u])  OBVIOUS
    <2> QED  BY <1>3
  <1>5. \A s \in serving' : job'[s].at # "down"
    BY <1>3 DEF Worker
  <1>6. \A u \in Worker : Learnt(job'[u], Due')
    <2> SUFFICES ASSUME NEW u \in Worker, u # w
                 PROVE  Learnt(job'[u], Due')
      BY <1>3
    <2>1. PICK i \in Job : i = job[u]  OBVIOUS
    <2>2. Learnt(i, Due) /\ Proper(i)  BY <2>1
    <2>3. i.step \in HasKey => Due'[i.key] \subseteq Due[i.key]
      BY <2>2 DEF Proper
    <2>4. Learnt(i, Due')
      <3>1. PICK before, after : before = Due /\ after = Due'  OBVIOUS
      <3>2. i.step \in HasKey => after[i.key] \subseteq before[i.key]
        BY <2>3, <3>1
      <3>3. Learnt(i, before)  BY <2>2, <3>1
      <3>4. Learnt(i, after)  BY <3>2, <3>3 DEF Learnt, Covered, HasKey
      <3> QED  BY <3>1, <3>4
    <2> QED  BY <1>3, <2>1, <2>4
  <1>7. TypeOK'  BY <1>2, <1>4, <1>5
  <1> QED  BY <1>6, <1>7

\* What a page leaves out of the versions of its key lies behind the marker.
LEMMA PageFacts ==
  ASSUME TypeOK, NEW k \in Key, NEW marker \in Nat,
         NEW page \in Pages(k, marker),
         NEW v \in versions[k], Place[<<k, v>>] > marker
  PROVE  /\ page = Remaining(k, marker) => v \in Own(page, k)
         /\ \A e \in page :
              IsLast(page, e) /\ Place[<<k, v>>] <= Place[e] =>
                v \in Own(page, k)
  <1>1. v \in Version /\ <<k, v>> \in Item  BY DEF TypeOK, Item
  <1>2. <<k, v>> \in Remaining(k, marker)
    BY <1>1, KeyAssumption DEF Remaining
  <1>3. \A e \in page, d \in Remaining(k, marker) :
          Place[d] < Place[e] => d \in page
    BY DEF Pages
  <1>4. page \subseteq Item  BY DEF Pages, Remaining
  <1>5. ASSUME NEW e \in page, Place[<<k, v>>] <= Place[e]
        PROVE  <<k, v>> \in page
    <2>1. Place[e] \in Nat /\ Place[<<k, v>>] \in Nat
      BY <1>1, <1>4, ListingAssumption
    <2>2. CASE Place[<<k, v>>] = Place[e]
      BY <2>2, <1>1, <1>4, ListingAssumption
    <2>3. CASE Place[<<k, v>>] < Place[e]  BY <2>3, <1>2, <1>3
    <2> QED  BY <1>5, <2>1, <2>2, <2>3
  <1> QED  BY <1>1, <1>2, <1>5 DEF Own

\* A listing that counts still counts when it has read one more page.
LEMMA PageRead ==
  ASSUME IInv, NEW w \in Worker, NEW j \in Job, j = job[w],
         j.step \in {"list", "relist"}, NEW page \in Pages(j.key, j.marker),
         NEW i \in Job, i = [j EXCEPT !.found = @ \cup Own(page, j.key)]
  PROVE  /\ page = Remaining(j.key, j.marker) =>
              /\ j.at # "objects" \/ j.step = "relist" =>
                   Due[j.key] \subseteq i.found
         /\ \A e \in page :
              IsLast(page, e) =>
                /\ [i EXCEPT !.marker = Place[e]] \in Job
                /\ j.at # "objects" \/ j.step = "relist" =>
                     Covered([i EXCEPT !.marker = Place[e]], Due)
  <1>1. j.key \in Key /\ j.marker \in Nat
    <2>1. Proper(j)  BY DEF IInv, TypeOK
    <2> QED  BY <2>1 DEF Proper, HasKey, Job
  <1>2. TypeOK /\ Learnt(j, Due)  BY DEF IInv
  <1>3. /\ i.key = j.key /\ i.found = j.found \cup Own(page, j.key)
        /\ i.marker = j.marker
    BY DEF Job
  <1>4. Due[j.key] \subseteq Version /\ Due[j.key] \subseteq versions[j.key]
    BY <1>1, <1>2, DueFacts
  <1>5. \A v \in Due[j.key] : <<j.key, v>> \in Item
    BY <1>1, <1>4 DEF Item
  <1>6. page \subseteq Item  BY DEF Pages, Remaining
  <1>7. \A v \in Due[j.key] : Place[<<j.key, v>>] \in Nat
    BY <1>5, ListingAssumption
  <1>8. j.at # "objects" \/ j.step = "relist" => Covered(j, Due)
    BY <1>2 DEF Learnt
  <1>9. ASSUME page = Remaining(j.key, j.marker),
               j.at # "objects" \/ j.step = "relist",
               NEW v \in Due[j.key]
        PROVE  v \in i.found
    <2>1. CASE Place[<<j.key, v>>] <= j.marker
      BY <2>1, <1>3, <1>8, <1>9 DEF Covered
    <2>2. CASE Place[<<j.key, v>>] > j.marker
      BY <2>2, <1>1, <1>2, <1>3, <1>4, <1>9, PageFacts
    <2> QED  BY <2>1, <2>2, <1>1, <1>7
  <1>10. ASSUME NEW e \in page, IsLast(page, e)
         PROVE  /\ [i EXCEPT !.marker = Place[e]] \in Job
                /\ j.at # "objects" \/ j.step = "relist" =>
                     Covered([i EXCEPT !.marker = Place[e]], Due)
    <2>1. Place[e] \in Nat  BY <1>6, ListingAssumption
    <2>2. [i EXCEPT !.marker = Place[e]] \in Job  BY <2>1 DEF Job
    <2>3. /\ [i EXCEPT !.marker = Place[e]].key = j.key
          /\ [i EXCEPT !.marker = Place[e]].marker = Place[e]
          /\ [i EXCEPT !.marker = Place[e]].found = i.found
      BY <1>3 DEF Job
    <2>4. ASSUME j.at # "objects" \/ j.step = "relist",
                 NEW v \in Due[j.key], Place[<<j.key, v>>] <= Place[e]
          PROVE  v \in i.found
      <3>1. CASE Place[<<j.key, v>>] <= j.marker
        BY <3>1, <1>3, <1>8, <2>4 DEF Covered
      <3>2. CASE Place[<<j.key, v>>] > j.marker
        BY <3>2, <1>1, <1>2, <1>3, <1>4, <1>10, <2>4, PageFacts
      <3> QED  BY <3>1, <3>2, <1>1, <1>7
    <2> QED  BY <2>2, <2>3, <2>4 DEF Covered
  <1> QED  BY <1>9, <1>10

\* What a complete listing leads to is known of the key.
LEMMA AfterListing ==
  ASSUME NEW j \in Job, NEW present \in [Key -> SUBSET Version],
         j.step \in {"list", "delete", "relist"},
         Proper(j), j.key \in Table(j.at), j.todo \subseteq Table(j.at),
         j.step = "relist" => j.at = "objects",
         j.at # "objects" \/ j.step = "relist" =>
           present[j.key] \subseteq j.found
  PROVE  /\ Listed(j) \in Job /\ Proper(Listed(j))
         /\ Learnt(Listed(j), present) /\ Listed(j).at = j.at
  <1>1. Listed(j) \in Job  BY ListedCases
  <1>2. j.at \in Busy /\ j.key \in Key  BY DEF Proper, HasKey
  <1>3. CASE j.found = {} /\ (j.step = "relist" \/ j.at # "objects")
             /\ Listed(j) = [j EXCEPT !.step = "drop"]
    <2>1. present[j.key] = {}  BY <1>3
    <2>2. PICK i \in Job : i = Listed(j)  BY <1>1
    <2>3. /\ i.step = "drop" /\ i.at = j.at /\ i.key = j.key
          /\ i.todo = j.todo
      BY <2>2, <1>3 DEF Job
    <2>4. Proper(i) /\ Learnt(i, present)
      BY <2>1, <2>3, <1>2 DEF Proper, Learnt, HasKey
    <2> QED  BY <1>1, <2>2, <2>3, <2>4
  <1>4. CASE j.step = "relist" /\ Listed(j) = NextKey(j)
    <2>1. PICK i \in Job : i = Listed(j)  BY <1>1
    <2>2. /\ i.step = "pick" /\ i.at = j.at /\ i.key = NoKey
          /\ i.todo = j.todo
      BY <2>1, <1>4 DEF NextKey, Rest
    <2>3. Proper(i) /\ Learnt(i, present)
      BY <2>2, <1>2, KeyAssumption DEF Proper, Learnt, HasKey
    <2> QED  BY <1>1, <2>1, <2>2, <2>3
  <1>5. CASE j.step # "relist" /\ Listed(j) = [j EXCEPT !.step = "delete"]
    <2>1. PICK i \in Job : i = Listed(j)  BY <1>1
    <2>2. /\ i.step = "delete" /\ i.at = j.at /\ i.key = j.key
          /\ i.todo = j.todo /\ i.found = j.found
      BY <2>1, <1>5 DEF Job
    <2>3. Proper(i) /\ Learnt(i, present)
      BY <2>2, <1>2, <1>5 DEF Proper, Learnt, HasKey
    <2> QED  BY <1>1, <2>1, <2>2, <2>3
  <1>6. CASE j.at = "objects" /\ Listed(j) = Relist(j)
    <2>1. PICK i \in Job : i = Listed(j)  BY <1>1
    <2>2. /\ i.step = "relist" /\ i.at = j.at /\ i.key = j.key
          /\ i.todo = j.todo /\ i.marker = 0
      BY <2>1, <1>6 DEF Relist, Job
    <2>3. \A v \in present[i.key] : ~(Place[<<i.key, v>>] <= i.marker)
      <3> SUFFICES ASSUME NEW v \in present[i.key]
                   PROVE  ~(Place[<<i.key, v>>] <= i.marker)
        OBVIOUS
      <3>1. <<i.key, v>> \in Item  BY <2>2, <1>2 DEF Item
      <3> QED  BY <3>1, <2>2, ListingAssumption
    <2>4. Proper(i)  BY <2>2, <1>2 DEF Proper, HasKey
    <2>5. Learnt(i, present)  BY <2>2, <2>3, <1>6 DEF Learnt, Covered, HasKey
    <2> QED  BY <1>1, <2>1, <2>2, <2>4, <2>5
  <1> QED  BY <1>3, <1>4, <1>5, <1>6, ListedCases

-----------------------------------------------------------------------------
\* Jobs that know nothing of a key.
LEMMA FreshJobs ==
  ASSUME NEW present, NEW j \in {Rest, Down, Pass("files"), Pass("objects")}
  PROVE  j \in Job /\ Proper(j) /\ Learnt(j, present)
  <1> DEFINE Blank == /\ j \in Job /\ j.key = NoKey /\ j.todo = {}
                      /\ \/ j.step = "none" /\ j.at \in {"idle", "down"}
                         \/ j.step = "select" /\ j.at \in {"files", "objects"}
  <1>1. CASE j = Rest
    <2>1. Blank  BY <1>1 DEF Job, Rest
    <2> QED  BY <2>1, KeyAssumption DEF Proper, Learnt, HasKey, Busy
  <1>2. CASE j = Down
    <2>1. Blank  BY <1>2 DEF Job, Rest, Down
    <2> QED  BY <2>1, KeyAssumption DEF Proper, Learnt, HasKey, Busy
  <1>3. CASE j = Pass("files")
    <2>1. Blank  BY <1>3 DEF Job, Rest, Pass
    <2> QED  BY <2>1, KeyAssumption DEF Proper, Learnt, HasKey, Busy
  <1>4. CASE j = Pass("objects")
    <2>1. Blank  BY <1>4 DEF Job, Rest, Pass
    <2> QED  BY <2>1, KeyAssumption DEF Proper, Learnt, HasKey, Busy
  <1> QED  BY <1>1, <1>2, <1>3, <1>4

LEMMA NextKeyFresh ==
  ASSUME NEW present, NEW j \in Job, j.at \in Busy,
         j.todo \subseteq Table(j.at), NEW i, i = NextKey(j)
  PROVE  i \in Job /\ Proper(i) /\ Learnt(i, present) /\ i.at = j.at
  <1>1. i \in Job  BY JobTypes
  <1>2. i.at = j.at /\ i.step = "pick" /\ i.key = NoKey /\ i.todo = j.todo
    BY DEF NextKey, Rest
  <1> QED  BY <1>1, <1>2, KeyAssumption DEF Proper, Learnt, HasKey

LEMMA ListFresh ==
  ASSUME NEW present \in [Key -> SUBSET Version], NEW j \in Job,
         NEW k \in Key, j.at \in Busy, j.todo \subseteq Table(j.at),
         k \in Table(j.at), NEW i, i = List(j, k)
  PROVE  i \in Job /\ Proper(i) /\ Learnt(i, present) /\ i.at = j.at
  <1>1. i \in Job  BY JobTypes
  <1>2. /\ i.at = j.at /\ i.step = "list" /\ i.key = k
        /\ i.todo \subseteq j.todo /\ i.marker = 0
    BY DEF List, Rest
  <1>3. \A v \in present[k] : ~(Place[<<k, v>>] <= 0)
    <2> SUFFICES ASSUME NEW v \in present[k]  PROVE ~(Place[<<k, v>>] <= 0)
      OBVIOUS
    <2>1. <<k, v>> \in Item  BY DEF Item
    <2> QED  BY <2>1, ListingAssumption
  <1>4. Proper(i)  BY <1>2 DEF Proper, HasKey
  <1>5. Learnt(i, present)  BY <1>2, <1>3 DEF Learnt, Covered, HasKey
  <1> QED  BY <1>1, <1>2, <1>4, <1>5

\* A worker changes its job, but neither the bucket nor the outboxes.
LEMMA OnlyJob ==
  ASSUME IInv, NEW w \in Worker, NEW j, Becomes(w, j),
         j \in Job, Proper(j), Learnt(j, Due),
         UNCHANGED <<bucketVars, outboxVars>>,
         serving' \in SUBSET Server,
         \A s \in serving' : s \in serving \/ s = w,
         w \in serving' => j.at # "down",
         faults' \in 0..MaxFaults
  PROVE  IInv'
  <1>1. versions' = versions /\ late' = late /\ unborn' = unborn
        /\ rows' = rows /\ queued' = queued /\ Due' = Due
    BY DueFacts DEF bucketVars, outboxVars
  <1>2. NoOrphans'  BY <1>1 DEF IInv, NoOrphans
  <1>3. Learnt(j, Due')  BY <1>1
  <1>4. /\ versions' \in [Key -> SUBSET Version]
        /\ late' \in [Key -> SUBSET Version]
        /\ \A k \in FileKey : late'[k] = {}
        /\ \A k \in Key : versions'[k] \subseteq versions[k]
        /\ \A k \in Key : Due'[k] \subseteq Due[k]
        /\ rows' \in SUBSET queued' /\ queued' \in SUBSET Key
    BY <1>1 DEF IInv, TypeOK
  <1> QED  BY <1>1, <1>2, <1>3, <1>4, OneWorker

LEMMA JobFacts ==
  ASSUME IInv, NEW w \in Worker
  PROVE  /\ job[w] \in Job /\ Proper(job[w]) /\ Learnt(job[w], Due)
         /\ versions \in [Key -> SUBSET Version]
         /\ late \in [Key -> SUBSET Version]
         /\ Due \in [Key -> SUBSET Version]
         /\ serving \in SUBSET Server /\ faults \in 0..MaxFaults
         /\ w \in serving => job[w].at # "down"
  BY DueFacts DEF IInv, TypeOK

LEMMA RemoveStep ==
  ASSUME IInv, NEW r \in Request, NEW k \in FileKey, Remove(r, k)
  PROVE  IInv'
  <1> DEFINE j == [Rest EXCEPT !.at = "removing"]
  <1>1. r \in Worker /\ r \notin Server /\ k \in Key
    BY WorkerAssumption DEF Worker, Key
  <1>2. j \in Job /\ j.at = "removing" /\ j.todo = {}
    BY JobTypes DEF Job, Rest
  <1>3. PICK i \in Job : i = List(j, k)  BY <1>1, <1>2, JobTypes
  <1>4. Becomes(r, i)  BY <1>3 DEF Remove
  <1>5. /\ versions' = versions /\ late' = late /\ unborn' = unborn /\ Due' = Due
        /\ rows' = rows \cup {k} /\ queued' = queued \cup {k}
        /\ serving' = serving /\ faults' = faults
    BY DueFacts DEF Remove, bucketVars
  <1>6. /\ versions' \in [Key -> SUBSET Version]
        /\ late' \in [Key -> SUBSET Version] /\ \A l \in FileKey : late'[l] = {}
        /\ Due' \in [Key -> SUBSET Version]
        /\ \A l \in Key :
             versions'[l] \subseteq versions[l] /\ Due'[l] \subseteq Due[l]
        /\ rows' \in SUBSET queued' /\ queued' \in SUBSET Key
        /\ serving' \in SUBSET Server /\ faults' \in 0..MaxFaults
    BY <1>1, <1>5, JobFacts DEF IInv, TypeOK
  <1>7. NoOrphans'  BY <1>5 DEF IInv, NoOrphans
  <1>8. Proper(i) /\ Learnt(i, Due')
    <2>1. PICK present : present = Due'  OBVIOUS
    <2>2. Proper(i) /\ Learnt(i, present)
      BY <1>1, <1>2, <1>3, <1>6, <2>1, ListFresh DEF Busy, Table
    <2> QED  BY <2>1, <2>2
  <1> QED  BY <1>1, <1>3, <1>4, <1>5, <1>6, <1>7, <1>8, OneWorker

LEMMA EnqueueStep ==
  ASSUME IInv, NEW k \in UploadKey, Enqueue(k)
  PROVE  IInv'
  <1>1. /\ versions' = versions /\ late' = late /\ unborn' = unborn /\ job' = job
        /\ rows' = rows \cup {k} /\ queued' = queued \cup {k}
        /\ serving' = serving /\ faults' = faults /\ Due' = Due
    BY DueFacts DEF Enqueue, bucketVars
  <1>2. k \in Key  BY DEF Key
  <1>3. TypeOK'  BY <1>1, <1>2 DEF IInv, TypeOK
  <1>4. NoOrphans'  BY <1>1 DEF IInv, NoOrphans
  <1> QED  BY <1>1, <1>3, <1>4 DEF IInv

\* A version that arrives where a worker no longer looks is not due.
LEMMA ArriveStep ==
  ASSUME IInv, NEW k \in UploadKey, Arrive(k)
  PROVE  IInv'
  <1>1. k \in Key /\ k \notin FileKey /\ k \in queued
    BY KeyAssumption DEF Key, Arrive
  <1>2. PICK v \in unborn[k] :
          /\ versions' = [versions EXCEPT ![k] = @ \cup {v}]
          /\ unborn' = [unborn EXCEPT ![k] = @ \ {v}]
          /\ late' = IF Unseen(k, v) THEN [late EXCEPT ![k] = @ \cup {v}] ELSE late
    BY DEF Arrive
  <1>3. /\ job' = job /\ rows' = rows /\ queued' = queued
        /\ serving' = serving /\ faults' = faults
    BY DEF Arrive, outboxVars
  <1>4. /\ versions' \in [Key -> SUBSET Version]
        /\ late' \in [Key -> SUBSET Version]
        /\ unborn' \in [Key -> SUBSET Version]
        /\ versions'[k] = versions[k] \cup {v}
        /\ late'[k] = IF Unseen(k, v) THEN late[k] \cup {v} ELSE late[k]
        /\ \A l \in Key \ {k} : versions'[l] = versions[l] /\ late'[l] = late[l]
    BY <1>1, <1>2 DEF IInv, TypeOK
  <1>5. TypeOK'
    <2>1. \A l \in Key : unborn'[l] \cap versions'[l] = {}
      <3>1. unborn'[k] = unborn[k] \ {v}
        BY <1>1, <1>2 DEF IInv, TypeOK
      <3>2. \A l \in Key \ {k} : unborn'[l] = unborn[l]
        BY <1>2 DEF IInv, TypeOK
      <3>3. \A l \in Key : unborn[l] \cap versions[l] = {}  BY DEF IInv, TypeOK
      <3> QED  BY <1>1, <1>4, <3>1, <3>2, <3>3
    <2> QED  BY <1>3, <1>4, <2>1 DEF IInv, TypeOK
  <1>6. NoOrphans'
    <2>1. k \notin rows => late'[k] = late[k] \cup {v}  BY <1>4 DEF Unseen
    <2> QED  BY <1>1, <1>3, <1>4, <2>1 DEF IInv, TypeOK, NoOrphans
  <1>7. \A l \in FileKey : late'[l] = {}
    BY <1>1, <1>4 DEF IInv, Key
  <1>8. PICK before, after : before = Due /\ after = Due'  OBVIOUS
  <1>9. /\ \A l \in Key \ {k} : after[l] = before[l]
        /\ after[k] \subseteq before[k] \cup {v}
        /\ Unseen(k, v) => after[k] \subseteq before[k]
    BY <1>1, <1>4, <1>8 DEF Due
  <1>10. ASSUME NEW w \in Worker  PROVE Learnt(job[w], after)
    <2>1. PICK i \in Job : i = job[w]  BY JobFacts
    <2>2. Learnt(i, before) /\ Proper(i)  BY <2>1, <1>8, JobFacts
    <2>3. i.key = k =>
            /\ i.step = "drop" => Unseen(k, v)
            /\ i.step = "relist" /\ Place[<<k, v>>] <= i.marker => Unseen(k, v)
      BY <2>1 DEF Unseen, Doing
    <2>4. i.key = k /\ i.step \in HasKey => i.at = "objects"
      BY <2>2, <1>1 DEF Learnt, Table
    <2>5. i.step \in HasKey => i.key \in Key  BY <2>2 DEF Proper
    <2>6. CASE i.step \in HasKey /\ i.key = k
      <3>1. i.step = "drop" => after[k] = {}
        BY <2>2, <2>3, <2>6, <1>9 DEF Learnt
      <3>2. ASSUME i.step = "relist"  PROVE Covered(i, after)
        <4>1. Covered(i, before)  BY <2>2, <3>2 DEF Learnt
        <4> QED  BY <2>3, <2>6, <3>2, <4>1, <1>9 DEF Covered
      <3>3. Learnt(i, after)  BY <2>2, <2>4, <2>6, <3>1, <3>2 DEF Learnt, HasKey
      <3> QED  BY <2>1, <3>3
    <2>7. CASE i.step \in HasKey /\ i.key # k
      <3>1. after[i.key] = before[i.key]  BY <2>5, <2>7, <1>9
      <3>2. Learnt(i, after)  BY <2>2, <3>1 DEF Learnt, Covered
      <3> QED  BY <2>1, <3>2
    <2>8. CASE i.step \notin HasKey
      <3>1. Learnt(i, after)  BY <2>2, <2>8 DEF Learnt, HasKey
      <3> QED  BY <2>1, <3>1
    <2> QED  BY <2>1, <2>6, <2>7, <2>8
  <1> QED  BY <1>3, <1>5, <1>6, <1>7, <1>8, <1>10 DEF IInv

LEMMA TimerStep ==
  ASSUME IInv, NEW s \in Server, Boot(s) \/ Tick(s)
  PROVE  IInv'
  <1>1. s \in Worker  BY DEF Worker
  <1>2. PICK j : j = Pass("files")  OBVIOUS
  <1>3. j \in Job /\ Proper(j) /\ Learnt(j, Due) /\ j.at # "down"
    BY <1>2, FreshJobs DEF Pass, Rest
  <1>4. /\ Becomes(s, j) /\ UNCHANGED <<bucketVars, outboxVars>>
        /\ serving' = serving /\ faults' = faults
    BY <1>2 DEF Boot, Tick
  <1> QED  BY <1>1, <1>3, <1>4, JobFacts, OnlyJob

LEMMA SelectStep ==
  ASSUME IInv, NEW w \in Worker, Select(w)
  PROVE  IInv'
  <1>1. PICK i \in Job : i = job[w]  BY JobFacts
  <1>2. PICK j : j = [i EXCEPT !.step = "pick",
                               !.todo = rows \cap Table(i.at)]
    OBVIOUS
  <1>3. Proper(i) /\ i.step = "select" /\ rows \subseteq Key
    BY <1>1, JobFacts DEF Select, Doing, IInv, TypeOK
  <1>4. /\ j \in Job /\ j.at = i.at /\ j.step = "pick" /\ j.key = i.key
        /\ j.todo = rows \cap Table(i.at)
    BY <1>2, <1>3 DEF Job
  <1>5. Proper(j) /\ Learnt(j, Due)
    BY <1>3, <1>4 DEF Proper, Learnt, HasKey
  <1>6. /\ Becomes(w, j) /\ UNCHANGED <<bucketVars, outboxVars>>
        /\ serving' = serving /\ faults' = faults
    BY <1>1, <1>2 DEF Select
  <1> QED  BY <1>1, <1>4, <1>5, <1>6, JobFacts, OnlyJob

LEMMA PickStep ==
  ASSUME IInv, NEW w \in Worker, NEW k \in Key, Pick(w, k)
  PROVE  IInv'
  <1>1. PICK i \in Job : i = job[w]  BY JobFacts
  <1>2. PICK j : j = List(i, k)  OBVIOUS
  <1>3. /\ Learnt(i, Due) /\ Proper(i) /\ i.step = "pick"
        /\ k \in i.todo
    BY <1>1, JobFacts DEF Pick, Doing
  <1>4. i.at \in Busy /\ i.todo \subseteq Table(i.at)
    BY <1>3 DEF Proper, Learnt
  <1>5. j \in Job /\ Proper(j) /\ Learnt(j, Due) /\ j.at = i.at
    BY <1>2, <1>3, <1>4, JobFacts, ListFresh
  <1>6. /\ Becomes(w, j) /\ UNCHANGED <<bucketVars, outboxVars>>
        /\ serving' = serving /\ faults' = faults
    BY <1>1, <1>2 DEF Pick
  <1> QED  BY <1>1, <1>5, <1>6, JobFacts, OnlyJob

LEMMA EndPassStep ==
  ASSUME IInv, NEW w \in Server, EndPass(w)
  PROVE  IInv'
  <1>1. w \in Worker  BY DEF Worker
  <1>2. PICK j : j = IF job[w].at = "files" THEN Pass("objects") ELSE Rest
    OBVIOUS
  <1>3. j \in {Rest, Down, Pass("files"), Pass("objects")} /\ j.at # "down"
    BY <1>2 DEF Pass, Rest
  <1>5. j \in Job /\ Proper(j) /\ Learnt(j, Due)  BY <1>3, FreshJobs
  <1>6. Becomes(w, j)  BY <1>2 DEF EndPass
  <1>4. /\ UNCHANGED <<bucketVars, outboxVars>> /\ faults' = faults
        /\ serving' \in {serving, serving \cup {w}}
    BY DEF EndPass
  <1> QED  BY <1>1, <1>3, <1>5, <1>6, <1>4, JobFacts, OnlyJob

LEMMA ListPageStep ==
  ASSUME IInv, NEW w \in Worker, ListPage(w)
  PROVE  IInv'
  <1>1. PICK j \in Job : j = job[w]  BY JobFacts
  <1>2. j.step \in {"list", "relist"}  BY <1>1 DEF ListPage
  <1>3. PICK page \in Pages(j.key, j.marker) :
          LET i == [j EXCEPT !.found = @ \cup Own(page, j.key)] IN
          IF page = Remaining(j.key, j.marker)
          THEN Becomes(w, Listed(i))
          ELSE \E e \in page :
                 IsLast(page, e) /\ Becomes(w, [i EXCEPT !.marker = Place[e]])
    BY <1>1 DEF ListPage
  <1>4. PICK i : i = [j EXCEPT !.found = @ \cup Own(page, j.key)]  OBVIOUS
  <1>5. Own(page, j.key) \subseteq Version  BY DEF Own
  <1>6. /\ i \in Job /\ i.at = j.at /\ i.step = j.step /\ i.key = j.key
        /\ i.todo = j.todo
    BY <1>4, <1>5 DEF Job
  <1>7. Proper(j) /\ Learnt(j, Due) /\ j.step \in HasKey
    BY <1>1, <1>2, JobFacts DEF HasKey
  <1>8. /\ Proper(i) /\ i.key \in Table(i.at) /\ i.todo \subseteq Table(i.at)
        /\ i.step = "relist" => i.at = "objects"
    BY <1>6, <1>7 DEF Proper, Learnt
  <1>9. /\ UNCHANGED <<bucketVars, outboxVars>>
        /\ serving' = serving /\ faults' = faults
    BY DEF ListPage
  <1>10. CASE page = Remaining(j.key, j.marker)
    <2>1. Becomes(w, Listed(i))  BY <1>3, <1>4, <1>10
    <2>2. j.at # "objects" \/ j.step = "relist" =>
            Due[j.key] \subseteq i.found
      BY <1>1, <1>2, <1>4, <1>6, <1>10, PageRead
    <2>3. PICK l : l = Listed(i)  OBVIOUS
    <2>4. l \in Job /\ Proper(l) /\ Learnt(l, Due) /\ l.at = j.at
      BY <1>2, <1>6, <1>8, <2>2, <2>3, JobFacts, AfterListing
    <2> QED  BY <1>1, <1>9, <2>1, <2>3, <2>4, JobFacts, OnlyJob
  <1>11. CASE page # Remaining(j.key, j.marker)
    <2>1. PICK e \in page :
            IsLast(page, e) /\ Becomes(w, [i EXCEPT !.marker = Place[e]])
      BY <1>3, <1>4, <1>11
    <2>2. PICK l : l = [i EXCEPT !.marker = Place[e]]  OBVIOUS
    <2>3. /\ l \in Job
          /\ j.at # "objects" \/ j.step = "relist" => Covered(l, Due)
      BY <1>1, <1>2, <1>4, <1>6, <2>1, <2>2, PageRead
    <2>4. /\ l.at = j.at /\ l.step = j.step /\ l.key = j.key
          /\ l.todo = j.todo
      BY <1>6, <2>2 DEF Job
    <2>5. Proper(l)  BY <1>7, <2>4 DEF Proper
    <2>6. Learnt(l, Due)
      BY <1>2, <1>6, <1>8, <2>3, <2>4 DEF Learnt
    <2> QED  BY <1>1, <1>9, <2>1, <2>2, <2>3, <2>4, <2>5, <2>6, JobFacts, OnlyJob
  <1> QED  BY <1>10, <1>11

LEMMA DeleteVersionStep ==
  ASSUME IInv, NEW w \in Worker, DeleteVersion(w)
  PROVE  IInv'
  <1>1. PICK j \in Job : j = job[w]  BY JobFacts
  <1>2. j.step = "delete"  BY <1>1 DEF DeleteVersion, Doing
  <1>3. PICK v \in j.found :
          /\ versions' = [versions EXCEPT ![j.key] = @ \ {v}]
          /\ late' = [late EXCEPT ![j.key] = @ \ {v}]
          /\ Becomes(w, Listed([j EXCEPT !.found = @ \ {v}]))
    BY <1>1 DEF DeleteVersion
  <1>4. PICK i : i = [j EXCEPT !.found = @ \ {v}]  OBVIOUS
  <1>5. /\ i \in Job /\ i.at = j.at /\ i.step = j.step /\ i.key = j.key
        /\ i.todo = j.todo /\ i.found = j.found \ {v}
    BY <1>4 DEF Job
  <1>6. Proper(j) /\ Learnt(j, Due) /\ j.step \in HasKey
    BY <1>1, <1>2, JobFacts DEF HasKey
  <1>7. Proper(i) /\ i.key \in Table(i.at) /\ i.todo \subseteq Table(i.at)
    BY <1>5, <1>6 DEF Proper, Learnt
  <1>8. j.key \in Key  BY <1>6 DEF Proper
  <1>9. PICK before, present : before = Due /\ present = Due'  OBVIOUS
  <1>19. /\ versions' \in [Key -> SUBSET Version]
         /\ late' \in [Key -> SUBSET Version]
         /\ versions'[j.key] = versions[j.key] \ {v}
         /\ \A k \in Key : versions'[k] \subseteq versions[k]
         /\ late'[j.key] = late[j.key] \ {v}
         /\ \A k \in Key \ {j.key} :
              versions'[k] = versions[k] /\ late'[k] = late[k]
    BY <1>3, <1>8, JobFacts
  <1>20. /\ present \in [Key -> SUBSET Version]
         /\ present[j.key] = before[j.key] \ {v}
         /\ \A k \in Key : present[k] \subseteq before[k]
    BY <1>8, <1>9, <1>19 DEF Due
  <1>21. \A k \in FileKey : late'[k] = {}
    BY <1>8, <1>19 DEF IInv, Key
  <1>10. j.at # "objects" => present[i.key] \subseteq i.found
    BY <1>2, <1>5, <1>6, <1>9, <1>20 DEF Learnt
  <1>11. PICK l : l = Listed(i)  OBVIOUS
  <1>13. l \in Job /\ Proper(l) /\ Learnt(l, present) /\ l.at = j.at
    BY <1>2, <1>5, <1>7, <1>10, <1>11, <1>20, AfterListing
  <1>14. Learnt(l, Due') /\ \A k \in Key : Due'[k] \subseteq Due[k]
    BY <1>9, <1>13, <1>20
  <1>15. /\ unborn' = unborn /\ rows' = rows /\ queued' = queued
         /\ serving' = serving /\ faults' = faults
    BY DEF DeleteVersion, outboxVars
  <1>16. /\ rows' \in SUBSET queued' /\ queued' \in SUBSET Key
         /\ serving' \in SUBSET Server /\ faults' \in 0..MaxFaults
    BY <1>15 DEF IInv, TypeOK
  <1>17. NoOrphans'
    BY <1>15, <1>19 DEF IInv, TypeOK, NoOrphans
  <1>18. Becomes(w, l)  BY <1>3, <1>4, <1>11
  <1> QED
    BY <1>1, <1>13, <1>14, <1>15, <1>16, <1>17, <1>18, <1>19, <1>21, JobFacts,
       OneWorker

\* The row that goes is that of a key where nothing is due.
LEMMA DropRowStep ==
  ASSUME IInv, NEW w \in Worker, DropRow(w)
  PROVE  IInv'
  <1>1. PICK i \in Job : i = job[w]  BY JobFacts
  <1>2. Learnt(i, Due) /\ Proper(i) /\ i.step = "drop"
    BY <1>1, JobFacts DEF DropRow, Doing
  <1>3. Due[i.key] = {} /\ i.key \in Key /\ i.at \in Busy /\ i.todo \subseteq Table(i.at)
    BY <1>2 DEF Learnt, Proper, HasKey
  <1>4. PICK j : j = IF i.at = "removing" THEN Rest ELSE NextKey(i)  OBVIOUS
  <1>5. Becomes(w, j)  BY <1>1, <1>4 DEF DropRow
  <1>6. /\ versions' = versions /\ late' = late /\ unborn' = unborn /\ Due' = Due
        /\ rows' = rows \ {i.key} /\ queued' = queued
        /\ serving' = serving /\ faults' = faults
    BY <1>1, DueFacts DEF DropRow, bucketVars
  <1>7. j \in Job /\ Proper(j) /\ Learnt(j, Due) /\ j.at # "down"
    <2>1. CASE i.at = "removing"
      <3>1. j = Rest  BY <2>1, <1>4
      <3> QED  BY <3>1, FreshJobs DEF Rest
    <2>2. CASE i.at # "removing"
      <3>1. j = NextKey(i)  BY <2>2, <1>4
      <3> QED  BY <3>1, <1>3, NextKeyFresh DEF Busy
    <2> QED  BY <2>1, <2>2
  <1>8. /\ versions' \in [Key -> SUBSET Version]
        /\ late' \in [Key -> SUBSET Version] /\ \A k \in FileKey : late'[k] = {}
        /\ \A k \in Key : versions'[k] \subseteq versions[k]
        /\ \A k \in Key : Due'[k] \subseteq Due[k]
        /\ rows' \in SUBSET queued' /\ queued' \in SUBSET Key
        /\ serving' \in SUBSET Server /\ faults' \in 0..MaxFaults
    BY <1>6 DEF IInv, TypeOK
  <1>9. NoOrphans'
    <2>1. versions[i.key] \subseteq late[i.key]  BY <1>3 DEF Due
    <2>2. i.key \in FileKey => versions[i.key] = {}
      BY <2>1 DEF IInv
    <2> QED  BY <1>6, <2>1, <2>2 DEF IInv, NoOrphans
  <1>10. Learnt(j, Due')  BY <1>6, <1>7
  <1> QED
    BY <1>5, <1>6, <1>7, <1>8, <1>9, <1>10, JobFacts, OneWorker

LEMMA FailedJob ==
  ASSUME IInv, NEW w \in Worker, job[w].step \notin {"none", "pick"},
         NEW j, j = Failed(w)
  PROVE  /\ j \in Job /\ Proper(j) /\ Learnt(j, Due)
         /\ w \in serving => j.at # "down"
  <1>1. PICK i \in Job : i = job[w]  BY JobFacts
  <1>2. i.at \in Busy /\ i.todo \subseteq Table(i.at)
    BY <1>1, JobFacts DEF Proper, Learnt
  <1>3. CASE i.at = "files" /\ j = NextKey(i)
    <2>1. j \in Job /\ Proper(j) /\ Learnt(j, Due) /\ j.at = i.at
      BY <1>2, <1>3, NextKeyFresh
    <2> QED  BY <1>3, <2>1
  <1>4. CASE j \in {Rest, Pass("objects")}
    <2>1. Rest.at # "down" /\ Pass("objects").at # "down"  BY DEF Rest, Pass
    <2> QED  BY <1>4, <2>1, FreshJobs
  <1>5. CASE w \notin serving /\ j = Down
    BY <1>5, FreshJobs
  <1> QED  BY <1>1, <1>3, <1>4, <1>5 DEF Failed

LEMMA FailureStep ==
  ASSUME IInv, NEW w \in Worker, Refuse(w) \/ CallFails(w)
  PROVE  IInv'
  <1>1. PICK j : j = Failed(w)  OBVIOUS
  <1>2. /\ job[w].step \notin {"none", "pick"} /\ Becomes(w, j)
        /\ UNCHANGED <<bucketVars, outboxVars>> /\ serving' = serving
        /\ \/ faults' = faults
           \/ faults < MaxFaults /\ faults' = faults + 1
    <2>1. CASE Refuse(w)  BY <1>1, <2>1 DEF Refuse, Doing
    <2>2. CASE CallFails(w)  BY <1>1, <2>2 DEF CallFails
    <2> QED  BY <2>1, <2>2
  <1>3. /\ j \in Job /\ Proper(j) /\ Learnt(j, Due)
        /\ w \in serving => j.at # "down"
    BY <1>1, <1>2, FailedJob
  <1>4. faults' \in 0..MaxFaults
    <2>1. faults \in 0..MaxFaults  BY JobFacts
    <2> QED  BY <1>2, <2>1, WorkerAssumption
  <1> QED  BY <1>2, <1>3, <1>4, JobFacts, OnlyJob

LEMMA CrashStep ==
  ASSUME IInv, NEW s \in Server, Crash(s)
  PROVE  IInv'
  <1>1. s \in Worker  BY DEF Worker
  <1>2. PICK j : j = Down  OBVIOUS
  <1>3. j \in Job /\ Proper(j) /\ Learnt(j, Due)  BY <1>2, FreshJobs
  <1>4. /\ Becomes(s, j) /\ UNCHANGED <<bucketVars, outboxVars>>
        /\ serving' = serving \ {s}
        /\ faults < MaxFaults /\ faults' = faults + 1
    BY <1>2 DEF Crash
  <1>5. faults' \in 0..MaxFaults
    <2>1. faults \in 0..MaxFaults  BY <1>1, JobFacts
    <2> QED  BY <1>4, <2>1, WorkerAssumption
  <1> QED  BY <1>1, <1>3, <1>4, <1>5, JobFacts, OnlyJob

LEMMA InvInit == Init => IInv
  <1> SUFFICES ASSUME Init PROVE IInv  OBVIOUS
  <1>1. \A w \in Worker : job[w] \in {Rest, Down}  BY DEF Init
  <1>2. \A w \in Worker : /\ job[w] \in Job /\ Proper(job[w])
                          /\ Learnt(job[w], Due)
    BY <1>1, FreshJobs
  <1>3. job \in [Worker -> Job]
    <2>1. Rest \in Job /\ Down \in Job  BY FreshJobs
    <2> QED  BY <2>1 DEF Init
  <1>4. TypeOK  BY <1>2, <1>3, WorkerAssumption DEF Init, TypeOK
  <1>5. NoOrphans  BY DEF Init, NoOrphans
  <1>6. \A k \in FileKey : late[k] = {}  BY DEF Init, Key
  <1> QED  BY <1>2, <1>4, <1>5, <1>6 DEF IInv

LEMMA InvStep == IInv /\ [Next]_vars => IInv'
  <1> SUFFICES ASSUME IInv, [Next]_vars PROVE IInv'  OBVIOUS
  <1>1. CASE \E r \in Request, k \in FileKey : Remove(r, k)
    BY <1>1, RemoveStep
  <1>2. CASE \E k \in UploadKey : Enqueue(k) \/ Arrive(k)
    BY <1>2, EnqueueStep, ArriveStep
  <1>3. ASSUME NEW w \in Worker, Erase(w)  PROVE IInv'
    BY <1>3, ListPageStep, DeleteVersionStep, DropRowStep, FailureStep
    DEF Erase
  <1>4. ASSUME NEW s \in Server, ServerStep(s) \/ Crash(s)  PROVE IInv'
    <2>1. s \in Worker  BY DEF Worker
    <2>2. CASE \E k \in job[s].todo : Pick(s, k)
      <3>1. job[s].todo \subseteq Key  BY <2>1, JobFacts DEF Job
      <3> QED  BY <2>1, <2>2, <3>1, PickStep
    <2>3. CASE Boot(s) \/ Tick(s)  BY <2>3, TimerStep
    <2>4. CASE Select(s)  BY <2>1, <2>4, SelectStep
    <2>5. CASE EndPass(s)  BY <2>5, EndPassStep
    <2>6. CASE Erase(s)  BY <2>1, <2>6, <1>3
    <2>7. CASE Crash(s)  BY <2>7, CrashStep
    <2> QED  BY <1>4, <2>2, <2>3, <2>4, <2>5, <2>6, <2>7 DEF ServerStep
  <1>5. CASE \E s \in Server : ServerStep(s) \/ Crash(s)  BY <1>4, <1>5
  <1>6. CASE \E r \in Request : Erase(r)
    <2>1. Request \subseteq Worker  BY DEF Worker
    <2> QED  BY <1>3, <1>6, <2>1
  <1>7. CASE \E w \in Worker : CallFails(w)  BY <1>7, FailureStep
  <1>8. CASE UNCHANGED vars
    <2>1. /\ versions' = versions /\ late' = late /\ unborn' = unborn
          /\ Due' = Due /\ rows' = rows /\ queued' = queued /\ serving' = serving /\ job' = job
          /\ faults' = faults
      BY <1>8, DueFacts DEF vars, bucketVars
    <2>2. TypeOK' /\ NoOrphans'  BY <2>1 DEF IInv, TypeOK, NoOrphans
    <2> QED  BY <2>1, <2>2 DEF IInv
  <1> QED
    BY <1>1, <1>2, <1>5, <1>6, <1>7, <1>8 DEF Next

-----------------------------------------------------------------------------
LEMMA Invariance == Spec => []IInv
  <1>1. Init => IInv  BY InvInit
  <1>2. IInv /\ [Next]_vars => IInv'  BY InvStep
  <1> QED  BY <1>1, <1>2, PTL DEF Spec

\* The variables of Sweep keep their types; a server that serves is up.
THEOREM TypeCorrect == Spec => []TypeOK
  <1>1. IInv => TypeOK  BY DEF IInv
  <1> QED  BY <1>1, Invariance, PTL

\* No row of a file goes before its key is empty, and none of an upload key
\* before all is gone that did not arrive behind its last listing, for any
\* number of servers, removers, keys under one prefix and versions, and pages
\* of any size.
THEOREM RowsOutliveObjects == Spec => []NoOrphans
  <1>1. IInv => NoOrphans  BY DEF IInv
  <1> QED  BY <1>1, Invariance, PTL
-----------------------------------------------------------------------------
(* The implementation of DeletionContract.                                 *)

\* A worker only handles keys that were queued.
Asked ==
  \A w \in Worker :
    /\ job[w].todo \subseteq queued
    /\ job[w].key \in Key => job[w].key \in queued

\* A worker takes one step, with no keys but those it has and queued ones.
LEMMA AskedKept ==
  ASSUME IInv, Asked, NEW w \in Worker, NEW j, Becomes(w, j),
         queued \subseteq queued',
         j.todo \subseteq queued', j.key \in Key => j.key \in queued'
  PROVE  Asked'
  <1>1. job'[w] = j /\ \A u \in Worker \ {w} : job'[u] = job[u]
    BY DEF IInv, TypeOK, Becomes
  <1> QED  BY <1>1 DEF Asked

\* Jobs that have no key, or those of another job.
LEMMA KeysOfJobs ==
  ASSUME NEW i \in Job, Proper(i)
  PROVE  /\ \A j \in {Rest, Down, Pass("files"), Pass("objects")} :
              j.todo = {} /\ j.key = NoKey
         /\ NextKey(i).todo = i.todo /\ NextKey(i).key = NoKey
         /\ i.step \in {"list", "delete", "relist"} =>
              Listed(i).todo = i.todo /\ Listed(i).key \in {i.key, NoKey}
  <1>1. \A j \in {Rest, Down, Pass("files"), Pass("objects")} :
          j.todo = {} /\ j.key = NoKey
    <2>1. Rest.todo = {} /\ Rest.key = NoKey  BY DEF Rest
    <2>2. Down.todo = {} /\ Down.key = NoKey  BY DEF Down, Rest
    <2>3. \A table : Pass(table).todo = {} /\ Pass(table).key = NoKey
      BY DEF Pass, Rest
    <2> QED  BY <2>1, <2>2, <2>3
  <1>2. NextKey(i).todo = i.todo /\ NextKey(i).key = NoKey
    BY DEF NextKey, Rest
  <1>3. Relist(i).todo = i.todo /\ Relist(i).key = i.key
    BY DEF Relist, Job
  <1>4. /\ [i EXCEPT !.step = "drop"].todo = i.todo
        /\ [i EXCEPT !.step = "drop"].key = i.key
        /\ [i EXCEPT !.step = "delete"].todo = i.todo
        /\ [i EXCEPT !.step = "delete"].key = i.key
    BY DEF Job
  <1>5. i.step \in {"list", "delete", "relist"} =>
          Listed(i).todo = i.todo /\ Listed(i).key \in {i.key, NoKey}
    BY <1>2, <1>3, <1>4 DEF Listed
  <1> QED  BY <1>1, <1>2, <1>5

\* A worker goes on with some or none of its keys.
LEMMA AskedFewer ==
  ASSUME IInv, Asked, NEW w \in Worker, NEW j, Becomes(w, j), UNCHANGED queued,
         j.todo \subseteq job[w].todo, j.key \in {job[w].key, NoKey}
  PROVE  Asked'
  BY KeyAssumption, AskedKept DEF Asked

LEMMA AskedListing ==
  ASSUME IInv, Asked, NEW w \in Worker, ListPage(w)
  PROVE  Asked'
  <1>1. PICK i \in Job : i = job[w] /\ Proper(i)  BY JobFacts
  <1>2. i.step \in {"list", "relist"}  BY <1>1 DEF ListPage
  <1>3. PICK page \in Pages(i.key, i.marker) :
          LET j == [i EXCEPT !.found = @ \cup Own(page, i.key)] IN
          IF page = Remaining(i.key, i.marker)
          THEN Becomes(w, Listed(j))
          ELSE \E e \in page :
                 IsLast(page, e) /\ Becomes(w, [j EXCEPT !.marker = Place[e]])
    BY <1>1 DEF ListPage
  <1>4. PICK j : j = [i EXCEPT !.found = @ \cup Own(page, i.key)]  OBVIOUS
  <1>5. Own(page, i.key) \subseteq Version  BY DEF Own
  <1>6. /\ j \in Job /\ j.at = i.at /\ j.step = i.step /\ j.key = i.key
        /\ j.todo = i.todo
    BY <1>4, <1>5 DEF Job
  <1>7. Proper(j)  BY <1>1, <1>6 DEF Proper
  <1>8. UNCHANGED queued  BY DEF ListPage, outboxVars
  <1>9. CASE page = Remaining(i.key, i.marker)
    <2>1. PICK l : l = Listed(j)  OBVIOUS
    <2>2. Becomes(w, l)  BY <1>3, <1>4, <1>9, <2>1
    <2>3. l.todo = i.todo /\ l.key \in {i.key, NoKey}
      BY <1>2, <1>6, <1>7, <2>1, KeysOfJobs
    <2> QED  BY <1>1, <1>8, <2>2, <2>3, AskedFewer
  <1>10. CASE page # Remaining(i.key, i.marker)
    <2>1. PICK e \in page :
            IsLast(page, e) /\ Becomes(w, [j EXCEPT !.marker = Place[e]])
      BY <1>3, <1>4, <1>10
    <2>2. PICK l : l = [j EXCEPT !.marker = Place[e]]  OBVIOUS
    <2>3. l.todo = j.todo /\ l.key = j.key  BY <1>6, <2>2 DEF Job
    <2> QED  BY <1>1, <1>6, <1>8, <2>1, <2>2, <2>3, AskedFewer
  <1> QED  BY <1>9, <1>10

LEMMA AskedStep == IInv /\ Asked /\ [Next]_vars => Asked'
  <1> SUFFICES ASSUME IInv, Asked, [Next]_vars PROVE Asked'  OBVIOUS
  <1>1. ASSUME NEW w \in Worker, NEW j, Becomes(w, j), UNCHANGED queued,
               j.todo \subseteq job[w].todo, j.key \in {job[w].key, NoKey}
        PROVE  Asked'
    BY <1>1, AskedFewer
  <1>2. ASSUME NEW w \in Worker, NEW j, Becomes(w, j), UNCHANGED queued,
               j \in {Rest, Down, Pass("files"), Pass("objects")}
        PROVE  Asked'
    <2>1. j.todo = {} /\ j.key = NoKey  BY <1>2, JobFacts, KeysOfJobs
    <2> QED  BY <1>1, <1>2, <2>1
  <1>3. CASE \E r \in Request, k \in FileKey : Remove(r, k)
    <2>1. PICK r \in Request, k \in FileKey : Remove(r, k)  BY <1>3
    <2>2. PICK j : j = List([Rest EXCEPT !.at = "removing"], k)  OBVIOUS
    <2>3. j.todo = {} /\ j.key = k  BY <2>2 DEF List, Rest
    <2>4. /\ queued' = queued \cup {k} /\ Becomes(r, j) /\ r \in Worker
      BY <2>1, <2>2 DEF Remove, Worker
    <2> QED  BY <2>3, <2>4, AskedKept
  <1>4. CASE \E k \in UploadKey : Enqueue(k) \/ Arrive(k)
    <2>1. job' = job /\ queued \subseteq queued'
      BY <1>4 DEF Enqueue, Arrive, outboxVars
    <2> QED  BY <2>1 DEF Asked
  <1>5. ASSUME NEW w \in Worker, ListPage(w)  PROVE Asked'
    BY <1>5, AskedListing
  <1>6. ASSUME NEW w \in Worker, DeleteVersion(w)  PROVE Asked'
    <2>1. PICK i \in Job : i = job[w] /\ Proper(i)  BY JobFacts
    <2>2. PICK v \in i.found : Becomes(w, Listed([i EXCEPT !.found = @ \ {v}]))
      BY <1>6, <2>1 DEF DeleteVersion
    <2>3. PICK j : j = [i EXCEPT !.found = @ \ {v}]  OBVIOUS
    <2>4. i.step = "delete" /\ queued' = queued
      BY <1>6, <2>1 DEF DeleteVersion, Doing, outboxVars
    <2>5. /\ j \in Job /\ j.at = i.at /\ j.step = i.step /\ j.key = i.key
          /\ j.todo = i.todo
      BY <2>3 DEF Job
    <2>6. Listed(j).todo = i.todo /\ Listed(j).key \in {i.key, NoKey}
      BY <2>1, <2>4, <2>5, KeysOfJobs DEF Proper
    <2> QED  BY <1>1, <2>1, <2>2, <2>3, <2>4, <2>6
  <1>7. ASSUME NEW w \in Worker, DropRow(w)  PROVE Asked'
    <2>1. PICK i \in Job : i = job[w] /\ Proper(i)  BY JobFacts
    <2>2. PICK j : j \in {Rest, NextKey(i)} /\ Becomes(w, j)
      BY <1>7, <2>1 DEF DropRow
    <2>3. queued' = queued  BY <1>7 DEF DropRow
    <2>4. j.todo \subseteq i.todo /\ j.key = NoKey  BY <2>1, <2>2, KeysOfJobs
    <2> QED  BY <1>1, <2>1, <2>2, <2>3, <2>4
  <1>8. ASSUME NEW w \in Worker, Refuse(w) \/ CallFails(w)  PROVE Asked'
    <2>1. PICK i \in Job : i = job[w] /\ Proper(i)  BY JobFacts
    <2>2. PICK j : j = Failed(w)  OBVIOUS
    <2>3. j \in {Rest, Down, Pass("objects"), NextKey(i)}
      BY <2>1, <2>2 DEF Failed
    <2>4. Becomes(w, j) /\ queued' = queued
      BY <1>8, <2>2 DEF Refuse, CallFails, outboxVars
    <2>5. j.todo \subseteq i.todo /\ j.key = NoKey  BY <2>1, <2>3, KeysOfJobs
    <2> QED  BY <1>1, <2>1, <2>4, <2>5
  <1>9. ASSUME NEW s \in Server, Boot(s) \/ Tick(s) \/ EndPass(s) \/ Crash(s)
        PROVE  Asked'
    <2>1. PICK j \in {Rest, Down, Pass("files"), Pass("objects")} : Becomes(s, j)
      BY <1>9 DEF Boot, Tick, EndPass, Crash
    <2>2. s \in Worker /\ queued' = queued
      BY <1>9 DEF Boot, Tick, EndPass, Crash, outboxVars, Worker
    <2> QED  BY <1>2, <2>1, <2>2
  <1>10. ASSUME NEW w \in Worker, Select(w)  PROVE Asked'
    <2>1. PICK i \in Job : i = job[w] /\ Proper(i)  BY JobFacts
    <2>2. PICK j : j = [i EXCEPT !.step = "pick", !.todo = rows \cap Table(i.at)]
      OBVIOUS
    <2>3. j.todo \subseteq rows /\ j.key = i.key  BY <2>2 DEF Job
    <2>4. Becomes(w, j) /\ queued' = queued
      BY <1>10, <2>1, <2>2 DEF Select, outboxVars
    <2>5. rows \subseteq queued  BY DEF IInv, TypeOK
    <2> QED  BY <2>1, <2>3, <2>4, <2>5, AskedKept DEF Asked
  <1>11. ASSUME NEW w \in Worker, NEW k \in job[w].todo, Pick(w, k)  PROVE Asked'
    <2>1. PICK i \in Job : i = job[w] /\ Proper(i)  BY JobFacts
    <2>2. PICK j : j = List(i, k)  OBVIOUS
    <2>3. j.todo \subseteq i.todo /\ j.key = k  BY <2>2 DEF List, Rest
    <2>4. Becomes(w, j) /\ queued' = queued
      BY <1>11, <2>1, <2>2 DEF Pick, outboxVars
    <2> QED  BY <1>11, <2>1, <2>3, <2>4, AskedKept DEF Asked
  <1>12. CASE UNCHANGED vars
    BY <1>12 DEF vars, Asked
  <1>13. Server \subseteq Worker /\ Request \subseteq Worker  BY DEF Worker
  <1> QED
    BY <1>3, <1>4, <1>5, <1>6, <1>7, <1>8, <1>9, <1>10, <1>11, <1>12, <1>13
    DEF Next, ServerStep, Erase

\* Every step is one of the contract, or none.
LEMMA ContractStep ==
  IInv /\ Asked /\ [Next]_vars => [Contract!Next]_<<Due, rows, queued>>
  <1> SUFFICES ASSUME IInv, Asked, [Next]_vars
               PROVE  Contract!Next \/ UNCHANGED <<Due, rows, queued>>
    OBVIOUS
  <1>1. CASE \E r \in Request, k \in FileKey : Remove(r, k)
    <2>1. PICK r \in Request, k \in FileKey : Remove(r, k)  BY <1>1
    <2>2. Contract!Ask(k)  BY <2>1, DueFacts DEF Remove, Contract!Ask
    <2> QED  BY <2>2 DEF Contract!Next, Key
  <1>2. ASSUME NEW k \in UploadKey, Enqueue(k)  PROVE Contract!Next
    <2>1. Contract!Ask(k)  BY <1>2, DueFacts DEF Enqueue, Contract!Ask
    <2> QED  BY <2>1 DEF Contract!Next, Key
  <1>3. ASSUME NEW k \in UploadKey, Arrive(k)
        PROVE  Contract!Next \/ UNCHANGED <<Due, rows, queued>>
    <2>1. k \in Key /\ k \in queued /\ TypeOK
      BY <1>3 DEF Key, Arrive, IInv
    <2>2. PICK v \in unborn[k] :
            /\ versions' = [versions EXCEPT ![k] = @ \cup {v}]
            /\ late' = IF Unseen(k, v) THEN [late EXCEPT ![k] = @ \cup {v}]
                       ELSE late
      BY <1>3 DEF Arrive
    <2>3. UNCHANGED <<rows, queued>>  BY <1>3 DEF Arrive, outboxVars
    <2>4. v \in Version /\ v \notin versions[k]  BY <2>1 DEF TypeOK
    <2>5. CASE Unseen(k, v) \/ v \in late[k]
      <3>1. \A l \in Key : versions'[l] \ late'[l] = versions[l] \ late[l]
        BY <2>1, <2>2, <2>4, <2>5 DEF TypeOK
      <3>2. Due' = Due  BY <3>1, Zenon DEF Due
      <3> QED  BY <2>3, <3>2
    <2>6. CASE ~Unseen(k, v) /\ v \notin late[k]
      <3>1. k \in rows  BY <2>6 DEF Unseen
      <3>2. PICK before, after : before = Due /\ after = Due'  OBVIOUS
      <3>3. \A l \in Key :
              after[l] = IF l = k THEN before[l] \cup {v} ELSE before[l]
        BY <2>1, <2>2, <2>6, <3>2 DEF Due, TypeOK
      <3>4. /\ before = [l \in Key |-> before[l]]
            /\ after = [l \in Key |-> after[l]]
        BY <3>2 DEF Due
      <3>5. after = [before EXCEPT ![k] = @ \cup {v}]  BY <2>1, <3>3, <3>4
      <3>6. Contract!Arrive(k, v)
        BY <2>3, <3>1, <3>2, <3>5 DEF Contract!Arrive
      <3> QED  BY <2>1, <2>4, <3>6 DEF Contract!Next
    <2> QED  BY <2>5, <2>6
  <1>4. ASSUME NEW w \in Worker, DeleteVersion(w)
        PROVE  Contract!Next \/ UNCHANGED <<Due, rows, queued>>
    <2>1. PICK i \in Job : i = job[w] /\ Proper(i)  BY JobFacts
    <2>2. PICK v \in i.found :
            /\ versions' = [versions EXCEPT ![i.key] = @ \ {v}]
            /\ late' = [late EXCEPT ![i.key] = @ \ {v}]
      BY <1>4, <2>1 DEF DeleteVersion
    <2>3. i.step = "delete" /\ UNCHANGED <<rows, queued>>
      BY <1>4, <2>1 DEF DeleteVersion, Doing, outboxVars
    <2>4. i.key \in Key /\ i.key \in queued /\ v \in Version
      BY <2>1, <2>3 DEF Proper, HasKey, Asked, Job
    <2>5. PICK before, after : before = Due /\ after = Due'  OBVIOUS
    <2>6. \A l \in Key :
            after[l] = IF l = i.key THEN before[l] \ {v} ELSE before[l]
      BY <2>2, <2>4, <2>5 DEF Due, IInv, TypeOK
    <2>7. before = [l \in Key |-> before[l]] /\ after = [l \in Key |-> after[l]]
      BY <2>5 DEF Due
    <2>8. CASE v \in before[i.key]
      <3>1. v \in versions[i.key] /\ v \notin late[i.key]
        BY <2>4, <2>5, <2>8 DEF Due
      <3>2. i.key \in rows  BY <2>4, <3>1 DEF IInv, NoOrphans
      <3>3. after = [before EXCEPT ![i.key] = @ \ {v}]  BY <2>4, <2>6, <2>7
      <3>4. Contract!Lose(i.key, v)
        BY <2>3, <2>5, <2>8, <3>2, <3>3 DEF Contract!Lose
      <3> QED  BY <2>4, <3>4 DEF Contract!Next
    <2>9. CASE v \notin before[i.key]
      <3>1. \A l \in Key : after[l] = before[l]  BY <2>6, <2>9
      <3>2. after = before  BY <2>7, <3>1, Zenon
      <3> QED  BY <2>3, <2>5, <3>2
    <2> QED  BY <2>8, <2>9
  <1>5. ASSUME NEW w \in Worker, DropRow(w)
        PROVE  Contract!Next \/ UNCHANGED <<Due, rows, queued>>
    <2>1. PICK i \in Job : i = job[w] /\ Proper(i) /\ Learnt(i, Due)
      BY JobFacts
    <2>2. /\ i.step = "drop" /\ rows' = rows \ {i.key}
          /\ UNCHANGED <<Due, queued>>
      BY <1>5, <2>1, DueFacts DEF DropRow, Doing
    <2>3. i.key \in Key /\ Due[i.key] = {}
      BY <2>1, <2>2 DEF Proper, HasKey, Learnt
    <2>4. CASE i.key \in rows
      <3>1. Contract!Forget(i.key)  BY <2>2, <2>3, <2>4 DEF Contract!Forget
      <3> QED  BY <2>3, <3>1 DEF Contract!Next
    <2>5. CASE i.key \notin rows
      BY <2>2, <2>5
    <2> QED  BY <2>4, <2>5
  <1>6. ASSUME NEW w \in Worker,
               ListPage(w) \/ Refuse(w) \/ CallFails(w) \/ Select(w)
        PROVE  UNCHANGED <<Due, rows, queued>>
    <2>1. UNCHANGED <<bucketVars, outboxVars>>
      BY <1>6, Zenon DEF ListPage, Refuse, CallFails, Select
    <2> QED  BY <2>1, DueFacts DEF outboxVars
  <1>7. ASSUME NEW s \in Server, Boot(s) \/ Tick(s) \/ EndPass(s) \/ Crash(s)
        PROVE  UNCHANGED <<Due, rows, queued>>
    BY <1>7, DueFacts DEF Boot, Tick, EndPass, Crash, outboxVars
  <1>8. ASSUME NEW w \in Worker, NEW k, Pick(w, k)
        PROVE  UNCHANGED <<Due, rows, queued>>
    BY <1>8, DueFacts DEF Pick, outboxVars
  <1>9. UNCHANGED vars => UNCHANGED <<Due, rows, queued>>
    BY DueFacts DEF vars, bucketVars
  <1>10. Server \subseteq Worker /\ Request \subseteq Worker  BY DEF Worker
  <1> QED
    BY <1>1, <1>2, <1>3, <1>4, <1>5, <1>6, <1>7, <1>8, <1>9, <1>10
    DEF Next, ServerStep, Erase

\* Whatever passes, removers, failures and crashes interleave, what they do to
\* objects and outboxes is what DeletionContract allows: only versions of keys
\* that wait in an outbox go, and a key waits until nothing of it is due: the
\* versions that arrived behind its last listing are not.
THEOREM Implements == Spec => ContractSpec
  <1>1. Init => Asked /\ Contract!Init
    <2>1. ASSUME Init  PROVE Asked
      <3>1. \A w \in Worker : job[w] \in {Rest, Down}  BY <2>1 DEF Init
      <3>2. \A j \in {Rest, Down} : j.todo = {} /\ j.key = NoKey
        BY DEF Rest, Down
      <3> QED  BY <3>1, <3>2, KeyAssumption DEF Asked
    <2> QED  BY <2>1 DEF Init, Contract!Init, Due
  <1> QED
    BY <1>1, AskedStep, ContractStep, Invariance, PTL
    DEF Spec, ContractSpec, Contract!Spec
=============================================================================
