---------------------------- MODULE ReplayProofs ----------------------------
(***************************************************************************)
(* Theorems about OwnerReplay, AgentReplay and FileReferences, for every   *)
(* value of their constants.  All three run next to any transaction of     *)
(* Ledger, so a step of theirs is a step of Ledger or leaves it alone, and *)
(* what LedgerProofs says of a step holds here; next to the statements of  *)
(* LedgerTx they see what these commit, which is a behaviour of Ledger.    *)
(***************************************************************************)
EXTENDS LedgerTxProofs, OwnerReplay, AgentReplay, FileReferences,
        FiniteSetTheorems, FunctionTheorems

-----------------------------------------------------------------------------
(* The owner's client: the inductive invariant.                            *)

\* What the request holds, and what the client has been given.
OwnerTypeOK ==
  /\ owner # OwnerIdle =>
       /\ owner \in [phase: {"rows", "hydrate", "missing"}, through: Nat,
                     rows: SUBSET Item, files: SUBSET File]
  /\ got \subseteq Item
  /\ cursor \in Nat
  /\ fresh \in BOOLEAN

\* While nothing is deleted the client has the transcript up to its cursor, and
\* what is inserted comes after the cursor and after a replay's through_seq.
Following ==
  fresh =>
    /\ got = {i \in ItemsOf(Followed) : i.seq <= cursor}
    /\ cursor < nextSeq[Followed]
    /\ owner # OwnerIdle =>
         cursor <= owner.through /\ owner.through < nextSeq[Followed]
    /\ owner.phase \in {"hydrate", "missing"} => owner.rows = Rows

\* A replay hydrates references of the rows it has read, and is only refused
\* when one of these rows is gone; their ids are not used again.
Hydrating ==
  owner # OwnerIdle =>
    /\ \A i \in owner.rows : i.id <= lastItem
    /\ owner.files \subseteq UNION {i.refs : i \in owner.rows}
    /\ owner.phase = "missing" => ~(owner.rows \subseteq items)

OwnerIInv == IInv /\ OwnerTypeOK /\ Following /\ Hydrating

LEMMA OwnerInitIInv == OwnerInit => OwnerIInv
<1> SUFFICES ASSUME OwnerInit
             PROVE  OwnerIInv
  OBVIOUS
<1>1. IInv
  BY InitIInv DEF OwnerInit, OwnerBegins
<1>2. items = {} /\ nextSeq[Followed] = 1
  BY FollowerAssumption DEF OwnerInit, OwnerBegins, Init
<1>3. owner = OwnerIdle /\ got = {} /\ cursor = 0 /\ fresh = TRUE
  BY DEF OwnerInit, OwnerBegins
<1>4. owner.phase \notin {"hydrate", "missing"}
  BY <1>3 DEF OwnerIdle
<1> QED
  BY <1>1, <1>2, <1>3, <1>4
     DEF OwnerIInv, OwnerTypeOK, Following, Hydrating, ItemsOf

\* A write that deletes none of the followed items.
LEMMA FreshWrite ==
  ASSUME IInv, Next, ItemsOf(Followed) \subseteq items'
  PROVE  /\ nextSeq'[Followed] >= nextSeq[Followed]
         /\ \A i \in items' : i.conv = Followed /\ i.seq < nextSeq[Followed] =>
              i \in items
<1>0. /\ Followed \in Conv
      /\ nextSeq \in [Conv -> Int]
      /\ \A i \in items : i.seq \in Int
  BY FollowerAssumption, BoundAssumption DEF IInv, TypeOK, Item
<1>1. \A i \in items' : i.seq \in Int
  BY TypeStep, BoundAssumption DEF IInv, TypeOK, Item
<1>2. ASSUME NEW i \in items', i.conv = Followed, i.seq < nextSeq[Followed]
      PROVE  i \in items
  BY <1>0, <1>1, <1>2, NewItemsAbove DEF IInv
<1>3. ASSUME NEW c \in Conv, NEW turn \in 0..MaxTurns,
             NEW source \in {"user", "agent"}, NEW payload \in Payload,
             InsertItems(c, turn, source, payload)
      PROVE  nextSeq'[Followed] >= nextSeq[Followed]
  <2>1. /\ nextSeq'[c] > nextSeq[c]
        /\ \A d \in Conv : d # c => nextSeq'[d] = nextSeq[d]
    BY <1>3, InsertedItems DEF IInv
  <2>2. nextSeq'[Followed] \in Int
    BY <1>0, TypeStep, BoundAssumption DEF IInv, TypeOK
  <2> QED
    BY <1>0, <2>1, <2>2
<1>4. ASSUME NEW c \in Conv, NEW cut \in items, TruncateConversation(c, cut)
      PROVE  nextSeq'[Followed] >= nextSeq[Followed]
  <2>1. /\ cut \in items /\ cut.conv = c
        /\ cut \notin items'
        /\ nextSeq' = [nextSeq EXCEPT ![c] = cut.seq]
    BY <1>0, <1>4 DEF TruncateConversation, ItemsOf, ItemsBefore
  <2>2. c # Followed
    BY <2>1 DEF ItemsOf
  <2> QED
    BY <1>0, <2>1, <2>2
<1>5. nextSeq' = nextSeq => nextSeq'[Followed] >= nextSeq[Followed]
  BY <1>0
<1>6. \/ \E c \in Conv, turn \in 0..MaxTurns,
            source \in {"user", "agent"}, payload \in Payload :
           InsertItems(c, turn, source, payload)
      \/ \E c \in Conv, cut \in items : TruncateConversation(c, cut)
      \/ nextSeq' = nextSeq
  BY ItemSteps DEF IInv
<1>7. nextSeq'[Followed] >= nextSeq[Followed]
  BY <1>3, <1>4, <1>5, <1>6
<1> QED
  BY <1>2, <1>7

\* A write next to the client.
LEMMA WriteStep ==
  ASSUME OwnerIInv, Write
  PROVE  OwnerIInv'
<1>1. IInv'
  BY NextIInv DEF OwnerIInv, Write
<1>2. owner' = owner /\ got' = got /\ cursor' = cursor
      /\ fresh' = (fresh /\ ItemsOf(Followed) \subseteq items')
  BY DEF Write, Unseen
<1>3. OwnerTypeOK'
  BY <1>2 DEF OwnerIInv, OwnerTypeOK
<1>4. Following'
  <2> SUFFICES ASSUME fresh'
               PROVE  /\ got = {i \in ItemsOf(Followed)' : i.seq <= cursor}
                      /\ cursor < nextSeq'[Followed]
                      /\ owner # OwnerIdle =>
                           /\ cursor <= owner.through
                           /\ owner.through < nextSeq'[Followed]
                      /\ owner.phase \in {"hydrate", "missing"} =>
                           owner.rows = Rows'
    BY <1>2 DEF Following
  <2>1. fresh /\ ItemsOf(Followed) \subseteq items'
    BY <1>2
  <2>2. /\ nextSeq'[Followed] >= nextSeq[Followed]
        /\ \A i \in items' : i.conv = Followed /\ i.seq < nextSeq[Followed] =>
             i \in items
    BY <2>1, FreshWrite DEF OwnerIInv, Write
  <2>3. /\ nextSeq[Followed] \in Int /\ nextSeq'[Followed] \in Int
        /\ \A i \in items : i.seq \in Int
        /\ \A i \in items' : i.seq \in Int
    BY <1>1, FollowerAssumption, BoundAssumption
       DEF OwnerIInv, IInv, TypeOK, Item
  <2>4. /\ got = {i \in ItemsOf(Followed) : i.seq <= cursor}
        /\ cursor < nextSeq[Followed]
        /\ owner # OwnerIdle =>
             cursor <= owner.through /\ owner.through < nextSeq[Followed]
        /\ owner.phase \in {"hydrate", "missing"} => owner.rows = Rows
    BY <2>1 DEF OwnerIInv, Following
  <2>5. cursor \in Int /\ (owner # OwnerIdle => owner.through \in Int)
    BY DEF OwnerIInv, OwnerTypeOK
  <2>6. {i \in ItemsOf(Followed)' : i.seq <= cursor}
           = {i \in ItemsOf(Followed) : i.seq <= cursor}
    BY <2>1, <2>2, <2>3, <2>4, <2>5 DEF ItemsOf
  <2>7. ASSUME owner.phase \in {"hydrate", "missing"}
        PROVE  Rows' = Rows
    <3>1. owner # OwnerIdle
      BY <2>7 DEF OwnerIdle
    <3>2. Rows' = {i \in ItemsOf(Followed)' : i.seq > cursor /\ i.seq <= owner.through}
      BY <1>2 DEF Rows
    <3> QED
      BY <3>1, <3>2, <2>1, <2>2, <2>3, <2>4, <2>5 DEF ItemsOf, Rows
  <2> QED
    BY <2>2, <2>3, <2>4, <2>5, <2>6, <2>7
<1>5. Hydrating'
  <2> SUFFICES ASSUME owner # OwnerIdle
               PROVE  /\ \A i \in owner.rows : i.id <= lastItem'
                      /\ owner.files \subseteq UNION {i.refs : i \in owner.rows}
                      /\ owner.phase = "missing" => ~(owner.rows \subseteq items')
    BY <1>2 DEF Hydrating
  <2>1. /\ \A i \in items' : i.id <= lastItem => i \in items
        /\ lastItem' >= lastItem
    BY OldItems DEF OwnerIInv, IInv, Write
  <2>2. /\ lastItem \in Int /\ lastItem' \in Int
        /\ \A i \in owner.rows : i.id \in Int
    BY <1>1, BoundAssumption DEF OwnerIInv, OwnerTypeOK, IInv, TypeOK, Item
  <2>3. /\ \A i \in owner.rows : i.id <= lastItem
        /\ owner.files \subseteq UNION {i.refs : i \in owner.rows}
        /\ owner.phase = "missing" => ~(owner.rows \subseteq items)
    BY DEF OwnerIInv, Hydrating
  <2> QED
    BY <2>1, <2>2, <2>3
<1> QED
  BY <1>1, <1>3, <1>4, <1>5 DEF OwnerIInv

-----------------------------------------------------------------------------
(* The owner's client: its own steps.                                      *)

\* What a step of the client leaves as it is.
LEMMA ReadStep ==
  ASSUME OwnerIInv, UNCHANGED vars
  PROVE  /\ IInv'
         /\ ItemsOf(Followed)' = ItemsOf(Followed)
         /\ nextSeq[Followed] \in Nat \ {0}
         /\ \A i \in ItemsOf(Followed) : /\ i \in Item /\ i.seq \in Nat \ {0}
                                       /\ i.id <= lastItem
BY NextIInv, FollowerAssumption, BoundAssumption
   DEF vars, OwnerIInv, IInv, TypeOK, Item, ItemsOf, IdDiscipline

LEMMA ReplayBeginsStep ==
  ASSUME OwnerIInv, NEW asked \in 0..(MaxSeq + 1), ReplayBegins(asked)
  PROVE  OwnerIInv'
<1> DEFINE through == Reach(asked, Maximum(Followed))
<1>1. /\ UNCHANGED vars /\ UNCHANGED <<got, cursor, fresh>>
      /\ owner' = [phase |-> "rows", through |-> through, rows |-> {}, files |-> {}]
      /\ cursor <= through
  BY BoundAssumption DEF ReplayBegins, OwnerIInv, OwnerTypeOK
<1>2. IInv' /\ ItemsOf(Followed)' = ItemsOf(Followed) /\ nextSeq[Followed] \in Nat \ {0}
  BY <1>1, ReadStep
<1>3. through \in Nat /\ through < nextSeq[Followed]
  BY <1>2, BoundAssumption DEF Reach, Maximum
<1> HIDE DEF through
<1>4. /\ owner'.phase = "rows" /\ owner'.through = through
      /\ owner'.rows = {} /\ owner'.files = {}
  BY <1>1
<1>5. OwnerTypeOK'
  BY <1>1, <1>3 DEF OwnerIInv, OwnerTypeOK
<1>6. Following'
  BY <1>1, <1>2, <1>3, <1>4 DEF OwnerIInv, Following, vars
<1>7. Hydrating'
  BY <1>4 DEF Hydrating
<1> QED
  BY <1>2, <1>5, <1>6, <1>7 DEF OwnerIInv

LEMMA ReplayReadsStep ==
  ASSUME OwnerIInv, NEW preserve \in BOOLEAN, ReplayReads(preserve)
  PROVE  OwnerIInv'
<1> DEFINE files == IF preserve THEN {} ELSE UNION {i.refs : i \in Rows}
<1>1. /\ UNCHANGED vars /\ UNCHANGED <<got, cursor, fresh>>
      /\ owner.phase = "rows"
      /\ owner' = [owner EXCEPT !.phase = "hydrate", !.rows = Rows, !.files = files]
  BY DEF ReplayReads
<1>2. /\ IInv' /\ ItemsOf(Followed)' = ItemsOf(Followed)
      /\ \A i \in ItemsOf(Followed) : i \in Item /\ i.id <= lastItem
  BY <1>1, ReadStep
<1>3. /\ owner \in [phase: {"rows", "hydrate", "missing"}, through: Nat,
                    rows: SUBSET Item, files: SUBSET File]
      /\ owner # OwnerIdle
  BY <1>1 DEF OwnerIInv, OwnerTypeOK, OwnerIdle
<1>4. Rows \subseteq Item /\ files \subseteq File
      /\ files \subseteq UNION {i.refs : i \in Rows}
  BY <1>2 DEF Rows, Item
<1> HIDE DEF files
<1>5. /\ owner'.phase = "hydrate" /\ owner'.through = owner.through
      /\ owner'.rows = Rows /\ owner'.files = files
  BY <1>1, <1>3
<1>6. OwnerTypeOK'
  BY <1>1, <1>3, <1>4 DEF OwnerIInv, OwnerTypeOK
<1>7. Rows' = Rows
  BY <1>1, <1>2, <1>5 DEF Rows
<1>8. Following'
  BY <1>1, <1>2, <1>3, <1>5, <1>7 DEF OwnerIInv, Following, vars
<1>9. Hydrating'
  BY <1>1, <1>2, <1>4, <1>5 DEF Hydrating, Rows, vars
<1> QED
  BY <1>2, <1>6, <1>8, <1>9 DEF OwnerIInv

\* A file that is gone was not referred to any more.
LEMMA HydrateStep ==
  ASSUME OwnerIInv, NEW f \in File, HydrateFile(f)
  PROVE  OwnerIInv'
<1>1. /\ UNCHANGED vars /\ UNCHANGED <<got, cursor, fresh>>
      /\ owner.phase = "hydrate" /\ f \in owner.files
      /\ owner' = IF Live(f) THEN [owner EXCEPT !.files = @ \ {f}]
                  ELSE [owner EXCEPT !.phase = "missing"]
  BY DEF HydrateFile
<1>2. IInv' /\ ItemsOf(Followed)' = ItemsOf(Followed)
  BY <1>1, ReadStep
<1>3. /\ owner \in [phase: {"rows", "hydrate", "missing"}, through: Nat,
                    rows: SUBSET Item, files: SUBSET File]
      /\ owner # OwnerIdle
  BY <1>1 DEF OwnerIInv, OwnerTypeOK, OwnerIdle
<1>4. /\ owner'.phase \in {"hydrate", "missing"}
      /\ owner'.phase = "missing" => ~Live(f)
      /\ owner'.through = owner.through /\ owner'.rows = owner.rows
      /\ owner'.files \subseteq owner.files
  BY <1>1, <1>3
<1>5. OwnerTypeOK'
  BY <1>1, <1>3 DEF OwnerIInv, OwnerTypeOK
<1>6. Rows' = Rows
  BY <1>1, <1>2, <1>4 DEF Rows
<1>7. Following'
  BY <1>1, <1>2, <1>3, <1>4, <1>6 DEF OwnerIInv, Following, vars
<1>8. ~Live(f) => ~(owner.rows \subseteq items)
  BY <1>1, <1>3 DEF OwnerIInv, Hydrating, IInv, FilesResolve
<1>9. Hydrating'
  BY <1>1, <1>3, <1>4, <1>8 DEF OwnerIInv, Hydrating, vars
<1> QED
  BY <1>2, <1>5, <1>7, <1>9 DEF OwnerIInv

LEMMA ReplayAnswersStep ==
  ASSUME OwnerIInv, ReplayAnswers
  PROVE  OwnerIInv'
<1>1. /\ UNCHANGED vars /\ fresh' = fresh
      /\ owner.phase = "hydrate" /\ owner' = OwnerIdle
      /\ got' = got \cup owner.rows /\ cursor' = owner.through
  BY DEF ReplayAnswers
<1>2. /\ IInv' /\ ItemsOf(Followed)' = ItemsOf(Followed)
      /\ \A i \in ItemsOf(Followed) : i.seq \in Nat \ {0}
  BY <1>1, ReadStep
<1>3. /\ owner \in [phase: {"rows", "hydrate", "missing"}, through: Nat,
                    rows: SUBSET Item, files: SUBSET File]
      /\ owner # OwnerIdle /\ owner'.phase \notin {"hydrate", "missing"}
      /\ cursor \in Nat
  BY <1>1 DEF OwnerIInv, OwnerTypeOK, OwnerIdle
<1>4. OwnerTypeOK'
  BY <1>1, <1>3 DEF OwnerIInv, OwnerTypeOK
<1>5. fresh => got' = {i \in ItemsOf(Followed) : i.seq <= owner.through}
  BY <1>1, <1>2, <1>3 DEF OwnerIInv, Following, Rows
<1>6. Following'
  BY <1>1, <1>2, <1>3, <1>5 DEF OwnerIInv, Following, vars
<1>7. Hydrating'
  BY <1>1 DEF Hydrating
<1> QED
  BY <1>2, <1>4, <1>6, <1>7 DEF OwnerIInv

LEMMA ReplayEndsStep ==
  ASSUME OwnerIInv, ReplayEnds
  PROVE  OwnerIInv'
<1>1. /\ UNCHANGED vars /\ UNCHANGED <<got, cursor, fresh>>
      /\ owner' = OwnerIdle /\ owner'.phase \notin {"hydrate", "missing"}
  BY DEF ReplayEnds, OwnerIdle
<1>2. IInv' /\ ItemsOf(Followed)' = ItemsOf(Followed)
  BY <1>1, ReadStep
<1> QED
  BY <1>1, <1>2
     DEF OwnerIInv, OwnerTypeOK, Following, Hydrating, vars

\* There are finitely many items: their ids are distinct.
LEMMA ItemsFinite ==
  ASSUME IInv
  PROVE  IsFiniteSet(items)
<1> DEFINE id == [i \in items |-> i.id]
<1>1. id \in [items -> 1..MaxItems]
  BY DEF IInv, TypeOK, Item
<1>2. \A i, j \in items : id[i] = id[j] => i = j
  BY DEF IInv, IdDiscipline
<1> HIDE DEF id
<1>3. id \in Injection(items, 1..MaxItems)
  BY <1>1, <1>2, Fun_IsInj
<1>4. IsFiniteSet(1..MaxItems)
  BY FS_Interval, BoundAssumption
<1> QED
  BY <1>3, <1>4, FS_Injection

\* A page leaves out no item below one that is in it.
LEMMA PageClosed ==
  ASSUME NEW rest, IsFiniteSet(rest), \A i \in rest : i.seq \in Int,
         NEW page \in Page(rest), NEW i \in page, NEW k \in rest, k.seq <= i.seq
  PROVE  k \in page
<1> DEFINE below(x) == {j \in rest : j.seq <= x.seq}
<1>1. page = {x \in rest : Cardinality(below(x)) <= PageLimit}
  BY DEF Page
<1>2. i \in rest /\ Cardinality(below(i)) <= PageLimit
  BY <1>1
<1>3. below(k) \subseteq below(i) /\ below(i) \subseteq rest
  BY <1>2
<1>4. IsFiniteSet(below(i))
  BY <1>3, FS_Subset
<1>5. IsFiniteSet(below(k)) /\ Cardinality(below(k)) <= Cardinality(below(i))
  BY <1>3, <1>4, FS_Subset
<1>6. Cardinality(below(i)) \in Int /\ Cardinality(below(k)) \in Int
  BY <1>4, <1>5, FS_CardinalityType
<1>7. Cardinality(below(k)) <= PageLimit
  BY <1>2, <1>5, <1>6, FollowerAssumption
<1> QED
  BY <1>1, <1>7

LEMMA ListItemsStep ==
  ASSUME OwnerIInv, ListItems
  PROVE  OwnerIInv'
<1> DEFINE rest == {i \in ItemsOf(Followed) : i.seq > cursor}
<1>0. PICK page \in Page(rest) :
        /\ got' = got \cup page
        /\ \E i \in page : (\A j \in page : j.seq <= i.seq) /\ cursor' = i.seq
  BY DEF ListItems
<1>1. PICK i \in page : (\A j \in page : j.seq <= i.seq) /\ cursor' = i.seq
  BY <1>0
<1>2. UNCHANGED vars /\ UNCHANGED <<owner, fresh>> /\ owner = OwnerIdle
  BY DEF ListItems
<1>3. /\ IInv' /\ ItemsOf(Followed)' = ItemsOf(Followed)
      /\ \A j \in ItemsOf(Followed) : j \in Item /\ j.seq \in Nat \ {0}
  BY <1>2, ReadStep
<1>4. IsFiniteSet(rest)
  BY ItemsFinite, FS_Subset DEF OwnerIInv, ItemsOf
<1>5. page \subseteq rest
  BY DEF Page
<1>6. ASSUME NEW k \in rest, k.seq <= i.seq
      PROVE  k \in page
  BY <1>3, <1>4, <1>6, PageClosed
<1>7. owner.phase \notin {"hydrate", "missing"}
  BY <1>2 DEF OwnerIdle
<1>8. OwnerTypeOK'
  BY <1>0, <1>1, <1>2, <1>3, <1>5 DEF OwnerIInv, OwnerTypeOK
<1>9. Following'
  <2> SUFFICES ASSUME fresh
               PROVE  /\ got' = {k \in ItemsOf(Followed) : k.seq <= i.seq}
                      /\ i.seq < nextSeq[Followed]
    BY <1>1, <1>2, <1>3, <1>7 DEF Following, vars
  <2>1. got = {k \in ItemsOf(Followed) : k.seq <= cursor}
    BY DEF OwnerIInv, Following
  <2>2. cursor \in Nat /\ i.seq > cursor /\ i \in ItemsOf(Followed)
    BY <1>5 DEF OwnerIInv, OwnerTypeOK
  <2>3. i.seq < nextSeq[Followed]
    BY <2>2 DEF OwnerIInv, IInv, SequenceDiscipline, ItemsOf
  <2>4. ASSUME NEW k \in got'
        PROVE  k \in ItemsOf(Followed) /\ k.seq <= i.seq
    BY <1>0, <1>1, <1>3, <1>5, <2>1, <2>2
  <2>5. ASSUME NEW k \in ItemsOf(Followed), k.seq <= i.seq
        PROVE  k \in got'
    BY <1>0, <1>3, <1>6, <2>1, <2>2, <2>5
  <2> QED
    BY <2>3, <2>4, <2>5
<1>10. Hydrating'
  BY <1>2 DEF Hydrating
<1> QED
  BY <1>3, <1>8, <1>9, <1>10 DEF OwnerIInv

\* What the client has been given and what its replay holds fits the ledger in
\* every reachable state.
THEOREM OwnerInductive == OwnerSpec => []OwnerIInv
<1>1. ASSUME OwnerIInv, [OwnerNext]_allOwnerVars
      PROVE  OwnerIInv'
  <2>1. CASE UNCHANGED allOwnerVars
    <3>1. IInv' /\ UNCHANGED vars /\ UNCHANGED ownerVars
      BY <2>1, <1>1, NextIInv DEF OwnerIInv, allOwnerVars
    <3> QED
      BY <1>1, <3>1
         DEF OwnerIInv, OwnerTypeOK, Following, Hydrating, ItemsOf, Rows,
             ownerVars, vars
  <2> QED
    BY <1>1, <2>1, WriteStep, ReplayBeginsStep, ReplayReadsStep, HydrateStep,
       ReplayAnswersStep, ReplayEndsStep, ListItemsStep DEF OwnerNext, OwnerRead
<1>2. OwnerIInv /\ [OwnerNext]_allOwnerVars => OwnerIInv'
  BY <1>1
<1> QED
  BY <1>2, OwnerInitIInv, PTL DEF OwnerSpec

\* The files of the items a replay reads are there, with the readers of this
\* module next to the writers.
THEOREM OwnerFilesResolve == OwnerSpec => []FilesResolve
<1>1. OwnerIInv => FilesResolve
  BY DEF OwnerIInv, IInv
<1> QED
  BY <1>1, OwnerInductive, PTL

\* A client that follows a transcript, by replays and by pages, holds exactly
\* what lies up to its cursor unless items were deleted since it began,
\* although replay reads next_seq and the items in two statements.
THEOREM FollowerMissesNothing == OwnerSpec => []FollowerComplete
<1>1. OwnerIInv => FollowerComplete
  BY DEF OwnerIInv, Following, FollowerComplete
<1> QED
  BY <1>1, OwnerInductive, PTL

\* A replay is answered 404 for a file only when one of the items it read has
\* been deleted since.
THEOREM HydrationSound == OwnerSpec => []HydrationResolves
<1>1. OwnerIInv => HydrationResolves
  BY DEF OwnerIInv, Hydrating, HydrationResolves, OwnerIdle
<1> QED
  BY <1>1, OwnerInductive, PTL

-----------------------------------------------------------------------------
(* Agent replays: the inductive invariant.                                 *)

AgentTypeOK ==
  /\ agent # AgentIdle =>
       agent \in [phase: {"check", "rows"}, start: Start, view: SUBSET Item,
                 ordered: BOOLEAN]
  /\ replays \subseteq [start: Start, input: SUBSET Item, ordered: BOOLEAN]

\* Input is what the agent of s would be answered now, if it would be answered
\* and the turns have committed in order.
Current(s, input) ==
  Intact(s) /\ CommittedInOrder(s.conv) => input = AgentContext(s)

\* The view of a request is a state of the items, checked before it is used; a
\* complete one agrees with what was answered before.
ViewSound ==
  agent # AgentIdle =>
    /\ agent.start \in starts
    /\ \A i, j \in agent.view : i.conv = j.conv /\ i.seq = j.seq => i = j
    /\ agent.phase = "rows" => SnapshotComplete(agent.start, agent.view)
    /\ Current(agent.start, Through(agent.start, agent.view))
    /\ SnapshotComplete(agent.start, agent.view) /\ agent.ordered =>
         \A b \in replays : b.start = agent.start =>
           b.input = Through(agent.start, agent.view)

AnswersCurrent ==
  \A a \in replays : a.start \in starts /\ Current(a.start, a.input)

AgentIInv ==
  /\ IInv /\ AgentTypeOK /\ ViewSound /\ AnswersCurrent
  /\ AgentAnswersComplete /\ AgentAnswersAgree

LEMMA AgentInitIInv == AgentInit => AgentIInv
BY InitIInv
   DEF AgentInit, AgentBegins, AgentIInv, AgentTypeOK, ViewSound, AnswersCurrent,
       AgentAnswersComplete, AgentAnswersAgree

-----------------------------------------------------------------------------
(* Agent replays: a write between two statements.                          *)

\* Turns that are in order now were in order before.
LEMMA OrderedBefore ==
  ASSUME IInv, [Next]_vars, NEW c \in Conv, conv[c] = "live", conv'[c] = "live",
         CommittedInOrder(c)'
  PROVE  CommittedInOrder(c)
<1> SUFFICES ASSUME NEW t \in turns, NEW u \in turns, t.conv = c, u.conv = c,
                    t.id < u.id
             PROVE  t.created < u.created
  BY DEF CommittedInOrder, TurnsOf
<1>1. PICK v \in turns' : v.id = t.id /\ v.conv = c /\ v.created = t.created
  BY TurnsPersist DEF IInv
<1>2. PICK w \in turns' : w.id = u.id /\ w.conv = c /\ w.created = u.created
  BY TurnsPersist DEF IInv
<1>3. v \in TurnsOf(c)' /\ w \in TurnsOf(c)'
  BY <1>1, <1>2 DEF TurnsOf
<1> QED
  BY <1>1, <1>2, <1>3 DEF CommittedInOrder

\* What was the context of a start still is, unless the start was lost.
LEMMA CurrentStep ==
  ASSUME IInv, [Next]_vars, NEW s \in starts, NEW input, Current(s, input)
  PROVE  Current(s, input)'
<1> SUFFICES ASSUME Intact(s)', CommittedInOrder(s.conv)'
             PROVE  input = AgentContext(s)'
  BY DEF Current
<1>1. Intact(s)
  BY LostStaysLost DEF IInv
<1>2. s.conv \in Conv /\ conv[s.conv] = "live" /\ conv'[s.conv] = "live"
  BY <1>1 DEF IInv, TypeOK, Start, Intact
<1>3. CommittedInOrder(s.conv)
  BY <1>2, OrderedBefore
<1>4. AgentContext(s)' = AgentContext(s)
  BY <1>1, <1>3, ContextInOrder
<1> QED
  BY <1>1, <1>3, <1>4 DEF Current

LEMMA AgentWriteStep ==
  ASSUME AgentIInv, [Next]_vars, UNCHANGED agentVars
  PROVE  AgentIInv'
<1>1. IInv'
  BY NextIInv DEF AgentIInv
<1>2. agent' = agent /\ replays' = replays
  BY DEF agentVars
<1>3. starts \subseteq starts'
  BY StartSteps DEF AgentIInv, IInv
<1>4. AgentTypeOK' /\ AgentAnswersComplete' /\ AgentAnswersAgree'
  BY <1>2 DEF AgentIInv, AgentTypeOK, AgentAnswersComplete, AgentAnswersAgree
<1>5. AnswersCurrent'
  <2> SUFFICES ASSUME NEW a \in replays
               PROVE  a.start \in starts' /\ Current(a.start, a.input)'
    BY <1>2 DEF AnswersCurrent
  <2>1. a.start \in starts /\ Current(a.start, a.input)
    BY DEF AgentIInv, AnswersCurrent
  <2> QED
    BY <1>3, <2>1, CurrentStep DEF AgentIInv
<1>6. ViewSound'
  <2> SUFFICES ASSUME agent # AgentIdle
               PROVE  ViewSound'
    BY <1>2 DEF ViewSound
  <2>1. PICK s \in starts : s = agent.start
    BY DEF AgentIInv, ViewSound
  <2>2. PICK input : input = Through(agent.start, agent.view)
    OBVIOUS
  <2>3. Current(s, input)
    BY <2>1, <2>2 DEF AgentIInv, ViewSound
  <2>4. Current(s, input)'
    BY <2>3, CurrentStep DEF AgentIInv
  <2>5. /\ s = agent'.start /\ input = Through(agent'.start, agent'.view)
        /\ Through(agent.start, agent.view)' = input
    BY <1>2, <2>1, <2>2 DEF Through
  <2>6. Current(agent.start, Through(agent.start, agent.view))'
    BY <2>4, <2>5 DEF Current, Intact, CommittedInOrder, AgentContext, Between,
                      ItemsOf, TurnsOf
  <2>7. SnapshotComplete(agent.start, agent.view)'
          <=> SnapshotComplete(agent.start, agent.view)
    BY <1>2 DEF SnapshotComplete
  <2> QED
    BY <1>2, <1>3, <2>1, <2>2, <2>5, <2>6, <2>7 DEF AgentIInv, ViewSound
<1> QED
  BY <1>1, <1>4, <1>5, <1>6 DEF AgentIInv

-----------------------------------------------------------------------------
(* Agent replays: the statements of the request.                           *)

\* The items at one moment are complete for a start that is intact then.
LEMMA CompleteIntact ==
  ASSUME IInv, NEW s \in starts, conv[s.conv] = "live",
         SnapshotComplete(s, items)
  PROVE  Intact(s)
<1>1. {ch.seq : ch \in s.children} = s.first..s.last
  BY DEF IInv, StartsRecorded
<1> QED
  BY <1>1 DEF Intact, SnapshotComplete

\* What lies at or below the boundary is the context.
LEMMA ThroughItems ==
  ASSUME IInv, NEW s \in starts
  PROVE  Through(s, items) = AgentContext(s)
<1>1. s.last \in Int /\ \A i \in items : i.seq \in 1..MaxSeq
  BY BoundAssumption DEF IInv, TypeOK, Start, Item
<1> QED
  BY <1>1, BoundAssumption DEF Through, AgentContext, Between, ItemsOf

LEMMA ReadBoundaryStep ==
  ASSUME AgentIInv, NEW s \in starts, ReadBoundary(s)
  PROVE  AgentIInv'
<1>1. /\ UNCHANGED vars /\ replays' = replays /\ conv[s.conv] = "live"
      /\ agent' = [phase |-> "check", start |-> s, view |-> items,
                   ordered |-> CommittedInOrder(s.conv)]
  BY DEF ReadBoundary
<1>2. IInv'
  BY <1>1, NextIInv DEF AgentIInv
<1>3. /\ agent'.phase = "check" /\ agent'.start = s /\ agent'.view = items
      /\ agent'.ordered = CommittedInOrder(s.conv)
  BY <1>1
<1>4. s \in Start /\ items \subseteq Item /\ CommittedInOrder(s.conv) \in BOOLEAN
  BY DEF AgentIInv, IInv, TypeOK, CommittedInOrder
<1>5. AgentTypeOK'
  BY <1>1, <1>4 DEF AgentIInv, AgentTypeOK
<1>6. AgentAnswersComplete' /\ AgentAnswersAgree' /\ AnswersCurrent'
  BY <1>1 DEF AgentIInv, AgentAnswersComplete, AgentAnswersAgree, AnswersCurrent,
              Current, Intact, CommittedInOrder, AgentContext, Between, ItemsOf,
              TurnsOf, vars
<1>7. Through(s, items) = AgentContext(s)
  BY ThroughItems DEF AgentIInv
<1>8. ASSUME SnapshotComplete(s, items), CommittedInOrder(s.conv),
             NEW b \in replays, b.start = s
      PROVE  b.input = AgentContext(s)
  <2>1. Intact(s)
    BY <1>1, <1>8, CompleteIntact DEF AgentIInv
  <2> QED
    BY <1>8, <2>1 DEF AgentIInv, AnswersCurrent, Current
<1>9. Current(s, Through(s, items))'
  BY <1>1, <1>7 DEF vars, Through, Current, Intact, CommittedInOrder,
                    AgentContext, Between, ItemsOf, TurnsOf
<1>10. Current(agent.start, Through(agent.start, agent.view))'
  BY <1>1, <1>3, <1>9 DEF vars, Through, Current, Intact, CommittedInOrder,
                          AgentContext, Between, ItemsOf, TurnsOf
<1>11. \A i, j \in items : i.conv = j.conv /\ i.seq = j.seq => i = j
  BY DEF AgentIInv, IInv, SequenceDiscipline
<1>12. /\ SnapshotComplete(agent.start, agent.view)' <=> SnapshotComplete(s, items)
       /\ Through(agent.start, agent.view)' = Through(s, items)
  BY <1>3 DEF SnapshotComplete, Through
<1>13. ViewSound'
  BY <1>1, <1>3, <1>7, <1>8, <1>10, <1>11, <1>12 DEF ViewSound, vars
<1> QED
  BY <1>2, <1>5, <1>6, <1>13 DEF AgentIInv

\* A step of the request alone leaves what was answered current.
LEMMA AgentReadStep ==
  ASSUME AgentIInv, UNCHANGED vars
  PROVE  /\ IInv'
         /\ \A s, input : Current(s, input)' <=> Current(s, input)
         /\ starts' = starts
<1>1. IInv'
  BY NextIInv DEF AgentIInv
<1>2. \A s, input : Current(s, input)' <=> Current(s, input)
  BY DEF vars, Current, Intact, CommittedInOrder, AgentContext, Between,
         ItemsOf, TurnsOf
<1> QED
  BY <1>1, <1>2 DEF vars

LEMMA CheckSnapshotStep ==
  ASSUME AgentIInv, CheckSnapshot
  PROVE  AgentIInv'
<1>1. /\ UNCHANGED vars /\ replays' = replays /\ agent.phase = "check"
      /\ \/ agent' = AgentIdle
         \/ /\ SnapshotComplete(agent.start, agent.view)
            /\ agent' = [agent EXCEPT !.phase = "rows"]
  BY DEF CheckSnapshot, Snapshot
<1>2. /\ IInv' /\ starts' = starts
      /\ \A s, input : Current(s, input)' <=> Current(s, input)
  BY <1>1, AgentReadStep
<1>3. AgentAnswersComplete' /\ AgentAnswersAgree'
  BY <1>1 DEF AgentIInv, AgentAnswersComplete, AgentAnswersAgree
<1>4. AnswersCurrent'
  BY <1>1, <1>2 DEF AgentIInv, AnswersCurrent
<1>5. CASE agent' = AgentIdle
  BY <1>1, <1>2, <1>3, <1>4, <1>5 DEF AgentIInv, AgentTypeOK, ViewSound
<1>6. CASE /\ SnapshotComplete(agent.start, agent.view)
           /\ agent' = [agent EXCEPT !.phase = "rows"]
  <2>1. /\ agent # AgentIdle
        /\ agent \in [phase: {"check", "rows"}, start: Start, view: SUBSET Item,
                     ordered: BOOLEAN]
    BY <1>1 DEF AgentIInv, AgentTypeOK, AgentIdle
  <2>2. /\ agent'.phase = "rows" /\ agent'.start = agent.start
        /\ agent'.view = agent.view /\ agent'.ordered = agent.ordered
        /\ agent' \in [phase: {"check", "rows"}, start: Start, view: SUBSET Item,
                      ordered: BOOLEAN]
    BY <1>6, <2>1
  <2>3. AgentTypeOK'
    BY <1>1, <2>2 DEF AgentIInv, AgentTypeOK
  <2>4. PICK s, input : /\ s = agent.start /\ input = Through(agent.start, agent.view)
                        /\ s = agent'.start
                        /\ input = Through(agent.start, agent.view)'
    BY <2>2 DEF Through
  <2>5. Current(s, input)'
    BY <1>2, <2>1, <2>4 DEF AgentIInv, ViewSound
  <2>6. Current(agent.start, Through(agent.start, agent.view))'
    BY <2>4, <2>5 DEF Current, Intact, CommittedInOrder, AgentContext, Between,
                      ItemsOf, TurnsOf
  <2>7. SnapshotComplete(agent.start, agent.view)'
          <=> SnapshotComplete(agent.start, agent.view)
    BY <2>2 DEF SnapshotComplete
  <2>8. ViewSound'
    BY <1>1, <1>2, <1>6, <2>1, <2>2, <2>4, <2>6, <2>7 DEF AgentIInv, ViewSound
  <2> QED
    BY <1>2, <1>3, <1>4, <2>3, <2>8 DEF AgentIInv
<1> QED
  BY <1>1, <1>5, <1>6

LEMMA AnswerReplayStep ==
  ASSUME AgentIInv, AnswerReplay
  PROVE  AgentIInv'
<1> DEFINE view == agent.view
<1>1. PICK s, input, ordered :
        /\ s = agent.start /\ input = Through(agent.start, agent.view)
        /\ ordered = agent.ordered
  OBVIOUS
<1> DEFINE new == [start |-> s, input |-> input, ordered |-> ordered]
<1>2. /\ UNCHANGED vars /\ agent.phase = "rows" /\ agent' = AgentIdle
      /\ replays' = replays \cup {new}
      /\ \A i \in input : i.refs = {}
  BY <1>1 DEF AnswerReplay, Snapshot, Supported
<1>3. /\ IInv' /\ starts' = starts
      /\ \A x, y : Current(x, y)' <=> Current(x, y)
  BY <1>2, AgentReadStep
<1>4. /\ agent # AgentIdle
      /\ agent \in [phase: {"check", "rows"}, start: Start, view: SUBSET Item,
                   ordered: BOOLEAN]
  BY <1>2 DEF AgentIInv, AgentTypeOK, AgentIdle
<1>5. /\ s \in starts /\ SnapshotComplete(s, view) /\ Current(s, input)
      /\ \A i, j \in view : i.conv = j.conv /\ i.seq = j.seq => i = j
      /\ ordered => \A b \in replays : b.start = s => b.input = input
  BY <1>1, <1>2, <1>4 DEF AgentIInv, ViewSound
<1>6. input = {i \in view : i.conv = s.conv /\ i.seq <= s.last}
  BY <1>1 DEF Through
<1>7. new.start = s /\ new.input = input /\ new.ordered = ordered
  OBVIOUS
<1>8. new \in [start: Start, input: SUBSET Item, ordered: BOOLEAN]
  BY <1>1, <1>4, <1>6
<1> HIDE DEF new
<1>9. AgentTypeOK'
  BY <1>2, <1>8 DEF AgentIInv, AgentTypeOK
<1>10. ViewSound'
  BY <1>2 DEF ViewSound
<1>11. AnswersCurrent'
  BY <1>2, <1>3, <1>5, <1>7 DEF AgentIInv, AnswersCurrent
<1>12. {ch.id : ch \in s.children} \subseteq {i.id : i \in input}
  <2> SUFFICES ASSUME NEW ch \in s.children
               PROVE  \E i \in input : i.id = ch.id
    OBVIOUS
  <2>1. PICK i \in view : i.id = ch.id /\ i.seq = ch.seq /\ i.conv = s.conv
    BY <1>5 DEF SnapshotComplete
  <2>2. s.first \in Int /\ s.last \in Int /\ ch.seq \in s.first..s.last
    BY <1>5, BoundAssumption DEF AgentIInv, IInv, TypeOK, Start, StartsRecorded
  <2> QED
    BY <1>6, <2>1, <2>2
<1>13. AgentAnswersComplete'
  BY <1>2, <1>5, <1>6, <1>7, <1>12 DEF AgentIInv, AgentAnswersComplete
<1>14. AgentAnswersAgree'
  BY <1>2, <1>5, <1>7 DEF AgentIInv, AgentAnswersAgree
<1> QED
  BY <1>3, <1>9, <1>10, <1>11, <1>13, <1>14 DEF AgentIInv

LEMMA EndReplayStep ==
  ASSUME AgentIInv, EndReplay
  PROVE  AgentIInv'
<1>1. UNCHANGED vars /\ agent' = AgentIdle /\ replays' = replays
  BY DEF EndReplay
<1>2. /\ IInv' /\ starts' = starts
      /\ \A s, input : Current(s, input)' <=> Current(s, input)
  BY <1>1, AgentReadStep
<1>3. AnswersCurrent'
  BY <1>1, <1>2 DEF AgentIInv, AnswersCurrent
<1> QED
  BY <1>1, <1>2, <1>3 DEF AgentIInv, AgentTypeOK, ViewSound,
                          AgentAnswersComplete, AgentAnswersAgree

\* The view of a request and all answers fit the ledger in every reachable
\* state.
THEOREM AgentInductive == AgentSpec => []AgentIInv
<1>1. ASSUME AgentIInv, [AgentNext]_allAgentVars
      PROVE  AgentIInv'
  <2>1. CASE UNCHANGED allAgentVars
    BY <1>1, <2>1, AgentWriteStep DEF allAgentVars
  <2>2. CASE Next /\ UNCHANGED agentVars
    BY <1>1, <2>2, AgentWriteStep
  <2> QED
    BY <1>1, <2>1, <2>2, ReadBoundaryStep, CheckSnapshotStep, AnswerReplayStep,
       EndReplayStep DEF AgentNext, AgentRead
<1>2. AgentIInv /\ [AgentNext]_allAgentVars => AgentIInv'
  BY <1>1
<1> QED
  BY <1>2, AgentInitIInv, PTL DEF AgentSpec

\* An answered agent replay holds the whole triggering batch, one item for each
\* position, nothing above the boundary and no file, whatever was written
\* between its statements.
THEOREM AgentComplete == AgentSpec => []AgentAnswersComplete
<1>1. AgentIInv => AgentAnswersComplete
  BY DEF AgentIInv
<1> QED
  BY <1>1, AgentInductive, PTL

\* An agent that asks again is answered the same context, if the turns of the
\* conversation committed in the order in which they began.
THEOREM AgentAgree == AgentSpec => []AgentAnswersAgree
<1>1. AgentIInv => AgentAnswersAgree
  BY DEF AgentIInv
<1> QED
  BY <1>1, AgentInductive, PTL

-----------------------------------------------------------------------------
(* The readers next to the single statements of the transactions.  Only    *)
(* what a transaction commits is in the tables they read.                  *)

OwnerReads == OwnerBegins /\ [][Unseen \/ OwnerRead]_allOwnerVars
AgentReads == AgentBegins /\ [][UNCHANGED agentVars \/ AgentRead]_allAgentVars

\* Next to the statements of LedgerTx a client that follows a conversation
\* sees what it could see if every transaction were one step: it misses
\* nothing, and no reference that stands is refused.
THEOREM OwnerBesideStatements ==
  TxSpec /\ OwnerReads =>
    OwnerSpec /\ []FollowerComplete /\ []HydrationResolves
<1>1. OwnerBegins => fresh \in BOOLEAN
  BY DEF OwnerBegins
<1>2. fresh \in BOOLEAN /\ [Unseen \/ OwnerRead]_allOwnerVars => (fresh \in BOOLEAN)'
  <2>1. Unseen => fresh' \in BOOLEAN
    BY Zenon DEF Unseen
  <2>2. OwnerRead => UNCHANGED fresh
    BY Zenon DEF OwnerRead, ReplayBegins, ReplayReads, HydrateFile, ReplayAnswers,
                 ReplayEnds, ListItems
  <2>3. UNCHANGED allOwnerVars => UNCHANGED fresh
    BY DEF allOwnerVars, ownerVars
  <2> QED
    BY <2>1, <2>2, <2>3
<1>3. fresh \in BOOLEAN /\ [Next]_vars /\ [Unseen \/ OwnerRead]_allOwnerVars =>
        [OwnerNext]_allOwnerVars
  <2> SUFFICES ASSUME fresh \in BOOLEAN, [Next]_vars, Unseen, UNCHANGED vars
               PROVE  UNCHANGED allOwnerVars
    BY DEF OwnerNext, Write
  <2>1. items' = items
    BY DEF vars
  <2>2. fresh' = fresh
    BY <2>1 DEF Unseen, ItemsOf
  <2> QED
    BY <2>2 DEF Unseen, allOwnerVars, ownerVars
<1>4. OwnerBegins /\ Init => OwnerInit
  BY DEF OwnerInit
<1> QED
  BY <1>1, <1>2, <1>3, <1>4, TransactionsImplement, FollowerMissesNothing,
     HydrationSound, PTL DEF OwnerReads, OwnerSpec, Spec

\* Next to the statements of LedgerTx an agent's answers are complete, and
\* agree when it asks again.
THEOREM AgentBesideStatements ==
  TxSpec /\ AgentReads =>
    AgentSpec /\ []AgentAnswersComplete /\ []AgentAnswersAgree
<1>1. [Next]_vars /\ [UNCHANGED agentVars \/ AgentRead]_allAgentVars =>
        [AgentNext]_allAgentVars
  BY DEF AgentNext, allAgentVars
<1>2. AgentBegins /\ Init => AgentInit
  BY DEF AgentInit
<1> QED
  BY <1>1, <1>2, TransactionsImplement, AgentComplete, AgentAgree, PTL
     DEF AgentReads, AgentSpec, Spec

-----------------------------------------------------------------------------
(* Rows and objects behind the references of transcripts and turns.        *)

\* A step of the whole is a step of the ledger, of the saves and of the
\* uploads, or leaves them alone.
LEMMA RefStep ==
  [RefNext]_refVars => [Next]_vars /\ [F!Next]_F!vars /\ [U!Next]_U!vars
<1>1. TableStep => [Next]_vars
  BY DEF TableStep, Next
<1>2. UNCHANGED sentVars => UNCHANGED F!vars
  BY DEF sentVars, F!vars, F!rowVars
<1>3. UNCHANGED uploadedVars => UNCHANGED U!vars
  BY DEF uploadedVars, U!vars, U!rowVars, U!uploadVars, U!sessionVars, U!formVars,
         U!attemptVars, U!outboxVars, U!passVars
<1>4. UNCHANGED refVars => UNCHANGED <<vars, sentVars, uploadedVars>>
  BY DEF refVars
<1> QED
  BY <1>1, <1>2, <1>3, <1>4 DEF RefNext, Elsewhere, ObjectStep

\* Nothing is referred to before it is answered, and an answer stands.
LEMMA NamesKnownStep ==
  ASSUME NamesKnown, F!TypeOK, [RefNext]_refVars
  PROVE  NamesKnown'
<1>1. CASE NamesKnown'
  BY <1>1
<1>2. CASE UNCHANGED <<items, turns>>
  <2>1. ASSUME NEW f \in Sent, saving[f] = "answered"
        PROVE  saving'[f] = "answered"
    <3>1. [F!Next]_F!vars
      BY RefStep
    <3> QED
      BY <2>1, <3>1, F!AnsweredStays, PartsAssumption
         DEF F!RowAssumption, F!KeyAssumption
  <2> QED
    BY <1>2, <2>1 DEF NamesKnown, Referenced
<1>3. TableStep => UNCHANGED <<items, turns>>
  BY DEF TableStep, SaveFile, RemoveFile, vars
<1>4. UNCHANGED refVars => UNCHANGED <<items, turns>>
  BY DEF refVars, vars
<1> QED
  BY <1>1, <1>2, <1>3, <1>4 DEF RefNext, Elsewhere, ObjectStep

\* The three parts keep, each next to the other two, what was proved of each.
THEOREM PartsKept == RefSpec => Spec /\ [](F!IInv /\ U!IInv)
<1>1. RefInit => Init /\ F!IInv /\ U!Init
  BY F!InitIInv, PartsAssumption DEF RefInit
<1>2. F!IInv /\ [F!Next]_F!vars => F!IInv'
  BY F!NextIInv, PartsAssumption
<1>3. U!Spec => []U!IInv
  BY U!Inductive, PartsAssumption
<1> QED
  BY <1>1, <1>2, <1>3, RefStep, PTL DEF RefSpec, Spec, U!Spec

\* Whatever a transcript or a turn refers to has its row and its object.
THEOREM ReferencesKept == RefSpec => []ReferencesReadable
<1>1. RefInit => OneTable /\ NamesKnown
  <2>1. RefInit => OneTable
    BY PartsAssumption, TableAssumption
       DEF RefInit, Init, F!Init, F!RowsInit, U!Init, U!RowsInit, OneTable, HasRow,
           Live, F!Live, U!Live, F!RowAssumption, U!RowAssumption
  <2>2. RefInit => NamesKnown
    BY DEF RefInit, Init, NamesKnown, Referenced
  <2> QED
    BY <2>1, <2>2
<1>2. OneTable /\ [RefNext]_refVars => OneTable'
  BY DEF RefNext, OneTable, refVars, vars, sentVars, uploadedVars, HasRow, Live,
         F!Live, U!Live
<1>3. NamesKnown /\ F!IInv /\ [RefNext]_refVars => NamesKnown'
  BY NamesKnownStep DEF F!IInv
<1>4. IInv /\ F!IInv /\ U!IInv /\ OneTable /\ NamesKnown => ReferencesReadable
  <2> SUFFICES ASSUME IInv, F!IInv, U!IInv, OneTable, NamesKnown,
                      NEW f \in File, Referenced(f)
               PROVE  HasRow(f) /\ HasObject(f)
    BY DEF ReferencesReadable
  <2>1. HasRow(f)
    BY DEF IInv, FilesResolve, Referenced, OneTable
  <2>2. CASE f \in Sent
    BY <2>1, <2>2 DEF HasRow, HasObject, NamesKnown, F!IInv, F!AnsweredBacked
  <2>3. CASE f \notin Sent
    BY <2>1, <2>3, TableAssumption
       DEF HasRow, HasObject, U!IInv, U!CommittedKept
  <2> QED
    BY <2>1, <2>2, <2>3
<1> QED
  BY <1>1, <1>2, <1>3, <1>4, PartsKept, Inductive, PTL DEF RefSpec

\* The three next to the single statements of the transactions.
FilesBeside ==
  /\ F!Init /\ U!Init
  /\ [][(Elsewhere \/ ObjectStep) /\ OneTable']_refVars

\* Next to the statements of LedgerTx, too, whatever is referred to has its row
\* and its object.
THEOREM ReferencesBesideStatements ==
  TxSpec /\ FilesBeside => RefSpec /\ []ReferencesReadable
<1>1. [Next]_vars /\ [(Elsewhere \/ ObjectStep) /\ OneTable']_refVars =>
        [RefNext]_refVars
  BY DEF RefNext, Elsewhere, refVars
<1>2. Init /\ F!Init /\ U!Init => RefInit
  BY DEF RefInit
<1> QED
  BY <1>1, <1>2, TransactionsImplement, ReferencesKept, PTL
     DEF FilesBeside, RefSpec, Spec
=============================================================================
