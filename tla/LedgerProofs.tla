---------------------------- MODULE LedgerProofs ----------------------------
(***************************************************************************)
(* Theorems about Ledger, for every value of its constants.                *)
(***************************************************************************)
EXTENDS Ledger, TLAPS

-----------------------------------------------------------------------------
(* Type correctness.                                                       *)

LEMMA NewItemsType ==
  ASSUME TypeOK, NEW c \in Conv, NEW turn \in 0..MaxTurns,
         NEW source \in {"user", "agent"}, NEW payload \in Payload,
         lastItem + Len(payload) <= MaxItems,
         nextSeq[c] + Len(payload) <= MaxSeq
  PROVE  NewItems(c, turn, source, payload) \subseteq Item
<1> SUFFICES ASSUME NEW j \in 1..Len(payload)
             PROVE  [id |-> lastItem + j, conv |-> c,
                     seq |-> nextSeq[c] + j - 1, turn |-> turn,
                     source |-> source, refs |-> payload[j]] \in Item
  BY DEF NewItems
<1>1. payload \in Seq(SUBSET File) /\ payload[j] \in SUBSET File
  BY PayloadAssumption
<1>2. lastItem + j \in 1..MaxItems /\ nextSeq[c] + j - 1 \in 1..MaxSeq
  BY <1>1, BoundAssumption DEF TypeOK
<1> QED
  BY <1>1, <1>2 DEF Item

LEMMA InsertItemsType ==
  ASSUME TypeOK, NEW c \in Conv, NEW turn \in 0..MaxTurns,
         NEW source \in {"user", "agent"}, NEW payload \in Payload,
         InsertItems(c, turn, source, payload)
  PROVE  /\ items' \in SUBSET Item
         /\ nextSeq' \in [Conv -> 1..MaxSeq]
         /\ lastItem' \in 0..MaxItems
<1>1. payload \in Seq(SUBSET File) /\ Len(payload) \in Nat
  BY PayloadAssumption
<1>2. NewItems(c, turn, source, payload) \subseteq Item
  BY NewItemsType DEF InsertItems
<1>3. nextSeq[c] + Len(payload) \in 1..MaxSeq
  BY <1>1, BoundAssumption DEF InsertItems, TypeOK
<1>4. lastItem + Len(payload) \in 0..MaxItems
  BY <1>1, BoundAssumption DEF InsertItems, TypeOK
<1> QED
  BY <1>2, <1>3, <1>4 DEF InsertItems, TypeOK

LEMMA InsertTurnType ==
  ASSUME TypeOK, NEW c \in Conv, NEW key \in TurnKey \cup {NoKey},
         NEW began \in 0..MaxTurns, InsertTurn(c, key, began)
  PROVE  /\ turns' \in SUBSET Turn
         /\ lastTurn' \in 0..MaxTurns
         /\ lastTurn + 1 \in 1..MaxTurns
<1>1. lastTurn + 1 \in 1..MaxTurns
  BY BoundAssumption DEF InsertTurn, TypeOK
<1>2. Refs(c) \in SUBSET File
  BY DEF TypeOK, Refs, ItemsOf, Item
<1>3. [id |-> lastTurn + 1, conv |-> c, key |-> key, created |-> began,
       active |-> TRUE, snapshot |-> Refs(c)] \in Turn
  BY <1>1, <1>2 DEF Turn
<1>4. turns' \in SUBSET Turn
  BY <1>3 DEF InsertTurn, TypeOK
<1>5. lastTurn' \in 0..MaxTurns
  BY <1>1, BoundAssumption DEF InsertTurn
<1> QED
  BY <1>1, <1>4, <1>5

LEMMA RecordStartType ==
  ASSUME TypeOK, NEW c \in Conv, NEW k \in StartKey, NEW r \in Request,
         lastItem + Len(r.payload) <= MaxItems,
         nextSeq[c] + Len(r.payload) <= MaxSeq,
         lastTurn + 1 \in 1..MaxTurns,
         RecordStart(k, r, c)
  PROVE  starts' \in SUBSET Start
<1> DEFINE n == Len(r.payload)
           child(j) == [id |-> lastItem + j, seq |-> nextSeq[c] + j - 1]
<1>1. r.payload \in Payload /\ n \in Nat \ {0}
  BY PayloadAssumption DEF Request
<1>2. \A j \in 1..n : /\ lastItem + j \in 1..MaxItems
                      /\ nextSeq[c] + j - 1 \in 1..MaxSeq
  BY <1>1, BoundAssumption DEF TypeOK
<1>3. {child(j) : j \in 1..n} \subseteq [id: 1..MaxItems, seq: 1..MaxSeq]
  BY <1>2
<1>4. nextSeq[c] \in 1..MaxSeq /\ nextSeq[c] + n - 1 \in 1..MaxSeq
  BY <1>1, BoundAssumption, SMTT(40) DEF TypeOK
<1>5. [key |-> k, request |-> r, conv |-> c, turn |-> lastTurn + 1,
       first |-> nextSeq[c], last |-> nextSeq[c] + n - 1,
       children |-> {child(j) : j \in 1..n}] \in Start
  BY <1>3, <1>4 DEF Start
<1>6. starts' = starts \cup
         {[key |-> k, request |-> r, conv |-> c, turn |-> lastTurn + 1,
           first |-> nextSeq[c], last |-> nextSeq[c] + n - 1,
           children |-> {child(j) : j \in 1..n}]}
  BY Zenon DEF RecordStart
<1> QED
  BY <1>5, <1>6 DEF TypeOK

\* Every step keeps the types.
LEMMA TypeStep ==
  ASSUME TypeOK, [Next]_vars
  PROVE  TypeOK'
<1>1. ASSUME NEW c \in Conv, CreateConversation(c)
      PROVE  TypeOK'
  BY <1>1 DEF CreateConversation, TypeOK, Life
<1>2. ASSUME NEW c \in Conv, DeleteConversation(c)
      PROVE  TypeOK'
  BY <1>2 DEF DeleteConversation, TypeOK, Life
<1>3. ASSUME NEW f \in File, SaveFile(f)
      PROVE  TypeOK'
  BY <1>3 DEF SaveFile, TypeOK, Life
<1>4. ASSUME NEW f \in File, RemoveFile(f)
      PROVE  TypeOK'
  BY <1>4 DEF RemoveFile, TypeOK, Life
<1>5. ASSUME NEW k \in StartKey, NEW r \in Request, NEW began \in 0..MaxTurns,
             StartTurnExisting(k, r, began)
      PROVE  TypeOK'
  <2> DEFINE c == r.target
  <2>1. c \in Conv /\ r.payload \in Payload
    BY <1>5 DEF StartTurnExisting, Request
  <2>2. /\ turns' \in SUBSET Turn
        /\ lastTurn' \in 0..MaxTurns
        /\ lastTurn + 1 \in 1..MaxTurns
    BY <1>5, <2>1, InsertTurnType DEF StartTurnExisting
  <2>3. /\ items' \in SUBSET Item
        /\ nextSeq' \in [Conv -> 1..MaxSeq]
        /\ lastItem' \in 0..MaxItems
    BY <1>5, <2>1, <2>2, InsertItemsType, BoundAssumption
       DEF StartTurnExisting
  <2>4. starts' \in SUBSET Start
    BY <1>5, <2>1, <2>2, RecordStartType DEF StartTurnExisting, InsertItems
  <2> QED
    BY <1>5, <2>2, <2>3, <2>4 DEF StartTurnExisting, TypeOK
<1>6. ASSUME NEW k \in StartKey, NEW r \in Request, NEW c \in Conv,
             NEW began \in 0..MaxTurns, StartTurnCreate(k, r, c, began)
      PROVE  TypeOK'
  <2>1. r.payload \in Payload /\ lastTurn \in 0..MaxTurns
    BY DEF Request, TypeOK
  <2>2. /\ turns' \in SUBSET Turn
        /\ lastTurn' \in 0..MaxTurns
        /\ lastTurn + 1 \in 1..MaxTurns
    BY <1>6, <2>1, InsertTurnType DEF StartTurnCreate
  <2>3. /\ items' \in SUBSET Item
        /\ nextSeq' \in [Conv -> 1..MaxSeq]
        /\ lastItem' \in 0..MaxItems
    BY <1>6, <2>1, <2>2, InsertItemsType, BoundAssumption
       DEF StartTurnCreate
  <2>4. starts' \in SUBSET Start
    BY <1>6, <2>1, <2>2, RecordStartType DEF StartTurnCreate, InsertItems
  <2>5. /\ conv' \in [Conv -> Life]
        /\ born' \in [Conv -> 0..MaxTurns]
    BY <1>6, <2>2, BoundAssumption DEF StartTurnCreate, TypeOK, Life
  <2> QED
    BY <1>6, <2>2, <2>3, <2>4, <2>5 DEF StartTurnCreate, TypeOK
<1>7. ASSUME NEW c \in Conv, NEW key \in TurnKey, NEW began \in 0..MaxTurns,
             CreateTurn(c, key, began)
      PROVE  TypeOK'
  <2>1. turns' \in SUBSET Turn /\ lastTurn' \in 0..MaxTurns
    BY <1>7, InsertTurnType DEF CreateTurn
  <2> QED
    BY <1>7, <2>1 DEF CreateTurn, TypeOK
<1>8. ASSUME NEW t \in turns, NEW active \in BOOLEAN, UpdateTurn(t, active)
      PROVE  TypeOK'
  <2>1. [t EXCEPT !.active = active] \in Turn
    BY DEF TypeOK, Turn
  <2> QED
    BY <1>8, <2>1 DEF UpdateTurn, TypeOK
<1>9. ASSUME NEW c \in Conv, NEW key \in BatchKey, NEW turn \in 0..MaxTurns,
             NEW source \in {"user", "agent"}, NEW payload \in Payload,
             AppendItems(c, key, turn, source, payload)
      PROVE  TypeOK'
  <2>1. /\ items' \in SUBSET Item
        /\ nextSeq' \in [Conv -> 1..MaxSeq]
        /\ lastItem' \in 0..MaxItems
    BY <1>9, InsertItemsType DEF AppendItems
  <2>2. Len(payload) \in Nat \ {0}
    BY PayloadAssumption
  <2>3. nextSeq[c] \in 1..MaxSeq /\ nextSeq[c] + Len(payload) - 1 \in 1..MaxSeq
    BY <1>9, <2>2, BoundAssumption DEF AppendItems, InsertItems, TypeOK
  <2>4. [conv |-> c, key |-> key, first |-> nextSeq[c],
         last |-> nextSeq[c] + Len(payload) - 1] \in Batch
    BY <2>3 DEF Batch
  <2> QED
    BY <1>9, <2>1, <2>4 DEF AppendItems, TypeOK
<1>10. ASSUME NEW c \in Conv, NEW cut \in items, TruncateConversation(c, cut)
       PROVE  TypeOK'
  BY <1>10 DEF TruncateConversation, ItemsBefore, BatchesBefore,
               ContinuationsBefore, TypeOK, Item
<1>11. ASSUME NEW c \in Conv, RegenerateConversation(c)
       PROVE  TypeOK'
  BY <1>11 DEF RegenerateConversation, TypeOK
<1>12. ASSUME NEW c \in Conv, NEW response \in Response,
              NEW through \in 0..MaxSeq,
              ReadForContinuation(c, response, through)
       PROVE  TypeOK'
  BY <1>12 DEF ReadForContinuation, TypeOK, Continuation
<1>13. ASSUME NEW k \in reading, InsertContinuation(k)
       PROVE  TypeOK'
  BY <1>13 DEF InsertContinuation, TypeOK
<1>14. CASE UNCHANGED vars
  BY <1>14 DEF vars, TypeOK
<1> QED
  BY <1>1, <1>2, <1>3, <1>4, <1>5, <1>6, <1>7, <1>8, <1>9, <1>10, <1>11,
     <1>12, <1>13, <1>14 DEF Next

\* Every reachable state is well typed.
THEOREM TypeCorrect == Spec => []TypeOK
<1>1. Init => TypeOK
  BY BoundAssumption DEF Init, TypeOK, Life
<1>2. TypeOK /\ [Next]_vars => TypeOK'
  BY TypeStep
<1> QED
  BY <1>1, <1>2, PTL DEF Spec

-----------------------------------------------------------------------------
(* What a step can do to the items and to the turns.                       *)

\* What InsertItems adds: new ids and new numbers, one item per number.
LEMMA InsertedItems ==
  ASSUME TypeOK, NEW c \in Conv, NEW turn \in 0..MaxTurns,
         NEW source \in {"user", "agent"}, NEW payload \in Payload,
         InsertItems(c, turn, source, payload)
  PROVE  /\ items \subseteq items'
         /\ \A i \in items' \ items :
              /\ i.conv = c /\ i.turn = turn /\ i.source = source
              /\ i.id > lastItem /\ i.id <= lastItem'
              /\ i.seq >= nextSeq[c] /\ i.seq < nextSeq'[c]
              /\ i.refs \subseteq UNION {payload[j] : j \in 1..Len(payload)}
         /\ \A i, j \in items' \ items : i.seq = j.seq \/ i.id = j.id => i = j
         /\ nextSeq'[c] > nextSeq[c]
         /\ \A d \in Conv : d # c => nextSeq'[d] = nextSeq[d]
         /\ lastItem' > lastItem
<1> DEFINE n == Len(payload)
           new(j) == [id |-> lastItem + j, conv |-> c,
                      seq |-> nextSeq[c] + j - 1, turn |-> turn,
                      source |-> source, refs |-> payload[j]]
<1>1. n \in Nat \ {0} /\ lastItem \in Nat /\ nextSeq[c] \in Nat
  BY PayloadAssumption, BoundAssumption DEF TypeOK
<1>2. /\ items' = items \cup {new(j) : j \in 1..n}
      /\ nextSeq' = [nextSeq EXCEPT ![c] = @ + n]
      /\ lastItem' = lastItem + n
  BY Zenon DEF InsertItems, NewItems
<1>3. /\ nextSeq'[c] = nextSeq[c] + n
      /\ \A d \in Conv : d # c => nextSeq'[d] = nextSeq[d]
  BY <1>2 DEF TypeOK
<1>4. \A i \in items' \ items : \E j \in 1..n : i = new(j)
  BY <1>2
<1>5. ASSUME NEW i \in items' \ items
      PROVE  /\ i.conv = c /\ i.turn = turn /\ i.source = source
             /\ i.id > lastItem /\ i.id <= lastItem'
             /\ i.seq >= nextSeq[c] /\ i.seq < nextSeq'[c]
             /\ i.refs \subseteq UNION {payload[j] : j \in 1..n}
  <2>1. PICK j \in 1..n : i = new(j)
    BY <1>4
  <2>2. /\ i.conv = c /\ i.turn = turn /\ i.source = source
        /\ i.id = lastItem + j /\ i.seq = nextSeq[c] + j - 1
        /\ i.refs = payload[j]
    BY <2>1
  <2>3. /\ i.id > lastItem /\ i.id <= lastItem'
        /\ i.seq >= nextSeq[c] /\ i.seq < nextSeq'[c]
    BY <2>2, <1>1, <1>2, <1>3
  <2>4. i.refs \subseteq UNION {payload[k] : k \in 1..n}
    BY <2>2
  <2> QED
    BY <2>2, <2>3, <2>4
<1>6. ASSUME NEW i \in items' \ items, NEW j \in items' \ items,
             i.seq = j.seq \/ i.id = j.id
      PROVE  i = j
  <2>1. PICK x \in 1..n : i = new(x)
    BY <1>4
  <2>2. PICK y \in 1..n : j = new(y)
    BY <1>4
  <2>3. x = y
    BY <1>6, <2>1, <2>2, <1>1
  <2> QED
    BY <2>1, <2>2, <2>3
<1> QED
  BY <1>1, <1>2, <1>3, <1>5, <1>6, SMTT(40)

\* A step inserts items at next_seq, truncates, or at most removes items.
LEMMA ItemSteps ==
  ASSUME TypeOK, [Next]_vars
  PROVE  \/ \E c \in Conv, turn \in 0..MaxTurns,
               source \in {"user", "agent"}, payload \in Payload :
              InsertItems(c, turn, source, payload)
         \/ \E c \in Conv, cut \in items : TruncateConversation(c, cut)
         \/ items' \subseteq items /\ UNCHANGED <<nextSeq, lastItem>>
<1>1. ASSUME NEW k \in StartKey, NEW r \in Request, NEW began \in 0..MaxTurns,
             StartTurnExisting(k, r, began)
      PROVE  \E c \in Conv, turn \in 0..MaxTurns,
                source \in {"user", "agent"}, payload \in Payload :
               InsertItems(c, turn, source, payload)
  <2>1. r.target \in Conv /\ r.payload \in Payload
    BY <1>1 DEF StartTurnExisting, Request
  <2>2. lastTurn + 1 \in 0..MaxTurns
    BY <1>1, BoundAssumption DEF StartTurnExisting, InsertTurn, TypeOK
  <2> QED
    BY <1>1, <2>1, <2>2 DEF StartTurnExisting
<1>2. ASSUME NEW k \in StartKey, NEW r \in Request, NEW c \in Conv,
             NEW began \in 0..MaxTurns, StartTurnCreate(k, r, c, began)
      PROVE  \E d \in Conv, turn \in 0..MaxTurns,
                source \in {"user", "agent"}, payload \in Payload :
               InsertItems(d, turn, source, payload)
  <2>1. r.payload \in Payload
    BY DEF Request
  <2>2. lastTurn + 1 \in 0..MaxTurns
    BY <1>2, BoundAssumption DEF StartTurnCreate, InsertTurn, TypeOK
  <2> QED
    BY <1>2, <2>1, <2>2 DEF StartTurnCreate
<1>3. ASSUME NEW c \in Conv, NEW key \in BatchKey, NEW turn \in 0..MaxTurns,
             NEW source \in {"user", "agent"}, NEW payload \in Payload,
             AppendItems(c, key, turn, source, payload)
      PROVE  InsertItems(c, turn, source, payload)
  BY <1>3 DEF AppendItems
<1>4. ASSUME NEW c \in Conv,
             \/ CreateConversation(c) \/ DeleteConversation(c)
             \/ RegenerateConversation(c)
      PROVE  items' \subseteq items /\ UNCHANGED <<nextSeq, lastItem>>
  BY <1>4 DEF CreateConversation, DeleteConversation, RegenerateConversation
<1>5. ASSUME NEW f \in File, SaveFile(f) \/ RemoveFile(f)
      PROVE  items' \subseteq items /\ UNCHANGED <<nextSeq, lastItem>>
  BY <1>5 DEF SaveFile, RemoveFile
<1>6. ASSUME NEW c \in Conv, NEW key \in TurnKey, NEW began \in 0..MaxTurns,
             CreateTurn(c, key, began)
      PROVE  items' \subseteq items /\ UNCHANGED <<nextSeq, lastItem>>
  BY <1>6 DEF CreateTurn
<1>7. ASSUME NEW t \in turns, NEW active \in BOOLEAN, UpdateTurn(t, active)
      PROVE  items' \subseteq items /\ UNCHANGED <<nextSeq, lastItem>>
  BY <1>7 DEF UpdateTurn
<1>8. ASSUME NEW c \in Conv, NEW response \in Response,
             NEW through \in 0..MaxSeq,
             ReadForContinuation(c, response, through)
      PROVE  items' \subseteq items /\ UNCHANGED <<nextSeq, lastItem>>
  BY <1>8 DEF ReadForContinuation
<1>9. ASSUME NEW k \in reading, InsertContinuation(k)
      PROVE  items' \subseteq items /\ UNCHANGED <<nextSeq, lastItem>>
  BY <1>9 DEF InsertContinuation
<1>10. CASE UNCHANGED vars
  BY <1>10 DEF vars
<1> QED
  BY <1>1, <1>2, <1>3, <1>4, <1>5, <1>6, <1>7, <1>8, <1>9, <1>10 DEF Next

\* A step inserts an active turn where there was none, rewrites the status of
\* one turn, or at most removes turns.
LEMMA TurnSteps ==
  ASSUME TypeOK, [Next]_vars
  PROVE  \/ \E c \in Conv, key \in TurnKey \cup {NoKey}, began \in 0..MaxTurns :
              InsertTurn(c, key, began)
         \/ \E t \in turns, active \in BOOLEAN : UpdateTurn(t, active)
         \/ turns' \subseteq turns /\ UNCHANGED lastTurn
<1>1. ASSUME NEW k \in StartKey, NEW r \in Request, NEW began \in 0..MaxTurns,
             StartTurnExisting(k, r, began)
      PROVE  r.target \in Conv /\ InsertTurn(r.target, NoKey, began)
  BY <1>1 DEF StartTurnExisting, Request
<1>2. ASSUME NEW k \in StartKey, NEW r \in Request, NEW c \in Conv,
             NEW began \in 0..MaxTurns, StartTurnCreate(k, r, c, began)
      PROVE  InsertTurn(c, NoKey, began)
  BY <1>2 DEF StartTurnCreate, TypeOK
<1>3. ASSUME NEW c \in Conv, NEW key \in TurnKey, NEW began \in 0..MaxTurns,
             CreateTurn(c, key, began)
      PROVE  InsertTurn(c, key, began)
  BY <1>3 DEF CreateTurn
<1>4. ASSUME NEW c \in Conv,
             \/ CreateConversation(c) \/ DeleteConversation(c)
             \/ RegenerateConversation(c)
             \/ \E cut \in items : TruncateConversation(c, cut)
      PROVE  turns' \subseteq turns /\ UNCHANGED lastTurn
  BY <1>4 DEF CreateConversation, DeleteConversation, RegenerateConversation,
              TruncateConversation
<1>5. ASSUME NEW f \in File, SaveFile(f) \/ RemoveFile(f)
      PROVE  turns' \subseteq turns /\ UNCHANGED lastTurn
  BY <1>5 DEF SaveFile, RemoveFile
<1>6. ASSUME NEW c \in Conv, NEW key \in BatchKey, NEW turn \in 0..MaxTurns,
             NEW source \in {"user", "agent"}, NEW payload \in Payload,
             AppendItems(c, key, turn, source, payload)
      PROVE  turns' \subseteq turns /\ UNCHANGED lastTurn
  BY <1>6 DEF AppendItems
<1>7. ASSUME NEW c \in Conv, NEW response \in Response,
             NEW through \in 0..MaxSeq,
             ReadForContinuation(c, response, through)
      PROVE  turns' \subseteq turns /\ UNCHANGED lastTurn
  BY <1>7 DEF ReadForContinuation
<1>8. ASSUME NEW k \in reading, InsertContinuation(k)
      PROVE  turns' \subseteq turns /\ UNCHANGED lastTurn
  BY <1>8 DEF InsertContinuation
<1>9. CASE UNCHANGED vars
  BY <1>9 DEF vars
<1> QED
  BY <1>1, <1>2, <1>3, <1>4, <1>5, <1>6, <1>7, <1>8, <1>9 DEF Next

-----------------------------------------------------------------------------
(* Sequence numbers, ids and active turns.                                 *)

\* Items keep distinct numbers below next_seq, and distinct ids.
LEMMA ItemsStep ==
  ASSUME TypeOK, SequenceDiscipline, IdDiscipline, [Next]_vars
  PROVE  /\ SequenceDiscipline'
         /\ \A i \in items' : i.id <= lastItem'
         /\ \A i, j \in items' : i.id = j.id => i = j
<1>0. /\ lastItem \in Int
      /\ nextSeq \in [Conv -> Int]
      /\ \A i \in items : i.conv \in Conv /\ i.id \in Int /\ i.seq \in Int
  BY BoundAssumption DEF TypeOK, Item
<1>1. ASSUME NEW c \in Conv, NEW turn \in 0..MaxTurns,
             NEW source \in {"user", "agent"}, NEW payload \in Payload,
             InsertItems(c, turn, source, payload)
      PROVE  /\ SequenceDiscipline'
             /\ \A i \in items' : i.id <= lastItem'
             /\ \A i, j \in items' : i.id = j.id => i = j
  <2>1. /\ items' \in SUBSET Item
        /\ nextSeq' \in [Conv -> 1..MaxSeq]
        /\ lastItem' \in 0..MaxItems
    BY <1>1, InsertItemsType
  <2>2. /\ items \subseteq items'
        /\ \A i \in items' \ items :
             /\ i.conv = c /\ i.id > lastItem /\ i.id <= lastItem'
             /\ i.seq >= nextSeq[c] /\ i.seq < nextSeq'[c]
        /\ \A i, j \in items' \ items : i.seq = j.seq \/ i.id = j.id => i = j
        /\ nextSeq'[c] > nextSeq[c]
        /\ \A d \in Conv : d # c => nextSeq'[d] = nextSeq[d]
        /\ lastItem' > lastItem
    BY <1>1, InsertedItems
  <2>3. /\ lastItem' \in Int
        /\ nextSeq' \in [Conv -> Int]
        /\ \A i \in items' : i.conv \in Conv /\ i.id \in Int /\ i.seq \in Int
    BY <2>1, BoundAssumption DEF Item
  <2>4. ASSUME NEW i \in items'
        PROVE  i.id <= lastItem' /\ i.seq < nextSeq'[i.conv]
    BY <2>2, <2>3, <1>0 DEF SequenceDiscipline, IdDiscipline
  <2>5. ASSUME NEW i \in items', NEW j \in items',
               (i.conv = j.conv /\ i.seq = j.seq) \/ i.id = j.id
        PROVE  i = j
    BY <2>2, <2>3, <2>5, <1>0 DEF SequenceDiscipline, IdDiscipline
  <2> QED
    BY <2>4, <2>5 DEF SequenceDiscipline
<1>2. ASSUME NEW c \in Conv, NEW cut \in items, TruncateConversation(c, cut)
      PROVE  /\ SequenceDiscipline'
             /\ \A i \in items' : i.id <= lastItem'
             /\ \A i, j \in items' : i.id = j.id => i = j
  <2>1. /\ items' = {i \in items : i.conv = c => i.seq < cut.seq}
        /\ nextSeq' = [nextSeq EXCEPT ![c] = cut.seq]
        /\ lastItem' = lastItem
    BY <1>2 DEF TruncateConversation, ItemsBefore
  <2> QED
    BY <2>1, <1>0 DEF SequenceDiscipline, IdDiscipline
<1>3. ASSUME items' \subseteq items, UNCHANGED <<nextSeq, lastItem>>
      PROVE  /\ SequenceDiscipline'
             /\ \A i \in items' : i.id <= lastItem'
             /\ \A i, j \in items' : i.id = j.id => i = j
  BY <1>3 DEF SequenceDiscipline, IdDiscipline
<1> QED
  BY <1>1, <1>2, <1>3, ItemSteps

\* At most one active turn per conversation, and distinct turn ids.
LEMMA TurnsStep ==
  ASSUME TypeOK, OneActiveTurn, IdDiscipline, [Next]_vars
  PROVE  /\ OneActiveTurn'
         /\ \A t \in turns' : t.id <= lastTurn'
         /\ \A t, u \in turns' : t.id = u.id => t = u
<1>0. /\ lastTurn \in Int
      /\ turns \subseteq Turn
      /\ \A t \in turns : t.id \in Int
  BY BoundAssumption DEF TypeOK, Turn
<1>1. ASSUME NEW c \in Conv, NEW key \in TurnKey \cup {NoKey},
             NEW began \in 0..MaxTurns, InsertTurn(c, key, began)
      PROVE  /\ OneActiveTurn'
             /\ \A t \in turns' : t.id <= lastTurn'
             /\ \A t, u \in turns' : t.id = u.id => t = u
  <2> DEFINE new == [id |-> lastTurn + 1, conv |-> c, key |-> key,
                     created |-> began, active |-> TRUE, snapshot |-> Refs(c)]
  <2>1. turns' = turns \cup {new} /\ lastTurn' = lastTurn + 1
    BY <1>1 DEF InsertTurn
  <2>2. new.id = lastTurn + 1 /\ new.conv = c
    OBVIOUS
  <2> HIDE DEF new
  <2>3. \A t \in turns : t.conv = c => ~t.active
    BY <1>1 DEF InsertTurn, ActiveTurn, TurnsOf
  <2>4. ASSUME NEW t \in turns', NEW u \in turns', t.conv = u.conv,
               t.active, u.active
        PROVE  t = u
    <3>1. CASE t = new
      BY <3>1, <2>1, <2>2, <2>3, <2>4
    <3>2. CASE u = new
      BY <3>2, <2>1, <2>2, <2>3, <2>4
    <3>3. CASE t \in turns /\ u \in turns
      BY <3>3, <2>4 DEF OneActiveTurn
    <3> QED
      BY <3>1, <3>2, <3>3, <2>1
  <2>5. \A t \in turns' : t.id <= lastTurn'
    BY <2>1, <2>2, <1>0 DEF IdDiscipline
  <2>6. \A t, u \in turns' : t.id = u.id => t = u
    BY <2>1, <2>2, <1>0 DEF IdDiscipline
  <2> QED
    BY <2>4, <2>5, <2>6 DEF OneActiveTurn
<1>2. ASSUME NEW t \in turns, NEW active \in BOOLEAN, UpdateTurn(t, active)
      PROVE  /\ OneActiveTurn'
             /\ \A u \in turns' : u.id <= lastTurn'
             /\ \A u, v \in turns' : u.id = v.id => u = v
  <2> DEFINE new == [t EXCEPT !.active = active]
  <2>1. turns' = (turns \ {t}) \cup {new} /\ lastTurn' = lastTurn
    BY <1>2 DEF UpdateTurn
  <2>2. new.id = t.id /\ new.conv = t.conv /\ new.active = active
    BY <1>0 DEF Turn
  <2> HIDE DEF new
  <2>3. active => \A u \in turns : u.conv = t.conv /\ u # t => ~u.active
    BY <1>2 DEF UpdateTurn, MayActivate, TurnsOf
  <2>4. ASSUME NEW u \in turns', NEW v \in turns', u.conv = v.conv,
               u.active, v.active
        PROVE  u = v
    <3>1. CASE u = new
      BY <3>1, <2>1, <2>2, <2>3, <2>4
    <3>2. CASE v = new
      BY <3>2, <2>1, <2>2, <2>3, <2>4
    <3>3. CASE u \in turns /\ v \in turns
      BY <3>3, <2>4 DEF OneActiveTurn
    <3> QED
      BY <3>1, <3>2, <3>3, <2>1
  <2>5. \A u \in turns' : u.id <= lastTurn'
    BY <2>1, <2>2, <1>0 DEF IdDiscipline
  <2>6. \A u, v \in turns' : u.id = v.id => u = v
    BY <2>1, <2>2, <1>0 DEF IdDiscipline
  <2> QED
    BY <2>4, <2>5, <2>6 DEF OneActiveTurn
<1>3. ASSUME turns' \subseteq turns, UNCHANGED lastTurn
      PROVE  /\ OneActiveTurn'
             /\ \A t \in turns' : t.id <= lastTurn'
             /\ \A t, u \in turns' : t.id = u.id => t = u
  BY <1>3 DEF OneActiveTurn, IdDiscipline
<1> QED
  BY <1>1, <1>2, <1>3, TurnSteps

-----------------------------------------------------------------------------
(* Files.                                                                  *)

\* References are made to live files only, and a referenced file stays.
LEMMA FilesStep ==
  ASSUME TypeOK, FilesResolve, [Next]_vars
  PROVE  FilesResolve'
<1>0. /\ file \in [File -> Life]
      /\ \A i \in items : i.refs \subseteq File
      /\ \A t \in turns : t.snapshot \subseteq File
  BY DEF TypeOK, Item, Turn
<1>1. ASSUME NEW c \in Conv, NEW key \in TurnKey \cup {NoKey},
             NEW began \in 0..MaxTurns, InsertTurn(c, key, began)
      PROVE  \A t \in turns' : \A f \in t.snapshot : Live(f)
  <2> DEFINE new == [id |-> lastTurn + 1, conv |-> c, key |-> key,
                     created |-> began, active |-> TRUE, snapshot |-> Refs(c)]
  <2>1. turns' = turns \cup {new}
    BY <1>1 DEF InsertTurn
  <2>2. new.snapshot = Refs(c)
    OBVIOUS
  <2> HIDE DEF new
  <2>3. \A f \in Refs(c) : Live(f)
    BY DEF Refs, ItemsOf, FilesResolve
  <2> QED
    BY <2>1, <2>2, <2>3 DEF FilesResolve
<1>2. ASSUME NEW c \in Conv, NEW turn \in 0..MaxTurns,
             NEW source \in {"user", "agent"}, NEW payload \in Payload,
             InsertItems(c, turn, source, payload),
             \A f \in UNION {payload[j] : j \in 1..Len(payload)} : Live(f)
      PROVE  \A i \in items' : \A f \in i.refs : Live(f)
  BY <1>2, InsertedItems DEF FilesResolve
<1>3. ASSUME NEW k \in StartKey, NEW r \in Request, NEW began \in 0..MaxTurns,
             StartTurnExisting(k, r, began)
      PROVE  FilesResolve'
  <2>1. r.target \in Conv /\ r.payload \in Payload /\ lastTurn + 1 \in 0..MaxTurns
    BY <1>3, BoundAssumption
       DEF StartTurnExisting, Request, InsertTurn, TypeOK
  <2>2. \A f \in UNION {r.payload[j] : j \in 1..Len(r.payload)} : Live(f)
    BY <1>3 DEF StartTurnExisting, TurnFilesLocked
  <2>3. \A i \in items' : \A f \in i.refs : Live(f)
    BY <1>2, <1>3, <2>1, <2>2 DEF StartTurnExisting
  <2>4. \A t \in turns' : \A f \in t.snapshot : Live(f)
    BY <1>1, <1>3, <2>1 DEF StartTurnExisting
  <2>5. file' = file
    BY <1>3 DEF StartTurnExisting
  <2> QED
    BY <2>3, <2>4, <2>5 DEF FilesResolve, Live
<1>4. ASSUME NEW k \in StartKey, NEW r \in Request, NEW c \in Conv,
             NEW began \in 0..MaxTurns, StartTurnCreate(k, r, c, began)
      PROVE  FilesResolve'
  <2>1. /\ r.payload \in Payload /\ lastTurn + 1 \in 0..MaxTurns
        /\ lastTurn \in 0..MaxTurns
    BY <1>4, BoundAssumption DEF StartTurnCreate, Request, InsertTurn, TypeOK
  <2>2. \A f \in UNION {r.payload[j] : j \in 1..Len(r.payload)} : Live(f)
    BY <1>4 DEF StartTurnCreate, TurnFilesLocked
  <2>3. \A i \in items' : \A f \in i.refs : Live(f)
    BY <1>2, <1>4, <2>1, <2>2 DEF StartTurnCreate
  <2>4. \A t \in turns' : \A f \in t.snapshot : Live(f)
    BY <1>1, <1>4, <2>1 DEF StartTurnCreate
  <2>5. file' = file
    BY <1>4 DEF StartTurnCreate
  <2> QED
    BY <2>3, <2>4, <2>5 DEF FilesResolve, Live
<1>5. ASSUME NEW c \in Conv, NEW key \in TurnKey, NEW began \in 0..MaxTurns,
             CreateTurn(c, key, began)
      PROVE  FilesResolve'
  BY <1>1, <1>5 DEF CreateTurn, FilesResolve, Live
<1>6. ASSUME NEW t \in turns, NEW active \in BOOLEAN, UpdateTurn(t, active)
      PROVE  FilesResolve'
  <2> DEFINE new == [t EXCEPT !.active = active]
  <2>1. turns' = (turns \ {t}) \cup {new} /\ UNCHANGED <<items, file>>
    BY <1>6 DEF UpdateTurn
  <2>2. new.snapshot = t.snapshot
    BY DEF TypeOK, Turn
  <2> HIDE DEF new
  <2> QED
    BY <2>1, <2>2 DEF FilesResolve, Live
<1>7. ASSUME NEW c \in Conv, NEW key \in BatchKey, NEW turn \in 0..MaxTurns,
             NEW source \in {"user", "agent"}, NEW payload \in Payload,
             AppendItems(c, key, turn, source, payload)
      PROVE  FilesResolve'
  <2>1. \A i \in items' : \A f \in i.refs : Live(f)
    BY <1>2, <1>7 DEF AppendItems
  <2> QED
    BY <1>7, <2>1 DEF AppendItems, FilesResolve, Live
<1>8. ASSUME NEW f \in File, SaveFile(f)
      PROVE  FilesResolve'
  BY <1>8, <1>0 DEF SaveFile, FilesResolve, Live
<1>9. ASSUME NEW f \in File, RemoveFile(f)
      PROVE  FilesResolve'
  BY <1>9, <1>0 DEF RemoveFile, FilesResolve, Live, Referenced
<1>10. ASSUME NEW c \in Conv,
              \/ CreateConversation(c) \/ DeleteConversation(c)
              \/ RegenerateConversation(c)
              \/ \E cut \in items : TruncateConversation(c, cut)
       PROVE  FilesResolve'
  BY <1>10 DEF CreateConversation, DeleteConversation, RegenerateConversation,
               TruncateConversation, ItemsBefore, FilesResolve, Live
<1>11. ASSUME NEW c \in Conv, NEW response \in Response,
              NEW through \in 0..MaxSeq,
              ReadForContinuation(c, response, through)
       PROVE  FilesResolve'
  BY <1>11 DEF ReadForContinuation, FilesResolve, Live
<1>12. ASSUME NEW k \in reading, InsertContinuation(k)
       PROVE  FilesResolve'
  BY <1>12 DEF InsertContinuation, FilesResolve, Live
<1>13. CASE UNCHANGED vars
  BY <1>13 DEF vars, FilesResolve, Live
<1> QED
  BY <1>3, <1>4, <1>5, <1>6, <1>7, <1>8, <1>9, <1>10, <1>11, <1>12, <1>13
     DEF Next

-----------------------------------------------------------------------------
(* Conversations, and the turns of items.                                  *)

\* A conversation that was ever born is never born again.
LEMMA ConvSteps ==
  ASSUME TypeOK, [Next]_vars, NEW c \in Conv
  PROVE  /\ conv[c] # "unborn" => conv'[c] # "unborn"
         /\ conv'[c] = "live" => conv[c] \in {"unborn", "live"}
         /\ conv[c] = "unborn" /\ conv'[c] # "unborn" => conv'[c] = "live"
<1>0. conv \in [Conv -> Life]
  BY DEF TypeOK
<1>1. ASSUME NEW d \in Conv, CreateConversation(d) \/ DeleteConversation(d)
      PROVE  /\ conv[c] # "unborn" => conv'[c] # "unborn"
             /\ conv'[c] = "live" => conv[c] \in {"unborn", "live"}
             /\ conv[c] = "unborn" /\ conv'[c] # "unborn" => conv'[c] = "live"
  BY <1>0, <1>1 DEF CreateConversation, DeleteConversation
<1>2. ASSUME NEW k \in StartKey, NEW r \in Request, NEW d \in Conv,
             NEW began \in 0..MaxTurns, StartTurnCreate(k, r, d, began)
      PROVE  /\ conv[c] # "unborn" => conv'[c] # "unborn"
             /\ conv'[c] = "live" => conv[c] \in {"unborn", "live"}
             /\ conv[c] = "unborn" /\ conv'[c] # "unborn" => conv'[c] = "live"
  BY <1>0, <1>2 DEF StartTurnCreate
<1>3. ASSUME \/ \E f \in File : SaveFile(f) \/ RemoveFile(f)
             \/ \E k \in StartKey, r \in Request, began \in 0..MaxTurns :
                  StartTurnExisting(k, r, began)
             \/ \E d \in Conv, key \in TurnKey, began \in 0..MaxTurns :
                  CreateTurn(d, key, began)
             \/ \E t \in turns, active \in BOOLEAN : UpdateTurn(t, active)
             \/ \E d \in Conv, key \in BatchKey, turn \in 0..MaxTurns,
                   source \in {"user", "agent"}, payload \in Payload :
                  AppendItems(d, key, turn, source, payload)
             \/ \E d \in Conv, cut \in items : TruncateConversation(d, cut)
             \/ \E d \in Conv : RegenerateConversation(d)
             \/ \E d \in Conv, response \in Response, through \in 0..MaxSeq :
                  ReadForContinuation(d, response, through)
             \/ \E k \in reading : InsertContinuation(k)
             \/ UNCHANGED vars
      PROVE  conv' = conv
  BY <1>3 DEF SaveFile, RemoveFile, StartTurnExisting, CreateTurn, UpdateTurn,
              AppendItems, TruncateConversation, RegenerateConversation,
              ReadForContinuation, InsertContinuation, vars
<1> QED
  BY <1>0, <1>1, <1>2, <1>3 DEF Next, Life

\* Old ids in the next state belong to old items.
LEMMA OldItems ==
  ASSUME TypeOK, [Next]_vars
  PROVE  /\ \A i \in items' : i.id <= lastItem => i \in items
         /\ lastItem' >= lastItem
<1>0. lastItem \in Int /\ \A i \in items : i.id \in Int
  BY BoundAssumption DEF TypeOK, Item
<1>1. ASSUME NEW c \in Conv, NEW turn \in 0..MaxTurns,
             NEW source \in {"user", "agent"}, NEW payload \in Payload,
             InsertItems(c, turn, source, payload)
      PROVE  /\ \A i \in items' : i.id <= lastItem => i \in items
             /\ lastItem' >= lastItem
  <2>1. items' \in SUBSET Item /\ lastItem' \in 0..MaxItems
    BY <1>1, InsertItemsType
  <2>2. /\ \A i \in items' \ items : i.id > lastItem
        /\ lastItem' > lastItem
    BY <1>1, InsertedItems
  <2>3. lastItem' \in Int /\ \A i \in items' : i.id \in Int
    BY <2>1, BoundAssumption DEF Item
  <2> QED
    BY <1>0, <2>2, <2>3
<1>2. ASSUME NEW c \in Conv, NEW cut \in items, TruncateConversation(c, cut)
      PROVE  items' \subseteq items /\ lastItem' = lastItem
  BY <1>2 DEF TruncateConversation, ItemsBefore
<1> QED
  BY <1>0, <1>1, <1>2, ItemSteps

\* A turn keeps its id, key and times until its conversation is deleted.
LEMMA TurnsPersist ==
  ASSUME TypeOK, [Next]_vars, NEW t \in turns, conv'[t.conv] = "live",
         conv[t.conv] = "live"
  PROVE  \E u \in turns' : /\ u.id = t.id /\ u.conv = t.conv
                           /\ u.key = t.key /\ u.created = t.created
<1>0. t.conv \in Conv /\ conv \in [Conv -> Life]
  BY DEF TypeOK, Turn
<1>1. ASSUME NEW c \in Conv, NEW key \in TurnKey \cup {NoKey},
             NEW began \in 0..MaxTurns, InsertTurn(c, key, began)
      PROVE  t \in turns'
  BY <1>1 DEF InsertTurn
<1>2. ASSUME NEW u \in turns, NEW active \in BOOLEAN, UpdateTurn(u, active)
      PROVE  \E v \in turns' : /\ v.id = t.id /\ v.conv = t.conv
                               /\ v.key = t.key /\ v.created = t.created
  <2> DEFINE new == [u EXCEPT !.active = active]
  <2>1. turns' = (turns \ {u}) \cup {new}
    BY <1>2 DEF UpdateTurn
  <2>2. /\ new.id = u.id /\ new.conv = u.conv
        /\ new.key = u.key /\ new.created = u.created
    BY DEF TypeOK, Turn
  <2> HIDE DEF new
  <2> QED
    BY <2>1, <2>2
<1>3. ASSUME NEW k \in StartKey, NEW r \in Request, NEW began \in 0..MaxTurns,
             StartTurnExisting(k, r, began)
      PROVE  t \in turns'
  BY <1>3 DEF StartTurnExisting, InsertTurn
<1>4. ASSUME NEW k \in StartKey, NEW r \in Request, NEW c \in Conv,
             NEW began \in 0..MaxTurns, StartTurnCreate(k, r, c, began)
      PROVE  t \in turns'
  BY <1>4 DEF StartTurnCreate, InsertTurn
<1>5. ASSUME NEW c \in Conv, NEW key \in TurnKey, NEW began \in 0..MaxTurns,
             CreateTurn(c, key, began)
      PROVE  t \in turns'
  BY <1>5 DEF CreateTurn, InsertTurn
<1>6. ASSUME NEW c \in Conv, DeleteConversation(c)
      PROVE  t \in turns'
  BY <1>0, <1>6 DEF DeleteConversation, TurnsOf
<1>7. ASSUME NEW c \in Conv,
             \/ CreateConversation(c) \/ RegenerateConversation(c)
             \/ \E cut \in items : TruncateConversation(c, cut)
      PROVE  t \in turns'
  BY <1>7 DEF CreateConversation, RegenerateConversation, TruncateConversation
<1>8. ASSUME NEW f \in File, SaveFile(f) \/ RemoveFile(f)
      PROVE  t \in turns'
  BY <1>8 DEF SaveFile, RemoveFile
<1>9. ASSUME NEW c \in Conv, NEW key \in BatchKey, NEW turn \in 0..MaxTurns,
             NEW source \in {"user", "agent"}, NEW payload \in Payload,
             AppendItems(c, key, turn, source, payload)
      PROVE  t \in turns'
  BY <1>9 DEF AppendItems
<1>10. ASSUME NEW c \in Conv, NEW response \in Response,
              NEW through \in 0..MaxSeq,
              ReadForContinuation(c, response, through)
       PROVE  t \in turns'
  BY <1>10 DEF ReadForContinuation
<1>11. ASSUME NEW k \in reading, InsertContinuation(k)
       PROVE  t \in turns'
  BY <1>11 DEF InsertContinuation
<1>12. CASE UNCHANGED vars
  BY <1>12 DEF vars
<1> QED
  BY <1>2, <1>3, <1>4, <1>5, <1>6, <1>7, <1>8, <1>9, <1>10, <1>11, <1>12
     DEF Next

\* Inserting a turn and its items keeps every item's turn.
LEMMA InsertKeepsRows ==
  ASSUME TypeOK, RowsOwned, NEW c \in Conv, NEW began \in 0..MaxTurns,
         NEW key \in TurnKey \cup {NoKey},
         InsertTurn(c, key, began), conv'[c] = "live",
         \A d \in Conv : conv[d] = "live" => conv'[d] = "live",
         \/ items' = items
         \/ \E payload \in Payload : InsertItems(c, lastTurn + 1, "user", payload)
  PROVE  RowsOwned'
<1> DEFINE new == [id |-> lastTurn + 1, conv |-> c, key |-> key,
                   created |-> began, active |-> TRUE, snapshot |-> Refs(c)]
<1>1. turns' = turns \cup {new}
  BY DEF InsertTurn
<1>2. new.id = lastTurn + 1 /\ new.conv = c
  OBVIOUS
<1> HIDE DEF new
<1>3. \A t \in turns' : conv'[t.conv] = "live"
  BY <1>1, <1>2 DEF RowsOwned, TypeOK, Turn
<1>4. lastTurn + 1 \in 0..MaxTurns
  BY BoundAssumption DEF InsertTurn, TypeOK
<1>5. \A i \in items' \ items : i.turn = lastTurn + 1 /\ i.conv = c
  BY <1>4, InsertedItems
<1>6. ASSUME NEW i \in items', i.turn # NoTurn
      PROVE  \E t \in turns' : t.id = i.turn /\ t.conv = i.conv
  BY <1>1, <1>2, <1>5, <1>6 DEF RowsOwned
<1> QED
  BY <1>3, <1>6 DEF RowsOwned

\* The turn of an item is a turn of its conversation.
LEMMA RowsOwnedStep ==
  ASSUME TypeOK, RowsOwned, [Next]_vars
  PROVE  RowsOwned'
<1>0. /\ conv \in [Conv -> Life]
      /\ \A i \in items : i.conv \in Conv
      /\ \A t \in turns : t.conv \in Conv
  BY DEF TypeOK, Item, Turn
<1>1. ASSUME NEW k \in StartKey, NEW r \in Request, NEW began \in 0..MaxTurns,
             StartTurnExisting(k, r, began)
      PROVE  RowsOwned'
  BY <1>1, InsertKeepsRows DEF StartTurnExisting, Request
<1>2. ASSUME NEW k \in StartKey, NEW r \in Request, NEW c \in Conv,
             NEW began \in 0..MaxTurns, StartTurnCreate(k, r, c, began)
      PROVE  RowsOwned'
  <2>1. conv' = [conv EXCEPT ![c] = "live"]
    BY <1>2 DEF StartTurnCreate
  <2>2. conv'[c] = "live" /\ \A d \in Conv : conv[d] = "live" => conv'[d] = "live"
    BY <1>0, <2>1
  <2>3. lastTurn \in 0..MaxTurns /\ r.payload \in Payload
    BY DEF TypeOK, Request
  <2> QED
    BY <1>2, <2>2, <2>3, InsertKeepsRows DEF StartTurnCreate
<1>3. ASSUME NEW c \in Conv, NEW key \in TurnKey, NEW began \in 0..MaxTurns,
             CreateTurn(c, key, began)
      PROVE  RowsOwned'
  BY <1>3, InsertKeepsRows DEF CreateTurn
<1>4. ASSUME NEW t \in turns, NEW active \in BOOLEAN, UpdateTurn(t, active)
      PROVE  RowsOwned'
  <2> DEFINE new == [t EXCEPT !.active = active]
  <2>1. turns' = (turns \ {t}) \cup {new} /\ UNCHANGED <<conv, items>>
    BY <1>4 DEF UpdateTurn
  <2>2. new.id = t.id /\ new.conv = t.conv
    BY DEF TypeOK, Turn
  <2> HIDE DEF new
  <2> QED
    BY <2>1, <2>2 DEF RowsOwned
<1>5. ASSUME NEW c \in Conv, NEW key \in BatchKey, NEW turn \in 0..MaxTurns,
             NEW source \in {"user", "agent"}, NEW payload \in Payload,
             AppendItems(c, key, turn, source, payload)
      PROVE  RowsOwned'
  <2>1. /\ turn = NoTurn \/ \E t \in turns : t.id = turn /\ t.conv = c
        /\ UNCHANGED <<conv, turns>>
    BY <1>5 DEF AppendItems, TurnsOf
  <2>2. \A i \in items' \ items : i.turn = turn /\ i.conv = c
    BY <1>5, InsertedItems DEF AppendItems
  <2> QED
    BY <2>1, <2>2 DEF RowsOwned
<1>6. ASSUME NEW c \in Conv, DeleteConversation(c)
      PROVE  RowsOwned'
  BY <1>0, <1>6 DEF DeleteConversation, RowsOwned, ItemsOf, TurnsOf
<1>7. ASSUME NEW c \in Conv, CreateConversation(c)
      PROVE  RowsOwned'
  BY <1>0, <1>7 DEF CreateConversation, RowsOwned
<1>8. ASSUME NEW c \in Conv,
             \/ RegenerateConversation(c)
             \/ \E cut \in items : TruncateConversation(c, cut)
      PROVE  items' \subseteq items /\ UNCHANGED <<conv, turns>>
  BY <1>8 DEF RegenerateConversation, TruncateConversation, ItemsBefore
<1>9. ASSUME NEW f \in File, SaveFile(f) \/ RemoveFile(f)
      PROVE  items' \subseteq items /\ UNCHANGED <<conv, turns>>
  BY <1>9 DEF SaveFile, RemoveFile
<1>10. ASSUME NEW c \in Conv, NEW response \in Response,
              NEW through \in 0..MaxSeq,
              ReadForContinuation(c, response, through)
       PROVE  items' \subseteq items /\ UNCHANGED <<conv, turns>>
  BY <1>10 DEF ReadForContinuation
<1>11. ASSUME NEW k \in reading, InsertContinuation(k)
       PROVE  items' \subseteq items /\ UNCHANGED <<conv, turns>>
  BY <1>11 DEF InsertContinuation
<1>12. CASE UNCHANGED vars
  BY <1>12 DEF vars, RowsOwned
<1>13. ASSUME items' \subseteq items, UNCHANGED <<conv, turns>>
       PROVE  RowsOwned'
  BY <1>13 DEF RowsOwned
<1> QED
  BY <1>1, <1>2, <1>3, <1>4, <1>5, <1>6, <1>7, <1>8, <1>9, <1>10, <1>11,
     <1>12, <1>13 DEF Next

-----------------------------------------------------------------------------
(* Batches.                                                                *)

\* The rows of append_batches stay below next_seq.
LEMMA BatchesStep ==
  ASSUME TypeOK, BatchesInRange, [Next]_vars
  PROVE  BatchesInRange'
<1>0. /\ nextSeq \in [Conv -> Int]
      /\ \A b \in batches : b.conv \in Conv /\ b.last \in Int
  BY BoundAssumption DEF TypeOK, Batch
<1>1. ASSUME NEW c \in Conv, NEW turn \in 0..MaxTurns,
             NEW source \in {"user", "agent"}, NEW payload \in Payload,
             InsertItems(c, turn, source, payload), batches' = batches
      PROVE  BatchesInRange'
  <2>1. /\ nextSeq'[c] > nextSeq[c]
        /\ \A d \in Conv : d # c => nextSeq'[d] = nextSeq[d]
        /\ nextSeq' \in [Conv -> Int]
    BY <1>1, InsertedItems, InsertItemsType, BoundAssumption
  <2> QED
    BY <1>0, <1>1, <2>1 DEF BatchesInRange
<1>2. ASSUME NEW k \in StartKey, NEW r \in Request, NEW began \in 0..MaxTurns,
             StartTurnExisting(k, r, began)
      PROVE  BatchesInRange'
  <2>1. r.target \in Conv /\ r.payload \in Payload /\ lastTurn + 1 \in 0..MaxTurns
    BY <1>2, BoundAssumption
       DEF StartTurnExisting, Request, InsertTurn, TypeOK
  <2> QED
    BY <1>1, <1>2, <2>1 DEF StartTurnExisting
<1>3. ASSUME NEW k \in StartKey, NEW r \in Request, NEW c \in Conv,
             NEW began \in 0..MaxTurns, StartTurnCreate(k, r, c, began)
      PROVE  BatchesInRange'
  <2>1. r.payload \in Payload /\ lastTurn + 1 \in 0..MaxTurns
    BY <1>3, BoundAssumption
       DEF StartTurnCreate, Request, InsertTurn, TypeOK
  <2> QED
    BY <1>1, <1>3, <2>1 DEF StartTurnCreate
<1>4. ASSUME NEW c \in Conv, NEW key \in BatchKey, NEW turn \in 0..MaxTurns,
             NEW source \in {"user", "agent"}, NEW payload \in Payload,
             AppendItems(c, key, turn, source, payload)
      PROVE  BatchesInRange'
  <2> DEFINE new == [conv |-> c, key |-> key, first |-> nextSeq[c],
                     last |-> nextSeq[c] + Len(payload) - 1]
  <2>1. batches' = batches \cup {new} /\ InsertItems(c, turn, source, payload)
    BY <1>4 DEF AppendItems
  <2>2. new.conv = c /\ new.last = nextSeq[c] + Len(payload) - 1
    OBVIOUS
  <2> HIDE DEF new
  <2>3. /\ nextSeq'[c] = nextSeq[c] + Len(payload)
        /\ \A d \in Conv : d # c => nextSeq'[d] = nextSeq[d]
    BY <1>0, <2>1 DEF InsertItems
  <2>4. Len(payload) \in Nat
    BY PayloadAssumption
  <2> QED
    BY <1>0, <2>1, <2>2, <2>3, <2>4 DEF BatchesInRange
<1>5. ASSUME NEW c \in Conv, NEW cut \in items, TruncateConversation(c, cut)
      PROVE  BatchesInRange'
  BY <1>0, <1>5 DEF TruncateConversation, BatchesBefore, BatchesInRange
<1>6. ASSUME NEW c \in Conv,
             \/ CreateConversation(c) \/ DeleteConversation(c)
             \/ RegenerateConversation(c)
      PROVE  batches' \subseteq batches /\ nextSeq' = nextSeq
  BY <1>6 DEF CreateConversation, DeleteConversation, RegenerateConversation
<1>7. ASSUME NEW f \in File, SaveFile(f) \/ RemoveFile(f)
      PROVE  batches' \subseteq batches /\ nextSeq' = nextSeq
  BY <1>7 DEF SaveFile, RemoveFile
<1>8. ASSUME NEW c \in Conv, NEW key \in TurnKey, NEW began \in 0..MaxTurns,
             CreateTurn(c, key, began)
      PROVE  batches' \subseteq batches /\ nextSeq' = nextSeq
  BY <1>8 DEF CreateTurn
<1>9. ASSUME NEW t \in turns, NEW active \in BOOLEAN, UpdateTurn(t, active)
      PROVE  batches' \subseteq batches /\ nextSeq' = nextSeq
  BY <1>9 DEF UpdateTurn
<1>10. ASSUME NEW c \in Conv, NEW response \in Response,
              NEW through \in 0..MaxSeq,
              ReadForContinuation(c, response, through)
       PROVE  batches' \subseteq batches /\ nextSeq' = nextSeq
  BY <1>10 DEF ReadForContinuation
<1>11. ASSUME NEW k \in reading, InsertContinuation(k)
       PROVE  batches' \subseteq batches /\ nextSeq' = nextSeq
  BY <1>11 DEF InsertContinuation
<1>12. CASE UNCHANGED vars
  BY <1>12 DEF vars, BatchesInRange
<1>13. ASSUME batches' \subseteq batches, nextSeq' = nextSeq
       PROVE  BatchesInRange'
  BY <1>13 DEF BatchesInRange
<1> QED
  BY <1>2, <1>3, <1>4, <1>5, <1>6, <1>7, <1>8, <1>9, <1>10, <1>11, <1>12,
     <1>13 DEF Next

-----------------------------------------------------------------------------
(* Turn starts.                                                            *)

\* What the row a start records says of its items.
LEMMA RecordedStart ==
  ASSUME TypeOK, NEW c \in Conv, NEW k \in StartKey, NEW r \in Request,
         RecordStart(k, r, c), InsertItems(c, lastTurn + 1, "user", r.payload),
         lastTurn + 1 \in 0..MaxTurns
  PROVE  /\ starts \subseteq starts'
         /\ \A s \in starts' \ starts :
              /\ s.key = k /\ s.conv = c /\ s.turn = lastTurn + 1
              /\ s.first <= s.last
              /\ {ch.seq : ch \in s.children} = s.first..s.last
              /\ \A ch \in s.children : ch.id <= lastItem'
         /\ \A s, u \in starts' \ starts : s = u
<1> DEFINE n == Len(r.payload)
           child(j) == [id |-> lastItem + j, seq |-> nextSeq[c] + j - 1]
           new == [key |-> k, request |-> r, conv |-> c, turn |-> lastTurn + 1,
                   first |-> nextSeq[c], last |-> nextSeq[c] + n - 1,
                   children |-> {child(j) : j \in 1..n}]
<1>1. r.payload \in Payload /\ n \in Nat \ {0}
  BY PayloadAssumption DEF Request
<1>2. starts' = starts \cup {new}
  BY Zenon DEF RecordStart
<1>3. /\ new.key = k /\ new.conv = c /\ new.turn = lastTurn + 1
      /\ new.first = nextSeq[c] /\ new.last = nextSeq[c] + n - 1
      /\ new.children = {child(j) : j \in 1..n}
  OBVIOUS
<1>4. lastItem' = lastItem + n /\ lastItem \in Int /\ nextSeq[c] \in Int
  BY BoundAssumption DEF InsertItems, TypeOK
<1>5. \A ch \in {child(j) : j \in 1..n} : ch.id <= lastItem'
  BY <1>1, <1>4
<1>6. {ch.seq : ch \in new.children} = new.first..new.last
  <2>1. \A j \in 1..n : child(j).seq \in nextSeq[c]..(nextSeq[c] + n - 1)
    BY <1>1, <1>4
  <2>2. ASSUME NEW x \in nextSeq[c]..(nextSeq[c] + n - 1)
        PROVE  \E ch \in {child(j) : j \in 1..n} : ch.seq = x
    <3>1. /\ x - nextSeq[c] + 1 \in 1..n
          /\ child(x - nextSeq[c] + 1).seq = x
      BY <1>1, <1>4, SMTT(40)
    <3> QED
      BY <3>1
  <2> HIDE DEF child
  <2> QED
    BY <1>3, <2>1, <2>2
<1> HIDE DEF new
<1>7. new.first <= new.last
  BY <1>1, <1>3, <1>4
<1>8. \A ch \in new.children : ch.id <= lastItem'
  BY <1>3, <1>5
<1> HIDE DEF child
<1> QED
  BY <1>2, <1>3, <1>6, <1>7, <1>8

\* A step keeps every start, and adds at most one, under an unused key.
LEMMA StartSteps ==
  ASSUME TypeOK, [Next]_vars
  PROVE  /\ starts \subseteq starts'
         /\ \A s, u \in starts' \ starts : s = u
         /\ \A s \in starts' \ starts :
              /\ ~KeyUsed(s.key)
              /\ s.first <= s.last
              /\ {ch.seq : ch \in s.children} = s.first..s.last
              /\ s.turn = lastTurn + 1
              /\ s.turn <= lastTurn'
              /\ \A ch \in s.children : ch.id <= lastItem'
              /\ conv'[s.conv] = "live"
              /\ \E t \in turns' : t.id = s.turn /\ t.conv = s.conv
              /\ \A i \in items' \ items : i.source = "user"
<1>1. ASSUME NEW c \in Conv, NEW k \in StartKey, NEW r \in Request,
             NEW began \in 0..MaxTurns,
             RecordStart(k, r, c), InsertTurn(c, NoKey, began),
             InsertItems(c, lastTurn + 1, "user", r.payload),
             ~KeyUsed(k), conv'[c] = "live"
      PROVE  /\ starts \subseteq starts'
             /\ \A s, u \in starts' \ starts : s = u
             /\ \A s \in starts' \ starts :
                  /\ ~KeyUsed(s.key)
                  /\ s.first <= s.last
                  /\ {ch.seq : ch \in s.children} = s.first..s.last
                  /\ s.turn = lastTurn + 1
                  /\ s.turn <= lastTurn'
                  /\ \A ch \in s.children : ch.id <= lastItem'
                  /\ conv'[s.conv] = "live"
                  /\ \E t \in turns' : t.id = s.turn /\ t.conv = s.conv
                  /\ \A i \in items' \ items : i.source = "user"
  <2> DEFINE new == [id |-> lastTurn + 1, conv |-> c, key |-> NoKey,
                     created |-> began, active |-> TRUE, snapshot |-> Refs(c)]
  <2>1. new \in turns' /\ lastTurn' = lastTurn + 1
    BY <1>1 DEF InsertTurn
  <2>2. new.id = lastTurn + 1 /\ new.conv = c
    OBVIOUS
  <2> HIDE DEF new
  <2>3. lastTurn + 1 \in 0..MaxTurns /\ lastTurn' \in Int
    BY <1>1, <2>1, BoundAssumption DEF InsertTurn, TypeOK
  <2>4. r.payload \in Payload
    BY DEF Request
  <2>5. \A i \in items' \ items : i.source = "user"
    BY <1>1, <2>3, <2>4, InsertedItems
  <2>6. /\ starts \subseteq starts'
        /\ \A s \in starts' \ starts :
             /\ s.key = k /\ s.conv = c /\ s.turn = lastTurn + 1
             /\ s.first <= s.last
             /\ {ch.seq : ch \in s.children} = s.first..s.last
             /\ \A ch \in s.children : ch.id <= lastItem'
        /\ \A s, u \in starts' \ starts : s = u
    BY <1>1, <2>3, RecordedStart
  <2> QED
    BY <1>1, <2>1, <2>2, <2>3, <2>5, <2>6
<1>2. ASSUME NEW k \in StartKey, NEW r \in Request, NEW began \in 0..MaxTurns,
             StartTurnExisting(k, r, began)
      PROVE  /\ r.target \in Conv /\ conv'[r.target] = "live"
             /\ RecordStart(k, r, r.target) /\ ~KeyUsed(k)
             /\ InsertTurn(r.target, NoKey, began)
             /\ InsertItems(r.target, lastTurn + 1, "user", r.payload)
  BY <1>2 DEF StartTurnExisting, Request
<1>3. ASSUME NEW k \in StartKey, NEW r \in Request, NEW c \in Conv,
             NEW began \in 0..MaxTurns, StartTurnCreate(k, r, c, began)
      PROVE  /\ conv'[c] = "live" /\ lastTurn \in 0..MaxTurns
             /\ RecordStart(k, r, c) /\ ~KeyUsed(k)
             /\ InsertTurn(c, NoKey, began)
             /\ InsertItems(c, lastTurn + 1, "user", r.payload)
  BY <1>3 DEF StartTurnCreate, TypeOK
<1>4. ASSUME \/ \E c \in Conv : CreateConversation(c) \/ DeleteConversation(c)
             \/ \E f \in File : SaveFile(f) \/ RemoveFile(f)
             \/ \E c \in Conv, key \in TurnKey, began \in 0..MaxTurns :
                  CreateTurn(c, key, began)
             \/ \E t \in turns, active \in BOOLEAN : UpdateTurn(t, active)
             \/ \E c \in Conv, key \in BatchKey, turn \in 0..MaxTurns,
                   source \in {"user", "agent"}, payload \in Payload :
                  AppendItems(c, key, turn, source, payload)
             \/ \E c \in Conv, cut \in items : TruncateConversation(c, cut)
             \/ \E c \in Conv : RegenerateConversation(c)
             \/ \E c \in Conv, response \in Response, through \in 0..MaxSeq :
                  ReadForContinuation(c, response, through)
             \/ \E k \in reading : InsertContinuation(k)
             \/ UNCHANGED vars
      PROVE  starts' = starts
  BY <1>4 DEF CreateConversation, DeleteConversation, SaveFile, RemoveFile,
              CreateTurn, UpdateTurn, AppendItems, TruncateConversation,
              RegenerateConversation, ReadForContinuation, InsertContinuation,
              vars
<1> QED
  BY <1>1, <1>2, <1>3, <1>4 DEF Next

\* The bookkeeping of starts is kept.
LEMMA StartsStep ==
  ASSUME TypeOK, StartsRecorded, RowsOwned, [Next]_vars
  PROVE  StartsRecorded'
<1>0. /\ lastItem \in Int /\ lastTurn \in Int
      /\ \A s \in starts : /\ s.conv \in Conv /\ s.turn \in Int
                           /\ \A ch \in s.children : ch.id \in Int
  BY BoundAssumption DEF TypeOK, Start
<1>1. /\ starts \subseteq starts'
      /\ \A s, u \in starts' \ starts : s = u
      /\ \A s \in starts' \ starts :
           /\ ~KeyUsed(s.key)
           /\ s.first <= s.last
           /\ {ch.seq : ch \in s.children} = s.first..s.last
           /\ s.turn <= lastTurn'
           /\ \A ch \in s.children : ch.id <= lastItem'
           /\ conv'[s.conv] = "live"
           /\ \E t \in turns' : t.id = s.turn /\ t.conv = s.conv
  BY StartSteps
<1>2. lastItem' >= lastItem /\ lastItem' \in Int
  BY OldItems, ItemSteps, <1>0, InsertItemsType, BoundAssumption
     DEF TruncateConversation
<1>3. lastTurn' >= lastTurn /\ lastTurn' \in Int
  BY <1>0, TurnSteps DEF InsertTurn, UpdateTurn
<1>4. \A s, u \in starts' : s.key = u.key => s = u
  BY <1>1 DEF StartsRecorded, KeyUsed
<1>5. ASSUME NEW s \in starts
      PROVE  /\ s.first <= s.last
             /\ {ch.seq : ch \in s.children} = s.first..s.last
             /\ s.turn <= lastTurn'
             /\ \A ch \in s.children : ch.id <= lastItem'
             /\ conv'[s.conv] # "unborn"
             /\ conv'[s.conv] = "live" =>
                  \E t \in turns' : t.id = s.turn /\ t.conv = s.conv
  <2>1. conv'[s.conv] # "unborn" /\ (conv'[s.conv] = "live" => conv[s.conv] = "live")
    BY <1>0, ConvSteps DEF StartsRecorded
  <2>2. ASSUME conv'[s.conv] = "live"
        PROVE  \E t \in turns' : t.id = s.turn /\ t.conv = s.conv
    <3>1. PICK t \in turns : t.id = s.turn /\ t.conv = s.conv
      BY <2>1, <2>2 DEF StartsRecorded
    <3> QED
      BY <2>1, <2>2, <3>1, TurnsPersist
  <2> QED
    BY <1>0, <1>2, <1>3, <2>1, <2>2 DEF StartsRecorded
<1> QED
  BY <1>1, <1>4, <1>5 DEF StartsRecorded

\* A result that is lost stays lost: whatever is appended later carries new
\* ids, and a deleted conversation does not come back.
LEMMA LostStaysLost ==
  ASSUME TypeOK, StartsRecorded, [Next]_vars, NEW s \in starts, Intact(s)'
  PROVE  Intact(s)
<1>0. s.conv \in Conv
  BY DEF TypeOK, Start
<1>1. conv[s.conv] = "live"
  BY <1>0, ConvSteps DEF Intact, StartsRecorded
<1>2. ASSUME NEW ch \in s.children
      PROVE  \E i \in items : /\ i.id = ch.id /\ i.seq = ch.seq
                              /\ i.conv = s.conv /\ i.turn = s.turn
  <2>1. PICK i \in items' : /\ i.id = ch.id /\ i.seq = ch.seq
                            /\ i.conv = s.conv /\ i.turn = s.turn
    BY DEF Intact
  <2>2. i \in items
    BY <2>1, OldItems DEF StartsRecorded
  <2> QED
    BY <2>1, <2>2
<1> QED
  BY <1>1, <1>2 DEF Intact

\* The last triggering item of an intact start is below next_seq.
LEMMA IntactBelowNext ==
  ASSUME TypeOK, SequenceDiscipline, StartsRecorded, NEW s \in starts, Intact(s)
  PROVE  s.last < nextSeq[s.conv]
<1>1. s.first \in Int /\ s.last \in Int /\ s.first <= s.last
  BY BoundAssumption DEF TypeOK, Start, StartsRecorded
<1>2. s.last \in {ch.seq : ch \in s.children}
  BY <1>1 DEF Intact
<1>3. PICK ch \in s.children : ch.seq = s.last
  BY <1>2
<1>4. PICK i \in items : i.seq = s.last /\ i.conv = s.conv
  BY <1>3 DEF Intact
<1> QED
  BY <1>4 DEF SequenceDiscipline

\* A new item takes a number at or past next_seq.
LEMMA NewItemsAbove ==
  ASSUME TypeOK, [Next]_vars
  PROVE  \A j \in items' \ items : j.seq >= nextSeq[j.conv]
<1>1. ASSUME NEW c \in Conv, NEW turn \in 0..MaxTurns,
             NEW source \in {"user", "agent"}, NEW payload \in Payload,
             InsertItems(c, turn, source, payload)
      PROVE  \A j \in items' \ items : j.seq >= nextSeq[j.conv]
  BY <1>1, InsertedItems
<1>2. ASSUME NEW c \in Conv, NEW cut \in items, TruncateConversation(c, cut)
      PROVE  items' \subseteq items
  BY <1>2 DEF TruncateConversation, ItemsBefore
<1> QED
  BY <1>1, <1>2, ItemSteps

\* Output of a turn stays above the triggering items of an intact start.
LEMMA OutputStep ==
  ASSUME TypeOK, SequenceDiscipline, IdDiscipline, RowsOwned, StartsRecorded,
         OutputAboveStart, [Next]_vars, TypeOK'
  PROVE  OutputAboveStart'
<1> SUFFICES ASSUME NEW s \in starts', NEW i \in items', Intact(s)',
                    i.conv = s.conv, i.source = "agent", i.turn >= s.turn
             PROVE  i.seq > s.last
  BY DEF OutputAboveStart
<1>1. \A j \in items' \ items : j.seq >= nextSeq[j.conv]
  BY NewItemsAbove
<1>2. CASE s \in starts
  <2>1. Intact(s)
    BY <1>2, LostStaysLost
  <2>2. CASE i \in items
    BY <1>2, <2>1, <2>2 DEF OutputAboveStart
  <2>3. CASE i \notin items
    <3>1. s.conv \in Conv /\ s.last \in Int /\ nextSeq[s.conv] \in Int
      BY <1>2, BoundAssumption DEF TypeOK, Start
    <3>2. i.seq >= nextSeq[s.conv] /\ s.last < nextSeq[s.conv]
      BY <1>1, <1>2, <2>1, <2>3, <3>1, IntactBelowNext
    <3>3. i.seq \in Int
      BY BoundAssumption DEF TypeOK, Item
    <3> QED
      BY <3>1, <3>2, <3>3
  <2> QED
    BY <2>2, <2>3
<1>3. CASE s \notin starts
  <2>1. s.turn = lastTurn + 1 /\ \A j \in items' \ items : j.source = "user"
    BY <1>3, StartSteps
  <2>2. i \in items
    BY <2>1
  <2>3. i.turn \in Int /\ lastTurn \in Int /\ lastTurn >= 0
    BY <2>2, BoundAssumption DEF TypeOK, Item
  <2>4. i.turn # NoTurn => i.turn <= lastTurn
    BY <2>2 DEF RowsOwned, IdDiscipline
  <2> QED
    BY <2>1, <2>3, <2>4 DEF NoTurn
<1> QED
  BY <1>2, <1>3

-----------------------------------------------------------------------------
(* The inductive invariant.                                                *)

LEMMA InitIInv == Init => IInv
<1>1. Init => TypeOK
  BY BoundAssumption DEF Init, TypeOK, Life
<1> QED
  BY <1>1 DEF Init, IInv, OneActiveTurn, SequenceDiscipline, FilesResolve,
              IdDiscipline, RowsOwned, BatchesInRange, StartsRecorded,
              OutputAboveStart

LEMMA NextIInv ==
  ASSUME IInv, [Next]_vars
  PROVE  IInv'
<1>0. TypeOK'
  BY TypeStep DEF IInv
<1>1. /\ SequenceDiscipline'
      /\ \A i \in items' : i.id <= lastItem'
      /\ \A i, j \in items' : i.id = j.id => i = j
  BY ItemsStep DEF IInv
<1>2. /\ OneActiveTurn'
      /\ \A t \in turns' : t.id <= lastTurn'
      /\ \A t, u \in turns' : t.id = u.id => t = u
  BY TurnsStep DEF IInv
<1>3. IdDiscipline'
  BY <1>1, <1>2 DEF IdDiscipline
<1>4. FilesResolve' /\ RowsOwned' /\ BatchesInRange' /\ StartsRecorded'
  BY FilesStep, RowsOwnedStep, BatchesStep, StartsStep DEF IInv
<1>5. OutputAboveStart'
  BY <1>0, OutputStep DEF IInv
<1> QED
  BY <1>0, <1>1, <1>2, <1>3, <1>4, <1>5 DEF IInv

\* The strengthened invariant holds in every reachable state.
THEOREM Inductive == Spec => []IInv
<1>1. IInv /\ [Next]_vars => IInv'
  BY NextIInv
<1> QED
  BY <1>1, InitIInv, PTL DEF Spec

\* However appends, turn starts, truncations, regenerations and deletions
\* interleave, no two items of a conversation share a number, and a
\* conversation has at most one active turn whatever update_turn does.
THEOREM SequenceSafety == Spec => []SequenceDiscipline
<1>1. IInv => SequenceDiscipline
  BY DEF IInv
<1> QED
  BY <1>1, Inductive, PTL

THEOREM OneActive == Spec => []OneActiveTurn
<1>1. IInv => OneActiveTurn
  BY DEF IInv
<1> QED
  BY <1>1, Inductive, PTL

\* files::remove never leaves an item or a turn snapshot with a file id that
\* resolves to nothing.
THEOREM FilesSafety == Spec => []FilesResolve
<1>1. IInv => FilesResolve
  BY DEF IInv
<1> QED
  BY <1>1, Inductive, PTL

-----------------------------------------------------------------------------
(* Action properties.                                                      *)

\* Items leave by deletion of their conversation, truncation or regeneration.
LEMMA ItemLoss ==
  ASSUME TypeOK, [Next]_vars
  PROVE  \/ items \subseteq items'
         \/ \E c \in Conv : DeleteConversation(c)
         \/ \E c \in Conv, cut \in items : TruncateConversation(c, cut)
         \/ \E c \in Conv : RegenerateConversation(c)
<1>1. ASSUME \/ \E c \in Conv : CreateConversation(c)
             \/ \E f \in File : SaveFile(f) \/ RemoveFile(f)
             \/ \E c \in Conv, key \in TurnKey, began \in 0..MaxTurns :
                  CreateTurn(c, key, began)
             \/ \E t \in turns, active \in BOOLEAN : UpdateTurn(t, active)
             \/ \E c \in Conv, response \in Response, through \in 0..MaxSeq :
                  ReadForContinuation(c, response, through)
             \/ \E k \in reading : InsertContinuation(k)
             \/ UNCHANGED vars
      PROVE  items' = items
  BY <1>1 DEF CreateConversation, SaveFile, RemoveFile, CreateTurn, UpdateTurn,
              ReadForContinuation, InsertContinuation, vars
<1>2. ASSUME \/ \E k \in StartKey, r \in Request, began \in 0..MaxTurns :
                  StartTurnExisting(k, r, began)
             \/ \E k \in StartKey, r \in Request, c \in Conv, began \in 0..MaxTurns :
                  StartTurnCreate(k, r, c, began)
             \/ \E c \in Conv, key \in BatchKey, turn \in 0..MaxTurns,
                   source \in {"user", "agent"}, payload \in Payload :
                  AppendItems(c, key, turn, source, payload)
      PROVE  items \subseteq items'
  BY <1>2 DEF StartTurnExisting, StartTurnCreate, AppendItems, InsertItems
<1> QED
  BY <1>1, <1>2 DEF Next

\* What a regeneration of c removes belongs to one of its latest turns.
LEMMA RegeneratedItems ==
  ASSUME TypeOK, RowsOwned, IdDiscipline, NEW c \in Conv,
         RegenerateConversation(c)
  PROVE  \E t \in LatestTurns(c) : \A i \in items \ items' :
           i.turn = t.id /\ i.conv = c /\ i.source = "agent"
<1>1. PICK t \in LatestTurns(c) :
        items' = {i \in items : ~(i.turn = t.id /\ i.source = "agent")}
  BY DEF RegenerateConversation
<1>2. t \in turns /\ t.conv = c /\ t.id # NoTurn
  BY DEF LatestTurns, TurnsOf, TypeOK, Turn, NoTurn
<1>3. ASSUME NEW i \in items \ items'
      PROVE  i.turn = t.id /\ i.conv = c /\ i.source = "agent"
  <2>1. i.turn = t.id /\ i.source = "agent"
    BY <1>1
  <2>2. PICK u \in turns : u.id = i.turn /\ u.conv = i.conv
    BY <1>2, <2>1 DEF RowsOwned
  <2>3. u = t
    BY <1>2, <2>1, <2>2 DEF IdDiscipline
  <2> QED
    BY <1>2, <2>1, <2>2, <2>3
<1> QED
  BY <1>3

\* A step brings no new item into the range of a batch that stays.
LEMMA BatchRangeStep ==
  ASSUME IInv, [Next]_vars, NEW b \in batches
  PROVE  Between(b.conv, b.first, b.last)' \subseteq
           Between(b.conv, b.first, b.last)
<1> SUFFICES ASSUME NEW i \in items', i.conv = b.conv,
                    i.seq \in b.first..b.last
             PROVE  i \in items
  BY DEF Between, ItemsOf
<1>1. /\ b.conv \in Conv /\ b.first \in Int /\ b.last \in Int
      /\ nextSeq[b.conv] \in Int
  BY BoundAssumption DEF IInv, TypeOK, Batch
<1>2. b.last < nextSeq[b.conv]
  BY DEF IInv, BatchesInRange
<1>3. i \notin items => i.seq >= nextSeq[b.conv]
  BY <1>1, NewItemsAbove DEF IInv
<1> QED
  BY <1>1, <1>2, <1>3

\* The range of an append never gains an item of another append.
THEOREM BatchOwnership == Spec => BatchKeepsItsItems
<1>1. IInv /\ [Next]_vars =>
        [\A b \in batches \cap batches' :
           Between(b.conv, b.first, b.last)' \subseteq
             Between(b.conv, b.first, b.last)]_vars
  BY BatchRangeStep
<1> QED
  BY <1>1, Inductive, PTL DEF Spec, BatchKeepsItsItems

\* The transcript under a continuation is fixed for as long as its row is.
THEOREM CheckpointFixed == Spec => CheckpointCoversFixedTranscript
<1>1. ASSUME IInv, [Next]_vars
      PROVE  \A k \in conts \cap conts' : k.through < nextSeq[k.conv] =>
               Between(k.conv, 1, k.through)' = Between(k.conv, 1, k.through)
  <2> SUFFICES ASSUME NEW k \in conts, k \in conts',
                      k.through < nextSeq[k.conv]
               PROVE  Between(k.conv, 1, k.through)'
                        = Between(k.conv, 1, k.through)
    OBVIOUS
  <2>0. /\ k.conv \in Conv /\ k.through \in Int /\ nextSeq[k.conv] \in Int
        /\ \A i \in items : i.seq \in Int
    BY <1>1, BoundAssumption DEF IInv, TypeOK, Continuation, Item
  <2>1. ASSUME NEW i \in items', i.conv = k.conv, i.seq \in 1..k.through
        PROVE  i \in items
    <3>1. i \notin items => i.seq >= nextSeq[k.conv]
      BY <1>1, <2>0, <2>1, NewItemsAbove DEF IInv
    <3> QED
      BY <2>0, <2>1, <3>1
  <2>2. ASSUME NEW i \in items, i.conv = k.conv, i.seq \in 1..k.through
        PROVE  i \in items'
    <3>1. CASE \E c \in Conv : DeleteConversation(c)
      BY <2>2, <3>1 DEF DeleteConversation, ItemsOf
    <3>2. CASE \E c \in Conv, cut \in items : TruncateConversation(c, cut)
      <4>1. PICK c \in Conv, cut \in items : TruncateConversation(c, cut)
        BY <3>2
      <4>2. /\ items' = {j \in items : j.conv = c => j.seq < cut.seq}
            /\ k.conv = c => k.through < cut.seq
        BY <4>1 DEF TruncateConversation, ItemsBefore, ContinuationsBefore
      <4> QED
        BY <2>0, <2>2, <4>2
    <3>3. CASE \E c \in Conv : RegenerateConversation(c)
      <4>1. PICK c \in Conv : RegenerateConversation(c)
        BY <3>3
      <4>2. k.conv # c
        BY <4>1 DEF RegenerateConversation
      <4>3. i \notin items' => i.conv = c
        BY <1>1, <4>1, RegeneratedItems DEF IInv
      <4> QED
        BY <2>2, <4>2, <4>3
    <3>4. CASE items \subseteq items'
      BY <3>4
    <3> QED
      BY <1>1, <3>1, <3>2, <3>3, <3>4, ItemLoss DEF IInv
  <2> QED
    BY <2>1, <2>2 DEF Between, ItemsOf
<1>2. IInv /\ [Next]_vars =>
        [\A k \in conts \cap conts' : k.through < nextSeq[k.conv] =>
           Between(k.conv, 1, k.through)' = Between(k.conv, 1, k.through)]_vars
  BY <1>1
<1> QED
  BY <1>2, Inductive, PTL DEF Spec, CheckpointCoversFixedTranscript

\* A turn start runs at most once per key, and its answer only ever moves
\* from the original result to idempotency_result_deleted.
THEOREM StartOnce == Spec => StartLifecycle
<1>1. ASSUME IInv, [Next]_vars, StartsRecorded'
      PROVE  /\ \A k \in StartKey, r \in Request :
                  /\ Replays(k, r) => Replays(k, r)' \/ ResultDeleted(k, r)'
                  /\ ResultDeleted(k, r) => ResultDeleted(k, r)'
                  /\ ~(Replays(k, r)' /\ (ResultDeleted(k, r)' \/ KeyReused(k, r)'))
             /\ \A s \in starts' \ starts : ~KeyUsed(s.key)
  <2>1. starts \subseteq starts' /\ \A s \in starts' \ starts : ~KeyUsed(s.key)
    BY <1>1, StartSteps DEF IInv
  <2>2. ASSUME NEW k \in StartKey, NEW r \in Request, Replays(k, r)
        PROVE  Replays(k, r)' \/ ResultDeleted(k, r)'
    BY <2>1, <2>2 DEF Replays, ResultDeleted
  <2>3. ASSUME NEW k \in StartKey, NEW r \in Request, ResultDeleted(k, r)
        PROVE  ResultDeleted(k, r)'
    BY <1>1, <2>1, <2>3, LostStaysLost DEF ResultDeleted, IInv
  <2>4. ASSUME NEW k \in StartKey, NEW r \in Request, Replays(k, r)'
        PROVE  ~(ResultDeleted(k, r)' \/ KeyReused(k, r)')
    BY <1>1, <2>4 DEF Replays, ResultDeleted, KeyReused, StartsRecorded
  <2> QED
    BY <2>1, <2>2, <2>3, <2>4
<1>2. IInv /\ IInv' /\ [Next]_vars =>
        [/\ \A k \in StartKey, r \in Request :
              /\ Replays(k, r) => Replays(k, r)' \/ ResultDeleted(k, r)'
              /\ ResultDeleted(k, r) => ResultDeleted(k, r)'
              /\ ~(Replays(k, r)' /\ (ResultDeleted(k, r)' \/ KeyReused(k, r)'))
         /\ \A s \in starts' \ starts : ~KeyUsed(s.key)]_vars
  BY <1>1 DEF IInv
<1> QED
  BY <1>2, Inductive, PTL DEF Spec, StartLifecycle

\* A step keeps the context of a start that it leaves intact, but for the output
\* of turns that overtook the start's.
LEMMA ContextStep ==
  ASSUME IInv, [Next]_vars, NEW s \in starts, Intact(s), Intact(s)'
  PROVE  /\ AgentContext(s)' \subseteq AgentContext(s)
         /\ \A i \in AgentContext(s) \ AgentContext(s)' : Overtakes(i, s)
<1>0. /\ s.conv \in Conv /\ s.last \in Int /\ nextSeq[s.conv] \in Int
      /\ s.first \in Int /\ s.first <= s.last /\ s.turn \in Int
      /\ \A i \in items : i.seq \in Int
      /\ \A t \in turns : t.created \in Int /\ t.id \in Int
  BY BoundAssumption
     DEF IInv, TypeOK, Start, Item, Turn, StartsRecorded
<1>1. ASSUME NEW i \in items', i.conv = s.conv, i.seq \in 1..s.last
      PROVE  i \in items
  <2>1. i \notin items => i.seq >= nextSeq[s.conv]
    BY <1>0, <1>1, NewItemsAbove DEF IInv
  <2>2. s.last < nextSeq[s.conv]
    BY IntactBelowNext DEF IInv
  <2> QED
    BY <1>0, <1>1, <2>1, <2>2
<1>2. ASSUME NEW i \in items, i.conv = s.conv, i.seq \in 1..s.last, i \notin items'
      PROVE  Overtakes(i, s)
  <2>1. CASE \E c \in Conv : DeleteConversation(c)
    <3>1. PICK c \in Conv : DeleteConversation(c)
      BY <2>1
    <3>2. conv' = [conv EXCEPT ![c] = "deleted"] /\ items' = items \ ItemsOf(c)
      BY <3>1 DEF DeleteConversation
    <3>3. s.conv # c
      BY <1>0, <3>2 DEF Intact, IInv, TypeOK
    <3> QED
      BY <1>2, <3>2, <3>3 DEF ItemsOf
  <2>2. CASE \E c \in Conv, cut \in items : TruncateConversation(c, cut)
    <3>1. PICK c \in Conv, cut \in items : TruncateConversation(c, cut)
      BY <2>2
    <3>2. items' = {j \in items : j.conv = c => j.seq < cut.seq}
      BY <3>1 DEF TruncateConversation, ItemsBefore
    <3>3. s.last \in {ch.seq : ch \in s.children}
      BY <1>0 DEF Intact
    <3>4. PICK j \in items' : j.seq = s.last /\ j.conv = s.conv
      BY <3>3 DEF Intact
    <3> QED
      BY <1>0, <1>2, <3>2, <3>4
  <2>3. CASE \E c \in Conv : RegenerateConversation(c)
    <3>1. PICK c \in Conv : RegenerateConversation(c)
      BY <2>3
    <3>2. PICK t \in LatestTurns(c) : \A j \in items \ items' :
            j.turn = t.id /\ j.conv = c /\ j.source = "agent"
      BY <3>1, RegeneratedItems DEF IInv
    <3>3. i.turn = t.id /\ s.conv = c /\ i.source = "agent"
      BY <1>2, <3>2
    <3>4. PICK u \in turns : u.id = s.turn /\ u.conv = s.conv
      BY DEF IInv, StartsRecorded, Intact
    <3>5. t \in turns /\ t.conv = s.conv /\ u.created <= t.created
      BY <3>3, <3>4 DEF LatestTurns, TurnsOf
    <3>6. i.turn < s.turn
      <4>1. ~(i.turn >= s.turn)
        BY <1>0, <1>2, <3>3 DEF IInv, OutputAboveStart
      <4> QED
        BY <1>0, <3>3, <3>5, <4>1
    <3> QED
      BY <3>3, <3>4, <3>5, <3>6 DEF Overtakes, TurnsOf
  <2>4. CASE items \subseteq items'
    BY <1>2, <2>4
  <2> QED
    BY <2>1, <2>2, <2>3, <2>4, ItemLoss DEF IInv
<1> QED
  BY <1>1, <1>2 DEF AgentContext, Between, ItemsOf

\* Among turns that committed in the order in which they began none overtook
\* another.
LEMMA ContextInOrder ==
  ASSUME IInv, [Next]_vars, NEW s \in starts, Intact(s), Intact(s)',
         CommittedInOrder(s.conv)
  PROVE  AgentContext(s)' = AgentContext(s)
<1>1. ASSUME NEW i, Overtakes(i, s)
      PROVE  FALSE
  <2>1. PICK t \in TurnsOf(s.conv), u \in TurnsOf(s.conv) :
          t.id = i.turn /\ u.id = s.turn /\ u.created <= t.created /\ t.id < u.id
    BY <1>1 DEF Overtakes
  <2>2. t.created \in Int /\ u.created \in Int
    BY BoundAssumption DEF TurnsOf, IInv, TypeOK, Turn
  <2> QED
    BY <2>1, <2>2 DEF CommittedInOrder
<1> QED
  BY <1>1, ContextStep

\* The context an agent replay returns is fixed while the start is intact, but
\* for what turns that overtook the start's have written.
THEOREM AgentContextFixed == Spec => AgentContextStable
<1>1. IInv /\ [Next]_vars =>
        [\A s \in starts : Intact(s) /\ Intact(s)' =>
           /\ AgentContext(s)' \subseteq AgentContext(s)
           /\ \A i \in AgentContext(s) \ AgentContext(s)' : Overtakes(i, s)]_vars
  BY ContextStep
<1> QED
  BY <1>1, Inductive, PTL DEF Spec, AgentContextStable
=============================================================================
