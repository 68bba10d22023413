----------------------------- MODULE FilesProofs -----------------------------
(***************************************************************************)
(* Proofs about Files: types, and what an answered save may rely on.       *)
(***************************************************************************)
EXTENDS Files, TLAPS

\* The row of a file tells how far its save has come,
RowsFollowSaves ==
  \A f \in File :
    /\ row[f] \in {NoRow, Removed, StorageKey[f]}
    /\ saving[f] \in {"idle", "put"} => row[f] = NoRow
    /\ saving[f] = "inserted" => row[f] = StorageKey[f]
    /\ saving[f] = "answered" => row[f] # NoRow
    /\ row[f] = Removed => saving[f] = "answered"
\* an object is there from the put to the answer,
SavesBacked ==
  \A f \in File : saving[f] \in {"put", "inserted"} => StorageKey[f] \in stored
\* and removers hold the keys of removed files, those they have emptied empty.
RemovalsOwn ==
  /\ \A k \in deletions : \E f \in File : k = StorageKey[f] /\ row[f] = Removed
  /\ erased \subseteq deletions \ stored

\* The inductive invariant behind AnsweredBacked and AnsweredTracked.
IInv ==
  /\ TypeOK /\ RowsFollowSaves /\ SavesBacked /\ RemovalsOwn
  /\ AnsweredBacked /\ AnsweredTracked

-----------------------------------------------------------------------------
\* The steps of one save leave the other files alone.
LEMMA OneSave ==
  ASSUME TypeOK, NEW f \in File, NEW from, NEW to, Moves(f, from, to)
  PROVE  /\ saving[f] = from /\ saving'[f] = to
         /\ \A g \in File \ {f} : saving'[g] = saving[g]
BY DEF TypeOK, Moves

\* Every step keeps the types.
LEMMA TypeStep == TypeOK /\ [Next]_vars => TypeOK'
<1> SUFFICES ASSUME TypeOK, [Next]_vars
             PROVE  TypeOK'
  OBVIOUS
<1> USE KeyAssumption DEF rowVars, TypeOK, RowsTypeOK
<1>1. ASSUME NEW f \in File, PutObject(f) \/ PutFails(f)
      PROVE  TypeOK'
  BY <1>1 DEF PutObject, PutFails, Moves, Saving
<1>2. ASSUME NEW f \in File, InsertRow(f)
      PROVE  TypeOK'
  BY <1>2 DEF InsertRow, Moves, Saving
<1>3. ASSUME NEW f \in File, InsertFails(f) \/ AnswerSave(f)
      PROVE  TypeOK'
  BY <1>3 DEF InsertFails, AnswerSave, Moves, Saving
<1>4. ASSUME NEW f \in File, UndoPut(f) \/ SaverStops(f)
      PROVE  TypeOK'
  BY <1>4 DEF UndoPut, SaverStops, Moves, Saving
<1>5. ASSUME NEW f \in File, RemoveAnswered(f)
      PROVE  TypeOK'
  BY <1>5 DEF RemoveAnswered, Remove, Live
<1>6. CASE RemovalNext /\ UNCHANGED saving
  BY <1>6 DEF RemovalNext, EraseObject, ForgetDeletion, RemoverStops
<1>7. CASE UNCHANGED vars
  BY <1>7 DEF vars
<1> QED
  BY <1>1, <1>2, <1>3, <1>4, <1>5, <1>6, <1>7 DEF Next

\* The empty tables satisfy the invariant.
LEMMA InitIInv == Init => IInv
BY KeyAssumption, RowAssumption
   DEF Init, RowsInit, IInv, TypeOK, RowsTypeOK, Saving, RowsFollowSaves, SavesBacked,
       RemovalsOwn, AnsweredBacked, AnsweredTracked, Live

\* Keys in file_deletion_outbox are not those of a file without a removed row.
LEMMA NotRemoved ==
  ASSUME IInv, NEW f \in File, row[f] # Removed
  PROVE  StorageKey[f] \notin deletions /\ StorageKey[f] \notin erased
BY KeyAssumption DEF IInv, RemovalsOwn

\* The put, and its failure, of files::save.
LEMMA PutStep ==
  ASSUME IInv, NEW f \in File, PutObject(f) \/ PutFails(f)
  PROVE  RowsFollowSaves' /\ SavesBacked' /\ RemovalsOwn'
         /\ AnsweredBacked' /\ AnsweredTracked'
<1> USE KeyAssumption DEF IInv
<1>1. TypeOK
  OBVIOUS
<1>2. /\ saving[f] = "idle" /\ saving'[f] \in {"put", "failed"}
      /\ \A g \in File \ {f} : saving'[g] = saving[g]
      /\ UNCHANGED <<row, deletions, erased>>
      /\ stored' \in {stored, stored \cup {StorageKey[f]}}
      /\ saving'[f] = "put" => StorageKey[f] \in stored'
  BY <1>1, OneSave DEF PutObject, PutFails
<1>3. row[f] = NoRow
  BY <1>2 DEF RowsFollowSaves
<1>4. StorageKey[f] \notin erased
  BY <1>3, NotRemoved, RowAssumption
<1>5. \A g \in File \ {f} : StorageKey[g] \in stored' <=> StorageKey[g] \in stored
  BY <1>2
<1> QED
  BY <1>2, <1>3, <1>4, <1>5, RowAssumption
     DEF RowsFollowSaves, SavesBacked, RemovalsOwn, AnsweredBacked, AnsweredTracked, Live

\* The insert of files::save commits.
LEMMA InsertStep ==
  ASSUME IInv, NEW f \in File, InsertRow(f)
  PROVE  RowsFollowSaves' /\ SavesBacked' /\ RemovalsOwn'
         /\ AnsweredBacked' /\ AnsweredTracked'
<1> USE KeyAssumption, RowAssumption DEF IInv
<1>1. TypeOK
  OBVIOUS
<1>2. /\ saving[f] = "put" /\ saving'[f] = "inserted"
      /\ \A g \in File \ {f} : saving'[g] = saving[g]
      /\ row' = [row EXCEPT ![f] = StorageKey[f]]
      /\ UNCHANGED <<stored, deletions, erased>>
  BY <1>1, OneSave DEF InsertRow
<1>3. /\ row[f] = NoRow /\ row'[f] = StorageKey[f]
      /\ \A g \in File \ {f} : row'[g] = row[g]
  BY <1>1, <1>2 DEF RowsFollowSaves, TypeOK, RowsTypeOK
<1>4. \A g \in File : row[g] = Removed <=> row'[g] = Removed
  BY <1>3
<1> QED
  BY <1>2, <1>3, <1>4
     DEF RowsFollowSaves, SavesBacked, RemovalsOwn, AnsweredBacked, AnsweredTracked, Live

\* The save answers, fails or stops; what it undoes is its own.
LEMMA EndStep ==
  ASSUME IInv, NEW f \in File,
         AnswerSave(f) \/ InsertFails(f) \/ UndoPut(f) \/ SaverStops(f)
  PROVE  RowsFollowSaves' /\ SavesBacked' /\ RemovalsOwn'
         /\ AnsweredBacked' /\ AnsweredTracked'
<1> USE KeyAssumption, RowAssumption DEF IInv, rowVars
<1>1. TypeOK
  OBVIOUS
<1>2. /\ \A g \in File \ {f} : saving'[g] = saving[g]
      /\ UNCHANGED <<row, deletions, erased>>
      /\ stored' \in {stored, stored \ {StorageKey[f]}}
      /\ saving[f] \in {"put", "inserted", "undoing"}
      /\ \/ saving'[f] \in {"undoing", "failed"}
         \/ saving[f] = "inserted" /\ saving'[f] = "answered" /\ stored' = stored
  BY <1>1, OneSave DEF AnswerSave, InsertFails, UndoPut, SaverStops
<1>3. row[f] # Removed
  BY <1>2 DEF RowsFollowSaves
<1>4. \A g \in File \ {f} : StorageKey[g] \in stored' <=> StorageKey[g] \in stored
  BY <1>2
<1>5. StorageKey[f] \in stored \/ saving'[f] # "answered"
  BY <1>2 DEF SavesBacked
<1> QED
  BY <1>2, <1>3, <1>4, <1>5
     DEF RowsFollowSaves, SavesBacked, RemovalsOwn, AnsweredBacked, AnsweredTracked, Live

\* files::remove commits.
LEMMA RemoveStep ==
  ASSUME IInv, NEW f \in File, RemoveAnswered(f)
  PROVE  RowsFollowSaves' /\ SavesBacked' /\ RemovalsOwn'
         /\ AnsweredBacked' /\ AnsweredTracked'
<1> USE KeyAssumption, RowAssumption DEF IInv
<1>1. /\ saving[f] = "answered" /\ row[f] = StorageKey[f]
      /\ deletions' = deletions \cup {StorageKey[f]}
      /\ UNCHANGED <<stored, erased, saving>>
  BY DEF RemoveAnswered, Remove, Live, RowsFollowSaves
<1>2. /\ row'[f] = Removed
      /\ \A g \in File \ {f} : row'[g] = row[g]
  BY DEF RemoveAnswered, Remove, TypeOK, RowsTypeOK
<1>3. StorageKey[f] \notin erased
  BY <1>1, NotRemoved
<1> QED
  BY <1>1, <1>2, <1>3
     DEF RowsFollowSaves, SavesBacked, RemovalsOwn, AnsweredBacked, AnsweredTracked, Live

\* A remover empties a key and drops its outbox row.
LEMMA EraseStep ==
  ASSUME IInv, RemovalNext, UNCHANGED saving
  PROVE  RowsFollowSaves' /\ SavesBacked' /\ RemovalsOwn'
         /\ AnsweredBacked' /\ AnsweredTracked'
<1> USE KeyAssumption, RowAssumption DEF IInv
<1>1. PICK k \in Key : EraseObject(k) \/ ForgetDeletion(k) \/ RemoverStops(k)
  BY DEF RemovalNext
<1>2. /\ k \in deletions /\ row' = row
      /\ stored' \in {stored, stored \ {k}}
      /\ deletions' \subseteq deletions /\ erased' \subseteq deletions' \ stored'
      /\ \A d \in deletions : d \in deletions' \/ d \notin stored'
  BY <1>1 DEF EraseObject, ForgetDeletion, RemoverStops, RemovalsOwn
<1>3. PICK g \in File : k = StorageKey[g] /\ row[g] = Removed
  BY <1>2 DEF RemovalsOwn
<1>4. \A f \in File : row[f] # Removed => (StorageKey[f] \in stored' <=> StorageKey[f] \in stored)
  BY <1>2, <1>3
<1> QED
  BY <1>2, <1>4
     DEF RowsFollowSaves, SavesBacked, RemovalsOwn, AnsweredBacked, AnsweredTracked, Live

-----------------------------------------------------------------------------
\* The rows, objects and outbox entries of files.rs keep their types.
THEOREM TypeCorrect == Spec => []TypeOK
<1>1. Init => TypeOK
  BY InitIInv DEF IInv
<1> QED
  BY <1>1, TypeStep, PTL DEF Spec

\* Saves, failures, undos, removals and removers keep the invariant.
LEMMA NextIInv ==
  ASSUME IInv, [Next]_vars
  PROVE  IInv'
<1>1. TypeOK'
  BY TypeStep DEF IInv
<1>2. CASE UNCHANGED vars
  BY <1>1, <1>2 DEF vars, rowVars, IInv, RowsFollowSaves, SavesBacked, RemovalsOwn,
                    AnsweredBacked, AnsweredTracked, Live
<1>3. CASE Next
  BY <1>1, <1>3, PutStep, InsertStep, EndStep, RemoveStep, EraseStep DEF Next, IInv
<1> QED
  BY <1>2, <1>3

\* A save that was answered stays answered.
LEMMA AnsweredStays ==
  ASSUME TypeOK, [Next]_vars, NEW f \in File, saving[f] = "answered"
  PROVE  saving'[f] = "answered"
<1>1. ASSUME NEW g \in File, NEW from, NEW to, from # "answered", Moves(g, from, to)
      PROVE  saving'[f] = "answered"
  BY <1>1, OneSave
<1>2. ASSUME NEW g \in File,
             \/ PutObject(g) \/ PutFails(g) \/ InsertRow(g) \/ InsertFails(g)
             \/ AnswerSave(g) \/ UndoPut(g) \/ SaverStops(g)
      PROVE  saving'[f] = "answered"
  BY <1>1, <1>2 DEF PutObject, PutFails, InsertRow, InsertFails, AnswerSave, UndoPut,
                    SaverStops
<1> QED
  BY <1>2 DEF Next, RemoveAnswered, vars

\* Saves, failures, undos, removals and removers in any order keep the
\* invariant.
THEOREM Inductive == Spec => []IInv
<1>1. IInv /\ [Next]_vars => IInv'
  BY NextIInv
<1> QED
  BY InitIInv, <1>1, PTL DEF Spec

\* The object of an answered file stays as long as its row, whatever other
\* saves undo and removers delete.
THEOREM AnsweredObjects == Spec => []AnsweredBacked
<1>1. IInv => AnsweredBacked
  BY DEF IInv
<1> QED
  BY Inductive, <1>1, PTL

\* The object of an answered save is its row's, or file_deletion_outbox has it.
THEOREM AnsweredKept == Spec => []AnsweredTracked
<1>1. IInv => AnsweredTracked
  BY DEF IInv
<1> QED
  BY Inductive, <1>1, PTL
=============================================================================
