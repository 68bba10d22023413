--------------------------- MODULE LedgerTxProofs ---------------------------
(***************************************************************************)
(* Theorems about LedgerTx, for every value of its constants.  What the    *)
(* transactions commit is a behaviour of Ledger (LedgerSpec), so that what *)
(* LedgerProofs says of Ledger holds of them.                              *)
(*                                                                         *)
(* The argument is the one for two-phase locking: a lock that a            *)
(* transaction holds keeps what it read under it as it was (Undisturbed),  *)
(* so that what it read before is true when it commits (Prepared).  That   *)
(* no transactions wait for each other follows from the order in which     *)
(* they take their locks (WaitsAhead).                                     *)
(***************************************************************************)
EXTENDS LedgerTx, LedgerProofs

-----------------------------------------------------------------------------
(* The inductive invariant.                                                *)

OnConv == {"start", "turn", "append", "truncate", "regenerate"}
Locked == {"find", "active", "files", "insert", "commit"}

Transaction ==
  [phase: {"key", "lookup", "replay", "conv"} \cup Locked
            \cup {"file", "referenced", "delete"},
   req: TxRequest, began: 0..MaxTurns, conv: Conv \cup {NewConv},
   next: 1..MaxSeq, pick: Nat, snap: SUBSET File]

Lock == [kind: {"key", "conv", "index", "file", "share"},
         on: StartKey \cup Conv \cup File]

Answer == [op: OnConv \cup {"none", "remove", "update", "continue"},
           code: {200, 400, 404, 409, 500},
           by: {"none", "rows", "next_seq", "active_turn", "conversation"}]

\* Which requests come to which statement.
PhaseFits(t) ==
  /\ t.phase \in {"key", "lookup", "replay"} => t.req.op = "start"
  /\ t.phase = "find" => t.req.op \in OnConv \ {"start"}
  /\ t.phase \in {"active", "insert"} => t.req.op \in {"start", "turn"}
  /\ t.phase = "files" => t.req.op \in {"start", "turn", "append"}
  /\ t.phase \in {"conv", "commit"} => t.req.op \in OnConv
  /\ t.phase \in {"file", "referenced", "delete"} => t.req.op = "remove"

TxTypeOK ==
  /\ tx \in [Client -> {Idle} \cup Transaction]
  /\ held \in [Client -> SUBSET Lock]
  /\ answer \in [Client -> Answer]
  /\ \A cl \in Client : tx[cl] # Idle => PhaseFits(tx[cl])

\* Two transactions never hold locks that exclude each other.
LocksExclude ==
  \A a, b \in Client : a # b =>
    \A g \in held[a], h \in held[b] : g.on = h.on => <<g.kind, h.kind>> \notin Excludes

\* The locks a transaction has at its next statement.
LocksHeld(t, locks) ==
  /\ t.req.op = "start" /\ t.phase # "key" => L("key", t.req.key) \in locks
  /\ t.phase \in Locked => L("conv", t.conv) \in locks
  /\ t.phase \in {"insert", "commit"} /\ t.req.op \in {"start", "turn", "append"} =>
       \A f \in Wanted(t) : L("share", f) \in locks
  /\ t.phase = "commit" /\ t.req.op \in {"start", "turn"} =>
       L("index", t.conv) \in locks
  /\ t.phase \in {"referenced", "delete"} => L("file", t.req.file) \in locks

\* What a request for a conversation has read of the conversation row.
RowRead(t) ==
  t.req.op \in OnConv =>
    /\ t.began <= lastTurn
    /\ Target(t.req) # NewConv =>
         conv[Target(t.req)] # "unborn" /\ born[Target(t.req)] <= t.began
    /\ t.phase \in Locked =>
         /\ t.conv \in Conv /\ t.next = nextSeq[t.conv]
         /\ IF Target(t.req) = NewConv THEN conv[t.conv] = "unborn"
            ELSE t.conv = Target(t.req) /\ conv[t.conv] = "live"

\* What the transaction has found out still holds.
Prepared(t) ==
  /\ t.req.op = "start" /\ t.phase \in {"conv"} \cup Locked => ~KeyUsed(t.req.key)
  /\ t.phase = "replay" =>
       \E s \in starts : s.key = t.req.key /\ s.request = t.req.request
  /\ t.req.op = "turn" /\ t.phase \in Locked \ {"find"} =>
       \A u \in TurnsOf(t.conv) : u.key # t.req.key
  /\ t.req.op = "append" => t.snap = {}
  /\ t.req.op = "append" /\ t.phase \in {"files", "commit"} =>
       /\ ~\E b \in batches : b.conv = t.conv /\ b.key = t.req.key
       /\ t.req.turn = NoTurn \/ \E u \in TurnsOf(t.conv) : u.id = t.req.turn
  /\ t.req.op = "truncate" /\ t.phase = "commit" =>
       \E i \in ItemsOf(t.conv) : i.seq = t.pick
  /\ t.req.op = "regenerate" /\ t.phase = "commit" =>
       \E u \in LatestTurns(t.conv) : u.id = t.pick
  /\ t.phase \in {"insert", "commit"} /\ t.req.op \in {"start", "turn", "append"} =>
       \A f \in Wanted(t) : Live(f)
  /\ t.phase = "commit" /\ t.req.op \in {"start", "turn"} =>
       ~ActiveTurn(t.conv) /\ t.snap = Refs(t.conv)
  /\ t.phase \in {"referenced", "delete"} => Live(t.req.file)
  /\ t.phase = "delete" => ~Referenced(t.req.file)

\* A conversation is born at a moment that has been; its numbers begin then.
Births ==
  \A c \in Conv : /\ born[c] <= lastTurn
                  /\ conv[c] = "unborn" => nextSeq[c] = 1

\* The answers of start_turn are results that were recorded, and for every
\* batch its append was answered with all items it has.
AnswersRecorded ==
  /\ started \subseteq starts
  /\ \A b \in batches : \E a \in appended :
       /\ ~a.replayed /\ a.conv = b.conv /\ a.key = b.key
       /\ {i.id : i \in Between(b.conv, b.first, b.last)} \subseteq a.ids

ClientInv(cl) ==
  tx[cl] # Idle =>
    LocksHeld(tx[cl], held[cl]) /\ RowRead(tx[cl]) /\ Prepared(tx[cl])

TxIInv ==
  /\ IInv /\ Births
  /\ TxTypeOK /\ LocksExclude /\ \A cl \in Client : ClientInv(cl)
  /\ NoServerError /\ AnswersRecorded /\ RetryAnswersOwnItems
-----------------------------------------------------------------------------
(* Requests.                                                               *)

LEMMA RequestFields ==
  ASSUME NEW r \in TxRequest
  PROVE  /\ r.op \in OnConv \cup {"remove"}
         /\ r.op = "start" => r.key \in StartKey /\ r.request \in Request
         /\ r.op \in {"turn", "append", "truncate", "regenerate"} => r.conv \in Conv
         /\ r.op = "turn" => r.key \in TurnKey
         /\ r.op = "append" =>
              /\ r.key \in BatchKey /\ r.turn \in 0..MaxTurns
              /\ r.source \in {"user", "agent"} /\ r.payload \in Payload
         /\ r.op = "remove" => r.file \in File
BY TxRequestAssumption DEF OnConv

LEMMA Payloads ==
  ASSUME NEW r
  PROVE  /\ r.op = "start" => PayloadOf(r) = r.request.payload
         /\ r.op = "append" => PayloadOf(r) = r.payload
         /\ r.op \notin {"start", "append"} => PayloadOf(r) = <<>>
<1>1. r.op = "start" => PayloadOf(r) = r.request.payload
  BY Zenon DEF PayloadOf
<1>2. r.op = "append" => PayloadOf(r) = r.payload
  BY Zenon DEF PayloadOf
<1>3. r.op \notin {"start", "append"} => PayloadOf(r) = <<>>
  BY Zenon DEF PayloadOf
<1> QED
  BY <1>1, <1>2, <1>3

LEMMA FirstPhases ==
  ASSUME NEW op
  PROVE  /\ op = "start" => FirstPhase(op) = "key"
         /\ op = "remove" => FirstPhase(op) = "file"
         /\ op \notin {"start", "remove"} => FirstPhase(op) = "conv"
<1>1. op = "start" => FirstPhase(op) = "key"
  BY Zenon DEF FirstPhase
<1>2. op = "remove" => FirstPhase(op) = "file"
  BY Zenon DEF FirstPhase
<1>3. op \notin {"start", "remove"} => FirstPhase(op) = "conv"
  BY Zenon DEF FirstPhase
<1> QED
  BY <1>1, <1>2, <1>3

\* What a running transaction consists of.
LEMMA RunningFacts ==
  ASSUME TxTypeOK, NEW cl \in Client, tx[cl].phase # "idle"
  PROVE  /\ tx[cl] \in Transaction /\ tx[cl] # Idle /\ PhaseFits(tx[cl])
         /\ tx[cl].req \in TxRequest
         /\ tx[cl].conv \in Conv \cup {NewConv} /\ tx[cl].began \in 0..MaxTurns
BY DEF TxTypeOK, Idle, Transaction

LEMMA TargetType ==
  ASSUME NEW r \in TxRequest, r.op \in OnConv
  PROVE  Target(r) \in Conv \cup {NewConv}
BY RequestFields DEF Target, Request, OnConv

-----------------------------------------------------------------------------
(* The commits are the transactions of Ledger, and violate no constraint.  *)

\* What a transaction that is about to insert items or a turn knows.
LEMMA ReadyToInsert ==
  ASSUME TxIInv, NEW cl \in Client, tx[cl].phase = "commit",
         tx[cl].req.op \in {"start", "turn", "append"}
  PROVE  /\ tx[cl].conv \in Conv /\ tx[cl].next = nextSeq[tx[cl].conv]
         /\ tx[cl].began \in 0..MaxTurns /\ tx[cl].began <= lastTurn
         /\ IF Target(tx[cl].req) = NewConv THEN conv[tx[cl].conv] = "unborn"
            ELSE /\ tx[cl].conv = Target(tx[cl].req) /\ conv[tx[cl].conv] = "live"
                 /\ born[tx[cl].conv] <= tx[cl].began
         /\ \A f \in Wanted(tx[cl]) : Live(f)
         /\ ~Violates(tx[cl])
<1> DEFINE t == tx[cl]
<1>0. /\ TxTypeOK /\ ClientInv(cl)
      /\ TypeOK /\ SequenceDiscipline
  BY DEF TxIInv, IInv
<1>1. t \in Transaction /\ t # Idle /\ t.req \in TxRequest
  BY <1>0, RunningFacts
<1>2. RowRead(t) /\ Prepared(t)
  BY <1>0, <1>1 DEF ClientInv
<1>3. /\ t.conv \in Conv /\ t.next = nextSeq[t.conv] /\ t.began <= lastTurn
      /\ Target(t.req) # NewConv => born[Target(t.req)] <= t.began
      /\ IF Target(t.req) = NewConv THEN conv[t.conv] = "unborn"
         ELSE t.conv = Target(t.req) /\ conv[t.conv] = "live"
  BY <1>2 DEF RowRead, OnConv, Locked
<1>4. \A f \in Wanted(t) : Live(f)
  BY <1>2 DEF Prepared
<1>5. Named(PayloadOf(t.req)) \cup t.snap \subseteq Wanted(t)
  BY <1>2 DEF Prepared, Wanted
<1>6. ASSUME NEW i \in ItemsOf(t.conv)
      PROVE  i.seq \notin t.next..(t.next + Len(PayloadOf(t.req)) - 1)
  <2>1. i.seq < t.next /\ i.seq \in Int /\ t.next \in Int
    BY <1>0, <1>3, BoundAssumption DEF SequenceDiscipline, ItemsOf, TypeOK, Item
  <2> QED
    BY <2>1
<1>7. ~Violates(t)
  BY <1>3, <1>4, <1>5, <1>6 DEF Violates
<1>8. t.began \in 0..MaxTurns
  BY <1>1 DEF Transaction
<1> QED
  BY <1>3, <1>4, <1>7, <1>8

\* The rows a transaction inserts are the rows Ledger inserts.
LEMMA RowsAreNewItems ==
  ASSUME NEW t, NEW turn, NEW source, NEW payload \in Payload,
         PayloadOf(t.req) = payload, t.next = nextSeq[t.conv]
  PROVE  /\ ItemRows(t, turn, source) = NewItems(t.conv, turn, source, payload)
         /\ DOMAIN payload = 1..Len(payload)
<1>1. DOMAIN payload = 1..Len(payload)
  BY PayloadAssumption
<1> QED
  BY <1>1, Zenon DEF ItemRows, NewItems

\* A commit of start_turn is a turn start of Ledger.
LEMMA CommitStartStep ==
  ASSUME TxIInv, NEW cl \in Client, CommitStart(cl)
  PROVE  \/ UNCHANGED <<vars, started>>
              /\ Replies(cl, "start", 409, "none")
         \/ /\ \/ \E k \in StartKey, r \in Request, began \in 0..MaxTurns :
                    StartTurnExisting(k, r, began)
               \/ \E k \in StartKey, r \in Request, c \in Conv, began \in 0..MaxTurns :
                    StartTurnCreate(k, r, c, began)
            /\ started' = started \cup {StartRow(tx[cl])}
            /\ starts' = starts \cup {StartRow(tx[cl])}
            /\ Replies(cl, "start", 200, "none")
<1> DEFINE t == tx[cl]
           k == t.req.key
           r == t.req.request
           p == r.payload
<1>0. /\ t.phase = "commit" /\ t.req.op = "start"
      /\ TxTypeOK /\ ClientInv(cl) /\ TypeOK
  BY DEF CommitStart, At, Doing, TxIInv, IInv
<1>1. /\ t # Idle /\ t.req \in TxRequest
      /\ k \in StartKey /\ r \in Request /\ p \in Payload
      /\ PayloadOf(t.req) = p /\ Target(t.req) = r.target
  BY <1>0, RunningFacts, RequestFields, Payloads DEF Request, Target
<1>2. /\ t.conv \in Conv /\ t.next = nextSeq[t.conv]
      /\ t.began \in 0..MaxTurns /\ t.began <= lastTurn
      /\ IF r.target = NewConv THEN conv[t.conv] = "unborn"
         ELSE /\ t.conv = r.target /\ conv[t.conv] = "live"
              /\ born[t.conv] <= t.began
      /\ \A f \in Wanted(t) : Live(f)
      /\ ~Violates(t)
  BY <1>0, <1>1, ReadyToInsert
<1>3. ~KeyUsed(k) /\ ~ActiveTurn(t.conv) /\ t.snap = Refs(t.conv)
  BY <1>0, <1>1 DEF ClientInv, Prepared, Locked
<1>4. CASE Exhausted(t)
  BY <1>0, <1>4 DEF CommitStart, Refuses, Answers, Quiet
<1>5. CASE ~Exhausted(t)
  <2>0. ~OutOfRows(t)
    BY <1>2, <1>3, <1>5 DEF CommitStart
  <2>1. /\ turns' = turns \cup {TurnRow(t, NoKey)}
        /\ items' = items \cup ItemRows(t, lastTurn + 1, "user")
        /\ starts' = starts \cup {StartRow(t)}
        /\ lastTurn' = lastTurn + 1
        /\ Advance(t) /\ Publish(t)
        /\ Replies(cl, "start", 200, "none")
        /\ started' = started \cup {StartRow(t)}
        /\ UNCHANGED <<batches, conts, reading, file>>
    BY <1>0, <1>2, <1>3, <1>5 DEF CommitStart, Answers
  <2>2. /\ nextSeq[t.conv] + Len(p) <= MaxSeq /\ lastItem + Len(p) <= MaxItems
        /\ lastTurn < MaxTurns
    <3>1. p \in Seq(SUBSET File) /\ Len(p) \in Nat
      BY <1>1, PayloadAssumption
    <3>2. nextSeq[t.conv] \in Int /\ lastItem \in Int /\ lastTurn \in 0..MaxTurns
      BY <1>0, <1>2, BoundAssumption DEF TypeOK
    <3>3. /\ ~(nextSeq[t.conv] + Len(p) > MaxSeq) /\ ~(lastItem + Len(p) > MaxItems)
          /\ lastTurn # MaxTurns
      BY <1>0, <1>1, <1>2, <1>5, <2>0 DEF Exhausted, OutOfRows
    <3> QED
      BY <3>1, <3>2, <3>3, BoundAssumption, SMTT(40)
  <2>3. InsertItems(t.conv, lastTurn + 1, "user", p)
    <3>1. ItemRows(t, lastTurn + 1, "user") = NewItems(t.conv, lastTurn + 1, "user", p)
      BY <1>1, <1>2, RowsAreNewItems
    <3> QED
      BY <1>1, <1>2, <2>1, <2>2, <3>1 DEF InsertItems, Advance
  <2>4. InsertTurn(t.conv, NoKey, t.began)
    BY <1>3, <2>1, <2>2 DEF InsertTurn, TurnRow
  <2>5. RecordStart(k, r, t.conv)
    <3>1. DOMAIN p = 1..Len(p)
      BY <1>1, PayloadAssumption
    <3>2. StartRow(t) = [key |-> k, request |-> r, conv |-> t.conv, turn |-> lastTurn + 1,
            first |-> nextSeq[t.conv], last |-> nextSeq[t.conv] + Len(p) - 1,
            children |-> {[id |-> lastItem + j, seq |-> nextSeq[t.conv] + j - 1] :
                            j \in 1..Len(p)}]
      BY <1>1, <1>2, <3>1, Zenon DEF StartRow
    <3> QED
      BY <2>1, <3>2, Zenon DEF RecordStart
  <2>6. TurnFilesLocked(t.conv, p)
    <3>1. Wanted(t) = Named(p) \cup Refs(t.conv)
      BY <1>0, <1>1 DEF Wanted
    <3>2. Named(p) = UNION {p[j] : j \in 1..Len(p)}
      BY DEF Named
    <3> QED
      BY <1>2, <3>1, <3>2, Zenon DEF TurnFilesLocked
  <2>7. CASE r.target = NewConv
    <3>1. /\ conv' = [conv EXCEPT ![t.conv] = "live"]
          /\ born' = [born EXCEPT ![t.conv] = lastTurn + 1]
      BY <2>1, <2>7 DEF Publish
    <3>2. t.began \in 0..lastTurn
      BY <1>2, BoundAssumption DEF TypeOK
    <3>3. StartTurnCreate(k, r, t.conv, t.began)
      BY <1>2, <1>3, <2>1, <2>3, <2>4, <2>5, <2>6, <2>7, <3>1, <3>2 DEF StartTurnCreate
    <3> QED
      BY <1>1, <1>2, <2>1, <3>3
  <2>8. CASE r.target # NewConv
    <3>1. UNCHANGED <<conv, born>>
      BY <2>1, <2>8 DEF Publish
    <3>2. t.began \in born[r.target]..lastTurn
      BY <1>2, <2>8, BoundAssumption DEF TypeOK
    <3>3. StartTurnExisting(k, r, t.began)
      BY <1>2, <1>3, <2>1, <2>3, <2>4, <2>5, <2>6, <2>8, <3>1, <3>2 DEF StartTurnExisting
    <3> QED
      BY <1>1, <1>2, <2>1, <3>3
  <2> QED
    BY <2>7, <2>8
<1> QED
  BY <1>4, <1>5

\* A commit of create_turn is a CreateTurn of Ledger.
LEMMA CommitTurnStep ==
  ASSUME TxIInv, NEW cl \in Client, CommitTurn(cl)
  PROVE  /\ \E c \in Conv, key \in TurnKey, began \in 0..MaxTurns :
              CreateTurn(c, key, began)
         /\ Replies(cl, "turn", 200, "none")
<1> DEFINE t == tx[cl]
           key == t.req.key
<1>0. /\ t.phase = "commit" /\ t.req.op = "turn"
      /\ TxTypeOK /\ ClientInv(cl) /\ TypeOK
  BY DEF CommitTurn, At, Doing, TxIInv, IInv
<1>1. /\ t # Idle /\ t.req \in TxRequest /\ key \in TurnKey /\ t.req.conv \in Conv
      /\ Target(t.req) = t.req.conv /\ t.req.conv # NewConv
  BY <1>0, RunningFacts, RequestFields, SentinelAssumption DEF Target
<1>2. /\ t.conv \in Conv /\ t.next = nextSeq[t.conv]
      /\ t.began \in 0..MaxTurns /\ t.began <= lastTurn
      /\ conv[t.conv] = "live" /\ born[t.conv] <= t.began
      /\ \A f \in Wanted(t) : Live(f)
      /\ ~Violates(t)
  BY <1>0, <1>1, ReadyToInsert
<1>3. /\ \A u \in TurnsOf(t.conv) : u.key # key
      /\ ~ActiveTurn(t.conv) /\ t.snap = Refs(t.conv)
  BY <1>0, <1>1 DEF ClientInv, Prepared, Locked
<1>4. /\ turns' = turns \cup {TurnRow(t, key)}
      /\ lastTurn' = lastTurn + 1
      /\ Replies(cl, "turn", 200, "none")
      /\ UNCHANGED <<conv, nextSeq, born, items, batches, starts, conts,
                     reading, file, lastItem>>
  BY <1>0, <1>2, <1>3 DEF CommitTurn, Answers
<1>5. lastTurn < MaxTurns
  <2>1. lastTurn \in 0..MaxTurns /\ lastTurn # MaxTurns
    BY <1>0, <1>2, <1>3 DEF TypeOK, CommitTurn, OutOfRows
  <2> QED
    BY <2>1, BoundAssumption
<1>6. InsertTurn(t.conv, key, t.began)
  BY <1>3, <1>4, <1>5 DEF InsertTurn, TurnRow
<1>7. TurnFilesLocked(t.conv, <<>>)
  <2>1. Refs(t.conv) \subseteq Wanted(t)
    BY <1>0 DEF Wanted
  <2> QED
    BY <1>2, <2>1 DEF TurnFilesLocked
<1>8. t.began \in born[t.conv]..lastTurn
  BY <1>0, <1>2, BoundAssumption DEF TypeOK
<1>9. CreateTurn(t.conv, key, t.began)
  BY <1>2, <1>3, <1>4, <1>6, <1>7, <1>8 DEF CreateTurn
<1> QED
  BY <1>1, <1>2, <1>4, <1>9

\* A commit of append_items is an AppendItems of Ledger.
LEMMA CommitAppendStep ==
  ASSUME TxIInv, NEW cl \in Client, CommitAppend(cl)
  PROVE  \/ UNCHANGED <<vars, appended>>
              /\ Replies(cl, "append", 500, "next_seq")
         \/ /\ \E c \in Conv, key \in BatchKey, turn \in 0..MaxTurns,
                  source \in {"user", "agent"}, payload \in Payload :
                 /\ AppendItems(c, key, turn, source, payload)
                 /\ appended' = appended \cup
                      {[conv |-> c, key |-> key, replayed |-> FALSE,
                        ids |-> {i.id : i \in NewItems(c, turn, source, payload)}]}
            /\ Replies(cl, "append", 200, "none")
<1> DEFINE t == tx[cl]
           key == t.req.key
           p == t.req.payload
<1>0. /\ t.phase = "commit" /\ t.req.op = "append"
      /\ TxTypeOK /\ ClientInv(cl) /\ TypeOK
  BY DEF CommitAppend, At, Doing, TxIInv, IInv
<1>1. /\ t # Idle /\ t.req \in TxRequest /\ t.req.conv \in Conv
      /\ key \in BatchKey /\ t.req.turn \in 0..MaxTurns
      /\ t.req.source \in {"user", "agent"} /\ p \in Payload
      /\ PayloadOf(t.req) = p
      /\ Target(t.req) = t.req.conv /\ t.req.conv # NewConv
  BY <1>0, RunningFacts, RequestFields, Payloads, SentinelAssumption DEF Target
<1>2. /\ t.conv \in Conv /\ t.next = nextSeq[t.conv]
      /\ conv[t.conv] = "live"
      /\ \A f \in Wanted(t) : Live(f)
      /\ ~Violates(t)
  BY <1>0, <1>1, ReadyToInsert
<1>3. /\ ~\E b \in batches : b.conv = t.conv /\ b.key = key
      /\ t.req.turn = NoTurn \/ \E u \in TurnsOf(t.conv) : u.id = t.req.turn
  BY <1>0, <1>1 DEF ClientInv, Prepared
<1>4. CASE Exhausted(t)
  BY <1>0, <1>2, <1>3, <1>4 DEF CommitAppend, Breaks, Quiet
<1>5. CASE ~Exhausted(t)
  <2>0. ~OutOfRows(t)
    BY <1>2, <1>3, <1>5 DEF CommitAppend
  <2>1. /\ items' = items \cup ItemRows(t, t.req.turn, t.req.source)
        /\ batches' = batches \cup
             {[conv |-> t.conv, key |-> key, first |-> t.next,
               last |-> t.next + Len(p) - 1]}
        /\ Advance(t)
        /\ Replies(cl, "append", 200, "none")
        /\ appended' = appended \cup
             {[conv |-> t.conv, key |-> key, replayed |-> FALSE,
               ids |-> {i.id : i \in ItemRows(t, t.req.turn, t.req.source)}]}
        /\ UNCHANGED <<conv, born, turns, starts, conts, reading, file, lastTurn>>
    BY <1>0, <1>2, <1>3, <1>5 DEF CommitAppend, Answers
  <2>2. nextSeq[t.conv] + Len(p) <= MaxSeq /\ lastItem + Len(p) <= MaxItems
    <3>1. p \in Seq(SUBSET File) /\ Len(p) \in Nat
      BY <1>1, PayloadAssumption
    <3>2. nextSeq[t.conv] \in Int /\ lastItem \in Int
      BY <1>0, <1>2, BoundAssumption DEF TypeOK
    <3>3. ~(nextSeq[t.conv] + Len(p) > MaxSeq) /\ ~(lastItem + Len(p) > MaxItems)
      BY <1>1, <1>2, <1>5, <2>0 DEF Exhausted, OutOfRows
    <3> QED
      BY <3>1, <3>2, <3>3, BoundAssumption, SMTT(40)
  <2>3. ItemRows(t, t.req.turn, t.req.source) = NewItems(t.conv, t.req.turn, t.req.source, p)
    BY <1>1, <1>2, RowsAreNewItems
  <2>4. InsertItems(t.conv, t.req.turn, t.req.source, p)
    BY <1>1, <1>2, <2>1, <2>2, <2>3 DEF InsertItems, Advance
  <2>5. \A f \in UNION {p[j] : j \in 1..Len(p)} : Live(f)
    <3>1. Named(p) = UNION {p[j] : j \in 1..Len(p)} /\ Named(p) \subseteq Wanted(t)
      BY <1>1 DEF Named, Wanted
    <3> QED
      BY <1>2, <3>1
  <2>6. AppendItems(t.conv, key, t.req.turn, t.req.source, p)
    BY <1>2, <1>3, <2>1, <2>4, <2>5 DEF AppendItems
  <2>7. appended' = appended \cup
          {[conv |-> t.conv, key |-> key, replayed |-> FALSE,
            ids |-> {i.id : i \in NewItems(t.conv, t.req.turn, t.req.source, p)}]}
    BY <2>1, <2>3
  <2>8. Replies(cl, "append", 200, "none")
    BY <2>1
  <2> HIDE DEF t, key, p
  <2>9. \E c \in Conv, k \in BatchKey, turn \in 0..MaxTurns,
          source \in {"user", "agent"}, payload \in Payload :
          /\ AppendItems(c, k, turn, source, payload)
          /\ appended' = appended \cup
               {[conv |-> c, key |-> k, replayed |-> FALSE,
                 ids |-> {i.id : i \in NewItems(c, turn, source, payload)}]}
    BY <1>1, <1>2, <2>6, <2>7, ZenonT(60)
  <2> QED
    BY <2>8, <2>9
<1> QED
  BY <1>4, <1>5

\* Truncations, regenerations and removals are those of Ledger.
LEMMA CommitEditStep ==
  ASSUME TxIInv, NEW cl \in Client,
         CommitTruncate(cl) \/ CommitRegenerate(cl) \/ CommitRemove(cl)
  PROVE  /\ \/ \E c \in Conv, cut \in items : TruncateConversation(c, cut)
            \/ \E c \in Conv : RegenerateConversation(c)
            \/ \E f \in File : RemoveFile(f)
         /\ Replies(cl, tx[cl].req.op, 200, "none")
<1> DEFINE t == tx[cl]
<1>0. TxTypeOK /\ ClientInv(cl) /\ TypeOK
  BY DEF TxIInv, IInv
<1>1. CASE CommitTruncate(cl)
  <2>1. t.phase = "commit" /\ t.req.op = "truncate"
    BY <1>1 DEF CommitTruncate, At, Doing
  <2>2. t # Idle /\ t.req \in TxRequest /\ t.req.conv \in Conv /\ Target(t.req) # NewConv
    BY <1>0, <2>1, RunningFacts, RequestFields, SentinelAssumption DEF Target
  <2>3. t.conv \in Conv /\ conv[t.conv] = "live"
    BY <1>0, <2>1, <2>2 DEF ClientInv, RowRead, OnConv, Locked
  <2>4. PICK cut \in ItemsOf(t.conv) : cut.seq = t.pick
    BY <1>0, <2>1, <2>2 DEF ClientInv, Prepared
  <2>5. cut \in items /\ TruncateConversation(t.conv, cut)
    BY <1>1, <2>3, <2>4 DEF CommitTruncate, TruncateConversation, ItemsOf
  <2> QED
    BY <1>1, <2>3, <2>5 DEF CommitTruncate, Answers
<1>2. CASE CommitRegenerate(cl)
  <2>1. t.phase = "commit" /\ t.req.op = "regenerate"
    BY <1>2 DEF CommitRegenerate, At, Doing
  <2>2. t # Idle /\ t.req \in TxRequest /\ t.req.conv \in Conv /\ Target(t.req) # NewConv
    BY <1>0, <2>1, RunningFacts, RequestFields, SentinelAssumption DEF Target
  <2>3. t.conv \in Conv /\ conv[t.conv] = "live"
    BY <1>0, <2>1, <2>2 DEF ClientInv, RowRead, OnConv, Locked
  <2>4. PICK u \in LatestTurns(t.conv) : u.id = t.pick
    BY <1>0, <2>1, <2>2 DEF ClientInv, Prepared
  <2>5. RegenerateConversation(t.conv)
    BY <1>2, <2>3, <2>4 DEF CommitRegenerate, RegenerateConversation
  <2> QED
    BY <1>2, <2>3, <2>5 DEF CommitRegenerate, Answers
<1>3. CASE CommitRemove(cl)
  <2>1. t.phase = "delete"
    BY <1>3 DEF CommitRemove, At
  <2>2. t # Idle /\ t.req.op = "remove" /\ t.req \in TxRequest /\ t.req.file \in File
    BY <1>0, <2>1, RunningFacts, RequestFields DEF PhaseFits
  <2>3. Live(t.req.file) /\ ~Referenced(t.req.file)
    BY <1>0, <2>1, <2>2 DEF ClientInv, Prepared
  <2>4. RemoveFile(t.req.file)
    BY <1>3, <2>3 DEF CommitRemove, RemoveFile
  <2> QED
    BY <1>3, <2>2, <2>3, <2>4 DEF CommitRemove, Answers
<1> QED
  BY <1>1, <1>2, <1>3

-----------------------------------------------------------------------------
(* Statements that only read or lock: what the transaction has found out   *)
(* holds at its next statement.                                            *)

\* The transaction of cl goes on, and nobody sees anything of it.
GoesOn(cl) ==
  /\ Silent
  /\ tx'[cl] \in Transaction /\ PhaseFits(tx'[cl])
  /\ tx' = [tx EXCEPT ![cl] = tx'[cl]]
  /\ held' = [held EXCEPT ![cl] = held'[cl]]
  /\ held'[cl] \subseteq Lock
  /\ \A l \in held'[cl] : l \in held[cl] \/ Free(cl, l)
  /\ ClientInv(cl)'

LEMMA GoingOn ==
  ASSUME TxTypeOK, NEW cl \in Client, Silent,
         NEW t \in Transaction, PhaseFits(t), Reads(cl, t),
         NEW locks \in SUBSET Lock, \A l \in locks : Free(cl, l),
         (UNCHANGED held /\ locks = {}) \/ Takes(cl, locks),
         \A h : h = held[cl] \cup locks => LocksHeld(t, h),
         RowRead(t), Prepared(t)
  PROVE  GoesOn(cl)
<1>1. tx'[cl] = t /\ tx' = [tx EXCEPT ![cl] = tx'[cl]]
  BY DEF Reads, TxTypeOK
<1>2. held'[cl] = held[cl] \cup locks /\ held' = [held EXCEPT ![cl] = held'[cl]]
  BY DEF Takes, TxTypeOK
<1>3. held[cl] \subseteq Lock
  BY DEF TxTypeOK
<1>4. ClientInv(cl)'
  <2>1. PICK h : h = held'[cl]
    OBVIOUS
  <2>2. LocksHeld(t, h)
    BY <1>2, <2>1
  <2>3. UNCHANGED <<conv, nextSeq, born, items, turns, batches, starts, file, lastTurn>>
    BY DEF Silent, vars
  <2>4. RowRead(tx[cl])'
    BY <1>1, <2>3 DEF RowRead
  <2>5. LocksHeld(tx[cl], held[cl])'
    BY <1>1, <2>1, <2>2, <2>3 DEF LocksHeld, Wanted, Refs, ItemsOf
  <2>6. Prepared(tx[cl])'
    BY <1>1, <2>3 DEF Prepared, KeyUsed, TurnsOf, ItemsOf, Refs, LatestTurns,
                      Wanted, Live, ActiveTurn, Referenced
  <2> QED
    BY <2>4, <2>5, <2>6 DEF ClientInv
<1> QED
  BY <1>1, <1>2, <1>3, <1>4 DEF GoesOn

\* The same without a lock.
LEMMA ReadingOn ==
  ASSUME TxTypeOK, NEW cl \in Client, Silent,
         NEW t \in Transaction, PhaseFits(t), Reads(cl, t), UNCHANGED held,
         \A h : h = held[cl] => LocksHeld(t, h),
         RowRead(t), Prepared(t)
  PROVE  GoesOn(cl)
<1>1. PICK locks : locks = {}
  OBVIOUS
<1>2. locks \in SUBSET Lock /\ \A l \in locks : Free(cl, l)
  BY <1>1
<1>3. held[cl] \cup locks = held[cl]
  BY <1>1
<1>4. \A h : h = held[cl] \cup locks => LocksHeld(t, h)
  BY <1>3
<1> QED
  BY <1>1, <1>2, <1>4, GoingOn

\* What the invariant says of a running transaction.
LEMMA Knows ==
  ASSUME TxIInv, NEW cl \in Client, tx[cl].phase # "idle"
  PROVE  /\ TxTypeOK /\ tx[cl] \in Transaction /\ tx[cl].req \in TxRequest
         /\ PhaseFits(tx[cl])
         /\ LocksHeld(tx[cl], held[cl]) /\ RowRead(tx[cl]) /\ Prepared(tx[cl])
BY RunningFacts DEF TxIInv, ClientInv

\* A transaction that goes to its next statement with nothing else read.
LEMMA OtherPhase ==
  ASSUME NEW t \in Transaction, NEW p \in {"lookup", "replay", "conv", "referenced",
                                            "delete", "files", "active", "commit", "insert"},
         NEW u, u = [t EXCEPT !.phase = p]
  PROVE  /\ u \in Transaction /\ u.phase = p
         /\ u.req = t.req /\ u.began = t.began /\ u.conv = t.conv
         /\ u.next = t.next /\ u.pick = t.pick /\ u.snap = t.snap
BY DEF Transaction, Locked

LEMMA LockTypes ==
  /\ \A k \in StartKey : L("key", k) \in Lock
  /\ \A c \in Conv : L("conv", c) \in Lock /\ L("index", c) \in Lock
  /\ \A f \in File : L("share", f) \in Lock /\ L("file", f) \in Lock
BY DEF L, Lock

LEMMA LockKeyStep ==
  ASSUME TxIInv, NEW cl \in Client, LockKey(cl)
  PROVE  GoesOn(cl)
<1> DEFINE t == tx[cl]
<1>1. t.phase = "key"
  BY DEF LockKey, At
<1>2. /\ TxTypeOK /\ t \in Transaction /\ t.req \in TxRequest /\ PhaseFits(t)
      /\ RowRead(t) /\ Prepared(t)
  BY <1>1, Knows
<1>3. t.req.op = "start" /\ t.req.key \in StartKey
  BY <1>1, <1>2, RequestFields DEF PhaseFits
<1>4. PICK u : u = [t EXCEPT !.phase = "lookup"]
  OBVIOUS
<1>5. PICK locks : locks = {L("key", t.req.key)}
  OBVIOUS
<1>6. u \in Transaction /\ u.phase = "lookup" /\ u.req = t.req /\ u.began = t.began
  BY <1>2, <1>4, OtherPhase
<1>7. locks \in SUBSET Lock /\ \A l \in locks : Free(cl, l)
  BY <1>3, <1>5, LockTypes DEF LockKey
<1>8. Silent /\ Reads(cl, u) /\ Takes(cl, locks)
  BY <1>4, <1>5 DEF LockKey
<1>9. PhaseFits(u) /\ RowRead(u) /\ Prepared(u)
  BY <1>2, <1>3, <1>6 DEF PhaseFits, RowRead, Prepared, Locked
<1>10. \A h : h = held[cl] \cup locks => LocksHeld(u, h)
  BY <1>3, <1>5, <1>6 DEF LocksHeld, Locked
<1> QED
  BY <1>2, <1>6, <1>7, <1>8, <1>9, <1>10, GoingOn

LEMMA LookupKeyStep ==
  ASSUME TxIInv, NEW cl \in Client, LookupKey(cl)
  PROVE  \/ GoesOn(cl)
         \/ \E code \in {404, 409} : Refuses(cl, code)
<1> DEFINE t == tx[cl]
<1>1. t.phase = "lookup"
  BY DEF LookupKey, At
<1>2. /\ TxTypeOK /\ t \in Transaction /\ t.req \in TxRequest /\ PhaseFits(t)
      /\ LocksHeld(t, held[cl]) /\ RowRead(t) /\ Prepared(t)
  BY <1>1, Knows
<1>3. t.req.op = "start"
  BY <1>1, <1>2 DEF PhaseFits
<1>4. ASSUME NEW p \in {"conv", "replay"},
             p = "conv" => ~KeyUsed(t.req.key),
             p = "replay" =>
               \E s \in starts : s.key = t.req.key /\ s.request = t.req.request,
             Reads(cl, [t EXCEPT !.phase = p]), UNCHANGED held, Silent
      PROVE  GoesOn(cl)
  <2>1. PICK u : u = [t EXCEPT !.phase = p]
    OBVIOUS
  <2>2. u \in Transaction /\ u.phase = p /\ u.req = t.req /\ u.began = t.began
    BY <1>2, <2>1, OtherPhase
  <2>3. PhaseFits(u) /\ RowRead(u) /\ Prepared(u)
    BY <1>1, <1>2, <1>3, <1>4, <2>2 DEF PhaseFits, RowRead, Prepared, Locked, OnConv
  <2>4. \A h : h = held[cl] => LocksHeld(u, h)
    BY <1>1, <1>2, <1>3, <2>2 DEF LocksHeld, Locked
  <2>5. Reads(cl, u)
    BY <1>4, <2>1
  <2> QED
    BY <1>2, <1>4, <2>2, <2>3, <2>4, <2>5, ReadingOn
<1>5. CASE /\ ~KeyUsed(t.req.key)
           /\ Reads(cl, [t EXCEPT !.phase = "conv"]) /\ UNCHANGED held /\ Silent
  BY <1>4, <1>5
<1>6. CASE \E s \in starts :
             /\ s.key = t.req.key /\ SameRequest(s, t.req)
             /\ Reads(cl, [t EXCEPT !.phase = "replay"]) /\ UNCHANGED held /\ Silent
  BY <1>4, <1>6 DEF SameRequest
<1>7. CASE \E s \in starts :
             /\ s.key = t.req.key /\ ~SameRequest(s, t.req)
             /\ Refuses(cl, IF t.req.request.target # NewConv
                               /\ conv[t.req.request.target] # "live"
                            THEN 404 ELSE 409)
  BY <1>7
<1> QED
  BY <1>5, <1>6, <1>7 DEF LookupKey

LEMMA LockConversationStep ==
  ASSUME TxIInv, NEW cl \in Client, LockConversation(cl)
  PROVE  GoesOn(cl) \/ Refuses(cl, 404)
<1> DEFINE t == tx[cl]
           c == Target(t.req)
<1>1. t.phase = "conv" /\ c # NewConv
  BY DEF LockConversation, At
<1>2. /\ TxTypeOK /\ t \in Transaction /\ t.req \in TxRequest /\ PhaseFits(t)
      /\ LocksHeld(t, held[cl]) /\ RowRead(t) /\ Prepared(t) /\ TypeOK
  BY <1>1, Knows DEF TxIInv, IInv
<1>3. t.req.op \in OnConv /\ c \in Conv
  BY <1>1, <1>2, TargetType DEF PhaseFits
<1>4. SUFFICES ASSUME ~Refuses(cl, 404)
               PROVE  GoesOn(cl)
  OBVIOUS
<1>5. /\ conv[c] = "live" /\ \A l \in ConvLock(c) : Free(cl, l)
      /\ Takes(cl, ConvLock(c)) /\ Silent
      /\ Reads(cl, [t EXCEPT !.phase = AfterLock(t.req.op), !.conv = c,
                             !.next = nextSeq[c]])
  BY <1>4 DEF LockConversation
<1>6. PICK u : u = [t EXCEPT !.phase = AfterLock(t.req.op), !.conv = c,
                             !.next = nextSeq[c]]
  OBVIOUS
<1>7. PICK locks : locks = {L("conv", c)}
  OBVIOUS
<1>8. nextSeq[c] \in 1..MaxSeq
  BY <1>2, <1>3 DEF TypeOK
<1>9. /\ u.phase = AfterLock(t.req.op) /\ u.conv = c /\ u.next = nextSeq[c]
      /\ u.req = t.req /\ u.began = t.began /\ u.snap = t.snap
      /\ u \in Transaction
  BY <1>2, <1>3, <1>6, <1>8 DEF Transaction, AfterLock, Locked
<1>10. u.phase = IF t.req.op = "start" THEN "active" ELSE "find"
  BY <1>9 DEF AfterLock
<1>11. PhaseFits(u) /\ RowRead(u)
  BY <1>1, <1>2, <1>3, <1>5, <1>9, <1>10 DEF PhaseFits, RowRead, Locked, OnConv
<1>12. Prepared(u)
  BY <1>1, <1>2, <1>3, <1>9, <1>10 DEF Prepared, Locked, OnConv
<1>13. \A h : h = held[cl] \cup locks => LocksHeld(u, h)
  BY <1>1, <1>2, <1>7, <1>9, <1>10 DEF LocksHeld, Locked
<1>14. locks \in SUBSET Lock /\ \A l \in locks : Free(cl, l)
  BY <1>3, <1>5, <1>7, LockTypes DEF ConvLock
<1>15. Takes(cl, locks) /\ Reads(cl, u)
  BY <1>5, <1>6, <1>7 DEF ConvLock
<1> QED
  BY <1>2, <1>5, <1>9, <1>11, <1>12, <1>13, <1>14, <1>15, GoingOn

LEMMA NewConversationStep ==
  ASSUME TxIInv, NEW cl \in Client, NEW c \in Conv, NewConversation(cl, c)
  PROVE  GoesOn(cl)
<1> DEFINE t == tx[cl]
<1>1. t.phase = "conv" /\ Target(t.req) = NewConv
  BY DEF NewConversation, At
<1>2. /\ TxTypeOK /\ t \in Transaction /\ t.req \in TxRequest /\ PhaseFits(t)
      /\ LocksHeld(t, held[cl]) /\ RowRead(t) /\ Prepared(t) /\ Births
  BY <1>1, Knows DEF TxIInv
<1>3. t.req.op = "start"
  BY <1>1, <1>2, RequestFields, SentinelAssumption DEF PhaseFits, OnConv, Target
<1>4. PICK u : u = [t EXCEPT !.phase = "active", !.conv = c, !.next = 1]
  OBVIOUS
<1>5. PICK locks : locks = {L("conv", c)}
  OBVIOUS
<1>6. 1 \in 1..MaxSeq
  BY BoundAssumption
<1>7. /\ u.phase = "active" /\ u.conv = c /\ u.next = 1
      /\ u.req = t.req /\ u.began = t.began /\ u.snap = t.snap
      /\ u \in Transaction
  BY <1>6, <1>2, <1>4 DEF Transaction, Locked
<1>8. conv[c] = "unborn" /\ nextSeq[c] = 1
  BY <1>2 DEF NewConversation, Births
<1>9. PhaseFits(u) /\ RowRead(u) /\ Prepared(u)
  BY <1>1, <1>2, <1>3, <1>7, <1>8 DEF PhaseFits, RowRead, Prepared, Locked, OnConv
<1>10. \A h : h = held[cl] \cup locks => LocksHeld(u, h)
  BY <1>1, <1>2, <1>5, <1>7 DEF LocksHeld, Locked
<1>11. /\ locks \in SUBSET Lock /\ \A l \in locks : Free(cl, l)
       /\ Takes(cl, locks) /\ Reads(cl, u) /\ Silent
  BY <1>4, <1>5, LockTypes DEF NewConversation
<1> QED
  BY <1>2, <1>7, <1>9, <1>10, <1>11, GoingOn

LEMMA FindTurnStep ==
  ASSUME TxIInv, NEW cl \in Client, FindTurn(cl)
  PROVE  GoesOn(cl) \/ Refuses(cl, 200)
<1> DEFINE t == tx[cl]
<1>1. t.phase = "find" /\ t.req.op = "turn"
  BY DEF FindTurn, At, Doing
<1>2. /\ TxTypeOK /\ t \in Transaction /\ PhaseFits(t)
      /\ LocksHeld(t, held[cl]) /\ RowRead(t) /\ Prepared(t)
  BY <1>1, Knows
<1>3. SUFFICES ASSUME ~Refuses(cl, 200)
               PROVE  GoesOn(cl)
  OBVIOUS
<1>4. /\ \A u \in TurnsOf(t.conv) : u.key # t.req.key
      /\ Reads(cl, [t EXCEPT !.phase = "active"]) /\ UNCHANGED held /\ Silent
  BY <1>3 DEF FindTurn
<1>5. PICK u : u = [t EXCEPT !.phase = "active"]
  OBVIOUS
<1>6. /\ u \in Transaction /\ u.phase = "active" /\ u.req = t.req
      /\ u.began = t.began /\ u.conv = t.conv /\ u.next = t.next
  BY <1>2, <1>5, OtherPhase
<1>7. PhaseFits(u) /\ RowRead(u) /\ Prepared(u)
  BY <1>1, <1>2, <1>4, <1>6 DEF PhaseFits, RowRead, Prepared, Locked
<1>8. \A h : h = held[cl] => LocksHeld(u, h)
  BY <1>1, <1>2, <1>6 DEF LocksHeld, Locked
<1>9. Reads(cl, u)
  BY <1>4, <1>5
<1> QED
  BY <1>2, <1>4, <1>6, <1>7, <1>8, <1>9, ReadingOn

LEMMA FindBatchStep ==
  ASSUME TxIInv, NEW cl \in Client, FindBatch(cl)
  PROVE  \/ GoesOn(cl) \/ Refuses(cl, 400)
         \/ /\ tx[cl].req.op = "append" /\ Answers(cl, 200) /\ UNCHANGED <<vars, started>>
            /\ \E b \in batches : appended' = appended \cup
                 {[conv |-> b.conv, key |-> b.key, replayed |-> TRUE,
                   ids |-> {i.id : i \in Between(b.conv, b.first, b.last)}]}
<1> DEFINE t == tx[cl]
           batch == {b \in batches : b.conv = t.conv /\ b.key = t.req.key}
           found == \E b \in batch :
                      /\ Answers(cl, 200)
                      /\ appended' = appended \cup
                           {[conv |-> t.conv, key |-> b.key, replayed |-> TRUE,
                             ids |-> {i.id : i \in Between(t.conv, b.first, b.last)}]}
                      /\ UNCHANGED <<vars, started>>
<1>1. t.phase = "find" /\ t.req.op = "append"
  BY DEF FindBatch, At, Doing
<1>2. /\ TxTypeOK /\ t \in Transaction /\ PhaseFits(t)
      /\ LocksHeld(t, held[cl]) /\ RowRead(t) /\ Prepared(t)
  BY <1>1, Knows
<1>3. CASE found
  BY <1>1, <1>3
<1>4. CASE Refuses(cl, 400)
  BY <1>4
<1>5. CASE /\ batch = {}
           /\ t.req.turn = NoTurn \/ \E u \in TurnsOf(t.conv) : u.id = t.req.turn
           /\ Reads(cl, [t EXCEPT !.phase = "files"]) /\ UNCHANGED held /\ Silent
  <2>1. PICK u : u = [t EXCEPT !.phase = "files"]
    OBVIOUS
  <2>2. /\ u \in Transaction /\ u.phase = "files" /\ u.req = t.req
        /\ u.began = t.began /\ u.conv = t.conv /\ u.next = t.next /\ u.snap = t.snap
    BY <1>2, <2>1, OtherPhase
  <2>3. PhaseFits(u) /\ RowRead(u) /\ Prepared(u)
    BY <1>1, <1>2, <1>5, <2>2 DEF PhaseFits, RowRead, Prepared, Locked
  <2>4. \A h : h = held[cl] => LocksHeld(u, h)
    BY <1>1, <1>2, <2>2 DEF LocksHeld, Locked
  <2>5. Reads(cl, u) /\ UNCHANGED held /\ Silent
    BY <1>5, <2>1
  <2> QED
    BY <1>2, <2>2, <2>3, <2>4, <2>5, ReadingOn
<1> QED
  BY <1>3, <1>4, <1>5 DEF FindBatch

LEMMA FindEditStep ==
  ASSUME TxIInv, NEW cl \in Client, FindItem(cl) \/ FindLatestTurn(cl)
  PROVE  GoesOn(cl) \/ \E code \in {200, 404} : Refuses(cl, code)
<1> DEFINE t == tx[cl]
<1>1. t.phase = "find" /\ t.req.op \in {"truncate", "regenerate"}
  BY DEF FindItem, FindLatestTurn, At, Doing
<1>2. /\ TxTypeOK /\ t \in Transaction /\ PhaseFits(t)
      /\ LocksHeld(t, held[cl]) /\ RowRead(t) /\ Prepared(t) /\ TypeOK
  BY <1>1, Knows DEF TxIInv, IInv
<1>3. SUFFICES ASSUME ~Refuses(cl, 200), ~Refuses(cl, 404)
               PROVE  GoesOn(cl)
  OBVIOUS
<1>4. PICK n : /\ Reads(cl, [t EXCEPT !.phase = "commit", !.pick = n])
               /\ UNCHANGED held /\ Silent
               /\ \/ t.req.op = "truncate" /\ \E i \in ItemsOf(t.conv) : i.seq = n
                  \/ t.req.op = "regenerate" /\ \E u \in LatestTurns(t.conv) : u.id = n
  BY <1>3 DEF FindItem, FindLatestTurn, Doing
<1>5. n \in Nat
  BY <1>2, <1>4, BoundAssumption
     DEF TypeOK, ItemsOf, LatestTurns, TurnsOf, Item, Turn
<1>6. PICK u : u = [t EXCEPT !.phase = "commit", !.pick = n]
  OBVIOUS
<1>7. /\ u \in Transaction /\ u.phase = "commit" /\ u.req = t.req /\ u.pick = n
      /\ u.began = t.began /\ u.conv = t.conv /\ u.next = t.next
  BY <1>2, <1>5, <1>6 DEF Transaction, Locked
<1>8. PhaseFits(u) /\ RowRead(u) /\ Prepared(u)
  BY <1>1, <1>2, <1>4, <1>7 DEF PhaseFits, RowRead, Prepared, Locked, OnConv
<1>9. \A h : h = held[cl] => LocksHeld(u, h)
  BY <1>1, <1>2, <1>7 DEF LocksHeld, Locked
<1>10. Reads(cl, u)
  BY <1>4, <1>6
<1> QED
  BY <1>2, <1>4, <1>7, <1>8, <1>9, <1>10, ReadingOn

LEMMA CheckActiveStep ==
  ASSUME TxIInv, NEW cl \in Client, CheckActive(cl)
  PROVE  GoesOn(cl) \/ Refuses(cl, 409)
<1> DEFINE t == tx[cl]
<1>1. t.phase = "active"
  BY DEF CheckActive, At
<1>2. /\ TxTypeOK /\ t \in Transaction /\ PhaseFits(t)
      /\ LocksHeld(t, held[cl]) /\ RowRead(t) /\ Prepared(t)
  BY <1>1, Knows
<1>3. SUFFICES ASSUME ~Refuses(cl, 409)
               PROVE  GoesOn(cl)
  OBVIOUS
<1>4. Reads(cl, [t EXCEPT !.phase = "files"]) /\ UNCHANGED held /\ Silent
  BY <1>3 DEF CheckActive
<1>5. PICK u : u = [t EXCEPT !.phase = "files"]
  OBVIOUS
<1>6. /\ u \in Transaction /\ u.phase = "files" /\ u.req = t.req
      /\ u.began = t.began /\ u.conv = t.conv /\ u.next = t.next /\ u.snap = t.snap
  BY <1>2, <1>5, OtherPhase
<1>7. PhaseFits(u) /\ RowRead(u) /\ Prepared(u)
  BY <1>1, <1>2, <1>6 DEF PhaseFits, RowRead, Prepared, Locked
<1>8. \A h : h = held[cl] => LocksHeld(u, h)
  BY <1>1, <1>2, <1>6 DEF LocksHeld, Locked
<1>9. Reads(cl, u)
  BY <1>4, <1>5
<1> QED
  BY <1>2, <1>4, <1>6, <1>7, <1>8, <1>9, ReadingOn

\* The files a transaction wants are files.
LEMMA WantedFiles ==
  ASSUME TypeOK, NEW t \in Transaction, t.req.op \in {"start", "turn", "append"}
  PROVE  Wanted(t) \subseteq File
<1>1. t.req \in TxRequest
  BY DEF Transaction
<1>2. PayloadOf(t.req) \in Payload \cup {<<>>}
  BY <1>1, RequestFields, Payloads DEF Request
<1>3. PayloadOf(t.req) \in Seq(SUBSET File)
  <2>1. <<>> \in Seq(SUBSET File)
    OBVIOUS
  <2> QED
    BY <1>2, <2>1, PayloadAssumption, Zenon
<1>4. ASSUME NEW p \in Seq(SUBSET File)
      PROVE  Named(p) \subseteq File
  BY DEF Named
<1>5. Refs(t.conv) \subseteq File
  BY DEF TypeOK, Refs, ItemsOf, Item
<1> QED
  BY <1>3, <1>4, <1>5 DEF Wanted

LEMMA LockFilesStep ==
  ASSUME TxIInv, NEW cl \in Client, LockFiles(cl)
  PROVE  GoesOn(cl) \/ Refuses(cl, 404)
<1> DEFINE t == tx[cl]
           p == IF t.req.op = "append" THEN "commit" ELSE "insert"
<1>1. t.phase = "files"
  BY DEF LockFiles, At
<1>2. /\ TxTypeOK /\ t \in Transaction /\ PhaseFits(t)
      /\ LocksHeld(t, held[cl]) /\ RowRead(t) /\ Prepared(t) /\ TypeOK
  BY <1>1, Knows DEF TxIInv, IInv
<1>3. t.req.op \in {"start", "turn", "append"}
  BY <1>1, <1>2 DEF PhaseFits
<1>4. SUFFICES ASSUME ~Refuses(cl, 404)
               PROVE  GoesOn(cl)
  OBVIOUS
<1>5. /\ \A f \in Wanted(t) : Live(f) /\ Free(cl, L("share", f))
      /\ Takes(cl, {L("share", f) : f \in Wanted(t)})
      /\ Reads(cl, [t EXCEPT !.phase = p]) /\ Silent
  BY <1>4 DEF LockFiles
<1>6. PICK u : u = [t EXCEPT !.phase = p]
  OBVIOUS
<1>7. PICK locks : locks = {L("share", f) : f \in Wanted(t)}
  OBVIOUS
<1>8. /\ u \in Transaction /\ u.phase = p /\ u.req = t.req
      /\ u.began = t.began /\ u.conv = t.conv /\ u.next = t.next /\ u.snap = t.snap
  BY <1>2, <1>6, OtherPhase
<1>9. Wanted(u) = Wanted(t)
  BY <1>8 DEF Wanted
<1>10. PhaseFits(u) /\ RowRead(u)
  BY <1>1, <1>2, <1>3, <1>8 DEF PhaseFits, RowRead, Locked, OnConv
<1>11. Prepared(u)
  BY <1>1, <1>2, <1>3, <1>5, <1>8, <1>9 DEF Prepared, Locked
<1>12. \A h : h = held[cl] \cup locks => LocksHeld(u, h)
  BY <1>1, <1>2, <1>3, <1>7, <1>8, <1>9 DEF LocksHeld, Locked
<1>13. locks \in SUBSET Lock /\ \A l \in locks : Free(cl, l)
  BY <1>2, <1>3, <1>5, <1>7, LockTypes, WantedFiles
<1>14. Takes(cl, locks) /\ Reads(cl, u)
  BY <1>5, <1>6, <1>7
<1> QED
  BY <1>2, <1>5, <1>8, <1>10, <1>11, <1>12, <1>13, <1>14, GoingOn

LEMMA InsertTurnRowStep ==
  ASSUME TxIInv, NEW cl \in Client, InsertTurnRow(cl)
  PROVE  GoesOn(cl) \/ Refuses(cl, 409)
<1> DEFINE t == tx[cl]
<1>1. t.phase = "insert"
  BY DEF InsertTurnRow, At
<1>2. /\ TxTypeOK /\ t \in Transaction /\ PhaseFits(t)
      /\ LocksHeld(t, held[cl]) /\ RowRead(t) /\ Prepared(t) /\ TypeOK
  BY <1>1, Knows DEF TxIInv, IInv
<1>3. t.req.op \in {"start", "turn"} /\ t.conv \in Conv
  BY <1>1, <1>2 DEF PhaseFits, RowRead, Locked, OnConv
<1>4. SUFFICES ASSUME ~Refuses(cl, 409)
               PROVE  GoesOn(cl)
  OBVIOUS
<1>5. /\ ~ActiveTurn(t.conv) /\ Free(cl, L("index", t.conv))
      /\ Takes(cl, {L("index", t.conv)})
      /\ Reads(cl, [t EXCEPT !.phase = "commit", !.snap = Refs(t.conv)]) /\ Silent
  BY <1>4 DEF InsertTurnRow
<1>6. PICK u : u = [t EXCEPT !.phase = "commit", !.snap = Refs(t.conv)]
  OBVIOUS
<1>7. PICK locks : locks = {L("index", t.conv)}
  OBVIOUS
<1>8. Refs(t.conv) \in SUBSET File
  BY <1>2 DEF TypeOK, Refs, ItemsOf, Item
<1>9. /\ u \in Transaction /\ u.phase = "commit" /\ u.req = t.req /\ u.began = t.began
      /\ u.conv = t.conv /\ u.next = t.next /\ u.snap = Refs(t.conv)
  BY <1>2, <1>6, <1>8 DEF Transaction, Locked
<1>10. Wanted(u) = Wanted(t)
  BY <1>9 DEF Wanted
<1>11. PhaseFits(u) /\ RowRead(u)
  BY <1>1, <1>2, <1>3, <1>9 DEF PhaseFits, RowRead, Locked, OnConv
<1>12. Prepared(u)
  BY <1>1, <1>2, <1>3, <1>5, <1>9, <1>10 DEF Prepared, Locked
<1>13. \A h : h = held[cl] \cup locks => LocksHeld(u, h)
  BY <1>1, <1>2, <1>3, <1>7, <1>9, <1>10 DEF LocksHeld, Locked
<1>14. locks \in SUBSET Lock /\ \A l \in locks : Free(cl, l)
  BY <1>3, <1>5, <1>7, LockTypes
<1>15. Takes(cl, locks) /\ Reads(cl, u)
  BY <1>5, <1>6, <1>7
<1> QED
  BY <1>2, <1>5, <1>9, <1>11, <1>12, <1>13, <1>14, <1>15, GoingOn

LEMMA LockFileStep ==
  ASSUME TxIInv, NEW cl \in Client, LockFile(cl)
  PROVE  GoesOn(cl) \/ Refuses(cl, 404)
<1> DEFINE t == tx[cl]
           f == t.req.file
<1>1. t.phase = "file"
  BY DEF LockFile, At
<1>2. /\ TxTypeOK /\ t \in Transaction /\ t.req \in TxRequest /\ PhaseFits(t)
      /\ LocksHeld(t, held[cl]) /\ RowRead(t) /\ Prepared(t)
  BY <1>1, Knows
<1>3. t.req.op = "remove" /\ f \in File
  BY <1>1, <1>2, RequestFields DEF PhaseFits
<1>4. SUFFICES ASSUME ~Refuses(cl, 404)
               PROVE  GoesOn(cl)
  OBVIOUS
<1>5. /\ Live(f) /\ Free(cl, L("file", f)) /\ Takes(cl, {L("file", f)})
      /\ Reads(cl, [t EXCEPT !.phase = "referenced"]) /\ Silent
  BY <1>4 DEF LockFile
<1>6. PICK u : u = [t EXCEPT !.phase = "referenced"]
  OBVIOUS
<1>7. PICK locks : locks = {L("file", f)}
  OBVIOUS
<1>8. u \in Transaction /\ u.phase = "referenced" /\ u.req = t.req
  BY <1>2, <1>6, OtherPhase
<1>9. PhaseFits(u) /\ RowRead(u) /\ Prepared(u)
  BY <1>3, <1>5, <1>8 DEF PhaseFits, RowRead, Prepared, Locked, OnConv
<1>10. \A h : h = held[cl] \cup locks => LocksHeld(u, h)
  BY <1>3, <1>7, <1>8 DEF LocksHeld, Locked
<1>11. /\ locks \in SUBSET Lock /\ \A l \in locks : Free(cl, l)
       /\ Takes(cl, locks) /\ Reads(cl, u)
  BY <1>3, <1>5, <1>6, <1>7, LockTypes
<1> QED
  BY <1>2, <1>5, <1>8, <1>9, <1>10, <1>11, GoingOn

LEMMA CheckReferencedStep ==
  ASSUME TxIInv, NEW cl \in Client, CheckReferenced(cl)
  PROVE  GoesOn(cl) \/ Refuses(cl, 409)
<1> DEFINE t == tx[cl]
<1>1. t.phase = "referenced"
  BY DEF CheckReferenced, At
<1>2. /\ TxTypeOK /\ t \in Transaction /\ PhaseFits(t)
      /\ LocksHeld(t, held[cl]) /\ RowRead(t) /\ Prepared(t)
  BY <1>1, Knows
<1>3. t.req.op = "remove"
  BY <1>1, <1>2 DEF PhaseFits
<1>4. SUFFICES ASSUME ~Refuses(cl, 409)
               PROVE  GoesOn(cl)
  OBVIOUS
<1>5. /\ ~Referenced(t.req.file)
      /\ Reads(cl, [t EXCEPT !.phase = "delete"]) /\ UNCHANGED held /\ Silent
  BY <1>4 DEF CheckReferenced
<1>6. PICK u : u = [t EXCEPT !.phase = "delete"]
  OBVIOUS
<1>7. u \in Transaction /\ u.phase = "delete" /\ u.req = t.req
  BY <1>2, <1>6, OtherPhase
<1>8. PhaseFits(u) /\ RowRead(u) /\ Prepared(u)
  BY <1>1, <1>2, <1>3, <1>5, <1>7 DEF PhaseFits, RowRead, Prepared, Locked, OnConv
<1>9. \A h : h = held[cl] => LocksHeld(u, h)
  BY <1>1, <1>2, <1>3, <1>7 DEF LocksHeld, Locked
<1>10. Reads(cl, u)
  BY <1>5, <1>6
<1> QED
  BY <1>2, <1>5, <1>7, <1>8, <1>9, <1>10, ReadingOn

LEMMA BeginStep ==
  ASSUME TxIInv, NEW cl \in Client, NEW r \in TxRequest, Begin(cl, r)
  PROVE  GoesOn(cl)
<1>1. TxTypeOK /\ TypeOK /\ Births
  BY DEF TxIInv, IInv
<1>2. PICK u : u = [phase |-> FirstPhase(r.op), req |-> r, began |-> lastTurn,
                    conv |-> NewConv, next |-> 1, pick |-> 0, snap |-> {}]
  OBVIOUS
<1>3. /\ u.phase = FirstPhase(r.op) /\ u.req = r /\ u.began = lastTurn /\ u.snap = {}
      /\ FirstPhase(r.op) = IF r.op = "start" THEN "key"
                            ELSE IF r.op = "remove" THEN "file" ELSE "conv"
  BY <1>2, FirstPhases
<1>4. lastTurn \in 0..MaxTurns /\ 1 \in 1..MaxSeq
  BY <1>1, BoundAssumption DEF TypeOK
<1>5. u \in Transaction
  BY <1>2, <1>3, <1>4 DEF Transaction
<1>6. r.op \in OnConv \cup {"remove"}
  BY RequestFields
<1>7. PhaseFits(u)
  BY <1>3, <1>6 DEF PhaseFits, OnConv
<1>8. RowRead(u)
  <2>1. SUFFICES ASSUME Target(r) # NewConv, r.op \in OnConv
                 PROVE  conv[Target(r)] # "unborn" /\ born[Target(r)] <= lastTurn
    BY <1>3, <1>4, BoundAssumption DEF RowRead, Locked
  <2>2. conv[Target(r)] # "unborn"
    BY <2>1 DEF Begin, Known, Target, OnConv
  <2>3. Target(r) \in Conv
    BY <2>1, TargetType
  <2> QED
    BY <1>1, <2>2, <2>3 DEF Births
<1>9. Prepared(u)
  BY <1>3 DEF Prepared, Locked
<1>10. \A h : h = held[cl] => LocksHeld(u, h)
  BY <1>3 DEF LocksHeld, Locked
<1>11. Reads(cl, u) /\ UNCHANGED held /\ Silent
  BY <1>2 DEF Begin
<1> QED
  BY <1>1, <1>5, <1>7, <1>8, <1>9, <1>10, <1>11, ReadingOn

-----------------------------------------------------------------------------
(* What others read under their locks stays as it was.                     *)

\* The rows of a conversation, but for the statuses of its turns.
StillThere(c) ==
  /\ conv'[c] = conv[c] /\ nextSeq'[c] = nextSeq[c]
  /\ ItemsOf(c)' = ItemsOf(c)
  /\ {b \in batches' : b.conv = c} = {b \in batches : b.conv = c}
  /\ \A u \in TurnsOf(c) : \E v \in TurnsOf(c)' :
       v.id = u.id /\ v.key = u.key /\ v.created = u.created
  /\ \A v \in TurnsOf(c)' : \E u \in TurnsOf(c) :
       v.id = u.id /\ v.key = u.key /\ v.created = u.created

\* A step leaves alone what these locks protect ...
Undisturbed(locks) ==
  /\ \A c \in Conv : L("conv", c) \in locks => StillThere(c)
  /\ \A c \in Conv :
       L("index", c) \in locks /\ ~ActiveTurn(c) => ~ActiveTurn(c)'
  /\ \A f \in File :
       L("share", f) \in locks \/ L("file", f) \in locks => (Live(f) => Live(f)')
  /\ \A f \in File : L("file", f) \in locks /\ ~Referenced(f) => ~Referenced(f)'
  /\ \A k \in StartKey : L("key", k) \in locks /\ ~KeyUsed(k) => ~KeyUsed(k)'

\* ... and nothing ever undoes this.
Lasting ==
  /\ starts \subseteq starts' /\ lastTurn <= lastTurn'
  /\ \A c \in Conv : conv[c] # "unborn" => conv'[c] # "unborn" /\ born'[c] = born[c]

\* What a transaction has read under its locks is still so.
LEMMA StillPrepared ==
  ASSUME TypeOK, NEW t \in Transaction, PhaseFits(t), NEW locks,
         Undisturbed(locks), Lasting, lastTurn' \in Int,
         LocksHeld(t, locks), RowRead(t), Prepared(t)
  PROVE  LocksHeld(t, locks)' /\ RowRead(t)' /\ Prepared(t)'
<1>1. /\ t.req \in TxRequest /\ t.began \in Int /\ lastTurn \in Int
      /\ t.req.op = "start" => t.req.key \in StartKey
      /\ t.req.op = "remove" => t.req.file \in File
      /\ t.req.op \in OnConv => Target(t.req) \in Conv \cup {NewConv}
  BY RequestFields, TargetType, BoundAssumption DEF Transaction, TypeOK
<1>2. ASSUME t.phase \in Locked
      PROVE  t.req.op \in OnConv /\ t.conv \in Conv /\ StillThere(t.conv)
  BY <1>2 DEF PhaseFits, Locked, OnConv, RowRead, LocksHeld, Undisturbed
<1>3. ASSUME t.phase \in Locked
      PROVE  Refs(t.conv)' = Refs(t.conv) /\ Wanted(t)' = Wanted(t)
  <2>1. ItemsOf(t.conv)' = ItemsOf(t.conv)
    BY <1>2, <1>3 DEF StillThere
  <2>2. Refs(t.conv)' = Refs(t.conv)
    BY <2>1 DEF Refs
  <2> QED
    BY <2>2 DEF Wanted
<1>4. LocksHeld(t, locks)'
  BY <1>3 DEF LocksHeld, Locked
<1>5. RowRead(t)'
  <2>1. t.req.op \in OnConv => t.began <= lastTurn'
    BY <1>1 DEF RowRead, Lasting
  <2>2. ASSUME t.req.op \in OnConv, Target(t.req) # NewConv
        PROVE  conv'[Target(t.req)] # "unborn" /\ born'[Target(t.req)] <= t.began
    BY <1>1, <2>2 DEF RowRead, Lasting
  <2>3. ASSUME t.phase \in Locked
        PROVE  conv'[t.conv] = conv[t.conv] /\ nextSeq'[t.conv] = nextSeq[t.conv]
    BY <1>2, <2>3 DEF StillThere
  <2> QED
    BY <2>1, <2>2, <2>3 DEF RowRead
<1>6. Prepared(t)'
  <2>1. ASSUME t.req.op = "start", t.phase \in {"conv"} \cup Locked
        PROVE  ~KeyUsed(t.req.key)'
    BY <1>1, <2>1 DEF Prepared, LocksHeld, Locked, Undisturbed
  <2>2. ASSUME t.phase = "replay"
        PROVE  \E s \in starts' : s.key = t.req.key /\ s.request = t.req.request
    BY <2>2 DEF Prepared, Lasting
  <2>3. ASSUME t.req.op = "turn", t.phase \in Locked \ {"find"}
        PROVE  \A u \in TurnsOf(t.conv)' : u.key # t.req.key
    BY <1>2, <2>3 DEF Prepared, StillThere
  <2>4. ASSUME t.req.op = "append", t.phase \in {"files", "commit"}
        PROVE  /\ ~\E b \in batches' : b.conv = t.conv /\ b.key = t.req.key
               /\ t.req.turn = NoTurn \/ \E u \in TurnsOf(t.conv)' : u.id = t.req.turn
    <3>1. StillThere(t.conv)
      BY <1>2, <2>4 DEF Locked
    <3>2. \A b \in batches' : b.conv = t.conv => b \in batches
      BY <3>1 DEF StillThere
    <3> QED
      BY <2>4, <3>1, <3>2 DEF Prepared, StillThere
  <2>5. ASSUME t.req.op = "truncate", t.phase = "commit"
        PROVE  \E i \in ItemsOf(t.conv)' : i.seq = t.pick
    BY <1>2, <2>5 DEF Prepared, StillThere, Locked
  <2>6. ASSUME t.req.op = "regenerate", t.phase = "commit"
        PROVE  \E u \in LatestTurns(t.conv)' : u.id = t.pick
    <3>1. StillThere(t.conv)
      BY <1>2, <2>6 DEF Locked
    <3>2. PICK u \in LatestTurns(t.conv) : u.id = t.pick
      BY <2>6 DEF Prepared
    <3>3. PICK v \in TurnsOf(t.conv)' : v.id = u.id /\ v.created = u.created
      BY <3>1, <3>2 DEF StillThere, LatestTurns
    <3>4. \A w \in TurnsOf(t.conv)' : w.created <= v.created
      BY <3>1, <3>2, <3>3 DEF StillThere, LatestTurns
    <3> QED
      BY <3>2, <3>3, <3>4 DEF LatestTurns
  <2>7. ASSUME t.phase \in {"insert", "commit"}, t.req.op \in {"start", "turn", "append"},
               NEW f \in Wanted(t)'
        PROVE  Live(f)'
    <3>1. f \in Wanted(t) /\ f \in File
      BY <1>3, <2>7, WantedFiles DEF Locked
    <3> QED
      BY <2>7, <3>1 DEF Prepared, LocksHeld, Undisturbed
  <2>8. ASSUME t.phase = "commit", t.req.op \in {"start", "turn"}
        PROVE  ~ActiveTurn(t.conv)' /\ t.snap = Refs(t.conv)'
    BY <1>2, <1>3, <2>8 DEF Prepared, LocksHeld, Undisturbed, Locked
  <2>9. ASSUME t.phase \in {"referenced", "delete"}
        PROVE  Live(t.req.file)'
    BY <1>1, <2>9 DEF Prepared, LocksHeld, Undisturbed, PhaseFits
  <2>10. ASSUME t.phase = "delete"
         PROVE  ~Referenced(t.req.file)'
    BY <1>1, <2>10 DEF Prepared, LocksHeld, Undisturbed, PhaseFits
  <2>11. t.req.op = "append" => t.snap = {}
    BY DEF Prepared
  <2> QED
    BY <2>1, <2>2, <2>3, <2>4, <2>5, <2>6, <2>7, <2>8, <2>9, <2>10, <2>11 DEF Prepared
<1> QED
  BY <1>4, <1>5, <1>6

LEMMA ClientUndisturbed ==
  ASSUME TxIInv, NEW o \in Client, Undisturbed(held[o]), Lasting, lastTurn' \in Int,
         tx'[o] = tx[o], held'[o] = held[o]
  PROVE  ClientInv(o)'
<1>1. SUFFICES ASSUME tx[o] # Idle
               PROVE  ClientInv(o)'
  BY DEF ClientInv
<1>2. PICK t : t = tx[o]
  OBVIOUS
<1>3. PICK h : h = held[o]
  OBVIOUS
<1>4. /\ TypeOK /\ t \in Transaction /\ PhaseFits(t)
      /\ LocksHeld(t, h) /\ RowRead(t) /\ Prepared(t)
  BY <1>1, <1>2, <1>3 DEF TxIInv, IInv, ClientInv, TxTypeOK
<1>5. Undisturbed(h)
  BY <1>3 DEF Undisturbed
<1>6. LocksHeld(t, h)' /\ RowRead(t)' /\ Prepared(t)'
  BY <1>4, <1>5, StillPrepared
<1>7. RowRead(tx[o])'
  BY <1>2, <1>6 DEF RowRead
<1>8. LocksHeld(tx[o], held[o])'
  BY <1>2, <1>3, <1>6 DEF LocksHeld, Wanted, Refs, ItemsOf
<1>9. Prepared(tx[o])'
  BY <1>2, <1>6 DEF Prepared, KeyUsed, TurnsOf, ItemsOf, Refs, LatestTurns,
                    Wanted, Live, ActiveTurn, Referenced
<1> QED
  BY <1>7, <1>8, <1>9 DEF ClientInv

\* A conversation's birth is never forgotten.
LEMMA BirthSteps ==
  ASSUME TypeOK, Births, [Next]_vars
  PROVE  Lasting /\ Births' /\ lastTurn' \in Int
<1>1. starts \subseteq starts'
  BY StartSteps
<1>2. lastTurn \in Int /\ lastTurn' \in Int /\ lastTurn <= lastTurn'
  <2>1. lastTurn \in Int /\ lastTurn' \in Int
    BY TypeStep, BoundAssumption DEF TypeOK
  <2>2. \A c, key, began : InsertTurn(c, key, began) => lastTurn' = lastTurn + 1
    BY DEF InsertTurn
  <2>3. \A t, active : UpdateTurn(t, active) => lastTurn' = lastTurn
    BY DEF UpdateTurn
  <2> QED
    BY <2>1, <2>2, <2>3, TurnSteps
<1>3. \A c \in Conv : conv[c] # "unborn" => conv'[c] # "unborn"
  BY ConvSteps
<1>4. /\ conv \in [Conv -> Life] /\ born \in [Conv -> 0..MaxTurns]
      /\ nextSeq \in [Conv -> 1..MaxSeq]
  BY DEF TypeOK
<1>5. CASE \E c \in Conv : CreateConversation(c)
  <2>1. PICK d \in Conv : CreateConversation(d)
    BY <1>5
  <2>2. /\ conv[d] = "unborn" /\ conv' = [conv EXCEPT ![d] = "live"]
        /\ born' = [born EXCEPT ![d] = lastTurn] /\ nextSeq' = nextSeq
    BY <2>1 DEF CreateConversation
  <2>3. \A c \in Conv : conv[c] # "unborn" => born'[c] = born[c]
    BY <1>4, <2>2
  <2>4. Births'
    BY <1>2, <1>4, <2>2, BoundAssumption DEF Births
  <2> QED
    BY <1>1, <1>2, <1>3, <2>3, <2>4 DEF Lasting
<1>6. CASE \E k \in StartKey, r \in Request, c \in Conv, began \in 0..MaxTurns :
             StartTurnCreate(k, r, c, began)
  <2>1. PICK k \in StartKey, r \in Request, d \in Conv, began \in 0..MaxTurns :
          StartTurnCreate(k, r, d, began)
    BY <1>6
  <2>2. /\ conv[d] = "unborn" /\ conv' = [conv EXCEPT ![d] = "live"]
        /\ born' = [born EXCEPT ![d] = lastTurn + 1] /\ lastTurn' = lastTurn + 1
        /\ nextSeq' = [nextSeq EXCEPT ![d] = @ + Len(r.payload)]
    BY <2>1 DEF StartTurnCreate, InsertTurn, InsertItems
  <2>3. \A c \in Conv : conv[c] # "unborn" => born'[c] = born[c]
    BY <1>4, <2>2
  <2>4. Births'
    <3> SUFFICES ASSUME NEW c \in Conv
                 PROVE  born'[c] <= lastTurn' /\ (conv'[c] = "unborn" => nextSeq'[c] = 1)
      BY DEF Births
    <3>1. CASE c = d
      BY <1>2, <1>4, <2>2, <3>1
    <3>2. CASE c # d
      BY <1>2, <1>4, <2>2, <3>2, BoundAssumption DEF Births
    <3> QED
      BY <3>1, <3>2
  <2> QED
    BY <1>1, <1>2, <1>3, <2>3, <2>4 DEF Lasting
<1>7. ASSUME born' = born, \A c \in Conv : conv'[c] = "unborn" =>
                             conv[c] = "unborn" /\ nextSeq'[c] = nextSeq[c]
      PROVE  Lasting /\ Births' /\ lastTurn' \in Int
  BY <1>1, <1>2, <1>3, <1>4, <1>7, BoundAssumption DEF Births, Lasting
<1>8. CASE \/ \E c \in Conv : DeleteConversation(c) \/ RegenerateConversation(c)
           \/ \E f \in File : SaveFile(f) \/ RemoveFile(f)
           \/ \E c \in Conv, key \in TurnKey, began \in 0..MaxTurns :
                CreateTurn(c, key, began)
           \/ \E t \in turns, active \in BOOLEAN : UpdateTurn(t, active)
           \/ \E c \in Conv, response \in Response, through \in 0..MaxSeq :
                ReadForContinuation(c, response, through)
           \/ \E k \in reading : InsertContinuation(k)
           \/ UNCHANGED vars
  <2>1. born' = born /\ nextSeq' = nextSeq
    BY <1>8 DEF DeleteConversation, RegenerateConversation, SaveFile, RemoveFile,
                CreateTurn, UpdateTurn, ReadForContinuation, InsertContinuation, vars
  <2> QED
    BY <1>3, <1>7, <2>1
<1>9. ASSUME NEW d \in Conv, conv[d] = "live", born' = born, conv' = conv,
             \A c \in Conv : c # d => nextSeq'[c] = nextSeq[c]
      PROVE  Lasting /\ Births' /\ lastTurn' \in Int
  BY <1>7, <1>9
<1>10. ASSUME NEW k \in StartKey, NEW r \in Request, NEW began \in 0..MaxTurns,
              StartTurnExisting(k, r, began)
       PROVE  Lasting /\ Births' /\ lastTurn' \in Int
  <2>1. /\ r.target \in Conv /\ conv[r.target] = "live" /\ born' = born /\ conv' = conv
        /\ nextSeq' = [nextSeq EXCEPT ![r.target] = @ + Len(r.payload)]
    BY <1>10 DEF StartTurnExisting, InsertItems, Request
  <2> QED
    BY <1>4, <1>9, <2>1
<1>11. ASSUME NEW c \in Conv, NEW key \in BatchKey, NEW turn \in 0..MaxTurns,
              NEW source \in {"user", "agent"}, NEW payload \in Payload,
              AppendItems(c, key, turn, source, payload)
       PROVE  Lasting /\ Births' /\ lastTurn' \in Int
  <2>1. /\ conv[c] = "live" /\ born' = born /\ conv' = conv
        /\ nextSeq' = [nextSeq EXCEPT ![c] = @ + Len(payload)]
    BY <1>11 DEF AppendItems, InsertItems
  <2> QED
    BY <1>4, <1>9, <2>1
<1>12. ASSUME NEW c \in Conv, NEW cut \in items, TruncateConversation(c, cut)
       PROVE  Lasting /\ Births' /\ lastTurn' \in Int
  <2>1. /\ conv[c] = "live" /\ born' = born /\ conv' = conv
        /\ nextSeq' = [nextSeq EXCEPT ![c] = cut.seq]
    BY <1>12 DEF TruncateConversation
  <2> QED
    BY <1>4, <1>9, <2>1
<1> QED
  BY <1>5, <1>6, <1>8, <1>10, <1>11, <1>12 DEF Next

-----------------------------------------------------------------------------
(* No step disturbs what the others have locked.                           *)

LEMMA NotBoth ==
  ASSUME LocksExclude, NEW cl \in Client, NEW o \in Client, cl # o, NEW x
  PROVE  /\ L("key", x) \in held[cl] => L("key", x) \notin held[o]
         /\ L("conv", x) \in held[cl] => L("conv", x) \notin held[o]
         /\ L("index", x) \in held[cl] => L("index", x) \notin held[o]
         /\ L("share", x) \in held[cl] => L("file", x) \notin held[o]
         /\ L("file", x) \in held[cl] =>
              L("file", x) \notin held[o] /\ L("share", x) \notin held[o]
BY DEF LocksExclude, Excludes, L

\* Rows that are not of c are as they were.
OnlyOf(d) ==
  \A c \in Conv : c # d =>
    /\ conv'[c] = conv[c] /\ nextSeq'[c] = nextSeq[c]
    /\ ItemsOf(c)' = ItemsOf(c) /\ TurnsOf(c)' = TurnsOf(c)
    /\ {b \in batches' : b.conv = c} = {b \in batches : b.conv = c}

\* What a transaction writes for a conversation it has locked.
LEMMA WritesLocked ==
  ASSUME TxIInv, NEW cl \in Client, NEW o \in Client, cl # o,
         NEW d, L("conv", d) \in held[cl], OnlyOf(d), file' = file,
         L("index", d) \in held[cl] \/ TurnsOf(d)' = TurnsOf(d),
         \A f \in File : Referenced(f)' =>
           Referenced(f) \/ L("share", f) \in held[cl],
         \A s \in starts' : s \in starts \/ L("key", s.key) \in held[cl]
  PROVE  Undisturbed(held[o])
<1>0. LocksExclude
  BY DEF TxIInv
<1>1. ASSUME NEW c \in Conv, L("conv", c) \in held[o]
      PROVE  StillThere(c)
  <2>1. c # d
    BY <1>0, <1>1, NotBoth
  <2> QED
    BY <2>1 DEF OnlyOf, StillThere
<1>2. ASSUME NEW c \in Conv, L("index", c) \in held[o], ~ActiveTurn(c)
      PROVE  ~ActiveTurn(c)'
  <2>1. CASE c # d
    BY <1>2, <2>1 DEF OnlyOf, ActiveTurn
  <2>2. CASE c = d
    <3>1. TurnsOf(c)' = TurnsOf(c)
      BY <1>0, <1>2, <2>2, NotBoth
    <3> QED
      BY <1>2, <3>1 DEF ActiveTurn
  <2> QED
    BY <2>1, <2>2
<1>3. \A f \in File : Live(f) => Live(f)'
  BY DEF Live
<1>4. ASSUME NEW f \in File, L("file", f) \in held[o], ~Referenced(f)
      PROVE  ~Referenced(f)'
  BY <1>0, <1>4, NotBoth
<1>5. ASSUME NEW k \in StartKey, L("key", k) \in held[o], ~KeyUsed(k)
      PROVE  ~KeyUsed(k)'
  BY <1>0, <1>5, NotBoth DEF KeyUsed
<1> QED
  BY <1>1, <1>2, <1>3, <1>4, <1>5 DEF Undisturbed

\* A transaction at its commit, the locks it has.
LEMMA LockedAtCommit ==
  ASSUME TxIInv, NEW cl \in Client, tx[cl].phase = "commit"
  PROVE  /\ tx[cl].conv \in Conv /\ L("conv", tx[cl].conv) \in held[cl]
         /\ tx[cl].req \in TxRequest /\ RowRead(tx[cl]) /\ Prepared(tx[cl])
         /\ tx[cl].req.op \in {"start", "turn", "append"} =>
              \A f \in Wanted(tx[cl]) : L("share", f) \in held[cl]
         /\ tx[cl].req.op \in {"start", "turn"} => L("index", tx[cl].conv) \in held[cl]
         /\ tx[cl].req.op = "start" => L("key", tx[cl].req.key) \in held[cl]
BY Knows DEF LocksHeld, RowRead, PhaseFits, Locked

\* Inserted items belong to the transaction's conversation and name its files.
LEMMA ItemRowsFacts ==
  ASSUME NEW t, NEW turn, NEW source, NEW i \in ItemRows(t, turn, source),
         PayloadOf(t.req) \in Seq(SUBSET File)
  PROVE  i.conv = t.conv /\ i.refs \subseteq Wanted(t)
<1>1. PICK j \in DOMAIN PayloadOf(t.req) :
        i = [id |-> lastItem + j, conv |-> t.conv, seq |-> t.next + j - 1,
             turn |-> turn, source |-> source, refs |-> PayloadOf(t.req)[j]]
  BY Zenon DEF ItemRows
<1>2. i.conv = t.conv /\ i.refs = PayloadOf(t.req)[j]
  BY <1>1
<1>3. PICK p \in Seq(SUBSET File) : p = PayloadOf(t.req)
  OBVIOUS
<1>4. j \in 1..Len(p) /\ i.refs = p[j]
  BY <1>1, <1>2, <1>3
<1>5. i.refs \subseteq Named(p)
  BY <1>4 DEF Named
<1> QED
  BY <1>2, <1>3, <1>5 DEF Wanted

LEMMA NothingWritten ==
  ASSUME UNCHANGED vars, NEW o \in Client
  PROVE  Undisturbed(held[o])
<1>1. UNCHANGED <<conv, nextSeq, items, turns, batches, starts, file>>
  BY DEF vars
<1>2. \A c \in Conv : StillThere(c)
  BY <1>1 DEF StillThere, ItemsOf, TurnsOf
<1>3. /\ \A c \in Conv : ActiveTurn(c)' = ActiveTurn(c)
      /\ \A f \in File : Live(f)' = Live(f) /\ Referenced(f)' = Referenced(f)
      /\ \A k \in StartKey : KeyUsed(k)' = KeyUsed(k)
  BY <1>1 DEF ActiveTurn, TurnsOf, Live, Referenced, KeyUsed
<1> QED
  BY <1>2, <1>3 DEF Undisturbed

\* New rows of d, and advanced columns of d, are of d only.
LEMMA InsertsOnlyOf ==
  ASSUME TypeOK, NEW d \in Conv, NEW newItems, NEW newTurns, NEW newBatches,
         \A i \in newItems : i.conv = d,
         \A u \in newTurns : u.conv = d,
         \A b \in newBatches : b.conv = d,
         items' = items \cup newItems, turns' = turns \cup newTurns,
         batches' = batches \cup newBatches,
         \A c \in Conv : c # d => conv'[c] = conv[c] /\ nextSeq'[c] = nextSeq[c]
  PROVE  OnlyOf(d)
<1> SUFFICES ASSUME NEW c \in Conv, c # d
             PROVE  /\ ItemsOf(c)' = ItemsOf(c) /\ TurnsOf(c)' = TurnsOf(c)
                    /\ {b \in batches' : b.conv = c} = {b \in batches : b.conv = c}
  BY DEF OnlyOf
<1>1. ItemsOf(c)' = ItemsOf(c)
  BY DEF ItemsOf
<1>2. TurnsOf(c)' = TurnsOf(c)
  BY DEF TurnsOf
<1>3. {b \in batches' : b.conv = c} = {b \in batches : b.conv = c}
  OBVIOUS
<1> QED
  BY <1>1, <1>2, <1>3

LEMMA PayloadType ==
  ASSUME NEW r \in TxRequest
  PROVE  PayloadOf(r) \in Seq(SUBSET File)
<1>1. r.op = "start" => r.request.payload \in Payload
  BY RequestFields DEF Request
<1>2. PayloadOf(r) \in Payload \cup {<<>>}
  BY <1>1, RequestFields, Payloads
<1>3. <<>> \in Seq(SUBSET File)
  OBVIOUS
<1> QED
  BY <1>2, <1>3, PayloadAssumption, Zenon

LEMMA StartUndisturbed ==
  ASSUME TxIInv, NEW cl \in Client, NEW o \in Client, cl # o, CommitStart(cl)
  PROVE  Undisturbed(held[o])
<1>1. CASE UNCHANGED vars
  BY <1>1, NothingWritten
<1>2. CASE ~UNCHANGED vars
  <2>0. TypeOK
    BY DEF TxIInv, IInv
  <2>1. PICK t : t = tx[cl]
    OBVIOUS
  <2>2. /\ turns' = turns \cup {TurnRow(t, NoKey)}
        /\ items' = items \cup ItemRows(t, lastTurn + 1, "user")
        /\ starts' = starts \cup {StartRow(t)}
        /\ Advance(t) /\ Publish(t)
        /\ UNCHANGED <<batches, file>>
        /\ t.phase = "commit" /\ t.req.op = "start"
    BY <1>2, <2>1 DEF CommitStart, Refuses, Breaks, At, Doing
  <2>3. /\ t.conv \in Conv /\ L("conv", t.conv) \in held[cl]
        /\ t.req \in TxRequest /\ Prepared(t)
        /\ \A f \in Wanted(t) : L("share", f) \in held[cl]
        /\ L("index", t.conv) \in held[cl] /\ L("key", t.req.key) \in held[cl]
    BY <2>1, <2>2, LockedAtCommit
  <2>4. \A i \in ItemRows(t, lastTurn + 1, "user") :
          i.conv = t.conv /\ i.refs \subseteq Wanted(t)
    BY <2>3, ItemRowsFacts, PayloadType
  <2>5. TurnRow(t, NoKey).conv = t.conv /\ TurnRow(t, NoKey).snapshot = Refs(t.conv)
    BY <2>2, <2>3 DEF TurnRow, Prepared
  <2>6. StartRow(t).key = t.req.key
    BY DEF StartRow
  <2>7. \A c \in Conv : c # t.conv => conv'[c] = conv[c] /\ nextSeq'[c] = nextSeq[c]
    BY <2>0, <2>2, <2>3 DEF Advance, Publish, TypeOK
  <2>8. OnlyOf(t.conv)
    <3>1. PICK rows : rows = ItemRows(t, lastTurn + 1, "user")
      OBVIOUS
    <3>2. PICK added : added = {TurnRow(t, NoKey)}
      OBVIOUS
    <3>3. PICK none : none = {}
      OBVIOUS
    <3>4. /\ items' = items \cup rows /\ turns' = turns \cup added
          /\ batches' = batches \cup none
      BY <2>2, <3>1, <3>2, <3>3
    <3>5. /\ \A i \in rows : i.conv = t.conv
          /\ \A u \in added : u.conv = t.conv
          /\ \A b \in none : b.conv = t.conv
      BY <2>4, <2>5, <3>1, <3>2, <3>3
    <3> QED
      BY <2>0, <2>3, <2>7, <3>4, <3>5, InsertsOnlyOf
  <2>9. ASSUME NEW f \in File, Referenced(f)'
        PROVE  Referenced(f) \/ L("share", f) \in held[cl]
    <3>1. Refs(t.conv) \subseteq Wanted(t)
      BY <2>2 DEF Wanted
    <3> QED
      BY <2>2, <2>3, <2>4, <2>5, <2>9, <3>1 DEF Referenced
  <2>10. \A s \in starts' : s \in starts \/ L("key", s.key) \in held[cl]
    BY <2>2, <2>3, <2>6
  <2> QED
    BY <2>2, <2>3, <2>8, <2>9, <2>10, WritesLocked
<1> QED
  BY <1>1, <1>2

LEMMA TurnUndisturbed ==
  ASSUME TxIInv, NEW cl \in Client, NEW o \in Client, cl # o, CommitTurn(cl)
  PROVE  Undisturbed(held[o])
<1>1. CASE UNCHANGED vars
  BY <1>1, NothingWritten
<1>2. CASE ~UNCHANGED vars
  <2>0. TypeOK
    BY DEF TxIInv, IInv
  <2>1. PICK t : t = tx[cl]
    OBVIOUS
  <2>2. /\ turns' = turns \cup {TurnRow(t, t.req.key)}
        /\ UNCHANGED <<conv, nextSeq, items, starts, batches, file>>
        /\ t.phase = "commit" /\ t.req.op = "turn"
    BY <1>2, <2>1 DEF CommitTurn, Breaks, At, Doing
  <2>3. /\ t.conv \in Conv /\ L("conv", t.conv) \in held[cl]
        /\ t.req \in TxRequest /\ Prepared(t)
        /\ \A f \in Wanted(t) : L("share", f) \in held[cl]
        /\ L("index", t.conv) \in held[cl]
    BY <2>1, <2>2, LockedAtCommit
  <2>4. PICK row : row = TurnRow(t, t.req.key)
    OBVIOUS
  <2>5. row.conv = t.conv /\ row.snapshot = Refs(t.conv)
    BY <2>2, <2>3, <2>4 DEF TurnRow, Prepared
  <2>6. OnlyOf(t.conv)
    <3>1. PICK none : none = {}
      OBVIOUS
    <3>2. /\ items' = items \cup none /\ turns' = turns \cup {row}
          /\ batches' = batches \cup none
      BY <2>2, <2>4, <3>1
    <3>3. /\ \A i \in none : i.conv = t.conv
          /\ \A u \in {row} : u.conv = t.conv
      BY <2>5, <3>1
    <3> QED
      BY <2>0, <2>2, <2>3, <3>2, <3>3, InsertsOnlyOf, ZenonT(60)
  <2>7. ASSUME NEW f \in File, Referenced(f)'
        PROVE  Referenced(f) \/ L("share", f) \in held[cl]
    <3>1. Refs(t.conv) \subseteq Wanted(t)
      BY <2>2 DEF Wanted
    <3> QED
      BY <2>2, <2>3, <2>4, <2>5, <2>7, <3>1 DEF Referenced
  <2> QED
    BY <2>2, <2>3, <2>6, <2>7, WritesLocked
<1> QED
  BY <1>1, <1>2

LEMMA AppendUndisturbed ==
  ASSUME TxIInv, NEW cl \in Client, NEW o \in Client, cl # o, CommitAppend(cl)
  PROVE  Undisturbed(held[o])
<1>1. CASE UNCHANGED vars
  BY <1>1, NothingWritten
<1>2. CASE ~UNCHANGED vars
  <2>0. TypeOK
    BY DEF TxIInv, IInv
  <2>1. PICK t : t = tx[cl]
    OBVIOUS
  <2>2. PICK rows : rows = ItemRows(t, t.req.turn, t.req.source)
    OBVIOUS
  <2>3. PICK row : row = [conv |-> t.conv, key |-> t.req.key, first |-> t.next,
                          last |-> t.next + Len(t.req.payload) - 1]
    OBVIOUS
  <2>4. /\ items' = items \cup rows /\ batches' = batches \cup {row}
        /\ Advance(t)
        /\ UNCHANGED <<conv, turns, starts, file>>
        /\ t.phase = "commit" /\ t.req.op = "append"
    BY <1>2, <2>1, <2>2, <2>3 DEF CommitAppend, Refuses, Breaks, At, Doing
  <2>5. /\ t.conv \in Conv /\ L("conv", t.conv) \in held[cl]
        /\ t.req \in TxRequest
        /\ \A f \in Wanted(t) : L("share", f) \in held[cl]
    BY <2>1, <2>4, LockedAtCommit
  <2>6. \A i \in rows : i.conv = t.conv /\ i.refs \subseteq Wanted(t)
    BY <2>2, <2>5, ItemRowsFacts, PayloadType
  <2>7. OnlyOf(t.conv)
    <3>1. PICK none : none = {}
      OBVIOUS
    <3>2. PICK added : added = {row}
      OBVIOUS
    <3>3. turns' = turns \cup none /\ batches' = batches \cup added
      BY <2>4, <3>1, <3>2
    <3>4. /\ \A i \in rows : i.conv = t.conv
          /\ \A u \in none : u.conv = t.conv
      BY <2>6, <3>1
    <3>5. \A b \in added : b.conv = t.conv
      BY <2>3, <3>2
    <3>6. \A c \in Conv : c # t.conv => conv'[c] = conv[c] /\ nextSeq'[c] = nextSeq[c]
      BY <2>0, <2>4, <2>5 DEF Advance, TypeOK
    <3> QED
      BY <2>0, <2>4, <2>5, <3>3, <3>4, <3>5, <3>6, InsertsOnlyOf
  <2>8. ASSUME NEW f \in File, Referenced(f)'
        PROVE  Referenced(f) \/ L("share", f) \in held[cl]
    BY <2>4, <2>5, <2>6, <2>8 DEF Referenced
  <2>9. TurnsOf(t.conv)' = TurnsOf(t.conv)
    BY <2>4 DEF TurnsOf
  <2> QED
    BY <2>4, <2>5, <2>7, <2>8, <2>9, WritesLocked
<1> QED
  BY <1>1, <1>2

\* Truncations and regenerations leave the other conversations alone.
LEMMA EditUndisturbed ==
  ASSUME TxIInv, NEW cl \in Client, NEW o \in Client, cl # o,
         CommitTruncate(cl) \/ CommitRegenerate(cl)
  PROVE  Undisturbed(held[o])
<1>0. TypeOK /\ RowsOwned /\ IdDiscipline
  BY DEF TxIInv, IInv
<1>1. PICK t : t = tx[cl]
  OBVIOUS
<1>2. t.phase = "commit"
  BY <1>1 DEF CommitTruncate, CommitRegenerate, At
<1>3. t.conv \in Conv /\ L("conv", t.conv) \in held[cl] /\ Prepared(t)
  BY <1>1, <1>2, LockedAtCommit
<1>4. /\ items' \subseteq items /\ UNCHANGED <<conv, turns, starts, file>>
      /\ \A i \in items \ items' : i.conv = t.conv
      /\ \A b \in batches' : b \in batches
      /\ \A b \in batches \ batches' : b.conv = t.conv
      /\ \A c \in Conv : c # t.conv => nextSeq'[c] = nextSeq[c]
  <2>1. CASE CommitTruncate(cl)
    <3>1. /\ items' = {i \in items : i.conv = t.conv => i.seq < t.pick}
          /\ batches' = {b \in batches : b.conv = t.conv => b.last < t.pick}
          /\ nextSeq' = [nextSeq EXCEPT ![t.conv] = t.pick]
          /\ UNCHANGED <<conv, turns, starts, file>>
      BY <1>1, <2>1 DEF CommitTruncate, ItemsBefore, BatchesBefore
    <3> QED
      BY <1>0, <1>3, <3>1 DEF TypeOK
  <2>2. CASE CommitRegenerate(cl)
    <3>1. /\ items' = {i \in items : ~(i.turn = t.pick /\ i.source = "agent")}
          /\ UNCHANGED <<conv, nextSeq, turns, batches, starts, file>>
          /\ t.req.op = "regenerate"
      BY <1>1, <2>2 DEF CommitRegenerate, Doing
    <3>2. PICK u \in turns : u.conv = t.conv /\ u.id = t.pick
      BY <1>2, <1>3, <3>1 DEF Prepared, LatestTurns, TurnsOf
    <3>3. u.id # NoTurn
      BY <1>0, <3>2 DEF TypeOK, Turn, NoTurn
    <3>4. \A i \in items \ items' : i.conv = t.conv
      BY <1>0, <3>1, <3>2, <3>3 DEF RowsOwned, IdDiscipline
    <3> QED
      BY <3>1, <3>4
  <2> QED
    BY <2>1, <2>2 DEF CommitTruncate, CommitRegenerate
<1>5. OnlyOf(t.conv)
  <2> SUFFICES ASSUME NEW c \in Conv, c # t.conv
               PROVE  /\ ItemsOf(c)' = ItemsOf(c) /\ TurnsOf(c)' = TurnsOf(c)
                      /\ {b \in batches' : b.conv = c} = {b \in batches : b.conv = c}
                      /\ conv'[c] = conv[c] /\ nextSeq'[c] = nextSeq[c]
    BY DEF OnlyOf
  <2>1. ItemsOf(c)' = ItemsOf(c) /\ TurnsOf(c)' = TurnsOf(c)
    BY <1>4 DEF ItemsOf, TurnsOf
  <2>2. {b \in batches' : b.conv = c} = {b \in batches : b.conv = c}
    BY <1>4
  <2> QED
    BY <1>4, <2>1, <2>2
<1>6. TurnsOf(t.conv)' = TurnsOf(t.conv)
  BY <1>4 DEF TurnsOf
<1>7. \A f \in File : Referenced(f)' => Referenced(f)
  BY <1>4 DEF Referenced
<1> QED
  BY <1>3, <1>4, <1>5, <1>6, <1>7, WritesLocked

\* A file is removed under its lock.
LEMMA RemoveUndisturbed ==
  ASSUME TxIInv, NEW cl \in Client, NEW o \in Client, cl # o, CommitRemove(cl)
  PROVE  Undisturbed(held[o])
<1>1. PICK f : f = tx[cl].req.file
  OBVIOUS
<1>2. /\ UNCHANGED <<conv, nextSeq, items, turns, batches, starts>>
      /\ \A x \in File : x # f => file'[x] = file[x]
      /\ tx[cl].phase = "delete"
  BY <1>1 DEF CommitRemove, Refuses, Breaks, At, vars, TxIInv, IInv, TypeOK
<1>3. L("file", f) \in held[cl] /\ LocksExclude
  BY <1>1, <1>2, Knows DEF LocksHeld, TxIInv
<1>4. \A c \in Conv : StillThere(c)
  BY <1>2 DEF StillThere, ItemsOf, TurnsOf
<1>5. /\ \A c \in Conv : ActiveTurn(c)' = ActiveTurn(c)
      /\ \A x \in File : Referenced(x)' = Referenced(x)
      /\ \A k \in StartKey : KeyUsed(k)' = KeyUsed(k)
  BY <1>2 DEF ActiveTurn, TurnsOf, Referenced, KeyUsed
<1>6. ASSUME NEW x \in File, L("share", x) \in held[o] \/ L("file", x) \in held[o],
             Live(x)
      PROVE  Live(x)'
  <2>1. x # f
    BY <1>3, <1>6, NotBoth
  <2> QED
    BY <1>2, <1>6, <2>1 DEF Live
<1> QED
  BY <1>4, <1>5, <1>6 DEF Undisturbed

\* A status changes under no lock: the index of active turns protects who
\* has an entry in it.
LEMMA UpdateUndisturbed ==
  ASSUME TxIInv, NEW cl \in Client, NEW o \in Client, cl # o,
         NEW u \in turns, NEW active \in BOOLEAN, UpdateTurnRow(cl, u, active)
  PROVE  Undisturbed(held[o])
<1>1. CASE UNCHANGED vars
  BY <1>1, NothingWritten
<1>2. CASE UpdateTurn(u, active)
  <2>1. PICK v : v = [u EXCEPT !.active = active]
    OBVIOUS
  <2>2. u \in Turn
    BY DEF TxIInv, IInv, TypeOK
  <2>3. /\ v.id = u.id /\ v.conv = u.conv /\ v.key = u.key /\ v.created = u.created
        /\ v.active = active /\ v.snapshot = u.snapshot
    BY <2>1, <2>2 DEF Turn
  <2>4. /\ turns' = (turns \ {u}) \cup {v}
        /\ UNCHANGED <<conv, nextSeq, items, batches, starts, file>>
    BY <1>2, <2>1 DEF UpdateTurn
  <2>5. \A c \in Conv : StillThere(c)
    BY <2>3, <2>4 DEF StillThere, ItemsOf, TurnsOf
  <2>6. ASSUME NEW c \in Conv, L("index", c) \in held[o], ~ActiveTurn(c)
        PROVE  ~ActiveTurn(c)'
    <3>1. ASSUME u.conv = c, active
          PROVE  FALSE
      <4>1. ~u.active
        BY <2>6, <3>1 DEF ActiveTurn, TurnsOf
      <4>2. Free(cl, L("index", u.conv))
        BY <3>1, <4>1 DEF UpdateTurnRow
      <4> QED
        BY <2>6, <3>1, <4>2 DEF Free, Excludes, L
    <3>2. u.conv = c => ~v.active
      BY <2>3, <3>1
    <3> QED
      BY <2>3, <2>4, <2>6, <3>2 DEF ActiveTurn, TurnsOf
  <2>7. /\ \A f \in File : Live(f)' = Live(f)
        /\ \A f \in File : Referenced(f)' = Referenced(f)
        /\ \A k \in StartKey : KeyUsed(k)' = KeyUsed(k)
    BY <2>3, <2>4 DEF Live, Referenced, KeyUsed
  <2> QED
    BY <2>5, <2>6, <2>7 DEF Undisturbed
<1> QED
  BY <1>1, <1>2 DEF UpdateTurnRow

\* What leaves the tables that transactions read as they are, but for new files.
LEMMA TablesUndisturbed ==
  ASSUME NEW o \in Client, UNCHANGED <<conv, nextSeq, items, turns, batches, starts>>,
         \A f \in File : Live(f) => Live(f)'
  PROVE  Undisturbed(held[o])
<1>1. \A c \in Conv : StillThere(c)
  BY DEF StillThere, ItemsOf, TurnsOf
<1>2. /\ \A c \in Conv : ActiveTurn(c)' = ActiveTurn(c)
      /\ \A x \in File : Referenced(x)' = Referenced(x)
      /\ \A k \in StartKey : KeyUsed(k)' = KeyUsed(k)
  BY DEF ActiveTurn, TurnsOf, Referenced, KeyUsed
<1> QED
  BY <1>1, <1>2 DEF Undisturbed

LEMMA ContinuationUndisturbed ==
  ASSUME NEW o \in Client,
         \/ \E c \in Conv, response \in Response, through \in 0..MaxSeq :
              ReadForContinuation(c, response, through)
         \/ \E k \in reading : InsertContinuation(k)
  PROVE  Undisturbed(held[o])
<1>1. UNCHANGED <<conv, nextSeq, items, turns, batches, starts, file>>
  BY DEF ReadForContinuation, InsertContinuation
<1>2. \A x \in File : Live(x) => Live(x)'
  BY <1>1 DEF Live
<1> QED
  BY <1>1, <1>2, TablesUndisturbed

\* Statements that wait for the lock of the conversation they change.
LEMMA StatementUndisturbed ==
  ASSUME TxIInv, NEW o \in Client, SingleStatement
  PROVE  Undisturbed(held[o])
<1>0. TypeOK
  BY DEF TxIInv, IInv
<1>1. ASSUME NEW d \in Conv, L("conv", d) \notin held[o], OnlyOf(d),
             \A u \in TurnsOf(d)' : u \in TurnsOf(d),
             UNCHANGED <<starts, file>>,
             \A f \in File : Referenced(f)' => Referenced(f)
      PROVE  Undisturbed(held[o])
  <2>1. \A c \in Conv : c # d => StillThere(c)
    BY <1>1 DEF OnlyOf, StillThere
  <2>2. \A c \in Conv : ActiveTurn(c)' => ActiveTurn(c)
    BY <1>1 DEF OnlyOf, ActiveTurn
  <2>3. /\ \A f \in File : Live(f)' = Live(f)
        /\ \A k \in StartKey : KeyUsed(k)' = KeyUsed(k)
    BY <1>1 DEF Live, KeyUsed
  <2> QED
    BY <1>1, <2>1, <2>2, <2>3 DEF Undisturbed
<1>2. ASSUME NEW d \in Conv, CreateConversation(d), Unlocked(d)
      PROVE  Undisturbed(held[o])
  <2>1. /\ UNCHANGED <<nextSeq, items, turns, batches, starts, file>>
        /\ \A c \in Conv : c # d => conv'[c] = conv[c]
    BY <1>0, <1>2 DEF CreateConversation, TypeOK
  <2>2. OnlyOf(d)
    BY <2>1 DEF OnlyOf, ItemsOf, TurnsOf
  <2>3. (\A u \in TurnsOf(d)' : u \in TurnsOf(d)) /\ L("conv", d) \notin held[o]
    BY <1>2, <2>1 DEF TurnsOf, Unlocked
  <2>4. \A f \in File : Referenced(f)' => Referenced(f)
    BY <2>1 DEF Referenced
  <2> QED
    BY <1>1, <2>1, <2>2, <2>3, <2>4
<1>3. ASSUME NEW d \in Conv, DeleteConversation(d), Unlocked(d)
      PROVE  Undisturbed(held[o])
  <2>1. /\ items' = items \ ItemsOf(d) /\ turns' = turns \ TurnsOf(d)
        /\ batches' = {b \in batches : b.conv # d}
        /\ UNCHANGED <<nextSeq, starts, file>>
        /\ \A c \in Conv : c # d => conv'[c] = conv[c]
    BY <1>0, <1>3 DEF DeleteConversation, TypeOK
  <2>2. OnlyOf(d)
    BY <2>1 DEF OnlyOf, ItemsOf, TurnsOf
  <2>3. (\A u \in TurnsOf(d)' : u \in TurnsOf(d)) /\ L("conv", d) \notin held[o]
    BY <1>3, <2>1 DEF TurnsOf, Unlocked
  <2>4. \A f \in File : Referenced(f)' => Referenced(f)
    BY <2>1 DEF Referenced
  <2> QED
    BY <1>1, <2>1, <2>2, <2>3, <2>4
<1>4. ASSUME NEW f \in File, SaveFile(f)
      PROVE  Undisturbed(held[o])
  <2>1. \A x \in File : Live(x) => Live(x)'
    BY <1>0, <1>4 DEF SaveFile, Live, TypeOK
  <2> QED
    BY <1>4, <2>1, TablesUndisturbed DEF SaveFile
<1>5. ASSUME \E c \in Conv, response \in Response, through \in 0..MaxSeq :
               ReadForContinuation(c, response, through)
      PROVE  Undisturbed(held[o])
  BY <1>5, ContinuationUndisturbed
<1> QED
  BY <1>2, <1>3, <1>4, <1>5 DEF SingleStatement

-----------------------------------------------------------------------------
(* Every step keeps the invariant and is a step, or none, of Ledger.       *)

LEMMA AllKept ==
  ASSUME TxIInv, [Next]_vars, TxTypeOK', LocksExclude',
         \A o \in Client : ClientInv(o)',
         NoServerError', AnswersRecorded', RetryAnswersOwnItems'
  PROVE  TxIInv'
<1>1. IInv' /\ Births'
  BY NextIInv, BirthSteps DEF TxIInv, IInv
<1> QED
  BY <1>1 DEF TxIInv

LEMMA GoesOnKeeps ==
  ASSUME TxIInv, NEW cl \in Client, GoesOn(cl)
  PROVE  TxIInv' /\ UNCHANGED vars
<1>1. UNCHANGED <<vars, answer, started, appended>> /\ [Next]_vars
  BY DEF GoesOn, Silent
<1>2. /\ \A o \in Client : o # cl => tx'[o] = tx[o] /\ held'[o] = held[o]
      /\ tx' \in [Client -> {Idle} \cup Transaction]
      /\ held' \in [Client -> SUBSET Lock]
  <2>1. TxTypeOK
    BY DEF TxIInv
  <2> QED
    BY <2>1, SMTT(30) DEF GoesOn, TxTypeOK
<1>3. TxTypeOK'
  BY <1>1, <1>2 DEF GoesOn, TxIInv, TxTypeOK
<1>4. LocksExclude'
  <2> SUFFICES ASSUME NEW a \in Client, NEW b \in Client, a # b,
                      NEW g \in held'[a], NEW h \in held'[b], g.on = h.on
               PROVE  <<g.kind, h.kind>> \notin Excludes
    BY DEF LocksExclude
  <2>1. \A k, l : <<k, l>> \in Excludes => <<l, k>> \in Excludes
    BY DEF Excludes
  <2>2. CASE a = cl
    <3>1. h \in held[b] /\ b \in Client \ {cl}
      BY <1>2, <2>2
    <3>2. CASE g \in held[cl]
      BY <2>2, <3>1, <3>2 DEF TxIInv, LocksExclude
    <3>3. CASE Free(cl, g)
      <4>1. <<h.kind, g.kind>> \notin Excludes
        BY <3>1, <3>3 DEF Free
      <4> QED
        BY <2>1, <4>1
    <3> QED
      BY <2>2, <3>2, <3>3 DEF GoesOn
  <2>3. CASE b = cl
    <3>1. g \in held[a]
      BY <1>2, <2>3
    <3> QED
      BY <2>1, <2>3, <3>1 DEF GoesOn, Free, TxIInv, LocksExclude
  <2>4. CASE a # cl /\ b # cl
    BY <1>2, <2>4 DEF TxIInv, LocksExclude
  <2> QED
    BY <2>2, <2>3, <2>4
<1>5. \A o \in Client : ClientInv(o)'
  <2> SUFFICES ASSUME NEW o \in Client, o # cl
               PROVE  ClientInv(o)'
    BY DEF GoesOn
  <2>1. Undisturbed(held[o])
    BY <1>1, NothingWritten
  <2>2. Lasting /\ lastTurn' \in Int
    BY <1>1, BirthSteps DEF TxIInv, IInv
  <2> QED
    BY <1>2, <2>1, <2>2, ClientUndisturbed
<1>6. NoServerError' /\ RetryAnswersOwnItems'
  BY <1>1 DEF TxIInv, NoServerError, RetryAnswersOwnItems
<1>7. AnswersRecorded'
  BY <1>1 DEF TxIInv, AnswersRecorded, Between, ItemsOf, vars
<1> QED
  BY <1>1, <1>3, <1>4, <1>5, <1>6, <1>7, AllKept

\* The client gets no answer, one that is no database error, or that of an
\* append past the largest number.
Told(cl) ==
  \/ answer' = answer
  \/ \E code \in {200, 400, 404, 409} : Replies(cl, tx[cl].req.op, code, "none")
  \/ tx[cl].req.op = "append" /\ Replies(cl, "append", 500, "next_seq")

\* An answer with one of the codes a client is meant to get.
LEMMA AnswersTold ==
  ASSUME NEW cl, NEW code \in {200, 400, 404, 409}, Answers(cl, code)
  PROVE  Told(cl)
<1>1. Replies(cl, tx[cl].req.op, code, "none")
  BY DEF Answers
<1> QED
  BY <1>1, ZenonT(60) DEF Told

LEMMA EndsKeeps ==
  ASSUME TxIInv, NEW cl \in Client, tx[cl] # Idle, Ends(cl), [Next]_vars,
         \A o \in Client : o # cl => Undisturbed(held[o]),
         Told(cl), AnswersRecorded', RetryAnswersOwnItems'
  PROVE  TxIInv'
<1>0. /\ tx[cl].req.op \in OnConv \cup {"remove"}
      /\ TxTypeOK /\ LocksExclude /\ NoServerError
  BY RequestFields DEF TxIInv, TxTypeOK, Transaction
<1>1. /\ tx' = [tx EXCEPT ![cl] = Idle] /\ held' = [held EXCEPT ![cl] = {}]
  BY DEF Ends, Reads, Release
<1>2. /\ \A o \in Client : o # cl => tx'[o] = tx[o] /\ held'[o] = held[o]
      /\ tx'[cl] = Idle /\ held'[cl] = {}
      /\ tx' \in [Client -> {Idle} \cup Transaction]
      /\ held' \in [Client -> SUBSET Lock]
  BY <1>0, <1>1 DEF TxTypeOK
<1>3. /\ answer' \in [Client -> Answer]
      /\ NoServerError'
  <2>1. CASE answer' = answer
    BY <1>0, <2>1 DEF TxTypeOK, NoServerError
  <2>2. ASSUME NEW code \in {200, 400, 404, 409},
               Replies(cl, tx[cl].req.op, code, "none")
        PROVE  /\ answer' \in [Client -> Answer]
               /\ NoServerError'
    BY <1>0, <2>2 DEF Replies, Answer, TxTypeOK, NoServerError
  <2>3. CASE tx[cl].req.op = "append" /\ Replies(cl, "append", 500, "next_seq")
    BY <1>0, <2>3 DEF Replies, Answer, OnConv, TxTypeOK, NoServerError
  <2> QED
    BY <2>1, <2>2, <2>3 DEF Told
<1>4. TxTypeOK'
  BY <1>0, <1>2, <1>3 DEF TxTypeOK
<1>5. LocksExclude'
  BY <1>0, <1>2 DEF LocksExclude
<1>6. \A o \in Client : ClientInv(o)'
  <2>1. ClientInv(cl)'
    BY <1>2 DEF ClientInv, Idle
  <2>2. ASSUME NEW o \in Client, o # cl
        PROVE  ClientInv(o)'
    <3>1. Lasting /\ lastTurn' \in Int
      BY BirthSteps DEF TxIInv, IInv
    <3> QED
      BY <1>2, <2>2, <3>1, ClientUndisturbed
  <2> QED
    BY <2>1, <2>2
<1> QED
  BY <1>3, <1>4, <1>5, <1>6, AllKept

LEMMA OutsideKeeps ==
  ASSUME TxIInv, [Next]_vars, UNCHANGED <<tx, held>>,
         \A o \in Client : tx[o] = Idle \/ Undisturbed(held[o]),
         answer' \in [Client -> Answer],
         NoServerError', AnswersRecorded', RetryAnswersOwnItems'
  PROVE  TxIInv'
<1>1. TxTypeOK' /\ LocksExclude'
  BY DEF TxIInv, TxTypeOK, LocksExclude
<1>2. \A o \in Client : ClientInv(o)'
  <2> SUFFICES ASSUME NEW o \in Client, tx[o] # Idle
               PROVE  ClientInv(o)'
    BY DEF ClientInv
  <2>1. Lasting /\ lastTurn' \in Int
    BY BirthSteps DEF TxIInv, IInv
  <2> QED
    BY <2>1, ClientUndisturbed
<1> QED
  BY <1>1, <1>2, AllKept

\* Answers that were recorded stay recorded.
LEMMA AnswersKept ==
  ASSUME TxIInv, [Next]_vars, started' \subseteq starts', appended \subseteq appended',
         \A b \in batches' : b \in batches \/ \E a \in appended' :
           /\ ~a.replayed /\ a.conv = b.conv /\ a.key = b.key
           /\ {i.id : i \in Between(b.conv, b.first, b.last)'} \subseteq a.ids
  PROVE  AnswersRecorded'
<1> SUFFICES ASSUME NEW b \in batches'
             PROVE  \E a \in appended' :
                      /\ ~a.replayed /\ a.conv = b.conv /\ a.key = b.key
                      /\ {i.id : i \in Between(b.conv, b.first, b.last)'} \subseteq a.ids
  BY DEF AnswersRecorded
<1>1. CASE b \in batches
  <2>1. PICK a \in appended :
          /\ ~a.replayed /\ a.conv = b.conv /\ a.key = b.key
          /\ {i.id : i \in Between(b.conv, b.first, b.last)} \subseteq a.ids
    BY <1>1 DEF TxIInv, AnswersRecorded
  <2>2. Between(b.conv, b.first, b.last)' \subseteq Between(b.conv, b.first, b.last)
    BY <1>1, BatchRangeStep DEF TxIInv
  <2> QED
    BY <2>1, <2>2
<1>2. CASE b \notin batches
  BY <1>2
<1> QED
  BY <1>1, <1>2

\* A request that is refused, or one that is answered from what is there.
LEMMA RefusesKeeps ==
  ASSUME TxIInv, NEW cl \in Client, tx[cl] # Idle,
         NEW code \in {200, 400, 404, 409}, Refuses(cl, code)
  PROVE  TxIInv' /\ UNCHANGED vars
<1>1. /\ UNCHANGED <<vars, started, appended>> /\ Ends(cl) /\ [Next]_vars
      /\ Replies(cl, tx[cl].req.op, code, "none")
  BY DEF Refuses, Answers, Quiet
<1>2. ASSUME NEW o \in Client
      PROVE  Undisturbed(held[o])
  BY <1>1, NothingWritten
<1>3. AnswersRecorded' /\ RetryAnswersOwnItems'
  BY <1>1 DEF TxIInv, AnswersRecorded, RetryAnswersOwnItems, Between, ItemsOf, vars
<1>4. Told(cl)
  <2>1. CASE Refuses(cl, 200)
    BY <2>1, AnswersTold DEF Refuses
  <2>2. CASE Refuses(cl, 400)
    BY <2>2, AnswersTold DEF Refuses
  <2>3. CASE Refuses(cl, 404)
    BY <2>3, AnswersTold DEF Refuses
  <2>4. CASE Refuses(cl, 409)
    BY <2>4, AnswersTold DEF Refuses
  <2> QED
    BY <2>1, <2>2, <2>3, <2>4
<1> QED
  BY <1>1, <1>2, <1>3, <1>4, EndsKeeps

LEMMA AbortKeeps ==
  ASSUME TxIInv, NEW cl \in Client, Abort(cl)
  PROVE  TxIInv' /\ UNCHANGED vars
<1>1. /\ UNCHANGED <<vars, answer, started, appended>> /\ Ends(cl) /\ [Next]_vars
      /\ tx[cl] # Idle
  BY DEF Abort, Silent
<1>2. ASSUME NEW o \in Client
      PROVE  Undisturbed(held[o])
  BY <1>1, NothingWritten
<1>3. AnswersRecorded' /\ RetryAnswersOwnItems'
  BY <1>1 DEF TxIInv, AnswersRecorded, RetryAnswersOwnItems, Between, ItemsOf, vars
<1>4. Told(cl)
  BY <1>1 DEF Told
<1> QED
  BY <1>1, <1>2, <1>3, <1>4, EndsKeeps

\* The replay answers with the recorded result: the key has no other.
LEMMA ReplayStartKeeps ==
  ASSUME TxIInv, NEW cl \in Client, ReplayStart(cl)
  PROVE  TxIInv' /\ UNCHANGED vars
<1>1. /\ UNCHANGED <<vars, appended>> /\ Ends(cl) /\ [Next]_vars
      /\ tx[cl].phase = "replay" /\ tx[cl] # Idle
  BY DEF ReplayStart, Answers, At, Idle
<1>2. ASSUME NEW o \in Client
      PROVE  Undisturbed(held[o])
  BY <1>1, NothingWritten
<1>3. started' \subseteq starts'
  <2>1. PICK s \in starts : s.key = tx[cl].req.key /\ s.request = tx[cl].req.request
    BY <1>1, Knows DEF Prepared
  <2>2. \A u \in starts : u.key = s.key => u = s
    BY DEF TxIInv, IInv, StartsRecorded
  <2>3. s \in Start
    BY DEF TxIInv, IInv, TypeOK
  <2>4. [s EXCEPT !.request = tx[cl].req.request] = s
    BY <2>1, <2>3 DEF Start
  <2>5. started' \subseteq started \cup {s}
    BY <2>1, <2>2, <2>4 DEF ReplayStart
  <2> QED
    BY <1>1, <2>5 DEF TxIInv, AnswersRecorded, vars
<1>4. AnswersRecorded' /\ RetryAnswersOwnItems'
  BY <1>1, <1>3 DEF TxIInv, AnswersRecorded, RetryAnswersOwnItems, Between, ItemsOf, vars
<1>5. Told(cl)
  <2>1. Answers(cl, 200) \/ Answers(cl, 409)
    BY DEF ReplayStart
  <2> QED
    BY <2>1, AnswersTold
<1> QED
  BY <1>1, <1>2, <1>4, <1>5, EndsKeeps

\* The retry of an append answers with what is left of that append's items.
LEMMA FindBatchKeeps ==
  ASSUME TxIInv, NEW cl \in Client, FindBatch(cl)
  PROVE  TxIInv' /\ UNCHANGED vars
<1>0. tx[cl] # Idle
  BY DEF FindBatch, At, Idle
<1>1. CASE GoesOn(cl)
  BY <1>1, GoesOnKeeps
<1>2. CASE Refuses(cl, 400)
  BY <1>0, <1>2, RefusesKeeps
<1>3. ASSUME tx[cl].req.op = "append", Answers(cl, 200), UNCHANGED <<vars, started>>,
             NEW b \in batches, appended' = appended \cup
               {[conv |-> b.conv, key |-> b.key, replayed |-> TRUE,
                 ids |-> {i.id : i \in Between(b.conv, b.first, b.last)}]}
      PROVE  TxIInv' /\ UNCHANGED vars
  <2>0. Told(cl)
    BY <1>3, AnswersTold
  <2>1. Ends(cl) /\ [Next]_vars
    BY <1>3 DEF Answers
  <2>2. ASSUME NEW o \in Client
        PROVE  Undisturbed(held[o])
    BY <1>3, NothingWritten
  <2>3. PICK new : new = [conv |-> b.conv, key |-> b.key, replayed |-> TRUE,
                          ids |-> {i.id : i \in Between(b.conv, b.first, b.last)}]
    OBVIOUS
  <2>4. PICK a \in appended :
          /\ ~a.replayed /\ a.conv = b.conv /\ a.key = b.key
          /\ {i.id : i \in Between(b.conv, b.first, b.last)} \subseteq a.ids
    BY DEF TxIInv, AnswersRecorded
  <2>5. /\ appended' = appended \cup {new} /\ new.conv = a.conv /\ new.key = a.key
        /\ new.ids \subseteq a.ids
    BY <1>3, <2>3, <2>4
  <2>6. RetryAnswersOwnItems'
    BY <2>4, <2>5 DEF TxIInv, RetryAnswersOwnItems
  <2>7. started' \subseteq starts' /\ appended \subseteq appended' /\ batches' = batches
    BY <1>3, <2>5 DEF vars, TxIInv, AnswersRecorded
  <2>8. AnswersRecorded'
    BY <2>1, <2>7, AnswersKept
  <2> QED
    BY <1>0, <1>3, <2>0, <2>1, <2>2, <2>6, <2>8, EndsKeeps
<1> QED
  BY <1>1, <1>2, <1>3, FindBatchStep

LEMMA CommitStartKeeps ==
  ASSUME TxIInv, NEW cl \in Client, CommitStart(cl)
  PROVE  TxIInv' /\ [Next]_vars
<1>1. /\ tx[cl] # Idle /\ tx[cl].req.op = "start" /\ Ends(cl)
      /\ UNCHANGED <<batches, appended>>
  BY DEF CommitStart, At, Doing, Idle, Refuses, Breaks, Answers, Quiet, vars
<1>2. CASE UNCHANGED <<vars, started>>
             /\ Replies(cl, "start", 409, "none")
  <2>1. Told(cl)
    BY <1>1, <1>2 DEF Told
  <2>2. AnswersRecorded' /\ RetryAnswersOwnItems'
    BY <1>1, <1>2 DEF TxIInv, AnswersRecorded, RetryAnswersOwnItems, Between, ItemsOf, vars
  <2> QED
    BY <1>1, <1>2, <2>1, <2>2, StartUndisturbed, EndsKeeps
<1>3. CASE /\ \/ \E k \in StartKey, r \in Request, began \in 0..MaxTurns :
                   StartTurnExisting(k, r, began)
              \/ \E k \in StartKey, r \in Request, c \in Conv, began \in 0..MaxTurns :
                   StartTurnCreate(k, r, c, began)
           /\ started' = started \cup {StartRow(tx[cl])}
           /\ starts' = starts \cup {StartRow(tx[cl])}
           /\ Replies(cl, "start", 200, "none")
  <2>1. Told(cl)
    BY <1>1, <1>3 DEF Told
  <2>2. [Next]_vars
    BY <1>3 DEF Next
  <2>3. started' \subseteq starts'
    BY <1>3 DEF TxIInv, AnswersRecorded
  <2>4. AnswersRecorded'
    BY <1>1, <2>2, <2>3, AnswersKept
  <2>5. RetryAnswersOwnItems'
    BY <1>1 DEF TxIInv, RetryAnswersOwnItems
  <2> QED
    BY <1>1, <2>1, <2>2, <2>4, <2>5, StartUndisturbed, EndsKeeps
<1> QED
  BY <1>2, <1>3, CommitStartStep

LEMMA CommitTurnKeeps ==
  ASSUME TxIInv, NEW cl \in Client, CommitTurn(cl)
  PROVE  TxIInv' /\ [Next]_vars
<1>1. /\ tx[cl] # Idle /\ tx[cl].req.op = "turn" /\ Ends(cl)
      /\ UNCHANGED <<starts, batches, started, appended>>
  BY DEF CommitTurn, At, Doing, Idle, Refuses, Breaks, Answers, Quiet, vars
<1>2. /\ [Next]_vars
      /\ Replies(cl, "turn", 200, "none")
  BY CommitTurnStep DEF Next
<1>3. Told(cl)
  BY <1>1, <1>2 DEF Told
<1>4. started' \subseteq starts'
  BY <1>1 DEF TxIInv, AnswersRecorded
<1>5. AnswersRecorded'
  BY <1>1, <1>2, <1>4, AnswersKept
<1>6. RetryAnswersOwnItems'
  BY <1>1 DEF TxIInv, RetryAnswersOwnItems
<1> QED
  BY <1>1, <1>2, <1>3, <1>5, <1>6, TurnUndisturbed, EndsKeeps

\* The range of a new batch holds the items of its append and no others.
LEMMA CommitAppendKeeps ==
  ASSUME TxIInv, NEW cl \in Client, CommitAppend(cl)
  PROVE  TxIInv' /\ [Next]_vars
<1>1. /\ tx[cl] # Idle /\ tx[cl].req.op = "append" /\ Ends(cl)
      /\ UNCHANGED <<starts, started>>
  BY DEF CommitAppend, At, Doing, Idle, Refuses, Breaks, Answers, Quiet, vars
<1>2. CASE UNCHANGED <<vars, appended>>
             /\ Replies(cl, "append", 500, "next_seq")
  <2>1. Told(cl)
    BY <1>1, <1>2 DEF Told
  <2>2. AnswersRecorded' /\ RetryAnswersOwnItems'
    BY <1>1, <1>2 DEF TxIInv, AnswersRecorded, RetryAnswersOwnItems, Between, ItemsOf, vars
  <2> QED
    BY <1>1, <1>2, <2>1, <2>2, AppendUndisturbed, EndsKeeps
<1>3. ASSUME NEW c \in Conv, NEW key \in BatchKey, NEW turn \in 0..MaxTurns,
             NEW source \in {"user", "agent"}, NEW payload \in Payload,
             AppendItems(c, key, turn, source, payload),
             appended' = appended \cup
               {[conv |-> c, key |-> key, replayed |-> FALSE,
                 ids |-> {i.id : i \in NewItems(c, turn, source, payload)}]},
             Replies(cl, "append", 200, "none")
      PROVE  TxIInv' /\ [Next]_vars
  <2>1. Told(cl)
    BY <1>1, <1>3 DEF Told
  <2>2. [Next]_vars
    BY <1>3 DEF Next
  <2>3. started' \subseteq starts'
    BY <1>1 DEF TxIInv, AnswersRecorded
  <2>4. PICK a : a = [conv |-> c, key |-> key, replayed |-> FALSE,
                      ids |-> {i.id : i \in NewItems(c, turn, source, payload)}]
    OBVIOUS
  <2>5. PICK new : new = [conv |-> c, key |-> key, first |-> nextSeq[c],
                          last |-> nextSeq[c] + Len(payload) - 1]
    OBVIOUS
  <2>6. /\ appended' = appended \cup {a} /\ a.conv = c /\ a.key = key /\ ~a.replayed
        /\ a.ids = {i.id : i \in NewItems(c, turn, source, payload)}
    BY <1>3, <2>4
  <2>7. /\ batches' = batches \cup {new} /\ new.conv = c /\ new.key = key
        /\ new.first = nextSeq[c]
        /\ items' = items \cup NewItems(c, turn, source, payload)
    BY <1>3, <2>5 DEF AppendItems, InsertItems
  <2>8. Between(new.conv, new.first, new.last)' \subseteq NewItems(c, turn, source, payload)
    <3> SUFFICES ASSUME NEW i \in items', i.conv = c, i.seq \in nextSeq[c]..new.last,
                        i \in items
                 PROVE  FALSE
      BY <2>7 DEF Between, ItemsOf
    <3>1. i.seq < nextSeq[c] /\ i.seq \in Int /\ nextSeq[c] \in Int
      BY BoundAssumption DEF TxIInv, IInv, TypeOK, Item, SequenceDiscipline
    <3> QED
      BY <3>1
  <2>9. {i.id : i \in Between(new.conv, new.first, new.last)'} \subseteq a.ids
    BY <2>6, <2>8
  <2>10. AnswersRecorded'
    <3>1. ASSUME NEW b \in batches', b \notin batches
          PROVE  \E x \in appended' :
                   /\ ~x.replayed /\ x.conv = b.conv /\ x.key = b.key
                   /\ {i.id : i \in Between(b.conv, b.first, b.last)'} \subseteq x.ids
      BY <2>6, <2>7, <2>9, <3>1
    <3>2. appended \subseteq appended'
      BY <2>6
    <3> QED
      BY <2>2, <2>3, <3>1, <3>2, AnswersKept
  <2>11. RetryAnswersOwnItems'
    BY <2>6 DEF TxIInv, RetryAnswersOwnItems
  <2> QED
    BY <1>1, <2>1, <2>2, <2>10, <2>11, AppendUndisturbed, EndsKeeps
<1> QED
  BY <1>2, <1>3, CommitAppendStep

LEMMA CommitEditKeeps ==
  ASSUME TxIInv, NEW cl \in Client,
         CommitTruncate(cl) \/ CommitRegenerate(cl) \/ CommitRemove(cl)
  PROVE  TxIInv' /\ [Next]_vars
<1>1. /\ tx[cl] # Idle /\ Ends(cl)
      /\ UNCHANGED <<starts, started, appended>> /\ batches' \subseteq batches
  BY DEF CommitTruncate, CommitRegenerate, CommitRemove, BatchesBefore, At, Doing,
         Idle, Refuses, Breaks, Answers, Quiet, vars
<1>2. /\ [Next]_vars
      /\ Replies(cl, tx[cl].req.op, 200, "none")
  BY CommitEditStep DEF Next
<1>3. Told(cl)
  BY <1>2, ZenonT(60) DEF Told
<1>4. started' \subseteq starts'
  BY <1>1 DEF TxIInv, AnswersRecorded
<1>5. AnswersRecorded'
  BY <1>1, <1>2, <1>4, AnswersKept
<1>6. RetryAnswersOwnItems'
  BY <1>1 DEF TxIInv, RetryAnswersOwnItems
<1> QED
  BY <1>1, <1>2, <1>3, <1>5, <1>6, EditUndisturbed, RemoveUndisturbed, EndsKeeps

LEMMA UpdateTurnRowKeeps ==
  ASSUME TxIInv, NEW cl \in Client, NEW u \in turns, NEW active \in BOOLEAN,
         UpdateTurnRow(cl, u, active)
  PROVE  TxIInv' /\ [Next]_vars
<1>1. /\ tx[cl] = Idle /\ UNCHANGED <<tx, held, started, appended>>
      /\ UpdateTurn(u, active) \/ UNCHANGED vars
  BY DEF UpdateTurnRow
<1>2. [Next]_vars /\ UNCHANGED <<starts, batches>>
  BY <1>1 DEF Next, UpdateTurn, vars
<1>3. \A o \in Client : tx[o] = Idle \/ Undisturbed(held[o])
  BY <1>1, UpdateUndisturbed
<1>4. Replies(cl, "update", 200, "none") \/ Replies(cl, "update", 500, "active_turn")
  BY DEF UpdateTurnRow
<1>5. /\ answer' \in [Client -> Answer]
      /\ NoServerError'
  BY <1>4 DEF Replies, Answer, TxIInv, TxTypeOK, NoServerError
<1>6. started' \subseteq starts'
  BY <1>1, <1>2 DEF TxIInv, AnswersRecorded
<1>7. AnswersRecorded'
  BY <1>1, <1>2, <1>6, AnswersKept
<1>8. RetryAnswersOwnItems'
  BY <1>1 DEF TxIInv, RetryAnswersOwnItems
<1> QED
  BY <1>1, <1>2, <1>3, <1>5, <1>7, <1>8, OutsideKeeps

\* The insert of a continuation changes nothing that a transaction reads.
LEMMA InsertContinuationRowKeeps ==
  ASSUME TxIInv, NEW cl \in Client, NEW k \in reading, InsertContinuationRow(cl, k)
  PROVE  TxIInv' /\ [Next]_vars
<1>1. UNCHANGED <<tx, held, started, appended>> /\ InsertContinuation(k)
  BY DEF InsertContinuationRow
<1>2. [Next]_vars /\ UNCHANGED <<starts, batches>>
  BY <1>1 DEF Next, InsertContinuation
<1>3. \A o \in Client : Undisturbed(held[o])
  BY <1>1, ContinuationUndisturbed
<1>4. \/ \E code \in {200, 409} : Replies(cl, "continue", code, "none")
      \/ Replies(cl, "continue", 500, "conversation")
  BY DEF InsertContinuationRow
<1>5. answer' \in [Client -> Answer] /\ NoServerError'
  BY <1>4 DEF Replies, Answer, TxIInv, TxTypeOK, NoServerError
<1>6. started' \subseteq starts'
  BY <1>1, <1>2 DEF TxIInv, AnswersRecorded
<1>7. AnswersRecorded'
  BY <1>1, <1>2, <1>6, AnswersKept
<1>8. RetryAnswersOwnItems'
  BY <1>1 DEF TxIInv, RetryAnswersOwnItems
<1> QED
  BY <1>1, <1>2, <1>3, <1>5, <1>7, <1>8, OutsideKeeps

LEMMA SingleStatementKeeps ==
  ASSUME TxIInv, SingleStatement
  PROVE  TxIInv' /\ [Next]_vars
<1>1. UNCHANGED <<tx, held, answer, started, appended>>
  BY DEF SingleStatement, txVars
<1>2. [Next]_vars
  BY DEF SingleStatement, Next
<1>3. starts' = starts /\ batches' \subseteq batches
  BY DEF SingleStatement, CreateConversation, DeleteConversation, SaveFile,
         ReadForContinuation
<1>4. \A o \in Client : Undisturbed(held[o])
  BY StatementUndisturbed
<1>5. started' \subseteq starts'
  BY <1>1, <1>3 DEF TxIInv, AnswersRecorded
<1>6. AnswersRecorded'
  BY <1>1, <1>2, <1>3, <1>5, AnswersKept
<1>7. RetryAnswersOwnItems' /\ NoServerError'
  BY <1>1 DEF TxIInv, RetryAnswersOwnItems, NoServerError
<1>8. answer' \in [Client -> Answer]
  BY <1>1 DEF TxIInv, TxTypeOK
<1> QED
  BY <1>1, <1>2, <1>4, <1>6, <1>7, <1>8, OutsideKeeps

LEMMA StepKeeps ==
  ASSUME TxIInv, NEW cl \in Client, Step(cl)
  PROVE  TxIInv' /\ [Next]_vars
<1>0. tx[cl] # Idle
  <2>1. \A p : At(cl, p) /\ p # "idle" => tx[cl] # Idle
    BY DEF At, Idle
  <2>2. LockKey(cl) \/ LookupKey(cl) \/ ReplayStart(cl) \/ LockConversation(cl)
          \/ (\E c \in Conv : NewConversation(cl, c)) => tx[cl] # Idle
    BY <2>1 DEF LockKey, LookupKey, ReplayStart, LockConversation, NewConversation
  <2>3. FindTurn(cl) \/ FindBatch(cl) \/ FindItem(cl) \/ FindLatestTurn(cl)
          \/ CheckActive(cl) \/ LockFiles(cl) \/ InsertTurnRow(cl) => tx[cl] # Idle
    BY <2>1 DEF FindTurn, FindBatch, FindItem, FindLatestTurn, CheckActive, LockFiles,
                InsertTurnRow
  <2>4. CommitStart(cl) \/ CommitTurn(cl) \/ CommitAppend(cl) \/ CommitTruncate(cl)
          \/ CommitRegenerate(cl) => tx[cl] # Idle
    BY <2>1 DEF CommitStart, CommitTurn, CommitAppend, CommitTruncate, CommitRegenerate
  <2>5. LockFile(cl) \/ CheckReferenced(cl) \/ CommitRemove(cl) => tx[cl] # Idle
    BY <2>1 DEF LockFile, CheckReferenced, CommitRemove
  <2> QED
    BY <2>2, <2>3, <2>4, <2>5 DEF Step
<1>1. ASSUME GoesOn(cl) \/ \E code \in {200, 400, 404, 409} : Refuses(cl, code)
      PROVE  TxIInv' /\ [Next]_vars
  BY <1>0, <1>1, GoesOnKeeps, RefusesKeeps
<1>2. CASE LockKey(cl) \/ LookupKey(cl)
  BY <1>1, <1>2, LockKeyStep, LookupKeyStep
<1>3. CASE ReplayStart(cl) \/ FindBatch(cl)
  BY <1>3, ReplayStartKeeps, FindBatchKeeps
<1>4. CASE LockConversation(cl) \/ \E c \in Conv : NewConversation(cl, c)
  BY <1>1, <1>4, LockConversationStep, NewConversationStep
<1>5. CASE FindTurn(cl) \/ FindItem(cl) \/ FindLatestTurn(cl)
  BY <1>1, <1>5, FindTurnStep, FindEditStep
<1>6. CASE CheckActive(cl) \/ LockFiles(cl) \/ InsertTurnRow(cl)
  BY <1>1, <1>6, CheckActiveStep, LockFilesStep, InsertTurnRowStep
<1>7. CASE LockFile(cl) \/ CheckReferenced(cl)
  BY <1>1, <1>7, LockFileStep, CheckReferencedStep
<1>8. CASE \/ CommitStart(cl) \/ CommitTurn(cl) \/ CommitAppend(cl)
           \/ CommitTruncate(cl) \/ CommitRegenerate(cl) \/ CommitRemove(cl)
  BY <1>8, CommitStartKeeps, CommitTurnKeeps, CommitAppendKeeps, CommitEditKeeps
<1> QED
  BY <1>2, <1>3, <1>4, <1>5, <1>6, <1>7, <1>8 DEF Step

LEMMA TxStep ==
  ASSUME TxIInv, [TxNext]_allVars
  PROVE  TxIInv' /\ [Next]_vars
<1>1. CASE UNCHANGED allVars
  <2>1. /\ UNCHANGED <<conv, nextSeq, born, items, turns, batches, starts, file,
                       lastTurn, lastItem, conts, reading>>
        /\ UNCHANGED <<tx, held, answer, started, appended>>
    BY <1>1 DEF allVars, vars, txVars
  <2>2. UNCHANGED vars
    BY <2>1 DEF vars
  <2>3. \A o \in Client : Undisturbed(held[o])
    BY <2>2, NothingWritten
  <2>4. /\ RetryAnswersOwnItems' /\ NoServerError' /\ AnswersRecorded'
        /\ answer' \in [Client -> Answer]
    <3>1. RetryAnswersOwnItems' = RetryAnswersOwnItems
      BY <2>1 DEF RetryAnswersOwnItems, Between, ItemsOf
    <3>2. AnswersRecorded' = AnswersRecorded
      BY <2>1 DEF AnswersRecorded, Between, ItemsOf
    <3> QED
      BY <2>1, <3>1, <3>2 DEF TxIInv, TxTypeOK, NoServerError
  <2> QED
    BY <2>1, <2>2, <2>3, <2>4, OutsideKeeps
<1>2. ASSUME NEW cl \in Client, NEW r \in TxRequest, Begin(cl, r)
      PROVE  TxIInv' /\ [Next]_vars
  BY <1>2, BeginStep, GoesOnKeeps
<1>3. ASSUME NEW cl \in Client, Step(cl)
      PROVE  TxIInv' /\ [Next]_vars
  BY <1>3, StepKeeps
<1>4. ASSUME NEW cl \in Client, Abort(cl)
      PROVE  TxIInv' /\ [Next]_vars
  BY <1>4, AbortKeeps
<1>5. ASSUME NEW cl \in Client, NEW u \in turns, NEW active \in BOOLEAN,
             UpdateTurnRow(cl, u, active)
      PROVE  TxIInv' /\ [Next]_vars
  BY <1>5, UpdateTurnRowKeeps
<1>6. ASSUME NEW cl \in Client, NEW k \in reading, InsertContinuationRow(cl, k)
      PROVE  TxIInv' /\ [Next]_vars
  BY <1>6, InsertContinuationRowKeeps
<1>7. CASE SingleStatement
  BY <1>7, SingleStatementKeeps
<1> QED
  BY <1>1, <1>2, <1>3, <1>4, <1>5, <1>6, <1>7 DEF TxNext

LEMMA TxInitIInv == TxInit => TxIInv
<1> SUFFICES ASSUME TxInit
             PROVE  TxIInv
  OBVIOUS
<1>1. IInv /\ Births
  BY InitIInv DEF TxInit, Init, Births
<1>2. TxTypeOK /\ LocksExclude
  BY DEF TxInit, TxTypeOK, Answer, LocksExclude
<1>3. \A cl \in Client : ClientInv(cl)
  BY DEF TxInit, ClientInv
<1>4. NoServerError /\ AnswersRecorded /\ RetryAnswersOwnItems
  BY DEF TxInit, Init, NoServerError, AnswersRecorded, RetryAnswersOwnItems
<1> QED
  BY <1>1, <1>2, <1>3, <1>4 DEF TxIInv

-----------------------------------------------------------------------------
(* Waiting.  Locks are taken in one order: the key of a start, the         *)
(* conversation, the files, the entry in the index of active turns; so a   *)
(* transaction only waits for one that has come further (WaitsAhead).      *)

\* The statements at which a transaction can have a lock of this kind.
While(kind) ==
  CASE kind = "key" -> {"lookup", "replay", "conv"} \cup Locked
                         \cup {"referenced", "delete"}
    [] kind = "conv" -> Locked
    [] kind = "share" -> {"insert", "commit"}
    [] kind = "index" -> {"commit"}
    [] kind = "file" -> {"referenced", "delete"}

\* A transaction has no lock before the statement that takes it, and none
\* when it has ended.
LocksFit ==
  \A cl \in Client :
    IF tx[cl] = Idle THEN held[cl] = {}
    ELSE \A h \in held[cl] : tx[cl].phase \in While(h.kind)

Kind == {"key", "conv", "index", "file", "share"}

LEMMA Whiles ==
  /\ While("key") = {"lookup", "replay", "conv"} \cup Locked \cup {"referenced", "delete"}
  /\ While("conv") = Locked
  /\ While("share") = {"insert", "commit"}
  /\ While("index") = {"commit"}
  /\ While("file") = {"referenced", "delete"}
BY DEF While

\* The steps of a transaction from one statement to the next, and what they
\* leave behind them.
LEMMA FitsOn ==
  ASSUME TxTypeOK, LocksFit, NEW cl \in Client, tx[cl] # Idle,
         NEW t, t # Idle, Reads(cl, t),
         NEW locks, (UNCHANGED held /\ locks = {}) \/ Takes(cl, locks),
         \A l \in locks : t.phase \in While(l.kind),
         \A kind \in Kind : tx[cl].phase \in While(kind) => t.phase \in While(kind)
  PROVE  LocksFit'
<1>1. tx'[cl] = t /\ held'[cl] = held[cl] \cup locks
  BY DEF Reads, Takes, TxTypeOK
<1>2. \A o \in Client : o # cl => tx'[o] = tx[o] /\ held'[o] = held[o]
  BY DEF Reads, Takes, TxTypeOK
<1>3. \A h \in held[cl] : h.kind \in Kind /\ tx[cl].phase \in While(h.kind)
  BY DEF LocksFit, TxTypeOK, Lock, Kind
<1>4. \A h \in held'[cl] : tx'[cl].phase \in While(h.kind)
  BY <1>1, <1>3
<1>5. ASSUME NEW o \in Client
      PROVE  IF tx'[o] = Idle THEN held'[o] = {}
             ELSE \A h \in held'[o] : tx'[o].phase \in While(h.kind)
  BY <1>1, <1>2, <1>4 DEF LocksFit
<1> QED
  BY <1>5 DEF LocksFit, While

LEMMA FitsEnd ==
  ASSUME TxTypeOK, LocksFit, NEW cl \in Client, Ends(cl)
  PROVE  LocksFit'
<1>1. tx'[cl] = Idle /\ held'[cl] = {}
  BY DEF Ends, Reads, Release, TxTypeOK
<1>2. \A o \in Client : o # cl => tx'[o] = tx[o] /\ held'[o] = held[o]
  BY DEF Ends, Reads, Release, TxTypeOK
<1> QED
  BY <1>1, <1>2 DEF LocksFit, While

\* Which statements follow each other, and the locks taken in between.
Follows(p, q, kinds) ==
  /\ p \in {"key", "lookup", "replay", "conv", "file", "referenced", "delete"} \cup Locked
  /\ q \in {"key", "lookup", "replay", "conv", "file", "referenced", "delete"} \cup Locked
  /\ \A kind \in kinds : q \in While(kind)
  /\ \A kind \in Kind : p \in While(kind) => q \in While(kind)

LEMMA Order ==
  /\ Follows("key", "lookup", {"key"})
  /\ \A q \in {"conv", "replay"} : Follows("lookup", q, {})
  /\ \A q \in {"active", "find"} : Follows("conv", q, {"conv"})
  /\ \A q \in {"active", "files", "commit"} : Follows("find", q, {})
  /\ Follows("active", "files", {})
  /\ \A q \in {"insert", "commit"} : Follows("files", q, {"share"})
  /\ Follows("insert", "commit", {"index"})
  /\ Follows("file", "referenced", {"file"})
  /\ Follows("referenced", "delete", {})
BY Whiles DEF Follows, Kind, Locked

LEMMA FitsNext ==
  ASSUME TxTypeOK, LocksFit, NEW cl \in Client,
         NEW p, NEW q, NEW kinds, At(cl, p), Follows(p, q, kinds),
         NEW t, t.phase = q, Reads(cl, t),
         NEW locks, (UNCHANGED held /\ locks = {}) \/ Takes(cl, locks),
         \A l \in locks : l.kind \in kinds
  PROVE  LocksFit'
<1>1. tx[cl] # Idle /\ t # Idle
  BY DEF At, Follows, Idle, Locked
<1>2. \A l \in locks : t.phase \in While(l.kind)
  BY DEF Follows
<1>3. \A kind \in Kind : tx[cl].phase \in While(kind) => t.phase \in While(kind)
  BY DEF Follows, At
<1> QED
  BY <1>1, <1>2, <1>3, FitsOn

\* The same without a lock, and a transaction that is over.
LEMMA FitsGoing ==
  ASSUME TxTypeOK, LocksFit, NEW cl \in Client,
         NEW p, NEW q, At(cl, p), Follows(p, q, {}),
         Reads(cl, [tx[cl] EXCEPT !.phase = q]), UNCHANGED held
  PROVE  LocksFit'
<1>1. PICK t : t = [tx[cl] EXCEPT !.phase = q]
  OBVIOUS
<1>2. PICK locks : locks = {}
  OBVIOUS
<1>3. p # "idle"
  BY DEF Follows, Locked
<1>4. t.phase = q
  BY <1>1, <1>3, RunningFacts DEF At, Transaction
<1>5. Reads(cl, t) /\ \A l \in locks : l.kind \in {}
  BY <1>1, <1>2
<1>6. UNCHANGED held /\ locks = {}
  BY <1>2
<1> QED
  BY <1>2, <1>4, <1>5, <1>6, FitsNext

LEMMA FitsOver ==
  ASSUME TxTypeOK, LocksFit, NEW cl \in Client,
         \E code \in {200, 400, 404, 409} : Answers(cl, code) \/ Refuses(cl, code)
  PROVE  LocksFit'
BY FitsEnd DEF Answers, Refuses

LEMMA StartFits ==
  ASSUME TxTypeOK, LocksFit, NEW cl \in Client,
         LockKey(cl) \/ LookupKey(cl) \/ ReplayStart(cl)
  PROVE  LocksFit'
<1>1. CASE LockKey(cl)
  <2>1. PICK t : t = [tx[cl] EXCEPT !.phase = "lookup"]
    OBVIOUS
  <2>2. PICK locks : locks = {L("key", tx[cl].req.key)}
    OBVIOUS
  <2>3. At(cl, "key") /\ Takes(cl, locks) /\ Reads(cl, t)
    BY <1>1, <2>1, <2>2 DEF LockKey
  <2>4. t.phase = "lookup"
    BY <2>1, <2>3, RunningFacts DEF At, Transaction
  <2>5. \A l \in locks : l.kind \in {"key"}
    BY <2>2 DEF L
  <2> QED
    BY <2>3, <2>4, <2>5, Order, FitsNext
<1>2. CASE LookupKey(cl)
  <2>1. At(cl, "lookup")
    BY <1>2 DEF LookupKey
  <2>2. CASE \E q \in {"conv", "replay"} :
               Reads(cl, [tx[cl] EXCEPT !.phase = q]) /\ UNCHANGED held
    BY <2>1, <2>2, Order, FitsGoing
  <2>3. CASE \E code \in {404, 409} : Refuses(cl, code)
    BY <2>3, FitsOver
  <2> QED
    BY <1>2, <2>2, <2>3 DEF LookupKey
<1>3. CASE ReplayStart(cl)
  BY <1>3, FitsOver DEF ReplayStart
<1> QED
  BY <1>1, <1>2, <1>3

LEMMA ConversationFits ==
  ASSUME TxTypeOK, LocksFit, NEW cl \in Client,
         LockConversation(cl) \/ \E c \in Conv : NewConversation(cl, c)
  PROVE  LocksFit'
<1>1. CASE Refuses(cl, 404)
  BY <1>1, FitsOver
<1>2. ASSUME NEW c, NEW q \in {"active", "find"}, At(cl, "conv"),
             Takes(cl, {L("conv", c)}), NEW t, t.phase = q, Reads(cl, t)
      PROVE  LocksFit'
  <2>1. PICK locks : locks = {L("conv", c)}
    OBVIOUS
  <2>2. \A l \in locks : l.kind \in {"conv"}
    BY <2>1 DEF L
  <2>3. Takes(cl, locks) /\ Follows("conv", q, {"conv"})
    BY <1>2, <2>1, Order
  <2> QED
    BY <1>2, <2>2, <2>3, FitsNext
<1>3. CASE LockConversation(cl)
  <2>1. PICK c : c = Target(tx[cl].req)
    OBVIOUS
  <2>2. PICK q : q = AfterLock(tx[cl].req.op)
    OBVIOUS
  <2>3. PICK t : t = [tx[cl] EXCEPT !.phase = q, !.conv = c, !.next = nextSeq[c]]
    OBVIOUS
  <2>4. At(cl, "conv") /\ (Refuses(cl, 404) \/ (Takes(cl, {L("conv", c)}) /\ Reads(cl, t)))
    BY <1>3, <2>1, <2>2, <2>3 DEF LockConversation, ConvLock
  <2>5. t.phase = q
    BY <2>3, <2>4, RunningFacts DEF At, Transaction
  <2>6. q \in {"active", "find"}
    BY <2>2 DEF AfterLock
  <2> QED
    BY <1>1, <1>2, <2>4, <2>5, <2>6
<1>4. ASSUME NEW c \in Conv, NewConversation(cl, c)
      PROVE  LocksFit'
  <2>1. PICK t : t = [tx[cl] EXCEPT !.phase = "active", !.conv = c, !.next = 1]
    OBVIOUS
  <2>2. At(cl, "conv") /\ Takes(cl, {L("conv", c)}) /\ Reads(cl, t)
    BY <1>4, <2>1, Zenon DEF NewConversation
  <2>3. t.phase = "active"
    BY <2>1, <2>2, RunningFacts DEF At, Transaction
  <2> QED
    BY <1>2, <2>2, <2>3
<1> QED
  BY <1>3, <1>4

LEMMA FindFits ==
  ASSUME TxTypeOK, LocksFit, NEW cl \in Client,
         \/ FindTurn(cl) \/ FindBatch(cl) \/ FindItem(cl) \/ FindLatestTurn(cl)
         \/ CheckActive(cl)
  PROVE  LocksFit'
<1>1. ASSUME \E code \in {200, 400, 404, 409} : Answers(cl, code) \/ Refuses(cl, code)
      PROVE  LocksFit'
  BY <1>1, FitsOver
<1>2. CASE FindTurn(cl) \/ FindBatch(cl) \/ CheckActive(cl)
  <2>1. ASSUME NEW p, NEW q, At(cl, p), Follows(p, q, {}),
               Reads(cl, [tx[cl] EXCEPT !.phase = q]), UNCHANGED held
        PROVE  LocksFit'
    BY <2>1, FitsGoing
  <2>2. CASE FindTurn(cl)
    BY <1>1, <2>1, <2>2, Order DEF FindTurn
  <2>3. CASE FindBatch(cl)
    BY <1>1, <2>1, <2>3, Order DEF FindBatch
  <2>4. CASE CheckActive(cl)
    BY <1>1, <2>1, <2>4, Order DEF CheckActive
  <2> QED
    BY <1>2, <2>2, <2>3, <2>4
<1>3. ASSUME At(cl, "find"), UNCHANGED held, NEW t, t.phase = "commit", Reads(cl, t)
      PROVE  LocksFit'
  <2>1. PICK locks : locks = {}
    OBVIOUS
  <2>2. (UNCHANGED held /\ locks = {}) /\ \A l \in locks : l.kind \in {}
    BY <1>3, <2>1
  <2>3. Follows("find", "commit", {})
    BY Order
  <2> QED
    BY <1>3, <2>2, <2>3, FitsNext
<1>4. CASE FindItem(cl) /\ ~Refuses(cl, 404)
  <2>1. PICK i \in ItemsOf(tx[cl].conv) :
          /\ Reads(cl, [tx[cl] EXCEPT !.phase = "commit", !.pick = i.seq])
          /\ UNCHANGED held
    BY <1>4, Zenon DEF FindItem
  <2>2. PICK t : t = [tx[cl] EXCEPT !.phase = "commit", !.pick = i.seq]
    OBVIOUS
  <2>3. At(cl, "find") /\ Reads(cl, t)
    BY <1>4, <2>1, <2>2, Zenon DEF FindItem
  <2>4. t.phase = "commit"
    BY <2>2, <2>3, RunningFacts DEF At, Transaction
  <2> QED
    BY <1>3, <2>1, <2>3, <2>4
<1>5. CASE FindLatestTurn(cl) /\ ~Refuses(cl, 200)
  <2>1. PICK u \in LatestTurns(tx[cl].conv) :
          /\ Reads(cl, [tx[cl] EXCEPT !.phase = "commit", !.pick = u.id])
          /\ UNCHANGED held
    BY <1>5, Zenon DEF FindLatestTurn
  <2>2. PICK t : t = [tx[cl] EXCEPT !.phase = "commit", !.pick = u.id]
    OBVIOUS
  <2>3. At(cl, "find") /\ Reads(cl, t)
    BY <1>5, <2>1, <2>2, Zenon DEF FindLatestTurn
  <2>4. t.phase = "commit"
    BY <2>2, <2>3, RunningFacts DEF At, Transaction
  <2> QED
    BY <1>3, <2>1, <2>3, <2>4
<1> QED
  BY <1>1, <1>2, <1>4, <1>5

LEMMA FilesFit ==
  ASSUME TxTypeOK, LocksFit, NEW cl \in Client, LockFiles(cl) \/ InsertTurnRow(cl)
  PROVE  LocksFit'
<1>1. ASSUME \E code \in {404, 409} : Refuses(cl, code)
      PROVE  LocksFit'
  BY <1>1, FitsOver
<1>2. CASE LockFiles(cl)
  <2> DEFINE q == IF tx[cl].req.op = "append" THEN "commit" ELSE "insert"
  <2>1. CASE /\ Takes(cl, {L("share", f) : f \in Wanted(tx[cl])})
             /\ Reads(cl, [tx[cl] EXCEPT !.phase = q])
    <3>1. PICK t : t = [tx[cl] EXCEPT !.phase = q]
      OBVIOUS
    <3>2. PICK locks : locks = {L("share", f) : f \in Wanted(tx[cl])}
      OBVIOUS
    <3>3. At(cl, "files")
      BY <1>2 DEF LockFiles
    <3>4. t.phase = q
      BY <3>1, <3>3, RunningFacts DEF At, Transaction
    <3>5. \A l \in locks : l.kind \in {"share"}
      BY <3>2 DEF L
    <3>6. Follows("files", q, {"share"})
      BY Order
    <3> QED
      BY <2>1, <3>1, <3>2, <3>3, <3>4, <3>5, <3>6, FitsNext
  <2> QED
    BY <1>1, <1>2, <2>1 DEF LockFiles
<1>3. CASE InsertTurnRow(cl)
  <2>1. CASE /\ Takes(cl, {L("index", tx[cl].conv)})
             /\ Reads(cl, [tx[cl] EXCEPT !.phase = "commit", !.snap = Refs(tx[cl].conv)])
    <3>1. PICK t : t = [tx[cl] EXCEPT !.phase = "commit", !.snap = Refs(tx[cl].conv)]
      OBVIOUS
    <3>2. PICK locks : locks = {L("index", tx[cl].conv)}
      OBVIOUS
    <3>3. At(cl, "insert")
      BY <1>3 DEF InsertTurnRow
    <3>4. t.phase = "commit"
      BY <3>1, <3>3, RunningFacts DEF At, Transaction
    <3>5. \A l \in locks : l.kind \in {"index"}
      BY <3>2 DEF L
    <3> QED
      BY <2>1, <3>1, <3>2, <3>3, <3>4, <3>5, Order, FitsNext
  <2> QED
    BY <1>1, <1>3, <2>1 DEF InsertTurnRow
<1> QED
  BY <1>2, <1>3

LEMMA RemoveFits ==
  ASSUME TxTypeOK, LocksFit, NEW cl \in Client, LockFile(cl) \/ CheckReferenced(cl)
  PROVE  LocksFit'
<1>1. ASSUME \E code \in {404, 409} : Refuses(cl, code)
      PROVE  LocksFit'
  BY <1>1, FitsOver
<1>2. CASE LockFile(cl)
  <2>1. CASE /\ Takes(cl, {L("file", tx[cl].req.file)})
             /\ Reads(cl, [tx[cl] EXCEPT !.phase = "referenced"])
    <3>1. PICK t : t = [tx[cl] EXCEPT !.phase = "referenced"]
      OBVIOUS
    <3>2. PICK locks : locks = {L("file", tx[cl].req.file)}
      OBVIOUS
    <3>3. At(cl, "file")
      BY <1>2 DEF LockFile
    <3>4. t.phase = "referenced"
      BY <3>1, <3>3, RunningFacts DEF At, Transaction
    <3>5. \A l \in locks : l.kind \in {"file"}
      BY <3>2 DEF L
    <3> QED
      BY <2>1, <3>1, <3>2, <3>3, <3>4, <3>5, Order, FitsNext
  <2> QED
    BY <1>1, <1>2, <2>1 DEF LockFile
<1>3. CASE CheckReferenced(cl)
  BY <1>1, <1>3, Order, FitsGoing DEF CheckReferenced
<1> QED
  BY <1>2, <1>3

LEMMA LocksFitStep ==
  ASSUME TxIInv, LocksFit, [TxNext]_allVars
  PROVE  LocksFit'
<1>0. TxTypeOK
  BY DEF TxIInv
<1>1. ASSUME UNCHANGED <<tx, held>>
      PROVE  LocksFit'
  BY <1>1 DEF LocksFit, While
<1>2. ASSUME NEW cl \in Client, NEW r \in TxRequest, Begin(cl, r)
      PROVE  LocksFit'
  <2>1. held[cl] = {} /\ UNCHANGED held
    BY <1>2 DEF Begin, LocksFit
  <2>2. \A o \in Client : o # cl => tx'[o] = tx[o]
    BY <1>0, <1>2 DEF Begin, Reads, TxTypeOK
  <2> QED
    BY <2>1, <2>2 DEF LocksFit, While
<1>3. ASSUME NEW cl \in Client, Step(cl)
      PROVE  LocksFit'
  <2>1. CASE \/ CommitStart(cl) \/ CommitTurn(cl) \/ CommitAppend(cl)
             \/ CommitTruncate(cl) \/ CommitRegenerate(cl) \/ CommitRemove(cl)
    <3>1. Ends(cl)
      BY <2>1 DEF CommitStart, CommitTurn, CommitAppend, CommitTruncate,
                  CommitRegenerate, CommitRemove, Refuses, Breaks, Answers
    <3> QED
      BY <1>0, <3>1, FitsEnd
  <2> QED
    BY <1>0, <1>3, <2>1, StartFits, ConversationFits, FindFits, FilesFit, RemoveFits
       DEF Step
<1>4. ASSUME NEW cl \in Client, Abort(cl)
      PROVE  LocksFit'
  BY <1>0, <1>4, FitsEnd DEF Abort
<1>5. ASSUME NEW cl \in Client, NEW u \in turns, NEW active \in BOOLEAN,
             UpdateTurnRow(cl, u, active)
      PROVE  LocksFit'
  BY <1>1, <1>5 DEF UpdateTurnRow
<1>6. ASSUME NEW cl \in Client, NEW k \in reading, InsertContinuationRow(cl, k)
      PROVE  LocksFit'
  BY <1>1, <1>6 DEF InsertContinuationRow
<1>7. CASE SingleStatement
  BY <1>1, <1>7 DEF SingleStatement, txVars
<1>8. CASE UNCHANGED allVars
  BY <1>1, <1>8 DEF allVars, txVars
<1> QED
  BY <1>2, <1>3, <1>4, <1>5, <1>6, <1>7, <1>8 DEF TxNext

\* How far a transaction has come.
Rank(p) ==
  CASE p = "key" -> 1
    [] p \in {"lookup", "replay", "conv"} -> 2
    [] p \in {"find", "active", "files", "file"} -> 3
    [] p = "insert" -> 4
    [] p \in {"commit", "referenced", "delete"} -> 5

LEMMA Ranks ==
  /\ Rank("key") = 1
  /\ Rank("lookup") = 2 /\ Rank("replay") = 2 /\ Rank("conv") = 2
  /\ Rank("find") = 3 /\ Rank("active") = 3 /\ Rank("files") = 3 /\ Rank("file") = 3
  /\ Rank("insert") = 4
  /\ Rank("commit") = 5 /\ Rank("referenced") = 5 /\ Rank("delete") = 5
BY DEF Rank

LEMMA WaitsAhead ==
  ASSUME TxTypeOK, LocksFit, NEW a \in Running, NEW b \in Running, WaitsFor(a, b)
  PROVE  Rank(tx[a].phase) < Rank(tx[b].phase)
<1> DEFINE p == tx[a].phase
           q == tx[b].phase
<1>1. PICK l \in Asks(tx[a]), h \in held[b] : <<h.kind, l.kind>> \in Excludes
  BY DEF WaitsFor
<1>2. tx[a] \in Transaction /\ tx[b] \in Transaction
  BY DEF Running, TxTypeOK
<1>3. h \in Lock /\ q \in While(h.kind)
  BY <1>1 DEF Running, LocksFit, TxTypeOK
<1>4. \/ p = "key" /\ l.kind = "key"
      \/ p \in {"replay", "conv"} /\ l.kind = "conv"
      \/ p = "files" /\ l.kind = "share"
      \/ p = "insert" /\ l.kind = "index"
      \/ p = "file" /\ l.kind = "file"
  <2>1. CASE p \in {"key", "replay", "conv"}
    BY <1>1, <2>1 DEF Asks, L
  <2>2. CASE p \in {"files", "insert", "file"}
    BY <1>1, <2>2 DEF Asks, L
  <2>3. CASE p \notin {"key", "replay", "conv", "files", "insert", "file"}
    BY <1>1, <2>3 DEF Asks
  <2> QED
    BY <2>1, <2>2, <2>3
<1>5. \/ h.kind = l.kind
      \/ h.kind = "file" /\ l.kind = "share"
      \/ h.kind = "share" /\ l.kind = "file"
  BY <1>1 DEF Excludes
<1> QED
  BY <1>3, <1>4, <1>5, Whiles, Ranks DEF Locked

LEMMA RankRange ==
  ASSUME TxTypeOK, NEW cl \in Running
  PROVE  Rank(tx[cl].phase) \in 1..5
<1>1. tx[cl].phase \in {"key", "lookup", "replay", "conv", "file", "referenced", "delete"}
                         \cup Locked
  BY DEF Running, TxTypeOK, Transaction
<1> QED
  BY <1>1, Ranks DEF Locked

\* One that has come furthest waits for none of the others.
LEMMA SomeoneGoesOn ==
  ASSUME TxTypeOK, LocksFit
  PROVE  NoCircularWait
<1> SUFFICES ASSUME NEW S \in SUBSET Running, S # {}
             PROVE  \E cl \in S : \A o \in S \ {cl} : ~WaitsFor(cl, o)
  BY DEF NoCircularWait
<1>1. \A cl \in S : Rank(tx[cl].phase) \in 1..5
  BY RankRange
<1>2. \E cl \in S : \A o \in S : Rank(tx[o].phase) <= Rank(tx[cl].phase)
  <2> DEFINE R(cl) == Rank(tx[cl].phase)
  <2> HIDE DEF R
  <2>1. \A cl \in S : R(cl) \in 1..5
    BY <1>1 DEF R
  <2>2. \E cl \in S : \A o \in S : R(o) <= R(cl)
    <3>1. CASE \E cl \in S : R(cl) = 5
      BY <2>1, <3>1
    <3>2. CASE (\E cl \in S : R(cl) = 4) /\ \A o \in S : R(o) # 5
      BY <2>1, <3>2
    <3>3. CASE (\E cl \in S : R(cl) = 3) /\ \A o \in S : R(o) \notin {4, 5}
      BY <2>1, <3>3
    <3>4. CASE (\E cl \in S : R(cl) = 2) /\ \A o \in S : R(o) \notin {3, 4, 5}
      BY <2>1, <3>4
    <3>5. CASE \A o \in S : R(o) \notin {2, 3, 4, 5}
      BY <2>1, <3>5
    <3> QED
      BY <3>1, <3>2, <3>3, <3>4, <3>5
  <2> QED
    BY <2>2 DEF R
<1>3. PICK cl \in S : \A o \in S : Rank(tx[o].phase) <= Rank(tx[cl].phase)
  BY <1>2
<1>4. ASSUME NEW o \in S, WaitsFor(cl, o)
      PROVE  FALSE
  BY <1>1, <1>3, <1>4, WaitsAhead
<1> QED
  BY <1>4

-----------------------------------------------------------------------------
(* Theorems.                                                               *)

\* In every reachable state the locks exclude each other, and what a
\* transaction has read under its locks is what the tables hold.
THEOREM TxInductive == TxSpec => []TxIInv
<1>1. TxIInv /\ [TxNext]_allVars => TxIInv'
  BY TxStep
<1> QED
  BY <1>1, TxInitIInv, PTL DEF TxSpec

\* However the statements of the transactions interleave, and wherever they
\* stop or are repeated, what they commit is a behaviour of Ledger.
THEOREM TransactionsAreAtomic == TxSpec => LedgerSpec
<1>1. TxIInv /\ [TxNext]_allVars => [UNCHANGED vars \/ Next]_vars
  BY TxStep
<1>2. TxInit => Init
  BY DEF TxInit
<1> QED
  BY <1>1, <1>2, TxInductive, PTL DEF TxSpec, LedgerSpec

\* What the statements commit is a behaviour of Spec,
THEOREM TransactionsImplement == TxSpec => Spec
<1>1. [UNCHANGED vars \/ Next]_vars => [Next]_vars
  OBVIOUS
<1> QED
  BY <1>1, TransactionsAreAtomic, PTL DEF LedgerSpec, Spec

\* so after every statement of every transaction a conversation has one active
\* turn at most, positions and ids name one item, and every reference has its
\* file,
THEOREM StatementsKeepInvariants ==
  TxSpec => [](OneActiveTurn /\ SequenceDiscipline /\ FilesResolve)
BY TransactionsImplement, OneActive, SequenceSafety, FilesSafety, PTL

\* and a start runs once, a recorded batch keeps its items, a checkpoint its
\* transcript and an agent its context, whichever statements interleave.
THEOREM StatementsKeepPromises ==
  TxSpec => /\ StartLifecycle /\ BatchKeepsItsItems
            /\ CheckpointCoversFixedTranscript /\ AgentContextStable
BY TransactionsImplement, StartOnce, BatchOwnership, CheckpointFixed,
   AgentContextFixed, PTL

\* A constraint of the schema answers a request with 500 in the three named
\* cases only: locks and checks leave the others nothing to violate.
THEOREM NoRequestFails == TxSpec => []NoServerError
<1>1. TxIInv => NoServerError
  BY DEF TxIInv
<1> QED
  BY <1>1, TxInductive, PTL

\* All answers of start_turn for a key are one result.
THEOREM StartAnswersAgree == TxSpec => []AnswersAgree
<1>1. TxIInv => AnswersAgree
  BY DEF TxIInv, AnswersRecorded, IInv, StartsRecorded, AnswersAgree
<1> QED
  BY <1>1, TxInductive, PTL

\* A retried append is answered with items of that append.
THEOREM RetriesAnswerOwnItems == TxSpec => []RetryAnswersOwnItems
<1>1. TxIInv => RetryAnswersOwnItems
  BY DEF TxIInv
<1> QED
  BY <1>1, TxInductive, PTL

\* However many transactions run, they never wait for each other in a circle.
THEOREM NobodyWaitsInACircle == TxSpec => []NoCircularWait
<1>1. TxInit => LocksFit
  BY DEF TxInit, LocksFit
<1>2. TxIInv /\ LocksFit /\ [TxNext]_allVars => LocksFit'
  BY LocksFitStep
<1>3. TxIInv /\ LocksFit => NoCircularWait
  BY SomeoneGoesOn DEF TxIInv
<1> QED
  BY <1>1, <1>2, <1>3, TxInductive, PTL DEF TxSpec
=============================================================================
