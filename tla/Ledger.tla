------------------------------- MODULE Ledger -------------------------------
(***************************************************************************)
(* The conversation ledger of src/src/store.rs, at the granularity of      *)
(* committed transactions, for one (tenant, owner) scope: conversations,   *)
(* their items, turns, append batches, turn starts and continuations, and  *)
(* the file rows that items and turn snapshots refer to.                   *)
(*                                                                         *)
(* A mutation that locks the conversation row first (lock_conversation)    *)
(* is one step.  Operations that do not are split where another            *)
(* transaction can come between: create_continuation reads next_seq,       *)
(* unlocked, and inserts in a second statement.  A transaction may wait    *)
(* for its lock, and turns.created_at is the time it began, not the time   *)
(* it committed: "created" is any moment between the birth of the          *)
(* conversation and the commit.                                            *)
(***************************************************************************)
EXTENDS Integers, Sequences, FiniteSets

CONSTANTS
  Conv,       \* conversation ids
  File,       \* file ids
  StartKey,   \* (client_id, idempotency_key) pairs of turn starts
  TurnKey,    \* idempotency keys of POST .../turns
  BatchKey,   \* idempotency keys of POST .../items
  Response,   \* (agent_ref, response_id) pairs of continuations
  Payload,    \* item lists a request may carry: the files each item names
  NewConv,    \* target of a turn start that creates its conversation
  NoKey,      \* turns.idempotency_key IS NULL
  MaxSeq,     \* i64::MAX: next_seq never passes it
  MaxItems,   \* bound: item ids handed out
  MaxTurns    \* bound: turn ids handed out

ASSUME PayloadAssumption ==
  \A p \in Payload : p \in Seq(SUBSET File) /\ Len(p) > 0
ASSUME SentinelAssumption == NewConv \notin Conv /\ NoKey \notin TurnKey
ASSUME BoundAssumption ==
  MaxSeq \in Nat \ {0} /\ MaxItems \in Nat /\ MaxTurns \in Nat

VARIABLES
  conv,       \* life of each conversation id
  nextSeq,    \* conversations.next_seq
  born,       \* logical time the conversation's creation committed
  items,      \* conversation_items, with their conversation_item_files
  turns,      \* turns, with their turn_file_snapshots
  batches,    \* append_batches
  starts,     \* turn_starts, with their turn_start_items
  conts,      \* continuations
  reading,    \* create_continuation calls that have read next_seq
  file,       \* life of each file id
  lastItem,   \* item ids handed out so far (ids are never used twice)
  lastTurn    \* turn ids handed out so far; also the logical clock

vars == <<conv, nextSeq, born, items, turns, batches, starts, conts, reading,
          file, lastItem, lastTurn>>

-----------------------------------------------------------------------------
NoTurn == 0                     \* conversation_items.turn_id IS NULL
Life == {"unborn", "live", "deleted"}

Request == [target: Conv \cup {NewConv}, payload: Payload]

Item == [id: 1..MaxItems, conv: Conv, seq: 1..MaxSeq, turn: 0..MaxTurns,
         source: {"user", "agent"}, refs: SUBSET File]
Turn == [id: 1..MaxTurns, conv: Conv, key: TurnKey \cup {NoKey},
         created: 0..MaxTurns, active: BOOLEAN, snapshot: SUBSET File]
Batch == [conv: Conv, key: BatchKey, first: 1..MaxSeq, last: 1..MaxSeq]
Start == [key: StartKey, request: Request, conv: Conv, turn: 1..MaxTurns,
          first: 1..MaxSeq, last: 1..MaxSeq,
          children: SUBSET [id: 1..MaxItems, seq: 1..MaxSeq]]
Continuation == [response: Response, conv: Conv, through: 0..MaxSeq]

\* Type invariant: every row has the columns and ranges of the schema
\* (migrations/0001..0006).
TypeOK ==
  /\ conv \in [Conv -> Life]
  /\ nextSeq \in [Conv -> 1..MaxSeq]
  /\ born \in [Conv -> 0..MaxTurns]
  /\ items \in SUBSET Item
  /\ turns \in SUBSET Turn
  /\ batches \in SUBSET Batch
  /\ starts \in SUBSET Start
  /\ conts \in SUBSET Continuation
  /\ reading \in SUBSET Continuation
  /\ file \in [File -> Life]
  /\ lastItem \in 0..MaxItems
  /\ lastTurn \in 0..MaxTurns

Init ==
  /\ conv = [c \in Conv |-> "unborn"]
  /\ nextSeq = [c \in Conv |-> 1]
  /\ born = [c \in Conv |-> 0]
  /\ items = {} /\ turns = {} /\ batches = {}
  /\ starts = {} /\ conts = {} /\ reading = {}
  /\ file = [f \in File |-> "unborn"]
  /\ lastItem = 0
  /\ lastTurn = 0

-----------------------------------------------------------------------------
(* What the queries of the store return.                                   *)

ItemsOf(c) == {i \in items : i.conv = c}
TurnsOf(c) == {t \in turns : t.conv = c}
Refs(c) == UNION {i.refs : i \in ItemsOf(c)}
Live(f) == file[f] = "live"
ActiveTurn(c) == \E t \in TurnsOf(c) : t.active

\* files::remove's EXISTS query, which the ON DELETE RESTRICT keys repeat.
Referenced(f) == \/ \E i \in items : f \in i.refs
                 \/ \E t \in turns : f \in t.snapshot

\* The items a batch stands for, as an append retry reads them back.
Between(c, first, last) == {i \in ItemsOf(c) : i.seq \in first..last}

\* Mutant: the sequence numbers are checked, the item ids are not.
Intact_BySeq(s) ==
  /\ conv[s.conv] = "live"
  /\ {i.seq : i \in Between(s.conv, s.first, s.last)} = s.first..s.last

\* Every triggering item of a turn start is still where it was put.
Intact(s) ==
  /\ conv[s.conv] = "live"
  /\ {ch.seq : ch \in s.children} = s.first..s.last
  /\ \A ch \in s.children : \E i \in items :
        /\ i.id = ch.id /\ i.seq = ch.seq
        /\ i.conv = s.conv /\ i.turn = s.turn

\* What an agent replay of the turn of s returns, if s is intact.
AgentContext(s) == Between(s.conv, 1, s.last)

\* The rows a batch of inserts at next_seq creates.
NewItems(c, turn, source, payload) ==
  {[id |-> lastItem + j, conv |-> c, seq |-> nextSeq[c] + j - 1,
    turn |-> turn, source |-> source, refs |-> payload[j]] :
      j \in 1..Len(payload)}

\* Mutant: next_seq is advanced without a check.
InsertItems_Unchecked(c, turn, source, payload) ==
  /\ lastItem + Len(payload) <= MaxItems
  /\ items' = items \cup NewItems(c, turn, source, payload)
  /\ nextSeq' = [nextSeq EXCEPT ![c] = @ + Len(payload)]
  /\ lastItem' = lastItem + Len(payload)

\* Both the checked addition of start_turn and, for the unchecked one of
\* append_items, CHECK (next_seq >= 1) after a wrap, refuse the transaction.
InsertItems(c, turn, source, payload) ==
  /\ lastItem + Len(payload) <= MaxItems
  /\ nextSeq[c] + Len(payload) <= MaxSeq
  /\ items' = items \cup NewItems(c, turn, source, payload)
  /\ nextSeq' = [nextSeq EXCEPT ![c] = @ + Len(payload)]
  /\ lastItem' = lastItem + Len(payload)

\* lock_turn_files: every file the turn would see must still have its row.
TurnFilesLocked(c, payload) ==
  \A f \in Refs(c) \cup UNION {payload[j] : j \in 1..Len(payload)} : Live(f)

\* The turn row and its snapshot of the files referenced before the turn.
InsertTurn(c, key, began) ==
  /\ ~ActiveTurn(c)
  /\ lastTurn < MaxTurns
  /\ turns' = turns \cup {[id |-> lastTurn + 1, conv |-> c, key |-> key,
                           created |-> began, active |-> TRUE,
                           snapshot |-> Refs(c)]}
  /\ lastTurn' = lastTurn + 1

-----------------------------------------------------------------------------
(* Conversations and files.                                                *)

CreateConversation(c) ==
  /\ conv[c] = "unborn"
  /\ conv' = [conv EXCEPT ![c] = "live"]
  /\ born' = [born EXCEPT ![c] = lastTurn]
  /\ UNCHANGED <<nextSeq, items, turns, batches, starts, conts, reading,
                 file, lastItem, lastTurn>>

\* Rows of the conversation cascade; turn_starts have no key to it and stay.
DeleteConversation(c) ==
  /\ conv[c] = "live"
  /\ conv' = [conv EXCEPT ![c] = "deleted"]
  /\ items' = items \ ItemsOf(c)
  /\ turns' = turns \ TurnsOf(c)
  /\ batches' = {b \in batches : b.conv # c}
  /\ conts' = {k \in conts : k.conv # c}
  /\ UNCHANGED <<nextSeq, born, starts, reading, file, lastItem, lastTurn>>

SaveFile(f) ==
  /\ file[f] = "unborn"
  /\ file' = [file EXCEPT ![f] = "live"]
  /\ UNCHANGED <<conv, nextSeq, born, items, turns, batches, starts, conts,
                 reading, lastItem, lastTurn>>

\* Mutant: only the items are asked, not the turn snapshots.
RemoveFile_IgnoresSnapshots(f) ==
  /\ Live(f)
  /\ \A i \in items : f \notin i.refs
  /\ file' = [file EXCEPT ![f] = "deleted"]
  /\ UNCHANGED <<conv, nextSeq, born, items, turns, batches, starts, conts,
                 reading, lastItem, lastTurn>>

\* Mutant: nothing is asked.
RemoveFile_Always(f) ==
  /\ Live(f)
  /\ file' = [file EXCEPT ![f] = "deleted"]
  /\ UNCHANGED <<conv, nextSeq, born, items, turns, batches, starts, conts,
                 reading, lastItem, lastTurn>>

RemoveFile(f) ==
  /\ Live(f)
  /\ ~Referenced(f)
  /\ file' = [file EXCEPT ![f] = "deleted"]
  /\ UNCHANGED <<conv, nextSeq, born, items, turns, batches, starts, conts,
                 reading, lastItem, lastTurn>>

-----------------------------------------------------------------------------
(* Turn starts.  The four outcomes of a request for a key are predicates,  *)
(* so that properties can follow a key through its life.                   *)

KeyUsed(k) == \E s \in starts : s.key = k
Replays(k, r) == \E s \in starts : s.key = k /\ s.request = r /\ Intact(s)
ResultDeleted(k, r) ==
  \E s \in starts : s.key = k /\ s.request = r /\ ~Intact(s)
KeyReused(k, r) == \E s \in starts : s.key = k /\ s.request # r

RecordStart(k, r, c) ==
  starts' = starts \cup
    {[key |-> k, request |-> r, conv |-> c, turn |-> lastTurn + 1,
      first |-> nextSeq[c], last |-> nextSeq[c] + Len(r.payload) - 1,
      children |-> {[id |-> lastItem + j, seq |-> nextSeq[c] + j - 1] :
                      j \in 1..Len(r.payload)}]}

StartTurnExisting(k, r, began) ==
  LET c == r.target IN
  /\ ~KeyUsed(k)
  /\ c # NewConv /\ conv[c] = "live"
  /\ began \in born[c]..lastTurn
  /\ TurnFilesLocked(c, r.payload)
  /\ InsertTurn(c, NoKey, began)
  /\ InsertItems(c, lastTurn + 1, "user", r.payload)
  /\ RecordStart(k, r, c)
  /\ UNCHANGED <<conv, born, batches, conts, reading, file>>

\* The conversation id is known to nobody before the commit, so every later
\* transaction on it begins after this one.
StartTurnCreate(k, r, c, began) ==
  /\ ~KeyUsed(k)
  /\ r.target = NewConv /\ conv[c] = "unborn"
  /\ began \in 0..lastTurn
  /\ TurnFilesLocked(c, r.payload)
  /\ InsertTurn(c, NoKey, began)
  /\ InsertItems(c, lastTurn + 1, "user", r.payload)
  /\ RecordStart(k, r, c)
  /\ conv' = [conv EXCEPT ![c] = "live"]
  /\ born' = [born EXCEPT ![c] = lastTurn + 1]
  /\ UNCHANGED <<batches, conts, reading, file>>

-----------------------------------------------------------------------------
(* Turns.                                                                  *)

CreateTurn(c, key, began) ==
  /\ conv[c] = "live"
  /\ \A t \in TurnsOf(c) : t.key # key
  /\ began \in born[c]..lastTurn
  /\ TurnFilesLocked(c, <<>>)
  /\ InsertTurn(c, key, began)
  /\ UNCHANGED <<conv, nextSeq, born, items, batches, starts, conts, reading,
                 file, lastItem>>

\* Mutant: the partial unique index is missing.
MayActivate_NoIndex(t) == TRUE

\* turns_one_active_per_conversation_idx
MayActivate(t) == \A u \in TurnsOf(t.conv) : u # t => ~u.active

\* Any status to any status; only the unique index refuses.
UpdateTurn(t, active) ==
  /\ active => MayActivate(t)
  /\ turns' = (turns \ {t}) \cup {[t EXCEPT !.active = active]}
  /\ UNCHANGED <<conv, nextSeq, born, items, batches, starts, conts, reading,
                 file, lastItem, lastTurn>>

-----------------------------------------------------------------------------
(* Items.                                                                  *)

AppendItems(c, key, turn, source, payload) ==
  /\ conv[c] = "live"
  /\ ~\E b \in batches : b.conv = c /\ b.key = key
  /\ turn = NoTurn \/ \E t \in TurnsOf(c) : t.id = turn
  /\ \A f \in UNION {payload[j] : j \in 1..Len(payload)} : Live(f)
  /\ InsertItems(c, turn, source, payload)
  /\ batches' = batches \cup
       {[conv |-> c, key |-> key, first |-> nextSeq[c],
         last |-> nextSeq[c] + Len(payload) - 1]}
  /\ UNCHANGED <<conv, born, turns, starts, conts, reading, file, lastTurn>>

\* Mutant: the item cut at stays.
ItemsBefore_KeepsCut(c, seq) == {i \in items : i.conv = c => i.seq <= seq}
ItemsBefore(c, seq) == {i \in items : i.conv = c => i.seq < seq}

\* Mutant: a batch cut in two keeps its row.
BatchesBefore_KeepsPartial(c, seq) ==
  {b \in batches : b.conv = c => b.first < seq}
\* Mutant: truncation leaves the append batches alone.
BatchesBefore_Kept(c, seq) == batches
BatchesBefore(c, seq) == {b \in batches : b.conv = c => b.last < seq}

ContinuationsBefore(c, seq) == {k \in conts : k.conv = c => k.through < seq}

\* Turns and turn_starts stay.
TruncateConversation(c, cut) ==
  /\ conv[c] = "live"
  /\ cut \in ItemsOf(c)
  /\ items' = ItemsBefore(c, cut.seq)
  /\ batches' = BatchesBefore(c, cut.seq)
  /\ conts' = ContinuationsBefore(c, cut.seq)
  /\ nextSeq' = [nextSeq EXCEPT ![c] = cut.seq]
  /\ UNCHANGED <<conv, born, turns, starts, reading, file, lastItem, lastTurn>>

\* Mutant: ORDER BY created_at ASC LIMIT 1
LatestTurns_Ascending(c) ==
  {t \in TurnsOf(c) : \A u \in TurnsOf(c) : u.created >= t.created}

\* ORDER BY created_at DESC LIMIT 1
LatestTurns(c) ==
  {t \in TurnsOf(c) : \A u \in TurnsOf(c) : u.created <= t.created}

\* Mutant: regenerate leaves the conversation's continuations.
RegenerateConversation_KeepsContinuations(c) ==
  /\ conv[c] = "live"
  /\ \E t \in LatestTurns(c) :
       items' = {i \in items : ~(i.turn = t.id /\ i.source = "agent")}
  /\ UNCHANGED <<conv, nextSeq, born, turns, batches, starts, conts, reading,
                 file, lastItem, lastTurn>>

\* next_seq and the append batches stay as they are.
RegenerateConversation(c) ==
  /\ conv[c] = "live"
  /\ \E t \in LatestTurns(c) :
       items' = {i \in items : ~(i.turn = t.id /\ i.source = "agent")}
  /\ conts' = {k \in conts : k.conv # c}
  /\ UNCHANGED <<conv, nextSeq, born, turns, batches, starts, reading, file,
                 lastItem, lastTurn>>

-----------------------------------------------------------------------------
(* Continuations: an unlocked read of next_seq, then the insert.           *)

ReadForContinuation(c, response, through) ==
  /\ conv[c] = "live"
  /\ through \in 0..(nextSeq[c] - 1)
  /\ reading' = reading \cup
       {[response |-> response, conv |-> c, through |-> through]}
  /\ UNCHANGED <<conv, nextSeq, born, items, turns, batches, starts, conts,
                 file, lastItem, lastTurn>>

\* The insert fails on the foreign key if the conversation has gone, and
\* does nothing if the response id is taken.
InsertContinuation(k) ==
  /\ k \in reading
  /\ reading' = reading \ {k}
  /\ conts' = IF conv[k.conv] = "live"
                 /\ \A x \in conts : x.response # k.response
              THEN conts \cup {k} ELSE conts
  /\ UNCHANGED <<conv, nextSeq, born, items, turns, batches, starts, file,
                 lastItem, lastTurn>>

-----------------------------------------------------------------------------
Next ==
  \/ \E c \in Conv : CreateConversation(c)
  \/ \E c \in Conv : DeleteConversation(c)
  \/ \E f \in File : SaveFile(f)
  \/ \E f \in File : RemoveFile(f)
  \/ \E k \in StartKey, r \in Request, began \in 0..MaxTurns :
       StartTurnExisting(k, r, began)
  \/ \E k \in StartKey, r \in Request, c \in Conv, began \in 0..MaxTurns :
       StartTurnCreate(k, r, c, began)
  \/ \E c \in Conv, key \in TurnKey, began \in 0..MaxTurns :
       CreateTurn(c, key, began)
  \/ \E t \in turns, active \in BOOLEAN : UpdateTurn(t, active)
  \/ \E c \in Conv, key \in BatchKey, turn \in 0..MaxTurns,
        source \in {"user", "agent"}, payload \in Payload :
       AppendItems(c, key, turn, source, payload)
  \/ \E c \in Conv, cut \in items : TruncateConversation(c, cut)
  \/ \E c \in Conv : RegenerateConversation(c)
  \/ \E c \in Conv, response \in Response, through \in 0..MaxSeq :
       ReadForContinuation(c, response, through)
  \/ \E k \in reading : InsertContinuation(k)

Spec == Init /\ [][Next]_vars
-----------------------------------------------------------------------------
(* Safety invariants.                                                      *)

\* A conversation never has two active turns, although update_turn changes
\* statuses without the conversation lock (store.rs, start_turn, create_turn,
\* update_turn; partial unique index of migrations/0003).
OneActiveTurn ==
  \A t, u \in turns : t.conv = u.conv /\ t.active /\ u.active => t = u

\* Two items of a conversation never share a sequence number and none is at
\* or past next_seq, across appends, turn starts and truncations that hand
\* the same numbers out again.
SequenceDiscipline ==
  /\ \A i, j \in items : i.conv = j.conv /\ i.seq = j.seq => i = j
  /\ \A i \in items : i.seq < nextSeq[i.conv]

\* No item and no turn snapshot names a file whose row has been removed
\* (files::remove against append_items, start_turn and create_turn).
FilesResolve ==
  /\ \A i \in items : \A f \in i.refs : Live(f)
  /\ \A t \in turns : \A f \in t.snapshot : Live(f)

\* store.rs:1379: "through_seq is outside the conversation transcript": a
\* recorded continuation covers positions the transcript has handed out.
ContinuationInTranscript == \A k \in conts : k.through < nextSeq[k.conv]

-----------------------------------------------------------------------------
(* Action properties.                                                      *)

\* A turn start runs at most once for its key.  A key that has answered
\* keeps answering with the same result, or from some point on with
\* idempotency_result_deleted, also after its sequence numbers are reused
\* and after its conversation is deleted; and a key never answers two
\* requests (store.rs:358-457).
StartLifecycle ==
  [][/\ \A k \in StartKey, r \in Request :
          /\ Replays(k, r) => Replays(k, r)' \/ ResultDeleted(k, r)'
          /\ ResultDeleted(k, r) => ResultDeleted(k, r)'
          /\ ~(Replays(k, r)' /\ (ResultDeleted(k, r)' \/ KeyReused(k, r)'))
     /\ \A s \in starts' \ starts : ~KeyUsed(s.key)]_vars

\* The range an append retry reads back only ever holds items of that append:
\* while the batch row exists its range never gains an item
\* (truncate_conversation against append_items, store.rs:676-699).
BatchKeepsItsItems ==
  [][\A b \in batches \cap batches' :
       Between(b.conv, b.first, b.last)' \subseteq
         Between(b.conv, b.first, b.last)]_vars

\* While a continuation row is in the transcript, the items it stands for do
\* not change under it: an operation that would change them removes the row
\* (truncate_conversation and regenerate_conversation, store.rs:1257-1326).
CheckpointCoversFixedTranscript ==
  [][\A k \in conts \cap conts' : k.through < nextSeq[k.conv] =>
       Between(k.conv, 1, k.through)' = Between(k.conv, 1, k.through)]_vars

\* turns of c began in the order in which they committed
CommittedInOrder(c) ==
  \A t, u \in TurnsOf(c) : t.id < u.id => t.created < u.created

\* i is agent output of a turn that committed before the turn of the start s but
\* began no earlier: the later one by created_at and the earlier one by position.
Overtakes(i, s) ==
  /\ i.source = "agent" /\ i.turn < s.turn
  /\ \E t, u \in TurnsOf(s.conv) :
       t.id = i.turn /\ u.id = s.turn /\ u.created <= t.created

\* The context an agent replay returns for a turn: while the turn's start is
\* intact nothing appears at or below its last_seq, and nothing disappears but
\* the output of a turn that it began before and committed after, which
\* regenerate_conversation, picking its turn by created_at, takes for later
\* output (agent_replay, store.rs:872-941; regeneration, 1300-1326).
AgentContextStable ==
  [][\A s \in starts : Intact(s) /\ Intact(s)' =>
       /\ AgentContext(s)' \subseteq AgentContext(s)
       /\ \A i \in AgentContext(s) \ AgentContext(s)' : Overtakes(i, s)]_vars

-----------------------------------------------------------------------------
(* The strengthening that makes the invariants inductive.                  *)

\* An id names one row and was handed out.
IdDiscipline ==
  /\ \A i \in items : i.id <= lastItem
  /\ \A i, j \in items : i.id = j.id => i = j
  /\ \A t \in turns : t.id <= lastTurn
  /\ \A t, u \in turns : t.id = u.id => t = u

\* An item's turn is a turn of the item's conversation (composite foreign
\* key of migrations/0006), and turns belong to live conversations.
RowsOwned ==
  /\ \A i \in items : i.turn # NoTurn =>
       \E t \in turns : t.id = i.turn /\ t.conv = i.conv
  /\ \A t \in turns : conv[t.conv] = "live"

\* Batches cover numbers the transcript has handed out.
BatchesInRange == \A b \in batches : b.last < nextSeq[b.conv]

\* One start per key; its items have its numbers, its ids were handed out, and
\* while its conversation lives its turn does.
StartsRecorded ==
  /\ \A s, u \in starts : s.key = u.key => s = u
  /\ \A s \in starts :
       /\ s.first <= s.last
       /\ {ch.seq : ch \in s.children} = s.first..s.last
       /\ s.turn <= lastTurn
       /\ \A ch \in s.children : ch.id <= lastItem
       /\ conv[s.conv] # "unborn"
       /\ conv[s.conv] = "live" =>
            \E t \in turns : t.id = s.turn /\ t.conv = s.conv

\* Output of a turn, or of a later one, lies above the triggering items of
\* an intact start.
OutputAboveStart ==
  \A s \in starts, i \in items :
    Intact(s) /\ i.conv = s.conv /\ i.source = "agent" /\ i.turn >= s.turn
      => i.seq > s.last

IInv ==
  /\ TypeOK
  /\ OneActiveTurn
  /\ SequenceDiscipline
  /\ FilesResolve
  /\ IdDiscipline
  /\ RowsOwned
  /\ BatchesInRange
  /\ StartsRecorded
  /\ OutputAboveStart
=============================================================================
