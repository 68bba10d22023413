------------------------------ MODULE LedgerTx ------------------------------
(***************************************************************************)
(* The transactions of src/src/store.rs and of files::remove, statement    *)
(* by statement, as PostgreSQL runs them under READ COMMITTED: a statement *)
(* sees what is committed when it runs (or gets its row lock), what a      *)
(* transaction read is used later as it was read, its own writes are seen  *)
(* by nobody before the commit, and its locks are held until it ends.      *)
(*                                                                         *)
(* A request may stop anywhere before its commit (the handler is dropped,  *)
(* the connection or the server lost): its transaction rolls back.  A      *)
(* client that has no answer sends the same request again.                 *)
(*                                                                         *)
(* Ledger has the same tables with a whole transaction as one step;        *)
(* LedgerSpec says that it is what these transactions amount to.           *)
(***************************************************************************)
EXTENDS Ledger

CONSTANTS
  Client,     \* connections that serve requests
  TxRequest   \* the requests, of several statements each, that clients send

ASSUME TxRequestAssumption ==
  \A r \in TxRequest :
    \/ r.op = "start" /\ r.key \in StartKey /\ r.request \in Request
    \/ r.op = "turn" /\ r.conv \in Conv /\ r.key \in TurnKey
    \/ /\ r.op = "append" /\ r.conv \in Conv /\ r.key \in BatchKey
       /\ r.turn \in 0..MaxTurns /\ r.source \in {"user", "agent"}
       /\ r.payload \in Payload
    \/ r.op = "truncate" /\ r.conv \in Conv /\ r.item \in 1..MaxItems
    \/ r.op = "regenerate" /\ r.conv \in Conv
    \/ r.op = "remove" /\ r.file \in File

VARIABLES
  tx,        \* each client's transaction: its next statement and what it read
  held,      \* the locks each transaction holds
  answer,    \* each client's last answer: operation, HTTP status, and the
             \* constraint of the schema that a 500 comes "by"
  started,   \* the results start_turn has answered, with what was asked
  appended   \* the items append_items has answered

txVars == <<tx, held, answer, started, appended>>
allVars == <<vars, txVars>>

Idle == [phase |-> "idle"]

\* Row locks FOR UPDATE ("conv", "file") and FOR KEY SHARE ("share"), the
\* advisory lock of a turn start ("key"), and the uncommitted entry of a turn
\* in the index of active turns ("index").
L(kind, x) == [kind |-> kind, on |-> x]

TxInit ==
  /\ Init
  /\ tx = [cl \in Client |-> Idle]
  /\ held = [cl \in Client |-> {}]
  /\ answer = [cl \in Client |-> [op |-> "none", code |-> 200, by |-> "none"]]
  /\ started = {} /\ appended = {}

-----------------------------------------------------------------------------
(* Locks, and the ends of a transaction.                                   *)

\* Mutant: the key is not locked.
Excludes_NoKey ==
  {<<k, k>> : k \in {"conv", "index", "file"}}
    \cup {<<"file", "share">>, <<"share", "file">>}

Excludes ==
  {<<k, k>> : k \in {"key", "conv", "index", "file"}}
    \cup {<<"file", "share">>, <<"share", "file">>}

Free(cl, l) ==
  \A o \in Client \ {cl} : \A h \in held[o] :
    h.on = l.on => <<h.kind, l.kind>> \notin Excludes

At(cl, p) == tx[cl].phase = p
Doing(cl, op) == tx[cl].req.op = op

Reads(cl, t) == tx' = [tx EXCEPT ![cl] = t]
Takes(cl, locks) == held' = [held EXCEPT ![cl] = @ \cup locks]

\* Mutant: pg_advisory_lock, which a rollback does not release.
Release_KeepsKey(cl) ==
  held' = [held EXCEPT ![cl] = {h \in @ : h.kind = "key"}]

\* Commit and rollback release every lock.
Release(cl) == held' = [held EXCEPT ![cl] = {}]

Ends(cl) == Reads(cl, Idle) /\ Release(cl)
Replies(cl, op, code, constraint) ==
  answer' = [answer EXCEPT ![cl] = [op |-> op, code |-> code, by |-> constraint]]
Answers(cl, code) == Ends(cl) /\ Replies(cl, tx[cl].req.op, code, "none")
Quiet == UNCHANGED <<started, appended>>

\* The transaction ends without having changed anything.
Refuses(cl, code) == Answers(cl, code) /\ Quiet /\ UNCHANGED vars
\* A statement violates a constraint: a database error, whichever it was.
Breaks(cl, constraint) ==
  /\ Ends(cl) /\ Replies(cl, tx[cl].req.op, 500, constraint)
  /\ Quiet /\ UNCHANGED vars
\* A statement that only reads, or writes what nobody sees yet.
Silent == UNCHANGED <<vars, answer, started, appended>>

\* Clients only name rows they have been told of.
Known(r) ==
  /\ r.op = "start" /\ r.request.target # NewConv =>
       conv[r.request.target] # "unborn"
  /\ r.op \in {"turn", "append", "truncate", "regenerate"} => conv[r.conv] # "unborn"
  /\ r.op = "append" => r.turn <= lastTurn
  /\ r.op = "truncate" => r.item <= lastItem
  /\ r.op = "remove" => file[r.file] # "unborn"

FirstPhase(op) ==
  CASE op = "start" -> "key" [] op = "remove" -> "file" [] OTHER -> "conv"

Begin(cl, r) ==
  /\ tx[cl] = Idle
  /\ Known(r)
  /\ Reads(cl, [phase |-> FirstPhase(r.op), req |-> r, began |-> lastTurn,
                conv |-> NewConv, next |-> 1, pick |-> 0, snap |-> {}])
  /\ UNCHANGED held /\ Silent

Abort(cl) ==
  /\ tx[cl] # Idle
  /\ Ends(cl)
  /\ Silent

-----------------------------------------------------------------------------
(* start_turn: the advisory lock, the lookup of the key and the replay.    *)

LockKey(cl) ==
  /\ At(cl, "key")
  /\ Free(cl, L("key", tx[cl].req.key))
  /\ Takes(cl, {L("key", tx[cl].req.key)})
  /\ Reads(cl, [tx[cl] EXCEPT !.phase = "lookup"])
  /\ Silent

\* Mutant: the digest of the request is not compared.
SameRequest_Any(s, r) == TRUE
SameRequest(s, r) == s.request = r.request

LookupKey(cl) ==
  LET r == tx[cl].req IN
  /\ At(cl, "lookup")
  /\ \/ /\ ~KeyUsed(r.key)
        /\ Reads(cl, [tx[cl] EXCEPT !.phase = "conv"])
        /\ UNCHANGED held /\ Silent
     \/ \E s \in starts :
          /\ s.key = r.key /\ SameRequest(s, r)
          /\ Reads(cl, [tx[cl] EXCEPT !.phase = "replay"])
          /\ UNCHANGED held /\ Silent
     \/ \E s \in starts :
          /\ s.key = r.key /\ ~SameRequest(s, r)
          /\ Refuses(cl, IF r.request.target # NewConv
                            /\ conv[r.request.target] # "live"
                         THEN 404 ELSE 409)

\* The conversation is locked, if it is still there, and the children read.
ReplayStart(cl) ==
  /\ At(cl, "replay")
  /\ \E s \in starts :
       /\ s.key = tx[cl].req.key
       /\ conv[s.conv] = "live" => Free(cl, L("conv", s.conv))
       /\ \/ /\ Intact(s)
             /\ Answers(cl, 200)
             /\ started' = started \cup
                  {[s EXCEPT !.request = tx[cl].req.request]}
          \/ ~Intact(s) /\ Answers(cl, 409) /\ UNCHANGED started
  /\ UNCHANGED <<vars, appended>>

-----------------------------------------------------------------------------
(* The conversation and what is read under its lock.                       *)

Target(r) == IF r.op = "start" THEN r.request.target ELSE r.conv
AfterLock(op) == IF op = "start" THEN "active" ELSE "find"

\* Mutant: SELECT without FOR UPDATE.
ConvLock_None(c) == {}
ConvLock(c) == {L("conv", c)}

\* lock_conversation: waits for the row, then reads it as it is.
LockConversation(cl) ==
  LET c == Target(tx[cl].req) IN
  /\ At(cl, "conv") /\ c # NewConv
  /\ \/ /\ conv[c] = "live" /\ \A l \in ConvLock(c) : Free(cl, l)
        /\ Takes(cl, ConvLock(c))
        /\ Reads(cl, [tx[cl] EXCEPT !.phase = AfterLock(tx[cl].req.op),
                                    !.conv = c, !.next = nextSeq[c]])
        /\ Silent
     \/ conv[c] # "live" /\ Refuses(cl, 404)

\* The row of a new conversation is inserted, and locked, under a fresh id.
NewConversation(cl, c) ==
  /\ At(cl, "conv") /\ Target(tx[cl].req) = NewConv
  /\ conv[c] = "unborn" /\ Free(cl, L("conv", c))
  /\ Takes(cl, {L("conv", c)})
  /\ Reads(cl, [tx[cl] EXCEPT !.phase = "active", !.conv = c, !.next = 1])
  /\ Silent

\* create_turn: the turn of the key, whatever its status.
FindTurn(cl) ==
  LET t == tx[cl] IN
  /\ At(cl, "find") /\ Doing(cl, "turn")
  /\ \/ (\E u \in TurnsOf(t.conv) : u.key = t.req.key) /\ Refuses(cl, 200)
     \/ /\ \A u \in TurnsOf(t.conv) : u.key # t.req.key
        /\ Reads(cl, [t EXCEPT !.phase = "active"])
        /\ UNCHANGED held /\ Silent

\* append_items: the batch of the key, or else the turn the items are for.
FindBatch(cl) ==
  LET t == tx[cl]
      batch == {b \in batches : b.conv = t.conv /\ b.key = t.req.key} IN
  /\ At(cl, "find") /\ Doing(cl, "append")
  /\ \/ \E b \in batch :
          /\ Answers(cl, 200)
          /\ appended' = appended \cup
               {[conv |-> t.conv, key |-> b.key, replayed |-> TRUE,
                 ids |-> {i.id : i \in Between(t.conv, b.first, b.last)}]}
          /\ UNCHANGED <<vars, started>>
     \/ /\ batch = {} /\ t.req.turn # NoTurn
        /\ \A u \in TurnsOf(t.conv) : u.id # t.req.turn
        /\ Refuses(cl, 400)
     \/ /\ batch = {}
        /\ t.req.turn = NoTurn \/ \E u \in TurnsOf(t.conv) : u.id = t.req.turn
        /\ Reads(cl, [t EXCEPT !.phase = "files"])
        /\ UNCHANGED held /\ Silent

\* truncate_conversation: the position of the item to cut at.
FindItem(cl) ==
  LET t == tx[cl] IN
  /\ At(cl, "find") /\ Doing(cl, "truncate")
  /\ \/ \E i \in ItemsOf(t.conv) :
          /\ i.id = t.req.item
          /\ Reads(cl, [t EXCEPT !.phase = "commit", !.pick = i.seq])
          /\ UNCHANGED held /\ Silent
     \/ (\A i \in ItemsOf(t.conv) : i.id # t.req.item) /\ Refuses(cl, 404)

FindLatestTurn(cl) ==
  LET t == tx[cl] IN
  /\ At(cl, "find") /\ Doing(cl, "regenerate")
  /\ \/ \E u \in LatestTurns(t.conv) :
          /\ Reads(cl, [t EXCEPT !.phase = "commit", !.pick = u.id])
          /\ UNCHANGED held /\ Silent
     \/ TurnsOf(t.conv) = {} /\ Refuses(cl, 200)

CheckActive(cl) ==
  /\ At(cl, "active")
  /\ \/ ActiveTurn(tx[cl].conv) /\ Refuses(cl, 409)
     \/ /\ ~ActiveTurn(tx[cl].conv)
        /\ Reads(cl, [tx[cl] EXCEPT !.phase = "files"])
        /\ UNCHANGED held /\ Silent

-----------------------------------------------------------------------------
(* Files and the turn row.                                                 *)

PayloadOf(r) ==
  CASE r.op = "start" -> r.request.payload
    [] r.op = "append" -> r.payload
    [] OTHER -> <<>>
Named(payload) == UNION {payload[j] : j \in 1..Len(payload)}

\* append_items locks the files it names; lock_turn_files also those the
\* conversation refers to already.
Wanted(t) ==
  Named(PayloadOf(t.req)) \cup (IF t.req.op = "append" THEN {} ELSE Refs(t.conv))

\* The rows are locked in one step: a transaction that waits for one of them
\* waits for a removal, and a removal with its lock waits for nothing.
LockFiles(cl) ==
  LET t == tx[cl] IN
  /\ At(cl, "files")
  /\ \A f \in Wanted(t) : Live(f) => Free(cl, L("share", f))
  /\ \/ /\ \A f \in Wanted(t) : Live(f)
        /\ Takes(cl, {L("share", f) : f \in Wanted(t)})
        /\ Reads(cl, [t EXCEPT !.phase =
             IF t.req.op = "append" THEN "commit" ELSE "insert"])
        /\ Silent
     \/ (\E f \in Wanted(t) : ~Live(f)) /\ Refuses(cl, 404)

\* The insert of the turn checks the index of active turns; the snapshot of
\* its files follows.
InsertTurnRow(cl) ==
  LET t == tx[cl] IN
  /\ At(cl, "insert")
  /\ Free(cl, L("index", t.conv))
  /\ \/ ActiveTurn(t.conv) /\ Refuses(cl, 409)
     \/ /\ ~ActiveTurn(t.conv)
        /\ Takes(cl, {L("index", t.conv)})
        /\ Reads(cl, [t EXCEPT !.phase = "commit", !.snap = Refs(t.conv)])
        /\ Silent

-----------------------------------------------------------------------------
(* Commits.  The writes use what the transaction read; a constraint of the *)
(* schema that they violate ends it with a database error.                 *)

ItemRows(t, turn, source) ==
  {[id |-> lastItem + j, conv |-> t.conv, seq |-> t.next + j - 1, turn |-> turn,
    source |-> source, refs |-> PayloadOf(t.req)[j]] : j \in DOMAIN PayloadOf(t.req)}

TurnRow(t, key) ==
  [id |-> lastTurn + 1, conv |-> t.conv, key |-> key, created |-> t.began,
   active |-> TRUE, snapshot |-> t.snap]

\* next_seq + n is past the largest number.
Exhausted(t) == t.next + Len(PayloadOf(t.req)) > MaxSeq

\* The bound of the ids of items and turns, not of the code.
OutOfRows(t) ==
  \/ lastItem + Len(PayloadOf(t.req)) > MaxItems
  \/ t.req.op \in {"start", "turn"} /\ lastTurn = MaxTurns

\* UNIQUE (conversation_id, seq) and the foreign keys to conversations and files.
Violates(t) ==
  \/ \E i \in ItemsOf(t.conv) : i.seq \in t.next..(t.next + Len(PayloadOf(t.req)) - 1)
  \/ \E f \in Named(PayloadOf(t.req)) \cup t.snap : ~Live(f)
  \/ Target(t.req) # NewConv /\ conv[t.conv] # "live"

Advance(t) ==
  /\ nextSeq' = [nextSeq EXCEPT ![t.conv] = t.next + Len(PayloadOf(t.req))]
  /\ lastItem' = lastItem + Len(PayloadOf(t.req))

\* A new conversation becomes known with this commit.
Publish(t) ==
  IF t.req.request.target = NewConv
  THEN /\ conv' = [conv EXCEPT ![t.conv] = "live"]
       /\ born' = [born EXCEPT ![t.conv] = lastTurn + 1]
  ELSE UNCHANGED <<conv, born>>

StartRow(t) ==
  [key |-> t.req.key, request |-> t.req.request, conv |-> t.conv,
   turn |-> lastTurn + 1, first |-> t.next,
   last |-> t.next + Len(PayloadOf(t.req)) - 1,
   children |-> {[id |-> lastItem + j, seq |-> t.next + j - 1] :
                   j \in DOMAIN PayloadOf(t.req)}]

CommitStart(cl) ==
  LET t == tx[cl] IN
  /\ At(cl, "commit") /\ Doing(cl, "start")
  /\ \/ Exhausted(t) /\ Refuses(cl, 409)
     \/ /\ ~Exhausted(t) /\ (Violates(t) \/ KeyUsed(t.req.key))
        /\ Breaks(cl, "rows")
     \/ /\ ~Exhausted(t) /\ ~Violates(t) /\ ~KeyUsed(t.req.key)
        /\ ~OutOfRows(t)
        /\ turns' = turns \cup {TurnRow(t, NoKey)}
        /\ items' = items \cup ItemRows(t, lastTurn + 1, "user")
        /\ starts' = starts \cup {StartRow(t)}
        /\ lastTurn' = lastTurn + 1
        /\ Advance(t) /\ Publish(t)
        /\ Answers(cl, 200)
        /\ started' = started \cup {StartRow(t)}
        /\ UNCHANGED <<batches, conts, reading, file, appended>>

CommitTurn(cl) ==
  LET t == tx[cl] IN
  /\ At(cl, "commit") /\ Doing(cl, "turn")
  /\ \/ /\ Violates(t) \/ \E u \in TurnsOf(t.conv) : u.key = t.req.key
        /\ Breaks(cl, "rows")
     \/ /\ ~Violates(t) /\ ~OutOfRows(t)
        /\ \A u \in TurnsOf(t.conv) : u.key # t.req.key
        /\ turns' = turns \cup {TurnRow(t, t.req.key)}
        /\ lastTurn' = lastTurn + 1
        /\ Answers(cl, 200) /\ Quiet
        /\ UNCHANGED <<conv, nextSeq, born, items, batches, starts, conts,
                       reading, file, lastItem>>

\* The addition wraps where start_turn's is checked, and the last statement
\* meets CHECK (next_seq >= 1).
CommitAppend(cl) ==
  LET t == tx[cl]
      taken == \E b \in batches : b.conv = t.conv /\ b.key = t.req.key
      owned == t.req.turn = NoTurn \/ \E u \in TurnsOf(t.conv) : u.id = t.req.turn
  IN
  /\ At(cl, "commit") /\ Doing(cl, "append")
  /\ \/ (Violates(t) \/ taken \/ ~owned) /\ Breaks(cl, "rows")
     \/ ~Violates(t) /\ ~taken /\ owned /\ Exhausted(t) /\ Breaks(cl, "next_seq")
     \/ /\ ~Violates(t) /\ ~taken /\ owned /\ ~Exhausted(t) /\ ~OutOfRows(t)
        /\ items' = items \cup ItemRows(t, t.req.turn, t.req.source)
        /\ batches' = batches \cup
             {[conv |-> t.conv, key |-> t.req.key, first |-> t.next,
               last |-> t.next + Len(t.req.payload) - 1]}
        /\ Advance(t)
        /\ Answers(cl, 200)
        /\ appended' = appended \cup
             {[conv |-> t.conv, key |-> t.req.key, replayed |-> FALSE,
               ids |-> {i.id : i \in ItemRows(t, t.req.turn, t.req.source)}]}
        /\ UNCHANGED <<conv, born, turns, starts, conts, reading, file, lastTurn,
                       started>>

CommitTruncate(cl) ==
  LET t == tx[cl] IN
  /\ At(cl, "commit") /\ Doing(cl, "truncate")
  /\ items' = ItemsBefore(t.conv, t.pick)
  /\ batches' = BatchesBefore(t.conv, t.pick)
  /\ conts' = ContinuationsBefore(t.conv, t.pick)
  /\ nextSeq' = [nextSeq EXCEPT ![t.conv] = t.pick]
  /\ Answers(cl, 200) /\ Quiet
  /\ UNCHANGED <<conv, born, turns, starts, reading, file, lastItem, lastTurn>>

CommitRegenerate(cl) ==
  LET t == tx[cl] IN
  /\ At(cl, "commit") /\ Doing(cl, "regenerate")
  /\ items' = {i \in items : ~(i.turn = t.pick /\ i.source = "agent")}
  /\ conts' = {k \in conts : k.conv # t.conv}
  /\ Answers(cl, 200) /\ Quiet
  /\ UNCHANGED <<conv, nextSeq, born, turns, batches, starts, reading, file,
                 lastItem, lastTurn>>

-----------------------------------------------------------------------------
(* files::remove: the row FOR UPDATE, the references, the deletion.        *)

LockFile(cl) ==
  LET f == tx[cl].req.file IN
  /\ At(cl, "file")
  /\ \/ /\ Live(f) /\ Free(cl, L("file", f))
        /\ Takes(cl, {L("file", f)})
        /\ Reads(cl, [tx[cl] EXCEPT !.phase = "referenced"])
        /\ Silent
     \/ ~Live(f) /\ Refuses(cl, 404)

CheckReferenced(cl) ==
  /\ At(cl, "referenced")
  /\ \/ Referenced(tx[cl].req.file) /\ Refuses(cl, 409)
     \/ /\ ~Referenced(tx[cl].req.file)
        /\ Reads(cl, [tx[cl] EXCEPT !.phase = "delete"])
        /\ UNCHANGED held /\ Silent

\* ON DELETE RESTRICT asks once more.
CommitRemove(cl) ==
  LET f == tx[cl].req.file IN
  /\ At(cl, "delete")
  /\ \/ Referenced(f) /\ Breaks(cl, "rows")
     \/ /\ ~Referenced(f)
        /\ file' = [file EXCEPT ![f] = "deleted"]
        /\ Answers(cl, 200) /\ Quiet
        /\ UNCHANGED <<conv, nextSeq, born, items, turns, batches, starts,
                       conts, reading, lastItem, lastTurn>>

-----------------------------------------------------------------------------
(* Operations of single statements.                                        *)

Unlocked(c) == \A cl \in Client : L("conv", c) \notin held[cl]

\* The UPDATE waits for an uncommitted entry in the index of active turns;
\* the error of a committed one is not told from others.
UpdateTurnRow(cl, t, active) ==
  /\ tx[cl] = Idle
  /\ active /\ ~t.active => Free(cl, L("index", t.conv))
  /\ \/ /\ UpdateTurn(t, active)
        /\ Replies(cl, "update", 200, "none")
     \/ /\ active /\ ~MayActivate(t)
        /\ Replies(cl, "update", 500, "active_turn")
        /\ UNCHANGED vars
  /\ UNCHANGED <<tx, held, started, appended>>

\* The insert of a continuation: ON CONFLICT asks for the response first, the
\* foreign key, which waits for the row's lock, for the conversation then.
InsertContinuationRow(cl, k) ==
  /\ tx[cl] = Idle /\ Unlocked(k.conv)
  /\ InsertContinuation(k)
  /\ IF \E x \in conts : x.response = k.response
     THEN Replies(cl, "continue", 409, "none")
     ELSE IF conv[k.conv] = "live" THEN Replies(cl, "continue", 200, "none")
     ELSE Replies(cl, "continue", 500, "conversation")
  /\ UNCHANGED <<tx, held, started, appended>>

\* A deletion waits for the row's lock.
SingleStatement ==
  /\ \/ \E c \in Conv : CreateConversation(c) /\ Unlocked(c)
     \/ \E c \in Conv : DeleteConversation(c) /\ Unlocked(c)
     \/ \E f \in File : SaveFile(f)
     \/ \E c \in Conv, response \in Response, through \in 0..MaxSeq :
          ReadForContinuation(c, response, through)
  /\ UNCHANGED txVars

-----------------------------------------------------------------------------
Step(cl) ==
  \/ LockKey(cl) \/ LookupKey(cl) \/ ReplayStart(cl)
  \/ LockConversation(cl) \/ \E c \in Conv : NewConversation(cl, c)
  \/ FindTurn(cl) \/ FindBatch(cl) \/ FindItem(cl) \/ FindLatestTurn(cl)
  \/ CheckActive(cl) \/ LockFiles(cl) \/ InsertTurnRow(cl)
  \/ CommitStart(cl) \/ CommitTurn(cl) \/ CommitAppend(cl)
  \/ CommitTruncate(cl) \/ CommitRegenerate(cl)
  \/ LockFile(cl) \/ CheckReferenced(cl) \/ CommitRemove(cl)

TxNext ==
  \/ \E cl \in Client :
       \/ \E r \in TxRequest : Begin(cl, r)
       \/ Step(cl) \/ Abort(cl)
       \/ \E t \in turns, active \in BOOLEAN : UpdateTurnRow(cl, t, active)
       \/ \E k \in reading : InsertContinuationRow(cl, k)
  \/ SingleStatement

TxSpec == TxInit /\ [][TxNext]_allVars

-----------------------------------------------------------------------------
\* Whatever the transactions interleave, stop half way or repeat, what they
\* commit is a behaviour of Ledger, where each of them is one step.
LedgerSpec == Init /\ [][UNCHANGED vars \/ Next]_vars

\* A request ends with a violated constraint, 500, in three cases only: an
\* update_turn that meets the index of active turns (store.rs 1355-1361), an
\* append past the largest number (781-784), a continuation whose conversation
\* is deleted after it was read (1370-1397).  Else the locks and checks leave
\* nothing for the unique indexes and foreign keys to refuse, not in retries of
\* one key that run at the same time (RFC atomic turn start, lines 276-279,
\* 331-340).
NoServerError ==
  \A cl \in Client :
    answer[cl].code = 500 =>
      <<answer[cl].op, answer[cl].by>> \in
        {<<"update", "active_turn">>, <<"append", "next_seq">>,
         <<"continue", "conversation">>}

\* A key of start_turn gives one result to one request, to all who ask, also
\* to those that run at the same time or retry after a lost answer.
AnswersAgree == \A s, u \in started : s.key = u.key => s = u

\* A retried append answers with items of an execution of that append and
\* with nothing else; fewer of them after a regeneration (store.rs:676-699).
RetryAnswersOwnItems ==
  \A a \in appended : a.replayed =>
    \E b \in appended :
      ~b.replayed /\ b.conv = a.conv /\ b.key = a.key /\ a.ids \subseteq b.ids

\* The locks the next statement asks for.  The id of a new conversation is
\* fresh, and statements outside a transaction wait with nothing in hand.
Asks(t) ==
  CASE t.phase = "key" -> {L("key", t.req.key)}
    [] t.phase = "replay" ->
         {L("conv", s.conv) : s \in {r \in starts : r.key = t.req.key /\ conv[r.conv] = "live"}}
    [] t.phase = "conv" ->
         {L("conv", c) : c \in {d \in Conv : d = Target(t.req) /\ conv[d] = "live"}}
    [] t.phase = "files" -> {L("share", f) : f \in {g \in Wanted(t) : Live(g)}}
    [] t.phase = "insert" -> {L("index", t.conv)}
    [] t.phase = "file" -> {L("file", f) : f \in {g \in {t.req.file} : Live(g)}}
    [] OTHER -> {}

Running == {cl \in Client : tx[cl] # Idle}
WaitsFor(a, b) ==
  \E l \in Asks(tx[a]), h \in held[b] : h.on = l.on /\ <<h.kind, l.kind>> \in Excludes

\* No set of transactions waits for each other, however many: one of them
\* waits for none of the others.
NoCircularWait ==
  \A S \in SUBSET Running :
    S # {} => \E cl \in S : \A o \in S \ {cl} : ~WaitsFor(cl, o)

\* The bounds of the ids, not of the code.
OutOfIds(cl) ==
  \/ /\ At(cl, "conv") /\ Target(tx[cl].req) = NewConv
     /\ \A c \in Conv : conv[c] = "unborn" => ~Free(cl, L("conv", c))
  \/ At(cl, "commit") /\ OutOfRows(tx[cl])

\* Transactions do not wait in a circle, and one that waits for no other can
\* go on, so that, as handlers run on and waiters are served in turn, every
\* one ends.
NoDeadlock ==
  /\ NoCircularWait
  /\ \A cl \in Running :
       ~OutOfIds(cl) /\ (\A o \in Running \ {cl} : ~WaitsFor(cl, o)) => ENABLED Step(cl)
=============================================================================
