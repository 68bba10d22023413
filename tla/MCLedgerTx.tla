----------------------------- MODULE MCLedgerTx -----------------------------
(***************************************************************************)
(* Small instances of LedgerTx: one state graph that is the union of four, *)
(* each with the requests that get in each other's way.                    *)
(***************************************************************************)
EXTENDS LedgerTx, TLC

CONSTANTS k1, b1, b2

StartOf(k, target, payload) ==
  [op |-> "start", key |-> k, request |-> [target |-> target, payload |-> payload]]
TurnOf(c, key) == [op |-> "turn", conv |-> c, key |-> key]
AppendOf(c, key, turn, source, payload) ==
  [op |-> "append", conv |-> c, key |-> key, turn |-> turn, source |-> source,
   payload |-> payload]
TruncateOf(c, item) == [op |-> "truncate", conv |-> c, item |-> item]
RegenerateOf(c) == [op |-> "regenerate", conv |-> c]
RemoveOf(f) == [op |-> "remove", file |-> f]

LongPayload == <<{}, {}, {}>>
MixedPayload == {<<{}>>, LongPayload} \cup {<<{f}>> : f \in File}

\* One key asked for two things, another one, and what edits their results.
StartRequests ==
  {StartOf(k1, NewConv, <<{}>>)} \cup {StartOf(k, c, <<{}>>) : k \in StartKey, c \in Conv}
    \cup {TruncateOf(c, 1) : c \in Conv}

\* An append, another one for the first turn, one past the last number, and what
\* deletes their items.
AppendRequests ==
  {AppendOf(c, b1, 0, "user", p) : c \in Conv, p \in {<<{}>>, LongPayload}}
    \cup {AppendOf(c, b2, 1, "agent", <<{}>>) : c \in Conv}
    \cup {TruncateOf(c, 1) : c \in Conv} \cup {RegenerateOf(c) : c \in Conv}
    \cup {TurnOf(c, k) : c \in Conv, k \in TurnKey}

\* One request for every kind of lock: everything that refers to a file, and
\* its removal.  The file is there from the start.
FileRequests ==
  {AppendOf(c, b1, 0, "user", <<{f}>>) : c \in Conv, f \in File}
    \cup {StartOf(k1, c, <<{f}>>) : c \in Conv, f \in File}
    \cup {TurnOf(c, k) : c \in Conv, k \in TurnKey}
    \cup {RemoveOf(f) : f \in File}

\* A start, one past the last number, and what removes the continuations
\* recorded on it.
EditRequests ==
  {StartOf(k1, c, p) : c \in Conv, p \in {<<{}>>, LongPayload}} \cup {TruncateOf(c, 1) : c \in Conv}
    \cup {RegenerateOf(c) : c \in Conv}

Requests == StartRequests \cup AppendRequests \cup FileRequests \cup EditRequests

-----------------------------------------------------------------------------
Alone(cl) == \A o \in Client \ {cl} : tx[o] = Idle

\* Requests of one kind run, and have run last; one of more items than there is
\* room for runs alone.
Sends(requests, single) ==
  \A cl \in Client :
    /\ tx[cl] = Idle \/ tx[cl].req \in requests
    /\ tx[cl] # Idle /\ PayloadOf(tx[cl].req) = LongPayload => Alone(cl)
    /\ answer[cl].op \in {r.op : r \in requests} \cup {"none", single}
NoFiles == \A f \in File : file[f] = "unborn"
NoContinuations == conts = {} /\ reading = {}

StartScope ==
  /\ Sends(StartRequests, "update") /\ NoFiles /\ NoContinuations
  /\ \A c \in Conv : nextSeq[c] <= 2
  /\ batches = {} /\ appended = {} /\ \A t \in turns : t.key = NoKey
\* Turns make room for an append here, and regenerations end a turn: their own
\* races are in FileScope and in ContinuationScope.
AppendScope ==
  /\ Sends(AppendRequests, "none") /\ NoFiles /\ NoContinuations
  /\ starts = {} /\ started = {} /\ \A t \in turns : t.active
  /\ \A c \in Conv : conv[c] # "deleted"
  /\ \A cl \in Client :
       tx[cl] # Idle /\ tx[cl].req.op \in {"turn", "regenerate"} => Alone(cl)
FileScope ==
  /\ Sends(FileRequests, "none") /\ NoContinuations
  /\ NoFiles => lastTurn = 0 /\ lastItem = 0 /\ \A cl \in Client : tx[cl] = Idle
  /\ lastTurn <= 1 /\ lastItem <= 1 /\ \A i \in items : i.refs # {}
  /\ \A c \in Conv : conv[c] = "live" => Cardinality(ItemsOf(c)) = lastItem
ContinuationScope ==
  /\ Sends(EditRequests, "continue") /\ NoFiles /\ lastTurn <= 1
  /\ batches = {} /\ appended = {}
  /\ \A s \in starts : s.key = k1 /\ s.request.target # NewConv
  /\ lastItem <= 1 /\ Cardinality(reading) <= 1 /\ Cardinality(conts) <= 1
  /\ reading # {} /\ conts # {} => \A cl \in Client : tx[cl] = Idle

ClientSymmetry == Permutations(Client)

Scope == StartScope \/ AppendScope \/ FileScope \/ ContinuationScope
=============================================================================
