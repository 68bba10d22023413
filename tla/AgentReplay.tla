----------------------------- MODULE AgentReplay -----------------------------
(***************************************************************************)
(* agent_replay of src/src/store.rs next to everything that writes the     *)
(* conversation: in one REPEATABLE READ transaction it reads the boundary  *)
(* of the agent's turn, checks that the input of the turn is complete and  *)
(* within the limits, and reads the items (README.md:149-187).             *)
(***************************************************************************)
EXTENDS Ledger

CONSTANTS
  Odd,             \* ids of items that are no plain text messages
  AgentMaxItems    \* AGENT_REPLAY_MAX_ITEMS

ASSUME AgentAssumption == Odd \subseteq 1..MaxItems /\ AgentMaxItems \in Nat

VARIABLES
  agent,    \* the request
  replays   \* the successful answers

agentVars == <<agent, replays>>
allAgentVars == <<vars, agentVars>>

AgentIdle == [phase |-> "idle"]

AgentBegins == agent = AgentIdle /\ replays = {}
AgentInit == Init /\ AgentBegins

-----------------------------------------------------------------------------
\* Mutant: READ COMMITTED, every statement sees what is committed by then.
Snapshot_Committed(view) == items

\* REPEATABLE READ: every statement sees what the first one saw.
Snapshot(view) == view

\* conversations, turns and turn_starts joined; no row answers 404.
ReadBoundary(s) ==
  /\ agent = AgentIdle
  /\ s \in starts /\ conv[s.conv] = "live"
  /\ \E t \in TurnsOf(s.conv) : t.id = s.turn
  /\ agent' = [phase |-> "check", start |-> s, view |-> items,
                ordered |-> CommittedInOrder(s.conv)]
  /\ UNCHANGED <<vars, replays>>

\* Every triggering item is where the start put it, up to last_seq.
SnapshotComplete(s, view) ==
  /\ \E i \in view : i.conv = s.conv /\ i.seq = s.last
  /\ Cardinality(s.children) = s.last - s.first + 1
  /\ \A ch \in s.children : \E i \in view :
       i.id = ch.id /\ i.seq = ch.seq /\ i.conv = s.conv /\ i.turn = s.turn

Through(s, view) == {i \in view : i.conv = s.conv /\ i.seq <= s.last}

\* 409 replay_snapshot_unavailable, 413 context_limit_exceeded, or on.
CheckSnapshot ==
  LET s == agent.start
      view == Snapshot(agent.view) IN
  /\ agent.phase = "check"
  /\ agent' = IF /\ SnapshotComplete(s, view)
                 /\ Cardinality(Through(s, view)) <= AgentMaxItems
              THEN [agent EXCEPT !.phase = "rows"] ELSE AgentIdle
  /\ UNCHANGED <<vars, replays>>

\* validate_agent_text_item: no canonical file URI anywhere, a text message.
Supported(i) == i.refs = {} /\ i.id \notin Odd

\* build_agent_projection and the answer.
AnswerReplay ==
  LET input == Through(agent.start, Snapshot(agent.view)) IN
  /\ agent.phase = "rows"
  /\ \A i \in input : Supported(i)
  /\ replays' = replays \cup
       {[start |-> agent.start, input |-> input, ordered |-> agent.ordered]}
  /\ agent' = AgentIdle
  /\ UNCHANGED vars

\* unsupported_agent_replay_item, too many bytes, or a lost connection.
EndReplay ==
  /\ agent # AgentIdle
  /\ agent' = AgentIdle
  /\ UNCHANGED <<vars, replays>>

AgentRead ==
  \/ \E s \in starts : ReadBoundary(s)
  \/ CheckSnapshot \/ AnswerReplay \/ EndReplay

AgentNext ==
  \/ Next /\ UNCHANGED agentVars
  \/ AgentRead

AgentSpec == AgentInit /\ [][AgentNext]_allAgentVars

-----------------------------------------------------------------------------
\* README.md:158-165: an answer holds the complete triggering batch, one item
\* for each position as they stood at one moment, nothing above the boundary
\* and no reference to a file.
AgentAnswersComplete ==
  \A a \in replays :
    /\ {ch.id : ch \in a.start.children} \subseteq {i.id : i \in a.input}
    /\ \A i, j \in a.input : i.seq = j.seq => i = j
    /\ \A i \in a.input : i.seq <= a.start.last /\ i.refs = {}

\* An agent that asks again is answered the same context, whatever was
\* appended, regenerated or cut off meanwhile, as long as the turns that the
\* answers saw had committed in the order in which they began
\* (README.md:155-156, "its recorded last_seq is the immutable replay cursor").
AgentAnswersAgree ==
  \A a, b \in replays :
    a.start = b.start /\ a.ordered /\ b.ordered => a.input = b.input
=============================================================================
