----------------------------- MODULE MCReplays -----------------------------
(***************************************************************************)
(* Small instances of OwnerReplay and AgentReplay, which read next to the  *)
(* same transactions: the union of one where the owner's client follows a  *)
(* conversation and two where agents ask for the context of their turns.   *)
(***************************************************************************)
EXTENDS OwnerReplay, AgentReplay

CONSTANT b1

\* One or two items that name no file, or one that does.
MixedPayload == {<<{}>>, <<{}, {}>>} \cup {<<{f}>> : f \in File}

ReplaysInit == OwnerInit /\ AgentBegins
ReplaysNext ==
  \/ OwnerNext /\ UNCHANGED agentVars
  \/ AgentRead /\ UNCHANGED ownerVars
ReplaysSpec == ReplaysInit /\ [][ReplaysNext]_<<vars, ownerVars, agentVars>>

-----------------------------------------------------------------------------
\* Single items, which may name a file, in two append batches or a turn.
OwnerScope ==
  /\ agent = AgentIdle /\ replays = {} /\ starts = {}
  /\ lastItem <= 3 /\ lastTurn <= 1

OwnerAway == owner = OwnerIdle /\ got = {} /\ cursor = 0
NoBatch(b) == \A x \in batches : x.key # b
\* The input of one turn may be several items with files,
OneTurn == lastTurn <= 1
\* or two turns have one item each.
TwoTurns == lastItem <= 3 /\ \A f \in File : file[f] = "unborn"
AgentScope ==
  /\ OwnerAway /\ (OneTurn \/ TwoTurns)
  /\ \A b \in BatchKey \ {b1} : NoBatch(b)
  /\ \A t \in turns : t.key = NoKey

Scope == OwnerScope \/ AgentScope
=============================================================================
