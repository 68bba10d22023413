------------------------------ MODULE MCLedger ------------------------------
(***************************************************************************)
(* Small instances of Ledger: one state graph that is the union of two,    *)
(* each rich where the other is poor.                                      *)
(***************************************************************************)
EXTENDS Ledger

CONSTANTS k1, b1

\* Lists of one or two items that name no file.
PlainPayload == {<<{}>>, <<{}, {}>>}

\* Turn starts and turns of one conversation, which a start may create.
TurnScope == conts = {} /\ reading = {} /\ \A b \in batches : b.key = b1

\* Numbers handed out, cut off and handed out again under append batches and
\* continuations.
SequenceScope ==
  /\ \A t \in turns : t.key = NoKey
  /\ Cardinality(reading) <= 1 /\ Cardinality(conts) <= 1
  /\ \A s \in starts : s.key = k1

Scope == TurnScope \/ SequenceScope
=============================================================================
