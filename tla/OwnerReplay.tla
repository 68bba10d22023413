----------------------------- MODULE OwnerReplay -----------------------------
(***************************************************************************)
(* The owner's reads of a conversation, next to everything that writes it. *)
(* replay (store.rs) reads the conversation row and the items in two       *)
(* statements, then the row of every file it hydrates, without a lock or a *)
(* snapshot; list_items reads a page.                                      *)
(*                                                                         *)
(* The owner's client follows the transcript: it asks for what lies after  *)
(* the last position it was answered and keeps what it is given.           *)
(***************************************************************************)
EXTENDS Ledger

CONSTANTS
  Followed,    \* the conversation the client follows
  PageLimit    \* limit of list_items

ASSUME FollowerAssumption == Followed \in Conv /\ PageLimit \in Nat \ {0}

VARIABLES
  owner,    \* the request
  got,      \* items the client has been given
  cursor,   \* the position it continues after
  fresh     \* no item of the conversation was deleted since it began

ownerVars == <<owner, got, cursor, fresh>>
allOwnerVars == <<vars, ownerVars>>

OwnerIdle == [phase |-> "idle"]

OwnerBegins == owner = OwnerIdle /\ got = {} /\ cursor = 0 /\ fresh = TRUE
OwnerInit == Init /\ OwnerBegins

\* What the client sees of a transaction of the ledger: nothing, but items
\* may have been deleted.
Unseen ==
  /\ fresh' = (fresh /\ ItemsOf(Followed) \subseteq items')
  /\ UNCHANGED <<owner, got, cursor>>

Write == Next /\ Unseen

-----------------------------------------------------------------------------
\* Mutant: through_seq is next_seq.
Maximum_Next(c) == nextSeq[c]
Maximum(c) == nextSeq[c] - 1

Reach(asked, maximum) == IF asked < maximum THEN asked ELSE maximum

\* get_conversation and the checks; a cursor past the end is refused.
ReplayBegins(asked) ==
  LET through == Reach(asked, Maximum(Followed)) IN
  /\ owner = OwnerIdle
  /\ conv[Followed] = "live"
  /\ through >= cursor
  /\ owner' = [phase |-> "rows", through |-> through, rows |-> {}, files |-> {}]
  /\ UNCHANGED <<vars, got, cursor, fresh>>

Rows == {i \in ItemsOf(Followed) : i.seq > cursor /\ i.seq <= owner.through}

\* The items, and the files to hydrate unless the delivery is "preserve".
ReplayReads(preserve) ==
  /\ owner.phase = "rows"
  /\ owner' = [owner EXCEPT !.phase = "hydrate", !.rows = Rows,
                 !.files = IF preserve THEN {} ELSE UNION {i.refs : i \in Rows}]
  /\ UNCHANGED <<vars, got, cursor, fresh>>

\* hydrate_file_references: files::get_owned of one reference.
HydrateFile(f) ==
  /\ owner.phase = "hydrate" /\ f \in owner.files
  /\ owner' = IF Live(f) THEN [owner EXCEPT !.files = @ \ {f}]
              ELSE [owner EXCEPT !.phase = "missing"]
  /\ UNCHANGED <<vars, got, cursor, fresh>>

\* The client continues after the through_seq it is answered.
ReplayAnswers ==
  /\ owner.phase = "hydrate" /\ owner.files = {}
  /\ got' = got \cup owner.rows
  /\ cursor' = owner.through
  /\ owner' = OwnerIdle
  /\ UNCHANGED <<vars, fresh>>

\* 404 File not found, or the request was lost: the client asks again.
ReplayEnds ==
  /\ owner # OwnerIdle
  /\ owner' = OwnerIdle
  /\ UNCHANGED <<vars, got, cursor, fresh>>

\* ORDER BY seq ASC LIMIT: the lowest positions of the rest.
Page(rest) ==
  {{i \in rest : Cardinality({j \in rest : j.seq <= i.seq}) <= PageLimit}}

\* list_items; the client continues after the last item of the page.
ListItems ==
  /\ owner = OwnerIdle
  /\ conv[Followed] = "live"
  /\ \E page \in Page({i \in ItemsOf(Followed) : i.seq > cursor}) :
       /\ got' = got \cup page
       /\ \E i \in page : (\A j \in page : j.seq <= i.seq) /\ cursor' = i.seq
  /\ UNCHANGED <<vars, owner, fresh>>

-----------------------------------------------------------------------------
OwnerRead ==
  \/ \E asked \in 0..(MaxSeq + 1) : ReplayBegins(asked)
  \/ \E preserve \in BOOLEAN : ReplayReads(preserve)
  \/ \E f \in File : HydrateFile(f)
  \/ ReplayAnswers \/ ReplayEnds \/ ListItems

OwnerNext == Write \/ OwnerRead

OwnerSpec == OwnerInit /\ [][OwnerNext]_allOwnerVars

-----------------------------------------------------------------------------
\* A client that follows a transcript misses nothing and is given nothing
\* beyond its cursor, although each replay reads the end of the transcript and
\* the items in two statements: unless items were deleted meanwhile it holds
\* exactly what lies up to its cursor (store.rs:821-855, 190-207).
FollowerComplete ==
  fresh => got = {i \in ItemsOf(Followed) : i.seq <= cursor}

\* A replay is refused for a missing file only if the transcript was edited
\* since its items were read: a reference that still stands keeps its file
\* (store.rs:1067 against files.rs:101).
HydrationResolves ==
  owner.phase = "missing" => ~(owner.rows \subseteq items)
=============================================================================
