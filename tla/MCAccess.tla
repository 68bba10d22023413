------------------------------- MODULE MCAccess -------------------------------
(***************************************************************************)
(* The tokens, requests and rows of the instance of Access: calls of every *)
(* kind without files, and URLs of one file while one server runs.         *)
(***************************************************************************)
EXTENDS Access, TLC

CONSTANTS x, y

MCConvOwner == [c1 |-> "o1", c2 |-> "o2"]
MCTurnConv == [t1 |-> "c1", t2 |-> "c1", t3 |-> "c2"]
MCTurnAgent == [t1 |-> "a", t2 |-> "a", t3 |-> "b"]

LOCAL Claims(kind, owner, dates, permissions) ==
  [kid |-> "k1", aud |-> {"threadmark-api"}, ids |-> TRUE, kind |-> kind,
   iat |-> dates[1], nbf |-> dates[2], exp |-> dates[3],
   permissions |-> permissions, owner |-> owner,
   agent |-> None, conv |-> None, turn |-> None]

LOCAL Session(dates) == Claims("owner_session", "o1", dates, Permission)
LOCAL Delegated(conv, turn, agent, dates, permissions) ==
  [Claims("delegated_agent", "o1", dates, permissions)
     EXCEPT !.conv = conv, !.turn = turn, !.agent = agent]

\* Dates in every order, a key and an audience that are refused.
DateTokens ==
  {Session(<<0, 0, 2>>), Session(<<1, 0, 4>>), Session(<<3, 2, 5>>), Session(<<0, 0, 5>>),
   Session(<<2, 3, 2>>),
   [Session(<<1, 1, 3>>) EXCEPT !.aud = {"threadmark-api", "other"}],
   [Session(<<1, 1, 3>>) EXCEPT !.kid = "k2"],
   Delegated("c1", "t2", "a", <<0, 0, 4>>, {"transcript:read"}),
   Delegated("c1", "t2", "a", <<0, 1, 3>>, {"transcript:read"})}

Full == Session(<<1, 1, 3>>)
Bound == [Full EXCEPT !.agent = "a", !.conv = "c2", !.turn = "t3"]
Other == [Full EXCEPT !.owner = "o2"]
Few == [Full EXCEPT !.permissions = {"transcript:read", "turn:create"}]

\* Agents, and claims no agent and no owner may have.
AgentTokens ==
  {Claims("owner_session", "o1", <<1, 1, 3>>, {"turn:read", "agent:replay"}),
   Delegated("c1", "t1", "a", <<1, 1, 4>>, {"transcript:read"}),
   Delegated("c1", "t1", "b", <<1, 1, 4>>, {"transcript:read"}),
   Delegated("c2", "t3", "b", <<1, 1, 4>>, {"transcript:read"}),
   Delegated("c1", None, "a", <<1, 1, 4>>, {"transcript:read"}),
   Delegated("c1", "t1", "a", <<1, 1, 4>>, {"transcript:read", "turn:update"})}

LOCAL Plain(op, conv, turn, agent) ==
  [op |-> op, conv |-> conv, turn |-> turn, agent |-> agent, file |-> None,
   delivery |-> "preserve", body |-> FALSE]
LOCAL Filed(op, conv, file, delivery) ==
  [Plain(op, conv, None, None) EXCEPT !.file = file, !.delivery = delivery]

\* Requests about the rows of two owners, and those that name an agent.
TwoOwners ==
  {Plain(op, c, None, None) :
     op \in {"get_conversation", "append_items", "replay"}, c \in {"c1", "c2"}}
    \cup
  {Plain(op, None, t, None) : op \in {"get_turn", "update_turn"}, t \in {"t1", "t3"}}
Turns ==
  {Plain(op, c, None, a) :
     op \in {"start_turn", "create_turn"}, c \in {"c1", None}, a \in {"a", "b"}}
    \cup
  {Plain(op, None, None, None) : op \in {"initiate_file_upload", "complete_file_upload"}}

OwnerRequests ==
  {Plain(op, None, None, None) : op \in {"create_conversation", "list_conversations"}}
    \cup
  {Plain(op, c, None, None) :
     op \in {"update_conversation", "delete_conversation",
             "list_items", "list_turns",
             "get_active_turn", "create_continuation", "get_continuation",
             "truncate_conversation", "regenerate_conversation"},
     c \in {"c1"}}
    \cup TwoOwners \cup Turns

AgentRequests ==
  {Plain("replay", "c1", None, None), Plain("list_items", "c1", None, None),
   Plain("get_turn", None, "t1", None), Plain("update_turn", None, "t1", None)}
    \cup
  {Plain("agent_replay", c, t, None) : c \in {"c1", "c2"}, t \in {"t1", "t2"}}
    \cup
  {[Plain("agent_replay", "c1", "t1", None) EXCEPT !.body = TRUE]}

\* Those who may hand out URLs, and one who may only read transcripts.
FileTokens ==
  {Session(<<0, 0, 3>>),
   Claims("owner_session", "o1", <<0, 0, 3>>, {"transcript:read"}),
   Claims("owner_session", "o2", <<0, 0, 3>>, {"file:grant", "file:create"})}

FileRequests ==
  {Filed("upload_file", None, None, "preserve")} \cup
  {Filed(op, None, f, "preserve") :
     op \in {"get_file", "delete_file"}, f \in File} \cup
  {Filed("create_file_download", None, f, "redirect") : f \in File} \cup
  {Filed("replay", "c1", f, d) : f \in File, d \in {"capability_url", "presigned_url"}}

Calls ==
  (DateTokens \X {Plain("get_conversation", "c1", None, None),
                  Plain("agent_replay", "c1", "t2", None)})
    \cup ({Full} \X (OwnerRequests \cup AgentRequests))
    \cup ({Bound, Other, Few} \X (TwoOwners \cup Turns))
    \cup (AgentTokens \X AgentRequests)
Urls == FileTokens \X FileRequests

MCToken == DateTokens \cup {Full, Bound, Other, Few} \cup AgentTokens \cup FileTokens
MCRequest == OwnerRequests \cup AgentRequests \cup FileRequests
MCAsked == Calls \cup Urls

-----------------------------------------------------------------------------
Clients == Permutations(Client)

AsksOf(c, calls) ==
  job[c].step \in {"accepted", "found", "answered"} =>
    <<job[c].token, job[c].request>> \in calls

\* One client with any call, and keys and servers that come and go; then two
\* clients that make, redeem and remove.
CallScope ==
  /\ \A c \in Client : AsksOf(c, Calls)
  /\ Cardinality({c \in Client : job[c] # Idle}) <= 1
  /\ \A c \in Client : job[c].step = "accepted" => now <= job[c].at + 1
  /\ published # {"k2"} /\ \A f \in File : owners[f] = None
UrlScope ==
  /\ \A c \in Client : AsksOf(c, Urls)
  /\ \A c \in Client : job[c].step = "accepted" => now = job[c].at
  /\ Cardinality({c \in Client : job[c].step \in {"accepted", "answered"}}) <= 1
  /\ now <= 3 /\ up /\ published = {"k1"} /\ keys = {"k1"}

Scope == CallScope \/ UrlScope
=============================================================================
