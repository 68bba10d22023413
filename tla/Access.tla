-------------------------------- MODULE Access --------------------------------
(***************************************************************************)
(* Who may do what: src/src/auth.rs (tokens, permissions, bounds), the     *)
(* checks at the head of every handler of src/src/api.rs, and the download *)
(* grants of src/src/capability.rs with the links that come of them.       *)
(* A call awaits the database and the signing of a link between its checks *)
(* and what rests on them: each is a step, and others come in between.     *)
(* An issuer outside the system signs the tokens and publishes its keys;   *)
(* the server reads the keys once, when it starts.  Files are here for     *)
(* their owners, conversations and turns are fixed: Ledger and Files have  *)
(* their changes.                                                          *)
(***************************************************************************)
EXTENDS Integers, FiniteSets

CONSTANTS
  Client,         \* clients, each with one call under way
  Owner,          \* pairs of tenant and principal
  File,           \* file ids
  Kid,            \* ids of signing keys
  Token,          \* claims of the tokens in use
  Request,        \* requests clients make
  Asked,          \* with which tokens they make them
  None,           \* no conversation, turn, agent or file
  ConvOwner,      \* owner of each conversation
  TurnConv,       \* conversation of each turn
  TurnAgent,      \* agent_ref of each turn
  PublicUrl,      \* S3_PUBLIC_URL is set
  Skew,           \* leeway of the clocks, 30 s
  MaxOwner,       \* AUTH_MAX_OWNER_TOKEN_SECONDS
  MaxDelegated,   \* AUTH_MAX_DELEGATED_TOKEN_SECONDS
  CapabilityTTL,  \* CAPABILITY_TTL_SECONDS
  Pause,          \* from a lookup, or verify_file, to the URL that rests on it
  MaxTime,        \* bound of the clock
  MaxUrls         \* bound of the number of grants and links

\* Permission::parse knows these; "agent:replay" is no claim, see Context.
Permission ==
  {"conversation:list", "conversation:create", "conversation:read",
   "conversation:update", "conversation:delete", "conversation:truncate",
   "conversation:regenerate", "transcript:read", "transcript:append",
   "turn:create", "turn:read", "turn:update", "continuation:read",
   "continuation:write", "file:create", "file:read", "file:delete", "file:grant"}

\* The permissions a handler requires before it reads its request.
Required == [
  create_conversation |-> {"conversation:create"},
  start_turn |-> {"turn:create", "transcript:append"},
  list_conversations |-> {"conversation:list"},
  get_conversation |-> {"conversation:read"},
  update_conversation |-> {"conversation:update"},
  delete_conversation |-> {"conversation:delete"},
  list_items |-> {"transcript:read"},
  append_items |-> {"transcript:append"},
  replay |-> {"transcript:read"},
  agent_replay |-> {"agent:replay"},
  create_turn |-> {"turn:create"},
  list_turns |-> {"turn:read"},
  get_active_turn |-> {"conversation:read", "turn:read"},
  get_turn |-> {"turn:read"},
  update_turn |-> {"turn:update"},
  create_continuation |-> {"continuation:write"},
  get_continuation |-> {"continuation:read"},
  truncate_conversation |-> {"conversation:truncate"},
  regenerate_conversation |-> {"conversation:regenerate"},
  upload_file |-> {"file:create"},
  initiate_file_upload |-> {"file:create"},
  complete_file_upload |-> {"file:create"},
  get_file |-> {"file:read"},
  get_file_content |-> {"file:read"},
  delete_file |-> {"file:delete"},
  create_file_download |-> {"file:grant"}]

ASSUME TokenAssumption ==
  Token \subseteq
    [kid : Kid, aud : SUBSET STRING, ids : BOOLEAN, kind : STRING,
     iat : Nat, nbf : Nat, exp : Nat, permissions : SUBSET STRING,
     owner : Owner, agent : STRING \cup {None},
     conv : DOMAIN ConvOwner \cup {None}, turn : DOMAIN TurnConv \cup {None}]

ASSUME RequestAssumption ==
  /\ Request \subseteq
       [op : DOMAIN Required, conv : DOMAIN ConvOwner \cup {None},
        turn : DOMAIN TurnConv \cup {None}, agent : STRING \cup {None},
        file : File \cup {None}, delivery : STRING, body : BOOLEAN]
  /\ \A q \in Request :
       /\ q.op \in {"get_turn", "update_turn", "agent_replay"} <=> q.turn # None
       /\ q.op = "create_file_download" => q.delivery \in {"redirect", "proxy"}

ASSUME AskedAssumption == Asked \subseteq Token \X Request

ASSUME RowAssumption ==
  /\ ConvOwner \in [DOMAIN ConvOwner -> Owner]
  /\ TurnConv \in [DOMAIN TurnConv -> DOMAIN ConvOwner]
  /\ DOMAIN TurnAgent = DOMAIN TurnConv
  /\ None \notin Owner \cup File \cup DOMAIN ConvOwner \cup DOMAIN TurnConv
  /\ "removed" \notin Owner \cup {None}

ASSUME TimeAssumption ==
  {Skew, MaxOwner, MaxDelegated, CapabilityTTL, Pause, MaxTime, MaxUrls}
    \subseteq Nat

VARIABLES
  now,        \* the clock of issuer, server and S3, in seconds
  published,  \* keys the issuer publishes
  keys,       \* keys the server has
  up,         \* whether the server runs
  owners,     \* owner of each file's row, None before it and "removed" after it
  removedAt,  \* when it was removed
  grants,     \* signed download URLs handed out
  links,      \* presigned URLs of S3 handed out
  job         \* the call or download of each client

vars == <<now, published, keys, up, owners, removedAt, grants, links, job>>
serverVars == <<now, published, keys, up>>
fileVars == <<owners, removedAt>>
urlVars == <<grants, links>>

Grant == [file : File, owner : Owner, delivery : {"redirect", "proxy"},
          expires : Nat, by : Token]
\* "since" is when the client was given what the link comes from.
Link == [file : File, since : Nat, until : Nat]
Status == {"ok", "bad_request", "unauthorized", "forbidden", "not_found", "conflict"}

\* "at" is when the token was accepted, "seen" when the row of the file was
\* read (a call) or the signature verified (a download).
Idle == [step |-> "idle"]
Accepted == [step : {"accepted"}, token : Token, request : Request, at : Nat]
FileFound == [step : {"found"}, token : Token, request : Request, at : Nat, seen : Nat]
Answered == [step : {"answered"}, token : Token, request : Request, at : Nat,
             status : Status]
Download == [step : {"verified", "located"}, grant : Grant, seen : Nat]
Job == {Idle} \cup Accepted \cup FileFound \cup Answered \cup Download

TypeOK ==
  /\ now \in 0..MaxTime
  /\ published \in SUBSET Kid /\ keys \in SUBSET Kid /\ up \in BOOLEAN
  /\ owners \in [File -> Owner \cup {None, "removed"}]
  /\ removedAt \in [File -> Nat]
  /\ grants \in SUBSET Grant /\ links \in SUBSET Link
  /\ job \in [Client -> Job]

Init ==
  /\ now = 0
  /\ published = {} /\ keys = {} /\ up = FALSE
  /\ owners = [f \in File |-> None] /\ removedAt = [f \in File |-> 0]
  /\ grants = {} /\ links = {} /\ job = [c \in Client |-> Idle]

-----------------------------------------------------------------------------
\* What the token library checks besides the signature: it refuses a token
\* whose exp lies more than the leeway back.
Timely(t) == now <= t.exp + Skew /\ t.nbf <= now + Skew

MaxSeconds(t) == IF t.kind = "owner_session" THEN MaxOwner ELSE MaxDelegated

\* Mutant: the length of a token's life is not checked.
Valid_NoMaximum(t) ==
  /\ t.kind \in {"owner_session", "delegated_agent"} /\ t.aud = {"threadmark-api"}
  /\ t.ids /\ t.exp > t.iat /\ t.exp > t.nbf
  /\ t.permissions \subseteq Permission
  /\ t.kind = "delegated_agent" =>
       /\ None \notin {t.conv, t.turn, t.agent}
       /\ t.permissions = {"transcript:read"}

\* Claims::context.  "ids" says that issuer, subject, client and the other
\* names are as they should be.
Valid(t) ==
  /\ t.kind \in {"owner_session", "delegated_agent"}
  /\ t.aud = {"threadmark-api"} /\ t.ids
  /\ t.exp > t.iat /\ t.exp > t.nbf /\ t.iat <= now + Skew
  /\ t.exp - t.iat <= MaxSeconds(t)
  /\ t.permissions \subseteq Permission
  /\ t.kind = "delegated_agent" =>
       /\ None \notin {t.conv, t.turn, t.agent}
       /\ t.permissions = {"transcript:read"}

\* Mutant: a delegated token keeps the permission it was signed with.
Context_KeepsClaims(t) ==
  [owner |-> t.owner, kind |-> t.kind, agent |-> t.agent, conv |-> t.conv,
   turn |-> t.turn, permissions |-> t.permissions]

\* The AuthContext of a valid token: a delegated one replays, nothing else.
Context(t) ==
  [owner |-> t.owner, kind |-> t.kind, agent |-> t.agent, conv |-> t.conv,
   turn |-> t.turn,
   permissions |-> IF t.kind = "delegated_agent" THEN {"agent:replay"}
                   ELSE t.permissions]

Authentic(t) == t.kid \in keys /\ Timely(t) /\ Valid(t)

-----------------------------------------------------------------------------
\* Permissions that depend on the request.
\* Mutant: a replay may hand out files without the permission to read them.
RequestPermissions_Start(q) ==
  {p \in {"conversation:create"} : q.op = "start_turn" /\ q.conv = None}

RequestPermissions(q) ==
  {p \in {"conversation:create"} : q.op = "start_turn" /\ q.conv = None}
    \cup {p \in {"file:read"} : q.op = "replay" /\ q.delivery # "preserve"}

\* require_agent: a token bound to an agent makes turns for that agent only.
WithinAgent(c, q) ==
  q.op \in {"start_turn", "create_turn"} => c.agent \in {None, q.agent}

\* require_agent_replay_scope.
ReplayScope(c, q) ==
  q.op = "agent_replay" =>
    c.kind = "delegated_agent" /\ c.conv = q.conv /\ c.turn = q.turn

NamesFile(q) ==
  \/ q.op \in {"get_file", "get_file_content", "delete_file", "create_file_download"}
  \/ q.op = "replay" /\ q.file # None /\ q.delivery # "preserve"

\* files::get_owned.
\* Mutant: a grant is redeemed and made whoever has the file, or had it.
GetOwned_AnyRow(owner, f) == f \in File

GetOwned(owner, f) == f \in File /\ owners[f] = owner

\* Every statement of the store carries tenant and owner; agent_replay also
\* joins the turn with its conversation and agent.
Found(c, q) ==
  /\ q.conv # None => ConvOwner[q.conv] = c.owner
  /\ q.op \in {"get_turn", "update_turn"} => ConvOwner[TurnConv[q.turn]] = c.owner
  /\ q.op = "agent_replay" =>
       TurnConv[q.turn] = q.conv /\ TurnAgent[q.turn] = c.agent
  /\ NamesFile(q) => GetOwned(c.owner, q.file)

\* The answer of a handler, in the order of its checks.
Verdict(c, q) ==
  IF \/ ~ Required[q.op] \subseteq c.permissions
     \/ /\ q.op \in {"initiate_file_upload", "complete_file_upload"}
        /\ c.agent # None
    THEN "forbidden"
  ELSE IF ~ WithinAgent(c, q) THEN "not_found"
  ELSE IF ~ RequestPermissions(q) \subseteq c.permissions THEN "forbidden"
  ELSE IF q.op = "agent_replay" /\ q.body THEN "bad_request"
  ELSE IF ~ (ReplayScope(c, q) /\ Found(c, q)) THEN "not_found"
  ELSE IF q.delivery \in {"redirect", "presigned_url"} /\ ~ PublicUrl
    THEN "bad_request"
  ELSE "ok"

-----------------------------------------------------------------------------
Becomes(c, j) == job' = [job EXCEPT ![c] = j]
Doing(c, step) == up /\ job[c].step = step
Answers(c, status) ==
  Becomes(c, [step |-> "answered", token |-> job[c].token,
              request |-> job[c].request, at |-> job[c].at, status |-> status])

\* from_request_parts, before the body of the request is read.
Reject(c, t, q) ==
  /\ Doing(c, "idle") /\ ~ Authentic(t)
  /\ Becomes(c, [step |-> "answered", token |-> t, request |-> q, at |-> now,
                 status |-> "unauthorized"])
  /\ UNCHANGED <<serverVars, fileVars, urlVars>>

Accept(c, t, q) ==
  /\ Doing(c, "idle") /\ Authentic(t)
  /\ Becomes(c, [step |-> "accepted", token |-> t, request |-> q, at |-> now])
  /\ UNCHANGED <<serverVars, fileVars, urlVars>>

Allowed(c) == Verdict(Context(job[c].token), job[c].request) = "ok"

Refuse(c) ==
  /\ Doing(c, "accepted") /\ ~ Allowed(c)
  /\ Answers(c, Verdict(Context(job[c].token), job[c].request))
  /\ UNCHANGED <<serverVars, fileVars, urlVars>>

\* The calls that sign URLs when they have looked the file up.
MakesUrl(q) ==
  \/ q.op = "create_file_download"
  \/ /\ q.op = "replay" /\ q.file # None
     /\ q.delivery \in {"capability_url", "presigned_url"}

\* The calls whose work is the business of Ledger, Uploads or Files.
Serve(c) ==
  /\ Doing(c, "accepted") /\ Allowed(c)
  /\ job[c].request.op \notin {"upload_file", "delete_file"}
  /\ ~ MakesUrl(job[c].request)
  /\ Answers(c, "ok")
  /\ UNCHANGED <<serverVars, fileVars, urlVars>>

UploadFile(c, f) ==
  /\ Doing(c, "accepted") /\ Allowed(c) /\ job[c].request.op = "upload_file"
  /\ owners[f] = None
  /\ owners' = [owners EXCEPT ![f] = job[c].token.owner]
  /\ Answers(c, "ok")
  /\ UNCHANGED <<serverVars, removedAt, urlVars>>

DeleteFile(c) ==
  /\ Doing(c, "accepted") /\ Allowed(c) /\ job[c].request.op = "delete_file"
  /\ owners' = [owners EXCEPT ![job[c].request.file] = "removed"]
  /\ removedAt' = [removedAt EXCEPT ![job[c].request.file] = now]
  /\ Answers(c, "ok")
  /\ UNCHANGED <<serverVars, urlVars>>

\* A conversation refers to the file (Ledger has the references).
DeleteReferenced(c) ==
  /\ Doing(c, "accepted") /\ Allowed(c) /\ job[c].request.op = "delete_file"
  /\ Answers(c, "conflict")
  /\ UNCHANGED <<serverVars, fileVars, urlVars>>

\* files::get_owned has answered; what is made of it comes later.
LookUp(c) ==
  /\ Doing(c, "accepted") /\ Allowed(c) /\ MakesUrl(job[c].request)
  /\ Becomes(c, [step |-> "found", token |-> job[c].token,
                 request |-> job[c].request, at |-> job[c].at, seen |-> now])
  /\ UNCHANGED <<serverVars, fileVars, urlVars>>

MoreUrls == Cardinality(grants) + Cardinality(links) < MaxUrls

\* capability::file_url, asked for or in a replay.
FileUrl(c, delivery) ==
  /\ MoreUrls
  /\ grants' = grants \cup
       {[file |-> job[c].request.file, owner |-> job[c].token.owner,
         delivery |-> delivery, expires |-> now + CapabilityTTL,
         by |-> job[c].token]}
  /\ UNCHANGED links

CreateFileDownload(c) ==
  /\ Doing(c, "found") /\ job[c].request.op = "create_file_download"
  /\ FileUrl(c, job[c].request.delivery)
  /\ Answers(c, "ok")
  /\ UNCHANGED <<serverVars, fileVars>>

ReplayGrant(c) ==
  /\ Doing(c, "found") /\ job[c].request.op = "replay"
  /\ job[c].request.delivery = "capability_url"
  /\ FileUrl(c, "proxy")
  /\ Answers(c, "ok")
  /\ UNCHANGED <<serverVars, fileVars>>

\* presigned_get signs for the whole CAPABILITY_TTL_SECONDS.
PresignedGet(f, since) ==
  /\ MoreUrls
  /\ links' = links \cup {[file |-> f, since |-> since, until |-> now + CapabilityTTL]}
  /\ UNCHANGED grants

ReplayLink(c) ==
  /\ Doing(c, "found") /\ job[c].request.op = "replay"
  /\ job[c].request.delivery = "presigned_url"
  /\ PresignedGet(job[c].request.file, now)
  /\ Answers(c, "ok")
  /\ UNCHANGED <<serverVars, fileVars>>

-----------------------------------------------------------------------------
\* verify_file, for a URL whose signature is right.
\* Mutant: the expiry is compared the wrong way round.
VerifyFile_Late(g) == g.expires <= now

VerifyFile(g) == g.expires >= now

\* download_file: redirect.  A proxied download changes nothing.
Redeem(c, g) ==
  /\ Doing(c, "idle") /\ g \in grants /\ g.delivery = "redirect" /\ VerifyFile(g)
  /\ Becomes(c, [step |-> "verified", grant |-> g, seen |-> now])
  /\ UNCHANGED <<serverVars, fileVars, urlVars>>

Locate(c) ==
  /\ Doing(c, "verified")
  /\ GetOwned(job[c].grant.owner, job[c].grant.file)
  /\ Becomes(c, [job[c] EXCEPT !.step = "located"])
  /\ UNCHANGED <<serverVars, fileVars, urlVars>>

Redirect(c) ==
  /\ Doing(c, "located")
  /\ PresignedGet(job[c].grant.file, job[c].grant.expires - CapabilityTTL)
  /\ Becomes(c, Idle)
  /\ UNCHANGED <<serverVars, fileVars>>

-----------------------------------------------------------------------------
\* A database or S3 that fails, a file that is gone, a client that hangs up.
Fails(c) ==
  /\ job[c].step \in {"accepted", "found", "verified", "located"}
  /\ Becomes(c, Idle)
  /\ UNCHANGED <<serverVars, fileVars, urlVars>>

ReadAnswer(c) ==
  /\ job[c].step = "answered"
  /\ Becomes(c, Idle)
  /\ UNCHANGED <<serverVars, fileVars, urlVars>>

\* Authenticator::from_config: a server without a key does not start.
Start ==
  /\ ~ up /\ published # {}
  /\ up' = TRUE /\ keys' = published
  /\ UNCHANGED <<now, published, fileVars, urlVars, job>>

Stop ==
  /\ up
  /\ up' = FALSE
  /\ job' = [c \in Client |-> IF job[c].step = "answered" THEN job[c] ELSE Idle]
  /\ UNCHANGED <<now, published, keys, fileVars, urlVars>>

Publish(kids) ==
  /\ published' = kids
  /\ UNCHANGED <<now, keys, up, fileVars, urlVars, job>>

\* Answers are read in the second they are given.  A call may wait for its
\* request's body for any time, but not between a check and its URL.
Tick ==
  /\ now < MaxTime
  /\ \A c \in Client :
       /\ job[c].step # "answered"
       /\ job[c].step \in {"found", "verified", "located"} => now < job[c].seen + Pause
  /\ now' = now + 1
  /\ UNCHANGED <<published, keys, up, fileVars, urlVars, job>>

Call(c) ==
  \/ \E a \in Asked : Reject(c, a[1], a[2]) \/ Accept(c, a[1], a[2])
  \/ Refuse(c) \/ Serve(c) \/ (\E f \in File : UploadFile(c, f))
  \/ DeleteFile(c) \/ DeleteReferenced(c)
  \/ LookUp(c) \/ CreateFileDownload(c) \/ ReplayGrant(c) \/ ReplayLink(c)

DownloadFile(c) == (\E g \in grants : Redeem(c, g)) \/ Locate(c) \/ Redirect(c)

Next ==
  \/ \E c \in Client : Call(c) \/ DownloadFile(c) \/ Fails(c) \/ ReadAnswer(c)
  \/ \E kids \in SUBSET Kid : Publish(kids)
  \/ Start \/ Stop \/ Tick

Spec == Init /\ [][Next]_vars

-----------------------------------------------------------------------------
WithinToken(t, q) ==
  /\ q.conv # None => ConvOwner[q.conv] = t.owner
  /\ q.turn # None => ConvOwner[TurnConv[q.turn]] = t.owner
  /\ NamesFile(q) => q.file \in File /\ owners[q.file] \in {t.owner, "removed"}
  /\ q.op \in {"start_turn", "create_turn"} => t.agent \in {None, q.agent}
  /\ q.op \in {"initiate_file_upload", "complete_file_upload"} => t.agent = None
  /\ t.kind = "delegated_agent" =>
       /\ q.op = "agent_replay" /\ q.conv = t.conv /\ q.turn = t.turn
       /\ TurnConv[q.turn] = q.conv /\ TurnAgent[q.turn] = t.agent
  /\ t.kind = "owner_session" => q.op # "agent_replay"

\* Service-authorization RFC, lines 76-78: what a call is answered stays within
\* what its token was signed for: the conversations, turns and files of its
\* owner; for a delegated token, the replay of its one turn for its one agent
\* (auth.rs 232-340, api.rs 241-259, the predicates of store.rs).  Of what
\* lines 199-205 ask besides for an owner's token that names a conversation, a
\* turn or an agent the code has the agent of a turn that is made and the
\* refusal of direct uploads, no more: the README lists the difference.
AnsweredWithinToken ==
  \A c \in Client :
    job[c].step = "answered" /\ job[c].status = "ok" =>
      WithinToken(job[c].token, job[c].request)

InWindow(t, at) ==
  /\ t.iat - Skew <= at /\ at <= t.exp + Skew
  /\ t.kind = "owner_session" => at <= t.iat + MaxOwner + Skew
  /\ t.kind = "delegated_agent" => at <= t.iat + MaxDelegated + Skew

\* Whatever its three dates say, a token is not accepted before it was issued
\* or once the longest life of its kind is over, but for the leeway
\* (auth.rs 222-257).  The last instant, exp + Skew, is one that the RFC, line
\* 117, excludes and the token library accepts (README).
AcceptedWindow ==
  \A c \in Client :
    \/ job[c].step \in {"accepted", "found"}
    \/ job[c].step = "answered" /\ job[c].status # "unauthorized"
    => InWindow(job[c].token, job[c].at)

MayHandOut(t) ==
  /\ t.kind = "owner_session"
  /\ \/ "file:grant" \in t.permissions
     \/ {"transcript:read", "file:read"} \subseteq t.permissions

\* RFC, lines 287-289 and 303-305: a download URL comes of a file:grant or of
\* a replay with file:read, never of a delegated token, and names the file and
\* the owner of the caller.
GrantsAuthorized ==
  \A g \in grants :
    /\ g.by.owner = g.owner /\ owners[g.file] \in {g.owner, "removed"}
    /\ MayHandOut(g.by)

\* A client that is given a URL at some time can fetch through the links it
\* leads to for two lifetimes of a capability and a pause at most: verified in
\* its last second, and signed at the end of the pause (capability.rs 22-50,
\* api.rs 542-559).
LinksBounded == \A k \in links : k.until <= k.since + 2 * CapabilityTTL + Pause

\* RFC, lines 321-322: "deletion and ownership checks still occur at
\* redemption".  A removal may come between the check and the URL (api.rs
\* 518-525, 552-559); even so all that leads to a removed file ends a lifetime
\* and a pause after the removal, also what comes of a URL handed out before.
RemovedFileClosed ==
  \A f \in File :
    owners[f] = "removed" =>
      /\ \A g \in grants :
           g.file = f => g.expires <= removedAt[f] + CapabilityTTL + Pause
      /\ \A k \in links :
           k.file = f => k.until <= removedAt[f] + CapabilityTTL + Pause
=============================================================================
