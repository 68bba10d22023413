----------------------------- MODULE AccessProofs -----------------------------
(***************************************************************************)
(* Proofs about Access: calls stay within their tokens, tokens within      *)
(* their lifetimes, grants and links within what was signed for.           *)
(***************************************************************************)
EXTENDS Access, TLAPS

\* A row read at "since" was still there then.
ThereAt(f, since) == owners[f] = "removed" => since <= removedAt[f]

\* What the checks a call or a download has behind it say of it.
JobOK(j) ==
  /\ j.step \in {"accepted", "found"} =>
       j.token.kind \in {"owner_session", "delegated_agent"}
  /\ \/ j.step \in {"accepted", "found"}
     \/ j.step = "answered" /\ j.status # "unauthorized"
     => InWindow(j.token, j.at)
  /\ \/ j.step = "found"
     \/ j.step = "answered" /\ j.status = "ok"
     => WithinToken(j.token, j.request)
  /\ j.step = "found" =>
       /\ MakesUrl(j.request) /\ MayHandOut(j.token)
       /\ ThereAt(j.request.file, j.seen)
  /\ j.step \in {"verified", "located"} =>
       j.grant \in grants /\ j.seen <= j.grant.expires
  /\ j.step = "located" => ThereAt(j.grant.file, j.seen)
  /\ j.step \in {"found", "verified", "located"} =>
       j.seen <= now /\ now <= j.seen + Pause

Jobs == \A c \in Client : JobOK(job[c])

\* What is handed out ends within one lifetime from now; the time a grant was
\* made can be read off it.
UrlsDated ==
  /\ \A g \in grants : CapabilityTTL <= g.expires /\ g.expires <= now + CapabilityTTL
  /\ \A k \in links : k.until <= now + CapabilityTTL

UrlsOK == GrantsAuthorized /\ UrlsDated /\ LinksBounded /\ RemovedFileClosed

IInv == TypeOK /\ Jobs /\ UrlsOK

-----------------------------------------------------------------------------
(* What one step can do. *)

\* A file goes from no row to a row of an owner, and from that to "removed".
RowsMove ==
  /\ owners' \in [File -> Owner \cup {None, "removed"}]
  /\ removedAt' \in [File -> Nat]
  /\ \A f \in File :
       \/ owners'[f] = owners[f] /\ removedAt'[f] = removedAt[f]
       \/ owners[f] = None /\ owners'[f] \in Owner /\ removedAt'[f] = removedAt[f]
       \/ owners[f] \in Owner /\ owners'[f] = "removed" /\ removedAt'[f] = now

\* Client c goes on to j, at the same time.
JobStep(c, j) == Becomes(c, j) /\ UNCHANGED serverVars

Answer(c, status) ==
  [step |-> "answered", token |-> job[c].token, request |-> job[c].request,
   at |-> job[c].at, status |-> status]

\* A call that was refused, or has a conflict.
AnswersNo(c) ==
  /\ job[c].step = "accepted"
  /\ \E s \in Status \ {"ok", "unauthorized"} : JobStep(c, Answer(c, s))
  /\ UNCHANGED <<fileVars, urlVars>>

\* A call that was allowed and makes no URL.
AnswersYes(c) ==
  /\ job[c].step = "accepted" /\ Allowed(c)
  /\ JobStep(c, Answer(c, "ok"))
  /\ UNCHANGED urlVars

\* A URL for a call that has found its file.
MakesGrant(c) ==
  /\ job[c].step = "found"
  /\ JobStep(c, Answer(c, "ok"))
  /\ \E d \in {"redirect", "proxy"} :
       grants' = grants \cup
         {[file |-> job[c].request.file, owner |-> job[c].token.owner,
           delivery |-> d, expires |-> now + CapabilityTTL, by |-> job[c].token]}
  /\ UNCHANGED <<fileVars, links>>

MakesLink(c) ==
  /\ job[c].step = "found"
  /\ JobStep(c, Answer(c, "ok"))
  /\ links' = links \cup
       {[file |-> job[c].request.file, since |-> now, until |-> now + CapabilityTTL]}
  /\ UNCHANGED <<fileVars, grants>>

\* Every step in which nobody's job goes on.
Quiet ==
  /\ UNCHANGED <<now, fileVars, urlVars>>
  /\ published' \in SUBSET Kid /\ keys' \in SUBSET Kid /\ up' \in BOOLEAN
  /\ \E stopped \in SUBSET Client :
       job' = [c \in Client |-> IF c \in stopped THEN Idle ELSE job[c]]

-----------------------------------------------------------------------------
LEMMA TokenFields ==
  ASSUME NEW t \in Token
  PROVE  /\ t.owner \in Owner /\ t.kind \in STRING
         /\ t.iat \in Nat /\ t.nbf \in Nat /\ t.exp \in Nat
BY TokenAssumption

LEMMA Numbers ==
  ASSUME TypeOK
  PROVE  /\ now \in Nat /\ now + CapabilityTTL \in Nat
         /\ CapabilityTTL \in Nat /\ Pause \in Nat /\ Skew \in Nat
         /\ MaxOwner \in Nat /\ MaxDelegated \in Nat /\ MaxTime \in Nat
BY TimeAssumption DEF TypeOK

LEMMA Shapes ==
  ASSUME NEW j \in Job
  PROVE  /\ j.step = "accepted" => j \in Accepted
         /\ j.step = "found" => j \in FileFound
         /\ j.step = "answered" => j \in Answered
         /\ j.step \in {"verified", "located"} => j \in Download
         /\ j.step = "idle" => j = Idle
BY DEF Job, Idle, Accepted, FileFound, Answered, Download

LEMMA CallShapes ==
  ASSUME NEW j \in Job, j.step \in {"accepted", "found"}
  PROVE  j.token \in Token /\ j.request \in Request /\ j.at \in Nat
BY Shapes DEF Accepted, FileFound

LEMMA VerdictStatus ==
  ASSUME NEW c, NEW q
  PROVE  Verdict(c, q) \in Status \ {"unauthorized"}
BY DEF Verdict, Status

\* The verdict "ok" says that every check passed.
LEMMA OkPasses ==
  ASSUME NEW c, NEW q, Verdict(c, q) = "ok"
  PROVE  /\ Required[q.op] \subseteq c.permissions
         /\ q.op \in {"initiate_file_upload", "complete_file_upload"} => c.agent = None
         /\ WithinAgent(c, q)
         /\ RequestPermissions(q) \subseteq c.permissions
         /\ ReplayScope(c, q) /\ Found(c, q)
BY DEF Verdict

\* A call that passes its checks stays within its token.
LEMMA OkWithin ==
  ASSUME NEW t \in Token, NEW q \in Request, Verdict(Context(t), q) = "ok",
         t.kind \in {"owner_session", "delegated_agent"}
  PROVE  WithinToken(t, q)
<1> DEFINE c == Context(t)
<1>1. /\ c.owner = t.owner /\ c.kind = t.kind /\ c.agent = t.agent
      /\ c.conv = t.conv /\ c.turn = t.turn
  BY DEF Context
<1>2. /\ t.kind = "delegated_agent" => c.permissions = {"agent:replay"}
      /\ t.kind = "owner_session" => c.permissions = t.permissions
  BY DEF Context
<1>3. /\ Required[q.op] \subseteq c.permissions
      /\ q.op \in {"initiate_file_upload", "complete_file_upload"} => c.agent = None
      /\ WithinAgent(c, q) /\ ReplayScope(c, q) /\ Found(c, q)
  BY OkPasses
<1> HIDE DEF c
<1>4. q.op \in DOMAIN Required
  BY RequestAssumption
<1>5. q.op # "agent_replay" => "agent:replay" \notin Required[q.op] /\ Required[q.op] # {}
  BY <1>4 DEF Required
<1>6. t.kind = "delegated_agent" => q.op = "agent_replay"
  BY <1>2, <1>3, <1>5
<1>7. q.op = "agent_replay" =>
        /\ t.kind = "delegated_agent" /\ q.conv = t.conv /\ q.turn = t.turn
        /\ TurnConv[q.turn] = q.conv /\ TurnAgent[q.turn] = t.agent
  BY <1>1, <1>3 DEF ReplayScope, Found
<1>8. q.conv # None => ConvOwner[q.conv] = t.owner
  BY <1>1, <1>3 DEF Found
<1>9. q.turn # None => ConvOwner[TurnConv[q.turn]] = t.owner
  <2>1. q.op \in {"get_turn", "update_turn"} => ConvOwner[TurnConv[q.turn]] = t.owner
    BY <1>1, <1>3 DEF Found
  <2>2. CASE q.op = "agent_replay"
    <3>1. q.turn # None
      BY <2>2, RequestAssumption
    <3>2. q.turn \in DOMAIN TurnConv
      BY <3>1, RequestAssumption
    <3>3. TurnConv[q.turn] # None
      BY <3>2, RowAssumption
    <3> QED
      BY <1>7, <1>8, <2>2, <3>3
  <2> QED
    BY <2>1, <2>2, RequestAssumption
<1>10. NamesFile(q) => q.file \in File /\ owners[q.file] \in {t.owner, "removed"}
  BY <1>1, <1>3 DEF Found, GetOwned
<1>11. q.op \in {"start_turn", "create_turn"} => t.agent \in {None, q.agent}
  BY <1>1, <1>3 DEF WithinAgent
<1>12. t.kind = "owner_session" => q.op # "agent_replay"
  BY <1>7
<1>13. q.op \in {"initiate_file_upload", "complete_file_upload"} => t.agent = None
  BY <1>1, <1>3
<1> QED
  BY <1>6, <1>7, <1>8, <1>9, <1>10, <1>11, <1>12, <1>13 DEF WithinToken

\* A call that passes its checks and is to make a URL may hand it out, and its
\* file is there.
LEMMA OkHandsOut ==
  ASSUME NEW t \in Token, NEW q \in Request, Verdict(Context(t), q) = "ok",
         t.kind \in {"owner_session", "delegated_agent"}, MakesUrl(q)
  PROVE  MayHandOut(t) /\ q.file \in File /\ owners[q.file] = t.owner
<1>1. /\ Required[q.op] \subseteq Context(t).permissions
      /\ RequestPermissions(q) \subseteq Context(t).permissions
      /\ Found(Context(t), q)
  BY OkPasses
<1>2. NamesFile(q)
  BY DEF MakesUrl, NamesFile
<1>3. q.file \in File /\ owners[q.file] = t.owner
  BY <1>1, <1>2 DEF Found, Context, GetOwned
<1>4. CASE q.op = "create_file_download"
  <2>1. "file:grant" \in Context(t).permissions
    BY <1>1, <1>4 DEF Required
  <2> QED
    BY <1>3, <2>1 DEF Context, MayHandOut
<1>5. CASE q.op = "replay"
  <2>1. q.delivery # "preserve"
    BY <1>5 DEF MakesUrl
  <2>2. "transcript:read" \in Context(t).permissions
    BY <1>1, <1>5 DEF Required
  <2>3. "file:read" \in Context(t).permissions
    BY <1>1, <1>5, <2>1 DEF RequestPermissions
  <2> QED
    BY <1>3, <2>2, <2>3 DEF Context, MayHandOut
<1> QED
  BY <1>4, <1>5 DEF MakesUrl

-----------------------------------------------------------------------------
(* Every step is one of these. *)

LEMMA RowsStay ==
  ASSUME TypeOK, UNCHANGED fileVars
  PROVE  RowsMove
BY DEF TypeOK, RowsMove, fileVars

LEMMA Allows ==
  ASSUME TypeOK, NEW c \in Client, job[c].step = "accepted", Allowed(c),
         NamesFile(job[c].request)
  PROVE  /\ job[c].request.file \in File
         /\ owners[job[c].request.file] = job[c].token.owner
<1>1. Found(Context(job[c].token), job[c].request)
  BY OkPasses DEF Allowed
<1> QED
  BY <1>1 DEF Found, Context, GetOwned

LEMMA CallSteps ==
  ASSUME TypeOK, NEW c \in Client, Call(c)
  PROVE  \/ \E a \in Asked : Reject(c, a[1], a[2]) \/ Accept(c, a[1], a[2])
         \/ AnswersNo(c) /\ RowsMove
         \/ AnswersYes(c) /\ RowsMove
         \/ LookUp(c) \/ MakesGrant(c) \/ MakesLink(c)
<1>0. job[c] \in Job
  BY DEF TypeOK
<1>1. CASE Refuse(c)
  <2> DEFINE v == Verdict(Context(job[c].token), job[c].request)
  <2>1. v \in Status \ {"ok", "unauthorized"}
    BY <1>1, VerdictStatus DEF Refuse, Allowed
  <2>2. Answers(c, v) /\ job[c].step = "accepted" /\ UNCHANGED <<serverVars, fileVars, urlVars>>
    BY <1>1 DEF Refuse, Doing
  <2> HIDE DEF v
  <2>3. AnswersNo(c)
    BY <2>1, <2>2 DEF Answers, AnswersNo, JobStep, Answer
  <2> QED
    BY <2>2, <2>3, RowsStay
<1>2. CASE Serve(c)
  <2>1. AnswersYes(c) /\ UNCHANGED fileVars
    BY <1>2 DEF Serve, Doing, Answers, AnswersYes, JobStep, Answer
  <2> QED
    BY <2>1, RowsStay
<1>3. ASSUME NEW f \in File, UploadFile(c, f)
      PROVE  AnswersYes(c) /\ RowsMove
  <2>1. AnswersYes(c)
    BY <1>3 DEF UploadFile, Doing, Answers, AnswersYes, JobStep, Answer
  <2>2. job[c].token.owner \in Owner
    BY <1>0, <1>3, CallShapes, TokenFields DEF UploadFile, Doing
  <2>3. /\ owners[f] = None /\ owners' = [owners EXCEPT ![f] = job[c].token.owner]
        /\ UNCHANGED removedAt
    BY <1>3 DEF UploadFile
  <2>4. RowsMove
    BY <2>2, <2>3 DEF RowsMove, TypeOK
  <2> QED
    BY <2>1, <2>4
<1>4. CASE DeleteFile(c)
  <2> DEFINE f == job[c].request.file
  <2>1. AnswersYes(c)
    BY <1>4 DEF DeleteFile, Doing, Answers, AnswersYes, JobStep, Answer
  <2>2. job[c].token.owner \in Owner
    BY <1>0, <1>4, CallShapes, TokenFields DEF DeleteFile, Doing
  <2>3. f \in File /\ owners[f] = job[c].token.owner
    BY <1>4, Allows DEF DeleteFile, Doing, NamesFile
  <2>4. /\ owners' = [owners EXCEPT ![f] = "removed"]
        /\ removedAt' = [removedAt EXCEPT ![f] = now]
    BY <1>4 DEF DeleteFile
  <2>5. owners \in [File -> Owner \cup {None, "removed"}] /\ removedAt \in [File -> Nat]
    BY DEF TypeOK
  <2>6. now \in Nat
    BY Numbers
  <2> HIDE DEF f
  <2>7. RowsMove
    BY <2>2, <2>3, <2>4, <2>5, <2>6 DEF RowsMove
  <2> QED
    BY <2>1, <2>7
<1>5. CASE DeleteReferenced(c)
  <2>1. "conflict" \in Status \ {"ok", "unauthorized"}
    BY DEF Status
  <2>2. AnswersNo(c) /\ UNCHANGED fileVars
    BY <1>5, <2>1 DEF DeleteReferenced, Doing, Answers, AnswersNo, JobStep, Answer
  <2> QED
    BY <2>2, RowsStay
<1>6. CASE CreateFileDownload(c)
  <2>1. job[c].request \in Request
    BY <1>0, <1>6, CallShapes DEF CreateFileDownload, Doing
  <2>2. job[c].request.delivery \in {"redirect", "proxy"}
    BY <1>6, <2>1, RequestAssumption DEF CreateFileDownload
  <2> QED
    BY <1>6, <2>2 DEF CreateFileDownload, Doing, FileUrl, Answers, MakesGrant, JobStep, Answer
<1>7. CASE ReplayGrant(c)
  BY <1>7 DEF ReplayGrant, Doing, FileUrl, Answers, MakesGrant, JobStep, Answer
<1>8. CASE ReplayLink(c)
  BY <1>8 DEF ReplayLink, Doing, PresignedGet, Answers, MakesLink, JobStep, Answer
<1> QED
  BY <1>1, <1>2, <1>3, <1>4, <1>5, <1>6, <1>7, <1>8 DEF Call

LEMMA QuietSteps ==
  ASSUME TypeOK,
         \/ (\E c \in Client : Fails(c) \/ ReadAnswer(c))
         \/ (\E kids \in SUBSET Kid : Publish(kids))
         \/ Start \/ Stop \/ UNCHANGED vars
  PROVE  Quiet
<1> USE DEF TypeOK
<1>1. ASSUME NEW c \in Client, Fails(c) \/ ReadAnswer(c)
      PROVE  Quiet
  <2>1. job' = [job EXCEPT ![c] = Idle]
    BY <1>1 DEF Fails, ReadAnswer, Becomes
  <2>2. job' = [d \in Client |-> IF d \in {c} THEN Idle ELSE job[d]]
    BY <2>1
  <2>3. UNCHANGED <<serverVars, fileVars, urlVars>>
    BY <1>1 DEF Fails, ReadAnswer
  <2> QED
    BY <2>2, <2>3 DEF Quiet, serverVars
<1>2. CASE Stop
  <2> DEFINE s == {c \in Client : job[c].step # "answered"}
  <2>1. job' = [c \in Client |-> IF c \in s THEN Idle ELSE job[c]]
    BY <1>2 DEF Stop
  <2>2. s \in SUBSET Client
    OBVIOUS
  <2> HIDE DEF s
  <2> QED
    BY <1>2, <2>1, <2>2 DEF Quiet, Stop
<1>3. ASSUME UNCHANGED job
      PROVE  \E stopped \in SUBSET Client :
               job' = [c \in Client |-> IF c \in stopped THEN Idle ELSE job[c]]
  <2>1. {} \in SUBSET Client
    OBVIOUS
  <2>2. job' = [c \in Client |-> job[c]]
    BY <1>3
  <2> WITNESS {} \in SUBSET Client
  <2> QED
    BY <2>2
<1>4. CASE (\E kids \in SUBSET Kid : Publish(kids)) \/ Start
  BY <1>3, <1>4 DEF Quiet, Publish, Start
<1>5. CASE UNCHANGED vars
  BY <1>3, <1>5 DEF Quiet, vars, fileVars, urlVars
<1> QED
  BY <1>1, <1>2, <1>4, <1>5

LEMMA Cases ==
  ASSUME TypeOK, [Next]_vars
  PROVE  \/ \E c \in Client :
              \/ \E a \in Asked : Reject(c, a[1], a[2]) \/ Accept(c, a[1], a[2])
              \/ AnswersNo(c) /\ RowsMove
              \/ AnswersYes(c) /\ RowsMove
              \/ LookUp(c) \/ MakesGrant(c) \/ MakesLink(c)
              \/ (\E g \in grants : Redeem(c, g)) \/ Locate(c) \/ Redirect(c)
         \/ Tick \/ Quiet
<1>1. ASSUME NEW c \in Client, Call(c)
      PROVE  \/ \E a \in Asked : Reject(c, a[1], a[2]) \/ Accept(c, a[1], a[2])
             \/ AnswersNo(c) /\ RowsMove
             \/ AnswersYes(c) /\ RowsMove
             \/ LookUp(c) \/ MakesGrant(c) \/ MakesLink(c)
  BY <1>1, CallSteps
<1> QED
  BY <1>1, QuietSteps DEF Next, DownloadFile

-----------------------------------------------------------------------------
(* The invariant. *)

\* A step in which time stands still, URLs stay and rows move one way.
Frame == UNCHANGED now /\ grants \subseteq grants' /\ RowsMove

LEMMA JobKept ==
  ASSUME TypeOK, Frame, NEW j \in Job, JobOK(j)
  PROVE  JobOK(j)'
<1>1. ASSUME j.step = "found" \/ (j.step = "answered" /\ j.status = "ok")
      PROVE  WithinToken(j.token, j.request)'
  <2>1. j.token \in Token
    BY <1>1, Shapes DEF FileFound, Answered
  <2>2. j.token.owner \in Owner
    BY <2>1, TokenFields
  <2>3. WithinToken(j.token, j.request)
    BY <1>1 DEF JobOK
  <2>4. ASSUME NamesFile(j.request)
        PROVE  owners'[j.request.file] \in {j.token.owner, "removed"}
    <3>1. /\ j.request.file \in File
          /\ owners[j.request.file] \in {j.token.owner, "removed"}
      BY <2>3, <2>4 DEF WithinToken
    <3> QED
      BY <2>2, <3>1, RowAssumption DEF Frame, RowsMove
  <2> QED
    BY <2>3, <2>4 DEF WithinToken
<1>2. ASSUME NEW f \in File, ThereAt(f, j.seen), j.seen <= now
      PROVE  ThereAt(f, j.seen)'
  BY <1>2, RowAssumption DEF ThereAt, Frame, RowsMove
<1>3. ASSUME j.step = "found"
      PROVE  /\ MakesUrl(j.request) /\ MayHandOut(j.token)
             /\ ThereAt(j.request.file, j.seen)'
  <2>1. /\ MakesUrl(j.request) /\ MayHandOut(j.token) /\ j.seen <= now
        /\ ThereAt(j.request.file, j.seen) /\ WithinToken(j.token, j.request)
    BY <1>3 DEF JobOK
  <2>2. j.request.file \in File
    BY <2>1 DEF MakesUrl, NamesFile, WithinToken
  <2> QED
    BY <1>2, <2>1, <2>2
<1>4. ASSUME j.step = "located"
      PROVE  ThereAt(j.grant.file, j.seen)'
  <2>1. j.seen <= now /\ ThereAt(j.grant.file, j.seen)
    BY <1>4 DEF JobOK
  <2>2. j.grant.file \in File
    BY <1>4, Shapes DEF Download, Grant
  <2> QED
    BY <1>2, <2>1, <2>2
<1>5. j.step \in {"verified", "located"} =>
        j.grant \in grants' /\ j.seen <= j.grant.expires
  BY DEF JobOK, Frame
<1>6. j.step \in {"found", "verified", "located"} =>
        j.seen <= now' /\ now' <= j.seen + Pause
  BY DEF JobOK, Frame
<1>7. /\ j.step \in {"accepted", "found"} =>
           j.token.kind \in {"owner_session", "delegated_agent"}
      /\ \/ j.step \in {"accepted", "found"}
         \/ j.step = "answered" /\ j.status # "unauthorized"
         => InWindow(j.token, j.at)
  BY DEF JobOK
<1> QED
  BY <1>1, <1>3, <1>4, <1>5, <1>6, <1>7 DEF JobOK, InWindow, MakesUrl, MayHandOut

LEMMA OneJob ==
  ASSUME TypeOK, Jobs, Frame, NEW c \in Client, NEW j \in Job, Becomes(c, j),
         JobOK(j)'
  PROVE  Jobs' /\ job' \in [Client -> Job]
<1>1. job \in [Client -> Job] /\ job' = [job EXCEPT ![c] = j]
  BY DEF TypeOK, Becomes
<1>2. ASSUME NEW d \in Client
      PROVE  JobOK(job[d])'
  <2>1. CASE d = c
    <3>1. job'[d] = j
      BY <1>1, <2>1
    <3> QED
      BY <3>1
  <2>2. CASE d # c
    <3>1. PICK i \in Job : i = job[d]
      BY <1>1
    <3>2. JobOK(i)
      BY <3>1 DEF Jobs
    <3>3. JobOK(i)' /\ i = job'[d]
      BY <1>1, <2>2, <3>1, <3>2, JobKept
    <3> QED
      BY <3>3
  <2> QED
    BY <2>1, <2>2
<1> QED
  BY <1>1, <1>2 DEF Jobs

LEMMA UrlsKept ==
  ASSUME TypeOK, UrlsOK, UNCHANGED <<now, urlVars>>, RowsMove
  PROVE  UrlsOK'
<1> USE Numbers DEF urlVars
<1>1. ASSUME NEW g \in grants
      PROVE  owners'[g.file] \in {g.owner, "removed"}
  BY RowAssumption DEF TypeOK, Grant, UrlsOK, GrantsAuthorized, RowsMove
<1>2. GrantsAuthorized'
  BY <1>1 DEF UrlsOK, GrantsAuthorized, MayHandOut
<1>3. ASSUME NEW f \in File, owners'[f] = "removed"
      PROVE  /\ \A g \in grants : g.file = f => g.expires <= removedAt'[f] + CapabilityTTL + Pause
             /\ \A k \in links : k.file = f => k.until <= removedAt'[f] + CapabilityTTL + Pause
  <2>1. "removed" \notin Owner
    BY RowAssumption
  <2>2. CASE owners[f] = "removed" /\ removedAt'[f] = removedAt[f]
    BY <2>2 DEF UrlsOK, RemovedFileClosed
  <2>3. CASE removedAt'[f] = now
    BY <2>3 DEF UrlsOK, UrlsDated, TypeOK, Grant, Link
  <2> QED
    BY <1>3, <2>1, <2>2, <2>3 DEF RowsMove
<1>4. RemovedFileClosed'
  BY <1>3 DEF RemovedFileClosed
<1>5. UrlsDated' /\ LinksBounded'
  BY DEF UrlsOK, UrlsDated, LinksBounded
<1> QED
  BY <1>2, <1>4, <1>5 DEF UrlsOK

\* A grant for a file that was there at "since", a pause ago at most.
LEMMA NewGrant ==
  ASSUME TypeOK, UrlsOK, NEW g \in Grant, NEW since \in Nat,
         UNCHANGED <<now, fileVars, links>>, grants' = grants \cup {g},
         g.by.owner = g.owner, owners[g.file] \in {g.owner, "removed"},
         MayHandOut(g.by), g.expires = now + CapabilityTTL,
         ThereAt(g.file, since), now <= since + Pause
  PROVE  UrlsOK' /\ grants' \in SUBSET Grant
<1> USE Numbers DEF fileVars
<1>1. GrantsAuthorized'
  BY DEF UrlsOK, GrantsAuthorized, MayHandOut
<1>2. UrlsDated' /\ LinksBounded'
  BY DEF UrlsOK, UrlsDated, LinksBounded
<1>3. owners[g.file] = "removed" => g.expires <= removedAt[g.file] + CapabilityTTL + Pause
  <2>1. removedAt[g.file] \in Nat
    BY DEF TypeOK, Grant
  <2> QED
    BY <2>1 DEF ThereAt
<1>4. RemovedFileClosed'
  BY <1>3 DEF UrlsOK, RemovedFileClosed
<1> QED
  BY <1>1, <1>2, <1>4 DEF UrlsOK, TypeOK

LEMMA NewLink ==
  ASSUME TypeOK, UrlsOK, NEW k \in Link, NEW since \in Nat,
         UNCHANGED <<now, fileVars, grants>>, links' = links \cup {k},
         k.until = now + CapabilityTTL,
         k.until <= k.since + 2 * CapabilityTTL + Pause,
         ThereAt(k.file, since), now <= since + Pause
  PROVE  UrlsOK' /\ links' \in SUBSET Link
<1> USE Numbers DEF fileVars
<1>1. GrantsAuthorized'
  BY DEF UrlsOK, GrantsAuthorized, MayHandOut
<1>2. UrlsDated' /\ LinksBounded'
  BY DEF UrlsOK, UrlsDated, LinksBounded
<1>3. owners[k.file] = "removed" => k.until <= removedAt[k.file] + CapabilityTTL + Pause
  <2>1. removedAt[k.file] \in Nat
    BY DEF TypeOK, Link
  <2> QED
    BY <2>1 DEF ThereAt
<1>4. RemovedFileClosed'
  BY <1>3 DEF UrlsOK, RemovedFileClosed
<1> QED
  BY <1>1, <1>2, <1>4 DEF UrlsOK, TypeOK

LEMMA Framed ==
  ASSUME TypeOK, UNCHANGED <<serverVars, fileVars>>, grants \subseteq grants'
  PROVE  Frame
BY RowsStay DEF Frame, serverVars

LEMMA CallStep ==
  ASSUME IInv, NEW c \in Client, NEW t \in Token, NEW q \in Request,
         Reject(c, t, q) \/ Accept(c, t, q)
  PROVE  IInv'
<1> USE DEF IInv
<1>1. now \in Nat /\ Frame /\ UNCHANGED <<serverVars, fileVars, urlVars>>
  BY Numbers, Framed DEF Reject, Accept, urlVars
<1>2. CASE Reject(c, t, q)
  <2> DEFINE j == [step |-> "answered", token |-> t, request |-> q, at |-> now,
                   status |-> "unauthorized"]
  <2>1. PICK i : i = j
    OBVIOUS
  <2>2. i \in Job /\ Becomes(c, i)
    BY <1>1, <1>2, <2>1 DEF Job, Answered, Status, Reject
  <2>3. JobOK(i)'
    BY <2>1 DEF JobOK
  <2> QED
    BY <1>1, <2>2, <2>3, OneJob, UrlsKept DEF TypeOK, serverVars, fileVars, urlVars, Frame
<1>3. CASE Accept(c, t, q)
  <2> DEFINE j == [step |-> "accepted", token |-> t, request |-> q, at |-> now]
  <2>1. PICK i : i = j
    OBVIOUS
  <2>2. i \in Job /\ Becomes(c, i)
    BY <1>1, <1>3, <2>1 DEF Job, Accepted, Accept
  <2>3. Timely(t) /\ Valid(t)
    BY <1>3 DEF Accept, Authentic
  <2>4. now <= t.exp + Skew /\ t.iat <= now + Skew /\ t.exp - t.iat <= MaxSeconds(t)
    BY <2>3 DEF Timely, Valid
  <2>5. t.kind \in {"owner_session", "delegated_agent"}
    BY <2>3 DEF Valid
  <2>6. InWindow(t, now)
    <3>1. t.iat - Skew <= now
      BY <2>4, Numbers, TokenFields
    <3>2. /\ t.kind = "owner_session" => now <= t.iat + MaxOwner + Skew
          /\ t.kind = "delegated_agent" => now <= t.iat + MaxDelegated + Skew
      BY <2>4, Numbers, TokenFields DEF MaxSeconds
    <3> QED
      BY <2>4, <3>1, <3>2 DEF InWindow
  <2>7. JobOK(i)'
    BY <2>1, <2>5, <2>6 DEF JobOK, InWindow
  <2> QED
    BY <1>1, <2>2, <2>7, OneJob, UrlsKept DEF TypeOK, serverVars, fileVars, urlVars, Frame
<1> QED
  BY <1>2, <1>3

LEMMA AnswerStep ==
  ASSUME IInv, NEW c \in Client, AnswersNo(c) \/ AnswersYes(c), RowsMove
  PROVE  IInv'
<1> USE DEF IInv
<1>1. UNCHANGED <<serverVars, urlVars>> /\ Frame /\ job[c].step = "accepted"
  BY DEF AnswersNo, AnswersYes, JobStep, Frame, serverVars, urlVars
<1>2. PICK s \in Status \ {"unauthorized"} :
        Becomes(c, Answer(c, s)) /\ (s = "ok" => Allowed(c))
  <2>1. "ok" \in Status \ {"unauthorized"}
    BY DEF Status
  <2> QED
    BY <2>1 DEF AnswersNo, AnswersYes, JobStep
<1>3. PICK k \in Job : k = job[c]
  BY DEF TypeOK
<1>4. k \in Accepted /\ k.step = "accepted"
  BY <1>1, <1>3, Shapes
<1>5. k.token.kind \in {"owner_session", "delegated_agent"} /\ InWindow(k.token, k.at)
  BY <1>3, <1>4 DEF Jobs, JobOK
<1>6. PICK j : j = Answer(c, s)
  OBVIOUS
<1>7. j = [step |-> "answered", token |-> k.token, request |-> k.request,
           at |-> k.at, status |-> s]
  BY <1>3, <1>6 DEF Answer
<1>8. j \in Job
  BY <1>4, <1>7 DEF Job, Answered, Accepted
<1>9. s = "ok" => WithinToken(k.token, k.request)
  BY <1>2, <1>3, <1>4, <1>5, OkWithin DEF Allowed, Accepted
<1>10. JobOK(j)
  BY <1>5, <1>7, <1>9 DEF JobOK
<1>11. JobOK(j)'
  BY <1>1, <1>8, <1>10, JobKept
<1> QED
  BY <1>1, <1>2, <1>6, <1>8, <1>11, OneJob, UrlsKept
     DEF TypeOK, serverVars, urlVars, RowsMove, Frame

LEMMA LookUpStep ==
  ASSUME IInv, NEW c \in Client, LookUp(c)
  PROVE  IInv'
<1> USE DEF IInv
<1>1. UNCHANGED <<serverVars, fileVars, urlVars>> /\ Frame
  BY Framed DEF LookUp, urlVars
<1>2. PICK k \in Job : k = job[c]
  BY DEF TypeOK
<1>3. k \in Accepted /\ k.step = "accepted"
  BY <1>2, Shapes DEF LookUp, Doing
<1>4. k.token.kind \in {"owner_session", "delegated_agent"} /\ InWindow(k.token, k.at)
  BY <1>2, <1>3 DEF Jobs, JobOK
<1>5. PICK j : j = [step |-> "found", token |-> k.token, request |-> k.request,
                    at |-> k.at, seen |-> now]
  OBVIOUS
<1>6. j \in Job /\ Becomes(c, j)
  BY <1>2, <1>3, <1>5, Numbers DEF Job, FileFound, Accepted, LookUp
<1>7. Verdict(Context(k.token), k.request) = "ok" /\ MakesUrl(k.request)
  BY <1>2 DEF LookUp, Allowed
<1>8. WithinToken(k.token, k.request)
  BY <1>3, <1>4, <1>7, OkWithin DEF Accepted
<1>9. MayHandOut(k.token) /\ owners[k.request.file] = k.token.owner
  BY <1>3, <1>4, <1>7, OkHandsOut DEF Accepted
<1>10. owners[k.request.file] # "removed"
  BY <1>3, <1>9, TokenFields, RowAssumption DEF Accepted
<1>11. JobOK(j)
  BY <1>4, <1>5, <1>7, <1>8, <1>9, <1>10, Numbers DEF JobOK, ThereAt
<1>12. JobOK(j)'
  BY <1>1, <1>6, <1>11, JobKept
<1> QED
  BY <1>1, <1>6, <1>12, OneJob, UrlsKept DEF TypeOK, serverVars, fileVars, urlVars, Frame

\* What a call with a found file has behind it, and its answer.
LEMMA FoundAnswer ==
  ASSUME IInv, NEW c \in Client, job[c].step = "found", NEW k \in Job, k = job[c],
         JobStep(c, Answer(c, "ok")), UNCHANGED fileVars, grants \subseteq grants'
  PROVE  /\ k.token \in Token /\ k.request.file \in File /\ k.seen \in Nat
         /\ MayHandOut(k.token) /\ ThereAt(k.request.file, k.seen)
         /\ owners[k.request.file] \in {k.token.owner, "removed"}
         /\ k.seen <= now /\ now <= k.seen + Pause
         /\ Jobs' /\ job' \in [Client -> Job]
<1> USE DEF IInv
<1>1. k \in FileFound /\ JobOK(k) /\ k.step = "found"
  BY Shapes DEF Jobs
<1>2. /\ MakesUrl(k.request) /\ MayHandOut(k.token)
      /\ ThereAt(k.request.file, k.seen) /\ WithinToken(k.token, k.request)
      /\ InWindow(k.token, k.at) /\ k.seen <= now /\ now <= k.seen + Pause
  BY <1>1 DEF JobOK
<1>3. k.request.file \in File /\ owners[k.request.file] \in {k.token.owner, "removed"}
  BY <1>2 DEF WithinToken, MakesUrl, NamesFile
<1>4. PICK j : j = [step |-> "answered", token |-> k.token, request |-> k.request,
                    at |-> k.at, status |-> "ok"]
  OBVIOUS
<1>5. j \in Job /\ Becomes(c, j)
  BY <1>1, <1>4 DEF Job, Answered, FileFound, Status, JobStep, Answer
<1>6. JobOK(j)
  BY <1>2, <1>4 DEF JobOK
<1>7. Frame
  BY Framed DEF JobStep
<1>8. JobOK(j)'
  BY <1>5, <1>6, <1>7, JobKept
<1>9. k.token \in Token /\ k.seen \in Nat
  BY <1>1 DEF FileFound
<1> QED
  BY <1>2, <1>3, <1>5, <1>7, <1>8, <1>9, OneJob

LEMMA MakeStep ==
  ASSUME IInv, NEW c \in Client, MakesGrant(c) \/ MakesLink(c)
  PROVE  IInv'
<1> USE DEF IInv
<1>1. PICK k \in Job : k = job[c]
  BY DEF TypeOK
<1>2. /\ job[c].step = "found" /\ JobStep(c, Answer(c, "ok"))
      /\ UNCHANGED <<serverVars, fileVars>> /\ grants \subseteq grants'
  BY DEF MakesGrant, MakesLink, JobStep
<1>3. /\ k.token \in Token /\ k.request.file \in File /\ k.seen \in Nat
      /\ MayHandOut(k.token) /\ ThereAt(k.request.file, k.seen)
      /\ owners[k.request.file] \in {k.token.owner, "removed"}
      /\ now <= k.seen + Pause
      /\ Jobs' /\ job' \in [Client -> Job]
  BY <1>1, <1>2, FoundAnswer
<1>4. CASE MakesGrant(c)
  <2>1. PICK d \in {"redirect", "proxy"} :
          grants' = grants \cup
            {[file |-> k.request.file, owner |-> k.token.owner, delivery |-> d,
              expires |-> now + CapabilityTTL, by |-> k.token]}
    BY <1>1, <1>4 DEF MakesGrant
  <2>2. PICK g : g = [file |-> k.request.file, owner |-> k.token.owner, delivery |-> d,
                      expires |-> now + CapabilityTTL, by |-> k.token]
    OBVIOUS
  <2>3. k.token.owner \in Owner /\ now + CapabilityTTL \in Nat
    BY <1>3, TokenFields, Numbers
  <2>4. g \in Grant
    BY <1>3, <2>2, <2>3 DEF Grant
  <2>5. UNCHANGED <<now, fileVars, links>> /\ grants' = grants \cup {g}
    BY <1>2, <1>4, <2>1, <2>2 DEF MakesGrant, serverVars
  <2>6. UrlsOK' /\ grants' \in SUBSET Grant
    BY <1>3, <2>2, <2>4, <2>5, NewGrant
  <2> QED
    BY <1>2, <1>3, <2>5, <2>6 DEF TypeOK, serverVars, fileVars
<1>5. CASE MakesLink(c)
  <2>1. PICK l : l = [file |-> k.request.file, since |-> now, until |-> now + CapabilityTTL]
    OBVIOUS
  <2>2. l \in Link
    BY <1>3, <2>1, Numbers DEF Link
  <2>3. UNCHANGED <<now, fileVars, grants>> /\ links' = links \cup {l}
    BY <1>1, <1>2, <1>5, <2>1 DEF MakesLink, serverVars
  <2>4. l.until <= l.since + 2 * CapabilityTTL + Pause
    BY <2>1, Numbers
  <2>5. UrlsOK' /\ links' \in SUBSET Link
    BY <1>3, <2>1, <2>2, <2>3, <2>4, NewLink
  <2> QED
    BY <1>2, <1>3, <2>3, <2>5 DEF TypeOK, serverVars, fileVars
<1> QED
  BY <1>4, <1>5

LEMMA DownloadStep ==
  ASSUME IInv, NEW c \in Client, (\E g \in grants : Redeem(c, g)) \/ Locate(c)
  PROVE  IInv'
<1> USE DEF IInv
<1>1. UNCHANGED <<serverVars, fileVars, urlVars>> /\ Frame
  BY Framed DEF Redeem, Locate, urlVars
<1>2. ASSUME NEW g \in grants, Redeem(c, g)
      PROVE  \E j \in Job : Becomes(c, j) /\ JobOK(j)
  <2>1. PICK j : j = [step |-> "verified", grant |-> g, seen |-> now]
    OBVIOUS
  <2>2. g \in Grant
    BY DEF TypeOK
  <2>3. j \in Job /\ Becomes(c, j)
    BY <1>2, <2>1, <2>2, Numbers DEF Redeem, Job, Download
  <2>4. g.expires >= now /\ g.expires \in Nat
    BY <1>2, <2>2 DEF Redeem, VerifyFile, Grant
  <2>5. JobOK(j)
    BY <2>1, <2>4, Numbers DEF JobOK
  <2> QED
    BY <2>3, <2>5
<1>3. ASSUME Locate(c)
      PROVE  \E j \in Job : Becomes(c, j) /\ JobOK(j)
  <2>1. PICK k \in Job : k = job[c]
    BY DEF TypeOK
  <2>2. k \in Download /\ k.step = "verified" /\ JobOK(k)
    BY <1>3, <2>1, Shapes DEF Locate, Doing, Jobs
  <2>3. PICK j : j = [k EXCEPT !.step = "located"]
    OBVIOUS
  <2>4. j = [step |-> "located", grant |-> k.grant, seen |-> k.seen]
    BY <2>2, <2>3 DEF Download
  <2>5. j \in Job /\ Becomes(c, j)
    BY <1>3, <2>1, <2>2, <2>3, <2>4 DEF Locate, Job, Download
  <2>6. owners[k.grant.file] = k.grant.owner /\ k.grant.owner \in Owner
    BY <1>3, <2>1, <2>2 DEF Locate, GetOwned, Download, Grant
  <2>7. owners[k.grant.file] # "removed"
    BY <2>6, RowAssumption
  <2>8. JobOK(j)
    BY <2>2, <2>4, <2>7 DEF JobOK, ThereAt
  <2> QED
    BY <2>5, <2>8
<1>4. PICK j \in Job : Becomes(c, j) /\ JobOK(j)
  BY <1>2, <1>3
<1>5. JobOK(j)'
  BY <1>1, <1>4, JobKept
<1> QED
  BY <1>1, <1>4, <1>5, OneJob, UrlsKept DEF TypeOK, serverVars, fileVars, urlVars, Frame

LEMMA IdleOK == JobOK(Idle) /\ JobOK(Idle)' /\ Idle \in Job
BY DEF JobOK, Idle, Job

LEMMA RedirectStep ==
  ASSUME IInv, NEW c \in Client, Redirect(c)
  PROVE  IInv'
<1> USE DEF IInv
<1>1. PICK k \in Job : k = job[c]
  BY DEF TypeOK
<1>2. k \in Download /\ k.step = "located" /\ JobOK(k)
  BY <1>1, Shapes DEF Redirect, Doing, Jobs
<1>3. /\ k.grant \in grants /\ k.seen <= k.grant.expires
      /\ ThereAt(k.grant.file, k.seen) /\ now <= k.seen + Pause
  BY <1>2 DEF JobOK
<1>4. k.grant.file \in File /\ k.grant.expires \in Nat /\ k.seen \in Nat
  BY <1>2 DEF Download, Grant
<1>5. k.grant.expires >= CapabilityTTL
  BY <1>3, <1>4, Numbers DEF UrlsOK, UrlsDated
<1>6. PICK l : l = [file |-> k.grant.file, since |-> k.grant.expires - CapabilityTTL,
                    until |-> now + CapabilityTTL]
  OBVIOUS
<1>7. l \in Link
  BY <1>4, <1>5, <1>6, Numbers DEF Link
<1>8. /\ links' = links \cup {l} /\ UNCHANGED <<now, fileVars, grants, serverVars>>
      /\ Becomes(c, Idle)
  BY <1>1, <1>6 DEF Redirect, PresignedGet, serverVars
<1>9. l.until <= l.since + 2 * CapabilityTTL + Pause
  BY <1>3, <1>4, <1>6, Numbers
<1>10. UrlsOK' /\ links' \in SUBSET Link
  BY <1>3, <1>4, <1>6, <1>7, <1>8, <1>9, NewLink
<1>11. Jobs' /\ job' \in [Client -> Job]
  BY <1>8, Framed, IdleOK, OneJob
<1> QED
  BY <1>8, <1>10, <1>11 DEF TypeOK, serverVars, fileVars

LEMMA TickStep ==
  ASSUME IInv, Tick
  PROVE  IInv'
<1> USE DEF IInv
<1>1. now' = now + 1 /\ UNCHANGED <<published, keys, up, fileVars, urlVars, job>>
  BY DEF Tick
<1>2. now \in Nat /\ now' \in 0..MaxTime
  BY <1>1, Numbers DEF Tick, TypeOK
<1>3. ASSUME NEW c \in Client
      PROVE  JobOK(job[c])'
  <2>1. PICK j \in Job : j = job[c]
    BY DEF TypeOK
  <2>2. JobOK(j) /\ (j.step \in {"found", "verified", "located"} => now < j.seen + Pause)
    BY <2>1 DEF Jobs, Tick
  <2>3. j.step \in {"found", "verified", "located"} => j.seen \in Nat
    BY Shapes DEF FileFound, Download
  <2>4. j.step \in {"found", "verified", "located"} =>
          j.seen <= now' /\ now' <= j.seen + Pause
    BY <1>1, <1>2, <2>2, <2>3, Numbers DEF JobOK
  <2>5. JobOK(j)'
    BY <1>1, <2>2, <2>4
       DEF JobOK, fileVars, urlVars, ThereAt, WithinToken, InWindow, MakesUrl,
           MayHandOut, NamesFile
  <2>6. j = job'[c]
    BY <1>1, <2>1
  <2> QED
    BY <2>5, <2>6
<1>4. Jobs'
  BY <1>1, <1>3 DEF Jobs
<1>5. UrlsOK'
  <2>1. UrlsDated'
    <3>1. ASSUME NEW g \in grants
          PROVE  g.expires <= now' + CapabilityTTL
      BY <1>1, <1>2, Numbers DEF UrlsOK, UrlsDated, TypeOK, Grant
    <3>2. ASSUME NEW k \in links
          PROVE  k.until <= now' + CapabilityTTL
      BY <1>1, <1>2, Numbers DEF UrlsOK, UrlsDated, TypeOK, Link
    <3> QED
      BY <1>1, <3>1, <3>2 DEF UrlsOK, UrlsDated, urlVars
  <2>2. GrantsAuthorized' /\ LinksBounded' /\ RemovedFileClosed'
    BY <1>1 DEF UrlsOK, GrantsAuthorized, MayHandOut, LinksBounded, RemovedFileClosed,
                fileVars, urlVars
  <2> QED
    BY <2>1, <2>2 DEF UrlsOK
<1> QED
  BY <1>1, <1>2, <1>4, <1>5 DEF TypeOK, fileVars, urlVars

LEMMA QuietStep ==
  ASSUME IInv, Quiet
  PROVE  IInv'
<1> USE DEF IInv
<1>1. RowsMove /\ Frame
  BY RowsStay DEF Quiet, Frame, urlVars
<1>2. PICK stopped \in SUBSET Client :
        job' = [c \in Client |-> IF c \in stopped THEN Idle ELSE job[c]]
  BY DEF Quiet
<1>3. ASSUME NEW c \in Client
      PROVE  job'[c] \in Job /\ JobOK(job[c])'
  <2>1. PICK j \in Job : j = job[c]
    BY DEF TypeOK
  <2>2. JobOK(j)
    BY <2>1 DEF Jobs
  <2>3. JobOK(j)'
    BY <1>1, <2>2, JobKept
  <2>4. job'[c] \in {j, Idle}
    BY <1>2, <2>1
  <2> QED
    BY <2>3, <2>4, IdleOK
<1>4. Jobs' /\ job' \in [Client -> Job]
  BY <1>2, <1>3 DEF Jobs
<1>5. UrlsOK'
  BY <1>1, UrlsKept DEF Quiet
<1> QED
  BY <1>4, <1>5 DEF Quiet, TypeOK, fileVars, urlVars

LEMMA InvInit == Init => IInv
<1> SUFFICES ASSUME Init PROVE IInv
  OBVIOUS
<1>1. now \in 0..MaxTime
  BY TimeAssumption DEF Init
<1>2. TypeOK
  BY <1>1, IdleOK DEF Init, TypeOK
<1>3. Jobs
  BY IdleOK DEF Init, Jobs
<1>4. UrlsOK
  BY RowAssumption DEF Init, UrlsOK, GrantsAuthorized, UrlsDated, LinksBounded, RemovedFileClosed
<1> QED
  BY <1>2, <1>3, <1>4 DEF IInv

LEMMA InvStep == IInv /\ [Next]_vars => IInv'
<1> SUFFICES ASSUME IInv, [Next]_vars PROVE IInv'
  OBVIOUS
<1>1. ASSUME NEW c \in Client, NEW a \in Asked,
             Reject(c, a[1], a[2]) \/ Accept(c, a[1], a[2])
      PROVE  IInv'
  <2>1. a[1] \in Token /\ a[2] \in Request
    BY AskedAssumption
  <2> QED
    BY <1>1, <2>1, CallStep
<1> QED
  BY <1>1, AnswerStep, LookUpStep, MakeStep, DownloadStep, RedirectStep, TickStep,
     QuietStep, Cases DEF IInv

LEMMA Inductive == Spec => []IInv
BY InvInit, InvStep, PTL DEF Spec

\* Every variable keeps its type, whatever tokens and requests there are.
THEOREM TypeCorrect == Spec => []TypeOK
<1>1. IInv => TypeOK
  BY DEF IInv
<1> QED
  BY <1>1, Inductive, PTL

\* Service-authorization RFC, lines 76-78: a call that is answered stays with
\* the rows of its token's owner, makes turns for no other agent, and with a
\* delegated token replays that token's turn.
THEOREM CallsConfined == Spec => []AnsweredWithinToken
<1>1. IInv => AnsweredWithinToken
  BY DEF IInv, Jobs, JobOK, AnsweredWithinToken
<1> QED
  BY <1>1, Inductive, PTL

\* A token is accepted from its iat and through its exp and the longest life
\* of its kind, with the leeway on either side (auth.rs 222-257).
THEOREM TokensExpire == Spec => []AcceptedWindow
<1>1. IInv => AcceptedWindow
  BY DEF IInv, Jobs, JobOK, AcceptedWindow
<1> QED
  BY <1>1, Inductive, PTL

\* RFC, lines 287-289 and 303-305: every download URL was made for a caller
\* that may hand out its own file.
THEOREM GrantsSafe == Spec => []GrantsAuthorized
<1>1. IInv => GrantsAuthorized
  BY DEF IInv, UrlsOK
<1> QED
  BY <1>1, Inductive, PTL

\* A link ends two lifetimes and a pause after the client was given what it
\* comes from.
THEOREM LinksSafe == Spec => []LinksBounded
<1>1. IInv => LinksBounded
  BY DEF IInv, UrlsOK
<1> QED
  BY <1>1, Inductive, PTL

\* RFC, lines 321-322: all that leads to a removed file ends a lifetime and a
\* pause after its removal, though a lookup may have come before it.
THEOREM RemovedFilesClosed == Spec => []RemovedFileClosed
<1>1. IInv => RemovedFileClosed
  BY DEF IInv, UrlsOK
<1> QED
  BY <1>1, Inductive, PTL
=============================================================================
