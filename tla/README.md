# Threadmark: a verification development

Threadmark (`src/`) is a Rust service that keeps conversation ledgers for agent
applications: conversations, their items and turns, idempotent turn starts, and
files in an S3 bucket. This directory holds TLA+ models of it, the TLC runs that
check them and TLAPS proofs about them. Paths are relative to the directory that
holds `src/` and `tla/`.

## The system

| Part | State | Operations | Interaction |
|---|---|---|---|
| Conversation ledger (`src/src/store.rs`, `src/migrations/0001`, `0003`–`0006`) | rows `conversations`, `conversation_items`, `conversation_item_files`, `turns`, `turn_file_snapshots`, `append_batches`, `turn_starts`, `turn_start_items`, `continuations` | create, update, delete conversation; start, create, update turn; append items; truncate; regenerate; create continuation; reads | transactions on one Postgres; most lock the conversation row first; refers to `files` rows |
| Files (`src/src/files.rs`, `0002`, `0005`) | rows `files`, `file_deletion_outbox`; objects in S3 | save, read, remove, clean up deletions | database statements and S3 calls alternate; the outbox is emptied by the remover and by a task every 60 s |
| Direct uploads (`src/src/uploads.rs`, `0007`) | rows `file_uploads` (status, lease, candidate key), `object_deletion_outbox`; staged and candidate objects | initiate, complete, expire and sweep | leases, deadlines, concurrent completions, a browser that posts to S3 with a signed form |
| Replays (`store.rs` 190–207, 793–1133) | none | owner replay and its hydration of file references, item pages, agent replay | read the ledger and the rows of files, in several statements |
| Strict JSON (`src/src/model.rs`) | none | deserialisers, number scanner | every request body |
| Authentication (`src/src/auth.rs`), capabilities (`src/src/capability.rs`) | the key set read at start-up | authenticate, permission and scope checks, make and verify download URLs | every request |
| HTTP layer (`src/src/api.rs`, `src/src/error.rs`) | none | routing, checks, response shapes | calls everything above |
| Object store client (`src/src/object_store.rs`) | none | put, head, copy, list versions in pages, delete, sign | called by files and uploads |
| Configuration, start-up (`src/src/config.rs`, `src/src/main.rs`) | none | read environment, migrate, clean up, serve, stop | start; spawns the task that cleans up |

What is hard here: transactions of several servers that interleave wherever they
hold no common lock; requests retried after a lost answer; sequence numbers that
are used again after a truncation; database commits and S3 calls that cannot be
made one step; leases and deadlines; crashes between any two of them; readers that
take several statements; listings that are read in pages while others delete; tokens,
URLs and links that outlive what they were made for.

### What makes each part correct

- **Ledger.** One active turn per conversation. A number of a conversation names
  one item, and `next_seq` is past all of them. A turn start runs once for its
  key and always answers the same, or says its result is deleted. An append retry
  reads back only its own items. A continuation stands for a transcript that has
  not changed. A file that is referred to has its row. The context an agent
  replay returns for a turn gains nothing, and loses nothing but output of turns
  that it began before and committed after (`Overtakes`).
- **Files.** A row has its object. A removed file loses its object, whatever fails
  on the way, and no object of an answered save is lost track of.
- **Direct uploads.** A session makes at most one file and makes it in the step
  that completes it. Committed content is never deleted by a cleanup. A lease is
  respected. A staging key is cleaned after its last form. Sessions end, and no
  object is left over.
- **Ledger transactions.** What they commit, however their statements interleave,
  stop or are retried, is what the ledger's operations do one after the other. Nobody
  waits for himself, and no constraint of the schema answers in place of a check but
  in three named cases.
- **Replays.** A client that follows a conversation misses nothing. An agent is
  answered its whole context, and the same one each time.
- **Access.** An answer stays within what its token was signed for and within the
  token's life; what it hands out (URLs, links) ends, and ends with its file.
- **Passes.** A deletion row goes only when its key is empty, and a file that cannot
  be deleted holds up nothing else.
- **Strict JSON.** What is hashed and stored is what was sent, and two spellings of
  one request are one request, where serde_json reads floats to the nearest.

## Modules

| Module | Models | Extends |
|---|---|---|
| `Ledger` | the ledger for one (tenant, owner), one step per transaction | |
| `LedgerTx` | the same operations, one step per statement and lock | `Ledger` |
| `OwnerReplay`, `AgentReplay` | readers of several statements next to every writer | `Ledger` |
| `FileRows` | `files` rows, objects, removal and `file_deletion_outbox` | |
| `Files` | `files::save` and its failures | `FileRows` |
| `Uploads` | direct uploads: sessions, attempts, leases, forms, passes | `FileRows` |
| `UploadContract` | what a client may rely on: sessions and their files | |
| `FileReferences` | the table `files` and all who use it: `Files` and `Uploads` next to the transcripts | `Ledger` |
| `Sweep` | start-up, clean-up passes and the version listing below them | |
| `DeletionContract` | what the deletion outboxes promise | |
| `Access` | tokens, the checks of every handler, download URLs and links | |
| `StrictJson` | how the body of a turn start is scanned and visited | |
| `LedgerProofs`, `FilesProofs`, `UploadsProofs`, `SweepProofs`, `AccessProofs`, `StrictJsonProofs` | theorems and proofs | the module they are about, `TLAPS` |
| `LedgerTxProofs` | the same for `LedgerTx` | `LedgerTx`, `LedgerProofs` |
| `ReplayProofs` | the same for `OwnerReplay`, `AgentReplay` and `FileReferences` | these, `LedgerTxProofs` |
| `MC...` | values of the constants and scopes of the instances | the modules they are about |

The models that interact share a module: `LedgerTx`, `OwnerReplay` and `AgentReplay`
run their own steps over the tables of `Ledger`, and `Files` and `Uploads` over those
of `FileRows`. `FileReferences` composes `Ledger`, `Files` and `Uploads`. Three
refinements are checked and proved: `LedgerTx` implements `Ledger` (`LedgerSpec`: same
variables, a commit is one step of `Ledger`), `Uploads` implements `UploadContract`
(`ContractSpec`, by the mapping `session`, `file`), and `Sweep` implements
`DeletionContract` (its `ContractSpec`, with `versions`, `rows` and `queued`).

Definitions whose comment starts with "Mutant" are changed versions of the
definition that follows them, the way a plausible bug would change the code. No
specification uses them; each shows that a property can fail.

### Ledger

`conv`, `nextSeq` and `born` are the `conversations` rows, `items`
`conversation_items` with `conversation_item_files`, `turns` `turns` with their
file snapshots, and `batches`, `starts`, `conts` the tables of those names. An
operation is one action; `LedgerTx` shows that its locks make it so.
`create_continuation` takes no lock and is two actions, with `reading`
between them. `update_turn` takes none either, and is one statement.

`turns.created_at` is the time the transaction began. A transaction that waited
for the lock commits after one that began later; `began` may therefore be any
moment since the conversation exists. `regenerate_conversation` sorts by it.

Abstractions: an item is the set of files it names; a status is active
(`pending`, `streaming`) or not; the source `system` behaves as `user` does;
titles, metadata, agent names and timestamps other than `turns.created_at` are
left out. A request is refused by not being enabled. `SaveFile` and `RemoveFile`
are the database side of `files.rs`, which `Files` has in full.

### Ledger transactions

`tx` is each client's transaction: the statement that comes next, the request and
what was read so far. `held` has its locks: the advisory lock of a turn start
(`"key"`), `FOR UPDATE` on conversations and files (`"conv"`, `"file"`), `FOR KEY
SHARE` on files (`"share"`), and the uncommitted entry in the unique index of active
turns (`"index"`), on which another insert waits. A statement sees what is committed
when it runs (READ COMMITTED); writes become visible with the commit, which is the one
step that changes a variable of `Ledger`. `Asks` has the locks the next statement waits
for, `WaitsFor` who has them. `Abort` rolls a transaction back anywhere
before it. A client whose answer was lost sends the request again: requests repeat
without limit. The constraints of the schema are there beside the checks of the code:
`Violates` has the unique positions and the foreign keys of what is inserted, the commits
the unique keys of their tables and `CHECK (next_seq >= 1)`, which an append past the
largest number hits, `UpdateTurnRow` the index of active turns and `InsertContinuationRow`
the foreign key to the conversation. A statement that one refuses answers 500, and
`answer` has the constraint's name (`Breaks`).

### Replays

`OwnerReplay` has `replay` (the conversation row, then the items, then each file row,
each in a statement of its own) and `list_items`, and a client that continues after
the last position it was given. `AgentReplay` has `agent_replay` as the REPEATABLE
READ transaction it is: every statement reads the tables as the first one found them,
and `ordered` records whether the turns had then committed in the order in which they
began.
Both run next to all steps of `Ledger`.

### Files and uploads

`FileRows` has what both ways to make a file share: `row` (the storage key of a
file's row), `stored` (keys with an object version), `deletions`
(`file_deletion_outbox`) and `erased` (between the two steps of
`delete_pending`).

In `Uploads` an element of `File` is a session, the id of the file it will make
(which the session row fixes) and its staging key; an element of `Attempt` is a
run of `complete`, its lease token and its candidate key. A session's row is
spread over `status`, `expires`, `lease`, `leaseEnd`, `candidate`; `queue` and
`issue` are `object_deletion_outbox` with the identity of its rows; `work`,
`emptied`, `passing` are the cleanup pass of each server. Each transaction and
each call to S3 is a step, and `BeginClaim` and `BeginCommit` are the moments from
which the two transactions of `complete` take `now()`; `AttemptStops`, `PassStops`
and `RemoverStops` end a request or a pass between any two of them, for an error, a
closed connection or a crash, and undo nothing, as in the code. `inflight` holds
copies asked of S3 and not carried out; the attempt may be long over when one is.

`FileReferences` lets both run next to the transcripts. `Ledger` knows a file as unborn,
live or gone, `Files` and `Uploads` as a row with an object; `OneTable` says that these
are one table of the database, which a step of either changes for all. A row that is
inserted by a save or a completion is `SaveFile`, and one that is removed `RemoveFile`,
whose guard is the query for references (`TableStep`); transactions on transcripts leave
rows and objects alone (`Elsewhere`). An id that the server makes up during a save is
known to nobody before the answer (`NamesKnown`); the id of an uploaded file is fixed
with its session, and `Live` is what keeps a request from using it too early.

Assumptions on the surroundings, each a constant of the model or a sentence here:
the servers and the database share one clock; a browser's post is accepted and
stored in one step; `LateCopies = FALSE` says that S3 carries a copy out while its
lease runs or never; `SignDelay` bounds the pause between reading a session and
signing its form, `Pause` of `Access` the one between looking a file up, or verifying a
download URL, and signing what rests on it. The code bounds neither, and what follows
from them is stated with them. Object versions of a key are one: present or not.

### Passes and the object store

`Sweep` has what these models take as one step. `job` is what each server and each
request that removes a file is doing: which table it works through, which key it has,
what its listing found and how far it has read. `Place` is the order of the bucket's
listing, `Under` the keys one prefix brings up: `list_object_versions` answers all
of them and `ObjectStore::versions` keeps those of the exact key. A call that fails
skips the key in `files::cleanup_deletions` and ends the pass in
`uploads::cleanup_expired`, or the start of the server. `DeletionContract` has what is
left of all this for the rest of the system: versions go only while their key is
pending, and a key is forgotten when it has none left. Versions of an upload key arrive
at any moment once it is queued, also behind the marker of the second listing, between
it and the `DELETE` of the row, and after that; those are kept in `late`, a history
variable, and the contract is about the others (`Due`): a file key never has late
versions. `Broken` are keys S3 never
deletes; `MaxFaults` bounds crashes and calls that fail by chance.

### Access

A token is the record of its claims; `Asked` are the tokens and the requests they come
with. `job` is the call or the download each client has under way, with the moments at
which its token was accepted (`at`) and its file looked up or its URL verified (`seen`):
a handler awaits the body of the request, the database and the signing in turn, and each
await is a step between which others run, files are removed and time passes (`Accept`,
`LookUp`, `CreateFileDownload`; `Redeem`, `Locate`, `Redirect`). `Valid` and `Context`
are `Claims::context`, `Verdict` the checks of each handler in their order, `Required`
its permissions. `grants` are the download URLs that exist and `links` the presigned S3
URLs; either, once made, stays with whoever has it. `owners` says whose each file is or
that it was removed, `removedAt` when. Signatures and HMACs hold what they cover; the id
syntax of a token is a flag. The server keeps the issuer's keys (`keys`) from one
`Start` to the next, whatever is `published` meanwhile.

### Strict JSON

A body is a list of lexemes, a byte its class and its place: the lexeme (`at`) and the
byte within it (`byte`). The scan does not know JSON: it reads a byte at a time in a
string (`StringByte`), outside (`OtherByte`) or in a number (`TokenBegins`,
`TokenGoesOn`, `TokenEnds`), where `token` is the place its `start` stands for. Then the
document is visited (`VisitOpen` to `VisitEnds`). Any bytes that JSON has for a string
may stand in one (`Spelled`); what they say is apart (`text`), and it is that which
makes two keys one, as `\u0061` and `a` are. The code has two readers of floats: the
check of the scan uses `str::parse`, which comes to the nearest (`Parsed`); what is kept
comes from serde_json, of which nothing is assumed (`SerdeFloat`). Numbers are counted
in tenths, with binary64 a float of three bits in steps of a half, so that rounding,
overflow and decimals shorter than the mantissa, which start at 2^53 in the code, start
at single digits.

## Runs

All runs but `sweep_passes` set `CHECK_DEADLOCK FALSE`: ids, requests or the clock
run out, and the bounded system stops. A run whose `Scope` is a disjunction explores
the union of several small instances, each rich where the others are poor, instead of
their product.

| Run | Checks | Bounds |
|---|---|---|
| `ledger_conversation` | `TypeOK`, `OneActiveTurn`, `SequenceDiscipline`, `StartLifecycle`, `BatchKeepsItsItems`, `CheckpointCoversFixedTranscript`, `AgentContextStable` | 1 conversation, 4 items, 3 turns, numbers to 4; 2 start keys and one batch key, or 1 start key, 2 batch keys and a continuation |
| `ledger_continuation` | `ContinuationInTranscript`, violated | 1 conversation, 2 batch keys, 4 items |
| `ledgertx_requests` | `LedgerSpec`, `AnswersAgree`, `NoServerError`, `RetryAnswersOwnItems`, `NoDeadlock` | 2 clients, 1 conversation that exists or is created, 2 items, 2 turns, numbers to 3; starts under 2 keys, or appends and edits, or everything that names a file, or continuations; requests of 3 items, too many for the numbers, run alone |
| `replays_readers` | `FollowerComplete`, `HydrationResolves`, `AgentAnswersComplete`, `AgentAnswersAgree` | 1 conversation; a client with 1 file, 3 items, 1 turn, pages of 1; or agents of 2 turns of single items, or of 1 turn with several items and a file, limit of 3 items |
| `filereferences_table` | `ReferencesReadable` | 1 conversation, 1 item, 1 turn; 1 sent file, or 1 uploaded file with 2 attempts and 1 task |
| `files_saves` | `AnsweredBacked`, `AnsweredTracked`, `DeletionsConverge` | 2 files |
| `files_lostanswer` | `RowsBacked`, violated | 2 files |
| `uploads_leases` | `TypeOK`, `CommittedKept`, `LeaseRespected`, `ContractSpec` | 1 session, 2 attempts, 1 task, late copies |
| `uploads_converge` | `EveryObjectTracked`, `CleanAfterForms`, `SessionsEnd`, `Converges` | 1 session, 1 attempt, 1 task, `SignDelay + FormTTL = Grace`, no late copies |
| `sweep_passes` | `ContractSpec`, `Serves`, `KeysSwept` | 2 file keys, one of them a prefix of the other and refused by S3, 1 upload key below another prefix, 2 versions, 1 server, 1 remover, 1 fault |
| `access_calls` | `AnsweredWithinToken`, `AcceptedWindow`, `GrantsAuthorized`, `LinksBounded`, `RemovedFileClosed` | 2 clients, `Pause` and `CapabilityTTL` 1, clock to 6; one of them at a time with 19 tokens on every operation while keys and servers change; or both with 3 tokens on the operations of one file, clock to 3, 2 URLs and links |
| `strictjson_bodies` | `NumbersChecked`, `NumbersLossless`, `IntegersExact`, `KeysUnique` | bodies with every two of the numbers, and with every choice of up to four of 5 names, two of which say the same; serde_json reads three numbers as another float than `str::parse` |

Why the bounds are enough for the cases of interest. Four items let a start or a batch
of two items be cut in the middle, its numbers be used again, and output follow. Three
turns let a turn be the latest by time and not by commit. `MaxSeq = 4` is met by appends
and starts. Two clients are the two sides of every race and of a cycle of two waits; a
third would need a third kind of request, and each transaction takes its locks in one
order (`NobodyWaitsInACircle`). Two attempts are a holder and the one that takes over.
With a lease of 2 and a session of 3 a lease can be taken over, can outlast its session,
and an attempt that stopped can be followed by a retry or by a cleanup pass. `Grace` is
never below `FormTTL`, as 305 s is never below the largest `FILE_UPLOAD_URL_TTL_SECONDS`
(300, `config.rs` 148). `MaxTime` lies after every deadline, so a clock that has stopped
has passed them all. Two versions of a key and two keys below a prefix make pages that
end within a key and between keys. One item and one turn are enough for
`filereferences_table`: either kind of reference keeps a file by itself, and a snapshot
outlives the item it was made from. The clock of `access_calls` passes the longest life
of every token and the leeway. The proofs below remove the bounds from the properties
they cover.

Fairness is used in three runs. `Files` assumes that a queued deletion is carried
out once it is tried often enough; `Uploads` that time passes, that each server
repeats its pass (`main.rs` 51–65) and that neither S3 nor the database fails for
ever on one key; `Sweep` only that a server takes its next step, and is started
again when it stopped. Nothing is assumed of requests, browsers and copies.

### What the violated runs show

- `ledger_continuation`: a truncation between the read and the insert of
  `create_continuation` leaves a continuation past the transcript.
- `files_lostanswer`: if the insert of `save` commits and the answer is lost, the
  undo deletes the object of a row. The client has been told of an error and does
  not know the id, so the file is unreadable and, by `AnsweredBacked`, no file a
  client was told of is concerned.

### Where the code and its documents differ

Met while modelling, besides the violated runs. The models follow the code. RFCs are
in `src/.agents/specs/`.

- `regenerate_conversation` removes the output of the latest turn and leaves holes in
  the numbers when other items follow; `src/README.md` line 76 calls the ordering
  gap-free.
- A copy that S3 carries out after its candidate key was found empty is an object
  nothing refers to and no row (`Uploads` with `LateCopies = TRUE` violates `Converges`,
  and `late` of `Sweep` holds such versions); the
  direct-upload RFC, line 594, excludes a permanent orphan. By `CommittedKept` it is
  never the object of a file.
- `update_turn` (`store.rs` 1328–1362) does not tell the unique index of active turns
  from a failing database and answers 500; the turn-start RFC, lines 434–436 and 513,
  asks for 409. `UpdateTurnRow` has it.
- `append_items` adds to `next_seq` without the check of `start_turn`
  (`store.rs` 781–784): past the largest number the sum wraps,
  `CHECK (next_seq >= 1)` refuses it and the answer is 500. The turn-start RFC, lines
  323–325 and 430–434, has 409 `sequence_space_exhausted` for a start.
- A conversation deleted between the read and the insert of `create_continuation`
  (1370–1397) makes the answer 500, by the foreign key; a moment earlier or later it is
  404. `NoServerError` excepts these three and no other.
- The keys of the issuer are read once (`auth.rs` 145); the service-authorization RFC,
  lines 96–98, refreshes them when a `kid` is unknown.
- A token is accepted at the instant `exp` + leeway: jsonwebtoken refuses one that lies
  further back. Line 117 of that RFC asks for `now < exp + 30s`. `AcceptedWindow` has the
  instant in; the run reaches it.
- Lines 199–205 of that RFC hold a token to the `agent_ref`, `conversation_id` and
  `turn_id` it carries, in every request. For an owner's token the code looks at
  `agent_ref` alone, where a turn is made (`api.rs` 127, 268) and in direct uploads, and
  at the other two nowhere. `AnsweredWithinToken` states what is held, and the token
  `Bound` of the run is served outside of its conversation and turn.
- A redirect lives for `CAPABILITY_TTL_SECONDS` from the moment it is signed;
  lines 324–325 of that RFC end it with its URL. `LinksBounded` says what holds: twice
  that time in all, and the pause between `verify_file` and the signing
  (`api.rs` 542–559).
- Lines 321–322 have deletion checked at redemption. It is, but a removal that commits
  after the lookup (518, 552) does not stop the URL or link that is being made.
  `RemovedFileClosed` says what holds: all links to the file end a lifetime and a pause
  after its removal.
- One upload key whose deletion S3 refuses ends every pass of
  `uploads::cleanup_expired` before the keys behind it, and at start-up the server
  (`uploads.rs` 428–440, `main.rs` 47–50). `Sweep` with such a key in `Broken`
  violates `Serves` and, with a second upload key behind it, `KeysSwept`; a file
  key does neither, as the run shows.
- The turn-start RFC, lines 233–235, accepts an integer above the safe range only if
  conversion keeps its exact value. `parse_json_number` compares the shortest decimal of
  binary64 instead: `18446744073709552000` and `1.152921504606847e18` pass although
  binary64 has another value, and `1152921504606846976`, which it has, is refused.
  `IntegersExact` states what holds, for integers of 64 bits.
- Lines 227–235 refuse what RFC 8785 cannot represent losslessly, and the check of the
  scan does. But what is stored and hashed is what serde_json reads (`api.rs` 143–144),
  and its reader of floats need not come to the nearest one: `Cargo.toml` line 24 does not
  ask for `float_roundtrip`. A float of many digits may so be kept as a neighbour, and two
  such requests have one digest. `NumbersLossless` says what holds whatever the reader
  does, and the rest where it reads as `str::parse`.
- `FILE_UPLOAD_SESSION_TTL_SECONDS` is accepted up to `i64::MAX`, but
  `Duration::seconds` (`uploads.rs` 113) panics above a thousandth of it, before
  the error "not representable" can be answered; `CAPABILITY_TTL_SECONDS`
  is not bounded and `capability.rs` 36 expects its result to be.

## What is proved

TLAPS checks the theorems for every value of the constants that satisfies the
assumptions named in the modules; the runs check the same formulas on small
instances first, and TLC checked the inductive invariants there before they were
proved.

**`LedgerProofs`** assumes `PayloadAssumption` (a request has at least one item),
`SentinelAssumption` (the null values are no ids) and `BoundAssumption` (the bounds
are numbers). It proves `TypeCorrect`; `Inductive` (`Spec => []IInv`); from it
`SequenceSafety`, `OneActive` and `FilesSafety`; and the action properties
`BatchOwnership`, `CheckpointFixed`, `StartOnce` and `AgentContextFixed`.

The invariants are not inductive alone. That numbers are unique and below `next_seq`
survives an append only because item ids are fresh (`IdDiscipline`); that a batch
reads back only its items needs that its range was handed out (`BatchesInRange`);
that the context of an agent replay gains nothing, and loses only what overtook it,
needs that output of a turn lies above the items that started it (`OutputAboveStart`),
which needs that the start's ids were handed out and its turn is there
(`StartsRecorded`, `RowsOwned`). `IInv` is
the conjunction. The proof that a step keeps it has one lemma per conjunct
(`ItemsStep`, `TurnsStep`, `FilesStep`, `RowsOwnedStep`, `BatchesStep`, `StartsStep`,
`OutputStep`), each with one step per operation that can disturb it. `StartsRecorded` also
says that the children of a start take the numbers of its range, all of them, so that an
agent that finds one item at each number has found the start intact.

**`LedgerTxProofs`** assumes what `LedgerProofs` does and `TxRequestAssumption`
(requests are well typed). For any number of clients it proves `TransactionsAreAtomic`
(`TxSpec => LedgerSpec`), `TransactionsImplement` (`TxSpec => Spec`: every theorem about
`Ledger` holds of the transactions; `StatementsKeepInvariants` and
`StatementsKeepPromises` list those of `LedgerProofs`), `NoRequestFails`
(`NoServerError`: no constraint refuses a request but in its three cases),
`StartAnswersAgree` (`AnswersAgree`), `RetriesAnswerOwnItems` (`RetryAnswersOwnItems`)
and `NobodyWaitsInACircle` (`NoCircularWait`).

The argument is two-phase locking. `TxIInv` says which locks a transaction has at its
next statement (`LocksHeld`), that no two hold locks that exclude each other
(`LocksExclude`), and that what it has read under its locks is what the tables still
hold (`RowRead`, `Prepared`): the conversation's `next_seq`, that its key is not used,
that no turn is active, that the files are there. `WritesLocked` and the lemmas behind it
(`StartUndisturbed`, `TurnUndisturbed`, ...) show that whatever commits leaves alone
what another transaction's locks cover (`Undisturbed`), and `StillPrepared` that this is
enough. So at a commit the guard of the operation of `Ledger` holds (`CommitStartStep`
and its like), the step is that operation, and no constraint is left to refuse it but the
check of `next_seq`, whose sum only a start has compared. `update_turn` and
`create_continuation` take no lock and have what can befall them answered (`Told`). That
nobody refers to a file lasts until its removal commits because new references take `FOR
KEY SHARE` first, which `FOR UPDATE` excludes. `AnswersRecorded` ties what
clients were told to the rows. `NoCircularWait` needs the converse of `LocksHeld`, that a
transaction has no lock before the statement that takes it (`LocksFit`); then whoever
waits, waits for one that has come further in one order of statements (`WaitsAhead`).

**`ReplayProofs`** assumes what `LedgerProofs` does and `FollowerAssumption` (the
followed conversation is one, a page is not empty). It proves `OwnerInductive`,
`FollowerMissesNothing` (`FollowerComplete`), `HydrationSound` (`HydrationResolves`),
`OwnerFilesResolve`, `AgentInductive`, `AgentComplete` (`AgentAnswersComplete`) and
`AgentAgree` (`AgentAnswersAgree`). A client misses nothing because what is written
while it reads gets numbers from `next_seq` on, past the `through_seq` its replay has
read (`Following`, `FreshWrite`); rows it has read and finds gone are gone for good,
since ids are not used again (`Hydrating`). Two agent answers agree because each, from
the moment of its snapshot on, is the context of the start for as long as the start is
intact and its turns in order (`Current`, `ViewSound`, `AnswersCurrent`), and that
context does not change then (`ContextInOrder` of `LedgerProofs`: no output has
overtaken). `OwnerBesideStatements` and `AgentBesideStatements` put the same readers
next to the single statements of `LedgerTx`: what these commit is a behaviour of
`Ledger`, and a reader sees nothing else.

The last part of the module is about `FileReferences`, with `TableAssumption` (a file is
sent or uploaded, never both) and the assumptions of `FilesProofs` and `UploadsProofs`
(`PartsAssumption`). `PartsKept` shows that each of the three parts keeps what was proved
of it alone, `ReferencesKept` that `RefSpec => []ReferencesReadable`, and
`ReferencesBesideStatements` that this holds next to the statements of `LedgerTx` too. No
part can show it: `FilesResolve` gives a reference its live id, `OneTable` its row; the
object of the row is there for an upload by `CommittedKept`, and for a sent file by
`AnsweredBacked` if its save was answered, which `NamesKnown` says and which lasts while
it is referred to (`AnsweredStays` of `FilesProofs`). So the undo of a lost answer, which
`files_lostanswer` shows to hit a row, never hits one a transcript refers to.

**`FilesProofs`** assumes `RowAssumption` and `KeyAssumption` (each file has a
storage key of its own). It proves `TypeCorrect`, `Inductive`, `AnsweredObjects`
(`AnsweredBacked`) and `AnsweredKept` (`AnsweredTracked`). `IInv` adds that the row of a
file tells how far its save has come (`RowsFollowSaves`), so that an undo can only hit
a key whose save was never answered; that the object is there from the put to the
answer (`SavesBacked`); and that removers hold keys of removed files only
(`RemovalsOwn`).

**`UploadsProofs`** assumes `RowAssumption`, `KeyAssumption` (storage keys are
staging keys or candidate keys, never both) and `TimeAssumption` (durations are
numbers, a lease is not empty). It asks nothing of how the durations relate, of the
number of sessions, attempts or cleanup tasks, or of when copies land. It proves
`TypeCorrect`, `Inductive`, `CommittedSafety`, `LeaseExclusive` and `Implements`:
`Spec => ContractSpec`, with the refinement mapping `session`, `file`. Two corollaries
say what a client has of it: `CompletedIffFile` (a session is completed exactly when
there is or was a file of it, and one that is there is readable) and `EndsForGood` (what
has ended stays as it is).

`CommittedKept` is not inductive: when `Commit` publishes a candidate, it must
already be out of the reach of every pass, though the session may have changed hands
several times. `IInv` therefore says that nothing knows of an attempt that has
claimed no session (`FreshAttempts`), that lease and candidate of a session belong together
(`OwnAttempts`), that the candidate of an attempt that still holds its lease and has
not given up is neither queued nor in the hands of a pass, and is stored once seen
(`CandidateSafe`), that a row exists exactly when its session completed
(`RowsAndSessions`), and that removers touch only the objects of removed files
(`OnlyRemovedErased`). The lemmas `SessionSteps`, `AttemptSteps`, `SparedSteps` and
`ObjectSteps` say what one step can do to one session, attempt or key; the
preservation of each conjunct follows from them. Under `IInv` the refinement is one
step per action: `CreateSession` opens, `Commit` publishes, `ExpireSessions` expires
a set of sessions, `Remove` removes, all others stutter.

The second part of the module proves `FormsClean` (`CleanAfterForms`) under the hypothesis
`Margin`, `SignDelay + FormTTL <= Grace`: 300 s for the longest form, 305 s of
waiting, and so 5 s for the pause between reading a session and signing its form.
Without it the property fails. `FInv` follows a form from the session row it was read
from: it ends no later than the session and `FormTTL` after it was signed
(`FormsSigned`); when a commit begins, all forms of its session, those still unsigned
included, end within `SignDelay + FormTTL` (`CommitAfterForms`); from the end of the
session they end before its staging key falls due (`FormsCovered`); and what a pass has
in hand is due or its row is gone (`HandsDue`). `ObjectsTracked`
(`EveryObjectTracked`) adds the hypothesis `LateCopies = FALSE`; `TInv` joins `IInv` and
`FInv` with: a key found empty stays empty while its row is there (`EmptiedEmpty`,
`ErasedEmpty`), since no form of an ended session is left and no copy lands on a key that
is queued (`CopiesSpared`).

**`SweepProofs`** assumes `KeyAssumption`, `ListingAssumption` (two versions have two
places in the listing) and `WorkerAssumption`. It proves `TypeCorrect`,
`RowsOutliveObjects` (`NoOrphans`) and `Implements` (`Spec => ContractSpec`). `IInv`
says what a worker has learnt: it has found every version that is due up to its marker,
the deletions that follow have all the rest to do, and nothing is due of a key whose row
is about to go. The refinement needs besides that
workers only have keys that were queued (`Asked`): then what they delete has its row, by
`NoOrphans`, and a row goes with the step that forgets the key.

**`AccessProofs`** assumes `TokenAssumption`, `RequestAssumption`, `AskedAssumption`,
`RowAssumption` and `TimeAssumption` (claims, requests and rows are well typed, times are
numbers). It proves `TypeCorrect`, `CallsConfined`, `TokensExpire`, `GrantsSafe`,
`LinksSafe` and `RemovedFilesClosed`, for any number of clients and any tokens, requests,
times and pause. `IInv` follows a call from await to await: its token was good when it was
accepted and its request allowed by what does not change (`JobOK`), and a file that it has
looked up was there at `seen`, so that it was removed no earlier (`ThereAt`); URLs and
links end no later than a lifetime from now (`UrlsDated`).

**`StrictJsonProofs`** assumes `NameAssumption` (the bytes of a string are spelled as
JSON has it), `NumberAssumption`, `DocumentAssumption` (keys and closing brackets stand
in an open object), `WidthAssumption` and `SerdeFloatAssumption` (serde_json reads
floats; not which); it asks nothing of how long or deep documents are. It proves
`Inductive`, `ScanFindsNumbers` (`NumbersChecked`), `HashedAsSent` (`NumbersLossless`),
`IntegersKept` (`IntegersExact`) and `KeysGivenOnce` (`KeysUnique`). The scan knows no
JSON, so `IInv` says where in the document it is: in a string, at the beginning of a
character or behind its backslash (`InStrings`); outside, before a lexeme or in a number
whose first byte it has noted (`OutsideStrings`); and what it has checked are the
numbers before that place (`CheckedBehind`). Of the visit it says that the innermost set
of keys belongs to the innermost open object (`ObjectsOpen`), and that every key read in
an object that is still open is in hand (`KeysInHand`).

## What is only model-checked

Liveness (`SessionsEnd`, `Converges`, `DeletionsConverge`, `Serves`, `KeysSwept`) stays
with TLC, out of the prover's reach, and so does the second conjunct of `NoDeadlock`,
that a transaction which waits for no other can go on: it is about `ENABLED`. Of
`StrictJson` the proofs take `Round`, `Canonical` and `Digits` as they are defined and
show how the code combines them; that they round, and have the fewest digits, is by
their definition on the small float. Every other property of a passing run is the
statement of a theorem.

Every property of a passing run also fails for a changed definition that
PROJECT.json names under "mutants", so none holds for want of cases.

## What is not modelled

- Response shapes, metadata, titles, agent names, search and the fields replays strip:
  no property depends on them.
- Signatures of tokens and the HMAC of URLs, the TLS and S3 libraries: taken at their
  word. The trusted-headers build of the tests.
- Malformed requests that are refused before anything happens, other than those of
  `StrictJson`; the reuse of an upload key with other input.
- Content of objects (types, sizes, checksums, metadata): `RejectStaged` and
  `RejectCandidate` say that it may be found wrong.
- Reading the environment, migrations, logging, health, status lines.
- Serialization failures and deadlocks between transactions and the maintenance of
  PostgreSQL itself; the servers' clocks apart from the database's.
- Files sent through the server whose save stops between the put and the insert: the
  object stays and nothing names it (`files.rs` 34). No document promises otherwise.

## Plan

Done: the ledger with its transactions, replays, files, uploads, passes, access and
strict JSON, the references of the ledger to files of both kinds, and proofs of their
safety. What would come next:

1. `Uploads` with several versions of a key, composed with the listing of `Sweep`.
2. The passes of `FileRows` and `Uploads` shown to be `DeletionContract` with keys that
   are queued again and fall due, so that what is proved of them holds of passes that
   read in pages: `Sweep` queues a key once and has its row due at once.
