# wfchat in TLA+

wfchat is a chat application with one AI companion: a Rust API (`apps/api`, axum
and PostgreSQL) and a React client (`apps/web`). Around the chat it has image
attachments, a daily generation quota, automatic memory, settings sync, voice, and a
multiplayer room, the Aiko Cafe. This directory models the API, and what it expects of
its browsers, where correctness depends on order, concurrency, failure or limits. TLC
checks the models on small instances; TLAPS proves most of the safety properties for every size.

- [Inventory](#inventory)
- [Modules](#modules): what each one models and how it corresponds to the code
- [Runs](#runs): what is checked, with which bounds and which fairness
- [Where code and documentation differ](#where-code-and-documentation-differ)
- [Proofs](#proofs)
- [Not modelled](#not-modelled) and [Plan](#plan)

`PROJECT.json` holds the details: the source lines of each definition, the hazards with
the properties that cover them, and one mutation of the model per property that
shows the property can fail.

## Inventory

| Component | State | Operations | What makes it correct | Hard because |
|---|---|---|---|---|
| Daily quota (`store/quota.rs`) | owner counters, global counters, reservations | reserve, start, commit, release, recover, retain, transfer, forget | counters agree with rows; a stored reply is charged, and only that | requests, recovery and retention interleave; `now()` is the start of a transaction; login, logout and deletion move quota |
| Chat sends (`chat/messages.rs`, `store/chat.rs`, `rate_limit.rs`) | permits, chats, messages, event channel | acquire, stream, append, clear, create, delete | permits balance and come back; a turn answers the history it stands in; `message_done` is true | three counters per permit, taken and dropped in steps; disconnects; deletion during a stream |
| Provider streams (`ai/providers`) | bytes, frames, held text | decode, join, guard, emit | the guard of the stream is the guard of the whole reply | text is cut anywhere |
| Chat images (`attachments.rs`, `store/attachments.rs`) | rows, deletion queue, files, leases | upload, link, delete, claim, remove, complete, retry, scan | a message keeps its images; no file is forgotten; the quota bounds the disk | a database and a file system without a common transaction; crashes; leases |
| Memory (`memory.rs`, `store/memory.rs`) | jobs, items, sources, deliveries | claim, extract, apply, fail, retrieve, follow up, reset, merge | each turn is captured at most once and settles; items rest on live evidence; follow-ups keep their distance | locks of five minutes; lost workers; evidence withdrawn at any time |
| Sessions (`auth.rs`, `store/auth.rs`) | sessions, identities, profiles, cookies | guest, login, promote, logout, update, delete, expire, clean up | everything has one owner; deletion is final | transactions over every table racing with requests between two statements |
| Sync (`sync.rs`, `store/sync.rs`) | entities, commits | preview, commit, pull | a pull returns present values; a repeated commit repeats its answer | three statements without a lock; cursor of whole seconds |
| Rate limiter and voice (`rate_limit.rs`, `voice.rs`) | windows per identity; the speech request | check, resolve address, translate, synthesise, transcribe | limits hold; refusals are justified; audible speech is played | several identities counted at once; proxies; chunked audio |
| Cafe hub (`cafe.rs`, `store/cafe.rs`) | rooms, socket counters, creation windows, notices, loadouts | reserve, release, create, quick join, sweep, revoke, equip | counters are the sockets; notices arrive; only unlocked items are worn | upgrades that never complete; notices that lag; state read before an await |
| Cafe room (`cafe.rs`, `store/cafe.rs`) | players, activity, timers, rewards | join, leave, interact, expire, next round, award, revoke | nothing is lost or duplicated; one pending transition; no reward for a deleted account | sockets, detached timers and awaited transactions; reconnection |
| Cafe delivery (`cafe.rs`, `useCafeRoom.ts`) | revision, two channels, tick, browser state | broadcast, tick, poll, apply | browsers converge to the room | two channels with one revision; lag; restart of the tick |
| Configuration (`config.rs`, `state.rs`, `app.rs`) | environment, limits, features | parse, validate, build, answer | what passes validation starts and serves what it offers | zero, type limits and texts that several parts read differently |
| Browser sessions, games, logs, administration | | | | see [Not modelled](#not-modelled) |

How they interact: a send takes a permit, reserves quota, validates and reads images, reads
history and memory, calls the provider, and one transaction then stores both messages,
links the images, enqueues a memory job and commits the reservation
(`append_chat_messages_limited_with_quota`). Promotion gives everything of a guest session
to an account in one transaction; account deletion removes it in one transaction, then
announces the revoked sessions to the Cafe and tries to remove the files. A Cafe socket
drives a room under one mutex and awaits the reward transaction outside it. Every API
process runs the capture worker and the maintenance loop.

## Modules

| Module | Models |
|---|---|
| `DailyQuota`, `MCDailyQuota` | the daily generation quota |
| `ChatSend`, `MCChatSend` | permits, sends, streams, clearing, creating and deleting chats |
| `ProviderStream`, `MCProviderStream` | the stream of a reply and the response guard |
| `Attachments`, `MCAttachments` | chat images, rows, queue and files |
| `Memory`, `MCMemory` | capture jobs, memories, retrieval and follow-ups |
| `CaptureOutbox` | what the capture of turns promises; `Memory` implements it |
| `Sessions` | sessions, accounts, cookies and the requests that change them |
| `Sync`, `MCSync` | sync entities and commits, composed with `Sessions` |
| `RateLimiter` | fixed windows over several identities; the client's address |
| `VoiceRequests`, `MCVoiceRequests` | speech and transcription, composed with `RateLimiter` |
| `CafeHub`, `MCCafeHub` | rooms, places for sockets, notices of deletion, cosmetics |
| `CafeRoom`, `MCCafeRoom` | one Cafe room: players, activities, rounds, rewards |
| `CafeDelivery`, `MCCafeDelivery` | how room state reaches browsers |
| `Config`, `MCConfig` | reading, validating and using the configuration |
| `LimitsProofs` | theorems about `DailyQuota`, `RateLimiter` with `VoiceRequests`, and `Config` |
| `CafeHubProofs` | theorems about `CafeHub` and `CafeDelivery` |
| `ChatSendProofs` | theorems about `ChatSend` and `ProviderStream` |
| `AttachmentsProofs`, `MemoryProofs`, `SyncProofs`, `CafeRoomProofs` | theorems about the module of that name |
| `InductionLemmas` | folds and sums over finite sets and sequences, for the proofs |

`Sync` extends `Sessions` and `VoiceRequests` extends `RateLimiter`: they share state and step
together. The other modules share no variables. Where one transaction concerns several of them
(a send, a promotion, an account deletion), each models its own part of it, under the same name.

### DailyQuota

`db` is the three tables as one record; every SQL operation is a function of that record
(`Admit`, `Start`, `Commit`, `Settle`, `Cleanup`, `Transfer`, `ForgetAccount`), and a
transaction is an action that applies them in the order of the code. An admission
(`Reserve`) first recovers stale reservations, then retires past dates in batches, then
checks the limits. `BeginReserve` and `BeginPromote` fix the date of `now()`, which the
commit uses later, possibly after midnight. A request may fail before or after the provider
started, be abandoned, or report an error after its turn was committed (`erring`). Sessions log
out, are promoted, and have their account deleted; a new guest may carry quota over. Not
represented: the wording of errors and the retry-after header.

### ChatSend

A request is a record with a program counter; every await of a handler is a point between two
actions. The permit is taken in the order of `try_acquire` (a unit of the process, then session
and chat under the lock) and dropped in the order of its `Drop`. JSON handlers, and stream
handlers before they spawn their task, vanish with their connection (`Disconnect`); the task
notices a lost client only when it sends, and waits when the channel is full. The provider sends
any number of tokens, stops, fails or runs into the total timeout. The append checks the limits of
the chat in its transaction. Text is a length; history is a sequence of messages, so that
`BoundedHistory` can be compared with what was stored. `Crash` ends the process and its permits.

### ProviderStream

The provider cuts a reply into deltas, the network cuts the bytes into chunks, `Receive`
decodes and normalises one chunk, `StreamFrame` takes one frame, `PushDelta` and `Finish`
are the guard. `Stage(t, i)` is the `i`-th replacement of the table and `Guard` their sequence; `Held(t)` are the
lengths of the ends of `t` that may be the beginning of a term, and the guard keeps the longest
of them back. A character is a string and a Thai one has two bytes; `Letters` are the characters of replies, and
the ends of lines and the marks of a stream may be among them or not. `heard` is history.

### Attachments

One action per statement or transaction and one per file operation. The delete trigger
is part of every action that deletes rows (`DeleteRows`). An upload inserts its row under
the storage quota, writes the file and, if that fails, deletes the row again
(`CreateMetadata`, `WriteFile`, `WriteFails`, `UndoMetadata`); it may die in between
(`UploadDies`). A send validates images (`PrepareSend`), waits for the provider, and links
them when it commits (`AppendMessage`). Workers claim queue entries, remove a file, and
then complete or postpone the entry if the claim is still theirs. The loop of a replica
goes through stale rows, a directory scan whose look at a file and whose question to the
database are separate steps, and a batch of claims. Time is four actions: a row or a
file becomes older than 24 hours, a lease runs out, a retry falls due. A row or file does
not age during its own upload, since no request lasts a day. `late` is history: files
that were written after their row had been deleted. Abstracted: image decoding (a
precondition of `Authorize`), directory order, and the size of batches (a batch takes
everything that is eligible; with more files, later rounds take the rest).

### Memory and CaptureOutbox

A stored turn creates its job (`StoreTurn`); workers claim, extract, apply or fail it, may be lost
at any point, and a lock may grow old while its worker goes on. `Apply` is the transaction of
`apply_memory_capture`: it checks the job, validates candidates, inserts, reinforces or
replaces items and recomputes their evidence. `ClearMessages`, `DeleteChat`, `ResetLearnedContext`
and `Promote` are the operations of other components on this state. `LearnedContexts` is
the selection for a prompt, with every order that equal scores allow. A follow-up is read
(`SelectFollowUp`) and claimed (`ClaimFollowUp`) by racing browsers. What the extractor answers for a
text is a constant, as are words and topics: language is data here.

`CaptureOutbox` says what all this amounts to for a turn: queued once, captured at most once
or given up, and never evidence again once it was withdrawn. `Memory!ImplementsOutbox` is
the refinement, with `turn` read off the job and `evidence` off the sources of all items.

### Sessions and Sync

A request is under way from its cookie to its response, and a browser takes the cookie of
the response only if it still waits. Login is verification, then the promotion transaction
(`Promote`), then the migration and the profile; deletion is one transaction. A commit of `Sync` runs item by
item; a guest writes an item in one statement, an account in up to three (`UpdateAccountEntity`,
`FindAccountEntity`, `InsertAccountEntity`), and then looks for, or saves, its result.
Pulls and previews read only, so the properties quantify over all of them in every state.

### RateLimiter and VoiceRequests

`Refused` and `Counted` are the two passes of `check_many` over all identities of a request under one
mutex. `ClientIp` reads the header from its end past the trusted proxies. A voice request
passes the limits, is translated, synthesised and, with VOICEVOX, its WAV file is examined cell by
cell; transcription checks the recording. Requests of other families use the same windows.

### CafeHub

`PassGate`, `ConsumeRoomCreation` and `CreateRoom` are the parts of `create_room_limited` and
`quick_join_limited`; the mutants show what the gate is for. A connection is reserved, authorised
with its progress (`ReadProgress`), subscribed to notices, joined, and left. Notices are queues that
may lag (`sock.lagged`); a socket that subscribed after the notice it should have had is marked
`late`, and then nothing tells it (see below). An equip request reads progress, writes the
loadout, reads it back and tells the room in four steps.

### CafeRoom

`CafeHub` methods hold the rooms mutex, so each is one action. Separate actions are what
is separate in the code: authorising the upgrade and joining, completing a round and
the reward transaction, deleting an account and announcing it, and the detached timers.
The activity record keeps leaves, orders and hands; positions and distances are inputs.
The targets and layouts are constants, so that small ones can be used.

### CafeDelivery

Messages carry the revision, who is present, and version numbers for the rest of the
snapshot and for positions. A socket task is a loop of two polls (`SendReliable` or
`ReliablePending`, then `SendMovement` or `MovementPending`) between which other
threads send. A receiver that lags is closed. The tick is the detached task with its
stop signal, which waits for the mutex in its flush. `Applied` is the browser's handling
of a message. A socket that a newer one replaced stays subscribed, as in the code.

### Config

An environment is a preset with up to two variables of one group set by hand: to zero, to a limit,
past it, to an end of its type, or to text that does not parse. `LoadConfig` parses and
validates, `Build` makes limiters and workers, and requests are answered from the result.
Numbers beyond TLC's integers keep their order only. `parse_frontend_origins` is the set of
origins the browser may call from; their order has no effect.

## Runs

| Run | Checks | Instance |
|---|---|---|
| `daily_quota` | `GlobalLedger`, `TodayLedger`, `RepliesCharged` | 2 requests, 3 sessions, 1 account, 2 days, owner limits 1, global limit 2, batch 1 |
| `chat_send` | `LimiterBalanced`, `TurnFollowsItsContext`, `DoneMeansStored`, `PermitReturned` | 2 requests of an account and a guest, 1 chat, channel of 1, one crash |
| `provider_stream` | `NoMasculineTerm`, `StreamedIsGuarded` | every pair of six fragments, deltas and chunks up to 3 |
| `attachments` | `MessageImagesKept`, `FilesTracked`, `DiskWithinQuota`, `CleanReportTrue` | 2 images, guest, account, message, replica, 1 fault |
| `memory` | `ItemsSupported`, `FollowUpsSpaced`, `ContextBounded`, `ImplementsOutbox`, `JobSettles` | 2 turns, 3 keys, 2 workers, 2 browsers, 2 attempts |
| `sync` | `AccountRowsAnchored`, `DeletionErases`, `CommitIdempotent`, `PullsPresentValues` | 2 browsers, 2 requests at a time, 3 in all, 4 sessions, 2 operations |
| `sync_profile` | `ProfileErased` (violated) | the same |
| `voice_requests` | `LimitKept`, `RefusalJustified`, `CountedForItsAddress`, `AudibleIsPlayed` | 2 sessions, 2 proxies, 4 families, 2 windows, 4 requests |
| `cafe_hub` | `SocketsCounted`, `RevocationReaches`, `QuickJoinsMeet`, `WornIsUnlocked` | account with 2 sessions, guest, 2 sockets, 2 handlers |
| `cafe_room` | `RoundConserved`, `OnePendingTransition`, `DeletionIsFinal`, `RushMakesWay` | 2 players and sockets, 4 rounds, failing reward transactions |
| `cafe_delivery` | `MembersConverge`, `ChatConverges`, `MovementFlushed` | 2 players and sockets, channel of 2, history of 2 |
| `config` | `ValidatedStarts`, `AdvertisedIsServed`, `ProductionSealed` | 5 presets, 2 edits |

**Bounds.** The quota needs two requests of one owner to exceed a limit of one, a third
session for the guest that follows a logout or a deletion, two dates for retention, and
a batch of one so that retention needs several passes. Two requests on one chat are the least that
contend for it, and four messages its limit, so that a second turn fits and a third does not; the
context of two messages is shorter than that, so that trimming happens. Fragments of replies are
whole terms, terms that are prefixes of others, beginnings without an end and plain text; a delta of three
characters is shorter than the longest term. Two images with a storage quota of one fill the
quota and let an account reach two through promotion; the replica and the account-deletion
request are two workers that can hold the same entry, one of them with an outdated claim.
Two workers hold one job after its lock grew old, and two attempts are the least at which one is
a retry and one the last. Two turns with contradicting facts, one of the guest and one of the account,
make items that several turns support, a replacement and a merge. Three requests let a commit be
repeated around a login or a deletion. A window of two ticks over three lets a window restart
between requests. Four Cafe rounds pass through the three activities and into the next
rotation; two sockets of one player are a reconnection. A channel of two overflows within three
messages. Two edits reach every pair of variables whose order validation compares.

**Fairness.** It is assumed only where a property is about something that must happen.
`CafeRoom` and `CafeDelivery`: timers and ticks, since tokio runs a sleeping task once its time has
come; players may do nothing at all. `ChatSend`: a handler and its task are polled, the
database answers, the total timeout of a generation fires, and the connection of a client that
neither reads nor leaves is closed in the end by its transport; nothing is assumed of the
provider. `Memory`: the worker loop polls for ever, its HTTP client has a timeout, locks grow old.
Nobody has to send, ask or delete anything.

**Deadlock** is checked in `daily_quota`. Elsewhere a system at rest is legitimate: everyone
has left and every bounded input has been used.

**Symmetry** permutes interchangeable requests, sessions, images or browsers, in runs without
temporal properties only.

What a reader may take from the passing runs, besides the text of the properties:

- The quota's global counter agrees with its rows on every date, and the owner counters
  agree on the current date; on past dates retention and late commits may separate them,
  which is why `TodayLedger` speaks of today.
- `CleanReportTrue` and `FilesTracked` except files in `late`. This is the one way in which a file
  escapes the queue: an upload that still writes when its row is deleted may write after the
  queue entry has been completed. The scan collects it after 24 hours.
- `DiskWithinQuota` allows an account one quota more for each guest that became it: promotion
  moves images without comparing the sum to the quota.
- `JobSettles` excepts a job whose last permitted attempt was lost: no claim selects it, and it
  stays in `processing`.
- `CommitIdempotent` speaks of sessions in force: login moves the results of a guest to
  the session that replaces it, and a duplicate still under way on the guest session then counts anew.
- `PullsPresentValues` describes the cursor as it is: entities with the same second as the end of
  a page are lost to the next pull (`docs/sync-system.md:105` documents the limit).
- `RevocationReaches` excepts sockets that were authorised before a deletion and subscribed after
  its announcement.
- `LimitKept` is twice the limit in a sliding window, which is what fixed windows can promise.

## Where code and documentation differ

One difference is a run of its own: `sync_profile`. `docs/backend-architecture.md:70` says that deleting
an account removes its profile; a request that had read its session before inserts the profile again
(`ensure_user_profile`, `store/auth.rs:948`).

Others were met while modelling. Those of the first group are reachable in the models; none of them is asserted
by a property, and properties state what holds beside them.

| The documentation says | The code does |
|---|---|
| a guest commits at most 50 replies per Bangkok day (`docs/chat-sessions.md:64`) | an admission begun before midnight may recreate a counter that retention deleted after midnight, and commit beyond the limit on the past date (`store/quota.rs:161`) |
| Tea Delivery places three leaves to collect and return (`docs/aiko-cafe.md:46`) | a player who leaves takes collected leaves along (`cafe.rs:1082`) |
| each connected player can receive a star per completed round (`docs/aiko-cafe.md:61`) | one account deleted before the reward transaction makes it fail for everyone (`store/cafe.rs:172`) |
| a client does not continue from partial state (`docs/aiko-cafe.md:151`) | a movement update sent between the two polls overtakes a snapshot, which the browser then discards as older (`cafe.rs:2411`) |
| sockets of deleted sessions are closed with the policy code (`docs/aiko-cafe.md:110`) | one that subscribes after the announcement is not told (`cafe.rs:2157`); one that lagged closes without the code |
| an error event means that nothing was stored (`docs/chat-sse-streaming.md:23`) | reading the attachments of a stored turn may fail after the commit (`store/chat.rs:477`) |
| boundary-split Thai terms are corrected before they leave (`docs/chat-sse-streaming.md:89`) | every network chunk is decoded by itself, so a term cut inside a character leaves neither whole nor corrected: the character becomes replacement characters (`ai/providers/openai.rs:182`) |
| the third failure of a job marks it dead (`docs/automatic-memory.md:49`) | a worker lost in the last attempt leaves it in `processing`; a stale worker's failure may retire the attempt of another |
| at most one follow-up in a rolling 24-hour window (`docs/automatic-memory.md:94`) | deliveries are removed by a reset or a chat deletion, and merged at login, which shortens the distance |

Outside the models' properties: a missing Cafe session is refused although
`docs/aiko-cafe.md:97` says it becomes a guest; `docs/chat-voice.md` says that unsupported audio is
rejected, while an unknown content type is dropped and the recording passed on; `get_chat_ui_config` offers image
upload with providers that reject images (`docs/chat-image-attachments.md:181`); a response to
`GET /auth/me` that arrives late may set the cookie back to a revoked guest; concurrent updates of
one profile, or of cosmetic and avatar, may lose a field; an interval beyond the range of the clock passes
validation in development; a malformed `APP_PORT` becomes 8080 without a word.

## Proofs

TLC checks each property on one small instance; the theorems below hold for every value of the
constants that satisfies the module's `ASSUME`. The bounds of the models (`MaxCrashes`, `MaxFaults`,
`MaxRound`, `MaxDay`, `Horizon`, ...) are constants too, so that a theorem covers behaviours of any
length. Every theorem has the same plan: an inductive invariant, checked by TLC on the run of
its component before it was proved, one lemma per action or group of actions, and the property
as a consequence. Where an invariant has several parts, a step is first shown to have only certain
named *effects* on the state, and the invariant is derived from the effects once.

The assumptions are those of the code: limits and sizes are natural numbers, limits are positive
where the configuration insists on it, kinds of names are disjoint (`None`, `NoSession`, `NoItem`
name nothing), and sets over which the code counts or sums (requests, sockets, keys, guests,
players, messages) are finite.

| Theorem | States |
|---|---|
| `LimitsProofs!TypeCorrect` | no quota counter goes negative |
| `LimitsProofs!GlobalLedgerHolds`, `TodayLedgerHolds`, `RepliesChargedHolds` | `GlobalLedger`, `TodayLedger`, `RepliesCharged` |
| `ChatSendProofs!LimiterBalancedHolds`, `TurnFollowsItsContextHolds`, `DoneMeansStoredHolds` | the three safety properties of sends |
| `ChatSendProofs!NoMasculineTermHolds`, `StreamedIsGuardedHolds` | the two properties of the guarded stream |
| `AttachmentsProofs!FilesTrackedHolds`, `CleanReportTrueHolds`, `MessageImagesKeptHolds`, `DiskWithinQuotaHolds` | the four properties of images |
| `MemoryProofs!OutboxRefined` | `Memory` implements `CaptureOutbox` (`ImplementsOutbox`) |
| `MemoryProofs!ItemsSupportedHolds`, `FollowUpsSpacedHolds`, `ContextBoundedHolds` | the three invariants of memory |
| `SyncProofs!AccountRowsAnchoredHolds`, `DeletionErasesHolds`, `CommitIdempotentHolds`, `PullsPresentValuesHolds` | the four properties of sync |
| `CafeHubProofs!SocketsCountedHolds`, `RevocationReachesHolds`, `QuickJoinsMeetHolds`, `WornIsUnlockedHolds` | the four properties of the hub |
| `CafeRoomProofs!RoundConservedHolds`, `OnePendingTransitionHolds`, `DeletionIsFinalHolds` | the three safety properties of a room |
| `CafeHubProofs!MembersConvergeHolds`, `ChatConvergesHolds` | the two safety properties of delivery |
| `LimitsProofs!LimitKeptHolds`, `RefusalJustifiedHolds`, `CountedForItsAddressHolds`, `AudibleIsPlayedHolds` | the four properties of limits and voice |
| `LimitsProofs!ValidatedStartsHolds`, `AdvertisedIsServedHolds`, `ProductionSealedHolds` | the three properties of the configuration |

Each component also has the theorem that its inductive invariant holds (`QuotaInvariant`, `LimiterInvariant`,
`ConfigInvariant`, `ChatSendInvariant`, `StreamInvariant`, `AttachmentsInvariant`, `MemoryInvariant`, `SyncInvariant`, `HubInvariant`,
`DeliveryInvariant`, `CafeRoomInvariant`).

**DailyQuota.** `TypeOK` is not inductive: a release subtracts one from the global counter of the row's
date, which stays natural only if the counter counts that row. `QuotaInv` adds that the counter
equals the number of held rows, that an existing row has a date and an owner, that a request
without admission has no row, that a running request has a session, and that a registered session has an
account. One lemma per table operation (`SettleSafe`, `CleanupSafe`, `AdmitSafe`, ...) is about a single
record of tables; `ControlStep` and `TablesStep` apply them to the actions. For the ledger of an owner,
`LedgerInv` says the same of every owner's counters and of the charged requests on the current date;
`CountDifference` is the fact about cardinality they share.

**ChatSend.** The limiter is balanced because exactly the requests at the points in `Holding` have a permit,
which needs types and control only. For the context of a turn, `ChatSendInv` adds that while a
permit is held nobody else changes the chat that it names, so that what was read is still what
precedes the append. For the end of a stream, `TokensOK` keeps the number of characters produced equal
to the sum of the tokens sent; that this sum grows with each `Append` is induction over the length
of the sequence (`RunningSums`).

**ProviderStream.** Both properties are about what a rewriting computes, for replies of any length that are cut anywhere.
Four facts about the table carry them. A replacement leaves none of its term and makes none of another one
(`GuardClean`, with what each stage does to the beginnings and ends of terms: `EndKept`, `BeginningKept`, `OccursKept`).
If no term reaches across a cut, a replacement of the whole text is the replacements of its parts, and still no term
reaches across (`ReplacedOfParts`, `StageOfParts`, `GuardOfParts`). The cut of `SafeSplit` is such a place: a term across it would begin in
what leaves and thus have a longer end held back (`HeldSeparate`). And when a delta joins what is held back, what
has to be held of the two is what has to be held of all that was heard (`HeldOfLonger`). `StreamInv` therefore says, besides types, that
while the stream is open what has left is the guard of a prefix of the deltas and `pending` is the rest, which is the longest end that may
begin a term (`OpenIsKept`); that after an error, too, what has left is the guard of some text (`ContentIsGuarded`); that a stream
which is not guarded passes deltas on as they are; and that nothing is held in the end. What the rewriting, a recursive function of
the position, does at every position follows from the least position at which it would not. The assumption
`ProviderStreamAssumption` says that replies are sequences of `Letters` and that chunks and deltas are not empty.

**Attachments.** `AttachmentsInv` says that a file has or has had a row (`Past`), that everything queued, claimed or
awaited is `Gone` for good, that a worker that says a file is gone is right unless it was written late, and that
the rows that name a message are its images. The quota needs two more facts: what an owner is
charged (`ChargedBy`, rows and queue entries together) is within the bound in `ChargesOK`, and a row leaves
while its upload is still writing only if the owner of the upload is no longer live (`OwnerInv`), since otherwise a
file could come to rest uncharged. A promotion adds at most the guest's one quota and one former guest.

**Memory.** `MemoryInv` relates turns, jobs and the workers that hold them, the evidence of items to the
messages that are there, and follow-ups to the requests that claim them. `OutboxRefined` maps each turn to the state of its
job and evidence to all sources; every step of `Memory` is a step of `CaptureOutbox` or leaves both alone.
`ContextBounded` is about the loop that selects context: it is written as a fold, and the bounds are an
invariant of the fold.

**Sync.** `SyncInv` keeps sessions, rows and commits attached to each other while a request goes from
statement to statement with what it has read; a request of a deleted account can find only its revoked
session. `Bounded` (stamps have an upper bound) makes the latest stamp of an item exist.

**CafeHub.** `HubInv` has a part for sockets and counters, one for rooms and creation handlers, and one for
owners; the last one carries that stars only grow, so that what was checked before a lock is still
unlocked after it.

**CafeRoom.** `Conserved(activity, hands)` is the balance of leaves, orders and what players carry, stated on
values, so that it can be proved of `JoinRoom`, `Depart`, `Serve` and the timers as functions. `TimersFit` adds which timers
a phase has, including the ones of rounds that are over, which will find nothing to do. `AccountInv` relates
rewards under way to accounts.

**RateLimiter and VoiceRequests.** Every accepted request leaves one record per identity, with its time and its place
among those of the same tick. `LimiterInv` says of each identity that the count of its window is the number of
records since the window started, and that the records before it that a span of one window still reaches are at most its limit
(`RowOK`); so a span sees at most two limits (`LimitKept`), and a full window lies within one span (`RefusalJustified`).
`CountedForItsAddress` is about `ClientIp`: the walk along the header stops at an address of a proxy or at the client's own.
`AudibleIsPlayed` follows the reading of a WAV file cell by cell: where each chunk starts is a recursive function of the
chunks before it (`ChunkPlaced`). The assumption `VoiceRequestsAssumption` says that clients have sessions, that proxies are
trusted and clients are not, and that a chunk of a file has a size and samples.

**CafeDelivery.** `MembersFollow` says that for every socket that lost nothing the newest of what its browser shows, the snapshots
under way to it and the value of the movement channel has the members and positions of the room (`InStep`).
`ChatFollows` introduces the history `h` of all events of the room, each one once: the room keeps its end, and for
every socket that lost nothing what its browser shows and what is under way to it, in order, are the end of `h` (`Keeps`, with a
function that counts the events up to each message under way). The events of a room that a player left are part of `h`, so that the
history of a welcome and the live events after it meet.

**Config.** The environment does not change once it is read, so that what validation found stays true
(`SameReadings`, `SameVerdict`). `ConfigInv` adds that what runs was validated. Each reply is then compared with what
validation and `get_chat_ui_config` read of the same texts (`ChatServed`, `SpeechServed`, `TranscriptionServed`,
`ImageAnsweredWell`), and `ValidBuilds` compares the limits with what semaphores and the clock take. The presets may be any:
`ConfigAssumption` says only that the numbers of a preset are integers and its texts words of their variable.

**InductionLemmas.** The provers cannot instantiate an induction principle whose parameter is a predicate. The facts needed
here follow from one that takes a set of numbers instead: a set of numbers that is not empty has a least element. From
it the module derives what folds over finite sets and sequences compute, stage by stage, and how sums over finite sets grow
(`SumOfMore`, `SumOfBoth`, `SumOfPart`).

### Only model-checked

Liveness under fairness: `PermitReturned`, `JobSettles`, `RushMakesWay` and `MovementFlushed`. Every invariant that a passing
run checks and the refinement are proved.

## Not modelled

- The browser, except what `CafeDelivery` and `Sessions` need of it: the chat page's optimistic messages and
  retries, speech playback and recording, the sync queue (`syncService.ts` reads it, awaits two
  requests and writes it back, so that operations queued in between are lost), reconnection of the Cafe page.
  The order of its steps is decided by React and the browser.
- Presentation: pages, rendering, the avatar, and the games (geometry and physics on real numbers).
- Access, authentication and authorization logs: output only. Administration and characters:
  single statements and constant tables; sessions of administrators.
- Language: what an extractor finds in a text, prompts, translations, the offline evaluation of memory. The
  mock provider, whose replies are not guarded.
- `promote_session_to_registered`, `rotate_registered_session`, `upsert_auth_identity`, `upsert_memory_item` and
  `add_memory_source`, which only tests call.

PostgreSQL is taken to be serialisable where the code locks the rows it goes on to change, which it does
in the transactions modelled as one action; where it does not (sync of accounts, equipping, profiles), the
statements are actions of their own.

## Plan

All components of the plan are modelled and checked, and their invariants are proved. What is left:

1. The queue of the browser's sync service, with the two requests that it awaits.
2. Shorter proofs where two components use the same argument (counters that equal the cardinality of a set).
