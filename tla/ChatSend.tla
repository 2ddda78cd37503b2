------------------------------ MODULE ChatSend ------------------------------
(***************************************************************************)
(* One chat turn from the request to the stored pair of messages: the      *)
(* in-process GenerationLimiter (rate_limit.rs), the handlers send_message,*)
(* stream_message, clear_messages, delete_chat and create_chat             *)
(* (chat/mod.rs, chat/messages.rs) and the chat tables (store/chat.rs).    *)
(*                                                                         *)
(* A database transaction is one action.  Every await of a handler is a    *)
(* point between two actions, at which other requests run, the client may  *)
(* disconnect and the process may crash.  A JSON handler, and a stream     *)
(* handler before it spawns its task, disappear with their connection; the *)
(* spawned task notices a lost client only when it sends an event.         *)
(*                                                                         *)
(* The daily quota (DailyQuota), images (Attachments) and the request rate *)
(* limiter (VoiceRequests) have modules of their own; here they are reasons *)
(* for a request to fail.                                                  *)
(***************************************************************************)
EXTENDS Integers, FiniteSets, SequencesExt

CONSTANTS
    Requests,         \* HTTP requests, each handled once
    Sessions,
    Owners,           \* accounts and guest owners
    OwnerOf,          \* the owner scope of each session
    Chats,            \* chat ids; an id is never used twice
    MaxGlobal,        \* CHAT_MAX_CONCURRENT_GENERATIONS
    MaxPerSession,    \* CHAT_MAX_CONCURRENT_GENERATIONS_PER_SESSION
    MaxChats,         \* max_chats_per_owner
    MaxMessages,      \* max_messages_per_chat
    MaxStoredChars,   \* max_stored_chars_per_chat
    ContextMessages,  \* context_max_messages
    ContextChars,     \* context_max_chars
    OutputMax,        \* output_max_chars
    Payloads,         \* message requests: length of the text, byte sizes of the images
    Prompts,          \* lengths of follow-up prompts
    MessageMax,       \* message_max_chars
    MaxImages,        \* CHAT_ATTACHMENT_MAX_IMAGES_PER_MESSAGE
    MaxImageBytes,    \* CHAT_ATTACHMENT_MAX_TOTAL_BYTES_PER_MESSAGE
    ImageUpload,      \* CHAT_IMAGE_UPLOAD_ENABLED
    Vision,           \* does the configured provider take images (mock and openai do)?
    Chunks,           \* lengths of provider chunks
    Capacity,         \* capacity of the SSE channel (16 in the code)
    MaxCrashes        \* bound on process restarts

ASSUME ChatSendAssumption ==
    /\ IsFiniteSet(Requests)
    /\ OwnerOf \in [Sessions -> Owners]
    /\ \A p \in Payloads : p.len \in Nat /\ p.images \in Seq(Nat)
    /\ Prompts \subseteq Nat
    /\ ImageUpload \in BOOLEAN /\ Vision \in BOOLEAN
    /\ Chunks \subseteq Nat \ {0}
    /\ {MaxGlobal, MaxPerSession, MaxChats, MaxMessages, MaxStoredChars,
        ContextMessages, ContextChars, OutputMax, Capacity, MessageMax,
        MaxImages, MaxImageBytes} \subseteq Nat \ {0}
    /\ MaxCrashes \in Nat

VARIABLES
    chats,       \* the tables chats and chat_messages
    active,      \* ActiveGenerations.chats
    perSession,  \* ActiveGenerations.sessions
    free,        \* units left in the process-wide semaphore
    req,         \* the requests and their tasks
    stored,      \* requests whose turn has been committed (history)
    crashes

vars == <<chats, active, perSession, free, req, stored, crashes>>
limiter == <<active, perSession, free>>

NoChat == [state |-> "unborn", owner |-> CHOOSE o \in Owners : TRUE, msgs |-> <<>>]
Prompt(n) == [role |-> "assistant", by |-> "prompt", len |-> n]
UserMessage(r) == [role |-> "user", by |-> r, len |-> req[r].payload.len]
Reply(r) == [role |-> "assistant", by |-> r, len |-> req[r].out]

NoRequest == [kind |-> "none", pc |-> "idle", session |-> CHOOSE s \in Sessions : TRUE,
              chat |-> CHOOSE c \in Chats : TRUE, payload |-> [len |-> 0, images |-> <<>>], context |-> <<>>, out |-> 0,
              conn |-> TRUE, sent |-> <<>>, unread |-> 0, outcome |-> "none"]

Chars(msgs) == FoldLeft(LAMBDA total, m : total + m.len, 0, msgs)

SumBytes(images) == FoldLeft(LAMBDA total, size : total + size, 0, images)

LastMessages(msgs, n) == SubSeq(msgs, Len(msgs) - n + 1, Len(msgs))

\* The longest suffix within both bounds of the context.
BoundedHistory(msgs) ==
    LET fits == {n \in 0..Min({Len(msgs), ContextMessages}) :
                    Chars(LastMessages(msgs, n)) <= ContextChars}
    IN LastMessages(msgs, Max(fits))

\* What get_chat and every other owner-scoped query can see.
Visible(c, s) == chats[c].state = "live" /\ chats[c].owner = OwnerOf[s]

\* The checks of prepare_chat_completion_context that need no database.
PayloadAcceptable(p) ==
    /\ p.len > 0 \/ p.images # <<>>
    /\ p.len <= MessageMax
    /\ p.images = <<>> \/ ImageUpload

\* validate_message_attachment_requests: as many images as allowed, within the total size.
ImagesAcceptable(p) ==
    /\ Len(p.images) <= MaxImages
    /\ SumBytes(p.images) <= MaxImageBytes

\* ensure_provider_supports_messages
ProviderSupports(p) == p.images = <<>> \/ Vision

HasTurnCapacity(msgs, chars) ==
    /\ Len(msgs) + 2 <= MaxMessages
    /\ Chars(msgs) + chars <= MaxStoredChars

At(r, pc) == req[r].pc = pc
Spawned(r) == req[r].kind = "stream" /\ req[r].pc \in {"start", "generate", "append", "reread", "tell"}
Goto(r, pc) == req' = [req EXCEPT ![r].pc = pc]

\* A request that gives up drops what it had prepared; the properties read the context of
\* a stored turn.
GivesUp(r, outcome, pc) ==
    [req[r] EXCEPT !.outcome = outcome, !.pc = pc,
                   !.payload = NoRequest.payload,
                   !.context = IF r \in stored THEN @ ELSE <<>>,
                   !.out = IF r \in stored THEN @ ELSE 0]

Ends(r, outcome, pc) == req' = [req EXCEPT ![r] = GivesUp(r, outcome, pc)]

\* Nothing reads the rest of a request that has ended.
Ended(r) == [NoRequest EXCEPT !.pc = "end", !.context = IF r \in stored THEN req[r].context ELSE <<>>]

\* An error goes to the client as an SSE event once the stream task runs, else as
\* the response of the handler, which gives the permit back when it returns.
Fails(r) == Ends(r, "error", IF Spawned(r) THEN "tell" ELSE "drop")

(***************************************************************************)
(* The limiter.                                                            *)
(***************************************************************************)
CanAcquire(s, c) == c \notin active /\ perSession[s] < MaxPerSession /\ free > 0

\* GenerationLimiter::try_acquire: the chat, a unit of the session, a unit of the process.
Acquire(s, c) ==
    /\ CanAcquire(s, c)
    /\ active' = active \cup {c}
    /\ perSession' = [perSession EXCEPT ![s] = @ + 1]
    /\ free' = free - 1

AcceptGeneration(r, kind, s, c, p) ==
    /\ At(r, "idle")
    /\ Acquire(s, c)
    /\ req' = [req EXCEPT ![r] = [NoRequest EXCEPT !.kind = kind, !.pc = "chat", !.session = s,
                                                   !.chat = c, !.payload = p]]
    /\ UNCHANGED <<chats, stored, crashes>>

\* 429 same-chat contention, session capacity or process capacity; 409 for a clear.
Refuse(r, kind, s, c) ==
    /\ At(r, "idle")
    /\ IF kind = "clear" THEN c \in active ELSE ~CanAcquire(s, c)
    /\ req' = [req EXCEPT ![r] = Ended(r)]
    /\ UNCHANGED <<chats, limiter, stored, crashes>>

\* Mutant: a clear does not take the chat's permit.
MutAcceptClear(r, s, c) ==
    /\ At(r, "idle")
    /\ req' = [req EXCEPT ![r] = [NoRequest EXCEPT !.kind = "clear", !.pc = "clear",
                                                   !.session = s, !.chat = c]]
    /\ UNCHANGED <<chats, limiter, stored, crashes>>

\* try_acquire_clear takes the chat alone, no unit of the session or the process.
AcceptClear(r, s, c) ==
    /\ At(r, "idle")
    /\ c \notin active
    /\ active' = active \cup {c}
    /\ req' = [req EXCEPT ![r] = [NoRequest EXCEPT !.kind = "clear", !.pc = "clear",
                                                   !.session = s, !.chat = c]]
    /\ UNCHANGED <<chats, perSession, free, stored, crashes>>

\* Mutant: the session's count is not taken back.
MutDropPermit(r) ==
    /\ At(r, "drop")
    /\ active' = active \ {req[r].chat}
    /\ req' = [req EXCEPT ![r] = IF @.kind = "clear" THEN Ended(r) ELSE [@ EXCEPT !.pc = "unit"]]
    /\ UNCHANGED <<chats, perSession, free, stored, crashes>>

\* Drop for GenerationPermit: chat and session under the lock ...
DropPermit(r) ==
    /\ At(r, "drop")
    /\ active' = active \ {req[r].chat}
    /\ perSession' = IF req[r].kind = "clear" THEN perSession
                     ELSE [perSession EXCEPT ![req[r].session] = @ - 1]
    /\ req' = [req EXCEPT ![r] = IF @.kind = "clear" THEN Ended(r) ELSE [@ EXCEPT !.pc = "unit"]]
    /\ UNCHANGED <<chats, free, stored, crashes>>

\* ... and then its field _global, the semaphore unit.
ReturnUnit(r) ==
    /\ At(r, "unit")
    /\ free' = free + 1
    /\ req' = [req EXCEPT ![r] = Ended(r)]
    /\ UNCHANGED <<chats, active, perSession, stored, crashes>>

(***************************************************************************)
(* Preparing the context.                                                  *)
(***************************************************************************)
\* get_chat reads the chat row; too long a message or an unknown chat ends the request.
LoadChat(r) ==
    /\ At(r, "chat")
    /\ IF PayloadAcceptable(req[r].payload) /\ Visible(req[r].chat, req[r].session)
       THEN Goto(r, "history")
       ELSE Fails(r)
    /\ UNCHANGED <<chats, limiter, stored, crashes>>

\* messages_for_chat is a second read: a chat deleted since then has no messages.
LoadHistory(r) ==
    LET msgs == chats[req[r].chat].msgs
        p == req[r].payload
    IN
    /\ At(r, "history")
    /\ IF HasTurnCapacity(msgs, p.len) /\ ImagesAcceptable(p) /\ ProviderSupports(p)
       THEN req' = [req EXCEPT ![r].pc = "quota", ![r].context = BoundedHistory(msgs)]
       ELSE Fails(r)
    /\ UNCHANGED <<chats, limiter, stored, crashes>>

\* The daily quota admits the generation; the stream handler then spawns its task.
AdmitGeneration(r) ==
    /\ At(r, "quota")
    /\ Goto(r, IF req[r].kind = "stream" THEN "start" ELSE "generate")
    /\ UNCHANGED <<chats, limiter, stored, crashes>>

\* An early return of the preparation or the quota, or a database error.
RequestFails(r) ==
    /\ req[r].pc \in {"chat", "history", "quota", "append", "clear"}
    /\ Fails(r)
    /\ UNCHANGED <<chats, limiter, stored, crashes>>

(***************************************************************************)
(* The stream: an event waits for room in the channel and is refused once  *)
(* the client has gone.                                                    *)
(***************************************************************************)
CanSend(r) == req[r].conn /\ req[r].unread < Capacity

SendStart(r) ==
    /\ At(r, "start")
    /\ \/ /\ CanSend(r)
          /\ req' = [req EXCEPT ![r].pc = "generate", ![r].sent = <<[event |-> "message_start", len |-> 0]>>,
                                ![r].unread = @ + 1]
       \/ /\ ~req[r].conn
          /\ Ends(r, "dropped", "drop")
    /\ UNCHANGED <<chats, limiter, stored, crashes>>

\* reserve_output_chunk, then send_sse_event: a chunk beyond the limit is not sent at all.
Token(r, n) ==
    /\ At(r, "generate")
    /\ req[r].kind = "stream"
    /\ \/ /\ req[r].out + n <= OutputMax
          /\ CanSend(r)
          /\ req' = [req EXCEPT ![r].out = @ + n, ![r].unread = @ + 1,
                                ![r].sent = Append(@, [event |-> "token", len |-> n])]
       \/ /\ req[r].out + n > OutputMax \/ ~req[r].conn
          /\ Fails(r)
    /\ UNCHANGED <<chats, limiter, stored, crashes>>

\* Mutant: the task announces the reply before it appends it.
MutStreamEnds(r) ==
    /\ At(r, "generate")
    /\ req[r].kind = "stream"
    /\ IF req[r].out = 0 THEN Fails(r) ELSE Ends(r, "done", "tell")
    /\ UNCHANGED <<chats, limiter, stored, crashes>>

\* The provider's stream ends; one without content is an error.
StreamEnds(r) ==
    /\ At(r, "generate")
    /\ req[r].kind = "stream"
    /\ IF req[r].out = 0 THEN Fails(r) ELSE Goto(r, "append")
    /\ UNCHANGED <<chats, limiter, stored, crashes>>

OutputWithinLimit(n) == n <= OutputMax

\* complete_chat answers with the whole reply.
Completes(r, n) ==
    /\ At(r, "generate")
    /\ req[r].kind = "send"
    /\ IF OutputWithinLimit(n) THEN req' = [req EXCEPT ![r].pc = "append", ![r].out = n] ELSE Fails(r)
    /\ UNCHANGED <<chats, limiter, stored, crashes>>

\* Mutant: no total timeout, so that only a provider that answers ends the wait.
MutProviderFails(r) ==
    /\ At(r, "generate")
    /\ req[r].kind = "send"
    /\ Fails(r)
    /\ UNCHANGED <<chats, limiter, stored, crashes>>

\* A provider error, the idle timeout or the total timeout, which also covers a send that
\* waits for room in the channel; mark_provider_started may fail as well.
ProviderFails(r) ==
    /\ At(r, "generate")
    /\ Fails(r)
    /\ UNCHANGED <<chats, limiter, stored, crashes>>

\* The inserts of one transaction: both messages or neither.
WithTurn(msgs, r) == msgs \o <<UserMessage(r), Reply(r)>>

\* completed_messages makes an error of every outcome but the first.
AppendOutcome(r) ==
    LET c == req[r].chat IN
    IF ~Visible(c, req[r].session) THEN "unavailable"
    ELSE IF ~HasTurnCapacity(chats[c].msgs, req[r].payload.len + req[r].out) THEN "limit reached"
    ELSE "appended"

\* append_chat_messages_limited_with_quota locks the chat and counts again.
AppendTurn(r) ==
    LET c == req[r].chat IN
    /\ At(r, "append")
    /\ IF AppendOutcome(r) = "appended"
       THEN /\ chats' = [chats EXCEPT ![c].msgs = WithTurn(@, r)]
            /\ stored' = stored \cup {r}
            /\ Goto(r, "reread")
       ELSE Fails(r) /\ UNCHANGED <<chats, stored>>
    /\ UNCHANGED <<limiter, crashes>>

\* After the commit the attachments of the new message are read, which may fail.
ReadAttachments(r) ==
    /\ At(r, "reread")
    /\ \/ Ends(r, "done", IF req[r].kind = "stream" THEN "tell" ELSE "drop")
       \/ Fails(r)
    /\ UNCHANGED <<chats, limiter, stored, crashes>>

\* message_done or error; a client that has gone is not waited for.
Tell(r) ==
    LET event == IF req[r].outcome = "done" THEN "message_done" ELSE "error" IN
    /\ At(r, "tell")
    /\ \/ /\ CanSend(r)
          /\ req' = [req EXCEPT ![r].pc = "drop", ![r].unread = @ + 1,
                                ![r].sent = Append(@, [event |-> event, len |-> 0])]
       \/ /\ ~req[r].conn
          /\ Goto(r, "drop")
    /\ UNCHANGED <<chats, limiter, stored, crashes>>

\* clear_chat_messages; the messages of a chat the session does not own stay.
ClearChatMessages(s, c) == IF Visible(c, s) THEN [chats EXCEPT ![c].msgs = <<>>] ELSE chats

ClearMessages(r) ==
    LET s == req[r].session
        c == req[r].chat
    IN
    /\ At(r, "clear")
    /\ chats' = ClearChatMessages(s, c)
    /\ IF Visible(c, s) THEN Ends(r, "done", "drop") ELSE Fails(r)
    /\ UNCHANGED <<limiter, stored, crashes>>

(***************************************************************************)
(* Requests of one transaction each.  create_chat counts and inserts under *)
(* the owner's advisory lock; a follow-up opens the chat with its prompt.  *)
(***************************************************************************)
ChatsOf(o) == {c \in Chats : chats[c].state = "live" /\ chats[c].owner = o}

Openings == {<<>>} \cup {<<Prompt(n)>> : n \in {m \in Prompts : m <= MaxStoredChars}}

\* create_chat_with_follow_up_limited
CreateChatLimited(o, c, first) ==
    /\ Cardinality(ChatsOf(o)) < MaxChats
    /\ chats' = [chats EXCEPT ![c] = [state |-> "live", owner |-> o, msgs |-> first]]

CreateChat(s, c) ==
    /\ chats[c].state = "unborn"
    /\ \E first \in Openings : CreateChatLimited(OwnerOf[s], c, first)
    /\ UNCHANGED <<limiter, req, stored, crashes>>

\* The row and, by cascade, its messages.
DeletedChat == [NoChat EXCEPT !.state = "deleted"]

\* delete_chat takes no permit: a chat may go while its generation runs.
DeleteChat(s, c) ==
    /\ Visible(c, s)
    /\ chats' = [chats EXCEPT ![c] = DeletedChat]
    /\ UNCHANGED <<limiter, req, stored, crashes>>

(***************************************************************************)
(* Clients and the process.                                                *)
(***************************************************************************)
ClientReads(r) ==
    /\ req[r].conn
    /\ req[r].unread > 0
    /\ req' = [req EXCEPT ![r].unread = @ - 1]
    /\ UNCHANGED <<chats, limiter, stored, crashes>>

\* The receiver is dropped; a handler that still runs is dropped with it.
Disconnect(r) ==
    /\ req[r].conn
    /\ ~At(r, "idle") /\ ~At(r, "end")
    /\ req' = [req EXCEPT ![r] =
                 [(IF Spawned(r) \/ @.pc \in {"drop", "unit"} THEN @ ELSE GivesUp(r, "dropped", "drop"))
                  EXCEPT !.conn = FALSE, !.unread = 0]]
    /\ UNCHANGED <<chats, limiter, stored, crashes>>

\* A restart: requests, tasks and the limiter are gone, the tables stay.
Crash ==
    /\ crashes < MaxCrashes
    /\ crashes' = crashes + 1
    /\ active' = {}
    /\ perSession' = [s \in Sessions |-> 0]
    /\ free' = MaxGlobal
    /\ req' = [r \in Requests |-> IF req[r].pc \in {"idle", "end"} THEN req[r]
                 ELSE Ended(r)]
    /\ UNCHANGED <<chats, stored>>

Init ==
    /\ chats = [c \in Chats |-> NoChat]
    /\ active = {}
    /\ perSession = [s \in Sessions |-> 0]
    /\ free = MaxGlobal
    /\ req = [r \in Requests |-> NoRequest]
    /\ stored = {}
    /\ crashes = 0

Arrives(r) ==
    \E s \in Sessions, c \in Chats :
        \/ \E kind \in {"send", "stream"}, p \in Payloads : AcceptGeneration(r, kind, s, c, p)
        \/ \E kind \in {"send", "stream", "clear"} : Refuse(r, kind, s, c)
        \/ AcceptClear(r, s, c)

Prepares(r) == LoadChat(r) \/ LoadHistory(r) \/ AdmitGeneration(r) \/ RequestFails(r)
Generates(r) == SendStart(r) \/ StreamEnds(r) \/ ProviderFails(r)
                \/ \E n \in Chunks : Token(r, n) \/ Completes(r, n)
Settles(r) == AppendTurn(r) \/ ReadAttachments(r) \/ Tell(r) \/ ClearMessages(r)
              \/ DropPermit(r) \/ ReturnUnit(r)
ClientActs(r) == ClientReads(r) \/ Disconnect(r)

Next ==
    \/ \E r \in Requests : Arrives(r) \/ Prepares(r) \/ Generates(r) \/ Settles(r) \/ ClientActs(r)
    \/ \E s \in Sessions, c \in Chats : CreateChat(s, c) \/ DeleteChat(s, c)
    \/ Crash

(***************************************************************************)
(* Fairness: the runtime polls the task, the database answers, the total   *)
(* timeout fires (nothing is assumed of the provider), and the connection  *)
(* of a client that stops reading is closed in the end.                    *)
(***************************************************************************)
Fairness ==
    \A r \in Requests :
        /\ WF_vars(Prepares(r))
        /\ WF_vars(SendStart(r))
        /\ WF_vars(ProviderFails(r))
        /\ WF_vars(Settles(r))
        /\ WF_vars(ClientReads(r) \/ Disconnect(r))

Spec == Init /\ [][Next]_vars /\ Fairness

-----------------------------------------------------------------------------
HoldsChat(r) == req[r].pc \notin {"idle", "unit", "end"}
HoldsSession(r) == HoldsChat(r) /\ req[r].kind # "clear"
HoldsUnit(r) == req[r].pc \notin {"idle", "end"} /\ req[r].kind # "clear"

(***************************************************************************)
(* The limiter counts exactly the live permits, at every point of a        *)
(* permit's drop and however its request ends: no chat is held by two      *)
(* requests, and no unit is lost or returned twice (rate_limit.rs, Drop).  *)
(***************************************************************************)
LimiterBalanced ==
    /\ active = {req[r].chat : r \in {q \in Requests : HoldsChat(q)}}
    /\ \A r, q \in Requests : HoldsChat(r) /\ HoldsChat(q) /\ req[r].chat = req[q].chat => r = q
    /\ \A s \in Sessions :
          perSession[s] = Cardinality({r \in Requests : HoldsSession(r) /\ req[r].session = s})
    /\ free = MaxGlobal - Cardinality({r \in Requests : HoldsUnit(r)})

(***************************************************************************)
(* A stored turn answers the conversation it stands in: the history given  *)
(* to the provider before the generation is the bounded history of exactly *)
(* the messages stored before the turn, although the append is a later     *)
(* transaction and other turns, a clear or a delete may run in between.    *)
(***************************************************************************)
TurnFollowsItsContext ==
    \A c \in Chats : \A i \in 1..Len(chats[c].msgs) :
        LET m == chats[c].msgs[i] IN
        m.role = "user" => req[m.by].context = BoundedHistory(SubSeq(chats[c].msgs, 1, i - 1))

Streamed(r) == Chars(req[r].sent)

(***************************************************************************)
(* What a client of the stream is told is true: message_done is the last   *)
(* event, its turn has been committed, and the tokens before it are the    *)
(* whole stored reply (docs/chat-sse-streaming.md, "Both new messages      *)
(* committed").                                                            *)
(***************************************************************************)
DoneMeansStored ==
    \A r \in Requests : \A i \in 1..Len(req[r].sent) :
        req[r].sent[i].event = "message_done" =>
            /\ i = Len(req[r].sent)
            /\ r \in stored
            /\ Streamed(r) = req[r].out

(***************************************************************************)
(* Every permit is given back: after an error, a timeout, a disconnect or  *)
(* a stalled reader, the chat can be used again (stream_message).          *)
(***************************************************************************)
PermitReturned == \A r \in Requests : HoldsUnit(r) ~> ~HoldsUnit(r)
=============================================================================
