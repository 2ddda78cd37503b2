------------------------------- MODULE Memory -------------------------------
(***************************************************************************)
(* Automatic memory (memory.rs, store/memory.rs): the durable extraction   *)
(* jobs stored with each turn, the capture workers, memory items and their *)
(* sources, the selection of learned context for a prompt, and New Chat    *)
(* follow-ups; with the operations of other components that remove or move *)
(* this state: clearing and deleting chats (store/chat.rs), the reset of   *)
(* the learned context and the merge at login (store/auth.rs).             *)
(*                                                                         *)
(* One character; the owner scopes of a guest session and of the account   *)
(* it logs into.  A transaction is one action: apply_memory_capture locks  *)
(* the job row, which clearing a chat deletes with its messages, and       *)
(* claim_memory_follow_up runs under an advisory lock of its owner.        *)
(* Confidence, strength and importance are percentages; a tick is a second.*)
(***************************************************************************)
EXTENDS Integers, FiniteSets, SequencesExt

CONSTANTS
    Messages,        \* user messages, each stored once
    Chats,
    ChatOf,          \* the chat of each message
    BornTo,          \* the owner that creates each chat
    Keys,            \* memory keys
    Outputs,         \* what the extractor may answer for each message: sequences of candidates
    Workers,         \* capture workers (one in each API process)
    Browsers,        \* each asks for New Chat follow-ups, one request and claim key at a time
    HomeOf,          \* whose browser each is: of the guest that may log in, or of the account
    Queries,         \* topic signals of a latest user message
    MaxAttempts,     \* max_attempts of a job (3 in the schema)
    MaxCandidates,   \* MAX_CANDIDATES
    MaxLifetime,     \* MAX_TEMPORAL_MEMORY_LIFETIME_SECONDS
    MaxItems,        \* MEMORY_MAX_ITEMS
    MaxBroad,        \* MAX_BROAD_ONLY_ITEMS
    MaxContext,      \* MEMORY_MAX_CONTEXT_CHARS, without the header
    Window,          \* 86,400 seconds between follow-ups
    MaxAge,          \* FOLLOW_UP_MAX_AGE_SECONDS
    Horizon          \* bound on the clock

Owners == {"guest", "account"}
Never == Horizon + MaxLifetime + 1   \* expires_at of a durable memory: null
Kinds == {"preference", "profile", "goal", "constraint", "plan", "experience"}
TemporalKinds == {"plan", "goal"}
Percent == 0 .. 100

\* One memory of an extractor's answer, on what the code tells apart.
Candidate ==
    [key : Keys, kind : STRING, content : STRING, words : SUBSET STRING, topics : SUBSET STRING,
     traits : SUBSET STRING, conf : Percent, importance : Percent, strength : Percent,
     quoted : BOOLEAN, expires : Nat, replace : BOOLEAN, size : Nat]

ASSUME MemoryAssumption ==
    /\ IsFiniteSet(Messages) /\ Messages # {}
    /\ IsFiniteSet(Keys) /\ Keys # {}
    /\ \A m \in Messages : Outputs[m] \subseteq Seq(Candidate)
    /\ ChatOf \in [Messages -> Chats]
    /\ BornTo \in [Chats -> Owners]
    /\ HomeOf \in [Browsers -> Owners]
    /\ {MaxAttempts, MaxCandidates, MaxItems, MaxBroad, MaxContext, Window} \subseteq Nat \ {0}
    /\ {MaxLifetime, MaxAge, Horizon} \subseteq Nat

VARIABLES
    sent,        \* messages ever stored
    live,        \* messages still in chat_messages
    chats,       \* chats not deleted
    promoted,    \* has the guest logged in?
    job,         \* memory_extraction_jobs by user message
    worker,
    items,       \* memory_items with their memory_sources, by owner and key
    delivered,   \* memory_follow_up_deliveries
    ask,         \* the follow-up requests under way
    now

vars == <<sent, live, chats, promoted, job, worker, items, delivered, ask, now>>
turns == <<sent, live, chats, promoted>>
asking == <<delivered, ask>>

NoJob == [status |-> "none", attempts |-> 0, stale |-> FALSE, at |-> 0]
Idle == [pc |-> "idle", msg |-> CHOOSE m \in Messages : TRUE, found |-> <<>>]
NoItem == [sources |-> {}]
NoAsk == [pc |-> "idle", owner |-> "guest", key |-> CHOOSE k \in Keys : TRUE,
          updated |-> 0, now |-> 0]

OwnerOf(c) == IF promoted THEN "account" ELSE BornTo[c]
MayAct(o) == o = "guest" => ~promoted   \* does the owner still have a session?
MessagesOf(c) == {m \in Messages : ChatOf[m] = c}
Exists(o, k) == items[o][k].sources # {}
KeysOf(o) == {k \in Keys : Exists(o, k)}

(***************************************************************************)
(* Evidence.                                                               *)
(***************************************************************************)
Strengths(sources) == {s.strength : s \in sources}

\* recalculate_memory_evidence: 5 points for every source after the first, at most 99.
Confidence(sources) ==
    Min({99, Max(Strengths(sources)) + 5 * (Cardinality(sources) - 1)})

LastReinforced(sources) == Max({s.at : s \in sources})

Recalculated(item, sources) ==
    [item EXCEPT !.sources = sources, !.conf = Confidence(sources),
                 !.reinforced = LastReinforced(sources), !.updated = now]

MutWithout(item, gone) ==
    IF {s \in item.sources : s.msg \notin gone} = {} THEN NoItem
    ELSE [item EXCEPT !.sources = {s \in @ : s.msg \notin gone}]

\* cleanup_memory_after_source_removal: an item without sources goes, the others are recalculated.
Without(item, gone) ==
    LET rest == {s \in item.sources : s.msg \notin gone} IN
    IF rest = item.sources THEN item
    ELSE IF rest = {} THEN NoItem
    ELSE Recalculated(item, rest)

\* memory_follow_up_deliveries.memory_id cascades with its item.
DeliveriesOf(its) == {d \in delivered : its[d.owner][d.key].sources # {}}

(***************************************************************************)
(* Turns and their removal.                                                *)
(***************************************************************************)
\* append_chat_messages_limited_with_quota stores the turn and its job together.
StoreTurn(m) ==
    /\ m \notin sent /\ ChatOf[m] \in chats
    /\ sent' = sent \cup {m}
    /\ live' = live \cup {m}
    /\ job' = [job EXCEPT ![m].status = "pending", ![m].at = now]
    /\ UNCHANGED <<chats, promoted, worker, items, asking, now>>

\* The messages, their jobs and their sources go in one transaction.
RemoveMessages(gone) ==
    /\ live' = live \ gone
    /\ job' = [m \in Messages |-> IF m \in gone THEN NoJob ELSE job[m]]
    /\ items' = [o \in Owners |-> [k \in Keys |-> Without(items[o][k], gone)]]
    /\ delivered' = DeliveriesOf(items')

ClearMessages(c) ==
    /\ c \in chats
    /\ RemoveMessages(MessagesOf(c) \cap live)
    /\ UNCHANGED <<sent, chats, promoted, worker, ask, now>>

DeleteChat(c) ==
    /\ c \in chats
    /\ chats' = chats \ {c}
    /\ RemoveMessages(MessagesOf(c) \cap live)
    /\ UNCHANGED <<sent, promoted, worker, ask, now>>

\* DELETE /api/learned-context: every job of the owner, whatever its status, and every item.
ResetLearnedContext(o) ==
    /\ MayAct(o)
    /\ job' = [m \in Messages |-> IF OwnerOf(ChatOf[m]) = o THEN NoJob ELSE job[m]]
    /\ items' = [items EXCEPT ![o] = [k \in Keys |-> NoItem]]
    /\ delivered' = DeliveriesOf(items')
    /\ UNCHANGED <<turns, worker, ask, now>>

\* migrate_session_data_to_user_in_tx for one key: the content that was reinforced last, the
\* sources of both, recalculated.  (The guest's and the account's messages are different.)
Merged(guest, account) ==
    IF guest = NoItem THEN account ELSE IF account = NoItem THEN guest
    ELSE LET newer == IF guest.reinforced > account.reinforced THEN guest ELSE account IN
         Recalculated([newer EXCEPT !.importance = Max({guest.importance, account.importance})],
                      guest.sources \cup account.sources)

\* Login: the guest's rows become the account's and follow its replacement session.
Promote ==
    /\ ~promoted
    /\ promoted' = TRUE
    /\ items' = [o \in Owners |-> [k \in Keys |->
                    IF o = "guest" THEN NoItem ELSE Merged(items["guest"][k], items["account"][k])]]
    /\ delivered' = {[d EXCEPT !.owner = "account"] : d \in delivered}
    /\ UNCHANGED <<sent, live, chats, job, worker, ask, now>>

(***************************************************************************)
(* Capture.                                                                *)
(***************************************************************************)
Claimable(m) ==
    /\ job[m].attempts < MaxAttempts
    /\ \/ job[m].status \in {"pending", "retry"}
       \/ job[m].status = "processing" /\ job[m].stale

\* claim_memory_extraction_job; the back-off of a retry is time that passes.
Claim(w) ==
    /\ worker[w].pc = "idle"
    /\ \E m \in Messages :
        /\ Claimable(m)
        /\ job' = [job EXCEPT ![m].status = "processing", ![m].attempts = @ + 1, ![m].stale = FALSE]
        /\ worker' = [worker EXCEPT ![w] = [Idle EXCEPT !.pc = "extract", !.msg = m]]
    /\ UNCHANGED <<turns, items, asking, now>>

\* Five minutes go by with the job still locked.
LockExpires(m) ==
    /\ job[m].status = "processing" /\ ~job[m].stale /\ job[m].attempts < MaxAttempts
    /\ job' = [job EXCEPT ![m].stale = TRUE]
    /\ UNCHANGED <<turns, worker, items, asking, now>>

\* contains_sensitive_data, contains_temporary_detail, contains_prompt_injection and
\* follow_up_content_is_resolved find the traits of a text.
Sensitive(c) == "sensitive" \in c.traits
Temporary(c) == "temporary" \in c.traits
PromptInjection(c) == "injection" \in c.traits
Resolved(c) == "resolved" \in c.traits

\* A time-bound plan or goal expires after the capture, within the permitted lifetime.
ValidExpiry(c, at) ==
    c.expires # Never => /\ c.kind \in TemporalKinds
                         /\ c.expires > at /\ c.expires <= at + MaxLifetime

\* validate_candidate, on what it tells apart.
ValidCandidate(c, at) ==
    /\ c.kind \in Kinds
    /\ c.conf >= 65 /\ c.importance >= 45 /\ c.strength >= 60
    /\ ~Sensitive(c) /\ c.quoted
    /\ ValidExpiry(c, at)
    /\ Temporary(c) => c.kind \in TemporalKinds /\ c.expires # Never

Accept(kept, c, at) ==
    IF ValidCandidate(c, at) /\ \A i \in DOMAIN kept : kept[i].key # c.key
    THEN Append(kept, c) ELSE kept

\* validate_output: the first valid candidate of each key; too many candidates are none.
Accepted(output, at) ==
    IF Len(output) > MaxCandidates THEN <<>>
    ELSE FoldLeft(LAMBDA kept, c : Accept(kept, c, at), <<>>, output)

\* What the prompt and the JSON schema let the extractor answer.
ExtractorAnswers(m) == Outputs[m]

\* extract_memories answers, and the answer is validated.
Extract(w) ==
    /\ worker[w].pc = "extract"
    /\ \E output \in ExtractorAnswers(worker[w].msg) :
        worker' = [worker EXCEPT ![w] = [@ EXCEPT !.pc = "apply", !.found = Accepted(output, job[worker[w].msg].at)]]
    /\ UNCHANGED <<turns, job, items, asking, now>>

MutExtractionFails(w) ==
    /\ worker[w].pc = "extract"
    /\ LET m == worker[w].msg IN
       job' = IF job[m].status # "processing" THEN job
              ELSE [job EXCEPT ![m].status = "retry", ![m].stale = FALSE]
    /\ worker' = [worker EXCEPT ![w] = Idle]
    /\ UNCHANGED <<turns, items, asking, now>>

\* The provider fails: fail_memory_extraction_job, for whichever attempt is processing now.
ExtractionFails(w) ==
    /\ worker[w].pc = "extract"
    /\ LET m == worker[w].msg IN
       job' = IF job[m].status # "processing" THEN job
              ELSE [job EXCEPT ![m].status =
                        IF job[m].attempts >= MaxAttempts THEN "dead" ELSE "retry",
                               ![m].stale = FALSE]
    /\ worker' = [worker EXCEPT ![w] = Idle]
    /\ UNCHANGED <<turns, items, asking, now>>

\* The process dies, or a database error makes the worker forget its job.
WorkerLost(w) ==
    /\ worker[w].pc # "idle"
    /\ worker' = [worker EXCEPT ![w] = Idle]
    /\ UNCHANGED <<turns, job, items, asking, now>>

Captured(c) ==
    [sources |-> {}, kind |-> c.kind, content |-> c.content, words |-> c.words,
     topics |-> c.topics, traits |-> c.traits, importance |-> c.importance,
     expires |-> c.expires, size |-> c.size, conf |-> 0, reinforced |-> 0, updated |-> 0]

\* One candidate of a capture: another value needs the action "replace", which forgets the
\* evidence of the old one; the same value is reinforced.
Remembered(item, c, m) ==
    LET kept == IF item = NoItem \/ item.content # c.content THEN {}
                ELSE {s \in item.sources : s.msg # m}
    IN IF item # NoItem /\ item.content # c.content /\ ~c.replace THEN item
       ELSE Recalculated(Captured(c), kept \cup {[msg |-> m, strength |-> c.strength, at |-> now]})

Learn(its, c, m) == [its EXCEPT ![c.key] = Remembered(@, c, m)]
Learned(its, found, m) == FoldLeft(LAMBDA kept, c : Learn(kept, c, m), its, found)

MutApply(w) ==
    /\ worker[w].pc = "apply"
    /\ LET m == worker[w].msg
           o == OwnerOf(ChatOf[m])
       IN IF ChatOf[m] \notin chats THEN UNCHANGED <<job, items>>
          ELSE /\ items' = [items EXCEPT ![o] = Learned(@, worker[w].found, m)]
               /\ job' = [job EXCEPT ![m].status = "completed", ![m].stale = FALSE]
    /\ worker' = [worker EXCEPT ![w] = Idle]
    /\ UNCHANGED <<turns, asking, now>>

\* apply_memory_capture: only while the job is processing and its message is there.  The
\* owner is the chat's of this moment, not the one of the claim.
Apply(w) ==
    /\ worker[w].pc = "apply"
    /\ LET m == worker[w].msg
           o == OwnerOf(ChatOf[m])
       IN IF job[m].status # "processing" \/ m \notin live THEN UNCHANGED <<job, items>>
          ELSE /\ items' = [items EXCEPT ![o] = Learned(@, worker[w].found, m)]
               /\ job' = [job EXCEPT ![m].status = "completed", ![m].stale = FALSE]
    /\ worker' = [worker EXCEPT ![w] = Idle]
    /\ UNCHANGED <<turns, asking, now>>

(***************************************************************************)
(* Learned context of a prompt.                                            *)
(***************************************************************************)
\* find_memory_retrieval_candidates and retrieval_item_is_safe.
Retrievable(item) ==
    /\ item # NoItem
    /\ item.conf >= 65 /\ item.kind \in Kinds
    /\ item.expires > now
    /\ ~Sensitive(item) /\ ~Temporary(item) /\ ~PromptInjection(item)

\* lexical_tokens and canonical_topics_for_parts give a text its words and its broad topics.
Words(text) == text.words
Topics(text) == text.topics
SpecificMatch(item, q) == Words(item) \cap Words(q) # {}
BroadTopics(item, q) == Topics(item) \cap Topics(q)

\* The characters and estimated tokens of an item's line in the context, as one measure.
LineSize(o, k) == items[o][k].size

Signals(q) == Words(q) \cup Topics(q)

\* A relevance of at least MEMORY_MIN_RELEVANCE needs a shared word or topic.
Relevant(o, q) ==
    {k \in Keys : Retrievable(items[o][k]) /\ (SpecificMatch(items[o][k], q)
                                               \/ BroadTopics(items[o][k], q) # {})}

\* The orders the scores may give: specific matches first, whatever else they are made of.
Rankings(o, q) ==
    {r \in SetToSeqs(Relevant(o, q)) :
        \A i, j \in DOMAIN r : i < j /\ SpecificMatch(items[o][r[j]], q)
                                => SpecificMatch(items[o][r[i]], q)}

NoContext == [keys |-> {}, size |-> 0, broad |-> 0, topics |-> {}]

MutTake(o, q, ctx, k) ==
    IF Cardinality(ctx.keys) > MaxItems \/ ctx.size + LineSize(o, k) > MaxContext THEN ctx
    ELSE [keys |-> ctx.keys \cup {k}, size |-> ctx.size + LineSize(o, k),
          broad |-> ctx.broad, topics |-> ctx.topics]

\* One turn of the loop of select_memory_context_with_signals.
Take(o, q, ctx, k) ==
    LET item == items[o][k]
        topics == BroadTopics(item, q)
        broad == ~SpecificMatch(item, q) /\ topics # {}
    IN IF \/ Cardinality(ctx.keys) >= MaxItems
          \/ broad /\ (ctx.broad >= MaxBroad \/ topics \subseteq ctx.topics)
          \/ ctx.size + LineSize(o, k) > MaxContext
       THEN ctx
       ELSE [keys |-> ctx.keys \cup {k}, size |-> ctx.size + LineSize(o, k),
             broad |-> ctx.broad + (IF broad THEN 1 ELSE 0),
             topics |-> IF broad THEN ctx.topics \cup topics ELSE ctx.topics]

Context(o, q, ranking) ==
    FoldLeft(LAMBDA ctx, k : Take(o, q, ctx, k), NoContext, ranking)

\* retrieve_memory_context_observed: a message without signals retrieves nothing.
LearnedContexts(o, q) ==
    IF Signals(q) = {} THEN {NoContext} ELSE {Context(o, q, r) : r \in Rankings(o, q)}

(***************************************************************************)
(* New Chat follow-ups.                                                    *)
(***************************************************************************)
\* get_memory_follow_up_by_claim: a browser retries with the claim key it has, here itself.
Answered(o, b) == \E d \in delivered : d.owner = o /\ d.claim = b

\* Follow-ups an owner scope can see: a guest that has logged in has none left.
Undelivered(o) == {k \in KeysOf(o) : \A d \in delivered : ~(d.owner = o /\ d.key = k)}

Eligible(o, k, at) ==
    LET item == items[o][k] IN
    /\ item.kind \in TemporalKinds /\ item.conf >= 80 /\ item.importance >= 65
    /\ at - item.reinforced <= MaxAge /\ item.expires > at
    /\ ~Sensitive(item) /\ ~PromptInjection(item) /\ ~Resolved(item)

\* find_memory_follow_up_candidates and select_follow_up_candidate: the first that is
\* eligible, by importance, confidence and recency.
Rank(o, k) == <<items[o][k].importance, items[o][k].conf, items[o][k].reinforced>>
Before(a, b) == \/ a[1] > b[1]
                \/ a[1] = b[1] /\ a[2] > b[2]
                \/ a[1] = b[1] /\ a[2] = b[2] /\ a[3] > b[3]

\* The reads of claim_persona_follow_up: no delivery for the key yet, and a memory to ask
\* about.  (A delivery made between the two reads is met again by the claim.)
SelectFollowUp(b) ==
    LET o == IF promoted THEN "account" ELSE HomeOf[b]
        found == {k \in Undelivered(o) : Eligible(o, k, now)}
    IN /\ ask[b].pc = "idle" /\ ~Answered(o, b)
       /\ \E k \in found :
            /\ \A other \in found : ~Before(Rank(o, other), Rank(o, k))
            /\ ask' = [ask EXCEPT ![b] = [pc |-> "claim", owner |-> o, key |-> k,
                                         updated |-> items[o][k].updated, now |-> now]]
       /\ UNCHANGED <<turns, job, worker, items, delivered, now>>

RecentlyShown(o, at) == \E d \in delivered : d.owner = o /\ d.shown > at - Window

StillClaimable(b) ==
    LET o == ask[b].owner
        k == ask[b].key
    IN /\ Exists(o, k) /\ k \in Undelivered(o)
       /\ items[o][k].kind \in TemporalKinds
       /\ items[o][k].conf >= 80 /\ items[o][k].importance >= 65
       /\ items[o][k].expires > ask[b].now
       /\ items[o][k].updated = ask[b].updated

MutClaimFollowUp(b) ==
    /\ ask[b].pc = "claim"
    /\ LET o == ask[b].owner IN
       IF Answered(o, b) \/ ~StillClaimable(b)
       THEN UNCHANGED delivered
       ELSE delivered' = delivered \cup {[owner |-> o, by |-> o, key |-> ask[b].key,
                                          claim |-> b, shown |-> ask[b].now]}
    /\ ask' = [ask EXCEPT ![b] = NoAsk]
    /\ UNCHANGED <<turns, job, worker, items, now>>

\* claim_memory_follow_up: the row of an earlier use of the key answers; nothing within the
\* window; the item as it was selected and not delivered since.
ClaimFollowUp(b) ==
    /\ ask[b].pc = "claim"
    /\ LET o == ask[b].owner IN
       IF \/ Answered(o, b)
          \/ RecentlyShown(o, ask[b].now)
          \/ ~StillClaimable(b)
       THEN UNCHANGED delivered
       ELSE delivered' = delivered \cup {[owner |-> o, by |-> o, key |-> ask[b].key,
                                          claim |-> b, shown |-> ask[b].now]}
    /\ ask' = [ask EXCEPT ![b] = NoAsk]
    /\ UNCHANGED <<turns, job, worker, items, now>>

Tick ==
    /\ now < Horizon
    /\ now' = now + 1
    /\ UNCHANGED <<turns, job, worker, items, asking>>

Init ==
    /\ sent = {} /\ live = {} /\ chats = Chats /\ promoted = FALSE
    /\ job = [m \in Messages |-> NoJob]
    /\ worker = [w \in Workers |-> Idle]
    /\ items = [o \in Owners |-> [k \in Keys |-> NoItem]]
    /\ delivered = {}
    /\ ask = [b \in Browsers |-> NoAsk]
    /\ now = 0

\* What goes on by itself: the workers' loops and time.
CaptureGoesOn ==
    \/ \E w \in Workers : Claim(w) \/ Extract(w) \/ ExtractionFails(w) \/ Apply(w)
    \/ \E m \in Messages : LockExpires(m)

Next ==
    \/ CaptureGoesOn
    \/ \E m \in Messages : StoreTurn(m)
    \/ \E c \in Chats : ClearMessages(c) \/ DeleteChat(c)
    \/ \E o \in Owners : ResetLearnedContext(o)
    \/ Promote
    \/ \E w \in Workers : WorkerLost(w)
    \/ \E b \in Browsers : SelectFollowUp(b) \/ ClaimFollowUp(b)
    \/ Tick

(***************************************************************************)
(* The worker loop polls forever, the provider call ends (the HTTP client  *)
(* has a timeout) and locks grow old: capture as a whole never stops while *)
(* a step of it is possible.  Nobody has to send, ask or delete.           *)
(***************************************************************************)
Fairness == WF_vars(CaptureGoesOn)

Spec == Init /\ [][Next]_vars /\ Fairness

(***************************************************************************)
(* Properties.                                                             *)
(***************************************************************************)
\* Whatever was cleared, deleted, replaced or merged, every memory rests on messages that are
\* still stored in chats of its owner, and its confidence is the one of exactly that evidence.
ItemsSupported ==
    \A o \in Owners, k \in Keys : Exists(o, k) =>
        /\ \A s \in items[o][k].sources : s.msg \in live /\ OwnerOf(ChatOf[s.msg]) = o
        /\ items[o][k].conf = Confidence(items[o][k].sources)
        /\ items[o][k].reinforced = LastReinforced(items[o][k].sources)
        /\ \A s, t \in items[o][k].sources : s.msg = t.msg => s = t

TurnState(m) ==
    IF m \notin sent THEN "none"
    ELSE CASE job[m].status = "none" -> "dropped"
           [] job[m].status = "completed" -> "captured"
           [] job[m].status = "dead" -> "dead"
           [] OTHER -> "queued"

TurnStates == [m \in Messages |-> TurnState(m)]
Learnt == {s.msg : s \in UNION {items[o][k].sources : o \in Owners, k \in Keys}}

Outbox == INSTANCE CaptureOutbox WITH Turns <- Messages, turn <- TurnStates, evidence <- Learnt

\* Jobs, retries, stale locks, two workers on one job and lost workers implement the outbox:
\* each turn is captured at most once and nothing is learned from a withdrawn one.
ImplementsOutbox == Outbox!Spec

\* Follow-ups that one owner scope has claimed keep their distance, use a key once and an item
\* once, however many requests race with what they have selected.
FollowUpsSpaced ==
    \A d, e \in delivered : d # e =>
        /\ d.claim # e.claim
        /\ d.by = e.by => d.key # e.key /\ (d.shown - e.shown >= Window \/ e.shown - d.shown >= Window)

\* A job whose last permitted attempt was lost: no claim selects it and nobody holds it.
Abandoned(m) ==
    /\ job[m].status = "processing" /\ job[m].attempts = MaxAttempts
    /\ \A w \in Workers : worker[w].pc # "idle" => worker[w].msg # m

\* Every queued capture ends, unless the worker of its last attempt is lost.
JobSettles ==
    \A m \in Messages :
        (TurnState(m) = "queued") ~> (TurnState(m) # "queued" \/ Abandoned(m))

\* The learned context of a prompt stays within every limit, holds no broad match where a
\* specific one would have fitted, whatever the scores and however the items came about.
ContextBounded ==
    \A o \in Owners, q \in Queries : \A ctx \in LearnedContexts(o, q) :
        LET broad == {k \in ctx.keys : ~SpecificMatch(items[o][k], q)}
        IN /\ Cardinality(ctx.keys) <= MaxItems
           /\ Cardinality(broad) <= MaxBroad
           /\ ctx.size <= MaxContext
           /\ \A k \in Relevant(o, q) \ ctx.keys :
                SpecificMatch(items[o][k], q) /\ Cardinality(ctx.keys) < MaxItems
                    => ctx.size + LineSize(o, k) > MaxContext
=============================================================================
