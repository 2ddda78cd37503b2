--------------------------- MODULE ChatSendProofs ---------------------------
(***************************************************************************)
(* Proofs about ChatSend, for any number of requests, sessions and chats,  *)
(* any limits, any payloads and any number of restarts, and about          *)
(* ProviderStream, for replies of any length cut anywhere.                 *)
(***************************************************************************)
EXTENDS ChatSend, ProviderStream, InductionLemmas, FiniteSetTheorems, SequenceTheorems, TLAPS

Message == [role : {"user", "assistant"}, by : Requests \cup {"prompt"}, len : Nat]

\* Histories a request can hold; what BoundedHistory selects does not matter here.
Histories == {<<>>} \cup {BoundedHistory(msgs) : msgs \in Seq(Message)}

Event == [event : {"message_start", "token", "message_done", "error"}, len : Nat]

\* Where a request holds the permit of its chat.
Holding == {"chat", "history", "quota", "start", "generate", "append", "reread", "tell",
            "clear", "drop"}

RequestRecord ==
    [kind : {"none", "send", "stream", "clear"},
     pc : Holding \cup {"idle", "unit", "end"},
     session : Sessions \cup {NoRequest.session},
     chat : Chats \cup {NoRequest.chat},
     payload : Payloads \cup {NoRequest.payload},
     context : Histories,
     out : Nat, conn : BOOLEAN, sent : Seq(Event), unread : Nat,
     outcome : {"none", "done", "error", "dropped"}]

ChatRecord == [state : {"unborn", "live", "deleted"}, owner : Owners \cup {NoChat.owner},
               msgs : Seq(Message)]

\* Types.
TypeOK ==
    /\ chats \in [Chats -> ChatRecord]
    /\ perSession \in [Sessions -> Int]
    /\ req \in [Requests -> RequestRecord]
    /\ stored \in SUBSET Requests
    /\ crashes \in Nat

\* A request that runs has a session and a chat; a clear only clears and drops
\* its permit; a turn is stored by the last step before the answer.
ControlOK ==
    \A r \in Requests :
        /\ req[r].pc \notin {"idle", "end"} =>
             req[r].kind # "none" /\ req[r].session \in Sessions /\ req[r].chat \in Chats
        /\ req[r].kind = "clear" => req[r].pc \in {"clear", "drop"}
        /\ req[r].pc = "clear" => req[r].kind = "clear"
        /\ r \in stored => req[r].pc \in {"reread", "tell", "drop", "unit", "end"}

\* Every stored question was answered from the history before it.
AnsweredInContext ==
    \A c \in Chats : \A i \in 1..Len(chats[c].msgs) :
        LET m == chats[c].msgs[i]
        IN  m.role = "user" =>
              m.by \in stored /\ req[m.by].context = BoundedHistory(SubSeq(chats[c].msgs, 1, i - 1))

\* From the read of the history to the append nothing changes a live chat's messages.
ContextCurrent ==
    \A r \in Requests :
        /\ req[r].pc \in {"history", "quota", "start", "generate", "append"} =>
             chats[req[r].chat].state # "unborn"
        /\ req[r].pc \in {"quota", "start", "generate", "append"}
           /\ chats[req[r].chat].state = "live" =>
             req[r].context = BoundedHistory(chats[req[r].chat].msgs)

ChatSendInv == TypeOK /\ ControlOK /\ LimiterBalanced /\ AnsweredInContext /\ ContextCurrent

\* The tokens a request has streamed are its reply: no output before the start, then
\* each token counts on both sides, until the reply is stored and announced.
TokensOK(x) ==
    /\ x.pc \in {"chat", "history", "quota", "start"} => x.out = 0
    /\ x.kind = "stream" /\ x.pc \in {"generate", "append", "reread"} => Chars(x.sent) = x.out
    /\ x.outcome = "done" /\ x.pc = "tell" => Chars(x.sent) = x.out
    /\ \A i \in 1..Len(x.sent) : x.sent[i].event = "message_done" => Chars(x.sent) = x.out

\* What a client was told is true because message_done is sent by the last step before
\* the permit is dropped, of a turn that is stored, after all of its tokens.
DoneInv ==
    \A r \in Requests :
        /\ TokensOK(req[r])
        /\ req[r].pc = "reread" \/ (req[r].outcome = "done" /\ req[r].pc = "tell") => r \in stored
        /\ \A i \in 1..Len(req[r].sent) :
             req[r].sent[i].event = "message_done" =>
               i = Len(req[r].sent) /\ r \in stored /\ req[r].pc \in {"drop", "unit"}

-----------------------------------------------------------------------------
(* Records. *)

\* The fields of an idle request.
LEMMA NoRequestFields ==
    \E s, c, p : NoRequest = [kind |-> "none", pc |-> "idle", session |-> s, chat |-> c,
                              payload |-> p, context |-> <<>>, out |-> 0, conn |-> TRUE,
                              sent |-> <<>>, unread |-> 0, outcome |-> "none"]
<1> DEFINE s == CHOOSE s \in Sessions : TRUE
           c == CHOOSE c \in Chats : TRUE
           p == [len |-> 0, images |-> <<>>]
<1> WITNESS s, c, p
<1> QED
  BY DEF NoRequest

\* A request not yet made, a chat not made and a deleted chat are of their types.
LEMMA InitialRecords ==
    /\ NoRequest \in RequestRecord
    /\ NoChat \in ChatRecord
    /\ DeletedChat \in ChatRecord
<1>1. <<>> \in Seq(Message) /\ <<>> \in Seq(Event) /\ <<>> \in Histories
  BY DEF Histories
<1>2. NoChat \in ChatRecord /\ DeletedChat \in ChatRecord
  BY <1>1 DEF NoChat, ChatRecord, DeletedChat
<1>3. NoRequest \in RequestRecord
  <2>1. PICK s, c, p : NoRequest = [kind |-> "none", pc |-> "idle", session |-> s, chat |-> c,
                                    payload |-> p, context |-> <<>>, out |-> 0, conn |-> TRUE,
                                    sent |-> <<>>, unread |-> 0, outcome |-> "none"]
    BY NoRequestFields
  <2> QED
    BY <1>1, <2>1 DEF RequestRecord, Holding
<1> QED
  BY <1>2, <1>3

\* A request that has ended keeps only the context of a stored turn.
LEMMA EndedRecord ==
    ASSUME TypeOK, NEW r \in Requests
    PROVE  /\ Ended(r) \in RequestRecord
           /\ Ended(r).pc = "end" /\ Ended(r).kind = "none" /\ Ended(r).sent = <<>>
           /\ r \in stored => Ended(r).context = req[r].context
<1>1. req[r].context \in Histories /\ <<>> \in Histories
  BY DEF TypeOK, RequestRecord, Histories
<1>2. PICK s, c, p : NoRequest = [kind |-> "none", pc |-> "idle", session |-> s, chat |-> c,
                                  payload |-> p, context |-> <<>>, out |-> 0, conn |-> TRUE,
                                  sent |-> <<>>, unread |-> 0, outcome |-> "none"]
  BY NoRequestFields
<1>3. <<>> \in Seq(Event)
  OBVIOUS
<1> QED
  BY <1>1, <1>2, <1>3 DEF RequestRecord, Ended

\* A request that gives up keeps its permit and what it was told.
LEMMA GivesUpRecord ==
    ASSUME TypeOK, NEW r \in Requests, NEW outcome \in {"done", "error", "dropped"}, NEW pc \in Holding
    PROVE  /\ GivesUp(r, outcome, pc) \in RequestRecord
           /\ GivesUp(r, outcome, pc).kind = req[r].kind
           /\ GivesUp(r, outcome, pc).session = req[r].session
           /\ GivesUp(r, outcome, pc).chat = req[r].chat
           /\ GivesUp(r, outcome, pc).pc = pc
           /\ GivesUp(r, outcome, pc).outcome = outcome
           /\ GivesUp(r, outcome, pc).sent = req[r].sent
           /\ r \in stored => GivesUp(r, outcome, pc).context = req[r].context
           /\ r \in stored => GivesUp(r, outcome, pc).out = req[r].out
<1> DEFINE x == req[r]
           context == IF r \in stored THEN x.context ELSE <<>>
           out == IF r \in stored THEN x.out ELSE 0
           payload == NoRequest.payload
<1>1. x \in RequestRecord
  BY DEF TypeOK
<1>2. context \in Histories /\ out \in Nat /\ payload \in Payloads \cup {NoRequest.payload}
  BY <1>1 DEF Histories, RequestRecord
<1>3. GivesUp(r, outcome, pc) = [x EXCEPT !.outcome = outcome, !.pc = pc, !.payload = payload,
                                          !.context = context, !.out = out]
  BY <1>1 DEF GivesUp, RequestRecord
<1>4. r \in stored => context = x.context /\ out = x.out
  OBVIOUS
<1> HIDE DEF x, context, out, payload
<1>5. /\ GivesUp(r, outcome, pc) \in RequestRecord
      /\ GivesUp(r, outcome, pc).kind = x.kind
      /\ GivesUp(r, outcome, pc).session = x.session
      /\ GivesUp(r, outcome, pc).chat = x.chat
      /\ GivesUp(r, outcome, pc).pc = pc
      /\ GivesUp(r, outcome, pc).outcome = outcome
      /\ GivesUp(r, outcome, pc).sent = x.sent
      /\ GivesUp(r, outcome, pc).context = context
      /\ GivesUp(r, outcome, pc).out = out
  BY <1>1, <1>2, <1>3, ZenonT(60) DEF RequestRecord
<1> QED
  BY <1>4, <1>5 DEF x

-----------------------------------------------------------------------------
(* One request moves on and keeps its permit. *)

\* Request r becomes new without giving anything back.
Advances(r, new) ==
    /\ req' = [req EXCEPT ![r] = new]
    /\ new \in RequestRecord
    /\ new.kind = req[r].kind /\ new.session = req[r].session /\ new.chat = req[r].chat
    /\ \/ new.pc = req[r].pc
       \/ /\ req[r].pc \in Holding /\ new.pc \in Holding
          /\ new.pc = "clear" => req[r].kind = "clear"
          /\ req[r].kind = "clear" => new.pc \in {"clear", "drop"}

\* A request that moves without taking or giving a permit leaves the limiter balanced.
LEMMA AdvanceLimiter ==
    ASSUME TypeOK, LimiterBalanced, NEW r \in Requests, NEW new, Advances(r, new), UNCHANGED limiter
    PROVE  LimiterBalanced' /\ req' \in [Requests -> RequestRecord]
<1>1. \A q \in Requests : req'[q] = IF q = r THEN new ELSE req[q]
  BY DEF Advances, TypeOK
<1>2. req' \in [Requests -> RequestRecord]
  BY DEF Advances, TypeOK
<1>3. \A q \in Requests : /\ req'[q].chat = req[q].chat /\ req'[q].session = req[q].session
                          /\ HoldsChat(q)' <=> HoldsChat(q)
                          /\ HoldsSession(q)' <=> HoldsSession(q)
                          /\ HoldsUnit(q)' <=> HoldsUnit(q)
  BY <1>1 DEF Advances, Holding, HoldsChat, HoldsSession, HoldsUnit
<1>4. /\ {req'[q].chat : q \in {p \in Requests : HoldsChat(p)'}}
           = {req[q].chat : q \in {p \in Requests : HoldsChat(p)}}
      /\ \A s \in Sessions : {q \in Requests : HoldsSession(q)' /\ req'[q].session = s}
                               = {q \in Requests : HoldsSession(q) /\ req[q].session = s}
      /\ {q \in Requests : HoldsUnit(q)'} = {q \in Requests : HoldsUnit(q)}
  BY <1>3
<1>5. LimiterBalanced'
  BY <1>3, <1>4 DEF LimiterBalanced, limiter
<1> QED
  BY <1>2, <1>5

\* ... and neither the tables nor the set of stored turns change.
LEMMA AdvanceTurns ==
    ASSUME ChatSendInv, NEW r \in Requests, NEW new, Advances(r, new),
           UNCHANGED <<chats, limiter, stored, crashes>>,
           r \in stored => new.context = req[r].context /\ new.pc \in {"reread", "tell", "drop", "unit", "end"},
           new.pc \in {"history", "quota", "start", "generate", "append"} =>
             chats[req[r].chat].state # "unborn",
           new.pc \in {"quota", "start", "generate", "append"} /\ chats[req[r].chat].state = "live" =>
             new.context = BoundedHistory(chats[req[r].chat].msgs)
    PROVE  ChatSendInv'
<1> USE DEF ChatSendInv
<1>1. \A q \in Requests : req'[q] = IF q = r THEN new ELSE req[q]
  BY DEF Advances, TypeOK
<1>2. LimiterBalanced' /\ req' \in [Requests -> RequestRecord]
  BY AdvanceLimiter
<1>3. TypeOK'
  BY <1>2 DEF TypeOK, limiter
<1>4. ControlOK'
  BY <1>1 DEF ControlOK, Advances, Holding
<1>5. \A q \in stored : req'[q].context = req[q].context
  BY <1>1 DEF TypeOK
<1>6. AnsweredInContext'
  BY <1>5 DEF AnsweredInContext
<1>7. ContextCurrent'
  BY <1>1 DEF ContextCurrent, Advances
<1> QED
  BY <1>2, <1>3, <1>4, <1>6, <1>7

-----------------------------------------------------------------------------
(* The steps that keep their permit and leave the tables alone. *)

\* An error at any point before the drop.
LEMMA FailsStep ==
    ASSUME ChatSendInv, NEW r \in Requests, NEW outcome \in {"done", "error", "dropped"},
           NEW pc \in {"tell", "drop"}, req[r].pc \in Holding, pc = "tell" => req[r].kind # "clear",
           Ends(r, outcome, pc), UNCHANGED <<chats, limiter, stored, crashes>>
    PROVE  ChatSendInv'
<1> DEFINE new == GivesUp(r, outcome, pc)
<1>1. pc \in Holding
  BY DEF Holding
<1>2. /\ new \in RequestRecord
      /\ new.kind = req[r].kind /\ new.session = req[r].session /\ new.chat = req[r].chat
      /\ new.pc = pc /\ (r \in stored => new.context = req[r].context)
  BY <1>1, GivesUpRecord DEF ChatSendInv
<1>3. req' = [req EXCEPT ![r] = new]
  BY DEF Ends
<1> HIDE DEF new
<1>4. Advances(r, new)
  BY <1>1, <1>2, <1>3 DEF Advances
<1> QED
  BY <1>2, <1>4, AdvanceTurns

\* A request that fails while it holds its permit keeps the invariant.
LEMMA FailsNow ==
    ASSUME ChatSendInv, NEW r \in Requests, req[r].pc \in Holding, Fails(r),
           UNCHANGED <<chats, limiter, stored, crashes>>
    PROVE  ChatSendInv'
<1>1. PICK pc \in {"tell", "drop"} : Ends(r, "error", pc) /\ (pc = "tell" => req[r].kind = "stream")
  BY DEF Fails, Spawned
<1> QED
  BY <1>1, FailsStep

\* A step to the next point of the handler; the context is the one it read.
LEMMA GotoStep ==
    ASSUME ChatSendInv, NEW r \in Requests, NEW pc \in Holding, Goto(r, pc),
           UNCHANGED <<chats, limiter, stored, crashes>>,
           req[r].pc \in Holding, r \notin stored, req[r].kind # "clear", pc # "clear",
           pc \in {"history", "quota", "start", "generate", "append"} =>
             chats[req[r].chat].state # "unborn",
           pc \in {"quota", "start", "generate", "append"} =>
             req[r].pc \in {"quota", "start", "generate", "append"}
    PROVE  ChatSendInv'
<1> DEFINE new == [req[r] EXCEPT !.pc = pc]
<1>1. req[r] \in RequestRecord
  BY DEF ChatSendInv, TypeOK
<1>2. /\ new \in RequestRecord
      /\ new.kind = req[r].kind /\ new.session = req[r].session /\ new.chat = req[r].chat
      /\ new.pc = pc /\ new.context = req[r].context
  BY <1>1 DEF RequestRecord
<1>3. req' = [req EXCEPT ![r] = new]
  BY DEF Goto
<1> HIDE DEF new
<1>4. Advances(r, new)
  BY <1>2, <1>3 DEF Advances
<1>5. new.pc \in {"quota", "start", "generate", "append"} /\ chats[req[r].chat].state = "live" =>
         new.context = BoundedHistory(chats[req[r].chat].msgs)
  BY <1>2 DEF ChatSendInv, ContextCurrent
<1> QED
  BY <1>2, <1>4, <1>5, AdvanceTurns

\* The reads before the generation keep the invariant.
LEMMA PrepareSteps ==
    ASSUME ChatSendInv, NEW r \in Requests, Prepares(r)
    PROVE  ChatSendInv'
<1> USE DEF ChatSendInv
<1>0. req[r] \in RequestRecord /\ (req[r].pc \in Holding => (r \in stored => req[r].pc \in {"reread", "tell", "drop"}))
  BY DEF TypeOK, ControlOK, Holding
<1>1. CASE LoadChat(r)
  <2>1. At(r, "chat") /\ UNCHANGED <<chats, limiter, stored, crashes>>
    BY <1>1 DEF LoadChat
  <2>2. req[r].pc \in Holding /\ r \notin stored /\ req[r].kind # "clear"
    BY <2>1 DEF At, Holding, ControlOK
  <2>3. CASE Fails(r)
    BY <2>1, <2>2, <2>3, FailsNow
  <2>4. CASE Visible(req[r].chat, req[r].session) /\ Goto(r, "history")
    <3>1. chats[req[r].chat].state # "unborn" /\ "history" \in Holding
      BY <2>4 DEF Visible, Holding
    <3> QED
      BY <2>1, <2>2, <2>4, <3>1, GotoStep
  <2> QED
    BY <1>1, <2>3, <2>4 DEF LoadChat
<1>2. CASE LoadHistory(r)
  <2> DEFINE msgs == chats[req[r].chat].msgs
             new == [req[r] EXCEPT !.pc = "quota", !.context = BoundedHistory(msgs)]
  <2>1. At(r, "history") /\ UNCHANGED <<chats, limiter, stored, crashes>>
    BY <1>2 DEF LoadHistory
  <2>2. /\ req[r].pc \in Holding /\ r \notin stored /\ req[r].kind # "clear"
        /\ chats[req[r].chat].state # "unborn" /\ req[r].chat \in Chats
    BY <2>1 DEF At, Holding, ControlOK, ContextCurrent
  <2>3. CASE Fails(r)
    BY <2>1, <2>2, <2>3, FailsNow
  <2>4. CASE req' = [req EXCEPT ![r].pc = "quota", ![r].context = BoundedHistory(msgs)]
    <3>1. BoundedHistory(msgs) \in Histories
      BY <2>2 DEF Histories, TypeOK, ChatRecord
    <3>2. req' = [req EXCEPT ![r] = new]
      BY <1>0, <2>4 DEF TypeOK, RequestRecord
    <3>3. /\ new \in RequestRecord
          /\ new.kind = req[r].kind /\ new.session = req[r].session /\ new.chat = req[r].chat
          /\ new.pc = "quota" /\ new.context = BoundedHistory(msgs)
      BY <1>0, <3>1 DEF RequestRecord, Holding
    <3> HIDE DEF new
    <3>4. Advances(r, new)
      BY <2>2, <3>2, <3>3 DEF Advances, Holding
    <3> QED
      BY <2>1, <2>2, <3>3, <3>4, AdvanceTurns
  <2> QED
    BY <1>2, <2>3, <2>4 DEF LoadHistory
<1>3. CASE AdmitGeneration(r)
  <2>1. At(r, "quota") /\ UNCHANGED <<chats, limiter, stored, crashes>>
    BY <1>3 DEF AdmitGeneration
  <2>2. /\ req[r].pc \in Holding /\ r \notin stored /\ req[r].kind # "clear"
        /\ chats[req[r].chat].state # "unborn" /\ req[r].pc = "quota"
    BY <2>1 DEF At, Holding, ControlOK, ContextCurrent
  <2>3. PICK pc \in {"start", "generate"} : Goto(r, pc)
    BY <1>3 DEF AdmitGeneration
  <2>4. pc \in Holding
    BY DEF Holding
  <2> QED
    BY <2>1, <2>2, <2>3, <2>4, GotoStep
<1>4. CASE RequestFails(r)
  BY <1>4, FailsNow DEF RequestFails, Holding
<1> QED
  BY <1>1, <1>2, <1>3, <1>4 DEF Prepares

\* A step of the stream that changes what was sent or produced, not the context.
LEMMA StreamStep ==
    ASSUME ChatSendInv, NEW r \in Requests, NEW new, req' = [req EXCEPT ![r] = new],
           new \in RequestRecord,
           new.kind = req[r].kind, new.session = req[r].session, new.chat = req[r].chat,
           new.context = req[r].context,
           \/ new.pc = req[r].pc
           \/ req[r].pc \in {"start", "generate"} /\ new.pc \in {"generate", "append"}
           \/ req[r].pc = "tell" /\ new.pc = "drop",
           UNCHANGED <<chats, limiter, stored, crashes>>
    PROVE  ChatSendInv'
<1> USE DEF ChatSendInv
<1>1. req[r].pc \in {"start", "generate", "tell"} => req[r].kind # "clear"
  BY DEF ControlOK
<1>2. Advances(r, new)
  BY <1>1 DEF Advances, Holding
<1>3. r \in stored => new.context = req[r].context /\ new.pc \in {"reread", "tell", "drop", "unit", "end"}
  BY DEF ControlOK
<1>4. /\ new.pc \in {"history", "quota", "start", "generate", "append"} =>
           chats[req[r].chat].state # "unborn"
      /\ new.pc \in {"quota", "start", "generate", "append"} /\ chats[req[r].chat].state = "live" =>
           new.context = BoundedHistory(chats[req[r].chat].msgs)
  BY DEF ContextCurrent
<1> QED
  BY <1>2, <1>3, <1>4, AdvanceTurns

\* The provider's tokens, end and failure keep the invariant.
LEMMA GenerateSteps ==
    ASSUME ChatSendInv, NEW r \in Requests, Generates(r)
    PROVE  ChatSendInv'
<1> USE DEF ChatSendInv
<1>0. req[r] \in RequestRecord
  BY DEF TypeOK
<1>1. UNCHANGED <<chats, limiter, stored, crashes>>
  BY DEF Generates, SendStart, StreamEnds, ProviderFails, Token, Completes
<1>2. req[r].pc \in {"start", "generate"} /\ req[r].pc \in Holding
  BY DEF Generates, SendStart, StreamEnds, ProviderFails, Token, Completes, At, Holding
<1>3. CASE Fails(r)
  BY <1>1, <1>2, <1>3, FailsNow
<1>4. CASE Ends(r, "dropped", "drop")
  BY <1>1, <1>2, <1>4, FailsStep
<1>5. CASE req' = [req EXCEPT ![r].pc = "generate",
                              ![r].sent = <<[event |-> "message_start", len |-> 0]>>,
                              ![r].unread = @ + 1]
  <2> DEFINE events == <<[event |-> "message_start", len |-> 0]>>
             unread == req[r].unread + 1
             new == [req[r] EXCEPT !.pc = "generate", !.sent = events, !.unread = unread]
  <2>1. events \in Seq(Event) /\ unread \in Nat
    BY <1>0 DEF Event, RequestRecord
  <2>2. req' = [req EXCEPT ![r] = new]
    BY <1>0, <1>5 DEF TypeOK, RequestRecord
  <2> HIDE DEF events, unread
  <2>3. /\ new \in RequestRecord
        /\ new.kind = req[r].kind /\ new.session = req[r].session /\ new.chat = req[r].chat
        /\ new.context = req[r].context /\ new.pc = "generate"
    BY <1>0, <2>1 DEF RequestRecord, Holding
  <2> HIDE DEF new
  <2> QED
    BY <1>1, <1>2, <2>2, <2>3, StreamStep
<1>6. CASE Goto(r, "append")
  <2> DEFINE new == [req[r] EXCEPT !.pc = "append"]
  <2>1. req' = [req EXCEPT ![r] = new]
    BY <1>6 DEF Goto
  <2>2. /\ new \in RequestRecord
        /\ new.kind = req[r].kind /\ new.session = req[r].session /\ new.chat = req[r].chat
        /\ new.context = req[r].context /\ new.pc = "append"
    BY <1>0 DEF RequestRecord, Holding
  <2> HIDE DEF new
  <2> QED
    BY <1>1, <1>2, <2>1, <2>2, StreamStep
<1>7. ASSUME NEW n \in Chunks,
             req' = [req EXCEPT ![r].out = @ + n, ![r].unread = @ + 1,
                                ![r].sent = Append(@, [event |-> "token", len |-> n])]
      PROVE  ChatSendInv'
  <2> DEFINE events == Append(req[r].sent, [event |-> "token", len |-> n])
             out == req[r].out + n
             unread == req[r].unread + 1
             new == [req[r] EXCEPT !.out = out, !.unread = unread, !.sent = events]
  <2>1. n \in Nat /\ out \in Nat /\ unread \in Nat
    <3>1. n \in Nat
      BY ChatSendAssumption DEF ChatSendAssumption
    <3> QED
      BY <1>0, <3>1 DEF RequestRecord
  <2>2. events \in Seq(Event)
    <3>1. [event |-> "token", len |-> n] \in Event /\ req[r].sent \in Seq(Event)
      BY <1>0, <2>1 DEF Event, RequestRecord
    <3> QED
      BY <3>1, AppendProperties
  <2>3. req' = [req EXCEPT ![r] = new]
    BY <1>0, <1>7 DEF TypeOK, RequestRecord
  <2> HIDE DEF events, out, unread
  <2>4. /\ new \in RequestRecord
        /\ new.kind = req[r].kind /\ new.session = req[r].session /\ new.chat = req[r].chat
        /\ new.context = req[r].context /\ new.pc = req[r].pc
    BY <1>0, <2>1, <2>2 DEF RequestRecord
  <2> HIDE DEF new
  <2> QED
    BY <1>1, <1>2, <2>3, <2>4, StreamStep
<1>8. ASSUME NEW n \in Chunks, req' = [req EXCEPT ![r].pc = "append", ![r].out = n]
      PROVE  ChatSendInv'
  <2> DEFINE new == [req[r] EXCEPT !.pc = "append", !.out = n]
  <2>1. n \in Nat
    BY ChatSendAssumption DEF ChatSendAssumption
  <2>2. req' = [req EXCEPT ![r] = new]
    BY <1>0, <1>8 DEF TypeOK, RequestRecord
  <2>3. /\ new \in RequestRecord
        /\ new.kind = req[r].kind /\ new.session = req[r].session /\ new.chat = req[r].chat
        /\ new.context = req[r].context /\ new.pc = "append"
    BY <1>0, <2>1 DEF RequestRecord, Holding
  <2> HIDE DEF new
  <2> QED
    BY <1>1, <1>2, <2>2, <2>3, StreamStep
<1> QED
  BY <1>3, <1>4, <1>5, <1>6, <1>7, <1>8
     DEF Generates, SendStart, StreamEnds, ProviderFails, Token, Completes

\* A client that reads, leaves or is cut off keeps the invariant.
LEMMA ClientSteps ==
    ASSUME ChatSendInv, NEW r \in Requests, ClientActs(r)
    PROVE  ChatSendInv'
<1> USE DEF ChatSendInv
<1>0. req[r] \in RequestRecord
  BY DEF TypeOK
<1>1. UNCHANGED <<chats, limiter, stored, crashes>>
  BY DEF ClientActs, ClientReads, Disconnect
<1>2. CASE ClientReads(r)
  <2> DEFINE new == [req[r] EXCEPT !.unread = req[r].unread - 1]
  <2>1. req' = [req EXCEPT ![r] = new] /\ req[r].unread > 0
    BY <1>2 DEF ClientReads
  <2>2. req[r].unread - 1 \in Nat
    BY <1>0, <2>1 DEF RequestRecord
  <2>3. /\ new \in RequestRecord
        /\ new.kind = req[r].kind /\ new.session = req[r].session /\ new.chat = req[r].chat
        /\ new.context = req[r].context /\ new.pc = req[r].pc
    BY <1>0, <2>2 DEF RequestRecord
  <2> HIDE DEF new
  <2> QED
    BY <1>1, <2>1, <2>3, StreamStep
<1>3. CASE Disconnect(r)
  <2>1. req[r].pc \in Holding \cup {"unit"}
    BY <1>0, <1>3 DEF Disconnect, At, RequestRecord
  <2>2. CASE Spawned(r) \/ req[r].pc \in {"drop", "unit"}
    <3> DEFINE new == [req[r] EXCEPT !.conn = FALSE, !.unread = 0]
    <3>1. req' = [req EXCEPT ![r] = new]
      BY <1>3, <2>2 DEF Disconnect
    <3>2. /\ new \in RequestRecord
          /\ new.kind = req[r].kind /\ new.session = req[r].session /\ new.chat = req[r].chat
          /\ new.context = req[r].context /\ new.pc = req[r].pc
      BY <1>0 DEF RequestRecord
    <3> HIDE DEF new
    <3> QED
      BY <1>1, <3>1, <3>2, StreamStep
  <2>3. CASE ~(Spawned(r) \/ req[r].pc \in {"drop", "unit"})
    <3> DEFINE gone == GivesUp(r, "dropped", "drop")
               new == [gone EXCEPT !.conn = FALSE, !.unread = 0]
    <3>1. req' = [req EXCEPT ![r] = new]
      BY <1>3, <2>3 DEF Disconnect
    <3>2. /\ gone \in RequestRecord
          /\ gone.kind = req[r].kind /\ gone.session = req[r].session /\ gone.chat = req[r].chat
          /\ gone.pc = "drop" /\ (r \in stored => gone.context = req[r].context)
      BY GivesUpRecord DEF Holding
    <3> HIDE DEF gone
    <3>3. /\ new \in RequestRecord
          /\ new.kind = req[r].kind /\ new.session = req[r].session /\ new.chat = req[r].chat
          /\ new.pc = "drop" /\ (r \in stored => new.context = req[r].context)
      BY <3>2 DEF RequestRecord
    <3> HIDE DEF new
    <3>4. Advances(r, new)
      BY <2>1, <2>3, <3>1, <3>3 DEF Advances, Holding
    <3> QED
      BY <1>1, <3>3, <3>4, AdvanceTurns
  <2> QED
    BY <2>2, <2>3
<1> QED
  BY <1>2, <1>3 DEF ClientActs

-----------------------------------------------------------------------------
(* The steps that change the tables. *)

\* A chat is held by one request.
LEMMA OneHolder ==
    ASSUME ChatSendInv, NEW r \in Requests, NEW q \in Requests, req[r].pc \in Holding,
           req[q].pc \in Holding, req[r].chat = req[q].chat
    PROVE  r = q
  BY DEF ChatSendInv, LimiterBalanced, HoldsChat, Holding

\* A turn put behind a history: what came before each message of the history, and
\* before the question, is what came before it in the history.
LEMMA TurnAppended ==
    ASSUME NEW old \in Seq(Message), NEW u \in Message, NEW a \in Message,
           NEW all, all = old \o <<u, a>>
    PROVE  /\ all \in Seq(Message) /\ Len(all) = Len(old) + 2
           /\ \A i \in 1..Len(old) : /\ all[i] = old[i]
                                     /\ SubSeq(all, 1, i - 1) = SubSeq(old, 1, i - 1)
           /\ all[Len(old) + 1] = u /\ SubSeq(all, 1, Len(old)) = old
           /\ all[Len(old) + 2] = a
<1> DEFINE pair == <<u, a>>
<1>1. pair \in Seq(Message) /\ Len(pair) = 2 /\ pair[1] = u /\ pair[2] = a
  OBVIOUS
<1> HIDE DEF pair
<1>2. Len(old) \in Nat /\ all = old \o pair
  BY DEF pair
<1>3. all \in Seq(Message)
  BY <1>1, <1>2
<1>4. Len(all) = Len(old) + 2
  BY <1>1, <1>2
<1>5. \A i \in 1..Len(old) : all[i] = old[i]
  BY <1>1, <1>2
<1>6. all[Len(old) + 1] = u /\ all[Len(old) + 2] = a
  BY <1>1, <1>2
<1>7. \A i \in 1..Len(old) : SubSeq(all, 1, i - 1) = SubSeq(old, 1, i - 1)
  BY <1>1, <1>2, <1>3, <1>4, <1>5
<1>8. SubSeq(all, 1, Len(old)) = old
  BY <1>1, <1>2, <1>3, <1>4, <1>5
<1> QED
  BY <1>3, <1>4, <1>5, <1>6, <1>7, <1>8

\* The pair is appended to the history its context was taken from.
LEMMA AppendStep ==
    ASSUME ChatSendInv, NEW r \in Requests, AppendTurn(r)
    PROVE  ChatSendInv'
<1> USE DEF ChatSendInv
<1> DEFINE c == req[r].chat
           old == chats[c].msgs
           new == [req[r] EXCEPT !.pc = "reread"]
<1>0. req[r] \in RequestRecord
  BY DEF TypeOK
<1>1. At(r, "append") /\ UNCHANGED <<limiter, crashes>> /\ req[r].pc \in Holding
  BY DEF AppendTurn, At, Holding
<1>2. c \in Chats /\ r \notin stored /\ req[r].kind # "clear"
  BY <1>1 DEF At, ControlOK
<1>3. CASE Fails(r) /\ UNCHANGED <<chats, stored>>
  BY <1>1, <1>3, FailsNow
<1>4. CASE /\ AppendOutcome(r) = "appended"
           /\ chats' = [chats EXCEPT ![c].msgs = WithTurn(@, r)]
           /\ stored' = stored \cup {r}
           /\ Goto(r, "reread")
  <2>1. chats[c].state = "live"
    BY <1>4 DEF AppendOutcome, Visible
  <2>2. old \in Seq(Message) /\ chats[c] \in ChatRecord
    BY <1>2 DEF TypeOK, ChatRecord
  <2>3. /\ UserMessage(r) \in Message /\ UserMessage(r).role = "user" /\ UserMessage(r).by = r
        /\ Reply(r) \in Message /\ Reply(r).role = "assistant"
    <3>1. req[r].payload.len \in Nat /\ req[r].out \in Nat
      <4>1. NoRequest.payload.len = 0
        BY DEF NoRequest
      <4>2. \A p \in Payloads : p.len \in Nat
        BY ChatSendAssumption DEF ChatSendAssumption
      <4> QED
        BY <1>0, <4>1, <4>2 DEF RequestRecord
    <3> QED
      BY <3>1 DEF UserMessage, Reply, Message
  <2>4. PICK all : all = WithTurn(old, r)
    OBVIOUS
  <2>5. /\ all \in Seq(Message) /\ Len(all) = Len(old) + 2
        /\ \A i \in 1..Len(old) : /\ all[i] = old[i]
                                  /\ SubSeq(all, 1, i - 1) = SubSeq(old, 1, i - 1)
        /\ all[Len(old) + 1] = UserMessage(r) /\ SubSeq(all, 1, Len(old)) = old
        /\ all[Len(old) + 2] = Reply(r)
    <3>1. all = old \o <<UserMessage(r), Reply(r)>>
      BY <2>4 DEF WithTurn
    <3>2. old \in Seq(Message) /\ UserMessage(r) \in Message /\ Reply(r) \in Message
      BY <2>2, <2>3
    <3> HIDE DEF old
    <3> QED
      BY <3>1, <3>2, TurnAppended
  <2>6. Len(old) \in Nat
    BY <2>2
  <2>8. /\ chats' \in [Chats -> ChatRecord]
        /\ \A d \in Chats : d # c => chats'[d] = chats[d]
        /\ chats'[c].msgs = all /\ chats'[c].state = "live"
    <3> DEFINE grown == [chats[c] EXCEPT !.msgs = all]
    <3>1. chats' = [chats EXCEPT ![c] = grown]
      BY <1>4, <2>4
    <3>2. grown \in ChatRecord /\ grown.msgs = all /\ grown.state = chats[c].state
      BY <2>2, <2>5 DEF ChatRecord
    <3> HIDE DEF grown
    <3> QED
      BY <1>2, <2>1, <3>1, <3>2 DEF TypeOK
  <2>9. /\ req' = [req EXCEPT ![r] = new]
        /\ new \in RequestRecord
        /\ new.kind = req[r].kind /\ new.session = req[r].session /\ new.chat = req[r].chat
        /\ new.pc = "reread" /\ new.context = req[r].context
    BY <1>0, <1>4 DEF Goto, RequestRecord, Holding
  <2> HIDE DEF new
  <2>10. Advances(r, new)
    BY <1>1, <1>2, <2>9 DEF Advances, Holding
  <2>11. LimiterBalanced' /\ req' \in [Requests -> RequestRecord]
    BY <1>1, <2>10, AdvanceLimiter
  <2>12. TypeOK'
    BY <1>1, <1>4, <2>8, <2>11 DEF TypeOK, limiter
  <2>13. \A q \in Requests : req'[q] = IF q = r THEN new ELSE req[q]
    BY <2>9 DEF TypeOK
  <2>14. ControlOK'
    BY <1>1, <1>2, <1>4, <2>9, <2>13 DEF ControlOK, At
  <2>15. \A q \in Requests : req'[q].context = req[q].context
    BY <2>9, <2>13
  <2>16. req[r].context = BoundedHistory(old)
    BY <1>1, <2>1 DEF ContextCurrent, At
  <2>17. AnsweredInContext'
    <3>0. \A i \in 1..Len(old) : old[i].role = "user" =>
             /\ old[i].by \in stored
             /\ req[old[i].by].context = BoundedHistory(SubSeq(old, 1, i - 1))
      BY <1>2 DEF AnsweredInContext
    <3>1. ASSUME NEW d \in Chats, d # c, NEW i \in 1..Len(chats'[d].msgs),
                 chats'[d].msgs[i].role = "user"
          PROVE  /\ chats'[d].msgs[i].by \in stored'
                 /\ req'[chats'[d].msgs[i].by].context
                      = BoundedHistory(SubSeq(chats'[d].msgs, 1, i - 1))
      BY <1>4, <2>8, <2>15, <3>1 DEF AnsweredInContext, TypeOK
    <3>2. ASSUME NEW i \in 1..Len(all), all[i].role = "user"
          PROVE  all[i].by \in stored' /\ req'[all[i].by].context = BoundedHistory(SubSeq(all, 1, i - 1))
      <4> HIDE DEF old
      <4>1. CASE i \in 1..Len(old)
        <5>1. all[i] = old[i] /\ SubSeq(all, 1, i - 1) = SubSeq(old, 1, i - 1)
          BY <2>5, <4>1
        <5>2. old[i].by \in stored /\ req[old[i].by].context = BoundedHistory(SubSeq(old, 1, i - 1))
          BY <3>0, <3>2, <4>1, <5>1
        <5>3. old[i].by \in Requests /\ old[i].by \in stored'
          BY <1>4, <5>2 DEF TypeOK
        <5>4. req'[old[i].by].context = req[old[i].by].context
          BY <2>15, <5>3
        <5>5. req'[all[i].by].context = BoundedHistory(SubSeq(all, 1, i - 1))
          BY <5>1, <5>2, <5>4, Zenon
        <5> QED
          BY <5>1, <5>3, <5>5
      <4>2. CASE i = Len(old) + 1
        <5>1. all[i].by = r
          BY <2>3, <2>5, <4>2
        <5>2. i - 1 = Len(old)
          BY <2>6, <4>2
        <5>3. SubSeq(all, 1, i - 1) = old
          BY <2>5, <5>2
        <5>4. req'[r].context = BoundedHistory(old)
          BY <2>15, <2>16 DEF old
        <5>5. req'[all[i].by].context = BoundedHistory(SubSeq(all, 1, i - 1))
          BY <5>1, <5>3, <5>4, Zenon
        <5>6. r \in stored'
          BY <1>4
        <5> QED
          BY <5>1, <5>5, <5>6
      <4>3. CASE i = Len(old) + 2
        BY <2>3, <2>5, <3>2, <4>3
      <4> QED
        BY <2>5, <2>6, <4>1, <4>2, <4>3
    <3>3. ASSUME NEW d \in Chats, NEW i \in 1..Len(chats'[d].msgs), chats'[d].msgs[i].role = "user"
          PROVE  /\ chats'[d].msgs[i].by \in stored'
                 /\ req'[chats'[d].msgs[i].by].context
                      = BoundedHistory(SubSeq(chats'[d].msgs, 1, i - 1))
      <4>1. CASE d # c
        BY <3>1, <3>3, <4>1
      <4>2. CASE d = c
        <5>1. chats'[d].msgs = all
          BY <2>8, <4>2
        <5> QED
          BY <3>2, <3>3, <5>1, Zenon
      <4> QED
        BY <4>1, <4>2
    <3> QED
      BY <3>3 DEF AnsweredInContext
  <2>18. ContextCurrent'
    <3>1. ASSUME NEW q \in Requests, q # r, req[q].pc \in Holding PROVE req[q].chat # c
      BY <1>1, <3>1, OneHolder
    <3>2. ASSUME NEW q \in Requests, req'[q].pc \in {"history", "quota", "start", "generate", "append"}
          PROVE  q # r /\ req[q].pc \in Holding /\ req'[q] = req[q] /\ req[q].chat \in Chats
      BY <2>9, <2>13, <3>2 DEF Holding, ControlOK
    <3> QED
      BY <2>8, <3>1, <3>2 DEF ContextCurrent
  <2> QED
    BY <2>11, <2>12, <2>14, <2>17, <2>18
<1> QED
  BY <1>3, <1>4 DEF AppendTurn

\* A clear empties the chat its request holds, which no generation holds.
LEMMA ClearStep ==
    ASSUME ChatSendInv, NEW r \in Requests, ClearMessages(r)
    PROVE  ChatSendInv'
<1> USE DEF ChatSendInv
<1> DEFINE c == req[r].chat
           s == req[r].session
<1>1. /\ At(r, "clear") /\ UNCHANGED <<limiter, stored, crashes>> /\ req[r].pc \in Holding
      /\ c \in Chats
  BY DEF ClearMessages, At, Holding, ControlOK
<1>2. CASE ~Visible(c, s)
  <2>1. chats' = chats /\ Fails(r)
    BY <1>2 DEF ClearMessages, ClearChatMessages
  <2> QED
    BY <1>1, <2>1, FailsNow
<1>3. CASE Visible(c, s)
  <2> DEFINE new == GivesUp(r, "done", "drop")
             empty == [chats[c] EXCEPT !.msgs = <<>>]
  <2>1. chats' = [chats EXCEPT ![c] = empty] /\ req' = [req EXCEPT ![r] = new]
    BY <1>3 DEF ClearMessages, ClearChatMessages, Ends
  <2>2. /\ new \in RequestRecord
        /\ new.kind = req[r].kind /\ new.session = req[r].session /\ new.chat = req[r].chat
        /\ new.pc = "drop" /\ (r \in stored => new.context = req[r].context)
    BY GivesUpRecord DEF Holding
  <2>3. empty \in ChatRecord /\ empty.msgs = <<>> /\ empty.state = chats[c].state
    <3>1. chats[c] \in ChatRecord
      BY <1>1 DEF TypeOK
    <3>2. <<>> \in Seq(Message)
      OBVIOUS
    <3> QED
      BY <3>1, <3>2 DEF ChatRecord
  <2> HIDE DEF new, empty
  <2>4. Advances(r, new)
    BY <1>1, <2>1, <2>2 DEF Advances, Holding
  <2>5. LimiterBalanced' /\ req' \in [Requests -> RequestRecord]
    BY <1>1, <2>4, AdvanceLimiter
  <2>6. /\ chats' \in [Chats -> ChatRecord]
        /\ \A d \in Chats : chats'[d] = IF d = c THEN empty ELSE chats[d]
    BY <1>1, <2>1, <2>3 DEF TypeOK
  <2>7. TypeOK'
    BY <1>1, <2>5, <2>6 DEF TypeOK, limiter
  <2>8. \A q \in Requests : req'[q] = IF q = r THEN new ELSE req[q]
    BY <2>1 DEF TypeOK
  <2>9. ControlOK'
    BY <1>1, <2>2, <2>8 DEF ControlOK, At
  <2>10. \A q \in stored : q \in Requests /\ req'[q].context = req[q].context
    BY <2>2, <2>8 DEF TypeOK
  <2>11. AnsweredInContext'
    <3>1. ASSUME NEW d \in Chats, NEW i \in 1..Len(chats'[d].msgs), chats'[d].msgs[i].role = "user"
          PROVE  /\ chats'[d].msgs[i].by \in stored'
                 /\ req'[chats'[d].msgs[i].by].context
                      = BoundedHistory(SubSeq(chats'[d].msgs, 1, i - 1))
      <4>1. d # c
        <5>1. Len(<<>>) = 0
          OBVIOUS
        <5> QED
          BY <2>3, <2>6, <3>1, <5>1
      <4>2. chats'[d] = chats[d]
        BY <2>6, <4>1
      <4> QED
        BY <1>1, <2>10, <3>1, <4>2 DEF AnsweredInContext
    <3> QED
      BY <3>1 DEF AnsweredInContext
  <2>12. ContextCurrent'
    <3>1. ASSUME NEW q \in Requests, q # r, req[q].pc \in Holding PROVE req[q].chat # c
      BY <1>1, <3>1, OneHolder
    <3>2. ASSUME NEW q \in Requests, req'[q].pc \in {"history", "quota", "start", "generate", "append"}
          PROVE  q # r /\ req[q].pc \in Holding /\ req'[q] = req[q] /\ req[q].chat \in Chats
      BY <2>2, <2>8, <3>2 DEF Holding, ControlOK
    <3> QED
      BY <2>6, <3>1, <3>2 DEF ContextCurrent
  <2> QED
    BY <2>5, <2>7, <2>9, <2>11, <2>12
<1> QED
  BY <1>2, <1>3

\* A chat is created under an id no request has read, and a deleted chat is not
\* live any more.
LEMMA ChatSteps ==
    ASSUME ChatSendInv, NEW s \in Sessions, NEW c \in Chats, CreateChat(s, c) \/ DeleteChat(s, c)
    PROVE  ChatSendInv'
<1> USE DEF ChatSendInv
<1>1. UNCHANGED <<limiter, req, stored, crashes>>
  BY DEF CreateChat, DeleteChat
<1>2. PICK new : /\ chats' = [chats EXCEPT ![c] = new]
                 /\ new \in ChatRecord
                 /\ \A i \in 1..Len(new.msgs) : new.msgs[i].role # "user"
                 /\ new.state # "unborn"
                 /\ new.state = "live" => chats[c].state = "unborn"
  <2>1. CASE CreateChat(s, c)
    <3>1. PICK first \in Openings : chats' = [chats EXCEPT ![c] =
                                      [state |-> "live", owner |-> OwnerOf[s], msgs |-> first]]
      BY <2>1 DEF CreateChat, CreateChatLimited
    <3>2. first \in Seq(Message) /\ \A i \in 1..Len(first) : first[i].role # "user"
      <4>1. CASE first = <<>>
        BY <4>1
      <4>2. ASSUME NEW n \in Prompts, first = <<Prompt(n)>>
            PROVE  first \in Seq(Message) /\ \A i \in 1..Len(first) : first[i].role # "user"
        <5>1. n \in Nat
          BY ChatSendAssumption DEF ChatSendAssumption
        <5>2. Prompt(n) \in Message /\ Prompt(n).role = "assistant"
          BY <5>1 DEF Prompt, Message
        <5> QED
          BY <4>2, <5>2
      <4> QED
        BY <4>1, <4>2 DEF Openings
    <3>3. OwnerOf[s] \in Owners
      BY ChatSendAssumption DEF ChatSendAssumption
    <3>4. [state |-> "live", owner |-> OwnerOf[s], msgs |-> first] \in ChatRecord
      BY <3>2, <3>3 DEF ChatRecord
    <3>5. chats[c].state = "unborn"
      BY <2>1 DEF CreateChat
    <3> WITNESS [state |-> "live", owner |-> OwnerOf[s], msgs |-> first]
    <3> QED
      BY <3>1, <3>2, <3>4, <3>5
  <2>2. CASE DeleteChat(s, c)
    <3>1. DeletedChat \in ChatRecord /\ DeletedChat.msgs = <<>> /\ DeletedChat.state = "deleted"
      BY InitialRecords DEF DeletedChat, NoChat
    <3>2. chats' = [chats EXCEPT ![c] = DeletedChat]
      BY <2>2 DEF DeleteChat
    <3>3. \A i \in 1..Len(DeletedChat.msgs) : FALSE
      <4>1. Len(<<>>) = 0
        OBVIOUS
      <4> QED
        BY <3>1, <4>1
    <3> WITNESS DeletedChat
    <3> QED
      BY <3>1, <3>2, <3>3
  <2> QED
    BY <2>1, <2>2
<1>3. /\ chats' \in [Chats -> ChatRecord]
      /\ \A d \in Chats : chats'[d] = IF d = c THEN new ELSE chats[d]
  BY <1>2 DEF TypeOK
<1>4. TypeOK' /\ ControlOK'
  BY <1>1, <1>3 DEF TypeOK, ControlOK, limiter
<1>5. LimiterBalanced'
  BY <1>1 DEF LimiterBalanced, limiter, HoldsChat, HoldsSession, HoldsUnit
<1>6. AnsweredInContext'
  <2>1. ASSUME NEW d \in Chats, NEW i \in 1..Len(chats'[d].msgs), chats'[d].msgs[i].role = "user"
        PROVE  /\ chats'[d].msgs[i].by \in stored'
               /\ req'[chats'[d].msgs[i].by].context
                    = BoundedHistory(SubSeq(chats'[d].msgs, 1, i - 1))
    <3>1. chats'[d] = chats[d]
      BY <1>2, <1>3, <2>1
    <3> QED
      BY <1>1, <2>1, <3>1 DEF AnsweredInContext
  <2> QED
    BY <2>1 DEF AnsweredInContext
<1>7. ContextCurrent'
  <2>1. ASSUME NEW q \in Requests, req[q].pc \in {"history", "quota", "start", "generate", "append"}
        PROVE  req[q].chat \in Chats
    BY <2>1 DEF ControlOK
  <2> QED
    BY <1>1, <1>2, <1>3, <2>1 DEF ContextCurrent
<1> QED
  BY <1>4, <1>5, <1>6, <1>7

-----------------------------------------------------------------------------
(* The steps that take or give back a permit. *)

\* Sets of requests are finite.
LEMMA RequestCount ==
    ASSUME NEW S \in SUBSET Requests
    PROVE  /\ IsFiniteSet(S) /\ Cardinality(S) \in Nat
           /\ \A r \in Requests : r \notin S => Cardinality(S \cup {r}) = Cardinality(S) + 1
           /\ \A r \in S : Cardinality(S \ {r}) = Cardinality(S) - 1
<1>1. IsFiniteSet(S)
  BY FS_Subset, ChatSendAssumption DEF ChatSendAssumption
<1>2. Cardinality(S) \in Nat
  BY <1>1, FS_CardinalityType
<1>3. \A r \in Requests : r \notin S => Cardinality(S \cup {r}) = Cardinality(S) + 1
  BY <1>1, FS_AddElement
<1>4. \A r \in S : Cardinality(S \ {r}) = Cardinality(S) - 1
  BY <1>1, FS_RemoveElement
<1> QED
  BY <1>1, <1>2, <1>3, <1>4

\* The requests the three parts of the limiter count.
ChatHolders == {r \in Requests : HoldsChat(r)}
SessionHolders(s) == {r \in Requests : HoldsSession(r) /\ req[r].session = s}
UnitHolders == {r \in Requests : HoldsUnit(r)}

\* Request r becomes new, which is before or behind the part of the handler that
\* reads and appends.
LEMMA ReplaceTurns ==
    ASSUME ChatSendInv, NEW r \in Requests, NEW new \in RequestRecord,
           req' = [req EXCEPT ![r] = new], UNCHANGED <<chats, stored, crashes>>,
           perSession' \in [Sessions -> Int],
           r \in stored => new.context = req[r].context,
           new.pc \notin {"history", "quota", "start", "generate", "append"},
           /\ new.pc \notin {"idle", "end"} =>
                new.kind # "none" /\ new.session \in Sessions /\ new.chat \in Chats
           /\ new.kind = "clear" => new.pc \in {"clear", "drop"}
           /\ new.pc = "clear" => new.kind = "clear"
           /\ r \in stored => new.pc \in {"reread", "tell", "drop", "unit", "end"}
    PROVE  TypeOK' /\ ControlOK' /\ AnsweredInContext' /\ ContextCurrent'
<1> USE DEF ChatSendInv
<1>1. \A q \in Requests : req'[q] = IF q = r THEN new ELSE req[q]
  BY DEF TypeOK
<1>2. TypeOK'
  BY DEF TypeOK
<1>3. ControlOK'
  BY <1>1 DEF ControlOK
<1>4. \A q \in stored : req'[q].context = req[q].context
  BY <1>1 DEF TypeOK
<1>5. AnsweredInContext'
  BY <1>4 DEF AnsweredInContext
<1>6. ContextCurrent'
  BY <1>1 DEF ContextCurrent
<1> QED
  BY <1>2, <1>3, <1>5, <1>6

\* A request that takes a chat which is not marked active is its only holder.
LEMMA TakenChat ==
    ASSUME LimiterBalanced, NEW r \in Requests, NEW new, new.chat \notin active,
           \A q \in Requests : req'[q] = IF q = r THEN new ELSE req[q]
    PROVE  \A q, p \in Requests : HoldsChat(q)' /\ HoldsChat(p)' /\ req'[q].chat = req'[p].chat => q = p
<1>1. \A q \in Requests : HoldsChat(q) => req[q].chat # new.chat
  BY DEF LimiterBalanced
<1>2. \A q, p \in Requests : HoldsChat(q) /\ HoldsChat(p) /\ req[q].chat = req[p].chat => q = p
  BY DEF LimiterBalanced
<1>3. \A q \in Requests : q # r => (HoldsChat(q)' <=> HoldsChat(q)) /\ req'[q].chat = req[q].chat
  BY DEF HoldsChat
<1>4. req'[r].chat = new.chat
  OBVIOUS
<1> QED
  BY <1>1, <1>2, <1>3, <1>4

\* Accepting a request with a permit, or refusing it, keeps the invariant.
LEMMA ArriveSteps ==
    ASSUME ChatSendInv, NEW r \in Requests, Arrives(r)
    PROVE  ChatSendInv'
<1> USE DEF ChatSendInv
<1>0. /\ req[r].pc = "idle" /\ r \notin stored /\ ~HoldsChat(r) /\ ~HoldsUnit(r) /\ ~HoldsSession(r)
      /\ UNCHANGED <<chats, stored, crashes>>
  BY DEF Arrives, AcceptGeneration, Refuse, AcceptClear, At, ControlOK, HoldsChat, HoldsUnit, HoldsSession
<1>1. ASSUME NEW s \in Sessions, NEW c \in Chats, NEW kind \in {"send", "stream"}, NEW p \in Payloads,
             AcceptGeneration(r, kind, s, c, p)
      PROVE  ChatSendInv'
  <2> DEFINE new == [NoRequest EXCEPT !.kind = kind, !.pc = "chat", !.session = s, !.chat = c,
                                      !.payload = p]
  <2>1. /\ req' = [req EXCEPT ![r] = new]
        /\ c \notin active /\ active' = active \cup {c}
        /\ perSession' = [perSession EXCEPT ![s] = @ + 1]
        /\ free' = free - 1
    BY <1>1 DEF AcceptGeneration, Acquire, CanAcquire
  <2>2. /\ new \in RequestRecord
        /\ new.kind = kind /\ new.pc = "chat" /\ new.session = s /\ new.chat = c
    <3>1. PICK a, b, d : NoRequest = [kind |-> "none", pc |-> "idle", session |-> a, chat |-> b,
                                      payload |-> d, context |-> <<>>, out |-> 0, conn |-> TRUE,
                                      sent |-> <<>>, unread |-> 0, outcome |-> "none"]
      BY NoRequestFields
    <3>2. NoRequest \in RequestRecord
      BY InitialRecords
    <3> QED
      BY <3>1, <3>2, ZenonT(60) DEF RequestRecord, Holding
  <2> HIDE DEF new
  <2>3. TypeOK' /\ ControlOK' /\ AnsweredInContext' /\ ContextCurrent'
    <3>1. perSession' \in [Sessions -> Int]
      BY <2>1 DEF TypeOK
    <3> QED
      BY <1>0, <2>1, <2>2, <3>1, ReplaceTurns
  <2>4. \A q \in Requests : req'[q] = IF q = r THEN new ELSE req[q]
    BY <2>1 DEF TypeOK
  <2>5. /\ ChatHolders' = ChatHolders \cup {r} /\ r \notin ChatHolders
        /\ UnitHolders' = UnitHolders \cup {r} /\ r \notin UnitHolders
        /\ SessionHolders(s)' = SessionHolders(s) \cup {r} /\ r \notin SessionHolders(s)
        /\ \A x \in Sessions : x # s => SessionHolders(x)' = SessionHolders(x)
    BY <1>0, <2>2, <2>4
       DEF ChatHolders, UnitHolders, SessionHolders, HoldsChat, HoldsUnit, HoldsSession
  <2>6. /\ Cardinality(UnitHolders') = Cardinality(UnitHolders) + 1
        /\ Cardinality(SessionHolders(s)') = Cardinality(SessionHolders(s)) + 1
        /\ Cardinality(UnitHolders) \in Nat
    BY <2>5, RequestCount DEF UnitHolders, SessionHolders
  <2>7. active' = {req'[q].chat : q \in ChatHolders'}
    BY <2>1, <2>2, <2>4, <2>5 DEF LimiterBalanced, ChatHolders
  <2>8. \A q, q2 \in Requests : HoldsChat(q)' /\ HoldsChat(q2)' /\ req'[q].chat = req'[q2].chat => q = q2
    BY <2>1, <2>2, <2>4, TakenChat
  <2>9. \A x \in Sessions : perSession'[x] = Cardinality(SessionHolders(x)')
    BY <2>1, <2>5, <2>6 DEF LimiterBalanced, SessionHolders, TypeOK
  <2>10. free' = MaxGlobal - Cardinality(UnitHolders')
    BY <2>1, <2>6, SMTT(30), ChatSendAssumption DEF LimiterBalanced, UnitHolders, ChatSendAssumption
  <2>11. LimiterBalanced'
    BY <2>7, <2>8, <2>9, <2>10 DEF LimiterBalanced, ChatHolders, SessionHolders, UnitHolders
  <2> QED
    BY <2>3, <2>11
<1>2. ASSUME NEW s \in Sessions, NEW c \in Chats, AcceptClear(r, s, c)
      PROVE  ChatSendInv'
  <2> DEFINE new == [NoRequest EXCEPT !.kind = "clear", !.pc = "clear", !.session = s, !.chat = c]
  <2>1. /\ req' = [req EXCEPT ![r] = new]
        /\ c \notin active /\ active' = active \cup {c}
        /\ UNCHANGED <<perSession, free>>
    BY <1>2 DEF AcceptClear
  <2>2. /\ new \in RequestRecord
        /\ new.kind = "clear" /\ new.pc = "clear" /\ new.session = s /\ new.chat = c
    <3>1. PICK a, b, d : NoRequest = [kind |-> "none", pc |-> "idle", session |-> a, chat |-> b,
                                      payload |-> d, context |-> <<>>, out |-> 0, conn |-> TRUE,
                                      sent |-> <<>>, unread |-> 0, outcome |-> "none"]
      BY NoRequestFields
    <3>2. NoRequest \in RequestRecord
      BY InitialRecords
    <3> QED
      BY <3>1, <3>2, ZenonT(60) DEF RequestRecord, Holding
  <2> HIDE DEF new
  <2>3. TypeOK' /\ ControlOK' /\ AnsweredInContext' /\ ContextCurrent'
    <3>1. perSession' \in [Sessions -> Int]
      BY <2>1 DEF TypeOK
    <3> QED
      BY <1>0, <2>1, <2>2, <3>1, ReplaceTurns
  <2>4. \A q \in Requests : req'[q] = IF q = r THEN new ELSE req[q]
    BY <2>1 DEF TypeOK
  <2>5. /\ ChatHolders' = ChatHolders \cup {r} /\ r \notin ChatHolders
        /\ UnitHolders' = UnitHolders
        /\ \A x \in Sessions : SessionHolders(x)' = SessionHolders(x)
    BY <1>0, <2>2, <2>4
       DEF ChatHolders, UnitHolders, SessionHolders, HoldsChat, HoldsUnit, HoldsSession
  <2>6. active' = {req'[q].chat : q \in ChatHolders'}
    BY <2>1, <2>2, <2>4, <2>5 DEF LimiterBalanced, ChatHolders
  <2>7. \A q, q2 \in Requests : HoldsChat(q)' /\ HoldsChat(q2)' /\ req'[q].chat = req'[q2].chat => q = q2
    BY <2>1, <2>2, <2>4, TakenChat
  <2>8. LimiterBalanced'
    BY <2>1, <2>5, <2>6, <2>7 DEF LimiterBalanced, ChatHolders, SessionHolders, UnitHolders
  <2> QED
    BY <2>3, <2>8
<1>3. CASE req' = [req EXCEPT ![r] = Ended(r)] /\ UNCHANGED limiter
  <2>1. /\ Ended(r) \in RequestRecord /\ Ended(r).pc = "end" /\ Ended(r).kind = "none"
    BY EndedRecord
  <2>2. TypeOK' /\ ControlOK' /\ AnsweredInContext' /\ ContextCurrent'
    <3>1. perSession' \in [Sessions -> Int]
      BY <1>3 DEF TypeOK, limiter
    <3> QED
      BY <1>0, <1>3, <2>1, <3>1, ReplaceTurns
  <2>3. \A q \in Requests : req'[q] = IF q = r THEN Ended(r) ELSE req[q]
    BY <1>3 DEF TypeOK
  <2>4. \A q \in Requests : /\ (HoldsChat(q)' <=> HoldsChat(q)) /\ (HoldsUnit(q)' <=> HoldsUnit(q))
                            /\ (HoldsSession(q)' <=> HoldsSession(q))
                            /\ HoldsChat(q) => req'[q] = req[q]
    BY <1>0, <2>1, <2>3 DEF HoldsChat, HoldsUnit, HoldsSession
  <2>5. /\ ChatHolders' = ChatHolders /\ UnitHolders' = UnitHolders
        /\ \A x \in Sessions : SessionHolders(x)' = SessionHolders(x)
        /\ {req'[q].chat : q \in ChatHolders'} = {req[q].chat : q \in ChatHolders}
    BY <2>4 DEF ChatHolders, UnitHolders, SessionHolders, HoldsSession
  <2>6. LimiterBalanced'
    BY <1>3, <2>4, <2>5 DEF LimiterBalanced, ChatHolders, SessionHolders, UnitHolders, limiter
  <2> QED
    BY <2>2, <2>6
<1> QED
  BY <1>1, <1>2, <1>3 DEF Arrives, Refuse

\* The drop gives back the chat and the session's unit of exactly its request.
LEMMA DropStep ==
    ASSUME ChatSendInv, NEW r \in Requests, DropPermit(r)
    PROVE  ChatSendInv'
<1> USE DEF ChatSendInv
<1>0. PICK s : s = req[r].session
  OBVIOUS
<1>1. /\ req[r].pc = "drop" /\ req[r] \in RequestRecord /\ s \in Sessions /\ req[r].chat \in Chats
      /\ HoldsChat(r) /\ (HoldsSession(r) <=> req[r].kind # "clear") /\ req[r].kind # "none"
      /\ UNCHANGED <<chats, stored, crashes, free>>
      /\ active' = active \ {req[r].chat}
      /\ perSession' = IF req[r].kind = "clear" THEN perSession ELSE [perSession EXCEPT ![s] = @ - 1]
  BY <1>0 DEF DropPermit, At, TypeOK, ControlOK, HoldsChat, HoldsSession
<1>2. PICK new \in RequestRecord :
        /\ req' = [req EXCEPT ![r] = new]
        /\ r \in stored => new.context = req[r].context
        /\ req[r].kind = "clear" => new.pc = "end" /\ new.kind = "none"
        /\ req[r].kind # "clear" => /\ new.pc = "unit" /\ new.kind = req[r].kind
                                    /\ new.session = s /\ new.chat = req[r].chat
  <2>1. CASE req[r].kind = "clear"
    <3>1. req' = [req EXCEPT ![r] = Ended(r)]
      BY <2>1 DEF DropPermit
    <3> QED
      BY <2>1, <3>1, EndedRecord
  <2>2. CASE req[r].kind # "clear"
    <3> DEFINE new == [req[r] EXCEPT !.pc = "unit"]
    <3>1. req' = [req EXCEPT ![r] = new]
      BY <2>2 DEF DropPermit
    <3>2. /\ new \in RequestRecord /\ new.context = req[r].context
          /\ new.pc = "unit" /\ new.kind = req[r].kind
          /\ new.session = s /\ new.chat = req[r].chat
      BY <1>0, <1>1 DEF RequestRecord
    <3> HIDE DEF new
    <3> QED
      BY <2>2, <3>1, <3>2
  <2> QED
    BY <2>1, <2>2
<1>3. TypeOK' /\ ControlOK' /\ AnsweredInContext' /\ ContextCurrent'
  <2>1. perSession' \in [Sessions -> Int]
    BY <1>1 DEF TypeOK
  <2> QED
    BY <1>1, <1>2, <2>1, ReplaceTurns
<1>4. \A q \in Requests : req'[q] = IF q = r THEN new ELSE req[q]
  BY <1>2 DEF TypeOK
<1>5. /\ ChatHolders' = ChatHolders \ {r}
      /\ UnitHolders' = UnitHolders
      /\ \A x \in Sessions : x # s \/ req[r].kind = "clear" => SessionHolders(x)' = SessionHolders(x)
      /\ req[r].kind # "clear" =>
           SessionHolders(s)' = SessionHolders(s) \ {r} /\ r \in SessionHolders(s)
  BY <1>0, <1>1, <1>2, <1>4 DEF ChatHolders, UnitHolders, SessionHolders, HoldsChat, HoldsUnit, HoldsSession
<1>6. \A q \in Requests : q # r => (HoldsChat(q)' <=> HoldsChat(q)) /\ req'[q] = req[q]
  BY <1>4 DEF HoldsChat
<1>7. ~HoldsChat(r)'
  BY <1>2, <1>4 DEF HoldsChat
<1>8. active' = {req'[q].chat : q \in ChatHolders'}
  <2>1. \A q \in ChatHolders : q # r => req[q].chat # req[r].chat
    BY <1>1 DEF LimiterBalanced, ChatHolders
  <2>2. active = {req[q].chat : q \in ChatHolders}
    BY DEF LimiterBalanced, ChatHolders
  <2>3. \A q \in ChatHolders : q # r => req'[q].chat = req[q].chat
    BY <1>6 DEF ChatHolders
  <2> QED
    BY <1>1, <1>5, <2>1, <2>2, <2>3
<1>9. \A q, p \in Requests : HoldsChat(q)' /\ HoldsChat(p)' /\ req'[q].chat = req'[p].chat => q = p
  BY <1>6, <1>7 DEF LimiterBalanced
<1>10. \A x \in Sessions : perSession'[x] = Cardinality(SessionHolders(x)')
  <2>1. \A x \in Sessions : perSession[x] = Cardinality(SessionHolders(x))
    BY DEF LimiterBalanced, SessionHolders
  <2>2. CASE req[r].kind = "clear"
    BY <1>1, <1>5, <2>1, <2>2
  <2>3. CASE req[r].kind # "clear"
    <3>1. SessionHolders(s) \in SUBSET Requests
      BY DEF SessionHolders
    <3>2. Cardinality(SessionHolders(s) \ {r}) = Cardinality(SessionHolders(s)) - 1
      BY <1>5, <2>3, <3>1, RequestCount
    <3>3. \A x \in Sessions : perSession'[x] = IF x = s THEN perSession[x] - 1 ELSE perSession[x]
      BY <1>1, <2>3 DEF TypeOK
    <3>4. perSession'[s] = Cardinality(SessionHolders(s)')
      BY <1>1, <1>5, <2>1, <2>3, <3>2, <3>3
    <3>5. \A x \in Sessions : x # s => perSession'[x] = Cardinality(SessionHolders(x)')
      BY <1>5, <2>1, <3>3
    <3> QED
      BY <3>4, <3>5
  <2> QED
    BY <2>2, <2>3
<1>11. LimiterBalanced'
  BY <1>1, <1>5, <1>8, <1>9, <1>10 DEF LimiterBalanced, ChatHolders, SessionHolders, UnitHolders
<1> QED
  BY <1>3, <1>11

\* Then the unit of the process.
LEMMA UnitStep ==
    ASSUME ChatSendInv, NEW r \in Requests, ReturnUnit(r)
    PROVE  ChatSendInv'
<1> USE DEF ChatSendInv
<1>1. /\ req[r].pc = "unit" /\ ~HoldsChat(r) /\ ~HoldsSession(r) /\ HoldsUnit(r)
      /\ free' = free + 1 /\ req' = [req EXCEPT ![r] = Ended(r)]
      /\ UNCHANGED <<chats, active, perSession, stored, crashes>>
  BY DEF ReturnUnit, At, ControlOK, HoldsChat, HoldsSession, HoldsUnit
<1>2. /\ Ended(r) \in RequestRecord /\ Ended(r).pc = "end" /\ Ended(r).kind = "none"
      /\ r \in stored => Ended(r).context = req[r].context
  BY EndedRecord
<1>3. TypeOK' /\ ControlOK' /\ AnsweredInContext' /\ ContextCurrent'
  <2>1. perSession' \in [Sessions -> Int]
    BY <1>1 DEF TypeOK
  <2> QED
    BY <1>1, <1>2, <2>1, ReplaceTurns
<1>4. \A q \in Requests : req'[q] = IF q = r THEN Ended(r) ELSE req[q]
  BY <1>1 DEF TypeOK
<1>5. \A q \in Requests : /\ (HoldsChat(q)' <=> HoldsChat(q)) /\ (HoldsSession(q)' <=> HoldsSession(q))
                          /\ HoldsChat(q) => req'[q] = req[q]
                          /\ HoldsUnit(q)' <=> HoldsUnit(q) /\ q # r
  BY <1>1, <1>2, <1>4 DEF HoldsChat, HoldsUnit, HoldsSession
<1>6. /\ ChatHolders' = ChatHolders /\ UnitHolders' = UnitHolders \ {r} /\ r \in UnitHolders
      /\ \A x \in Sessions : SessionHolders(x)' = SessionHolders(x)
      /\ {req'[q].chat : q \in ChatHolders'} = {req[q].chat : q \in ChatHolders}
  BY <1>1, <1>5 DEF ChatHolders, UnitHolders, SessionHolders, HoldsSession
<1>7. free' = MaxGlobal - Cardinality(UnitHolders')
  <2>1. UnitHolders \in SUBSET Requests
    BY DEF UnitHolders
  <2>2. Cardinality(UnitHolders \ {r}) = Cardinality(UnitHolders) - 1 /\ Cardinality(UnitHolders) \in Nat
    BY <1>6, <2>1, RequestCount
  <2>3. free = MaxGlobal - Cardinality(UnitHolders) /\ MaxGlobal \in Nat
    BY ChatSendAssumption DEF LimiterBalanced, UnitHolders, ChatSendAssumption
  <2> QED
    BY <1>1, <1>6, <2>2, <2>3
<1>8. LimiterBalanced'
  BY <1>1, <1>5, <1>6, <1>7 DEF LimiterBalanced, ChatHolders, SessionHolders, UnitHolders
<1> QED
  BY <1>3, <1>8

\* Storing the turn, answering and giving the permit back keep the invariant.
LEMMA SettleSteps ==
    ASSUME ChatSendInv, NEW r \in Requests, Settles(r)
    PROVE  ChatSendInv'
<1> USE DEF ChatSendInv
<1>0. req[r] \in RequestRecord
  BY DEF TypeOK
<1>1. CASE ReadAttachments(r)
  <2>1. /\ req[r].pc = "reread" /\ req[r].pc \in Holding /\ req[r].kind # "clear"
        /\ UNCHANGED <<chats, limiter, stored, crashes>>
    BY <1>1 DEF ReadAttachments, At, Holding, ControlOK
  <2>2. CASE Fails(r)
    BY <2>1, <2>2, FailsNow
  <2>3. ASSUME NEW pc \in {"tell", "drop"}, Ends(r, "done", pc) PROVE ChatSendInv'
    BY <2>1, <2>3, FailsStep
  <2> QED
    BY <1>1, <2>2, <2>3 DEF ReadAttachments
<1>2. CASE Tell(r)
  <2>1. req[r].pc = "tell" /\ UNCHANGED <<chats, limiter, stored, crashes>>
    BY <1>2 DEF Tell, At
  <2>2. CASE Goto(r, "drop")
    <3> DEFINE new == [req[r] EXCEPT !.pc = "drop"]
    <3>1. req' = [req EXCEPT ![r] = new]
      BY <2>2 DEF Goto
    <3>2. /\ new \in RequestRecord
          /\ new.kind = req[r].kind /\ new.session = req[r].session /\ new.chat = req[r].chat
          /\ new.context = req[r].context /\ new.pc = "drop"
      BY <1>0 DEF RequestRecord, Holding
    <3> HIDE DEF new
    <3> QED
      BY <2>1, <3>1, <3>2, StreamStep
  <2>3. ASSUME NEW event \in {"message_done", "error"},
               req' = [req EXCEPT ![r].pc = "drop", ![r].unread = @ + 1,
                                  ![r].sent = Append(@, [event |-> event, len |-> 0])]
        PROVE  ChatSendInv'
    <3> DEFINE events == Append(req[r].sent, [event |-> event, len |-> 0])
               unread == req[r].unread + 1
               new == [req[r] EXCEPT !.pc = "drop", !.unread = unread, !.sent = events]
    <3>1. events \in Seq(Event) /\ unread \in Nat
      <4>1. [event |-> event, len |-> 0] \in Event /\ req[r].sent \in Seq(Event)
        BY <1>0 DEF Event, RequestRecord
      <4>2. unread \in Nat
        BY <1>0 DEF RequestRecord
      <4> QED
        BY <4>1, <4>2, AppendProperties
    <3>2. req' = [req EXCEPT ![r] = new]
      BY <1>0, <2>3 DEF TypeOK, RequestRecord
    <3> HIDE DEF events, unread
    <3>3. /\ new \in RequestRecord
          /\ new.kind = req[r].kind /\ new.session = req[r].session /\ new.chat = req[r].chat
          /\ new.context = req[r].context /\ new.pc = "drop"
      BY <1>0, <3>1 DEF RequestRecord, Holding
    <3> HIDE DEF new
    <3> QED
      BY <2>1, <3>2, <3>3, StreamStep
  <2> QED
    BY <1>2, <2>2, <2>3 DEF Tell
<1> QED
  BY <1>1, <1>2, AppendStep, ClearStep, DropStep, UnitStep DEF Settles

\* A restart forgets every permit together with every request that held one.
LEMMA CrashStep ==
    ASSUME ChatSendInv, Crash
    PROVE  ChatSendInv'
<1> USE DEF ChatSendInv
<1>1. \A r \in Requests : /\ Ended(r) \in RequestRecord /\ Ended(r).pc = "end" /\ Ended(r).kind = "none"
                          /\ r \in stored => Ended(r).context = req[r].context
  BY EndedRecord
<1>2. /\ req' = [r \in Requests |-> IF req[r].pc \in {"idle", "end"} THEN req[r] ELSE Ended(r)]
      /\ active' = {} /\ perSession' = [s \in Sessions |-> 0] /\ free' = MaxGlobal
      /\ crashes' = crashes + 1 /\ UNCHANGED <<chats, stored>>
  BY DEF Crash
<1>3. TypeOK'
  BY <1>1, <1>2 DEF TypeOK
<1>4. \A r \in Requests : /\ req'[r].pc \in {"idle", "end"}
                          /\ req'[r].pc = req[r].pc \/ req'[r].pc = "end"
                          /\ r \in stored => req'[r].context = req[r].context
                          /\ (req'[r].kind = req[r].kind /\ req[r].pc \in {"idle", "end"}) \/ req'[r].kind = "none"
  BY <1>1, <1>2
<1>5. ControlOK'
  BY <1>2, <1>4 DEF ControlOK
<1>6. /\ ChatHolders' = {} /\ UnitHolders' = {}
      /\ \A s \in Sessions : SessionHolders(s)' = {}
      /\ \A r \in Requests : ~HoldsChat(r)'
  BY <1>4 DEF ChatHolders, UnitHolders, SessionHolders, HoldsChat, HoldsUnit, HoldsSession
<1>7. LimiterBalanced'
  <2>1. Cardinality({}) = 0 /\ MaxGlobal \in Nat
    BY FS_EmptySet, ChatSendAssumption DEF ChatSendAssumption
  <2>2. active' = {req'[r].chat : r \in ChatHolders'}
    BY <1>2, <1>6
  <2>3. \A s \in Sessions : perSession'[s] = Cardinality(SessionHolders(s)')
    BY <1>2, <1>6, <2>1
  <2>4. free' = MaxGlobal - Cardinality(UnitHolders')
    BY <1>2, <1>6, <2>1
  <2> QED
    BY <1>6, <2>2, <2>3, <2>4 DEF LimiterBalanced, ChatHolders, SessionHolders, UnitHolders
<1>8. AnsweredInContext'
  BY <1>2, <1>4 DEF AnsweredInContext, TypeOK
<1>9. ContextCurrent'
  BY <1>4 DEF ContextCurrent
<1> QED
  BY <1>3, <1>5, <1>7, <1>8, <1>9

-----------------------------------------------------------------------------
(* The specification. *)

\* The invariant of sends holds initially.
LEMMA ChatSendInit == Init => ChatSendInv
<1> SUFFICES ASSUME Init PROVE ChatSendInv
  OBVIOUS
<1>1. /\ \A r \in Requests : req[r] = NoRequest /\ req[r].pc = "idle" /\ req[r].kind = "none"
      /\ \A c \in Chats : chats[c] = NoChat /\ chats[c].msgs = <<>>
  BY DEF Init, NoRequest, NoChat
<1>2. TypeOK
  BY InitialRecords DEF TypeOK, Init
<1>3. ControlOK /\ ContextCurrent
  BY <1>1 DEF ControlOK, ContextCurrent, Init
<1>4. AnsweredInContext
  <2>1. Len(<<>>) = 0
    OBVIOUS
  <2> QED
    BY <1>1, <2>1 DEF AnsweredInContext
<1>5. /\ ChatHolders = {} /\ UnitHolders = {}
      /\ \A s \in Sessions : SessionHolders(s) = {}
      /\ \A r \in Requests : ~HoldsChat(r)
  BY <1>1 DEF ChatHolders, UnitHolders, SessionHolders, HoldsChat, HoldsUnit, HoldsSession
<1>6. LimiterBalanced
  <2>1. Cardinality({}) = 0 /\ MaxGlobal \in Nat
    BY FS_EmptySet, ChatSendAssumption DEF ChatSendAssumption
  <2>2. active = {req[r].chat : r \in ChatHolders}
    BY <1>5 DEF Init
  <2>3. \A s \in Sessions : perSession[s] = Cardinality(SessionHolders(s))
    BY <1>5, <2>1 DEF Init
  <2>4. free = MaxGlobal - Cardinality(UnitHolders)
    BY <1>5, <2>1 DEF Init
  <2> QED
    BY <1>5, <2>2, <2>3, <2>4 DEF LimiterBalanced, ChatHolders, SessionHolders, UnitHolders
<1> QED
  BY <1>2, <1>3, <1>4, <1>6 DEF ChatSendInv

\* Every step keeps the invariant of sends.
LEMMA ChatSendStep == ChatSendInv /\ [Next]_vars => ChatSendInv'
<1> SUFFICES ASSUME ChatSendInv, [Next]_vars PROVE ChatSendInv'
  OBVIOUS
<1>1. CASE UNCHANGED vars
  BY <1>1 DEF vars, ChatSendInv, TypeOK, ControlOK, LimiterBalanced, AnsweredInContext, ContextCurrent,
              HoldsChat, HoldsSession, HoldsUnit
<1> QED
  BY <1>1, ArriveSteps, PrepareSteps, GenerateSteps, SettleSteps, ClientSteps, ChatSteps, CrashStep
     DEF Next

\* The inductive invariant: types, control, the limiter's balance, and the context
\* of every running and every stored turn.
THEOREM ChatSendInvariant == Spec => []ChatSendInv
  BY ChatSendInit, ChatSendStep, PTL DEF Spec

\* The in-process limiter counts exactly the live permits, at every point of a
\* permit's drop and however its request ends.
THEOREM LimiterBalancedHolds == Spec => []LimiterBalanced
<1>1. ChatSendInv => LimiterBalanced
  BY DEF ChatSendInv
<1> QED
  BY <1>1, ChatSendInvariant, PTL

\* Every stored turn answers exactly the conversation it stands in.
THEOREM TurnFollowsItsContextHolds == Spec => []TurnFollowsItsContext
<1>1. ChatSendInv => TurnFollowsItsContext
  BY DEF ChatSendInv, AnsweredInContext, TurnFollowsItsContext
<1> QED
  BY <1>1, ChatSendInvariant, PTL

-----------------------------------------------------------------------------
(* What clients are told. *)

\* Chars adds up the lengths: p holds the running sums of seq.
Sums(p, seq, n) ==
    /\ p[0] = 0
    /\ \A k \in 0 .. n : p[k] \in Nat
    /\ \A k \in 1 .. n : p[k] = p[k - 1] + seq[k].len
    /\ Chars(seq) = p[n]

\* The fold of Chars goes through the running sums.
LEMMA RunningSums ==
    ASSUME NEW seq, NEW n \in Nat, DOMAIN seq = 1 .. n, \A i \in 1 .. n : seq[i].len \in Nat
    PROVE  \E p : Sums(p, seq, n)
<1> DEFINE step == [p \in Nat \X (1 .. n) |-> p[1] + seq[p[2]].len]
<1>1. \A x \in Nat, i \in 1 .. n : step[<<x, i>>] = x + seq[i].len
  OBVIOUS
<1>2. \A x \in Nat, i \in 1 .. n : x + seq[i].len \in Nat
  OBVIOUS
<1> HIDE DEF step
<1>3. 0 \in Nat /\ \A x \in Nat, i \in 1 .. n : step[<<x, i>>] \in Nat
  BY <1>1, <1>2
<1>4. PICK g : Folds(g, n, 0, step) /\ \A s \in SUBSET (1 .. n) : g[s] \in Nat
  BY <1>3, FoldExists
<1>5. g = [s \in SUBSET DOMAIN seq |-> IF s = {} THEN 0 ELSE g[s \ {Max(s)}] + seq[Max(s)].len]
  <2>1. ASSUME NEW s \in SUBSET (1 .. n), s # {}
        PROVE  step[<<g[s \ {Max(s)}], Max(s)>>] = g[s \ {Max(s)}] + seq[Max(s)].len
    <3>1. Max(s) \in 1 .. n /\ s \ {Max(s)} \in SUBSET (1 .. n)
      BY <2>1, MaxTaken
    <3>2. g[s \ {Max(s)}] \in Nat
      BY <1>4, <3>1
    <3> QED
      BY <1>1, <3>1, <3>2
  <2> QED
    BY <1>4, <2>1 DEF Folds
<1>6. PICK h : /\ h = [s \in SUBSET DOMAIN seq |->
                         IF s = {} THEN 0 ELSE h[s \ {Max(s)}] + seq[Max(s)].len]
               /\ Chars(seq) = h[DOMAIN seq]
  BY <1>5, Zenon DEF Chars, FoldLeft, MapThenFoldSet
<1>7. h[1 .. 0] = 0
  BY <1>6
<1>8. ASSUME NEW k \in 1 .. n PROVE h[1 .. k] = h[1 .. k - 1] + seq[k].len
  <2>1. /\ 1 .. k \in SUBSET (1 .. n) /\ 1 .. k # {}
        /\ Max(1 .. k) = k /\ (1 .. k) \ {Max(1 .. k)} = 1 .. k - 1
    BY PrefixTaken
  <2> QED
    BY <1>6, <2>1
<1>9. \A k \in 1 .. n : h[1 .. k - 1] \in Nat => h[1 .. k] \in Nat
  BY <1>2, <1>8
<1>10. h[1 .. 0] \in Nat
  BY <1>7
<1>11. \A k \in 0 .. n : h[1 .. k] \in Nat
  BY <1>9, <1>10, LoopRuns
<1> DEFINE p == [k \in 0 .. n |-> h[1 .. k]]
<1>12. \A k \in 0 .. n : p[k] = h[1 .. k]
  OBVIOUS
<1>13. \A k \in 1 .. n : k \in 0 .. n /\ k - 1 \in 0 .. n
  OBVIOUS
<1>14. 0 \in 0 .. n /\ n \in 0 .. n
  OBVIOUS
<1> HIDE DEF p
<1>15. p[0] = 0
  BY <1>7, <1>12, <1>14
<1>16. \A k \in 1 .. n : p[k] = p[k - 1] + seq[k].len
  BY <1>8, <1>12, <1>13
<1>17. Chars(seq) = p[n]
  BY <1>6, <1>12, <1>14
<1> QED
  BY <1>11, <1>12, <1>15, <1>16, <1>17 DEF Sums

\* Nothing sent is no characters.
LEMMA CharsOfNone == Chars(<<>>) = 0
<1> DEFINE seq == <<>>
<1>1. PICK n \in Nat : n = 0
  OBVIOUS
<1>2. DOMAIN seq = 1 .. n /\ \A i \in 1 .. n : seq[i].len \in Nat
  BY <1>1
<1> HIDE DEF seq
<1>3. PICK p : Sums(p, seq, n)
  BY <1>2, RunningSums
<1>4. Chars(seq) = 0
  BY <1>1, <1>3 DEF Sums
<1> QED
  BY <1>4 DEF seq

\* One more event adds its own characters.
LEMMA CharsOfMore ==
    ASSUME NEW s \in Seq(Event), NEW e \in Event
    PROVE  Chars(s) \in Nat /\ Chars(Append(s, e)) = Chars(s) + e.len
<1>1. PICK n \in Nat : n = Len(s) /\ DOMAIN s = 1 .. n
  OBVIOUS
<1> DEFINE t == Append(s, e)
<1>2. /\ DOMAIN t = 1 .. n + 1
      /\ \A k \in 1 .. n : t[k] = s[k]
      /\ t[n + 1] = e
  BY <1>1, AppendProperties
<1>3. e.len \in Nat /\ \A k \in 1 .. n : s[k].len \in Nat
  <2>1. \A k \in 1 .. n : s[k] \in Event
    BY <1>1
  <2>2. \A x \in Event : x.len \in Nat
    BY DEF Event
  <2> QED
    BY <2>1, <2>2
<1> HIDE DEF t
<1>4. \A k \in 1 .. n + 1 : t[k].len \in Nat
  <2>1. ASSUME NEW k \in 1 .. n + 1 PROVE t[k].len \in Nat
    <3>1. k \in 1 .. n \/ k = n + 1
      OBVIOUS
    <3> QED
      BY <1>2, <1>3, <3>1
  <2> QED
    BY <2>1
<1>5. PICK p : Sums(p, s, n)
  BY <1>1, <1>3, RunningSums
<1>6. PICK q : Sums(q, t, n + 1)
  <2>1. PICK m \in Nat : m = n + 1
    OBVIOUS
  <2>2. DOMAIN t = 1 .. m /\ \A k \in 1 .. m : t[k].len \in Nat
    BY <1>2, <1>4, <2>1
  <2>3. \E q : Sums(q, t, m)
    BY <2>2, RunningSums
  <2> QED
    BY <2>1, <2>3
<1> USE DEF Sums
<1> DEFINE T == {k \in Nat : k <= n => q[k] = p[k]}
<1>7. 0 \in T /\ T \subseteq Nat
  BY <1>5, <1>6
<1>8. ASSUME NEW k \in T PROVE k + 1 \in T
  <2>1. k \in Nat /\ (k <= n => q[k] = p[k])
    OBVIOUS
  <2>2. ASSUME k + 1 <= n PROVE q[k + 1] = p[k + 1]
    <3>1. k + 1 \in 1 .. n /\ k + 1 \in 1 .. n + 1 /\ (k + 1) - 1 = k /\ k <= n
      BY <2>1, <2>2
    <3>2. q[k + 1] = q[k] + t[k + 1].len /\ p[k + 1] = p[k] + s[k + 1].len
      BY <1>5, <1>6, <3>1
    <3> QED
      BY <1>2, <2>1, <3>1, <3>2
  <2> QED
    BY <2>1, <2>2
<1>9. \A k \in T : k + 1 \in T
  BY <1>8
<1> HIDE DEF T
<1>10. T = Nat
  BY <1>7, <1>9, NumberInduction
<1>11. q[n] = p[n]
  BY <1>10 DEF T
<1>12. n + 1 \in 1 .. n + 1 /\ (n + 1) - 1 = n /\ n \in 0 .. n
  OBVIOUS
<1>13. q[n + 1] = q[n] + e.len
  BY <1>2, <1>6, <1>12
<1>14. Chars(s) \in Nat /\ Chars(t) = Chars(s) + e.len
  BY <1>5, <1>6, <1>11, <1>12, <1>13
<1> QED
  BY <1>14 DEF t

\* Request r becomes new and its client is told nothing more, or one more event;
\* message_done only of a stored turn and as the last step before the drop.
Tells(r, new) ==
    /\ req' = [req EXCEPT ![r] = new]
    /\ stored \subseteq stored'
    /\ TokensOK(new)
    /\ new.pc = "reread" \/ (new.outcome = "done" /\ new.pc = "tell") => r \in stored'
    /\ \/ \A i \in 1..Len(new.sent) : new.sent[i].event # "message_done"
       \/ new.sent = req[r].sent /\ (req[r].pc \in {"drop", "unit"} => new.pc \in {"drop", "unit"})
       \/ /\ req[r].pc \notin {"drop", "unit"}
          /\ \E e \in Event : /\ new.sent = Append(req[r].sent, e)
                              /\ e.event = "message_done" => r \in stored' /\ new.pc = "drop"

\* A step that tells the client no more than was stored keeps the promise of done.
LEMMA TellsDone ==
    ASSUME TypeOK, DoneInv, NEW r \in Requests, NEW new, Tells(r, new)
    PROVE  DoneInv'
<1>1. \A q \in Requests : req'[q] = IF q = r THEN new ELSE req[q]
  BY DEF Tells, TypeOK
<1>2. req[r].sent \in Seq(Event)
  BY DEF TypeOK, RequestRecord
<1>3. \A i \in 1..Len(new.sent) : new.sent[i].event = "message_done" =>
        i = Len(new.sent) /\ r \in stored' /\ new.pc \in {"drop", "unit"}
  <2>1. CASE \A i \in 1..Len(new.sent) : new.sent[i].event # "message_done"
    BY <2>1
  <2>2. CASE new.sent = req[r].sent /\ (req[r].pc \in {"drop", "unit"} => new.pc \in {"drop", "unit"})
    BY <2>2 DEF DoneInv, Tells
  <2>3. ASSUME req[r].pc \notin {"drop", "unit"}, NEW e \in Event, new.sent = Append(req[r].sent, e),
               e.event = "message_done" => r \in stored' /\ new.pc = "drop"
        PROVE  <1>3!:
    <3> DEFINE s == req[r].sent
    <3>1. /\ Len(Append(s, e)) = Len(s) + 1
          /\ \A i \in 1..Len(s) : Append(s, e)[i] = s[i]
          /\ Append(s, e)[Len(s) + 1] = e
          /\ Len(s) \in Nat
      BY <1>2, AppendProperties, LenProperties
    <3>2. \A i \in 1..Len(s) : s[i].event # "message_done"
      BY <2>3 DEF DoneInv
    <3> HIDE DEF s
    <3>3. new.sent = Append(s, e)
      BY <2>3 DEF s
    <3> QED
      BY <2>3, <3>1, <3>2, <3>3
  <2> QED
    BY <2>1, <2>2, <2>3 DEF Tells
<1>4. ASSUME NEW q \in Requests
      PROVE  /\ TokensOK(req'[q])
             /\ req'[q].pc = "reread" \/ (req'[q].outcome = "done" /\ req'[q].pc = "tell") => q \in stored'
             /\ \A i \in 1..Len(req'[q].sent) : req'[q].sent[i].event = "message_done" =>
                  i = Len(req'[q].sent) /\ q \in stored' /\ req'[q].pc \in {"drop", "unit"}
  <2>1. CASE q = r
    <3>1. req'[q] = new
      BY <1>1, <2>1
    <3> QED
      BY <1>3, <2>1, <3>1 DEF Tells
  <2>2. CASE q # r
    <3>1. req'[q] = req[q]
      BY <1>1, <2>2
    <3> QED
      BY <3>1 DEF DoneInv, Tells
  <2> QED
    BY <2>1, <2>2
<1> QED
  BY <1>4 DEF DoneInv, TokensOK

\* An error, a timeout or a lost client, reported or not.
LEMMA GivesUpTells ==
    ASSUME TypeOK, DoneInv, NEW r \in Requests, NEW outcome \in {"done", "error", "dropped"},
           NEW pc \in {"tell", "drop"}, Ends(r, outcome, pc), UNCHANGED stored,
           outcome = "done" /\ pc = "tell" => r \in stored /\ Chars(req[r].sent) = req[r].out,
           req[r].pc \notin {"drop", "unit"}
    PROVE  \E new : Tells(r, new)
<1> DEFINE new == GivesUp(r, outcome, pc)
<1>1. pc \in Holding
  BY DEF Holding
<1>2. new.sent = req[r].sent /\ new.pc = pc /\ new.outcome = outcome /\ (r \in stored => new.out = req[r].out)
  BY <1>1, GivesUpRecord
<1>3. req' = [req EXCEPT ![r] = new]
  BY DEF Ends
<1> HIDE DEF new
<1>4. \A i \in 1..Len(req[r].sent) : req[r].sent[i].event # "message_done"
  BY DEF DoneInv
<1>5. TokensOK(new)
  BY <1>2, <1>4 DEF TokensOK
<1>6. Tells(r, new)
  BY <1>2, <1>3, <1>5 DEF Tells
<1> QED
  BY <1>6

\* A request that fails tells its client no more than was stored.
LEMMA FailsTells ==
    ASSUME TypeOK, DoneInv, NEW r \in Requests, Fails(r), UNCHANGED stored, req[r].pc \notin {"drop", "unit"}
    PROVE  \E new : Tells(r, new)
<1>1. PICK pc \in {"tell", "drop"} : Ends(r, "error", pc)
  BY DEF Fails
<1> QED
  BY <1>1, GivesUpTells

\* A request that ends tells its client nothing more.
LEMMA EndedTells ==
    ASSUME TypeOK, NEW r \in Requests, req' = [req EXCEPT ![r] = Ended(r)], UNCHANGED stored
    PROVE  \E new : Tells(r, new)
<1> DEFINE new == Ended(r)
<1>1. new.sent = <<>> /\ new.pc = "end"
  BY EndedRecord
<1>2. Len(<<>>) = 0
  OBVIOUS
<1> HIDE DEF new
<1>3. TokensOK(new)
  BY <1>1, <1>2 DEF TokensOK
<1>4. Tells(r, new)
  BY <1>1, <1>2, <1>3 DEF Tells, new
<1> QED
  BY <1>4

\* A request that goes on to its next point tells its client nothing more.
LEMMA GotoTells ==
    ASSUME TypeOK, DoneInv, NEW r \in Requests, NEW pc \in Holding \ {"tell"}, Goto(r, pc),
           pc \in {"chat", "history", "quota", "start"} => req[r].out = 0,
           req[r].kind = "stream" /\ pc \in {"generate", "append", "reread"} =>
             Chars(req[r].sent) = req[r].out,
           req[r].pc \in {"drop", "unit"} => pc = "drop", stored \subseteq stored',
           pc = "reread" => r \in stored'
    PROVE  \E new : Tells(r, new)
<1> DEFINE new == [req[r] EXCEPT !.pc = pc]
<1>1. req[r] \in RequestRecord
  BY DEF TypeOK
<1>2. new.sent = req[r].sent /\ new.pc = pc /\ new.kind = req[r].kind /\ new.out = req[r].out
  BY <1>1 DEF RequestRecord
<1>3. req' = [req EXCEPT ![r] = new]
  BY DEF Goto
<1> HIDE DEF new
<1>4. TokensOK(new)
  BY <1>2 DEF TokensOK, DoneInv
<1>5. Tells(r, new)
  BY <1>2, <1>3, <1>4 DEF Tells
<1> QED
  BY <1>5

\* A request that arrives is told no done.
LEMMA ArriveTells ==
    ASSUME TypeOK, NEW r \in Requests, Arrives(r)
    PROVE  \E new : Tells(r, new)
<1>1. UNCHANGED stored
  BY DEF Arrives, AcceptGeneration, Refuse, AcceptClear
<1>2. CASE req' = [req EXCEPT ![r] = Ended(r)]
  BY <1>1, <1>2, EndedTells
<1>3. ASSUME NEW kind, NEW s, NEW c, NEW p,
             req' = [req EXCEPT ![r] = [NoRequest EXCEPT !.kind = kind, !.pc = "chat", !.session = s,
                                                         !.chat = c, !.payload = p]]
      PROVE  \E new : Tells(r, new)
  <2> DEFINE new == [NoRequest EXCEPT !.kind = kind, !.pc = "chat", !.session = s, !.chat = c, !.payload = p]
  <2>1. new.sent = <<>> /\ new.pc = "chat" /\ new.out = 0 /\ Len(<<>>) = 0
    BY DEF NoRequest
  <2>2. req' = [req EXCEPT ![r] = new]
    BY <1>3
  <2> HIDE DEF new
  <2>3. TokensOK(new)
    BY <2>1 DEF TokensOK
  <2>4. Tells(r, new)
    BY <1>1, <2>1, <2>2, <2>3 DEF Tells
  <2> QED
    BY <2>4
<1>4. ASSUME NEW s, NEW c,
             req' = [req EXCEPT ![r] = [NoRequest EXCEPT !.kind = "clear", !.pc = "clear", !.session = s,
                                                         !.chat = c]]
      PROVE  \E new : Tells(r, new)
  <2> DEFINE new == [NoRequest EXCEPT !.kind = "clear", !.pc = "clear", !.session = s, !.chat = c]
  <2>1. new.sent = <<>> /\ new.pc = "clear" /\ new.out = 0 /\ Len(<<>>) = 0
    BY DEF NoRequest
  <2>2. req' = [req EXCEPT ![r] = new]
    BY <1>4
  <2> HIDE DEF new
  <2>3. TokensOK(new)
    BY <2>1 DEF TokensOK
  <2>4. Tells(r, new)
    BY <1>1, <2>1, <2>2, <2>3 DEF Tells
  <2> QED
    BY <2>4
<1>5. ASSUME NEW s, NEW c, NEW kind, NEW p, AcceptGeneration(r, kind, s, c, p) PROVE \E new : Tells(r, new)
  BY <1>3, <1>5 DEF AcceptGeneration
<1>6. ASSUME NEW s, NEW c, NEW kind, Refuse(r, kind, s, c) PROVE \E new : Tells(r, new)
  BY <1>2, <1>6 DEF Refuse
<1>7. ASSUME NEW s, NEW c, AcceptClear(r, s, c) PROVE \E new : Tells(r, new)
  BY <1>4, <1>7 DEF AcceptClear
<1> QED
  BY <1>5, <1>6, <1>7 DEF Arrives

\* The reads before the generation tell a client no done.
LEMMA PrepareTells ==
    ASSUME TypeOK, DoneInv, NEW r \in Requests, Prepares(r)
    PROVE  \E new : Tells(r, new)
<1>1. UNCHANGED stored /\ req[r].pc \notin {"drop", "unit"}
  BY DEF Prepares, LoadChat, LoadHistory, AdmitGeneration, RequestFails, At
<1>2. CASE Fails(r)
  BY <1>1, <1>2, FailsTells
<1>3. ASSUME NEW pc \in {"history", "start", "generate"}, Goto(r, pc),
             req[r].pc \in {"chat", "history", "quota"}, pc = "generate" => req[r].kind # "stream"
      PROVE  \E new : Tells(r, new)
  <2>1. req[r].out = 0
    BY <1>3 DEF DoneInv, TokensOK
  <2> QED
    BY <1>1, <1>3, <2>1, GotoTells DEF Holding
<1>4. ASSUME NEW context, At(r, "history"), req' = [req EXCEPT ![r].pc = "quota", ![r].context = context]
      PROVE  \E new : Tells(r, new)
  <2> DEFINE new == [req[r] EXCEPT !.pc = "quota", !.context = context]
  <2>1. new.sent = req[r].sent /\ new.pc = "quota" /\ new.out = req[r].out
    BY DEF TypeOK, RequestRecord
  <2>2. req' = [req EXCEPT ![r] = new]
    BY <1>4 DEF TypeOK, RequestRecord
  <2> HIDE DEF new
  <2>3. TokensOK(new)
    BY <1>4, <2>1 DEF TokensOK, DoneInv, At
  <2>4. Tells(r, new)
    BY <1>1, <2>1, <2>2, <2>3 DEF Tells
  <2> QED
    BY <2>4
<1> QED
  BY <1>2, <1>3, <1>4 DEF Prepares, LoadChat, LoadHistory, AdmitGeneration, RequestFails, At

\* While it generates, a stream tells the tokens that the provider produced.
LEMMA GenerateTells ==
    ASSUME TypeOK, DoneInv, NEW r \in Requests, Generates(r)
    PROVE  \E new : Tells(r, new)
<1>1. UNCHANGED stored /\ req[r].pc \notin {"drop", "unit", "tell", "reread"}
  BY DEF Generates, SendStart, StreamEnds, ProviderFails, Token, Completes, At
<1>2. CASE Fails(r)
  BY <1>1, <1>2, FailsTells
<1>3. CASE Goto(r, "append") /\ At(r, "generate")
  <2>1. req[r].kind = "stream" => Chars(req[r].sent) = req[r].out
    BY <1>3 DEF DoneInv, TokensOK, At
  <2> QED
    BY <1>1, <1>3, <2>1, GotoTells DEF Holding
<1>4. CASE Ends(r, "dropped", "drop")
  BY <1>1, <1>4, GivesUpTells
<1>5. ASSUME NEW n, req[r].kind = "send", req' = [req EXCEPT ![r].pc = "append", ![r].out = n]
      PROVE  \E new : Tells(r, new)
  <2> DEFINE new == [req[r] EXCEPT !.pc = "append", !.out = n]
  <2>1. new.sent = req[r].sent /\ new.pc = "append" /\ new.kind = req[r].kind
    BY DEF TypeOK, RequestRecord
  <2>2. req' = [req EXCEPT ![r] = new]
    BY <1>5 DEF TypeOK, RequestRecord
  <2> HIDE DEF new
  <2>3. TokensOK(new)
    BY <1>1, <1>5, <2>1 DEF TokensOK, DoneInv
  <2>4. Tells(r, new)
    BY <1>1, <2>1, <2>2, <2>3 DEF Tells
  <2> QED
    BY <2>4
<1>6. CASE At(r, "start") /\ req' = [req EXCEPT ![r].pc = "generate",
                                  ![r].sent = <<[event |-> "message_start", len |-> 0]>>,
                                  ![r].unread = @ + 1]
  <2> DEFINE events == <<[event |-> "message_start", len |-> 0]>>
             unread == req[r].unread + 1
             new == [req[r] EXCEPT !.pc = "generate", !.sent = events, !.unread = unread]
  <2>1. req' = [req EXCEPT ![r] = new]
    BY <1>6 DEF TypeOK, RequestRecord
  <2>2. \A i \in 1..Len(events) : events[i].event # "message_done"
    OBVIOUS
  <2>3. Chars(events) = 0
    <3> DEFINE e == [event |-> "message_start", len |-> 0]
    <3>1. e \in Event /\ e.len = 0 /\ <<>> \in Seq(Event) /\ events = Append(<<>>, e)
      BY DEF Event
    <3> HIDE DEF e, events
    <3>2. Chars(Append(<<>>, e)) = Chars(<<>>) + e.len
      BY <3>1, CharsOfMore
    <3> QED
      BY <3>1, <3>2, CharsOfNone
  <2> HIDE DEF events, unread
  <2>4. new.sent = events /\ new.pc = "generate" /\ new.out = req[r].out
    BY DEF TypeOK, RequestRecord
  <2> HIDE DEF new
  <2>5. TokensOK(new)
    BY <1>6, <2>2, <2>3, <2>4 DEF TokensOK, DoneInv, At
  <2> WITNESS new
  <2> QED
    BY <1>1, <2>1, <2>2, <2>4, <2>5 DEF Tells
<1>7. ASSUME NEW n \in Chunks, At(r, "generate"), req[r].kind = "stream",
             req' = [req EXCEPT ![r].out = @ + n, ![r].unread = @ + 1,
                                ![r].sent = Append(@, [event |-> "token", len |-> n])]
      PROVE  \E new : Tells(r, new)
  <2> DEFINE e == [event |-> "token", len |-> n]
             events == Append(req[r].sent, e)
             unread == req[r].unread + 1
             out == req[r].out + n
             new == [req[r] EXCEPT !.out = out, !.unread = unread, !.sent = events]
  <2>1. req' = [req EXCEPT ![r] = new]
    BY <1>7 DEF TypeOK, RequestRecord
  <2>2. e \in Event /\ e.event # "message_done" /\ e.len = n
    BY ChatSendAssumption DEF Event, ChatSendAssumption
  <2> HIDE DEF events, unread, out
  <2>3. new.sent = events /\ new.pc = req[r].pc /\ new.out = out /\ new.kind = req[r].kind
    BY DEF TypeOK, RequestRecord
  <2> HIDE DEF new, e
  <2>4. req[r].sent \in Seq(Event)
    BY DEF TypeOK, RequestRecord
  <2>5. Chars(events) = out
    <3>1. Chars(req[r].sent) = req[r].out
      BY <1>7 DEF DoneInv, TokensOK, At
    <3>2. Chars(Append(req[r].sent, e)) = Chars(req[r].sent) + e.len
      BY <2>2, <2>4, CharsOfMore
    <3> QED
      BY <2>2, <3>1, <3>2 DEF events, out
  <2>6. TokensOK(new)
    BY <1>7, <2>3, <2>5 DEF TokensOK, At
  <2>7. Tells(r, new)
    BY <1>1, <2>1, <2>2, <2>3, <2>6 DEF Tells, events
  <2> QED
    BY <2>7
<1>8. CASE \E n \in Chunks : Token(r, n)
  BY <1>2, <1>7, <1>8 DEF Token
<1>9. CASE \E n \in Chunks : Completes(r, n)
  BY <1>2, <1>5, <1>9 DEF Completes
<1>10. CASE SendStart(r) \/ StreamEnds(r) \/ ProviderFails(r)
  BY <1>2, <1>3, <1>4, <1>6, <1>10 DEF SendStart, StreamEnds, ProviderFails
<1> QED
  BY <1>8, <1>9, <1>10 DEF Generates

\* A stream tells done only after its turn is stored.
LEMMA SettleTells ==
    ASSUME TypeOK, ControlOK, DoneInv, NEW r \in Requests, Settles(r)
    PROVE  \E new : Tells(r, new)
<1>0. req[r] \in RequestRecord
  BY DEF TypeOK
<1>1. CASE AppendTurn(r)
  <2>1. stored \subseteq stored' /\ req[r].pc = "append"
    BY <1>1 DEF AppendTurn, At
  <2>2. CASE Goto(r, "reread") /\ r \in stored'
    <3>1. req[r].kind = "stream" => Chars(req[r].sent) = req[r].out
      BY <2>1 DEF DoneInv, TokensOK
    <3> QED
      BY <2>1, <2>2, <3>1, GotoTells DEF Holding
  <2>3. CASE Fails(r) /\ UNCHANGED stored
    BY <2>1, <2>3, FailsTells
  <2> QED
    BY <1>1, <2>2, <2>3 DEF AppendTurn
<1>2. CASE ReadAttachments(r)
  <2>1. UNCHANGED stored /\ req[r].pc = "reread"
    BY <1>2 DEF ReadAttachments, At
  <2>2. r \in stored /\ (req[r].kind = "stream" => Chars(req[r].sent) = req[r].out)
    BY <2>1 DEF DoneInv, TokensOK
  <2>3. CASE Fails(r)
    BY <2>1, <2>3, FailsTells
  <2>4. ASSUME NEW pc \in {"tell", "drop"}, Ends(r, "done", pc), pc = "tell" => req[r].kind = "stream"
        PROVE  \E new : Tells(r, new)
    BY <2>1, <2>2, <2>4, GivesUpTells
  <2> QED
    BY <1>2, <2>3, <2>4 DEF ReadAttachments
<1>3. CASE Tell(r)
  <2>1. UNCHANGED stored /\ req[r].pc = "tell"
    BY <1>3 DEF Tell, At
  <2>2. CASE Goto(r, "drop")
    BY <2>1, <2>2, GotoTells DEF Holding
  <2>3. ASSUME NEW event \in {"message_done", "error"}, event = "message_done" => req[r].outcome = "done",
               req' = [req EXCEPT ![r].pc = "drop", ![r].unread = @ + 1,
                                  ![r].sent = Append(@, [event |-> event, len |-> 0])]
        PROVE  \E new : Tells(r, new)
    <3> DEFINE e == [event |-> event, len |-> 0]
               events == Append(req[r].sent, e)
               unread == req[r].unread + 1
               new == [req[r] EXCEPT !.pc = "drop", !.unread = unread, !.sent = events]
    <3>1. req' = [req EXCEPT ![r] = new]
      BY <2>3 DEF TypeOK, RequestRecord
    <3>2. /\ e \in Event /\ e.len = 0 /\ e.event = event
          /\ e.event = "message_done" => r \in stored /\ Chars(req[r].sent) = req[r].out
      BY <2>1, <2>3 DEF Event, DoneInv, TokensOK
    <3> HIDE DEF events, unread
    <3>3. new.sent = events /\ new.pc = "drop" /\ new.out = req[r].out
      BY <1>0 DEF RequestRecord
    <3> HIDE DEF new, e
    <3>4. req[r].sent \in Seq(Event)
      BY <1>0 DEF RequestRecord
    <3>5. Chars(events) = Chars(req[r].sent)
      <4>1. Chars(req[r].sent) \in Nat /\ Chars(Append(req[r].sent, e)) = Chars(req[r].sent) + e.len
        BY <3>2, <3>4, CharsOfMore
      <4> QED
        BY <3>2, <4>1 DEF events
    <3>6. \A i \in 1..Len(events) : events[i].event = "message_done" => Chars(events) = req[r].out
      <4>1. CASE event = "message_done"
        BY <3>2, <3>5, <4>1
      <4>2. CASE event # "message_done"
        <5>1. /\ Len(events) = Len(req[r].sent) + 1 /\ Len(req[r].sent) \in Nat
              /\ \A i \in 1..Len(req[r].sent) : events[i] = req[r].sent[i]
              /\ events[Len(req[r].sent) + 1] = e
          BY <3>2, <3>4, AppendProperties, LenProperties DEF events
        <5>2. \A i \in 1..Len(req[r].sent) : req[r].sent[i].event # "message_done"
          BY <2>1 DEF DoneInv
        <5> QED
          BY <3>2, <4>2, <5>1, <5>2
      <4> QED
        BY <4>1, <4>2
    <3>7. TokensOK(new)
      BY <3>3, <3>6 DEF TokensOK
    <3>8. Tells(r, new)
      BY <2>1, <3>1, <3>2, <3>3, <3>7 DEF Tells, events
    <3> QED
      BY <3>8
  <2> QED
    BY <1>3, <2>2, <2>3 DEF Tell
<1>4. CASE ClearMessages(r)
  <2>1. UNCHANGED stored /\ req[r].pc = "clear"
    BY <1>4 DEF ClearMessages, At
  <2>2. CASE Fails(r)
    BY <2>1, <2>2, FailsTells
  <2>3. CASE Ends(r, "done", "drop")
    BY <2>1, <2>3, GivesUpTells
  <2> QED
    BY <1>4, <2>2, <2>3 DEF ClearMessages
<1>5. CASE DropPermit(r)
  <2>1. CASE req[r].kind = "clear"
    BY <1>5, <2>1, EndedTells DEF DropPermit
  <2>2. CASE req[r].kind # "clear"
    <3> DEFINE new == [req[r] EXCEPT !.pc = "unit"]
    <3>1. req' = [req EXCEPT ![r] = new] /\ UNCHANGED stored
      BY <1>5, <2>2 DEF DropPermit
    <3>2. new.sent = req[r].sent /\ new.pc = "unit" /\ new.out = req[r].out
      BY <1>0 DEF RequestRecord
    <3> HIDE DEF new
    <3>3. TokensOK(new)
      BY <3>2 DEF TokensOK, DoneInv
    <3>4. Tells(r, new)
      BY <3>1, <3>2, <3>3 DEF Tells
    <3> QED
      BY <3>4
  <2> QED
    BY <2>1, <2>2
<1>6. CASE ReturnUnit(r)
  BY <1>6, EndedTells DEF ReturnUnit
<1> QED
  BY <1>1, <1>2, <1>3, <1>4, <1>5, <1>6 DEF Settles

\* What a client does tells it nothing.
LEMMA ClientTells ==
    ASSUME TypeOK, DoneInv, NEW r \in Requests, ClientActs(r)
    PROVE  \E new : Tells(r, new)
<1>1. req[r] \in RequestRecord /\ UNCHANGED stored
  BY DEF TypeOK, ClientActs, ClientReads, Disconnect
<1>2. ASSUME NEW new, req' = [req EXCEPT ![r] = new],
             new.sent = req[r].sent, new.pc = req[r].pc, new.outcome = req[r].outcome,
             new.kind = req[r].kind, new.out = req[r].out
      PROVE  Tells(r, new)
  <2>1. TokensOK(new)
    BY <1>2 DEF TokensOK, DoneInv
  <2> QED
    BY <1>1, <1>2, <2>1 DEF Tells, DoneInv
<1>3. CASE ClientReads(r)
  <2> DEFINE unread == req[r].unread - 1
             new == [req[r] EXCEPT !.unread = unread]
  <2>1. req' = [req EXCEPT ![r] = new]
    BY <1>3 DEF ClientReads
  <2> HIDE DEF unread
  <2>2. /\ new.sent = req[r].sent /\ new.pc = req[r].pc /\ new.outcome = req[r].outcome
        /\ new.kind = req[r].kind /\ new.out = req[r].out
    BY <1>1 DEF RequestRecord
  <2> HIDE DEF new
  <2> QED
    BY <1>2, <2>1, <2>2
<1>4. CASE Disconnect(r)
  <2>1. CASE Spawned(r) \/ req[r].pc \in {"drop", "unit"}
    <3> DEFINE new == [req[r] EXCEPT !.conn = FALSE, !.unread = 0]
    <3>1. req' = [req EXCEPT ![r] = new]
      BY <1>4, <2>1 DEF Disconnect
    <3>2. /\ new.sent = req[r].sent /\ new.pc = req[r].pc /\ new.outcome = req[r].outcome
          /\ new.kind = req[r].kind /\ new.out = req[r].out
      BY <1>1 DEF RequestRecord
    <3> HIDE DEF new
    <3> QED
      BY <1>2, <3>1, <3>2
  <2>2. CASE ~(Spawned(r) \/ req[r].pc \in {"drop", "unit"})
    <3> DEFINE gone == GivesUp(r, "dropped", "drop")
               new == [gone EXCEPT !.conn = FALSE, !.unread = 0]
    <3>1. req' = [req EXCEPT ![r] = new]
      BY <1>4, <2>2 DEF Disconnect
    <3>2. gone \in RequestRecord /\ gone.sent = req[r].sent /\ gone.pc = "drop"
      BY GivesUpRecord DEF Holding
    <3> HIDE DEF gone
    <3>3. new.sent = req[r].sent /\ new.pc = "drop"
      BY <3>2 DEF RequestRecord
    <3> HIDE DEF new
    <3>4. \A i \in 1..Len(req[r].sent) : req[r].sent[i].event # "message_done"
      BY <2>2 DEF DoneInv
    <3>5. TokensOK(new)
      BY <3>3, <3>4 DEF TokensOK
    <3>6. Tells(r, new)
      BY <1>1, <2>2, <3>1, <3>3, <3>5 DEF Tells
    <3> QED
      BY <3>6
  <2> QED
    BY <2>1, <2>2
<1> QED
  BY <1>3, <1>4 DEF ClientActs

\* Every step keeps the promise of done.
LEMMA DoneStep == ChatSendInv /\ DoneInv /\ [Next]_vars => DoneInv'
<1> SUFFICES ASSUME ChatSendInv, DoneInv, [Next]_vars PROVE DoneInv'
  OBVIOUS
<1> USE DEF ChatSendInv
<1>1. ASSUME NEW r \in Requests, Arrives(r) \/ Prepares(r) \/ Generates(r) \/ Settles(r) \/ ClientActs(r)
      PROVE  DoneInv'
  <2>1. PICK new : Tells(r, new)
    BY <1>1, ArriveTells, PrepareTells, GenerateTells, SettleTells, ClientTells
  <2> QED
    BY <2>1, TellsDone
<1>2. CASE UNCHANGED <<req, stored>>
  BY <1>2 DEF DoneInv, TokensOK
<1>3. CASE Crash
  <2>1. \A r \in Requests : req'[r] = req[r] \/ (req'[r].pc = "end" /\ req'[r].sent = <<>>)
    BY <1>3, EndedRecord DEF Crash
  <2>2. Len(<<>>) = 0 /\ stored' = stored
    BY <1>3 DEF Crash
  <2> QED
    BY <2>1, <2>2 DEF DoneInv, TokensOK
<1> QED
  BY <1>1, <1>2, <1>3 DEF Next, CreateChat, DeleteChat, vars

\* A client told message_done is told nothing after it, its turn is committed, and the
\* tokens it was sent are the whole stored reply: stream_message announces the reply
\* only after append_chat_messages returned.
THEOREM DoneMeansStoredHolds == Spec => []DoneMeansStored
<1>1. Init => DoneInv
  <2>1. Init => \A r \in Requests : req[r].sent = <<>> /\ req[r].pc = "idle"
    BY DEF Init, NoRequest
  <2>2. Len(<<>>) = 0
    OBVIOUS
  <2> QED
    BY <2>1, <2>2 DEF DoneInv, TokensOK
<1>2. DoneInv => DoneMeansStored
  BY DEF DoneInv, TokensOK, DoneMeansStored, Streamed
<1> QED
  BY <1>1, <1>2, DoneStep, ChatSendInvariant, PTL DEF Spec

-----------------------------------------------------------------------------
(***************************************************************************)
(* ProviderStream: the table of replacements.                              *)
(***************************************************************************)
\* All characters: those of replies, and those of the protocol.
Symbols == Letters \cup Thai \cup {Lossy, "lf", "cr", "data:", "[DONE]", "broken", "!"}

\* A term begins like no other part of a term, and ends like no beginning of one.
TermOK(s) ==
    /\ s \in Seq(Symbols) /\ Len(s) \in 2 .. 6
    /\ s[1] \in {"kho", "pho"}
    /\ \A i \in 1 .. Len(s) - 1 : s[i] # "a"
    /\ \A i \in 2 .. Len(s) : s[i] \notin {"kho", "ai"}
    /\ \A i \in 2 .. Len(s) : s[i] = "pho" => i = 5 /\ Len(s) = 6 /\ s[6] = "mo"
    /\ s[1] = "pho" => Len(s) = 2 /\ s[2] = "mo"
    /\ s[1] = "kho" => s[2] # "tone"

\* Where the places of a short sequence are.
LEMMA Places ==
    /\ 1 .. 1 = {1} /\ 1 .. 2 = {1, 2} /\ 1 .. 3 = {1, 2, 3} /\ 1 .. 5 = {1, 2, 3, 4, 5}
    /\ 2 .. 2 = {2} /\ 2 .. 3 = {2, 3} /\ 2 .. 4 = {2, 3, 4} /\ 2 .. 5 = {2, 3, 4, 5}
    /\ 2 .. 6 = {2, 3, 4, 5, 6}
OBVIOUS

\* The terms and what replaces them are sequences of characters.
LEMMA TypesOfTerms ==
    /\ KrapNa \in Seq(Symbols) /\ KrapPhom \in Seq(Symbols) /\ Krap \in Seq(Symbols) /\ Kap \in Seq(Symbols)
    /\ Phom \in Seq(Symbols) /\ KhaNa \in Seq(Symbols) /\ Kha \in Seq(Symbols) /\ Aiko \in Seq(Symbols)
BY DEF KrapNa, KrapPhom, Krap, Kap, Phom, KhaNa, Kha, Aiko, Symbols, Thai

\* The five terms, each of which has that form.
LEMMA TermsOK ==
    /\ Terms = {KrapNa, KrapPhom, Krap, Kap, Phom}
    /\ \A s \in Terms : TermOK(s)
<1>1. Terms = {KrapNa, KrapPhom, Krap, Kap, Phom}
  <2>1. DOMAIN Replacements = {1, 2, 3, 4, 5}
    BY Places DEF Replacements
  <2> QED
    BY <2>1 DEF Terms, Replacements
<1>2. TermOK(KrapNa)
  BY TypesOfTerms, Places DEF TermOK, KrapNa
<1>3. TermOK(KrapPhom)
  BY TypesOfTerms, Places DEF TermOK, KrapPhom
<1>4. TermOK(Krap)
  BY TypesOfTerms, Places DEF TermOK, Krap
<1>5. TermOK(Kap)
  BY TypesOfTerms, Places DEF TermOK, Kap
<1>6. TermOK(Phom)
  BY TypesOfTerms, Places DEF TermOK, Phom
<1> QED
  BY <1>1, <1>2, <1>3, <1>4, <1>5, <1>6

\* What replaces a term has no place for one, and cannot be the end or the beginning of one.
SubstituteOK(o) ==
    /\ o \in Seq(Symbols) /\ Len(o) \in 3 .. 5
    /\ o[1] \in {"kho", "ai"} /\ o[Len(o)] = "a"
    /\ o[1] = "kho" => o[2] = "tone"
    /\ \A i \in 2 .. Len(o) : o[i] \notin {"kho", "pho"}

\* The table replaces terms, by substitutes of that form.
LEMMA TableOK ==
    \A i \in 1 .. 5 : Replacements[i][1] \in Terms /\ SubstituteOK(Replacements[i][2])
<1>1. SubstituteOK(KhaNa)
  BY TypesOfTerms, Places DEF SubstituteOK, KhaNa
<1>2. SubstituteOK(Kha)
  BY TypesOfTerms, Places DEF SubstituteOK, Kha
<1>3. SubstituteOK(Aiko)
  BY TypesOfTerms, Places DEF SubstituteOK, Aiko
<1> QED
  BY <1>1, <1>2, <1>3, Places, TermsOK DEF Replacements

\* The recursion of Replaced: what the first k characters become.
Next1(u, t, f, o, k) ==
    IF k = 0 THEN <<>>
    ELSE IF Len(f) <= k /\ OccursAt(t, f, k - Len(f) + 1) THEN u[k - Len(f)] \o o
    ELSE Append(u[k - 1], t[k])
Replaces(u, t, f, o) == u = [k \in 0 .. Len(t) |-> Next1(u, t, f, o, k)]

\* The same, as the proofs read it.
Rewrites(u, t, f, o) ==
    /\ u[0] = <<>>
    /\ \A k \in 0 .. Len(t) : u[k] \in Seq(Symbols)
    /\ \A k \in 1 .. Len(t) :
          \/ Len(f) <= k /\ OccursAt(t, f, k - Len(f) + 1) /\ u[k] = u[k - Len(f)] \o o
          \/ ~(Len(f) <= k /\ OccursAt(t, f, k - Len(f) + 1)) /\ u[k] = Append(u[k - 1], t[k])

\* Is g a solution of the recursion up to n?
Solves(g, t, f, o, n) ==
    g[0] = <<>> /\ \A k \in 0 .. n : g[k] = Next1(g, t, f, o, k) /\ g[k] \in Seq(Symbols)

\* The recursion has a solution up to n + 1 when it has one up to n.
LEMMA ReplacesExtends ==
    ASSUME NEW t \in Seq(Symbols), NEW f \in Seq(Symbols), Len(f) >= 1, NEW o \in Seq(Symbols),
           NEW n \in Nat, n < Len(t), NEW g, Solves(g, t, f, o, n)
    PROVE  \E h : Solves(h, t, f, o, n + 1)
<1>0. g[0] = <<>> /\ \A k \in 0 .. n : g[k] = Next1(g, t, f, o, k) /\ g[k] \in Seq(Symbols)
  BY DEF Solves
<1>1. PICK x : x = Next1(g, t, f, o, n + 1)
  OBVIOUS
<1>2. PICK h : h = [k \in 0 .. n + 1 |-> IF k = n + 1 THEN x ELSE g[k]]
  OBVIOUS
<1>3. h[n + 1] = x /\ \A k \in 0 .. n : h[k] = g[k]
  BY <1>2
<1>4. \A k \in 0 .. n + 1 : Next1(h, t, f, o, k) = Next1(g, t, f, o, k)
  <2> SUFFICES ASSUME NEW k \in 0 .. n + 1
               PROVE  Next1(h, t, f, o, k) = Next1(g, t, f, o, k)
    OBVIOUS
  <2>1. k = 0 \/ (k # 0 /\ k - 1 \in 0 .. n)
    OBVIOUS
  <2>2. Len(f) <= k => k - Len(f) \in 0 .. n
    OBVIOUS
  <2> QED
    BY <1>3, <2>1, <2>2 DEF Next1
<1>5. x \in Seq(Symbols)
  <2>1. CASE Len(f) <= n + 1 /\ OccursAt(t, f, n + 1 - Len(f) + 1)
    <3>1. x = g[n + 1 - Len(f)] \o o /\ n + 1 - Len(f) \in 0 .. n
      <4>1. PICK m : m = n + 1 /\ m # 0
        OBVIOUS
      <4>2. x = g[m - Len(f)] \o o
        BY <1>1, <2>1, <4>1 DEF Next1
      <4>3. n + 1 - Len(f) \in 0 .. n
        BY <2>1, LenProperties
      <4> QED
        BY <4>1, <4>2, <4>3
    <3>2. PICK y \in Seq(Symbols) : y = g[n + 1 - Len(f)]
      BY <1>0, <3>1
    <3> QED
      BY <3>1, <3>2, ConcatProperties
  <2>2. CASE ~(Len(f) <= n + 1 /\ OccursAt(t, f, n + 1 - Len(f) + 1))
    <3>1. x = Append(g[n], t[n + 1])
      <4>1. PICK m : m = n + 1 /\ m # 0 /\ m - 1 = n
        OBVIOUS
      <4>2. x = Next1(g, t, f, o, m) /\ ~(Len(f) <= m /\ OccursAt(t, f, m - Len(f) + 1))
        BY <1>1, <2>2, <4>1
      <4>3. x = Append(g[m - 1], t[m])
        BY <4>1, <4>2 DEF Next1
      <4> QED
        BY <4>1, <4>3
    <3>2. t[n + 1] \in Symbols /\ g[n] \in Seq(Symbols)
      BY <1>0
    <3> QED
      BY <3>1, <3>2
  <2> QED
    BY <2>1, <2>2
<1>6. \A k \in 0 .. n + 1 : k \in 0 .. n \/ k = n + 1
  OBVIOUS
<1>7. \A k \in 0 .. n + 1 : h[k] = Next1(h, t, f, o, k) /\ h[k] \in Seq(Symbols)
  BY <1>0, <1>1, <1>3, <1>4, <1>5, <1>6
<1>8. h[0] = <<>>
  <2>1. 0 \in 0 .. n
    OBVIOUS
  <2> QED
    BY <1>0, <1>3, <2>1
<1> QED
  BY <1>7, <1>8 DEF Solves

\* Replaced is the last of the sequences of its recursion.
LEMMA ReplacedRewrites ==
    ASSUME NEW t \in Seq(Symbols), NEW f \in Seq(Symbols), Len(f) >= 1, NEW o \in Seq(Symbols)
    PROVE  \E u : Rewrites(u, t, f, o) /\ Replaced(t, f, o) = u[Len(t)]
<1> DEFINE Upto(n) == \E g : Solves(g, t, f, o, n)
           T == {n \in Nat : n <= Len(t) => Upto(n)}
<1>1. 0 \in T
  <2>1. PICK g : g = [k \in 0 .. 0 |-> <<>>]
    OBVIOUS
  <2>2. g[0] = <<>> /\ \A k \in 0 .. 0 : g[k] = Next1(g, t, f, o, k) /\ g[k] \in Seq(Symbols)
    BY <2>1 DEF Next1
  <2>3. Solves(g, t, f, o, 0)
    BY <2>2 DEF Solves
  <2> QED
    BY <2>3
<1>2. ASSUME NEW n \in T PROVE n + 1 \in T
  <2> SUFFICES ASSUME n + 1 <= Len(t) PROVE Upto(n + 1)
    OBVIOUS
  <2>1. PICK g : Solves(g, t, f, o, n)
    OBVIOUS
  <2>2. n < Len(t) /\ n \in Nat
    OBVIOUS
  <2>3. \E h : Solves(h, t, f, o, n + 1)
    <3> HIDE DEF T
    <3> QED
      BY <2>1, <2>2, ReplacesExtends
  <2> QED
    BY <2>3
<1>3. T = Nat
  BY <1>1, <1>2, NumberInduction
<1>4. Len(t) \in Nat
  OBVIOUS
<1>40. Len(t) \in T
  BY <1>3, <1>4
<1>5. PICK g : \A k \in 0 .. Len(t) : g[k] = Next1(g, t, f, o, k) /\ g[k] \in Seq(Symbols)
  BY <1>40 DEF Solves
<1>6. PICK e : e = [k \in 0 .. Len(t) |-> g[k]]
  OBVIOUS
<1>7. \A k \in 0 .. Len(t) : Next1(e, t, f, o, k) = Next1(g, t, f, o, k)
  <2> SUFFICES ASSUME NEW k \in 0 .. Len(t)
               PROVE  Next1(e, t, f, o, k) = Next1(g, t, f, o, k)
    OBVIOUS
  <2>1. k = 0 \/ (k # 0 /\ k - 1 \in 0 .. Len(t))
    OBVIOUS
  <2>2. Len(f) <= k => k - Len(f) \in 0 .. Len(t)
    OBVIOUS
  <2> QED
    BY <1>6, <2>1, <2>2 DEF Next1
<1>8. Replaces(e, t, f, o)
  BY <1>5, <1>6, <1>7 DEF Replaces
<1>9. PICK u : u = CHOOSE v : Replaces(v, t, f, o)
  OBVIOUS
<1>10. Replaces(u, t, f, o)
  BY <1>8, <1>9
<1>11. Replaced(t, f, o) = (CHOOSE v : Replaces(v, t, f, o))[Len(t)]
  BY DEF Replaced, Replaces, Next1
<1>12. \A k \in 0 .. Len(t) : u[k] = Next1(u, t, f, o, k)
  BY <1>10 DEF Replaces
<1>13. \A k \in 0 .. Len(t) : u[k] \in Seq(Symbols)
  <2> DEFINE S == {n \in Nat : \A k \in 0 .. n : k <= Len(t) => u[k] \in Seq(Symbols)}
  <2>1. 0 \in S
    <3>1. 0 \in 0 .. Len(t) /\ Next1(u, t, f, o, 0) = <<>> /\ <<>> \in Seq(Symbols)
      BY DEF Next1
    <3>2. u[0] \in Seq(Symbols)
      BY <1>12, <3>1
    <3> QED
      BY <3>2
  <2>2. ASSUME NEW n \in S PROVE n + 1 \in S
    <3> SUFFICES ASSUME n + 1 <= Len(t) PROVE u[n + 1] \in Seq(Symbols)
      OBVIOUS
    <3>1. u[n + 1] = Next1(u, t, f, o, n + 1) /\ n + 1 # 0 /\ n \in Nat
      BY <1>12
    <3>2. CASE Len(f) <= n + 1 /\ OccursAt(t, f, n + 1 - Len(f) + 1)
      <4>1. u[n + 1] = u[n + 1 - Len(f)] \o o /\ n + 1 - Len(f) \in 0 .. n
        BY <3>1, <3>2 DEF Next1
      <4>2. PICK y \in Seq(Symbols) : y = u[n + 1 - Len(f)]
        BY <4>1
      <4> QED
        BY <4>1, <4>2, ConcatProperties
    <3>3. CASE ~(Len(f) <= n + 1 /\ OccursAt(t, f, n + 1 - Len(f) + 1))
      <4>1. u[n + 1] = Append(u[n], t[n + 1])
        <5>1. PICK m : m = n + 1 /\ m # 0 /\ m - 1 = n
          <6> HIDE DEF S, T, Upto
          <6> QED
            BY <3>1
        <5>2. u[m] = Next1(u, t, f, o, m) /\ ~(Len(f) <= m /\ OccursAt(t, f, m - Len(f) + 1))
          BY <3>1, <3>3, <5>1
        <5>3. u[m] = Append(u[m - 1], t[m])
          BY <5>1, <5>2 DEF Next1
        <5> QED
          BY <5>1, <5>3
      <4>2. t[n + 1] \in Symbols /\ u[n] \in Seq(Symbols)
        OBVIOUS
      <4> QED
        BY <4>1, <4>2
    <3> QED
      BY <3>2, <3>3
  <2>3. S = Nat
    BY <2>1, <2>2, NumberInduction
  <2>4. Len(t) \in S /\ Len(t) \in Nat
    <3> HIDE DEF S
    <3> QED
      BY <2>3, LenProperties
  <2>5. \A k \in 0 .. Len(t) : k <= Len(t)
    BY <2>4
  <2> QED
    BY <2>4, <2>5
<1>14. Rewrites(u, t, f, o)
  <2>1. u[0] = <<>>
    BY <1>12 DEF Next1
  <2>2. ASSUME NEW k \in 1 .. Len(t)
        PROVE  \/ Len(f) <= k /\ OccursAt(t, f, k - Len(f) + 1) /\ u[k] = u[k - Len(f)] \o o
               \/ ~(Len(f) <= k /\ OccursAt(t, f, k - Len(f) + 1)) /\ u[k] = Append(u[k - 1], t[k])
    <3>1. u[k] = Next1(u, t, f, o, k) /\ k # 0
      BY <1>12
    <3> QED
      BY <3>1 DEF Next1
  <2> QED
    BY <1>13, <2>1, <2>2 DEF Rewrites
<1> QED
  BY <1>9, <1>11, <1>14

\* Two sequences joined: the length, and the elements of both.
Joins(c, a, b) ==
    /\ Len(c) = Len(a) + Len(b)
    /\ \A i \in 1 .. Len(a) : c[i] = a[i]
    /\ \A i \in 1 .. Len(b) : c[Len(a) + i] = b[i]

\* A concatenation joins its parts.
LEMMA Joined ==
    ASSUME NEW S, NEW a \in Seq(S), NEW b \in Seq(S)
    PROVE  a \o b \in Seq(S) /\ Joins(a \o b, a, b)
<1>1. a \o b \in Seq(S) /\ Len(a \o b) = Len(a) + Len(b)
  BY ConcatProperties
<1>2. Len(a) \in Nat /\ Len(b) \in Nat
  OBVIOUS
<1>3. \A k \in 1 .. Len(a) + Len(b) : (a \o b)[k] = IF k <= Len(a) THEN a[k] ELSE b[k - Len(a)]
  BY ConcatProperties
<1>4. ASSUME NEW i \in 1 .. Len(a) PROVE (a \o b)[i] = a[i]
  BY <1>2, <1>3
<1>5. ASSUME NEW i \in 1 .. Len(b) PROVE (a \o b)[Len(a) + i] = b[i]
  <2>1. PICK k : k = Len(a) + i
    OBVIOUS
  <2>2. k \in 1 .. Len(a) + Len(b) /\ ~(k <= Len(a)) /\ k - Len(a) = i
    BY <1>2, <2>1
  <2> QED
    BY <1>3, <2>1, <2>2
<1> QED
  BY <1>1, <1>4, <1>5 DEF Joins

\* An element of the whole is one of a part.
LEMMA JoinedPlace ==
    ASSUME NEW S, NEW a \in Seq(S), NEW b \in Seq(S), NEW c, Joins(c, a, b), NEW k \in 1 .. Len(c)
    PROVE  /\ k <= Len(a) => k \in 1 .. Len(a) /\ c[k] = a[k]
           /\ k > Len(a) => k - Len(a) \in 1 .. Len(b) /\ c[k] = b[k - Len(a)]
<1>1. Len(a) \in Nat /\ Len(b) \in Nat /\ Len(c) = Len(a) + Len(b)
  BY DEF Joins
<1>2. CASE k <= Len(a)
  BY <1>1, <1>2 DEF Joins
<1>3. CASE k > Len(a)
  <2>1. PICK i : i = k - Len(a)
    OBVIOUS
  <2>2. i \in 1 .. Len(b) /\ Len(a) + i = k
    BY <1>1, <1>3, <2>1
  <2> QED
    BY <1>1, <1>3, <2>1, <2>2 DEF Joins
<1> QED
  BY <1>1, <1>2, <1>3

\* Does t end with the first m characters of s at its k-th character?
EndsAt(t, k, s, m) == m <= k /\ \A i \in 1 .. m : t[(k - m) + i] = s[i]

\* The end of a rewritten text that has no last character of the substitute is the end of the text.
LEMMA EndKept ==
    ASSUME NEW t \in Seq(Symbols), NEW f \in Seq(Symbols), Len(f) >= 1, NEW o \in Seq(Symbols), Len(o) >= 1,
           NEW u, Rewrites(u, t, f, o), NEW s \in Seq(Symbols), NEW k \in 0 .. Len(t),
           NEW m \in 0 .. Len(s), \A i \in 1 .. m : s[i] # o[Len(o)], EndsWith(u[k], s, m)
    PROVE  EndsAt(t, k, s, m)
<1> DEFINE Kept(j, n) == EndsWith(u[j], s, n) => EndsAt(t, j, s, n)
           T == {j \in Nat : j <= Len(t) => \A n \in 0 .. m : Kept(j, n)}
<1>1. 0 \in T
  <2>1. u[0] = <<>>
    BY DEF Rewrites
  <2>2. \A n \in 0 .. m : EndsWith(<<>>, s, n) => n = 0
    BY DEF EndsWith
  <2>3. EndsAt(t, 0, s, 0)
    BY DEF EndsAt
  <2> QED
    BY <2>1, <2>2, <2>3
<1>2. ASSUME NEW j \in T PROVE j + 1 \in T
  <2> SUFFICES ASSUME j + 1 <= Len(t), NEW n \in 0 .. m, EndsWith(u[j + 1], s, n)
               PROVE  EndsAt(t, j + 1, s, n)
    OBVIOUS
  <2>1. PICK l : l = j + 1 /\ l \in 1 .. Len(t) /\ l - 1 = j /\ j \in 0 .. Len(t)
    OBVIOUS
  <2>2. CASE n = 0
    BY <2>2 DEF EndsAt
  <2>3. CASE n # 0 /\ Len(f) <= l /\ u[l] = u[l - Len(f)] \o o
    <3>1. PICK w \in Seq(Symbols) : w = u[l - Len(f)]
      BY <2>1, <2>3 DEF Rewrites
    <3>2. u[l] \in Seq(Symbols) /\ Joins(u[l], w, o)
      BY <2>3, <3>1, Joined
    <3>3. u[l][Len(w) + Len(o)] = o[Len(o)] /\ Len(u[l]) = Len(w) + Len(o)
      BY <3>2 DEF Joins
    <3>4. u[l][(Len(u[l]) - n) + n] = s[n]
      <4>1. n \in 1 .. n /\ EndsWith(u[l], s, n)
        BY <2>1, <2>3
      <4> QED
        BY <4>1 DEF EndsWith
    <3>5. s[n] = o[Len(o)]
      BY <3>2, <3>3, <3>4
    <3> QED
      BY <2>3, <3>5
  <2>4. CASE n # 0 /\ u[l] = Append(u[j], t[l])
    <3>1. PICK w \in Seq(Symbols) : w = u[j]
      BY <2>1 DEF Rewrites
    <3>2. t[l] \in Symbols
      BY <2>1
    <3>3. /\ Len(u[l]) = Len(w) + 1 /\ u[l][Len(w) + 1] = t[l]
          /\ \A i \in 1 .. Len(w) : u[l][i] = w[i]
      BY <2>4, <3>1, <3>2
    <3>4. n <= Len(w) + 1 /\ \A i \in 1 .. n : u[l][(Len(w) + 1 - n) + i] = s[i]
      BY <2>1, <3>3 DEF EndsWith
    <3>5. EndsWith(w, s, n - 1)
      <4>0. n \in Nat /\ Len(w) \in Nat /\ n <= Len(w) + 1
        BY <3>4
      <4>1. \A i \in 1 .. n - 1 : (Len(w) - (n - 1)) + i \in 1 .. Len(w)
                                    /\ (Len(w) - (n - 1)) + i = (Len(w) + 1 - n) + i
        BY <4>0
      <4>2. ASSUME NEW i \in 1 .. n - 1 PROVE w[(Len(w) - (n - 1)) + i] = s[i]
        <5>1. PICK p : p = (Len(w) - (n - 1)) + i
          OBVIOUS
        <5>2. p \in 1 .. Len(w) /\ p = (Len(w) + 1 - n) + i
          BY <4>1, <5>1
        <5>3. i \in 1 .. n
          OBVIOUS
        <5>4. u[l][(Len(w) + 1 - n) + i] = s[i]
          BY <3>4, <5>3
        <5>5. u[l][p] = s[i] /\ u[l][p] = w[p]
          BY <3>3, <5>2, <5>4
        <5> QED
          BY <5>1, <5>5
      <4> QED
        BY <2>4, <3>4, <4>2 DEF EndsWith
    <3>6. EndsAt(t, j, s, n - 1)
      BY <2>1, <2>4, <3>1, <3>5
    <3>7. t[l] = s[n]
      <4>1. n \in 1 .. n /\ (Len(w) + 1 - n) + n = Len(w) + 1
        BY <2>4
      <4>2. u[l][(Len(w) + 1 - n) + n] = s[n]
        BY <3>4, <4>1
      <4> QED
        BY <3>3, <4>1, <4>2
    <3>8. \A i \in 1 .. n : t[(l - n) + i] = s[i]
      <4> SUFFICES ASSUME NEW i \in 1 .. n PROVE t[(l - n) + i] = s[i]
        OBVIOUS
      <4>1. CASE i = n
        BY <2>1, <3>7, <4>1
      <4>2. CASE i # n
        <5>1. i \in 1 .. n - 1 /\ (j - (n - 1)) + i = (l - n) + i
          BY <2>1, <4>2
        <5> QED
          BY <3>6, <5>1 DEF EndsAt
      <4> QED
        BY <4>1, <4>2
    <3> QED
      BY <2>1, <2>4, <3>6, <3>8 DEF EndsAt
  <2> QED
    BY <2>1, <2>2, <2>3, <2>4 DEF Rewrites
<1>3. T = Nat
  BY <1>1, <1>2, NumberInduction
<1> QED
  BY <1>3

\* Does t begin with the first m characters of s?
Begins(t, s, m) == m <= Len(t) /\ \A i \in 1 .. m : t[i] = s[i]

\* The beginning of a rewritten text that has no first character of the substitute is that of the text.
LEMMA BeginningKept ==
    ASSUME NEW t \in Seq(Symbols), NEW f \in Seq(Symbols), Len(f) >= 1, NEW o \in Seq(Symbols), Len(o) >= 1,
           NEW u, Rewrites(u, t, f, o), NEW s \in Seq(Symbols), NEW k \in 0 .. Len(t),
           NEW m \in 0 .. Len(s), \A i \in 1 .. m : s[i] # o[1], Begins(u[k], s, m)
    PROVE  m <= k /\ Begins(t, s, m)
<1> DEFINE Kept(j, n) == Begins(u[j], s, n) => /\ n <= j
                                               /\ \A i \in 1 .. n : t[i] = s[i]
                                               /\ n = Len(u[j]) => n = j
           T == {j \in Nat : \A l \in 0 .. j : l <= Len(t) => \A n \in 0 .. m : Kept(l, n)}
<1>1. 0 \in T
  <2>1. u[0] = <<>>
    BY DEF Rewrites
  <2>2. \A n \in 0 .. m : Begins(<<>>, s, n) => n = 0
    BY DEF Begins
  <2> QED
    BY <2>1, <2>2
<1>2. ASSUME NEW j \in T PROVE j + 1 \in T
  <2> SUFFICES ASSUME j + 1 <= Len(t), NEW n \in 0 .. m, Begins(u[j + 1], s, n)
               PROVE  Kept(j + 1, n)
    <3>1. j \in Nat /\ \A l \in 0 .. j : l <= Len(t) => \A n \in 0 .. m : Kept(l, n)
      OBVIOUS
    <3>2. j + 1 \in Nat /\ \A l \in 0 .. j + 1 : l \in 0 .. j \/ l = j + 1
      BY <3>1
    <3>3. (j + 1 <= Len(t) => \A n \in 0 .. m : Kept(j + 1, n))
             => \A l \in 0 .. j + 1 : l <= Len(t) => \A n \in 0 .. m : Kept(l, n)
      <4> HIDE DEF Kept, T
      <4> QED
        BY <3>1, <3>2
    <3>4. (j + 1 <= Len(t) => \A n \in 0 .. m : Kept(j + 1, n)) => j + 1 \in T
      <4> HIDE DEF Kept
      <4> QED
        BY <3>2, <3>3
    <3> QED
      <4> HIDE DEF T
      <4> QED
        BY <3>4
  <2>1. PICK l : l = j + 1 /\ l \in 1 .. Len(t) /\ l - 1 = j /\ j \in 0 .. Len(t)
    OBVIOUS
  <2>2. CASE Len(f) <= l /\ u[l] = u[l - Len(f)] \o o
    <3>1. PICK w \in Seq(Symbols) : w = u[l - Len(f)]
      BY <2>1, <2>2 DEF Rewrites
    <3>2. u[l] \in Seq(Symbols) /\ Joins(u[l], w, o)
      BY <2>2, <3>1, Joined
    <3>3. /\ u[l][Len(w) + 1] = o[1] /\ Len(u[l]) = Len(w) + Len(o)
          /\ \A i \in 1 .. Len(w) : u[l][i] = w[i]
      BY <3>2 DEF Joins
    <3>4. n <= Len(w) + Len(o) /\ \A i \in 1 .. n : u[l][i] = s[i]
      BY <2>1, <3>3 DEF Begins
    <3>5. n <= Len(w)
      <4> SUFFICES ASSUME ~(n <= Len(w)) PROVE FALSE
        OBVIOUS
      <4>1. Len(w) + 1 \in 1 .. n
        OBVIOUS
      <4> QED
        BY <3>3, <3>4, <4>1
    <3>6. Begins(w, s, n)
      BY <3>3, <3>4, <3>5 DEF Begins
    <3>7. l - Len(f) \in 0 .. j
      BY <2>1, <2>2
    <3>8. PICK q : q = l - Len(f) /\ q \in 0 .. j /\ q <= Len(t)
      BY <2>1, <3>7
    <3>9. Kept(q, n)
      BY <3>8
    <3>10. n <= q /\ \A i \in 1 .. n : t[i] = s[i]
      BY <3>1, <3>6, <3>8, <3>9
    <3>11. n <= j + 1 /\ n # Len(u[j + 1])
      <4>1. n \in Nat /\ Len(w) \in Nat /\ Len(o) \in Nat /\ Len(u[j + 1]) = Len(w) + Len(o)
        BY <2>1, <3>3
      <4>2. n # Len(w) + Len(o)
        BY <3>5, <4>1
      <4>3. q \in Nat /\ q <= j + 1
        BY <2>1, <3>8
      <4> QED
        BY <3>10, <4>1, <4>2, <4>3
    <3> QED
      BY <3>10, <3>11
  <2>3. CASE u[l] = Append(u[j], t[l])
    <3>1. PICK w \in Seq(Symbols) : w = u[j]
      BY <2>1 DEF Rewrites
    <3>2. t[l] \in Symbols
      BY <2>1
    <3>3. /\ Len(u[l]) = Len(w) + 1 /\ u[l][Len(w) + 1] = t[l]
          /\ \A i \in 1 .. Len(w) : u[l][i] = w[i]
      BY <2>3, <3>1, <3>2
    <3>4. n <= Len(w) + 1 /\ \A i \in 1 .. n : u[l][i] = s[i]
      BY <2>1, <3>3 DEF Begins
    <3>5. ASSUME NEW i \in 0 .. n, i <= Len(w)
          PROVE  Kept(j, i) /\ Begins(w, s, i)
      <4>1. i \in 0 .. m /\ j \in 0 .. j /\ j <= Len(t)
        BY <2>1
      <4>2. Kept(j, i)
        BY <4>1
      <4>3. \A x \in 1 .. i : x \in 1 .. n /\ x \in 1 .. Len(w)
        BY <3>5
      <4>4. \A x \in 1 .. i : w[x] = s[x]
        BY <3>3, <3>4, <4>3
      <4> QED
        BY <3>5, <4>2, <4>4 DEF Begins
    <3>6. CASE n <= Len(w)
      BY <2>1, <3>1, <3>3, <3>5, <3>6
    <3>7. CASE n = Len(w) + 1
      <4>0. Len(w) \in Nat /\ n - 1 = Len(w) /\ Len(w) \in 0 .. n
        BY <3>7
      <4>1. PICK q : q = n - 1 /\ q \in 0 .. n /\ q = Len(w)
        BY <4>0
      <4>5. Kept(j, q) /\ Begins(w, s, q)
        BY <3>5, <4>1
      <4>2. n - 1 = j /\ \A i \in 1 .. n - 1 : t[i] = s[i]
        BY <3>1, <4>1, <4>5
      <4>3. t[n] = s[n]
        BY <2>1, <3>3, <3>4, <3>7, <4>2
      <4>4. \A i \in 1 .. n : i \in 1 .. n - 1 \/ i = n
        OBVIOUS
      <4> QED
        BY <2>1, <4>2, <4>3, <4>4
    <3> QED
      BY <3>4, <3>6, <3>7
  <2> QED
    BY <2>1, <2>2, <2>3 DEF Rewrites
<1>3. T = Nat
  BY <1>1, <1>2, NumberInduction
<1>4. Kept(k, m)
  BY <1>3
<1> QED
  BY <1>4 DEF Begins

\* Do the elements of s stand in t from the q-th, or anywhere up to the k-th?
StandsAt(t, s, q) == \A i \in 1 .. Len(s) : t[(q - 1) + i] = s[i]
Within(t, s, k) == \E q \in Nat \ {0} : (q - 1) + Len(s) <= k /\ StandsAt(t, s, q)

\* The same as OccursAt.
LEMMA OccursIsAt ==
    ASSUME NEW t, NEW s \in Seq(Symbols), NEW q \in Nat \ {0}
    PROVE  OccursAt(t, s, q) <=> (q - 1) + Len(s) <= Len(t) /\ StandsAt(t, s, q)
<1>1. DOMAIN s = 1 .. Len(s) /\ Len(s) \in Nat
  OBVIOUS
<1>2. q + Len(s) - 1 = (q - 1) + Len(s)
  BY <1>1
<1>3. ASSUME NEW i \in 1 .. Len(s) PROVE q + i - 1 = (q - 1) + i
  OBVIOUS
<1> QED
  BY <1>1, <1>2, <1>3 DEF OccursAt, StandsAt

\* A term in a text with a substitute at its end stands before the substitute.
LEMMA TermBeforeSubstitute ==
    ASSUME NEW w \in Seq(Symbols), NEW o, SubstituteOK(o), NEW s, TermOK(s), NEW c, Joins(c, w, o),
           Within(c, s, Len(c))
    PROVE  Within(w, s, Len(w))
<1>0. /\ Len(o) \in 3 .. 5 /\ o[1] \in {"kho", "ai"}
      /\ \A i \in 2 .. Len(o) : o[i] \notin {"kho", "pho"}
      /\ o[1] = "kho" => o[2] = "tone"
  BY DEF SubstituteOK
<1>1. /\ Len(s) \in 2 .. 6 /\ s[1] \in {"kho", "pho"}
      /\ \A i \in 2 .. Len(s) : s[i] \notin {"kho", "ai"}
      /\ s[1] = "kho" => s[2] # "tone"
  BY DEF TermOK
<1>2. PICK L \in 2 .. 6 : L = Len(s)
  BY <1>1
<1>3. PICK n \in Nat : n = Len(w)
  OBVIOUS
<1>4. /\ Len(c) = n + Len(o)
      /\ \A i \in 1 .. n : c[i] = w[i]
      /\ \A i \in 1 .. Len(o) : c[n + i] = o[i]
  BY <1>3 DEF Joins
<1>5. PICK q \in Nat \ {0} : (q - 1) + L <= Len(c) /\ \A i \in 1 .. L : c[(q - 1) + i] = s[i]
  BY <1>2 DEF Within, StandsAt
<1>6. CASE (q - 1) + L <= n
  <2>1. \A i \in 1 .. L : (q - 1) + i \in 1 .. n
    BY <1>6
  <2>2. \A i \in 1 .. L : w[(q - 1) + i] = s[i]
    BY <1>4, <1>5, <2>1
  <2> QED
    BY <1>2, <1>3, <1>6, <2>2 DEF Within, StandsAt
<1>7. CASE q <= n /\ ~((q - 1) + L <= n)
  <2>1. PICK i : i = (n + 2) - q
    OBVIOUS
  <2>2. i \in 2 .. L /\ i \in 1 .. L /\ (q - 1) + i = n + 1
    BY <1>7, <2>1
  <2>3. c[n + 1] = s[i]
    BY <1>5, <2>2
  <2>4. c[n + 1] = o[1]
    BY <1>0, <1>4
  <2> QED
    BY <1>0, <1>1, <1>2, <2>2, <2>3, <2>4
<1>8. CASE ~(q <= n)
  <2>1. PICK d : d = q - n
    OBVIOUS
  <2>0. (q - 1) + L <= n + Len(o) /\ Len(o) \in Nat
    BY <1>0, <1>4, <1>5
  <2>2. d \in Nat /\ d >= 1 /\ d + 1 <= Len(o)
    BY <1>8, <2>0, <2>1
  <2>3. d \in 1 .. Len(o) /\ d + 1 \in 1 .. Len(o) /\ d + 1 \in 2 .. Len(o)
    BY <1>0, <2>2
  <2>4. c[n + d] = o[d] /\ c[n + (d + 1)] = o[d + 1]
    BY <1>4, <2>3
  <2>5. (q - 1) + 1 = n + d /\ (q - 1) + 2 = n + (d + 1) /\ 1 \in 1 .. L /\ 2 \in 1 .. L
    BY <2>1, <2>2
  <2>6. s[1] = o[d] /\ s[2] = o[d + 1]
    BY <1>5, <2>4, <2>5
  <2>7. CASE d = 1
    BY <1>0, <1>1, <2>6, <2>7
  <2>8. CASE d # 1
    <3>1. d \in 2 .. Len(o)
      BY <2>3, <2>8
    <3> QED
      BY <1>0, <1>1, <2>6, <3>1
  <2> QED
    BY <2>7, <2>8
<1> QED
  BY <1>6, <1>7, <1>8

\* A term in a text with one more character is in the text, or ends with that character.
LEMMA TermAtTheEnd ==
    ASSUME NEW w \in Seq(Symbols), NEW x \in Symbols, NEW s, TermOK(s),
           Within(Append(w, x), s, Len(Append(w, x)))
    PROVE  \/ Within(w, s, Len(w))
           \/ s[Len(s)] = x /\ EndsWith(w, s, Len(s) - 1)
<1>2. PICK L \in 2 .. 6 : L = Len(s)
  BY DEF TermOK
<1>3. PICK n \in Nat : n = Len(w)
  OBVIOUS
<1>4. PICK c : c = Append(w, x) /\ Len(c) = n + 1 /\ c[n + 1] = x /\ \A i \in 1 .. n : c[i] = w[i]
  <2>1. Len(Append(w, x)) = n + 1 /\ Append(w, x)[n + 1] = x
    BY <1>3
  <2>2. \A i \in 1 .. n : Append(w, x)[i] = w[i]
    BY <1>3
  <2> QED
    BY <2>1, <2>2
<1>5. PICK q \in Nat \ {0} : (q - 1) + L <= n + 1 /\ \A i \in 1 .. L : c[(q - 1) + i] = s[i]
  BY <1>2, <1>4 DEF Within, StandsAt
<1>6. CASE (q - 1) + L <= n
  <2>1. \A i \in 1 .. L : (q - 1) + i \in 1 .. n
    BY <1>6
  <2>2. \A i \in 1 .. L : w[(q - 1) + i] = s[i]
    BY <1>4, <1>5, <2>1
  <2> QED
    BY <1>2, <1>3, <1>6, <2>2 DEF Within, StandsAt
<1>7. CASE (q - 1) + L = n + 1
  <2>1. L \in 1 .. L
    OBVIOUS
  <2>2. s[L] = x
    BY <1>4, <1>5, <1>7, <2>1
  <2>3. PICK m \in Nat : m = L - 1 /\ m <= n /\ n - m = q - 1
    BY <1>7
  <2>4. \A i \in 1 .. m : i \in 1 .. L /\ (n - m) + i \in 1 .. n /\ (n - m) + i = (q - 1) + i
    BY <2>3
  <2>5. \A i \in 1 .. m : w[(n - m) + i] = s[i]
    BY <1>4, <1>5, <2>4
  <2> QED
    BY <1>2, <1>3, <2>2, <2>3, <2>5 DEF EndsWith
<1> QED
  BY <1>5, <1>6, <1>7

\* A term that ends with the last character of a text is in the text.
LEMMA TermOfEnd ==
    ASSUME NEW t \in Seq(Symbols), NEW s, TermOK(s), NEW l \in 1 .. Len(t), s[Len(s)] = t[l],
           EndsAt(t, l - 1, s, Len(s) - 1)
    PROVE  /\ Within(t, s, l)
           /\ Len(s) <= l /\ OccursAt(t, s, (l - Len(s)) + 1)
<1>2. PICK L \in 2 .. 6 : L = Len(s)
  BY DEF TermOK
<1>3. PICK m \in Nat : m = L - 1
  OBVIOUS
<1>4. PICK k : k = l - 1 /\ k \in Nat
  OBVIOUS
<1>5. m <= k /\ \A i \in 1 .. m : t[(k - m) + i] = s[i]
  BY <1>2, <1>3, <1>4 DEF EndsAt
<1>6. PICK q \in Nat \ {0} : q = (l - L) + 1 /\ q - 1 = k - m /\ (q - 1) + L = l
  BY <1>3, <1>4, <1>5
<1>7. ASSUME NEW i \in 1 .. L PROVE t[(q - 1) + i] = s[i]
  <2>1. i \in 1 .. m \/ i = L
    BY <1>3
  <2> QED
    BY <1>2, <1>5, <1>6, <2>1
<1>8. StandsAt(t, s, q)
  BY <1>2, <1>7 DEF StandsAt
<1>9. Within(t, s, l)
  BY <1>2, <1>6, <1>8 DEF Within
<1>10. s \in Seq(Symbols) /\ l <= Len(t) /\ L <= l
  BY <1>6 DEF TermOK
<1>11. OccursAt(t, s, q)
  BY <1>2, <1>6, <1>8, <1>10, OccursIsAt
<1> QED
  BY <1>2, <1>6, <1>9, <1>10, <1>11

\* What stands in a longer part of a text.
LEMMA WithinLonger ==
    ASSUME NEW t, NEW s \in Seq(Symbols), NEW k \in Nat, NEW l \in Nat, k <= l, Within(t, s, k)
    PROVE  Within(t, s, l)
<1>1. PICK q \in Nat \ {0} : (q - 1) + Len(s) <= k /\ StandsAt(t, s, q)
  BY DEF Within
<1>2. Len(s) \in Nat
  OBVIOUS
<1>3. (q - 1) + Len(s) <= l
  BY <1>1, <1>2
<1> QED
  BY <1>1, <1>3 DEF Within

\* What occurs in a rewritten text has not been replaced, and occurs in the text.
LEMMA OccursKept ==
    ASSUME NEW t \in Seq(Symbols), NEW f \in Seq(Symbols), Len(f) >= 1, NEW o, SubstituteOK(o),
           NEW u, Rewrites(u, t, f, o), NEW s, TermOK(s),
           Within(u[Len(t)], s, Len(u[Len(t)]))
    PROVE  s # f /\ Within(t, s, Len(t))
<1>0. o \in Seq(Symbols) /\ s \in Seq(Symbols) /\ Len(o) \in Nat \ {0} /\ o[Len(o)] = "a"
  BY DEF SubstituteOK, TermOK
<1> DEFINE Kept(j) == Within(u[j], s, Len(u[j])) => s # f /\ Within(t, s, j)
           T == {j \in Nat : \A l \in 0 .. j : l <= Len(t) => Kept(l)}
<1>1. 0 \in T
  <2>1. u[0] = <<>>
    BY DEF Rewrites
  <2>2. ~Within(<<>>, s, 0)
    <3>1. PICK L \in 2 .. 6 : L = Len(s)
      BY DEF TermOK
    <3>2. \A q \in Nat \ {0} : ~((q - 1) + L <= 0)
      OBVIOUS
    <3> QED
      BY <3>1, <3>2 DEF Within
  <2>3. Kept(0)
    BY <2>1, <2>2
  <2> QED
    BY <2>3
<1>2. ASSUME NEW j \in T PROVE j + 1 \in T
  <2>0. PICK l : l = j + 1
    OBVIOUS
  <2>1. j \in Nat /\ \A i \in 0 .. j : i <= Len(t) => Kept(i)
    OBVIOUS
  <2>2. ASSUME l <= Len(t) PROVE Kept(l)
    <3> HIDE DEF T
    <3> SUFFICES ASSUME Within(u[l], s, Len(u[l])) PROVE s # f /\ Within(t, s, l)
      OBVIOUS
    <3>1. l \in 1 .. Len(t) /\ l \in Nat /\ l - 1 = j /\ j \in 0 .. Len(t) /\ j \in 0 .. j /\ j <= l
      BY <2>0, <2>1, <2>2
    <3>2. CASE Len(f) <= l /\ u[l] = u[l - Len(f)] \o o
      <4>1. PICK q : q = l - Len(f) /\ q \in 0 .. j /\ q <= Len(t) /\ q <= l /\ q \in Nat
        BY <2>1, <3>1, <3>2
      <4>2. PICK w \in Seq(Symbols) : w = u[q]
        BY <3>1, <4>1 DEF Rewrites
      <4>3. Joins(u[l], w, o)
        BY <1>0, <3>2, <4>1, <4>2, Joined
      <4>4. Within(w, s, Len(w))
        BY <4>3, TermBeforeSubstitute
      <4>5. Kept(q)
        BY <2>1, <4>1
      <4>6. s # f /\ Within(t, s, q)
        BY <4>2, <4>4, <4>5
      <4> QED
        BY <1>0, <3>1, <4>1, <4>6, WithinLonger
    <3>3. CASE /\ ~(Len(f) <= l /\ OccursAt(t, f, l - Len(f) + 1))
               /\ u[l] = Append(u[l - 1], t[l])
      <4>1. PICK w \in Seq(Symbols) : w = u[j]
        BY <3>1 DEF Rewrites
      <4>2. t[l] \in Symbols /\ u[l] = Append(w, t[l])
        BY <3>1, <3>3, <4>1
      <4>3. CASE Within(w, s, Len(w))
        <5>1. Kept(j) /\ j <= Len(t)
          BY <2>1, <3>1
        <5>2. s # f /\ Within(t, s, j)
          BY <4>1, <4>3, <5>1
        <5> QED
          BY <1>0, <2>1, <3>1, <5>2, WithinLonger
      <4>4. CASE s[Len(s)] = t[l] /\ EndsWith(w, s, Len(s) - 1)
        <5>1. PICK m : m = Len(s) - 1
          OBVIOUS
        <5>2. m \in 0 .. Len(s) /\ \A i \in 1 .. m : s[i] # "a"
          BY <5>1 DEF TermOK
        <5>3. EndsAt(t, j, s, m)
          <6>1. EndsWith(u[j], s, m) /\ Len(o) >= 1 /\ \A i \in 1 .. m : s[i] # o[Len(o)]
            BY <1>0, <4>1, <4>4, <5>1, <5>2
          <6> QED
            BY <1>0, <3>1, <5>2, <6>1, EndKept
        <5>4. Within(t, s, l) /\ Len(s) <= l /\ OccursAt(t, s, (l - Len(s)) + 1)
          BY <3>1, <4>4, <5>1, <5>3, TermOfEnd
        <5>5. s # f
          BY <3>3, <5>4
        <5> QED
          BY <5>4, <5>5
      <4> QED
        BY <4>2, <4>3, <4>4, TermAtTheEnd
    <3> QED
      BY <3>1, <3>2, <3>3 DEF Rewrites
  <2>3. \A i \in 0 .. l : i \in 0 .. j \/ i = l
    BY <2>0, <2>1
  <2>4. \A i \in 0 .. l : i <= Len(t) => Kept(i)
    BY <2>1, <2>2, <2>3
  <2> QED
    BY <2>0, <2>1, <2>4
<1>3. T = Nat
  BY <1>1, <1>2, NumberInduction
<1>4. Len(t) \in Nat /\ Len(t) \in 0 .. Len(t)
  OBVIOUS
<1>5. Kept(Len(t))
  BY <1>3, <1>4
<1> QED
  BY <1>5

\* A number of which everything smaller is in T is in T; so all are.
LEMMA StrongInduction ==
    ASSUME NEW T, \A n \in Nat : (\A m \in 0 .. n - 1 : m \in T) => n \in T
    PROVE  \A n \in Nat : n \in T
<1> SUFFICES ASSUME Nat \ T # {} PROVE FALSE
  OBVIOUS
<1>1. PICK n \in Nat \ T : \A m \in Nat \ T : n <= m
  BY LeastNumber
<1>2. \A m \in 0 .. n - 1 : m \in T
  BY <1>1
<1> QED
  BY <1>2

\* One step of the recursion: either the replaced text ends here, or one character is added.
LEMMA RewriteStep ==
    ASSUME NEW t \in Seq(Symbols), NEW f \in Seq(Symbols), Len(f) >= 1, NEW o,
           NEW u, Rewrites(u, t, f, o), NEW k \in 1 .. Len(t)
    PROVE  \/ EndsAt(t, k, f, Len(f)) /\ k - Len(f) \in 0 .. k - 1 /\ u[k] = u[k - Len(f)] \o o
           \/ ~EndsAt(t, k, f, Len(f)) /\ u[k] = Append(u[k - 1], t[k])
<1>1. PICK L \in Nat \ {0} : L = Len(f)
  OBVIOUS
<1>2. Len(t) \in Nat /\ k \in Nat
  OBVIOUS
<1>3. CASE L <= k
  <2>1. PICK q : q = k - L + 1 /\ q \in Nat \ {0} /\ q - 1 = k - L /\ (q - 1) + L = k
    BY <1>2, <1>3
  <2>2. OccursAt(t, f, q) <=> StandsAt(t, f, q)
    BY <1>1, <1>2, <2>1, OccursIsAt
  <2>3. StandsAt(t, f, q) <=> EndsAt(t, k, f, L)
    BY <1>1, <1>3, <2>1 DEF StandsAt, EndsAt
  <2>4. k - L \in 0 .. k - 1
    BY <1>2, <1>3
  <2> QED
    BY <1>1, <1>3, <2>1, <2>2, <2>3, <2>4 DEF Rewrites
<1>4. CASE ~(L <= k)
  BY <1>1, <1>4 DEF Rewrites, EndsAt
<1> QED
  BY <1>3, <1>4

\* Does b begin with what follows the first m characters of f?  Does f stand across the cut?
Continues(b, f, m) == Len(f) - m <= Len(b) /\ \A i \in 1 .. Len(f) - m : b[i] = f[m + i]
Apart(a, b, f) == \A m \in 1 .. Len(f) - 1 : ~(EndsWith(a, f, m) /\ Continues(b, f, m))

\* Where a joined text ends with f, a part does.
LEMMA EndsOfParts ==
    ASSUME NEW a \in Seq(Symbols), NEW b \in Seq(Symbols), NEW c, Joins(c, a, b), NEW f \in Seq(Symbols),
           Apart(a, b, f)
    PROVE  /\ \A k \in 1 .. Len(a) : EndsAt(c, k, f, Len(f)) <=> EndsAt(a, k, f, Len(f))
           /\ \A j \in 1 .. Len(b) : EndsAt(c, Len(a) + j, f, Len(f)) <=> EndsAt(b, j, f, Len(f))
<1>1. PICK L \in Nat : L = Len(f)
  OBVIOUS
<1>2. PICK n \in Nat : n = Len(a)
  OBVIOUS
<1>3. /\ \A i \in 1 .. n : c[i] = a[i]
      /\ \A i \in 1 .. Len(b) : c[n + i] = b[i]
  BY <1>2 DEF Joins
<1>4. ASSUME NEW k \in 1 .. n PROVE EndsAt(c, k, f, L) <=> EndsAt(a, k, f, L)
  <2>1. L <= k => \A i \in 1 .. L : (k - L) + i \in 1 .. n
    OBVIOUS
  <2>2. L <= k => \A i \in 1 .. L : c[(k - L) + i] = a[(k - L) + i]
    BY <1>3, <2>1
  <2> QED
    BY <2>2 DEF EndsAt
<1>5. ASSUME NEW j \in 1 .. Len(b) PROVE EndsAt(c, n + j, f, L) <=> EndsAt(b, j, f, L)
  <2>1. CASE L <= j
    <3>1. \A i \in 1 .. L : (j - L) + i \in 1 .. Len(b) /\ ((n + j) - L) + i = n + ((j - L) + i)
      BY <2>1
    <3>2. \A i \in 1 .. L : c[n + ((j - L) + i)] = b[(j - L) + i]
      BY <1>3, <3>1
    <3>3. \A i \in 1 .. L : c[((n + j) - L) + i] = b[(j - L) + i]
      BY <3>1, <3>2
    <3>4. L <= n + j
      BY <2>1
    <3> QED
      BY <2>1, <3>3, <3>4 DEF EndsAt
  <2>2. CASE ~(L <= j)
    <3> SUFFICES ASSUME EndsAt(c, n + j, f, L) PROVE FALSE
      BY <2>2 DEF EndsAt
    <3>1. L <= n + j /\ \A i \in 1 .. L : c[((n + j) - L) + i] = f[i]
      BY DEF EndsAt
    <3>2. PICK m : m = L - j /\ m \in 1 .. L - 1 /\ m <= n /\ L - m = j
      BY <2>2, <3>1
    <3>3. \A i \in 1 .. m : i \in 1 .. L /\ ((n + j) - L) + i = (n - m) + i /\ (n - m) + i \in 1 .. n
      BY <3>2
    <3>4. \A i \in 1 .. m : a[(n - m) + i] = f[i]
      BY <1>3, <3>1, <3>3
    <3>5. \A i \in 1 .. L - m : m + i \in 1 .. L /\ ((n + j) - L) + (m + i) = n + i /\ i \in 1 .. Len(b)
      BY <3>2
    <3>6. \A i \in 1 .. L - m : b[i] = f[m + i]
      BY <1>3, <3>1, <3>5
    <3>7. EndsWith(a, f, m) /\ Continues(b, f, m)
      BY <1>1, <1>2, <3>2, <3>4, <3>6 DEF EndsWith, Continues
    <3> QED
      BY <1>1, <3>2, <3>7 DEF Apart
  <2> QED
    BY <2>1, <2>2
<1> QED
  BY <1>1, <1>2, <1>4, <1>5

\* The part of a text before the cut becomes what it becomes alone.
LEMMA FirstPartKept ==
    ASSUME NEW a \in Seq(Symbols), NEW b \in Seq(Symbols), NEW c \in Seq(Symbols), Joins(c, a, b),
           NEW f \in Seq(Symbols), Len(f) >= 1, NEW o, Apart(a, b, f),
           NEW u, Rewrites(u, c, f, o), NEW v, Rewrites(v, a, f, o)
    PROVE  \A k \in 0 .. Len(a) : u[k] = v[k]
<1> DEFINE T == {k \in Nat : k <= Len(a) => u[k] = v[k]}
<1>1. ASSUME NEW k \in Nat, \A m \in 0 .. k - 1 : m \in T PROVE k \in T
  <2> SUFFICES ASSUME k <= Len(a) PROVE u[k] = v[k]
    OBVIOUS
  <2>1. CASE k = 0
    BY <2>1 DEF Rewrites
  <2>2. CASE k # 0
    <3>0. Len(a) \in Nat /\ Len(b) \in Nat /\ Len(c) = Len(a) + Len(b)
      BY DEF Joins
    <3>1. k \in 1 .. Len(a) /\ k \in 1 .. Len(c) /\ k - 1 \in 0 .. k - 1
      BY <2>2, <3>0
    <3>2. EndsAt(c, k, f, Len(f)) <=> EndsAt(a, k, f, Len(f))
      BY <3>1, EndsOfParts
    <3>3. \A m \in 0 .. k - 1 : u[m] = v[m]
      BY <1>1, <3>0
    <3>4. \/ EndsAt(c, k, f, Len(f)) /\ k - Len(f) \in 0 .. k - 1 /\ u[k] = u[k - Len(f)] \o o
          \/ ~EndsAt(c, k, f, Len(f)) /\ u[k] = Append(u[k - 1], c[k])
      BY <3>1, RewriteStep
    <3>5. \/ EndsAt(a, k, f, Len(f)) /\ k - Len(f) \in 0 .. k - 1 /\ v[k] = v[k - Len(f)] \o o
          \/ ~EndsAt(a, k, f, Len(f)) /\ v[k] = Append(v[k - 1], a[k])
      BY <3>1, RewriteStep
    <3>6. c[k] = a[k]
      BY <3>1 DEF Joins
    <3> QED
      BY <3>1, <3>2, <3>3, <3>4, <3>5, <3>6
  <2> QED
    BY <2>1, <2>2
<1>2. \A k \in Nat : k \in T
  <2> HIDE DEF T
  <2> QED
    BY <1>1, StrongInduction
<1> QED
  BY <1>2

\* Concatenation of three texts.
LEMMA Associative ==
    ASSUME NEW a \in Seq(Symbols), NEW b \in Seq(Symbols), NEW c \in Seq(Symbols)
    PROVE  (a \o b) \o c = a \o (b \o c)
BY ConcatAssociative

\* Appending to the second part appends to the whole.
LEMMA AppendToConcat ==
    ASSUME NEW a \in Seq(Symbols), NEW b \in Seq(Symbols), NEW x \in Symbols
    PROVE  Append(a \o b, x) = a \o Append(b, x)
<1>1. <<x>> \in Seq(Symbols)
  OBVIOUS
<1>2. \A s \in Seq(Symbols) : Append(s, x) = s \o <<x>>
  OBVIOUS
<1>3. PICK e \in Seq(Symbols) : \A s \in Seq(Symbols) : Append(s, x) = s \o e
  BY <1>1, <1>2
<1>4. a \o b \in Seq(Symbols)
  BY ConcatProperties
<1>5. (a \o b) \o e = a \o (b \o e)
  BY ConcatAssociative
<1> QED
  BY <1>3, <1>4, <1>5

\* A joined text and its parts, and what they become.
RewritesParts(c, a, b, u, v, w, f, o) ==
    Joins(c, a, b) /\ Rewrites(u, c, f, o) /\ Rewrites(v, a, f, o) /\ Rewrites(w, b, f, o)

ResultOfParts(c, a, b, u, v, w) == u[Len(c)] = v[Len(a)] \o w[Len(b)]

\* The part of a text after the cut adds what it becomes alone.
LEMMA SecondPartKept ==
    ASSUME NEW a \in Seq(Symbols), NEW b \in Seq(Symbols), NEW c \in Seq(Symbols),
           NEW f \in Seq(Symbols), Len(f) >= 1, NEW o \in Seq(Symbols), Apart(a, b, f),
           NEW u, NEW v, NEW w, RewritesParts(c, a, b, u, v, w, f, o)
    PROVE  ResultOfParts(c, a, b, u, v, w)
<1>00. Joins(c, a, b) /\ Rewrites(u, c, f, o) /\ Rewrites(v, a, f, o) /\ Rewrites(w, b, f, o)
  BY DEF RewritesParts
<1>0. Len(a) \in Nat /\ Len(b) \in Nat /\ Len(c) = Len(a) + Len(b)
  BY <1>00 DEF Joins
<1>1. PICK n \in Nat : n = Len(a)
  BY <1>0
<1>2. PICK e \in Seq(Symbols) : e = v[n]
  BY <1>00, <1>1 DEF Rewrites
<1> DEFINE T == {j \in Nat : j <= Len(b) => u[n + j] = e \o w[j]}
<1>3. ASSUME NEW j \in Nat, \A m \in 0 .. j - 1 : m \in T PROVE j \in T
  <2> SUFFICES ASSUME j <= Len(b) PROVE u[n + j] = e \o w[j]
    OBVIOUS
  <2>1. CASE j = 0
    <3>1. n \in 0 .. Len(a) /\ n + j = n
      BY <1>1, <2>1
    <3>2. u[n] = e
      <4>1. \A k \in 0 .. Len(a) : u[k] = v[k]
        BY <1>00, FirstPartKept
      <4> QED
        BY <1>2, <3>1, <4>1
    <3>3. w[j] = <<>>
      BY <1>00, <2>1 DEF Rewrites
    <3> QED
      BY <3>1, <3>2, <3>3, ConcatEmptySeq
  <2>2. CASE j # 0
    <3>1. j \in 1 .. Len(b) /\ j - 1 \in 0 .. j - 1 /\ (n + j) - 1 = n + (j - 1)
      BY <1>0, <2>2
    <3>2. PICK k : k = n + j /\ k \in 1 .. Len(c)
      BY <1>0, <1>1, <3>1
    <3>3. EndsAt(c, k, f, Len(f)) <=> EndsAt(b, j, f, Len(f))
      BY <1>00, <1>1, <3>1, <3>2, EndsOfParts
    <3>4. ASSUME NEW m \in 0 .. j - 1 PROVE u[n + m] = e \o w[m]
      <4>1. m \in T
        BY <1>3
      <4>2. m <= Len(b)
        BY <1>0
      <4> QED
        BY <4>1, <4>2
    <3>5. \A m \in 0 .. j - 1 : w[m] \in Seq(Symbols)
      BY <1>0, <1>00, <3>1 DEF Rewrites
    <3>6. \/ EndsAt(c, k, f, Len(f)) /\ k - Len(f) \in 0 .. k - 1 /\ u[k] = u[k - Len(f)] \o o
          \/ ~EndsAt(c, k, f, Len(f)) /\ u[k] = Append(u[k - 1], c[k])
      BY <1>00, <3>2, RewriteStep
    <3>7. \/ EndsAt(b, j, f, Len(f)) /\ j - Len(f) \in 0 .. j - 1 /\ w[j] = w[j - Len(f)] \o o
          \/ ~EndsAt(b, j, f, Len(f)) /\ w[j] = Append(w[j - 1], b[j])
      BY <1>00, <3>1, RewriteStep
    <3>8. CASE EndsAt(b, j, f, Len(f))
      <4>1. PICK m \in 0 .. j - 1 : m = j - Len(f)
        BY <3>7, <3>8
      <4>2. k - Len(f) = n + m
        <5>1. Len(f) \in Nat
          OBVIOUS
        <5> QED
          BY <3>2, <4>1, <5>1
      <4>3. u[k] = (e \o w[m]) \o o /\ w[j] = w[m] \o o
        BY <3>3, <3>4, <3>6, <3>7, <3>8, <4>1, <4>2
      <4>4. PICK y \in Seq(Symbols) : y = w[m]
        BY <3>5
      <4>5. (e \o y) \o o = e \o (y \o o)
        BY ZenonT(60), Associative
      <4> QED
        BY <3>2, <4>3, <4>4, <4>5
    <3>9. CASE ~EndsAt(b, j, f, Len(f))
      <4>1. u[k] = Append(u[k - 1], c[k]) /\ w[j] = Append(w[j - 1], b[j])
        BY <3>3, <3>6, <3>7, <3>9
      <4>2. c[k] = b[j] /\ b[j] \in Symbols
        BY <1>00, <1>1, <3>1, <3>2 DEF Joins
      <4>3. u[k - 1] = e \o w[j - 1]
        BY <3>1, <3>2, <3>4
      <4>4. PICK y \in Seq(Symbols) : y = w[j - 1]
        BY <3>1, <3>5
      <4>5. Append(e \o y, b[j]) = e \o Append(y, b[j])
        BY <4>2, <4>4, AppendToConcat
      <4> QED
        BY <3>2, <4>1, <4>2, <4>3, <4>4, <4>5
    <3> QED
      BY <3>8, <3>9
  <2> QED
    BY <2>1, <2>2
<1>4. \A j \in Nat : j \in T
  <2> HIDE DEF T
  <2> QED
    BY <1>3, StrongInduction
<1>5. ASSUME NEW j \in 0 .. Len(b) PROVE u[n + j] = e \o w[j]
  <2>1. j \in T /\ j <= Len(b)
    BY <1>0, <1>4
  <2> QED
    BY <2>1
<1>6. PICK l \in Nat : l = Len(b)
  BY <1>0
<1>60. l \in 0 .. Len(b) /\ Len(c) = n + l
  BY <1>0, <1>1, <1>6
<1>7. u[n + l] = e \o w[l]
  BY <1>5, <1>60
<1> QED
  BY <1>1, <1>2, <1>6, <1>60, <1>7 DEF ResultOfParts

\* A replacement goes through the parts of a text no occurrence stands across.
LEMMA ReplacedOfParts ==
    ASSUME NEW a \in Seq(Symbols), NEW b \in Seq(Symbols), NEW f \in Seq(Symbols), Len(f) >= 1,
           NEW o \in Seq(Symbols), Apart(a, b, f)
    PROVE  Replaced(a \o b, f, o) = Replaced(a, f, o) \o Replaced(b, f, o)
<1>1. PICK c \in Seq(Symbols) : c = a \o b /\ Joins(c, a, b)
  BY Joined
<1>2. PICK u : Rewrites(u, c, f, o) /\ Replaced(c, f, o) = u[Len(c)]
  BY ReplacedRewrites
<1>3. PICK v : Rewrites(v, a, f, o) /\ Replaced(a, f, o) = v[Len(a)]
  BY ReplacedRewrites
<1>4. PICK w : Rewrites(w, b, f, o) /\ Replaced(b, f, o) = w[Len(b)]
  BY ReplacedRewrites
<1>5. RewritesParts(c, a, b, u, v, w, f, o)
  BY <1>1, <1>2, <1>3, <1>4 DEF RewritesParts
<1>6. ResultOfParts(c, a, b, u, v, w)
  BY <1>5, SecondPartKept
<1> QED
  BY <1>1, <1>2, <1>3, <1>4, <1>6 DEF ResultOfParts

\* No term stands across the cut.
Separate(a, b) == \A s \in Terms : Apart(a, b, s)

\* What follows the first m characters of a term, kept in a rewritten text, was in the text.
LEMMA ContinuationKept ==
    ASSUME NEW b \in Seq(Symbols), NEW f \in Seq(Symbols), Len(f) >= 1, NEW o, SubstituteOK(o),
           NEW w, Rewrites(w, b, f, o), NEW s, TermOK(s), NEW m \in 1 .. Len(s) - 1,
           Continues(w[Len(b)], s, m)
    PROVE  Continues(b, s, m)
<1>1. PICK L \in 2 .. 6 : L = Len(s)
  BY DEF TermOK
<1>2. s \in Seq(Symbols) /\ \A i \in 2 .. L : s[i] \notin {"kho", "ai"}
  BY <1>1 DEF TermOK
<1>3. o \in Seq(Symbols) /\ Len(o) >= 1 /\ o[1] \in {"kho", "ai"}
  BY DEF SubstituteOK
<1>40. m \in 1 .. L - 1
  BY <1>1
<1>4. PICK n \in Nat : n = L - m
  BY <1>40
<1>5. \A i \in 1 .. n : m + i \in 2 .. L /\ m + i \in 1 .. L
  BY <1>1, <1>4
<1>6. PICK e : e = [i \in 1 .. n |-> s[m + i]]
  OBVIOUS
<1>7. e \in Seq(Symbols) /\ Len(e) = n /\ \A i \in 1 .. n : e[i] = s[m + i]
  <2>1. ASSUME NEW i \in 1 .. n PROVE s[m + i] \in Symbols
    <3>1. PICK q : q = m + i /\ q \in 1 .. Len(s)
      BY <1>1, <1>5
    <3>2. s[q] \in Symbols
      BY <1>2, <3>1, ElementOfSeq
    <3> QED
      BY <3>1, <3>2
  <2> QED
    BY <1>6, <2>1
<1>8. \A i \in 1 .. n : e[i] # o[1]
  BY <1>2, <1>3, <1>5, <1>7
<1>9. Begins(w[Len(b)], e, n)
  BY <1>1, <1>4, <1>7 DEF Begins, Continues
<1>10. n \in 0 .. Len(e) /\ Len(b) \in 0 .. Len(b)
  BY <1>7
<1>11. n <= Len(b) /\ Begins(b, e, n)
  <2>1. PICK k \in 0 .. Len(b) : k = Len(b)
    BY <1>10
  <2>2. e \in Seq(Symbols) /\ Begins(w[k], e, n)
    BY <1>7, <1>9, <2>1
  <2>3. n <= k /\ Begins(b, e, n)
    BY <1>3, <1>8, <1>10, <2>2, BeginningKept
  <2> QED
    BY <2>1, <2>3
<1> QED
  BY <1>1, <1>4, <1>7, <1>11 DEF Begins, Continues

\* The first m characters of a term at the end of a rewritten text were at the end of the text.
LEMMA EndingKept ==
    ASSUME NEW a \in Seq(Symbols), NEW f \in Seq(Symbols), Len(f) >= 1, NEW o, SubstituteOK(o),
           NEW v, Rewrites(v, a, f, o), NEW s, TermOK(s), NEW m \in 1 .. Len(s) - 1,
           EndsWith(v[Len(a)], s, m)
    PROVE  EndsWith(a, s, m)
<1>1. o \in Seq(Symbols) /\ Len(o) >= 1 /\ o[Len(o)] = "a"
  BY DEF SubstituteOK
<1>2. s \in Seq(Symbols) /\ m \in 0 .. Len(s) /\ \A i \in 1 .. m : s[i] # o[Len(o)]
  BY <1>1 DEF TermOK
<1>3. PICK k : k = Len(a) /\ k \in 0 .. Len(a) /\ EndsWith(v[k], s, m)
  OBVIOUS
<1>4. EndsAt(a, k, s, m)
  BY <1>1, <1>2, <1>3, EndKept
<1> QED
  BY <1>3, <1>4 DEF EndsAt, EndsWith

\* One replacement of the table.
LEMMA StageRewrites ==
    ASSUME NEW i \in 1 .. 5, NEW t \in Seq(Symbols)
    PROVE  \E f, o, u : /\ f \in Terms /\ TermOK(f) /\ f \in Seq(Symbols) /\ Len(f) >= 1
                        /\ SubstituteOK(o) /\ o \in Seq(Symbols)
                        /\ f = Replacements[i][1] /\ o = Replacements[i][2]
                        /\ Rewrites(u, t, f, o) /\ Stage(t, i) = u[Len(t)]
                        /\ Stage(t, i) = Replaced(t, f, o)
                        /\ u[Len(t)] \in Seq(Symbols)
<1>1. PICK f, o : f = Replacements[i][1] /\ o = Replacements[i][2]
  OBVIOUS
<1>2. f \in Terms /\ TermOK(f) /\ SubstituteOK(o)
  BY <1>1, TableOK, TermsOK
<1>3. f \in Seq(Symbols) /\ Len(f) >= 1 /\ o \in Seq(Symbols)
  BY <1>2 DEF TermOK, SubstituteOK
<1>4. PICK u : Rewrites(u, t, f, o) /\ Replaced(t, f, o) = u[Len(t)]
  BY <1>3, ReplacedRewrites
<1>5. Stage(t, i) = Replaced(t, f, o)
  BY <1>1 DEF Stage
<1>6. u[Len(t)] \in Seq(Symbols)
  <2>1. Len(t) \in 0 .. Len(t)
    OBVIOUS
  <2> QED
    BY <1>4, <2>1 DEF Rewrites
<1> QED
  BY <1>1, <1>2, <1>3, <1>4, <1>5, <1>6

\* A stage goes through the parts of a text no term stands across, and leaves them so.
LEMMA StageOfParts ==
    ASSUME NEW i \in 1 .. 5, NEW a \in Seq(Symbols), NEW b \in Seq(Symbols), Separate(a, b)
    PROVE  /\ Stage(a, i) \in Seq(Symbols) /\ Stage(b, i) \in Seq(Symbols)
           /\ Stage(a \o b, i) = Stage(a, i) \o Stage(b, i)
           /\ Separate(Stage(a, i), Stage(b, i))
<1>1. PICK f, o, v : /\ f \in Terms /\ f \in Seq(Symbols) /\ Len(f) >= 1
                     /\ SubstituteOK(o) /\ o \in Seq(Symbols)
                     /\ f = Replacements[i][1] /\ o = Replacements[i][2]
                     /\ Rewrites(v, a, f, o) /\ Stage(a, i) = v[Len(a)]
                     /\ Stage(a, i) = Replaced(a, f, o)
                     /\ v[Len(a)] \in Seq(Symbols)
  BY StageRewrites
<1>2. PICK w : /\ Rewrites(w, b, f, o) /\ Stage(b, i) = w[Len(b)]
               /\ Stage(b, i) = Replaced(b, f, o)
               /\ w[Len(b)] \in Seq(Symbols)
  BY <1>1, StageRewrites
<1>3. Stage(a \o b, i) = Replaced(a \o b, f, o)
  BY <1>1 DEF Stage
<1>4. Apart(a, b, f)
  BY <1>1 DEF Separate
<1>5. Replaced(a \o b, f, o) = Replaced(a, f, o) \o Replaced(b, f, o)
  <2>1. f \in Seq(Symbols) /\ Len(f) >= 1 /\ o \in Seq(Symbols)
    BY <1>1
  <2> QED
    BY <1>4, <2>1, ReplacedOfParts
<1>6. ASSUME NEW s \in Terms, NEW m \in 1 .. Len(s) - 1,
             EndsWith(v[Len(a)], s, m), Continues(w[Len(b)], s, m)
      PROVE  FALSE
  <2>1. TermOK(s)
    BY TermsOK
  <2>2. EndsWith(a, s, m)
    BY <1>1, <1>6, <2>1, EndingKept
  <2>3. Continues(b, s, m)
    BY <1>1, <1>2, <1>6, <2>1, ContinuationKept
  <2> QED
    BY <2>2, <2>3 DEF Separate, Apart
<1>7. Separate(Stage(a, i), Stage(b, i))
  BY <1>1, <1>2, <1>6 DEF Separate, Apart
<1> QED
  BY <1>1, <1>2, <1>3, <1>5, <1>7

\* The guard goes through the parts of a text no term stands across.
LEMMA GuardOfParts ==
    ASSUME NEW a \in Seq(Symbols), NEW b \in Seq(Symbols), Separate(a, b)
    PROVE  Guard(a \o b) = Guard(a) \o Guard(b)
<1>0. {1, 2, 3, 4, 5} \subseteq 1 .. 5
  OBVIOUS
<1>1. PICK a1, b1 : /\ a1 = Stage(a, 1) /\ b1 = Stage(b, 1) /\ Stage(a \o b, 1) = a1 \o b1
                    /\ a1 \in Seq(Symbols) /\ b1 \in Seq(Symbols) /\ Separate(a1, b1)
  BY <1>0, StageOfParts
<1>2. PICK a2, b2 : /\ a2 = Stage(a1, 2) /\ b2 = Stage(b1, 2) /\ Stage(a1 \o b1, 2) = a2 \o b2
                    /\ a2 \in Seq(Symbols) /\ b2 \in Seq(Symbols) /\ Separate(a2, b2)
  BY <1>0, <1>1, StageOfParts
<1>20. a2 \in Seq(Symbols) /\ b2 \in Seq(Symbols) /\ Separate(a2, b2)
  BY <1>2
<1>3. PICK a3, b3 : /\ a3 = Stage(a2, 3) /\ b3 = Stage(b2, 3) /\ Stage(a2 \o b2, 3) = a3 \o b3
                    /\ a3 \in Seq(Symbols) /\ b3 \in Seq(Symbols) /\ Separate(a3, b3)
  BY <1>0, <1>20, StageOfParts
<1>30. a3 \in Seq(Symbols) /\ b3 \in Seq(Symbols) /\ Separate(a3, b3)
  BY <1>3
<1>4. PICK a4, b4 : /\ a4 = Stage(a3, 4) /\ b4 = Stage(b3, 4) /\ Stage(a3 \o b3, 4) = a4 \o b4
                    /\ a4 \in Seq(Symbols) /\ b4 \in Seq(Symbols) /\ Separate(a4, b4)
  BY <1>0, <1>30, StageOfParts
<1>5. Stage(a4 \o b4, 5) = Stage(a4, 5) \o Stage(b4, 5)
  BY <1>0, <1>4, StageOfParts
<1>6. Guard(a \o b) = Stage(a4 \o b4, 5)
  BY <1>1, <1>2, <1>3, <1>4, Zenon DEF Guard
<1>7. Guard(a) = Stage(a4, 5) /\ Guard(b) = Stage(b4, 5)
  BY <1>1, <1>2, <1>3, <1>4, Zenon DEF Guard
<1> QED
  BY <1>5, <1>6, <1>7

\* A stage leaves no occurrence of its term, and makes none of another.
LEMMA StageClean ==
    ASSUME NEW i \in 1 .. 5, NEW t \in Seq(Symbols), NEW s \in Terms,
           Within(Stage(t, i), s, Len(Stage(t, i)))
    PROVE  s # Replacements[i][1] /\ Within(t, s, Len(t))
<1>1. PICK f, o, u : /\ f \in Terms /\ TermOK(f) /\ f \in Seq(Symbols) /\ Len(f) >= 1
                     /\ SubstituteOK(o) /\ o \in Seq(Symbols)
                     /\ f = Replacements[i][1] /\ o = Replacements[i][2]
                     /\ Rewrites(u, t, f, o) /\ Stage(t, i) = u[Len(t)]
                     /\ Stage(t, i) = Replaced(t, f, o)
                     /\ u[Len(t)] \in Seq(Symbols)
  BY StageRewrites
<1>2. TermOK(s) /\ Within(u[Len(t)], s, Len(u[Len(t)]))
  BY <1>1, TermsOK
<1> QED
  BY <1>1, <1>2, OccursKept

\* No term is in a guarded text.
LEMMA GuardClean ==
    ASSUME NEW t \in Seq(Symbols)
    PROVE  Guard(t) \in Seq(Symbols) /\ \A s \in Terms : ~Within(Guard(t), s, Len(Guard(t)))
<1>0. {1, 2, 3, 4, 5} \subseteq 1 .. 5 /\ \A i \in 1 .. 5 : i \in {1, 2, 3, 4, 5}
  OBVIOUS
<1>1. \A i \in 1 .. 5, x \in Seq(Symbols) : Stage(x, i) \in Seq(Symbols)
  BY StageRewrites
<1>2. PICK t1 \in Seq(Symbols) : t1 = Stage(t, 1)
  BY <1>0, <1>1
<1>3. PICK t2 \in Seq(Symbols) : t2 = Stage(t1, 2)
  BY <1>0, <1>1
<1>4. PICK t3 \in Seq(Symbols) : t3 = Stage(t2, 3)
  BY <1>0, <1>1
<1>5. PICK t4 \in Seq(Symbols) : t4 = Stage(t3, 4)
  BY <1>0, <1>1
<1>6. PICK t5 \in Seq(Symbols) : t5 = Stage(t4, 5)
  BY <1>0, <1>1
<1>7. Guard(t) = t5
  BY <1>2, <1>3, <1>4, <1>5, <1>6 DEF Guard
<1>8. ASSUME NEW s \in Terms, Within(t5, s, Len(t5)) PROVE FALSE
  <2>1. s # Replacements[5][1] /\ Within(t4, s, Len(t4))
    BY <1>0, <1>6, <1>8, StageClean
  <2>2. s # Replacements[4][1] /\ Within(t3, s, Len(t3))
    BY <1>0, <1>5, <2>1, StageClean
  <2>3. s # Replacements[3][1] /\ Within(t2, s, Len(t2))
    BY <1>0, <1>4, <2>2, StageClean
  <2>4. s # Replacements[2][1] /\ Within(t1, s, Len(t1))
    BY <1>0, <1>3, <2>3, StageClean
  <2>5. s # Replacements[1][1]
    BY <1>0, <1>2, <2>4, StageClean
  <2>6. DOMAIN Replacements = 1 .. 5
    BY DEF Replacements
  <2> QED
    BY <1>0, <2>1, <2>2, <2>3, <2>4, <2>5, <2>6 DEF Terms
<1> QED
  BY <1>7, <1>8

\* What joins two texts is their concatenation.
LEMMA JoinsIsConcat ==
    ASSUME NEW a \in Seq(Symbols), NEW b \in Seq(Symbols), NEW c \in Seq(Symbols), Joins(c, a, b)
    PROVE  c = a \o b
<1>1. PICK e \in Seq(Symbols) : e = a \o b /\ Joins(e, a, b)
  BY Joined
<1>2. Len(e) = Len(c) /\ Len(a) \in Nat /\ Len(b) \in Nat /\ Len(c) = Len(a) + Len(b)
  BY <1>1 DEF Joins
<1>3. ASSUME NEW i \in 1 .. Len(c) PROVE c[i] = e[i]
  <2>1. CASE i <= Len(a)
    BY <1>1, <1>2, <2>1 DEF Joins
  <2>2. CASE i > Len(a)
    <3>1. c[i] = b[i - Len(a)]
      BY <2>2, JoinedPlace
    <3>2. i \in 1 .. Len(e)
      BY <1>2
    <3>3. e[i] = b[i - Len(a)]
      BY <1>1, <2>2, <3>2, JoinedPlace
    <3> QED
      BY <3>1, <3>3
  <2> QED
    BY <1>2, <2>1, <2>2
<1> QED
  BY <1>1, <1>2, <1>3, SeqEqual

\* n is the length of the longest end of t that may begin a term.
LongestHeld(t, n) == (n = 0 \/ n \in Held(t)) /\ \A m \in Held(t) : m <= n

\* What is safe to send, and what is held back.
LEMMA HeldSplit ==
    ASSUME NEW t \in Seq(Symbols)
    PROVE  \E x \in Seq(Symbols), y \in Seq(Symbols) :
              /\ x = SubSeq(t, 1, SafeSplit(t)) /\ y = SubSeq(t, SafeSplit(t) + 1, Len(t))
              /\ t = x \o y /\ LongestHeld(t, Len(y))
<1>1. PICK l \in Nat : l = Len(t)
  OBVIOUS
<1>2. {0} \cup Held(t) \subseteq 0 .. l /\ {0} \cup Held(t) \subseteq Nat
  BY <1>1 DEF Held
<1>3. PICK n : n = Max({0} \cup Held(t))
  OBVIOUS
<1>4. n \in {0} \cup Held(t) /\ \A m \in {0} \cup Held(t) : m <= n
  <2>1. PICK S : S = {0} \cup Held(t)
    OBVIOUS
  <2>2. S \subseteq Nat /\ S # {} /\ \A m \in S : m <= l
    BY <1>2, <2>1
  <2>3. Max(S) \in S /\ \A m \in S : m <= Max(S)
    BY <2>2, MaxIsGreatest
  <2> QED
    BY <1>3, <2>1, <2>3
<1>5. n \in Nat /\ n <= l /\ SafeSplit(t) = l - n
  BY <1>1, <1>2, <1>3, <1>4 DEF SafeSplit
<1>6. PICK k \in Nat : k = l - n /\ k <= l /\ l - k = n
  BY <1>5
<1>7. \A i \in 1 .. l : t[i] \in Symbols
  BY <1>1
<1>8. \A i \in 1 .. k : i \in 1 .. l
  BY <1>6
<1>9. /\ SubSeq(t, 1, k) \in Seq(Symbols) /\ Len(SubSeq(t, 1, k)) = k
      /\ \A i \in 1 .. k : SubSeq(t, 1, k)[i] = t[i]
  BY <1>6, <1>7, <1>8
<1>10. PICK x \in Seq(Symbols) : x = SubSeq(t, 1, k)
  BY <1>9
<1>11. \A i \in k + 1 .. l : i \in 1 .. l
  BY <1>6
<1>12. /\ SubSeq(t, k + 1, l) \in Seq(Symbols) /\ Len(SubSeq(t, k + 1, l)) = n
       /\ \A i \in 1 .. n : SubSeq(t, k + 1, l)[i] = t[k + i]
  BY <1>1, <1>5, <1>6, <1>7, <1>11
<1>13. PICK y \in Seq(Symbols) : y = SubSeq(t, k + 1, l)
  BY <1>12
<1>14. Joins(t, x, y)
  <2>1. Len(x) = k /\ Len(y) = n /\ Len(t) = k + n
    BY <1>1, <1>5, <1>6, <1>9, <1>10, <1>12, <1>13
  <2>2. \A i \in 1 .. k : t[i] = x[i]
    BY <1>9, <1>10
  <2>3. \A i \in 1 .. n : t[k + i] = y[i]
    BY <1>12, <1>13
  <2> QED
    BY <2>1, <2>2, <2>3 DEF Joins
<1>15. t = x \o y
  BY <1>14, JoinsIsConcat
<1>16. LongestHeld(t, Len(y))
  BY <1>2, <1>4, <1>12, <1>13 DEF LongestHeld
<1> QED
  BY <1>1, <1>5, <1>6, <1>10, <1>13, <1>15, <1>16

\* What may begin a term is in the longest held end, so no term stands across its beginning.
LEMMA HeldSeparate ==
    ASSUME NEW e \in Seq(Symbols), NEW p \in Seq(Symbols), LongestHeld(e \o p, Len(p)),
           NEW d \in Seq(Symbols), NEW x \in Seq(Symbols), Begins(p \o d, x, Len(x))
    PROVE  Separate(e, x)
<1>1. PICK h \in Seq(Symbols) : h = e \o p /\ Joins(h, e, p)
  BY Joined
<1>2. PICK q \in Seq(Symbols) : q = p \o d /\ Joins(q, p, d)
  BY Joined
<1>3. PICK l \in Nat, k \in Nat : l = Len(e) /\ k = Len(p)
  OBVIOUS
<1>4. /\ Len(h) = l + k
      /\ \A i \in 1 .. l : h[i] = e[i]
      /\ \A i \in 1 .. k : h[l + i] = p[i]
  BY <1>1, <1>3 DEF Joins
<1>5. \A i \in 1 .. k : q[i] = p[i]
  BY <1>2, <1>3 DEF Joins
<1>6. Len(x) <= Len(q) /\ \A i \in 1 .. Len(x) : q[i] = x[i]
  BY <1>2 DEF Begins
<1>7. (k = 0 \/ k \in Held(h)) /\ \A m \in Held(h) : m <= k
  BY <1>1, <1>3 DEF LongestHeld
<1>8. ASSUME NEW s \in Terms, NEW m \in 1 .. Len(s) - 1, EndsWith(e, s, m), Continues(x, s, m)
      PROVE  FALSE
  <2>1. PICK L \in 2 .. 6 : L = Len(s)
    BY TermsOK DEF TermOK
  <2>2. TermOK(s) /\ m \in Nat /\ m >= 1 /\ m <= L - 1
    BY <2>1, TermsOK
  <2>3. m <= l /\ \A i \in 1 .. m : e[(l - m) + i] = s[i]
    BY <1>3, <1>8 DEF EndsWith
  <2>4. PICK n \in Nat : n = L - m /\ n >= 1
    BY <2>2
  <2>5. n <= Len(x) /\ \A i \in 1 .. n : x[i] = s[m + i]
    BY <1>8, <2>1, <2>4 DEF Continues
  <2>6. CASE n <= k
    <3>1. k \in Held(h) /\ Len(h) = l + k
      BY <1>4, <1>7, <2>4, <2>6
    <3>2. PICK S \in Terms : k < Len(S) /\ EndsWith(h, S, k)
      BY <3>1 DEF Held
    <3>3. TermOK(S)
      BY TermsOK
    <3>4. (l + k) - k = l /\ 1 \in 1 .. k /\ 1 \in 1 .. n /\ 1 \in 1 .. Len(x)
      BY <2>4, <2>5, <2>6
    <3>5. h[l + 1] = S[1]
      BY <3>1, <3>2, <3>4 DEF EndsWith
    <3>6. x[1] = S[1]
      BY <1>4, <1>5, <1>6, <3>4, <3>5
    <3>7. s[m + 1] = S[1] /\ m + 1 \in 2 .. Len(s)
      BY <2>1, <2>2, <2>5, <3>4, <3>6
    <3>8. s[m + 1] = "pho" /\ S[1] = "pho"
      BY <2>2, <3>3, <3>7 DEF TermOK
    <3>9. m + 1 = 5 /\ L = 6 /\ Len(S) = 2
      BY <2>1, <2>2, <3>3, <3>7, <3>8 DEF TermOK
    <3> QED
      BY <2>4, <2>6, <3>2, <3>9
  <2>7. CASE n > k
    <3>1. PICK r \in Nat : r = m + k
      BY <2>2
    <3>2. r \in 1 .. Len(h) /\ r < L /\ (l + k) - r = l - m
      BY <1>4, <2>2, <2>3, <2>4, <2>7, <3>1
    <3>3. ASSUME NEW i \in 1 .. r PROVE h[((l + k) - r) + i] = s[i]
      <4>1. CASE i <= m
        <5>1. PICK j : j = (l - m) + i /\ j \in 1 .. l
          BY <2>2, <2>3, <4>1
        <5>2. i \in 1 .. m
          BY <2>2, <4>1
        <5> QED
          BY <1>4, <2>3, <3>2, <5>1, <5>2
      <4>2. CASE i > m
        <5>1. PICK j : j = i - m
          OBVIOUS
        <5>2. j \in 1 .. k /\ j \in 1 .. n /\ j \in 1 .. Len(x) /\ (l - m) + i = l + j /\ m + j = i
          BY <2>2, <2>5, <2>7, <3>1, <4>2, <5>1
        <5>3. h[l + j] = x[j]
          BY <1>4, <1>5, <1>6, <5>2
        <5>4. x[j] = s[m + j]
          BY <2>5, <5>2
        <5> QED
          BY <3>2, <5>2, <5>3, <5>4
      <4> QED
        BY <2>2, <4>1, <4>2
    <3>4. EndsWith(h, s, r)
      BY <1>4, <3>2, <3>3 DEF EndsWith
    <3>5. r \in Held(h)
      BY <2>1, <3>2, <3>4 DEF Held
    <3> QED
      BY <1>7, <2>2, <3>1, <3>5
  <2> QED
    BY <2>4, <2>6, <2>7
<1> QED
  BY <1>8 DEF Separate, Apart

\* Does an end of a joined text as long as its second part, or shorter, end that part?
LEMMA EndOfSecond ==
    ASSUME NEW e \in Seq(Symbols), NEW q \in Seq(Symbols), NEW c, Joins(c, e, q), NEW s,
           NEW m \in 0 .. Len(q)
    PROVE  EndsWith(c, s, m) <=> EndsWith(q, s, m)
<1>1. PICK l \in Nat, k \in Nat : l = Len(e) /\ k = Len(q)
  OBVIOUS
<1>2. Len(c) = l + k /\ \A i \in 1 .. k : c[l + i] = q[i]
  BY <1>1 DEF Joins
<1>3. m \in Nat /\ m <= k /\ m <= l + k
  BY <1>1
<1>4. ASSUME NEW i \in 1 .. m PROVE c[((l + k) - m) + i] = q[(k - m) + i]
  <2>1. PICK j : j = (k - m) + i
    OBVIOUS
  <2>2. j \in 1 .. k /\ ((l + k) - m) + i = l + j
    BY <1>3, <2>1
  <2> QED
    BY <1>2, <2>1, <2>2
<1> QED
  BY <1>1, <1>2, <1>3, <1>4 DEF EndsWith

\* An end that is longer than the second part begins in the first.
LEMMA EndOfFirst ==
    ASSUME NEW h \in Seq(Symbols), NEW d \in Seq(Symbols), NEW c, Joins(c, h, d), NEW s,
           NEW m \in Nat, NEW r \in Nat, m = r + Len(d), EndsWith(c, s, m)
    PROVE  EndsWith(h, s, r)
<1>1. PICK l \in Nat, k \in Nat : l = Len(h) /\ k = Len(d)
  OBVIOUS
<1>2. Len(c) = l + k /\ \A i \in 1 .. l : c[i] = h[i]
  BY <1>1 DEF Joins
<1>3. m <= l + k /\ \A i \in 1 .. m : c[((l + k) - m) + i] = s[i]
  BY <1>2 DEF EndsWith
<1>4. m = r + k /\ r <= l
  BY <1>1, <1>3
<1>5. ASSUME NEW i \in 1 .. r PROVE h[(l - r) + i] = s[i]
  <2>1. PICK j : j = (l - r) + i
    OBVIOUS
  <2>2. j \in 1 .. l /\ ((l + k) - m) + i = j /\ i \in 1 .. m
    BY <1>4, <2>1
  <2> QED
    BY <1>2, <1>3, <2>1, <2>2
<1> QED
  BY <1>1, <1>4, <1>5 DEF EndsWith

\* The held end is found in what is pending and the next delta: nothing before them matters.
LEMMA HeldOfLonger ==
    ASSUME NEW e \in Seq(Symbols), NEW p \in Seq(Symbols), LongestHeld(e \o p, Len(p)),
           NEW d \in Seq(Symbols), NEW n \in Nat, LongestHeld(p \o d, n)
    PROVE  LongestHeld(e \o (p \o d), n)
<1>1. PICK h \in Seq(Symbols) : h = e \o p /\ Joins(h, e, p)
  BY Joined
<1>2. PICK q \in Seq(Symbols) : q = p \o d /\ Joins(q, p, d)
  BY Joined
<1>3. PICK c \in Seq(Symbols) : c = e \o q /\ Joins(c, e, q)
  BY Joined
<1>4. c = h \o d /\ Joins(c, h, d)
  <2>1. (e \o p) \o d = e \o (p \o d)
    BY ZenonT(60), Associative
  <2>2. Joins(h \o d, h, d)
    BY Joined
  <2> QED
    BY <1>1, <1>2, <1>3, <2>1, <2>2
<1>5. /\ Len(c) = Len(e) + Len(q) /\ Len(q) = Len(p) + Len(d) /\ Len(c) = Len(h) + Len(d)
      /\ Len(e) \in Nat /\ Len(p) \in Nat /\ Len(d) \in Nat /\ Len(h) \in Nat
  BY <1>2, <1>3, <1>4 DEF Joins
<1>6. ASSUME NEW m \in Held(c) PROVE m <= n
  <2>1. PICK s \in Terms : m \in 1 .. Len(c) /\ m < Len(s) /\ EndsWith(c, s, m)
    BY DEF Held
  <2>2. CASE m <= Len(q)
    <3>1. m \in 0 .. Len(q) /\ m \in 1 .. Len(q)
      BY <1>5, <2>1, <2>2
    <3>2. EndsWith(q, s, m)
      BY <1>3, <2>1, <3>1, EndOfSecond
    <3>3. m \in Held(q)
      BY <2>1, <3>1, <3>2 DEF Held
    <3> QED
      BY <1>2, <3>3 DEF LongestHeld
  <2>3. CASE m > Len(q)
    <3>1. PICK r : r = m - Len(d)
      OBVIOUS
    <3>2. r \in Nat /\ m \in Nat /\ r \in 1 .. Len(h) /\ m = r + Len(d) /\ r > Len(p) /\ r <= m
      BY <1>5, <2>1, <2>3, <3>1
    <3>3. EndsWith(h, s, r)
      BY <1>4, <2>1, <3>2, EndOfFirst
    <3>4. Len(s) \in Nat
      BY TermsOK DEF TermOK
    <3>5. r < Len(s)
      BY <2>1, <3>2, <3>4
    <3>6. r \in Held(h)
      BY <3>2, <3>3, <3>5 DEF Held
    <3> QED
      BY <1>1, <1>5, <3>2, <3>6 DEF LongestHeld
  <2> QED
    BY <1>5, <2>1, <2>2, <2>3
<1>7. ASSUME n # 0 PROVE n \in Held(c)
  <2>1. n \in Held(q)
    BY <1>2, <1>7 DEF LongestHeld
  <2>2. PICK s \in Terms : n \in 1 .. Len(q) /\ n < Len(s) /\ EndsWith(q, s, n)
    BY <2>1 DEF Held
  <2>3. n \in 0 .. Len(q) /\ n \in 1 .. Len(c)
    BY <1>5, <2>2
  <2>4. EndsWith(c, s, n)
    BY <1>3, <2>2, <2>3, EndOfSecond
  <2> QED
    BY <2>2, <2>3, <2>4 DEF Held
<1> QED
  BY <1>2, <1>3, <1>6, <1>7 DEF LongestHeld

\* What has been heard is guarded up to the longest end that may begin a term; that is pending.
Kept(h, p, c) ==
    \E e \in Seq(Symbols) : h = e \o p /\ c = Guard(e) /\ LongestHeld(h, Len(p))

\* Nothing heard.
LEMMA KeptAtFirst ==
    Kept(<<>>, <<>>, <<>>) /\ Guard(<<>>) = <<>>
<1>0. <<>> \in Seq(Symbols) /\ Len(<<>>) = 0
  OBVIOUS
<1>1. PICK z \in Seq(Symbols) : z = <<>> /\ Len(z) = 0
  BY <1>0
<1>2. Guard(z) = <<>>
  <2>1. ASSUME NEW i \in 1 .. 5 PROVE Stage(z, i) = z
    <3>1. PICK f, o, u : /\ f \in Terms /\ TermOK(f) /\ f \in Seq(Symbols) /\ Len(f) >= 1
                         /\ SubstituteOK(o) /\ o \in Seq(Symbols)
                         /\ f = Replacements[i][1] /\ o = Replacements[i][2]
                         /\ Rewrites(u, z, f, o) /\ Stage(z, i) = u[Len(z)]
                         /\ Stage(z, i) = Replaced(z, f, o)
                         /\ u[Len(z)] \in Seq(Symbols)
      BY StageRewrites
    <3> QED
      BY <1>1, <3>1 DEF Rewrites
  <2>2. {1, 2, 3, 4, 5} \subseteq 1 .. 5
    OBVIOUS
  <2> QED
    BY <1>1, <2>1, <2>2 DEF Guard
<1>3. z \o z = z
  BY <1>1, ConcatEmptySeq
<1>4. LongestHeld(z, 0)
  BY <1>1 DEF LongestHeld, Held
<1> QED
  BY <1>1, <1>2, <1>3, <1>4 DEF Kept

\* push_delta keeps it.
LEMMA KeptByDelta ==
    ASSUME NEW h, NEW p \in Seq(Symbols), NEW c, Kept(h, p, c), NEW d \in Seq(Symbols), NEW q, q = p \o d
    PROVE  /\ SubSeq(q, SafeSplit(q) + 1, Len(q)) \in Seq(Symbols)
           /\ Kept(h \o d, SubSeq(q, SafeSplit(q) + 1, Len(q)), c \o Guard(SubSeq(q, 1, SafeSplit(q))))
<1>1. PICK e \in Seq(Symbols) : h = e \o p /\ c = Guard(e) /\ LongestHeld(h, Len(p))
  BY DEF Kept
<1>2. q \in Seq(Symbols) /\ Joins(q, p, d)
  BY Joined
<1>3. PICK x \in Seq(Symbols), y \in Seq(Symbols) :
          /\ x = SubSeq(q, 1, SafeSplit(q)) /\ y = SubSeq(q, SafeSplit(q) + 1, Len(q))
          /\ q = x \o y /\ LongestHeld(q, Len(y))
  BY <1>2, HeldSplit
<1>4. Begins(q, x, Len(x))
  <2>1. Joins(q, x, y)
    BY <1>3, Joined
  <2>2. Len(y) \in Nat /\ Len(x) \in Nat
    OBVIOUS
  <2> QED
    BY <2>1, <2>2 DEF Begins, Joins
<1>5. Separate(e, x)
  BY <1>1, <1>4, HeldSeparate
<1>6. Guard(e \o x) = c \o Guard(x)
  BY <1>1, <1>5, GuardOfParts
<1>7. h \o d = e \o q
  BY <1>1, ZenonT(60), Associative
<1>8. e \o q = (e \o x) \o y /\ e \o x \in Seq(Symbols)
  <2>1. (e \o x) \o y = e \o (x \o y)
    BY ZenonT(60), Associative
  <2>2. e \o x \in Seq(Symbols)
    BY ConcatProperties
  <2> QED
    BY <1>3, <2>1, <2>2
<1>9. Len(y) \in Nat
  OBVIOUS
<1>10. LongestHeld(e \o q, Len(y))
  BY <1>1, <1>3, <1>9, HeldOfLonger
<1>11. PICK w \in Seq(Symbols) : w = e \o x
  BY <1>8
<1>12. Kept(h \o d, y, c \o Guard(x))
  BY <1>6, <1>7, <1>8, <1>10, <1>11 DEF Kept
<1> QED
  BY <1>3, <1>12

\* What is held goes through the guard on its own.
LEMMA KeptIsGuarded ==
    ASSUME NEW h, NEW p \in Seq(Symbols), NEW c, Kept(h, p, c)
    PROVE  c \o Guard(p) = Guard(h) /\ h \in Seq(Symbols)
<1>1. PICK e \in Seq(Symbols) : h = e \o p /\ c = Guard(e) /\ LongestHeld(h, Len(p))
  BY DEF Kept
<1>0. <<>> \in Seq(Symbols)
  OBVIOUS
<1>2. PICK z \in Seq(Symbols) : z = <<>>
  BY <1>0
<1>3. p \o z = p
  BY <1>2, ConcatEmptySeq
<1>4. Begins(p \o z, p, Len(p))
  BY <1>3 DEF Begins
<1>5. Separate(e, p)
  BY <1>1, <1>4, HeldSeparate
<1> QED
  BY <1>1, <1>5, GuardOfParts, ConcatProperties

\* The recursion of FlattenSeq: the first k sequences joined.
Flat1(u, e, k) == IF k = 1 THEN e[k] ELSE u[k - 1] \o e[k]
Flattens(u, e) == u = [k \in 1 .. Len(e) |-> Flat1(u, e, k)]

\* Sequences of characters are joined to one.
LEMMA FlattenTyped ==
    ASSUME NEW S, NEW e \in Seq(Seq(S))
    PROVE  FlattenSeq(e) \in Seq(S)
<1>0. PICK l \in Nat : l = Len(e)
  OBVIOUS
<1>1. CASE l = 0
  <2>1. e = <<>> /\ <<>> \in Seq(S)
    BY <1>0, <1>1, EmptySeq
  <2>2. FlattenSeq(e) = e
    BY <1>0, <1>1 DEF FlattenSeq
  <2> QED
    BY <2>1, <2>2
<1>2. CASE l # 0
  <2> DEFINE Upto(n) == \E g : \A k \in 1 .. n : g[k] = Flat1(g, e, k)
             T == {n \in Nat : n <= l => Upto(n)}
  <2>1. 0 \in T
    OBVIOUS
  <2>2. ASSUME NEW n \in T PROVE n + 1 \in T
    <3> SUFFICES ASSUME n + 1 <= l PROVE Upto(n + 1)
      OBVIOUS
    <3>1. PICK g : \A k \in 1 .. n : g[k] = Flat1(g, e, k)
      OBVIOUS
    <3>2. PICK x : x = Flat1(g, e, n + 1)
      OBVIOUS
    <3>3. PICK h : h = [k \in 1 .. n + 1 |-> IF k = n + 1 THEN x ELSE g[k]]
      OBVIOUS
    <3>4. h[n + 1] = x /\ \A k \in 1 .. n : h[k] = g[k]
      BY <3>3
    <3>5. ASSUME NEW k \in 1 .. n + 1 PROVE Flat1(h, e, k) = Flat1(g, e, k)
      <4>1. k = 1 \/ k - 1 \in 1 .. n
        OBVIOUS
      <4> QED
        BY <3>4, <4>1 DEF Flat1
    <3>6. \A k \in 1 .. n + 1 : k \in 1 .. n \/ k = n + 1
      OBVIOUS
    <3>7. \A k \in 1 .. n + 1 : h[k] = Flat1(h, e, k)
      BY <3>1, <3>2, <3>4, <3>5, <3>6
    <3> QED
      BY <3>7
  <2>3. T = Nat
    BY <2>1, <2>2, NumberInduction
  <2>40. l \in T
    BY <2>3
  <2>4. PICK g : \A k \in 1 .. l : g[k] = Flat1(g, e, k)
    BY <2>40
  <2>5. PICK v : v = [k \in 1 .. l |-> g[k]]
    OBVIOUS
  <2>6. ASSUME NEW k \in 1 .. l PROVE Flat1(v, e, k) = Flat1(g, e, k)
    <3>1. k = 1 \/ k - 1 \in 1 .. l
      OBVIOUS
    <3> QED
      BY <2>5, <3>1 DEF Flat1
  <2>7. Flattens(v, e)
    BY <1>0, <2>4, <2>5, <2>6 DEF Flattens
  <2>8. PICK u : u = CHOOSE w : Flattens(w, e)
    OBVIOUS
  <2>9. Flattens(u, e)
    BY <2>7, <2>8
  <2>10. FlattenSeq(e) = (CHOOSE w : Flattens(w, e))[Len(e)]
    BY <1>0, <1>2 DEF FlattenSeq, Flattens, Flat1
  <2>11. \A k \in 1 .. l : u[k] = Flat1(u, e, k)
    BY <1>0, <2>9 DEF Flattens
  <2> DEFINE R == {n \in Nat : n + 1 <= l => u[n + 1] \in Seq(S)}
  <2>12. \A k \in 1 .. l : e[k] \in Seq(S)
    BY <1>0
  <2>13. 0 \in R
    <3>1. 1 \in 1 .. l
      BY <1>2
    <3>2. u[1] = e[1]
      BY <2>11, <3>1 DEF Flat1
    <3> QED
      BY <2>12, <3>1, <3>2
  <2>14. ASSUME NEW n \in R PROVE n + 1 \in R
    <3> SUFFICES ASSUME (n + 1) + 1 <= l PROVE u[(n + 1) + 1] \in Seq(S)
      OBVIOUS
    <3>1. PICK m : m = (n + 1) + 1 /\ m \in 1 .. l /\ m # 1 /\ m - 1 = n + 1 /\ n + 1 <= l
      OBVIOUS
    <3>2. u[m] = u[m - 1] \o e[m]
      BY <2>11, <3>1 DEF Flat1
    <3>3. PICK x \in Seq(S), y \in Seq(S) : x = u[m - 1] /\ y = e[m]
      BY <2>12, <3>1
    <3>4. x \o y \in Seq(S)
      BY ConcatProperties
    <3> QED
      BY <3>1, <3>2, <3>3, <3>4
  <2>15. R = Nat
    BY <2>13, <2>14, NumberInduction
  <2>16. PICK n \in Nat : n + 1 = l
    <3>1. l - 1 \in Nat /\ (l - 1) + 1 = l
      BY <1>2
    <3> QED
      BY <3>1
  <2>160. n \in R
    BY <2>15, <2>16
  <2>161. n + 1 <= l => u[n + 1] \in Seq(S)
    BY <2>160
  <2>17. u[l] \in Seq(S)
    BY <2>16, <2>161
  <2> QED
    BY <1>0, <2>8, <2>10, <2>17
<1> QED
  BY <1>1, <1>2

\* What is on the wire: characters and their halves.
Halves == Symbols \X {0, 1, 2}

\* The characters of a text as bytes, and the bytes of a chunk as characters.
LEMMA BytesTyped ==
    ASSUME NEW t \in Seq(Symbols)
    PROVE  Bytes(t) \in Seq(Halves)
<1> DEFINE E == [k \in DOMAIN t |-> IF t[k] \in Thai THEN << <<t[k], 1>>, <<t[k], 2>> >>
                                    ELSE << <<t[k], 0>> >>]
<1>1. PICK l \in Nat : l = Len(t) /\ DOMAIN t = 1 .. l
  OBVIOUS
<1>2. ASSUME NEW k \in 1 .. l PROVE E[k] \in Seq(Halves)
  <2>1. PICK x \in Symbols : x = t[k]
    BY <1>1
  <2>2. <<x, 0>> \in Halves /\ <<x, 1>> \in Halves /\ <<x, 2>> \in Halves
    BY DEF Halves
  <2>3. << <<x, 0>> >> \in Seq(Halves) /\ << <<x, 1>>, <<x, 2>> >> \in Seq(Halves)
    BY <2>2
  <2>4. E[k] = IF x \in Thai THEN << <<x, 1>>, <<x, 2>> >> ELSE << <<x, 0>> >>
    BY <1>1, <2>1
  <2> QED
    BY <2>3, <2>4
<1>3. E \in Seq(Seq(Halves))
  BY <1>1, <1>2
<1> QED
  BY <1>3, FlattenTyped DEF Bytes

\* What one byte of a chunk is decoded to.
DecodedByte(b, k) ==
    CASE b[k][2] = 0 -> <<b[k][1]>>
      [] b[k][2] = 1 -> IF k < Len(b) THEN <<b[k][1]>> ELSE <<Lossy>>
      [] b[k][2] = 2 -> IF k = 1 THEN <<Lossy>> ELSE <<>>

\* The characters of a chunk, lost ones included.
LEMMA DecodedTyped ==
    ASSUME NEW b \in Seq(Halves)
    PROVE  Decoded(b) \in Seq(Symbols)
<1> DEFINE E == [k \in DOMAIN b |-> DecodedByte(b, k)]
<1>1. PICK l \in Nat : l = Len(b) /\ DOMAIN b = 1 .. l
  OBVIOUS
<1>2. ASSUME NEW k \in 1 .. l PROVE E[k] \in Seq(Symbols)
  <2>1. PICK x \in Halves : x = b[k]
    BY <1>1
  <2>2. x[1] \in Symbols /\ x[2] \in {0, 1, 2} /\ Lossy \in Symbols
    BY DEF Halves, Symbols
  <2>3. <<x[1]>> \in Seq(Symbols) /\ <<Lossy>> \in Seq(Symbols) /\ <<>> \in Seq(Symbols)
    BY <2>2
  <2>4. DecodedByte(b, k) \in {<<x[1]>>, <<Lossy>>, <<>>}
    BY <2>1, <2>2 DEF DecodedByte
  <2> QED
    BY <1>1, <2>3, <2>4
<1>3. E \in Seq(Seq(Symbols))
  BY <1>1, <1>2
<1> QED
  BY <1>3, FlattenTyped DEF Decoded, DecodedByte

\* Line ends are characters.
LEMMA NormalisedTyped ==
    ASSUME NEW t \in Seq(Symbols)
    PROVE  Normalised(t) \in Seq(Symbols)
<1> DEFINE E == [k \in DOMAIN t |->
        CASE t[k] = "cr" -> <<"lf">>
          [] t[k] = "lf" /\ k > 1 /\ t[k - 1] = "cr" -> <<>>
          [] OTHER -> <<t[k]>>]
<1>1. PICK l \in Nat : l = Len(t) /\ DOMAIN t = 1 .. l
  OBVIOUS
<1>2. ASSUME NEW k \in 1 .. l PROVE E[k] \in Seq(Symbols)
  <2>1. PICK x \in Symbols : x = t[k]
    BY <1>1
  <2>2. "lf" \in Symbols
    BY DEF Symbols
  <2>3. <<x>> \in Seq(Symbols) /\ <<"lf">> \in Seq(Symbols) /\ <<>> \in Seq(Symbols)
    BY <2>2
  <2>4. E[k] \in {<<x>>, <<"lf">>, <<>>}
    BY <1>1, <2>1
  <2> QED
    BY <2>3, <2>4
<1>3. E \in Seq(Seq(Symbols))
  BY <1>1, <1>2
<1> QED
  BY <1>3, FlattenTyped DEF Normalised

\* A part of a sequence, possibly empty, within its bounds.
LEMMA PartTyped ==
    ASSUME NEW S, NEW t \in Seq(S), NEW m \in Nat \ {0}, NEW n \in Int, n <= Len(t)
    PROVE  SubSeq(t, m, n) \in Seq(S)
<1>1. PICK l \in Nat : l = Len(t)
  OBVIOUS
<1>2. \A i \in m .. n : i \in 1 .. l
  BY <1>1
<1>3. \A i \in m .. n : t[i] \in S
  BY <1>1, <1>2
<1> QED
  BY <1>3, SubSeqProperties

\* The data of a frame are characters of it.
LEMMA DataTyped ==
    ASSUME NEW t \in Seq(Symbols)
    PROVE  Data(t) \in Seq(Symbols)
<1> DEFINE D == {k \in DOMAIN t : t[k] = "data:"}
<1>1. PICK l \in Nat : l = Len(t) /\ DOMAIN t = 1 .. l
  OBVIOUS
<1>2. CASE D = {}
  <2>1. <<>> \in Seq(Symbols)
    OBVIOUS
  <2> QED
    BY <1>2, <2>1 DEF Data
<1>3. CASE D # {}
  <2>1. PICK k : k = CHOOSE x \in D : TRUE
    OBVIOUS
  <2>2. k \in D
    BY <1>3, <2>1
  <2>3. k \in 1 .. l
    BY <1>1, <2>2
  <2>4. PICK ends : ends = {j \in k + 1 .. Len(t) : t[j] = "lf"} \cup {Len(t) + 1}
    OBVIOUS
  <2>5. PICK n : n = Min(ends)
    OBVIOUS
  <2>6. ends \subseteq Nat /\ ends # {} /\ \A j \in ends : j <= l + 1
    BY <1>1, <2>3, <2>4
  <2>7. PICK j \in ends : \A i \in ends : j <= i
    BY <2>6, LeastNumber
  <2>8. n \in ends
    BY <2>5, <2>7 DEF Min
  <2>9. n - 1 \in Int /\ n - 1 <= Len(t) /\ k + 1 \in Nat \ {0}
    BY <1>1, <2>3, <2>6, <2>8
  <2>10. SubSeq(t, k + 1, n - 1) \in Seq(Symbols)
    BY <2>9, PartTyped
  <2>11. Data(t) = SubSeq(t, k + 1, n - 1)
    BY <1>3, <2>1, <2>4, <2>5 DEF Data
  <2> QED
    BY <2>10, <2>11
<1> QED
  BY <1>2, <1>3

(***************************************************************************)
(* ProviderStream: the inductive invariant.  While the stream is open,     *)
(* what has left is the guarded form of all that was heard but the pending *)
(* end; a character that is not Aiko's gets what was heard.  A response    *)
(* that is taken whole finds nothing of a stream.                          *)
(***************************************************************************)
StreamType ==
    /\ guarded \in BOOLEAN /\ closed \in BOOLEAN
    /\ text \in Seq(Symbols) /\ eol \in Seq(Symbols)
    /\ sent \in 0 .. Len(text)
    /\ wire \in Seq(Halves)
    /\ buffer \in Seq(Symbols) /\ pending \in Seq(Symbols)
    /\ content \in Seq(Symbols) /\ heard \in Seq(Symbols)
    /\ status \in {"open", "done", "error"}

Untouched == sent = 0 /\ ~closed => wire = <<>> /\ buffer = <<>> /\ pending = <<>>
OpenIsKept == guarded /\ status = "open" => Kept(heard, pending, content)
WholeIsGuarded == guarded => content \o Guard(pending) = Guard(heard)
ContentIsGuarded == guarded => \E e \in Seq(Symbols) : content = Guard(e)
PlainIsHeard == ~guarded => content = heard /\ pending = <<>>
DoneIsEmpty == status = "done" => pending = <<>>

StreamInv ==
    /\ StreamType
    /\ Untouched /\ OpenIsKept /\ WholeIsGuarded /\ ContentIsGuarded /\ PlainIsHeard /\ DoneIsEmpty

\* The replies are made of characters.
LEMMA RepliesTyped ==
    Replies \subseteq Seq(Symbols)
<1>1. Letters \subseteq Symbols
  BY DEF Symbols
<1> QED
  BY <1>1, ProviderStreamAssumption, SeqMonotonic

\* The frame of a delta is bytes.
LEMMA FrameTyped ==
    ASSUME NEW payload \in Seq(Symbols), eol \in Seq(Symbols)
    PROVE  DataFrame(payload) \in Seq(Halves)
<1>1. "data:" \in Symbols
  BY DEF Symbols
<1>2. <<"data:">> \in Seq(Symbols)
  BY <1>1
<1>3. <<"data:">> \o payload \in Seq(Symbols)
  BY <1>2, ConcatProperties
<1>4. (<<"data:">> \o payload) \o eol \in Seq(Symbols)
  BY <1>3, ConcatProperties
<1>5. ((<<"data:">> \o payload) \o eol) \o eol \in Seq(Symbols)
  BY <1>4, ConcatProperties
<1> QED
  BY <1>5, BytesTyped DEF DataFrame

\* The stream starts with nothing heard.
LEMMA StreamInvAtFirst ==
    StreamInit => StreamInv
<1> SUFFICES ASSUME StreamInit PROVE StreamInv
  OBVIOUS
<1>1. <<>> \in Seq(Symbols) /\ <<>> \in Seq(Halves)
  OBVIOUS
<1>2. guarded \in BOOLEAN /\ text \in Seq(Symbols)
  BY RepliesTyped, ProviderStreamAssumption DEF StreamInit
<1>3. eol \in Seq(Symbols)
  <2>1. "lf" \in Symbols /\ "cr" \in Symbols
    BY DEF Symbols
  <2>2. <<"lf">> \in Seq(Symbols) /\ <<"cr", "lf">> \in Seq(Symbols)
    BY <2>1
  <2> QED
    BY <2>2 DEF StreamInit
<1>4. 0 \in 0 .. Len(text)
  BY <1>2
<1>5. StreamType
  BY <1>1, <1>2, <1>3, <1>4 DEF StreamType, StreamInit
<1>6. Untouched /\ PlainIsHeard /\ DoneIsEmpty
  BY DEF Untouched, PlainIsHeard, DoneIsEmpty, StreamInit
<1>7. OpenIsKept
  BY KeptAtFirst DEF OpenIsKept, StreamInit
<1>8. WholeIsGuarded
  <2>1. <<>> \o <<>> = <<>>
    BY <1>1, ConcatEmptySeq
  <2> QED
    BY <2>1, KeptAtFirst DEF WholeIsGuarded, StreamInit
<1>9. ContentIsGuarded
  BY <1>1, KeptAtFirst DEF ContentIsGuarded, StreamInit
<1> QED
  BY <1>5, <1>6, <1>7, <1>8, <1>9 DEF StreamInv

\* The guard works for Aiko alone; what it keeps does not change.
SameGuard ==
    /\ UNCHANGED <<guarded, pending, content, heard>>
    /\ status' = status \/ status' = "error"

LEMMA GuardUnchanged ==
    ASSUME StreamInv, SameGuard
    PROVE  OpenIsKept' /\ WholeIsGuarded' /\ ContentIsGuarded' /\ PlainIsHeard' /\ DoneIsEmpty'
<1>1. OpenIsKept /\ WholeIsGuarded /\ ContentIsGuarded /\ PlainIsHeard /\ DoneIsEmpty
  BY DEF StreamInv
<1>2. OpenIsKept'
  BY <1>1 DEF OpenIsKept, SameGuard
<1>3. WholeIsGuarded' /\ ContentIsGuarded' /\ PlainIsHeard' /\ DoneIsEmpty'
  BY <1>1 DEF WholeIsGuarded, ContentIsGuarded, PlainIsHeard, DoneIsEmpty, SameGuard
<1> QED
  BY <1>2, <1>3

\* The provider and the network.
LEMMA SendDeltaKeeps ==
    ASSUME StreamInv, NEW n \in 1 .. MaxDelta, SendDelta(n)
    PROVE  StreamInv'
<1>1. n \in Nat /\ n >= 1
  BY ProviderStreamAssumption
<1>2. sent + n \in 0 .. Len(text) /\ sent + 1 \in Nat \ {0} /\ sent + n \in Int /\ sent + n # 0
  BY <1>1 DEF StreamInv, StreamType, SendDelta
<1>3. SubSeq(text, sent + 1, sent + n) \in Seq(Symbols)
  <2>1. PICK i, j : i = sent + 1 /\ j = sent + n
    OBVIOUS
  <2>2. text \in Seq(Symbols) /\ i \in Nat \ {0} /\ j \in Int /\ j <= Len(text)
    BY <1>2, <2>1 DEF StreamInv, StreamType
  <2> QED
    BY <2>1, <2>2, PartTyped
<1>4. wire' \in Seq(Halves)
  BY <1>3, FrameTyped DEF StreamInv, StreamType, SendDelta
<1>5. StreamType'
  BY <1>2, <1>4 DEF StreamInv, StreamType, SendDelta
<1>6. Untouched'
  BY <1>2 DEF Untouched, SendDelta
<1>7. SameGuard
  BY DEF SameGuard, SendDelta
<1> QED
  BY <1>5, <1>6, <1>7, GuardUnchanged DEF StreamInv

LEMMA CloseBodyKeeps ==
    ASSUME StreamInv, CloseBody
    PROVE  StreamInv'
<1>1. "[DONE]" \in Symbols /\ "broken" \in Symbols /\ "data:" \in Symbols /\ "!" \in Symbols
  BY DEF Symbols
<1>2. /\ <<"[DONE]">> \in Seq(Symbols) /\ <<"broken">> \in Seq(Symbols)
      /\ <<"data:", "!">> \in Seq(Symbols) /\ <<>> \in Seq(Halves)
  BY <1>1
<1>3. wire' \in Seq(Halves)
  BY <1>2, FrameTyped, BytesTyped DEF StreamInv, StreamType, CloseBody
<1>5. StreamType'
  BY <1>3 DEF StreamInv, StreamType, CloseBody
<1>6. Untouched'
  BY DEF Untouched, CloseBody
<1>7. SameGuard
  BY DEF SameGuard, CloseBody
<1> QED
  BY <1>5, <1>6, <1>7, GuardUnchanged DEF StreamInv

LEMMA ReceiveKeeps ==
    ASSUME StreamInv, NEW n \in 1 .. MaxChunk, Receive(n)
    PROVE  StreamInv'
<1>1. n \in Nat \ {0} /\ n \in Int /\ n + 1 \in Nat \ {0}
  BY ProviderStreamAssumption
<1>2. wire \in Seq(Halves) /\ n <= Len(wire) /\ Len(wire) \in Nat /\ Len(wire) \in Int /\ Len(wire) <= Len(wire)
  BY DEF StreamInv, StreamType, Receive
<1>3. SubSeq(wire, 1, n) \in Seq(Halves) /\ SubSeq(wire, n + 1, Len(wire)) \in Seq(Halves)
  BY <1>1, <1>2, PartTyped
<1>4. Decoded(SubSeq(wire, 1, n)) \in Seq(Symbols)
  BY <1>3, DecodedTyped
<1>5. buffer \o Decoded(SubSeq(wire, 1, n)) \in Seq(Symbols)
  BY <1>4, ConcatProperties DEF StreamInv, StreamType
<1>6. buffer' \in Seq(Symbols)
  BY <1>5, NormalisedTyped DEF Receive
<1>7. StreamType'
  BY <1>3, <1>6 DEF StreamInv, StreamType, Receive, provider
<1>8. wire # <<>>
  BY <1>1, <1>2
<1>9. Untouched'
  BY <1>8 DEF StreamInv, Untouched, Receive, provider
<1>10. SameGuard
  BY DEF SameGuard, Receive, provider
<1> QED
  BY <1>7, <1>9, <1>10, GuardUnchanged DEF StreamInv

\* What the guard has done after a frame, or a whole response.
GuardTypes == 
    /\ pending \in Seq(Symbols) /\ content \in Seq(Symbols) /\ heard \in Seq(Symbols)
    /\ status \in {"open", "done", "error"}
GuardParts == OpenIsKept /\ WholeIsGuarded /\ ContentIsGuarded /\ PlainIsHeard /\ DoneIsEmpty

LEMMA PushDeltaKeeps ==
    ASSUME StreamInv, status = "open", NEW d \in Seq(Symbols), PushDelta(d), guarded' = guarded
    PROVE  GuardTypes' /\ GuardParts'
<1>1. /\ pending \in Seq(Symbols) /\ content \in Seq(Symbols) /\ heard \in Seq(Symbols) /\ guarded \in BOOLEAN
      /\ OpenIsKept /\ PlainIsHeard
  BY DEF StreamInv, StreamType
<1>2. heard' = heard \o d /\ heard' \in Seq(Symbols) /\ status' = "open"
  BY <1>1, ConcatProperties DEF PushDelta
<1>3. CASE guarded
  <2>1. PICK q : q = pending \o d
    OBVIOUS
  <2>2. /\ pending' = SubSeq(q, SafeSplit(q) + 1, Len(q))
        /\ content' = content \o Guard(SubSeq(q, 1, SafeSplit(q)))
    BY <1>3, <2>1 DEF PushDelta
  <2>3. Kept(heard, pending, content)
    BY <1>1, <1>3 DEF OpenIsKept
  <2>4. pending' \in Seq(Symbols) /\ Kept(heard', pending', content')
    BY <1>1, <1>2, <2>1, <2>2, <2>3, KeptByDelta
  <2>5. PICK e \in Seq(Symbols) : content' = Guard(e)
    BY <2>4 DEF Kept
  <2>6. content' \in Seq(Symbols)
    BY <2>5, GuardClean
  <2>7. content' \o Guard(pending') = Guard(heard')
    BY <2>4, KeptIsGuarded
  <2>8. GuardTypes'
    BY <1>2, <2>4, <2>6 DEF GuardTypes
  <2>9. OpenIsKept' /\ WholeIsGuarded' /\ ContentIsGuarded'
    BY <2>4, <2>5, <2>7 DEF OpenIsKept, WholeIsGuarded, ContentIsGuarded
  <2>10. PlainIsHeard' /\ DoneIsEmpty'
    BY <1>2, <1>3 DEF PlainIsHeard, DoneIsEmpty
  <2> QED
    BY <2>8, <2>9, <2>10 DEF GuardParts
<1>4. CASE ~guarded
  <2>1. content' = content \o d /\ pending' = pending /\ content = heard /\ pending = <<>>
    BY <1>1, <1>4 DEF PushDelta, PlainIsHeard
  <2>2. GuardTypes'
    BY <1>1, <1>2, <2>1 DEF GuardTypes
  <2>3. OpenIsKept' /\ WholeIsGuarded' /\ ContentIsGuarded'
    BY <1>4 DEF OpenIsKept, WholeIsGuarded, ContentIsGuarded
  <2>4. PlainIsHeard' /\ DoneIsEmpty'
    BY <1>2, <2>1 DEF PlainIsHeard, DoneIsEmpty
  <2> QED
    BY <2>2, <2>3, <2>4 DEF GuardParts
<1> QED
  BY <1>3, <1>4

\* The end of the stream.
LEMMA FinishKeeps ==
    ASSUME StreamInv, status = "open", Finish, guarded' = guarded
    PROVE  GuardTypes' /\ GuardParts'
<1>1. /\ pending \in Seq(Symbols) /\ content \in Seq(Symbols) /\ heard \in Seq(Symbols) /\ guarded \in BOOLEAN
      /\ OpenIsKept /\ PlainIsHeard
  BY DEF StreamInv, StreamType
<1>2. /\ content' = content \o Guard(pending) /\ pending' = <<>> /\ status' \in {"done", "error"}
      /\ heard' = heard
  BY DEF Finish
<1>3. <<>> \in Seq(Symbols) /\ Guard(<<>>) = <<>>
  BY KeptAtFirst
<1>4. content' \in Seq(Symbols)
  BY <1>1, <1>2, GuardClean, ConcatProperties
<1>5. content' \o Guard(<<>>) = content'
  BY <1>3, <1>4, ConcatEmptySeq
<1>6. GuardTypes' /\ DoneIsEmpty'
  BY <1>1, <1>2, <1>3, <1>4 DEF GuardTypes, DoneIsEmpty
<1>7. guarded => content' = Guard(heard)
  BY <1>1, <1>2, KeptIsGuarded DEF OpenIsKept
<1>8. OpenIsKept'
  BY <1>2 DEF OpenIsKept
<1>9. WholeIsGuarded'
  BY <1>2, <1>5, <1>7 DEF WholeIsGuarded
<1>10. ContentIsGuarded'
  BY <1>1, <1>7 DEF ContentIsGuarded
<1>11. PlainIsHeard'
  <2> SUFFICES ASSUME ~guarded PROVE content' = heard
    BY <1>2 DEF PlainIsHeard
  <2>1. content = heard /\ pending = <<>>
    BY <1>1 DEF PlainIsHeard
  <2>2. content' = content \o <<>>
    BY <1>2, <1>3, <2>1
  <2> QED
    BY <1>1, <2>1, <2>2, ConcatEmptySeq
<1> QED
  BY <1>6, <1>8, <1>9, <1>10, <1>11 DEF GuardParts

\* A frame is broken data, the end, or a delta.
LEMMA ProcessFrameKeeps ==
    ASSUME StreamInv, status = "open", NEW d \in Seq(Symbols), ProcessFrame(d), guarded' = guarded
    PROVE  GuardTypes' /\ GuardParts'
<1>1. CASE StreamError
  <2>1. SameGuard
    BY <1>1 DEF SameGuard, StreamError
  <2>2. GuardTypes'
    BY <1>1 DEF GuardTypes, StreamInv, StreamType, StreamError
  <2> QED
    BY <2>1, <2>2, GuardUnchanged DEF GuardParts
<1>2. CASE Finish
  BY <1>2, FinishKeeps
<1>3. CASE PushDelta(d)
  BY <1>3, PushDeltaKeeps
<1> QED
  BY <1>1, <1>2, <1>3 DEF ProcessFrame

\* The loop of the stream.
LEMMA StreamFrameKeeps ==
    ASSUME StreamInv, StreamFrame
    PROVE  StreamInv'
<1>1. PICK k : k = CHOOSE x \in FrameEnds : \A j \in FrameEnds : x <= j
  OBVIOUS
<1>2. /\ status = "open" /\ FrameEnds # {}
      /\ buffer' = SubSeq(buffer, k + 2, Len(buffer))
      /\ ProcessFrame(Data(SubSeq(buffer, 1, k - 1)))
      /\ UNCHANGED <<provider, wire>>
  BY <1>1 DEF StreamFrame
<1>3. PICK l \in Nat : l = Len(buffer)
  BY DEF StreamInv, StreamType
<1>4. FrameEnds \subseteq 1 .. l - 1 /\ FrameEnds \subseteq Nat
  BY <1>3 DEF FrameEnds
<1>5. k \in FrameEnds
  <2>1. \E j \in FrameEnds : \A i \in FrameEnds : j <= i
    BY <1>2, <1>4, LeastNumber
  <2> QED
    BY <1>1, <2>1
<1>6. /\ k + 2 \in Nat \ {0} /\ Len(buffer) \in Int /\ Len(buffer) <= Len(buffer)
      /\ k - 1 \in Int /\ k - 1 <= Len(buffer) /\ l # 0
  BY <1>3, <1>4, <1>5
<1>7. buffer' \in Seq(Symbols) /\ SubSeq(buffer, 1, k - 1) \in Seq(Symbols)
  <2>1. PICK i, j : i = k + 2 /\ j = k - 1
    OBVIOUS
  <2>2. buffer \in Seq(Symbols) /\ i \in Nat \ {0} /\ j \in Int /\ j <= l
    BY <1>3, <1>6, <2>1 DEF StreamInv, StreamType
  <2>3. l \in Int /\ l <= Len(buffer) /\ 1 \in Nat \ {0} /\ j <= Len(buffer)
    BY <1>3, <2>2
  <2>4. SubSeq(buffer, i, l) \in Seq(Symbols) /\ SubSeq(buffer, 1, j) \in Seq(Symbols)
    BY <2>2, <2>3, PartTyped
  <2> QED
    BY <1>2, <1>3, <2>1, <2>4
<1>8. PICK d \in Seq(Symbols) : d = Data(SubSeq(buffer, 1, k - 1))
  BY <1>7, DataTyped
<1>9. guarded' = guarded
  BY <1>2 DEF provider
<1>10. GuardTypes' /\ GuardParts'
  BY <1>2, <1>8, <1>9, ProcessFrameKeeps
<1>11. StreamType'
  BY <1>2, <1>7, <1>10 DEF StreamInv, StreamType, GuardTypes, provider
<1>12. buffer # <<>>
  BY <1>3, <1>6
<1>13. Untouched'
  BY <1>2, <1>12 DEF StreamInv, Untouched, provider
<1> QED
  BY <1>10, <1>11, <1>13 DEF StreamInv, GuardParts

LEMMA EndOfBodyKeeps ==
    ASSUME StreamInv, EndOfBody
    PROVE  StreamInv'
<1>1. status = "open" /\ closed /\ guarded' = guarded /\ closed' = closed /\ UNCHANGED <<provider, wire>>
  BY DEF EndOfBody, provider
<1>2. PICK d \in Seq(Symbols) : d = Data(buffer)
  BY DataTyped DEF StreamInv, StreamType
<1>3. \/ ProcessFrame(d) /\ buffer' = <<>>
      \/ Finish /\ buffer' = buffer
  BY <1>2 DEF EndOfBody
<1>4. GuardTypes' /\ GuardParts'
  BY <1>1, <1>3, ProcessFrameKeeps, FinishKeeps
<1>5. buffer' \in Seq(Symbols)
  <2>1. <<>> \in Seq(Symbols)
    OBVIOUS
  <2> QED
    BY <1>3, <2>1 DEF StreamInv, StreamType
<1>6. StreamType'
  BY <1>1, <1>4, <1>5 DEF StreamInv, StreamType, GuardTypes, provider
<1>7. Untouched'
  BY <1>1 DEF Untouched
<1> QED
  BY <1>4, <1>6, <1>7 DEF StreamInv, GuardParts

\* A whole response goes through the guard at once.
LEMMA CompleteKeeps ==
    ASSUME StreamInv, Complete
    PROVE  StreamInv'
<1>1. /\ ~closed /\ sent = 0 /\ closed' = TRUE /\ heard' = text /\ status' = "done"
      /\ content' = CharacterGuard(text) /\ pending' = pending /\ guarded' = guarded
      /\ UNCHANGED <<eol, text, sent, wire, buffer>>
  BY DEF Complete
<1>2. pending = <<>> /\ text \in Seq(Symbols) /\ guarded \in BOOLEAN
  BY <1>1 DEF StreamInv, StreamType, Untouched
<1>3. content' = IF guarded THEN Guard(text) ELSE text
  BY <1>1 DEF CharacterGuard
<1>4. content' \in Seq(Symbols)
  BY <1>2, <1>3, GuardClean
<1>5. StreamType'
  BY <1>1, <1>4 DEF StreamInv, StreamType
<1>6. Untouched' /\ OpenIsKept' /\ DoneIsEmpty' /\ PlainIsHeard'
  BY <1>1, <1>2, <1>3 DEF Untouched, OpenIsKept, DoneIsEmpty, PlainIsHeard
<1>7. ContentIsGuarded'
  BY <1>1, <1>2, <1>3 DEF ContentIsGuarded
<1>8. content' \o Guard(<<>>) = content'
  BY <1>4, KeptAtFirst, ConcatEmptySeq
<1>9. WholeIsGuarded'
  BY <1>1, <1>2, <1>3, <1>8 DEF WholeIsGuarded
<1> QED
  BY <1>5, <1>6, <1>7, <1>9 DEF StreamInv

LEMMA StreamFailsKeeps ==
    ASSUME StreamInv, StreamFails
    PROVE  StreamInv'
<1>1. StreamType' /\ Untouched'
  BY DEF StreamInv, StreamType, Untouched, StreamFails, StreamError, provider
<1>2. SameGuard
  BY DEF SameGuard, StreamFails, StreamError, provider
<1> QED
  BY <1>1, <1>2, GuardUnchanged DEF StreamInv

\* Every step keeps the invariant.
LEMMA StreamInvKept ==
    StreamInv /\ [StreamNext]_streamVars => StreamInv'
<1> SUFFICES ASSUME StreamInv, [StreamNext]_streamVars PROVE StreamInv'
  OBVIOUS
<1>1. CASE \E n \in 1 .. MaxDelta : SendDelta(n)
  BY <1>1, SendDeltaKeeps
<1>2. CASE CloseBody
  BY <1>2, CloseBodyKeeps
<1>3. CASE \E n \in 1 .. MaxChunk : Receive(n)
  BY <1>3, ReceiveKeeps
<1>4. CASE StreamFrame
  BY <1>4, StreamFrameKeeps
<1>5. CASE EndOfBody
  BY <1>5, EndOfBodyKeeps
<1>6. CASE Complete
  BY <1>6, CompleteKeeps
<1>7. CASE StreamFails
  BY <1>7, StreamFailsKeeps
<1>8. CASE UNCHANGED streamVars
  <2>1. StreamType' /\ Untouched'
    BY <1>8 DEF StreamInv, StreamType, Untouched, streamVars
  <2>2. SameGuard
    BY <1>8 DEF SameGuard, streamVars
  <2> QED
    BY <2>1, <2>2, GuardUnchanged DEF StreamInv
<1> QED
  BY <1>1, <1>2, <1>3, <1>4, <1>5, <1>6, <1>7, <1>8 DEF StreamNext

\* The invariant of a stream, for every reply, every profile and every cut.
THEOREM StreamInvariant == StreamSpec => []StreamInv
<1> QED
  BY StreamInvAtFirst, StreamInvKept, PTL DEF StreamSpec

\* No masculine term reaches the UI from Aiko, whatever the provider and the network cut.
THEOREM NoMasculineTermHolds == StreamSpec => []NoMasculineTerm
<1>1. StreamInv => NoMasculineTerm
  <2> SUFFICES ASSUME StreamInv, guarded, NEW s \in Terms, NEW k \in DOMAIN content,
                      OccursAt(content, s, k)
               PROVE  FALSE
    BY DEF NoMasculineTerm, Occurs
  <2>1. PICK e \in Seq(Symbols) : content = Guard(e)
    BY DEF StreamInv, ContentIsGuarded
  <2>02. content \in Seq(Symbols)
    BY DEF StreamInv, StreamType
  <2>03. s \in Seq(Symbols)
    BY TermsOK DEF TermOK
  <2>04. DOMAIN content = 1 .. Len(content)
    BY <2>02
  <2>2. s \in Seq(Symbols) /\ k \in Nat \ {0}
    BY <2>03, <2>04
  <2>3. Within(content, s, Len(content))
    BY <2>2, OccursIsAt DEF Within
  <2> QED
    BY <2>1, <2>3, GuardClean
<1> QED
  BY <1>1, StreamInvariant, PTL

\* The guard that works on the stream does what the guard of a whole reply does.
THEOREM StreamedIsGuardedHolds == StreamSpec => []StreamedIsGuarded
<1>1. StreamInv => StreamedIsGuarded
  <2> SUFFICES ASSUME StreamInv PROVE StreamedIsGuarded
    OBVIOUS
  <2>1. content \in Seq(Symbols) /\ guarded \in BOOLEAN
    BY DEF StreamInv, StreamType
  <2>2. CASE guarded
    BY <2>2 DEF StreamInv, WholeIsGuarded, DoneIsEmpty, StreamedIsGuarded, CharacterGuard
  <2>3. CASE ~guarded
    <3>1. content = heard /\ pending = <<>>
      BY <2>3 DEF StreamInv, PlainIsHeard
    <3>2. content \o Guard(pending) = content
      BY <2>1, <3>1, KeptAtFirst, ConcatEmptySeq
    <3> QED
      BY <2>3, <3>1, <3>2 DEF StreamedIsGuarded, CharacterGuard
  <2> QED
    BY <2>1, <2>2, <2>3
<1> QED
  BY <1>1, StreamInvariant, PTL

=============================================================================
