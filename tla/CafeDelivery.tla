---------------------------- MODULE CafeDelivery ----------------------------
(***************************************************************************)
(* How the state of one cafe room reaches its players: the revision that   *)
(* numbers snapshots and movement updates, the bounded broadcast channel   *)
(* of reliable messages, the watch channel of movement updates, the        *)
(* movement tick, the outbound half of each socket task (cafe.rs), and the *)
(* browser that applies what arrives (useCafeRoom.ts).                     *)
(*                                                                         *)
(* Hub methods hold the rooms mutex and are one action each.  A socket     *)
(* task is not under that mutex: receive_outbound_room_message polls the   *)
(* reliable channel first and the movement channel second, and other       *)
(* threads may send between the two polls.  A message written to a socket  *)
(* is applied by its browser in order, so both are one step here.          *)
(*                                                                         *)
(* What a snapshot holds is abstracted to who is in the room, body (the    *)
(* activity, hands and loadouts, as a version number) and pos (positions,  *)
(* as a version number).                                                   *)
(***************************************************************************)
EXTENDS Integers, Sequences, SequencesExt, FiniteSets

CONSTANTS
    Players,       \* session ids
    Sockets,       \* sockets, each opened at most once
    None,          \* Option::None
    QueueCapacity, \* capacity of the room's broadcast channel
    HistoryLimit,  \* CHAT_HISTORY_LIMIT, in the API and in the browser
    MaxBody,       \* bound on snapshot-worthy changes
    MaxPos,        \* bound on accepted movements
    MaxChat        \* bound on chat messages

ASSUME CafeDeliveryAssumption ==
    /\ None \notin Players \cup Sockets
    /\ {QueueCapacity, HistoryLimit} \subseteq Nat \ {0}
    /\ {MaxBody, MaxPos, MaxChat} \subseteq Nat

VARIABLES
    room,    \* revision, dirty flag, contents, members and chat history
    watch,   \* the value of the movement channel
    task,    \* where each socket task is
    owner,   \* the player of each socket
    queue,   \* unread reliable messages of each socket
    lagged,  \* sockets whose unread messages were overwritten
    unseen,  \* sockets that have not seen the movement channel's value
    client,  \* the room as each browser shows it
    tick,    \* the movement tick spawned by each socket's join
    stopped, \* ticks whose stop signal was sent
    said     \* chat messages sent so far

deliveryVars == <<room, watch, task, owner, queue, lagged, unseen, client, tick, stopped, said>>

Who(r) == {p \in Players : r.members[p] # None}
Open(c) == task[c] \in {"ready", "between"}

Snapshot(r) ==
    [type |-> "snapshot", rev |-> r.rev, who |-> Who(r), body |-> r.body, pos |-> r.pos]

\* broadcast_room_snapshot on the room: the next revision, pending movement included.
Snapshotted(r) == [r EXCEPT !.rev = @ + 1, !.dirty = FALSE]

LastN(s, n) == IF Len(s) > n THEN SubSeq(s, Len(s) - n + 1, Len(s)) ELSE s

\* push_chat_event on the history.
Recorded(r, event) == [r EXCEPT !.chat = LastN(Append(@, event), HistoryLimit)]
ChatMessage(event) == [type |-> "chat_event", event |-> event]

(***************************************************************************)
(* room.sender.send for a sequence of messages: every subscribed socket    *)
(* gets them in order; a receiver that is a full channel behind has lost   *)
(* the oldest and learns so on its next read.                              *)
(***************************************************************************)
Overflows(s, msgs) == Len(s) + Len(msgs) > QueueCapacity

NowLagged(S, msgs) == lagged \cup {c \in S : Overflows(queue[c], msgs)}

Broadcast(S, msgs) ==
    /\ queue' = [c \in Sockets |-> IF c \in S THEN LastN(queue[c] \o msgs, QueueCapacity)
                                              ELSE queue[c]]
    /\ lagged' = NowLagged(S, msgs)

Subscribers == {c \in Sockets : Open(c)}

DeliveryInit ==
    /\ room = [rev |-> 0, dirty |-> FALSE, body |-> 0, pos |-> 0, chat |-> <<>>,
               members |-> [p \in Players |-> None]]
    /\ watch = [type |-> "movement", rev |-> 0, who |-> {}, pos |-> 0]
    /\ task = [c \in Sockets |-> "new"]
    /\ owner = [c \in Sockets |-> None]
    /\ queue = [c \in Sockets |-> <<>>]
    /\ lagged = {}
    /\ unseen = {}
    /\ client = [c \in Sockets |-> None]
    /\ tick = [c \in Sockets |-> "none"]
    /\ stopped = {}
    /\ said = 0

(***************************************************************************)
(* Joining and leaving                                                     *)
(***************************************************************************)
\* The browser's view after a welcome.
Welcomed(r, history) ==
    [rev |-> r.rev, who |-> Who(r), body |-> r.body, pos |-> r.pos, chat |-> history,
     resync |-> FALSE]

\* Mutant: emptiness is tested after the player has been inserted.
MutStartsTickLate(r, p) == Who([r EXCEPT !.members[p] = "inserted"]) = {}

StartsTick(r, p) == Who(r) = {}

\* Mutant: the joining socket subscribes after the join has been announced.
MutJoinReceivers(c) == Subscribers

\* join subscribes before it broadcasts, so the socket receives its own snapshot.
JoinReceivers(c) == Subscribers \cup {c}

\* CafeHub::join and the welcome that follows it.  The history of the welcome was
\* read before the join was announced.
JoinRoom(c, p) ==
    LET joined == Snapshotted([room EXCEPT !.members[p] = c])
        event == <<"joined", c>>
        new == room.members[p] = None
    IN  /\ task[c] = "new"
        /\ task' = [task EXCEPT ![c] = "ready"]
        /\ owner' = [owner EXCEPT ![c] = p]
        /\ room' = IF new THEN Recorded(joined, event) ELSE joined
        /\ client' = [client EXCEPT ![c] = Welcomed(joined, room.chat)]
        /\ Broadcast(JoinReceivers(c),
                     <<Snapshot(joined)>> \o IF new THEN <<ChatMessage(event)>> ELSE <<>>)
        /\ unseen' = unseen \ {c}
        /\ tick' = [tick EXCEPT ![c] = IF StartsTick(room, p) THEN "waiting" ELSE @]
        /\ UNCHANGED <<watch, stopped, said>>

\* leave_for_connection when the socket loop ends, for whatever reason.  The last
\* player stops the tick and sends no snapshot.
Leave(c) ==
    LET p == owner[c]
        event == <<"left", c>>
        gone == [room EXCEPT !.members[p] = None]
        others == Subscribers \ {c}
        current == room.members[p] = c
        empty == Who(gone) = {}
    IN  /\ Open(c)
        /\ task' = [task EXCEPT ![c] = "closed"]
        /\ \/ /\ current /\ empty
              /\ room' = Recorded([gone EXCEPT !.dirty = FALSE], event)
              /\ Broadcast(others, <<ChatMessage(event)>>)
              /\ stopped' = stopped \cup {k \in Sockets : tick[k] # "none"}
           \/ /\ current /\ ~empty
              /\ room' = Recorded(Snapshotted(gone), event)
              /\ Broadcast(others, <<Snapshot(Snapshotted(gone)), ChatMessage(event)>>)
              /\ UNCHANGED stopped
           \/ ~current /\ UNCHANGED <<room, queue, lagged, stopped>>
        /\ UNCHANGED <<watch, owner, unseen, client, tick, said>>

(***************************************************************************)
(* What players do                                                         *)
(***************************************************************************)
Acts(c) == Open(c) /\ room.members[owner[c]] = c

\* An interaction, a timer or a loadout change that broadcasts a snapshot.
Change ==
    LET changed == Snapshotted([room EXCEPT !.body = @ + 1])
    IN  /\ room.body < MaxBody
        /\ Who(room) # {}
        /\ room' = changed
        /\ Broadcast(Subscribers, <<Snapshot(changed)>>)
        /\ UNCHANGED <<watch, task, owner, unseen, client, tick, stopped, said>>

\* update_player_for_connection accepts a movement.
Move(c) ==
    /\ Acts(c)
    /\ room.pos < MaxPos
    /\ room' = [room EXCEPT !.pos = @ + 1, !.dirty = TRUE]
    /\ UNCHANGED <<watch, task, owner, queue, lagged, unseen, client, tick, stopped, said>>

\* chat_for_connection accepts a message.
Chat(c) ==
    LET event == <<"message", said + 1>>
    IN  /\ Acts(c)
        /\ said < MaxChat
        /\ said' = said + 1
        /\ room' = Recorded(room, event)
        /\ Broadcast(Subscribers, <<ChatMessage(event)>>)
        /\ UNCHANGED <<watch, task, owner, unseen, client, tick, stopped>>

(***************************************************************************)
(* The movement tick of spawn_movement_snapshot_tick.                      *)
(***************************************************************************)
\* The interval fires; the biased select prefers the stop signal.
TickFires(k) ==
    /\ tick[k] = "waiting" /\ k \notin stopped
    /\ tick' = [tick EXCEPT ![k] = "flushing"]
    /\ UNCHANGED <<room, watch, task, owner, queue, lagged, unseen, client, stopped, said>>

\* broadcast_room_movement: the next revision, and where everybody is.
MovementOf(r) == [type |-> "movement", rev |-> r.rev, who |-> Who(r), pos |-> r.pos]

\* flush_dirty_movement_snapshot, once the rooms mutex is held.
TickFlushes(k) ==
    LET flushed == [room EXCEPT !.rev = @ + 1, !.dirty = FALSE]
    IN  /\ tick[k] = "flushing"
        /\ \/ /\ Who(room) = {}
              /\ tick' = [tick EXCEPT ![k] = "exited"]
              /\ UNCHANGED <<room, watch, unseen>>
           \/ /\ Who(room) # {} /\ ~room.dirty
              /\ tick' = [tick EXCEPT ![k] = "waiting"]
              /\ UNCHANGED <<room, watch, unseen>>
           \/ /\ Who(room) # {} /\ room.dirty
              /\ tick' = [tick EXCEPT ![k] = "waiting"]
              /\ room' = flushed
              /\ watch' = MovementOf(flushed)
              /\ unseen' = unseen \cup Subscribers
        /\ UNCHANGED <<task, owner, queue, lagged, client, stopped, said>>

TickStops(k) ==
    /\ tick[k] = "waiting" /\ k \in stopped
    /\ tick' = [tick EXCEPT ![k] = "exited"]
    /\ UNCHANGED <<room, watch, task, owner, queue, lagged, unseen, client, stopped, said>>

(***************************************************************************)
(* The browser: handleServerMessage                                        *)
(***************************************************************************)
\* Mutant: a movement update is applied to whatever players are shown.
MutSameBatch(view, m) == TRUE

\* applyMovementBatch needs an update for exactly the players shown.
SameBatch(view, m) == view.who = m.who

Newer(view, m) == m.rev > view.rev

Applied(view, m) ==
    CASE m.type = "snapshot" /\ Newer(view, m) ->
             [view EXCEPT !.rev = m.rev, !.who = m.who, !.body = m.body, !.pos = m.pos]
      [] m.type = "movement" /\ Newer(view, m) ->
             IF SameBatch(view, m) THEN [view EXCEPT !.rev = m.rev, !.pos = m.pos]
                                   ELSE [view EXCEPT !.resync = TRUE]
      [] m.type = "chat_event" /\ ~Contains(view.chat, m.event) ->
             [view EXCEPT !.chat = LastN(Append(@, m.event), HistoryLimit)]
      [] OTHER -> view

(***************************************************************************)
(* The socket task: receive_outbound_room_message                          *)
(***************************************************************************)
\* The reliable channel has a message: it is written to the socket.
SendReliable(c) ==
    /\ task[c] = "ready" /\ ~client[c].resync
    /\ c \notin lagged
    /\ queue[c] # <<>>
    /\ client' = [client EXCEPT ![c] = Applied(@, Head(queue[c]))]
    /\ queue' = [queue EXCEPT ![c] = Tail(@)]
    /\ UNCHANGED <<room, watch, task, owner, lagged, unseen, tick, stopped, said>>

\* The reliable channel was polled and had nothing.
ReliablePending(c) ==
    /\ task[c] = "ready" /\ ~client[c].resync
    /\ c \notin lagged
    /\ queue[c] = <<>>
    /\ task' = [task EXCEPT ![c] = "between"]
    /\ UNCHANGED <<room, watch, owner, queue, lagged, unseen, client, tick, stopped, said>>

\* The movement channel has changed: its latest value is written to the socket.
SendMovement(c) ==
    /\ task[c] = "between"
    /\ c \in unseen
    /\ client' = [client EXCEPT ![c] = Applied(@, watch)]
    /\ unseen' = unseen \ {c}
    /\ task' = [task EXCEPT ![c] = "ready"]
    /\ UNCHANGED <<room, watch, owner, queue, lagged, tick, stopped, said>>

\* Neither channel had anything: the task sleeps, and polls anew when it is woken.
MovementPending(c) ==
    /\ task[c] = "between"
    /\ c \notin unseen
    /\ task' = [task EXCEPT ![c] = "ready"]
    /\ UNCHANGED <<room, watch, owner, queue, lagged, unseen, client, tick, stopped, said>>

DeliveryNext ==
    \/ \E c \in Sockets, p \in Players : JoinRoom(c, p)
    \/ \E c \in Sockets : \/ Leave(c) \/ Move(c) \/ Chat(c)
                        \/ SendReliable(c) \/ ReliablePending(c) \/ SendMovement(c)
                        \/ MovementPending(c)
                        \/ TickFires(c) \/ TickFlushes(c) \/ TickStops(c)
    \/ Change

\* A spawned tick and its interval keep running, and the mutex is fair (tokio's
\* Mutex serves waiters in order).
DeliverySpec == DeliveryInit /\ [][DeliveryNext]_deliveryVars
FairSpec ==
    /\ DeliverySpec
    /\ \A k \in Sockets : /\ WF_deliveryVars(TickFires(k))
                         /\ WF_deliveryVars(TickFlushes(k))
                         /\ WF_deliveryVars(TickStops(k))
-----------------------------------------------------------------------------
\* A player's current socket with nothing left to send, in a room with no movement
\* to flush.  A socket that a newer one has replaced is not told when the room
\* empties, because the last departure sends no snapshot.
Settled(c) ==
    /\ Acts(c)
    /\ task[c] = "ready" /\ c \notin lagged /\ queue[c] = <<>> /\ c \notin unseen
    /\ ~client[c].resync /\ ~room.dirty

\* Once everything sent has arrived, a browser that has not asked to resynchronise
\* shows the players who are in the room where they really are, although a movement
\* update may overtake the snapshot before it.
MembersConverge ==
    \A c \in Sockets : Settled(c) => /\ client[c].who = Who(room)
                                   /\ client[c].pos = room.pos

\* The chat a browser shows is the room's history: nothing falls between the history
\* of the welcome and the live events, nothing is shown twice, and a receiver that
\* missed events never passes for one that is up to date.
ChatConverges ==
    \A c \in Sockets : Settled(c) => client[c].chat = room.chat

\* Accepted movement is always passed on, by the tick or by the next snapshot.
MovementFlushed == room.dirty ~> ~room.dirty
====
