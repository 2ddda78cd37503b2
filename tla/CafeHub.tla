------------------------------ MODULE CafeHub -------------------------------
(***************************************************************************)
(* The Cafe hub (cafe.rs): rooms and how they are made, found and swept    *)
(* away, the places sockets take, the notices that disconnect a deleted    *)
(* account, and what the players wear (store/cafe.rs).  What happens in a  *)
(* room is module CafeRoom, how its messages travel CafeDelivery.          *)
(*                                                                         *)
(* rooms and the counters are each behind a mutex, so an operation under   *)
(* one of them is one action; a handler may be anywhere between two of     *)
(* its awaits when an account is deleted.  A connection slot stands for    *)
(* one connection at a time; ids of rooms are never used again.            *)
(***************************************************************************)
EXTENDS Integers, Sequences, FiniteSets

CONSTANTS
    Account,          \* the sessions of the account that may be deleted
    Guests,           \* guest sessions
    NoSession,        \* the session of an idle slot
    Ips, IpOf,        \* resolved_cafe_ip of every session
    Conns,            \* connections at the same time
    Handlers,         \* requests that make rooms at the same time
    ROOM_CAPACITY,
    MaxPerSession, MaxPerIp, MaxGlobal,            \* limits of sockets
    CreationsPerSession, CreationsPerIp, CreationsGlobal,
    CreationWindow,   \* room_creation_window_seconds, in ticks
    NeverJoinedTtl, EmptyTtl,
    NoticeCap,        \* capacity of session_revocations
    NumCodes,         \* how many invite codes there are
    Seeds,            \* codes the id of a new room may start from
    Items, Required,  \* CAFE_COSMETICS and the stars each one requires
    NoItem,
    MaxSent,          \* bound on the requests ever sent
    MaxStars,         \* bound on the stars of an owner
    Horizon           \* bound on the clock

Sessions == Account \cup Guests
Owner(s) == IF s \in Account THEN Account ELSE {s}
Owners == {Owner(s) : s \in Sessions}

ASSUME CafeHubAssumption ==
    /\ Account \cap Guests = {} /\ NoSession \notin Sessions
    /\ IsFiniteSet(Conns)
    /\ IpOf \in [Sessions -> Ips]
    /\ {ROOM_CAPACITY, MaxPerSession, MaxPerIp, MaxGlobal, NoticeCap, CreationWindow} \subseteq Nat \ {0}
    /\ {CreationsPerSession, CreationsPerIp, CreationsGlobal} \subseteq Nat \ {0}
    /\ NumCodes >= MaxSent /\ Seeds \subseteq 0 .. NumCodes - 1
    /\ Required \in [Items -> Nat] /\ NoItem \notin Items

VARIABLES
    live,       \* sessions get_session finds
    toTell,     \* deleted sessions not announced yet
    rooms,      \* the rooms by id
    made,       \* history: the rooms ever made, [by, at]
    bySession, byIp, active,    \* CafeAbuseState: the sockets counted
    creations,  \* room_creation_buckets
    sock,       \* the connections
    handler,    \* create_room and quick_join under way
    stars, loadout,   \* cafe_progress and cafe_cosmetic_loadouts of every owner
    equip,      \* the equip request under way
    sent,       \* requests sent so far, and rounds rewarded
    now

hubVars == <<rooms, made, creations, handler>>
countVars == <<bySession, byIp, active>>
wornVars == <<stars, loadout, equip>>
vars == <<live, toTell, hubVars, countVars, sock, wornVars, sent, now>>

Send == sent < MaxSent /\ sent' = sent + 1
Global == "global"
Never == -1
NoSocket == [pc |-> "closed", session |-> NoSession, room |-> 0, item |-> NoItem,
             queue |-> <<>>, lagged |-> FALSE, late |-> FALSE]
NoHandler == [pc |-> "idle", session |-> NoSession, private |-> FALSE, quick |-> FALSE]
NoEquip == [pc |-> "idle", session |-> NoSession, item |-> NoItem]

-----------------------------------------------------------------------------
(* Rooms. *)

InviteCode(seed) ==
    LET free(d) == \A r \in DOMAIN rooms : rooms[r].code # (seed + d) % NumCodes
        d == CHOOSE d \in 0 .. NumCodes - 1 : free(d) /\ \A e \in 0 .. d - 1 : ~free(e)
    IN  (seed + d) % NumCodes

NewRoom(seed, private, quick) ==
    [code |-> InviteCode(seed), private |-> private, players |-> [s \in {} |-> 0],
     created |-> now, ever |-> FALSE, emptySince |-> Never, quick |-> quick]

Present(r) == DOMAIN rooms[r].players
PublicRooms == {r \in DOMAIN rooms : ~rooms[r].private /\ Cardinality(Present(r)) < ROOM_CAPACITY}

(* prune_creation_buckets and consume_room_creation *)
Pruned == [i \in DOMAIN creations |-> SelectSeq(creations[i], LAMBDA t : now - t < CreationWindow)]
CreationIdentities(s) == {s, IpOf[s], Global}
CreationLimit(i) == IF i = Global THEN CreationsGlobal
                    ELSE IF i \in Ips THEN CreationsPerIp ELSE CreationsPerSession
CreationRefused(s) == \E i \in CreationIdentities(s) : Len(Pruned[i]) >= CreationLimit(i)

\* creation_gate: one request at a time from its first look at the rooms to the new room.
MutGateFree == TRUE
GateFree == \A h \in Handlers : handler[h].pc \notin {"consume", "create"}

(***************************************************************************)
(* A request passes the gate: create_room_limited goes on to consume, and  *)
(* quick_join_limited does when no public room has space.  The session     *)
(* was in force when the request came; by now it may be deleted.           *)
(***************************************************************************)
PassGate(h, s, private, quick) ==
    /\ handler[h].pc = "idle"
    /\ GateFree
    /\ Send
    /\ handler' = IF quick /\ PublicRooms # {} THEN handler
                  ELSE [handler EXCEPT ![h] = [pc |-> "consume", session |-> s, private |-> private, quick |-> quick]]
    /\ UNCHANGED <<live, toTell, rooms, made, creations, countVars, sock, wornVars, now>>

ConsumeRoomCreation(h) ==
    /\ handler[h].pc = "consume"
    /\ LET s == handler[h].session IN
       IF CreationRefused(s)
       THEN /\ creations' = Pruned
            /\ handler' = [handler EXCEPT ![h] = NoHandler]
            /\ UNCHANGED made
       ELSE /\ creations' = [i \in DOMAIN creations |->
                               IF i \in CreationIdentities(s) THEN Append(Pruned[i], now) ELSE Pruned[i]]
            /\ handler' = [handler EXCEPT ![h].pc = "create"]
            /\ made' = Append(made, [by |-> s, at |-> now])
    /\ UNCHANGED <<live, toTell, rooms, countVars, sock, sent, wornVars, now>>

CreateRoom(h) ==
    /\ handler[h].pc = "create"
    /\ \E seed \in Seeds :
         LET id == Len(made) IN
         rooms' = [r \in DOMAIN rooms \cup {id} |->
                     IF r = id THEN NewRoom(seed, handler[h].private, handler[h].quick) ELSE rooms[r]]
    /\ handler' = [handler EXCEPT ![h] = NoHandler]
    /\ UNCHANGED <<live, toTell, made, creations, countVars, sock, sent, wornVars, now>>

\* cleanup_at
Expired(room) ==
    /\ DOMAIN room.players = {}
    /\ IF room.ever THEN room.emptySince # Never /\ now - room.emptySince >= EmptyTtl
       ELSE now - room.created >= NeverJoinedTtl
CleanupExpired ==
    /\ rooms' = [r \in {r \in DOMAIN rooms : ~Expired(rooms[r])} |-> rooms[r]]
    /\ creations' = Pruned
    /\ UNCHANGED <<live, toTell, made, handler, countVars, sock, sent, wornVars, now>>

-----------------------------------------------------------------------------
(* Sockets. *)

Holds(c) == sock[c].pc # "closed"

Less(n) == IF n > 0 THEN n - 1 ELSE 0       \* saturating_sub
DecrementCounter(counters, key) == [counters EXCEPT ![key] = Less(@)]

\* release_socket, when the reservation of a connection is dropped
Release(c) ==
    LET s == sock[c].session IN
    /\ bySession' = DecrementCounter(bySession, s)
    /\ byIp' = DecrementCounter(byIp, IpOf[s])
    /\ active' = Less(active)
    /\ sock' = [sock EXCEPT ![c] = NoSocket]

\* Only a session in force gets beyond the first line of a handler.
EnsureCafeSession(s) == s \in live

\* cafe_socket up to reserve_socket.  A session deleted before the reservation fails like one deleted after it.
ReserveSocket(c, s) ==
    /\ sock[c].pc = "closed"
    /\ Send
    /\ EnsureCafeSession(s)
    /\ bySession[s] < MaxPerSession /\ byIp[IpOf[s]] < MaxPerIp /\ active < MaxGlobal
    /\ bySession' = [bySession EXCEPT ![s] = @ + 1]
    /\ byIp' = [byIp EXCEPT ![IpOf[s]] = @ + 1]
    /\ active' = active + 1
    /\ sock' = [sock EXCEPT ![c] = [NoSocket EXCEPT !.pc = "reserved", !.session = s]]
    /\ UNCHANGED <<live, toTell, hubVars, wornVars, now>>

\* get_cafe_progress: what is equipped, if it is unlocked
MutUnlocked(o, item) == TRUE
Unlocked(o, item) == item = NoItem \/ Required[item] <= stars[o]
EquippedOf(o) == IF Unlocked(o, loadout[o]) THEN loadout[o] ELSE NoItem

\* The progress of a deleted session cannot be written: the handler fails and drops the reservation.
ReadProgress(c) ==
    /\ sock[c].pc = "reserved"
    /\ IF sock[c].session \in live
       THEN /\ sock' = [sock EXCEPT ![c].pc = "upgrading", ![c].item = EquippedOf(Owner(sock[c].session))]
            /\ UNCHANGED countVars
       ELSE Release(c)
    /\ UNCHANGED <<live, toTell, hubVars, sent, wornVars, now>>

\* The client goes away, or the store fails, before the socket task runs.
MutAbandonUpgrade(c) ==
    /\ sock[c].pc \in {"reserved", "upgrading"}
    /\ sock' = [sock EXCEPT ![c] = NoSocket]
    /\ UNCHANGED <<live, toTell, hubVars, countVars, sent, wornVars, now>>
AbandonUpgrade(c) ==
    /\ sock[c].pc \in {"reserved", "upgrading"}
    /\ Release(c)
    /\ UNCHANGED <<live, toTell, hubVars, sent, wornVars, now>>

\* handle_cafe_socket: subscribe to the revocations, then join
Subscribe(c) ==
    /\ sock[c].pc = "upgrading"
    /\ sock' = [sock EXCEPT ![c].pc = "subscribed",
                            ![c].late = sock[c].session \notin live \cup toTell]
    /\ UNCHANGED <<live, toTell, hubVars, countVars, sent, wornVars, now>>

CanJoin(s, r) == r \in DOMAIN rooms /\ (s \in Present(r) \/ Cardinality(Present(r)) < ROOM_CAPACITY)
Player(c) == [conn |-> c, item |-> sock[c].item]

Join(c, r) ==
    /\ sock[c].pc = "subscribed"
    /\ LET s == sock[c].session IN
       IF CanJoin(s, r)
       THEN /\ rooms' = [rooms EXCEPT ![r].players = [p \in Present(r) \cup {s} |->
                                                         IF p = s THEN Player(c) ELSE rooms[r].players[p]],
                                      ![r].ever = TRUE, ![r].emptySince = Never]
            /\ sock' = [sock EXCEPT ![c].pc = "joined", ![c].room = r]
            /\ UNCHANGED countVars
       ELSE Release(c) /\ UNCHANGED rooms      \* room_not_found or room_full
    /\ UNCHANGED <<live, toTell, made, creations, handler, sent, wornVars, now>>

\* The next revocation: its own, another's, or that some were lost.
MutLagged(c) == sock' = [sock EXCEPT ![c].lagged = FALSE]
Lagged(c) == sock' = IF sock[c].session \in live THEN [sock EXCEPT ![c].lagged = FALSE]
                     ELSE [sock EXCEPT ![c].lagged = FALSE, ![c].pc = "leaving"]
ReceiveRevocation(c) ==
    /\ sock[c].pc = "joined"
    /\ \/ sock[c].lagged /\ Lagged(c)
       \/ /\ ~sock[c].lagged /\ sock[c].queue # <<>>
          /\ sock' = [sock EXCEPT ![c].queue = Tail(@),
                                  ![c].pc = IF Head(sock[c].queue) = sock[c].session THEN "leaving" ELSE @]
    /\ UNCHANGED <<live, toTell, hubVars, countVars, sent, wornVars, now>>

\* The client closes, is too slow, sends too much, or the welcome does not reach it.
Disconnect(c) ==
    /\ sock[c].pc = "joined"
    /\ sock' = [sock EXCEPT ![c].pc = "leaving"]
    /\ UNCHANGED <<live, toTell, hubVars, countVars, sent, wornVars, now>>

\* leave_for_connection, and the reservation is dropped
LeaveForConnection(c) ==
    /\ sock[c].pc = "leaving"
    /\ LET s == sock[c].session
           r == sock[c].room
           own == r \in DOMAIN rooms /\ s \in Present(r) /\ rooms[r].players[s].conn = c
           rest == Present(r) \ {s}
       IN rooms' = IF ~own THEN rooms
                   ELSE [rooms EXCEPT ![r].players = [p \in rest |-> rooms[r].players[p]],
                                      ![r].emptySince = IF rest = {} THEN now ELSE @]
    /\ Release(c)
    /\ UNCHANGED <<live, toTell, made, creations, handler, sent, wornVars, now>>

-----------------------------------------------------------------------------
(* Deletion of the account (delete_registered_account, disconnect_sessions). *)

DeleteAccount ==
    /\ Send
    /\ Account \subseteq live
    /\ live' = live \ Account
    /\ toTell' = Account
    /\ stars' = [stars EXCEPT ![Account] = 0]
    /\ loadout' = [loadout EXCEPT ![Account] = NoItem]
    /\ UNCHANGED <<hubVars, countVars, sock, equip, now>>

Subscribed(c) == sock[c].pc \in {"subscribed", "joined", "leaving"}
Told(c, s) ==
    IF ~Subscribed(c) THEN sock[c]
    ELSE IF Len(sock[c].queue) < NoticeCap THEN [sock[c] EXCEPT !.queue = Append(@, s)]
    ELSE [sock[c] EXCEPT !.queue = Append(Tail(@), s), !.lagged = TRUE]
DisconnectSession(s) ==
    /\ s \in toTell
    /\ toTell' = toTell \ {s}
    /\ sock' = [c \in Conns |-> Told(c, s)]
    /\ UNCHANGED <<live, hubVars, countVars, sent, wornVars, now>>

-----------------------------------------------------------------------------
(* What players wear. *)

AwardStar(o) ==       \* award_cafe_round_completion
    /\ Send
    /\ o \subseteq live
    /\ stars[o] < MaxStars
    /\ stars' = [stars EXCEPT ![o] = @ + 1]
    /\ UNCHANGED <<live, toTell, hubVars, countVars, sock, loadout, equip, now>>

\* equip_cafe_cosmetic: read the progress and refuse what is locked; equip_cafe_avatar has nothing to refuse.
EquipRequest(s, item) ==
    /\ equip.pc = "idle"
    /\ EnsureCafeSession(s)
    /\ Send
    /\ equip' = IF Unlocked(Owner(s), item) THEN [pc |-> "write", session |-> s, item |-> item] ELSE NoEquip
    /\ UNCHANGED <<live, toTell, hubVars, countVars, sock, stars, loadout, now>>

\* The row refers to the session: it cannot be written once the session is deleted.
WriteLoadout ==
    /\ equip.pc = "write"
    /\ IF equip.session \in live
       THEN /\ loadout' = [loadout EXCEPT ![Owner(equip.session)] = equip.item]
            /\ equip' = [equip EXCEPT !.pc = "read"]
       ELSE equip' = NoEquip /\ UNCHANGED loadout
    /\ UNCHANGED <<live, toTell, hubVars, countVars, sock, sent, stars, now>>

ReadLoadout ==
    /\ equip.pc = "read"
    /\ equip' = IF equip.session \in live
                THEN [equip EXCEPT !.pc = "apply", !.item = EquippedOf(Owner(equip.session))]
                ELSE NoEquip
    /\ UNCHANGED <<live, toTell, hubVars, countVars, sock, sent, stars, loadout, now>>

\* CafeHub::equip_cosmetic: every player of the owner, in every room
ApplyLoadout ==
    /\ equip.pc = "apply"
    /\ rooms' = [r \in DOMAIN rooms |->
                   [rooms[r] EXCEPT !.players = [p \in Present(r) |->
                       IF Owner(p) = Owner(equip.session) THEN [@[p] EXCEPT !.item = equip.item] ELSE @[p]]]]
    /\ equip' = NoEquip
    /\ UNCHANGED <<live, toTell, made, creations, handler, countVars, sock, sent, stars, loadout, now>>

Tick ==
    /\ now < Horizon
    /\ now' = now + 1
    /\ UNCHANGED <<live, toTell, hubVars, countVars, sock, sent, wornVars>>

Init ==
    /\ live = Sessions /\ toTell = {}
    /\ rooms = [r \in {} |-> 0] /\ made = <<>>
    /\ bySession = [s \in Sessions |-> 0] /\ byIp = [i \in Ips |-> 0] /\ active = 0
    /\ creations = [i \in Sessions \cup Ips \cup {Global} |-> <<>>]
    /\ sock = [c \in Conns |-> NoSocket]
    /\ handler = [h \in Handlers |-> NoHandler]
    /\ stars = [o \in Owners |-> 0] /\ loadout = [o \in Owners |-> NoItem]
    /\ equip = NoEquip /\ sent = 0
    /\ now = 0

Next ==
    \/ \E h \in Handlers :
        \/ \E s \in Sessions, private \in BOOLEAN : PassGate(h, s, private, FALSE)
        \/ \E s \in Sessions : PassGate(h, s, FALSE, TRUE)
        \/ ConsumeRoomCreation(h) \/ CreateRoom(h)
    \/ \E c \in Conns :
        \/ \E s \in Sessions : ReserveSocket(c, s)
        \/ \E r \in 1 .. Len(made) : Join(c, r)
        \/ ReadProgress(c) \/ AbandonUpgrade(c) \/ Subscribe(c)
        \/ ReceiveRevocation(c) \/ Disconnect(c) \/ LeaveForConnection(c)
    \/ \E s \in Sessions : DisconnectSession(s) \/ (\E item \in Items \cup {NoItem} : EquipRequest(s, item))
    \/ \E o \in Owners : AwardStar(o)
    \/ DeleteAccount \/ WriteLoadout \/ ReadLoadout \/ ApplyLoadout \/ CleanupExpired \/ Tick

Spec == Init /\ [][Next]_vars

-----------------------------------------------------------------------------
Held == {c \in Conns : Holds(c)}

(***************************************************************************)
(* The three socket counters are the sockets that exist: whatever ends a   *)
(* connection, before or after the upgrade, gives back all three once, so  *)
(* no session, address or process runs out of sockets for good.            *)
(***************************************************************************)
SocketsCounted ==
    /\ \A s \in Sessions : bySession[s] = Cardinality({c \in Held : sock[c].session = s})
    /\ \A i \in Ips : byIp[i] = Cardinality({c \in Held : IpOf[sock[c].session] = i})
    /\ active = Cardinality(Held)

(***************************************************************************)
(* A socket that was listening when the deletion of its session was        *)
(* announced still has the notice to come, or learns from the store that   *)
(* the session is gone because notices were lost: it does not play on.     *)
(***************************************************************************)
RevocationReaches ==
    \A c \in Conns :
        (sock[c].pc \in {"subscribed", "joined"} /\ sock[c].session \notin live \cup toTell /\ ~sock[c].late)
            => sock[c].lagged \/ \E k \in DOMAIN sock[c].queue : sock[c].queue[k] = sock[c].session

(***************************************************************************)
(* Quick joins at the same time end up in one room: at most one room that  *)
(* a quick join made is waiting for its first player.                      *)
(***************************************************************************)
QuickJoinsMeet == Cardinality({r \in DOMAIN rooms : rooms[r].quick /\ ~rooms[r].ever}) <= 1

(***************************************************************************)
(* Players of sessions in force wear only what their owner has unlocked,   *)
(* whatever equip requests, sockets opened before them and deletions do.   *)
(***************************************************************************)
WornIsUnlocked ==
    \A r \in DOMAIN rooms : \A s \in Present(r) \cap live :
        LET item == rooms[r].players[s].item IN item = NoItem \/ Required[item] <= stars[Owner(s)]
=============================================================================
