------------------------------ MODULE CafeRoom ------------------------------
(***************************************************************************)
(* One room of the Aiko Cafe (apps/api/src/cafe.rs): its players, the      *)
(* rotating activity, the sockets that drive it, the detached timers that  *)
(* end a Cafe Rush or an intermission, and the reward transaction of       *)
(* store/cafe.rs.                                                          *)
(*                                                                         *)
(* Every CafeHub method holds the rooms mutex from its first read to its   *)
(* last write, so each is one action.  What is NOT atomic with them: the   *)
(* upgrade that authorises a socket, the reward transaction that a socket  *)
(* task awaits after completing a round, the revocation that follows an    *)
(* account deletion, and every timer.                                      *)
(*                                                                         *)
(* Positions are left out: whether a player stands close enough to a       *)
(* target is an input of the interaction, and an interaction from too far  *)
(* away, or one that only makes Aiko speak, changes nothing.  What the     *)
(* same handlers broadcast is modelled in CafeDelivery.                    *)
(***************************************************************************)
EXTENDS Integers, FiniteSets, FiniteSetsExt

CONSTANTS
    Players,     \* session ids; a player's id is its session id
    Conns,       \* sockets, each opened at most once
    None,        \* Option::None
    Capacity,    \* ROOM_CAPACITY
    TeaLeaves,   \* leaves of a Tea Delivery layout
    TableOrders, \* TABLE_SERVICE_ORDERS.len()
    RushMin,     \* least Cafe Rush target
    RushMax,     \* CAFE_RUSH_ORDERS.len()
    MaxRound,    \* bound on round_number
    Deletable,   \* players whose account may be deleted during the run
    DbMayFail    \* may the reward transaction fail for reasons of its own?

ASSUME CafeRoomAssumption ==
    /\ IsFiniteSet(Players) /\ IsFiniteSet(Conns)
    /\ None \notin Players \cup Conns /\ None \notin Nat \X Nat
    /\ {Capacity, TeaLeaves, TableOrders, RushMin, RushMax, MaxRound} \subseteq Nat \ {0}
    /\ RushMin <= RushMax
    /\ Deletable \subseteq Players
    /\ DbMayFail \in BOOLEAN

VARIABLES
    room,     \* the room's entry in CafeHub.rooms
    sock,     \* where each socket task is
    sess,     \* the session each socket was authorised for
    revoked,  \* sockets with an undelivered session revocation
    account,  \* auth_sessions rows: live, deleted, or deleted and announced
    timers,   \* detached sleeping tasks, by kind and round
    award,    \* the reward transaction each socket task is awaiting
    rewards,  \* cafe_room_rewards rows of this room
    stars     \* cafe_progress.cafe_stars

vars == <<room, sock, sess, revoked, account, timers, award, rewards, stars>>

Rounds == 1..MaxRound
TimerKinds == {"intermission", "rush", "rush_intermission"}

Kind(n) == CASE n % 3 = 1 -> "tea_delivery"
             [] n % 3 = 2 -> "table_service"
             [] OTHER     -> "cafe_rush"

(***************************************************************************)
(* CafeActivity::for_round                                                 *)
(***************************************************************************)
RushTarget(playerCount) ==
    IF playerCount + 2 < RushMin THEN RushMin
    ELSE IF playerCount + 2 > RushMax THEN RushMax ELSE playerCount + 2

NewActivity(n, target, leaves, orders, status) ==
    [round |-> n, phase |-> "active", delivered |-> 0, target |-> target,
     combo |-> 0, best |-> 0, window |-> FALSE, completed |-> FALSE,
     leaves |-> [i \in 1..leaves |-> TRUE],
     orders |-> [i \in 1..orders |-> [status |-> status, by |-> None]]]

ForRound(n, playerCount) ==
    CASE Kind(n) = "tea_delivery"  -> NewActivity(n, TeaLeaves, TeaLeaves, 0, "available")
      [] Kind(n) = "table_service" -> NewActivity(n, TableOrders, 0, TableOrders, "available")
      [] OTHER -> LET t == RushTarget(playerCount)
                  IN  NewActivity(n, t, t, t, "waiting")

(***************************************************************************)
(* Players                                                                 *)
(***************************************************************************)
EmptyHands == [tea |-> 0, rush |-> {}, order |-> None]
Absent == [conn |-> None, hands |-> EmptyHands]
Present(r) == {p \in Players : r.players[p].conn # None}

\* start_next_round and expire_cafe_rush empty everybody's hands.
HandsEmptied(players) == [p \in Players |-> [players[p] EXCEPT !.hands = EmptyHands]]

Init ==
    /\ room = [alive |-> TRUE, aged |-> FALSE, activity |-> ForRound(1, 0),
               players |-> [p \in Players |-> Absent]]
    /\ sock = [c \in Conns |-> "idle"]
    /\ sess = [c \in Conns |-> None]
    /\ revoked = {}
    /\ account = [p \in Players |-> "live"]
    /\ timers = [k \in TimerKinds |-> [n \in Rounds |-> 0]]
    /\ award = [c \in Conns |-> None]
    /\ rewards = {}
    /\ stars = [p \in Players |-> 0]

(***************************************************************************)
(* Sockets                                                                 *)
(***************************************************************************)
\* cafe_socket: the session was valid and its progress row was written.
Authorize(c, p) ==
    /\ sock[c] = "idle"
    /\ account[p] = "live"
    /\ sock' = [sock EXCEPT ![c] = "upgrading"]
    /\ sess' = [sess EXCEPT ![c] = p]
    /\ UNCHANGED <<room, revoked, account, timers, award, rewards, stars>>

\* CafeHub::join on the room: a player already there keeps what it carries.
JoinRoom(r, p, c) ==
    [r EXCEPT !.aged = FALSE, !.players[p].conn = c]

CanJoin(r, p) ==
    /\ r.alive
    /\ p \in Present(r) \/ Cardinality(Present(r)) < Capacity

\* handle_cafe_socket: subscribe to revocations, then join.
Join(c) ==
    /\ sock[c] = "upgrading"
    /\ \/ /\ CanJoin(room, sess[c])
          /\ sock' = [sock EXCEPT ![c] = "joined"]
          /\ room' = JoinRoom(room, sess[c], c)
       \/ /\ ~CanJoin(room, sess[c])
          /\ sock' = [sock EXCEPT ![c] = "closed"]
          /\ UNCHANGED room
    /\ UNCHANGED <<sess, revoked, account, timers, award, rewards, stars>>

\* Mutant: the departing player's order stays claimed.
MutReturned(a, p, hands) ==
    [a EXCEPT
       !.leaves = [i \in DOMAIN a.leaves |-> a.leaves[i] \/ <<a.round, i>> \in hands.rush]]

\* leave_for_connection: Rush ingredients and a claimed order go back to the room.
Returned(a, p, hands) ==
    [a EXCEPT
       !.leaves = [i \in DOMAIN a.leaves |-> a.leaves[i] \/ <<a.round, i>> \in hands.rush],
       !.orders = [i \in DOMAIN a.orders |->
                     IF hands.order = <<a.round, i>> /\ a.orders[i].by = p
                     THEN [status |-> "available", by |-> None] ELSE a.orders[i]]]

Depart(r, p) ==
    [r EXCEPT !.activity = Returned(r.activity, p, r.players[p].hands),
              !.players[p] = Absent,
              !.aged = FALSE]

LeaveForConnection(r, p, c) == IF r.players[p].conn = c THEN Depart(r, p) ELSE r

\* The socket loop ends: closed by the client, rate limited, lagged or revoked.
Leave(c) ==
    /\ sock[c] = "joined"
    /\ award[c] = None
    /\ room' = LeaveForConnection(room, sess[c], c)
    /\ sock' = [sock EXCEPT ![c] = "closed"]
    /\ revoked' = revoked \ {c}
    /\ UNCHANGED <<sess, account, timers, award, rewards, stars>>

(***************************************************************************)
(* Interactions                                                            *)
(***************************************************************************)
\* interact_for_connection reaches the activity only for the player's current
\* socket, in an active round, and while the task is not awaiting a reward.
CanInteract(c) ==
    /\ sock[c] = "joined"
    /\ award[c] = None
    /\ room.alive
    /\ room.players[sess[c]].conn = c
    /\ room.activity.phase = "active"

OrdersIn(a, status) == {i \in DOMAIN a.orders : a.orders[i].status = status}

\* completed_now, its intermission, and who is rewarded for it.
Delivered(a, n) ==
    LET d == Min({a.delivered + n, a.target})
        done == ~a.completed /\ d >= a.target
    IN  [a EXCEPT !.delivered = d,
                  !.completed = @ \/ done,
                  !.phase = IF done THEN "intermission" ELSE @,
                  !.window = IF done THEN FALSE ELSE @]

\* The socket task that completed the round spawns the intermission timer and
\* then awaits the reward transaction for everybody in the room.
AfterDelivery(c, a) ==
    LET n == a.round
        done == a.completed /\ ~room.activity.completed
    IN  IF done
        THEN /\ timers' = [timers EXCEPT !["intermission"][n] = @ + 1]
             /\ award' = [award EXCEPT ![c] = [round |-> n, owners |-> Present(room)]]
        ELSE UNCHANGED <<timers, award>>

Elsewhere == <<sock, sess, revoked, account, rewards, stars>>

WithLeaf(hands, n, i) ==
    [hands EXCEPT !.tea = @ + 1,
                  !.rush = IF Kind(n) = "cafe_rush" THEN @ \cup {<<n, i>>} ELSE @]

\* A leaf is picked up in Tea Delivery or Cafe Rush.
PickLeaf(c, i) ==
    LET p == sess[c]
        a == room.activity
    IN  /\ CanInteract(c)
        /\ Kind(a.round) # "table_service"
        /\ i \in DOMAIN a.leaves /\ a.leaves[i]
        /\ room' = [room EXCEPT !.activity.leaves[i] = FALSE,
                                !.players[p].hands = WithLeaf(@, a.round, i)]
        /\ UNCHANGED <<timers, award>>
        /\ UNCHANGED Elsewhere

\* Tea Delivery: everything in hand goes to Aiko.
GiveTea(c) ==
    LET p == sess[c]
        tea == room.players[p].hands.tea
        a == Delivered(room.activity, tea)
    IN  /\ CanInteract(c)
        /\ Kind(room.activity.round) = "tea_delivery"
        /\ tea > 0
        /\ room' = [room EXCEPT !.activity = a, !.players[p].hands.tea = 0]
        /\ AfterDelivery(c, a)
        /\ UNCHANGED Elsewhere

\* The first available order is claimed at the counter.
ClaimFirst(r, p) ==
    LET i == Min(OrdersIn(r.activity, "available"))
    IN  [r EXCEPT !.activity.orders[i] = [status |-> "claimed", by |-> p],
                  !.players[p].hands.order = <<r.activity.round, i>>]

TableCounter(c) ==
    /\ CanInteract(c)
    /\ Kind(room.activity.round) = "table_service"
    /\ room.players[sess[c]].hands.order = None
    /\ OrdersIn(room.activity, "available") # {}
    /\ room' = ClaimFirst(room, sess[c])
    /\ UNCHANGED <<timers, award>>
    /\ UNCHANGED Elsewhere

WithoutLeaf(hands, leaf) == [hands EXCEPT !.tea = Max({@ - 1, 0}), !.rush = @ \ {leaf}]

\* Which of the carried ingredients is used up is left open.
Prepare(r, p, leaf) ==
    LET i == Min(OrdersIn(r.activity, "waiting"))
    IN  [r EXCEPT !.activity.orders[i].status = "available",
                  !.players[p].hands = WithoutLeaf(@, leaf)]

\* Cafe Rush counter: prepare an order when possible, otherwise claim one.
RushCounter(c) ==
    LET p == sess[c]
        hands == room.players[p].hands
        prepares == hands.rush # {} /\ OrdersIn(room.activity, "waiting") # {}
    IN  /\ CanInteract(c)
        /\ Kind(room.activity.round) = "cafe_rush"
        /\ hands.order = None
        /\ \/ /\ prepares
              /\ \E leaf \in hands.rush : room' = Prepare(room, p, leaf)
           \/ /\ ~prepares
              /\ OrdersIn(room.activity, "available") # {}
              /\ room' = ClaimFirst(room, p)
        /\ UNCHANGED <<timers, award>>
        /\ UNCHANGED Elsewhere

\* The combo of serve_claimed_order; inWindow: combo_expires_at >= now.
Scored(a, inWindow) ==
    IF Kind(a.round) # "cafe_rush" THEN a
    ELSE LET combo == IF inWindow THEN a.combo + 1 ELSE 1
         IN  [a EXCEPT !.combo = combo, !.best = Max({@, combo}), !.window = TRUE]

Serve(c, i, inWindow) ==
    LET p == sess[c]
        served == [room.activity EXCEPT !.orders[i] = [status |-> "served", by |-> None]]
        a == Delivered(Scored(served, inWindow), 1)
    IN  /\ CanInteract(c)
        /\ i \in DOMAIN room.activity.orders
        /\ room.activity.orders[i] = [status |-> "claimed", by |-> p]
        /\ room.players[p].hands.order = <<room.activity.round, i>>
        /\ inWindow => room.activity.window
        /\ room' = [room EXCEPT !.activity = a, !.players[p].hands.order = None]
        /\ AfterDelivery(c, a)
        /\ UNCHANGED Elsewhere

(***************************************************************************)
(* Timers                                                                  *)
(***************************************************************************)
Advances(r, n) ==
    /\ r.alive
    /\ r.activity.round = n
    /\ r.activity.phase = "intermission"

\* The sleep of an intermission ends: start_next_round, which spawns the Rush timer.
StartNextRound(k, n) ==
    /\ k \in {"intermission", "rush_intermission"}
    /\ timers[k][n] > 0
    /\ n < MaxRound
    /\ IF Advances(room, n)
       THEN /\ room' = [room EXCEPT
                          !.activity = ForRound(n + 1, Cardinality(Present(room))),
                          !.players = HandsEmptied(room.players)]
            /\ timers' = [timers EXCEPT
                            ![k][n] = @ - 1,
                            !["rush"][n + 1] = IF Kind(n + 1) = "cafe_rush" THEN @ + 1 ELSE @]
       ELSE /\ timers' = [timers EXCEPT ![k][n] = @ - 1]
            /\ UNCHANGED room
    /\ UNCHANGED <<sock, sess, revoked, account, award, rewards, stars>>

\* Mutant: a Rush that was completed in time is expired as well.
MutExpires(r, n) == r.alive /\ r.activity.round = n

Expires(r, n) ==
    /\ r.alive
    /\ Kind(r.activity.round) = "cafe_rush"
    /\ r.activity.round = n
    /\ r.activity.phase = "active"
    /\ ~r.activity.completed

Expired(r) ==
    [r EXCEPT !.activity.phase = "intermission", !.activity.window = FALSE,
              !.players = HandsEmptied(r.players)]

\* Mutant: the task ends once it has expired the Rush.
MutRushTimeUp(n) ==
    /\ timers["rush"][n] > 0
    /\ room' = IF Expires(room, n) THEN Expired(room) ELSE room
    /\ timers' = [timers EXCEPT !["rush"][n] = @ - 1]
    /\ UNCHANGED <<sock, sess, revoked, account, award, rewards, stars>>

\* run_cafe_rush_timer: the Rush duration has passed.
RushTimeUp(n) ==
    /\ timers["rush"][n] > 0
    /\ IF Expires(room, n)
       THEN /\ room' = Expired(room)
            /\ timers' = [timers EXCEPT !["rush"][n] = @ - 1,
                                        !["rush_intermission"][n] = @ + 1]
       ELSE /\ timers' = [timers EXCEPT !["rush"][n] = @ - 1]
            /\ UNCHANGED room
    /\ UNCHANGED <<sock, sess, revoked, account, award, rewards, stars>>

(***************************************************************************)
(* Retention                                                               *)
(***************************************************************************)
\* The never-joined or empty-room time to live has passed.
EmptyRoomAges ==
    /\ room.alive /\ Present(room) = {} /\ ~room.aged
    /\ room' = [room EXCEPT !.aged = TRUE]
    /\ UNCHANGED <<sock, sess, revoked, account, timers, award, rewards, stars>>

\* cleanup_at, run by the periodic sweep.
CleanupExpired ==
    /\ room.alive /\ Present(room) = {} /\ room.aged
    /\ room' = [room EXCEPT !.alive = FALSE]
    /\ UNCHANGED <<sock, sess, revoked, account, timers, award, rewards, stars>>

(***************************************************************************)
(* Rewards and accounts                                                    *)
(***************************************************************************)
\* Mutant: the progress row is raised whether or not the reward row is new,
\* and for everybody who has a progress row.
MutAwardCommits(c) ==
    LET w == award[c]
    IN  /\ w # None
        /\ rewards' = rewards \cup {<<w.round, p>> : p \in w.owners}
        /\ stars' = [p \in Players |-> stars[p] + 1]
        /\ award' = [award EXCEPT ![c] = None]
        /\ UNCHANGED <<room, sock, sess, revoked, account, timers>>

\* award_cafe_round_completion: one transaction for every owner; each row
\* references auth_sessions, so an owner whose session is gone aborts it.
AwardCommits(c) ==
    LET w == award[c]
        new == {p \in w.owners : <<w.round, p>> \notin rewards}
    IN  /\ w # None
        /\ \A p \in w.owners : account[p] = "live"
        /\ rewards' = rewards \cup {<<w.round, p>> : p \in new}
        /\ stars' = [p \in Players |-> stars[p] + IF p \in new THEN 1 ELSE 0]
        /\ award' = [award EXCEPT ![c] = None]
        /\ UNCHANGED <<room, sock, sess, revoked, account, timers>>

\* The transaction fails: it is logged and the star is lost.
AwardFails(c) ==
    /\ award[c] # None
    /\ DbMayFail \/ \E p \in award[c].owners : account[p] # "live"
    /\ award' = [award EXCEPT ![c] = None]
    /\ UNCHANGED <<room, sock, sess, revoked, account, timers, rewards, stars>>

\* delete_registered_account commits: session, progress and rewards are gone.
DeleteAccount(p) ==
    /\ p \in Deletable
    /\ account[p] = "live"
    /\ account' = [account EXCEPT ![p] = "deleted"]
    /\ rewards' = {r \in rewards : r[2] # p}
    /\ stars' = [stars EXCEPT ![p] = 0]
    /\ UNCHANGED <<room, sock, sess, revoked, timers, award>>

\* disconnect_sessions: every socket subscribed at that moment is told.
DisconnectSessions(p) ==
    /\ account[p] = "deleted"
    /\ account' = [account EXCEPT ![p] = "announced"]
    /\ revoked' = revoked \cup {c \in Conns : sock[c] = "joined" /\ sess[c] = p}
    /\ UNCHANGED <<room, sock, sess, timers, award, rewards, stars>>

SocketStep(c) ==
    \/ Join(c)
    \/ Leave(c)
    \/ \E i \in 1..(TeaLeaves + RushMax) : PickLeaf(c, i)
    \/ GiveTea(c)
    \/ TableCounter(c)
    \/ RushCounter(c)
    \/ \E i \in 1..(TableOrders + RushMax), w \in BOOLEAN : Serve(c, i, w)

Next ==
    \/ \E c \in Conns, p \in Players : Authorize(c, p)
    \/ \E c \in Conns : SocketStep(c) \/ AwardCommits(c) \/ AwardFails(c)
    \/ \E k \in TimerKinds, n \in Rounds : StartNextRound(k, n)
    \/ \E n \in Rounds : RushTimeUp(n)
    \/ EmptyRoomAges
    \/ CleanupExpired
    \/ \E p \in Players : DeleteAccount(p) \/ DisconnectSessions(p)

(***************************************************************************)
(* A tokio sleep ends and its task runs: timers are weakly fair.  Players, *)
(* the database and the sweep promise nothing.                             *)
(***************************************************************************)
TimerFairness ==
    /\ \A k \in TimerKinds, n \in Rounds : WF_vars(StartNextRound(k, n))
    /\ \A n \in Rounds : WF_vars(RushTimeUp(n))

Spec == Init /\ [][Next]_vars
FairSpec == Spec /\ TimerFairness
-----------------------------------------------------------------------------
InHand(p) == room.players[p].hands
FreeLeaves(a) == {i \in DOMAIN a.leaves : a.leaves[i]}

\* An order of the running round is claimed by a player exactly when that player
\* carries it, through claims, deliveries, departures and reconnections: no order
\* is lost to the round and no drink is carried twice.
OrdersMatchHands ==
    room.activity.phase = "active" =>
        \A i \in DOMAIN room.activity.orders, p \in Players :
            (room.activity.orders[i] = [status |-> "claimed", by |-> p])
                <=> (InHand(p).order = <<room.activity.round, i>>)

\* Cafe Rush neither loses nor duplicates ingredients: what lies in the room plus
\* what the players carry is exactly what the unprepared orders still need.
RushConserved ==
    LET a == room.activity
        held == UNION {InHand(p).rush : p \in Players}
    IN  (a.phase = "active" /\ Kind(a.round) = "cafe_rush") =>
          /\ \A p \in Players : InHand(p).tea = Cardinality(InHand(p).rush)
          /\ \A p, q \in Players : p # q => InHand(p).rush \cap InHand(q).rush = {}
          /\ \A i \in FreeLeaves(a) : <<a.round, i>> \notin held
          /\ Cardinality(FreeLeaves(a)) + Cardinality(held)
                = Cardinality(OrdersIn(a, "waiting"))

\* Departures, reconnections and the deadline lose and duplicate nothing that the
\* running round needs: drinks and ingredients lie in the room or in one hand.
RoundConserved == OrdersMatchHands /\ RushConserved

\* Exactly one detached task will end the current phase: an intermission has one
\* pending start_next_round, a running Rush has its deadline, and no other round
\* has a pending intermission.  Two would skip a round, none would freeze the room.
OnePendingTransition ==
    LET n == room.activity.round
        ending(m) == timers["intermission"][m] + timers["rush_intermission"][m]
    IN  room.alive =>
          /\ ending(n) = IF room.activity.phase = "intermission" THEN 1 ELSE 0
          /\ \A m \in Rounds \ {n} : ending(m) = 0
          /\ (room.activity.phase = "active" /\ Kind(n) = "cafe_rush") => timers["rush"][n] = 1
          /\ \A m \in Rounds : m > n => timers["rush"][m] = 0

\* A deleted account gets nothing back from a reward that was in flight.
DeletionIsFinal ==
    \A p \in Players : account[p] # "live" => /\ stars[p] = 0
                                              /\ \A n \in Rounds : <<n, p>> \notin rewards

\* A Cafe Rush ends and makes way for the next round, whether or not it is
\* completed and whoever leaves, unless the empty room is swept away first.
RushMakesWay ==
    \A n \in {m \in Rounds : Kind(m) = "cafe_rush" /\ m < MaxRound} :
        (room.activity.round = n) ~> (room.activity.round > n \/ ~room.alive)
====
