--------------------------- MODULE CafeHubProofs ----------------------------
(***************************************************************************)
(* Proofs about the hub of the cafe.                                       *)
(*                                                                         *)
(* CafeHub, for any numbers of sessions, addresses, sockets and requests,  *)
(* any limits and time-outs, and any length of the queues of revocations.  *)
(*                                                                         *)
(* CafeDelivery, for any numbers of players and sockets, any capacity of   *)
(* the channel and any length of the history.                              *)
(***************************************************************************)
EXTENDS CafeHub, CafeDelivery, FiniteSetTheorems, SequenceTheorems, TLAPS

AnyItem == Items \cup {NoItem}
AnySession == Sessions \cup {NoSession}

SocketRecord ==
    [pc : {"closed", "reserved", "upgrading", "subscribed", "joined", "leaving"},
     session : AnySession, room : Nat, item : AnyItem,
     queue : Seq(Sessions), lagged : BOOLEAN, late : BOOLEAN]

HandlerRecord == [pc : {"idle", "consume", "create"}, session : AnySession,
                  private : BOOLEAN, quick : BOOLEAN]

PlayerRecord == [conn : Conns, item : AnyItem]
PlayerMaps == UNION {[S -> PlayerRecord] : S \in SUBSET Sessions}

\* Nothing here depends on what a code looks like.
RoomRecord(Codes) ==
    [code : Codes, private : BOOLEAN, players : PlayerMaps, created : Int, ever : BOOLEAN,
     emptySince : Int, quick : BOOLEAN]

Creation == [by : Sessions, at : Int]

EquipRecord == [pc : {"idle", "write", "read", "apply"}, session : AnySession, item : AnyItem]

SockType ==
    /\ bySession \in [Sessions -> Nat] /\ byIp \in [Ips -> Nat] /\ active \in Nat
    /\ sock \in [Conns -> SocketRecord]
RoomType ==
    /\ \E Codes : rooms \in [DOMAIN rooms -> RoomRecord(Codes)]
    /\ made \in Seq(Creation)
    /\ handler \in [Handlers -> HandlerRecord]
    /\ now \in Int
OwnerType ==
    /\ live \in SUBSET Sessions /\ toTell \in SUBSET Account
    /\ stars \in [Owners -> Nat] /\ loadout \in [Owners -> AnyItem]
    /\ equip \in EquipRecord

TypeOK == SockType /\ RoomType /\ OwnerType

\* The sockets: counted, reachable, and dressed in what is unlocked.
SockInv ==
    /\ SockType
    /\ \A c \in Conns : Holds(c) => sock[c].session \in Sessions
    /\ SocketsCounted
    /\ RevocationReaches
    /\ \A c \in Conns : sock[c].session \in live => Unlocked(Owner(sock[c].session), sock[c].item)

\* Rooms of quick joins that wait for their first player.
Waiting == {r \in DOMAIN rooms : rooms[r].quick /\ ~rooms[r].ever}

\* The gate lets one request at a time through, and a quick join only while no room waits.
QuickInv ==
    /\ \A h, g \in Handlers : handler[h].pc # "idle" /\ handler[g].pc # "idle" => h = g
    /\ \A h \in Handlers : handler[h].quick => ~handler[h].private
    /\ \A h \in Handlers : handler[h].pc # "idle" /\ handler[h].quick => Waiting = {}
    /\ \A r \in DOMAIN rooms : /\ rooms[r].quick => ~rooms[r].private
                               /\ ~rooms[r].ever => Present(r) = {}
    /\ \A r, q \in Waiting : r = q

RoomInv ==
    /\ RoomType
    /\ \A h \in Handlers : handler[h].pc # "idle" => handler[h].session \in Sessions
    /\ QuickInv
    /\ WornIsUnlocked

\* The account's sessions are deleted together; what is about to be worn is unlocked.
OwnerInv ==
    /\ OwnerType
    /\ Account \subseteq live \/ Account \cap live = {}
    /\ equip.pc # "idle" => equip.session \in Sessions
    /\ equip.pc = "apply" /\ equip.session \in live => Unlocked(Owner(equip.session), equip.item)

HubInv == SockInv /\ RoomInv /\ OwnerInv

-----------------------------------------------------------------------------
(* Owners. *)

\* A session belongs to its owner, and only the sessions of the account share one.
LEMMA OwnerFacts ==
    /\ \A s \in Sessions : s \in Owner(s) /\ Owner(s) \in Owners
    /\ \A s, t \in Sessions : Owner(s) = Owner(t) => s = t \/ {s, t} \subseteq Account
    /\ \A s \in Guests : Owner(s) # Account
<1> QED
  BY CafeHubAssumption DEF CafeHubAssumption, Owner, Owners, Sessions

\* Deleting the account closes nothing but the account's own sessions.
LEMMA SameOwnerLive ==
    ASSUME OwnerInv, NEW s \in Sessions, NEW t \in live, Owner(s) = Owner(t)
    PROVE  s \in live
<1> QED
  BY OwnerFacts DEF OwnerInv, OwnerType

-----------------------------------------------------------------------------
(* Frames: what each part of the invariant reads. *)

\* What sockets have to satisfy depends on sessions, counters, sockets and stars only.
LEMMA SockFrame ==
    ASSUME SockInv, UNCHANGED <<live, toTell, countVars, sock, stars>>
    PROVE  SockInv'
<1> QED
  BY DEF SockInv, SockType, SocketsCounted, Held, Holds, RevocationReaches, Unlocked, countVars

\* What rooms have to satisfy depends on sessions, rooms, handlers, stars and time only.
LEMMA RoomFrame ==
    ASSUME RoomInv, UNCHANGED <<live, rooms, made, handler, stars, now>>
    PROVE  RoomInv'
<1> QED
  BY DEF RoomInv, RoomType, QuickInv, Waiting, WornIsUnlocked, Present

\* What owners have to satisfy depends on sessions and on stars and loadouts only.
LEMMA OwnerFrame ==
    ASSUME OwnerInv, UNCHANGED <<live, toTell, wornVars>>
    PROVE  OwnerInv'
<1> QED
  BY DEF OwnerInv, OwnerType, Unlocked, wornVars

-----------------------------------------------------------------------------
(* Sockets. *)

\* A connection without a socket is of the type of sockets.
LEMMA NoSocketTyped == NoSocket \in SocketRecord
<1>1. <<>> \in Seq(Sessions)
  OBVIOUS
<1> QED
  BY <1>1 DEF NoSocket, SocketRecord, AnySession, AnyItem

\* A listening socket of a deleted session will hear of it.
Reached(x) ==
    x.pc \in {"subscribed", "joined"} /\ x.session \notin live \cup toTell /\ ~x.late =>
        x.lagged \/ \E k \in DOMAIN x.queue : x.queue[k] = x.session

\* The counters stay right when no socket opens, closes or changes its session.
LEMMA SameSockets ==
    ASSUME SockInv, UNCHANGED countVars,
           \A c \in Conns : /\ sock'[c].pc = "closed" <=> sock[c].pc = "closed"
                            /\ sock'[c].session = sock[c].session
    PROVE  SocketsCounted'
<1>1. Held' = Held
  BY DEF Held, Holds
<1>2. /\ \A s \in Sessions : {c \in Held : sock'[c].session = s} = {c \in Held : sock[c].session = s}
      /\ \A i \in Ips : {c \in Held : IpOf[sock'[c].session] = i} = {c \in Held : IpOf[sock[c].session] = i}
  BY DEF Held
<1> QED
  BY <1>1, <1>2 DEF SockInv, SocketsCounted, countVars

\* A socket that stays open and with its session keeps the socket counts.
LEMMA SocketMoves ==
    ASSUME SockInv, NEW c \in Conns, NEW new \in SocketRecord, sock' = [sock EXCEPT ![c] = new],
           sock[c].pc # "closed", new.pc # "closed", new.session = sock[c].session,
           new.session \in live => Unlocked(Owner(new.session), new.item), Reached(new),
           UNCHANGED <<live, toTell, countVars, stars>>
    PROVE  SockInv'
<1>1. sock' \in [Conns -> SocketRecord]
  BY DEF SockInv, SockType
<1>2. \A d \in Conns : sock'[d] = IF d = c THEN new ELSE sock[d]
  BY DEF SockInv, SockType
<1>3. SocketsCounted'
  BY <1>2, SameSockets
<1>4. RevocationReaches'
  BY <1>2 DEF SockInv, RevocationReaches, Reached
<1>5. \A d \in Conns : (Holds(d) => sock[d].session \in Sessions)'
  BY <1>2 DEF SockInv, Holds
<1>6. \A d \in Conns : (sock[d].session \in live => Unlocked(Owner(sock[d].session), sock[d].item))'
  BY <1>2 DEF SockInv, Unlocked
<1> QED
  BY <1>1, <1>3, <1>4, <1>5, <1>6 DEF SockInv, SockType, countVars

\* release_socket gives back one of each counter.
LEMMA ReleaseCounts ==
    ASSUME SockInv, NEW c \in Conns, sock[c].pc # "closed", Release(c), UNCHANGED <<live, toTell, stars>>
    PROVE  SockInv'
<1> DEFINE s == sock[c].session
<1>1. s \in Sessions /\ IpOf[s] \in Ips /\ c \in Held /\ IsFiniteSet(Held)
  <2>1. IsFiniteSet(Held)
    BY CafeHubAssumption, FS_Subset DEF CafeHubAssumption, Held
  <2> QED
    BY <2>1, CafeHubAssumption DEF SockInv, Holds, Held, CafeHubAssumption
<1>2. \A d \in Conns : sock'[d] = IF d = c THEN NoSocket ELSE sock[d]
  BY DEF SockInv, SockType, Release
<1>3. NoSocket.pc = "closed" /\ NoSocket.session = NoSession /\ NoSession \notin Sessions
  BY CafeHubAssumption DEF NoSocket, CafeHubAssumption
<1>4. Held' = Held \ {c}
  BY <1>2, <1>3 DEF Held, Holds
<1>5. ASSUME NEW S, S \in SUBSET Held
      PROVE  /\ IsFiniteSet(S) /\ Cardinality(S) \in Nat
             /\ c \in S => Cardinality(S \ {c}) = Less(Cardinality(S))
             /\ c \notin S => Cardinality(S \ {c}) = Cardinality(S)
  <2>1. IsFiniteSet(S) /\ Cardinality(S) \in Nat
    BY <1>1, <1>5, FS_Subset, FS_CardinalityType
  <2>2. CASE c \in S
    <3>1. Cardinality(S \ {c}) = Cardinality(S) - 1 /\ Cardinality(S \ {c}) \in Nat
      BY <2>1, <2>2, FS_RemoveElement, FS_CardinalityType
    <3> QED
      BY <2>1, <2>2, <3>1 DEF Less
  <2>3. CASE c \notin S
    <3>1. S \ {c} = S
      BY <2>3
    <3> QED
      BY <2>1, <2>3, <3>1
  <2> QED
    BY <2>2, <2>3, <2>1
<1>6. ASSUME NEW t \in Sessions PROVE bySession'[t] = Cardinality({d \in Held' : sock'[d].session = t})
  <2> DEFINE S == {d \in Held : sock[d].session = t}
  <2>1. {d \in Held' : sock'[d].session = t} = S \ {c}
    BY <1>2, <1>4 DEF Held
  <2>2. S \in SUBSET Held /\ (c \in S <=> t = s) /\ bySession[t] = Cardinality(S)
    BY <1>1 DEF SockInv, SocketsCounted
  <2>3. bySession'[t] = IF t = s THEN Less(bySession[t]) ELSE bySession[t]
    BY <1>1 DEF Release, DecrementCounter, SockInv, SockType
  <2> HIDE DEF S, s
  <2> QED
    BY <1>5, <2>1, <2>2, <2>3
<1>7. ASSUME NEW i \in Ips PROVE byIp'[i] = Cardinality({d \in Held' : IpOf[sock'[d].session] = i})
  <2> DEFINE S == {d \in Held : IpOf[sock[d].session] = i}
  <2>1. {d \in Held' : IpOf[sock'[d].session] = i} = S \ {c}
    BY <1>2, <1>4 DEF Held
  <2>2. S \in SUBSET Held /\ (c \in S <=> i = IpOf[s]) /\ byIp[i] = Cardinality(S)
    BY <1>1 DEF SockInv, SocketsCounted
  <2>3. byIp'[i] = IF i = IpOf[s] THEN Less(byIp[i]) ELSE byIp[i]
    BY <1>1 DEF Release, DecrementCounter, SockInv, SockType
  <2> HIDE DEF S, s
  <2> QED
    BY <1>5, <2>1, <2>2, <2>3
<1>8. active' = Cardinality(Held')
  <2>1. active' = Less(active) /\ active = Cardinality(Held)
    BY DEF Release, SockInv, SocketsCounted
  <2>2. Cardinality(Held \ {c}) = Less(Cardinality(Held))
    BY <1>1, <1>5
  <2> QED
    BY <1>4, <2>1, <2>2
<1>9. SocketsCounted'
  BY <1>6, <1>7, <1>8 DEF SocketsCounted
<1>10. SockType'
  <2>1. \A n \in Nat : Less(n) \in Nat
    BY DEF Less
  <2> QED
    BY <1>1, <2>1, NoSocketTyped DEF SockInv, SockType, Release, DecrementCounter
<1>11. RevocationReaches'
  BY <1>2, <1>3 DEF SockInv, RevocationReaches
<1>12. \A d \in Conns : (Holds(d) => sock[d].session \in Sessions)'
  BY <1>2, <1>3 DEF SockInv, Holds
<1>13. \A d \in Conns : (sock[d].session \in live => Unlocked(Owner(sock[d].session), sock[d].item))'
  <2>1. Unlocked(Owner(NoSocket.session), NoSocket.item)'
    BY DEF Unlocked, NoSocket
  <2> QED
    BY <1>2, <1>3, <2>1 DEF SockInv, Unlocked
<1> QED
  BY <1>9, <1>10, <1>11, <1>12, <1>13 DEF SockInv

\* reserve_socket takes one of each.
LEMMA ReserveCounts ==
    ASSUME SockInv, OwnerInv, NEW c \in Conns, NEW s \in Sessions, ReserveSocket(c, s)
    PROVE  SockInv'
<1> DEFINE new == [NoSocket EXCEPT !.pc = "reserved", !.session = s]
<1>0. UNCHANGED <<live, toTell, stars>>
  BY DEF ReserveSocket, wornVars
<1>1. IpOf[s] \in Ips /\ c \notin Held /\ IsFiniteSet(Held)
  <2>1. IsFiniteSet(Held)
    BY CafeHubAssumption, FS_Subset DEF CafeHubAssumption, Held
  <2> QED
    BY <2>1, CafeHubAssumption DEF SockInv, ReserveSocket, Holds, Held, CafeHubAssumption
<1>2. /\ sock' = [sock EXCEPT ![c] = new] /\ new \in SocketRecord
      /\ new.pc = "reserved" /\ new.session = s /\ new.item = NoItem
  <2>1. <<>> \in Seq(Sessions)
    OBVIOUS
  <2> QED
    BY <2>1 DEF ReserveSocket, NoSocket, SocketRecord, AnySession, AnyItem
<1> HIDE DEF new
<1>3. \A d \in Conns : sock'[d] = IF d = c THEN new ELSE sock[d]
  BY <1>2 DEF SockInv, SockType
<1>4. Held' = Held \cup {c}
  BY <1>2, <1>3 DEF Held, Holds
<1>5. ASSUME NEW S, S \in SUBSET Held
      PROVE  Cardinality(S) \in Nat /\ Cardinality(S \cup {c}) = Cardinality(S) + 1
  <2>1. IsFiniteSet(S) /\ c \notin S
    BY <1>1, <1>5, FS_Subset
  <2> QED
    BY <2>1, FS_AddElement, FS_CardinalityType
<1>6. ASSUME NEW t \in Sessions PROVE bySession'[t] = Cardinality({d \in Held' : sock'[d].session = t})
  <2> DEFINE S == {d \in Held : sock[d].session = t}
  <2>1. {d \in Held' : sock'[d].session = t} = IF t = s THEN S \cup {c} ELSE S
    BY <1>1, <1>2, <1>3, <1>4 DEF Held
  <2>2. S \in SUBSET Held /\ bySession[t] = Cardinality(S)
    BY DEF SockInv, SocketsCounted
  <2>3. bySession'[t] = IF t = s THEN bySession[t] + 1 ELSE bySession[t]
    BY DEF ReserveSocket, SockInv, SockType
  <2> HIDE DEF S
  <2> QED
    BY <1>5, <2>1, <2>2, <2>3
<1>7. ASSUME NEW i \in Ips PROVE byIp'[i] = Cardinality({d \in Held' : IpOf[sock'[d].session] = i})
  <2> DEFINE S == {d \in Held : IpOf[sock[d].session] = i}
  <2>1. {d \in Held' : IpOf[sock'[d].session] = i} = IF i = IpOf[s] THEN S \cup {c} ELSE S
    BY <1>1, <1>2, <1>3, <1>4 DEF Held
  <2>2. S \in SUBSET Held /\ byIp[i] = Cardinality(S)
    BY DEF SockInv, SocketsCounted
  <2>3. byIp'[i] = IF i = IpOf[s] THEN byIp[i] + 1 ELSE byIp[i]
    BY <1>1 DEF ReserveSocket, SockInv, SockType
  <2> HIDE DEF S
  <2> QED
    BY <1>5, <2>1, <2>2, <2>3
<1>8. active' = Cardinality(Held')
  <2>1. active' = active + 1 /\ active = Cardinality(Held)
    BY DEF ReserveSocket, SockInv, SocketsCounted
  <2> QED
    BY <1>4, <1>5, <2>1
<1>9. SocketsCounted'
  BY <1>6, <1>7, <1>8 DEF SocketsCounted
<1>10. SockType'
  BY <1>1, <1>2 DEF SockInv, SockType, ReserveSocket
<1>11. RevocationReaches'
  BY <1>0, <1>2, <1>3 DEF SockInv, RevocationReaches
<1>12. \A d \in Conns : (Holds(d) => sock[d].session \in Sessions)'
  BY <1>2, <1>3 DEF SockInv, Holds
<1>13. \A d \in Conns : (sock[d].session \in live => Unlocked(Owner(sock[d].session), sock[d].item))'
  BY <1>0, <1>2, <1>3 DEF SockInv, Unlocked
<1> QED
  BY <1>9, <1>10, <1>11, <1>12, <1>13 DEF SockInv

\* What get_cafe_progress shows as equipped is unlocked.
LEMMA EquippedUnlocked ==
    ASSUME OwnerInv, NEW o \in Owners
    PROVE  EquippedOf(o) \in AnyItem /\ Unlocked(o, EquippedOf(o))
<1> QED
  BY DEF EquippedOf, Unlocked, OwnerInv, OwnerType, AnyItem

\* Reading progress, giving up and subscribing keep what sockets satisfy.
LEMMA UpgradeSteps ==
    ASSUME SockInv, OwnerInv, NEW c \in Conns, ReadProgress(c) \/ AbandonUpgrade(c) \/ Subscribe(c)
    PROVE  SockInv'
<1>0. UNCHANGED <<live, toTell, stars>> /\ sock[c] \in SocketRecord /\ sock[c].pc # "closed"
      /\ sock[c].session \in Sessions
  BY DEF ReadProgress, AbandonUpgrade, Subscribe, wornVars, SockInv, SockType, Holds
<1>1. CASE Release(c)
  BY <1>0, <1>1, ReleaseCounts
<1>2. CASE ReadProgress(c) /\ ~Release(c)
  <2> DEFINE item == EquippedOf(Owner(sock[c].session))
             new == [sock[c] EXCEPT !.pc = "upgrading", !.item = item]
  <2>1. /\ sock' = [sock EXCEPT ![c] = new] /\ UNCHANGED countVars
    BY <1>0, <1>2 DEF ReadProgress, SocketRecord
  <2>2. item \in AnyItem /\ Unlocked(Owner(sock[c].session), item)
    BY <1>0, OwnerFacts, EquippedUnlocked
  <2> HIDE DEF item
  <2>3. new \in SocketRecord /\ new.pc = "upgrading" /\ new.session = sock[c].session /\ new.item = item
    BY <1>0, <2>2 DEF SocketRecord
  <2> HIDE DEF new
  <2>4. Reached(new)
    BY <2>3 DEF Reached
  <2> QED
    BY <1>0, <2>1, <2>2, <2>3, <2>4, SocketMoves
<1>3. CASE Subscribe(c)
  <2> DEFINE late == sock[c].session \notin live \cup toTell
             new == [sock[c] EXCEPT !.pc = "subscribed", !.late = late]
  <2>1. /\ sock' = [sock EXCEPT ![c] = new] /\ UNCHANGED countVars /\ late \in BOOLEAN
    BY <1>0, <1>3 DEF Subscribe, SocketRecord
  <2>2. ~late => sock[c].session \in live \cup toTell
    OBVIOUS
  <2> HIDE DEF late
  <2>3. /\ new \in SocketRecord /\ new.pc = "subscribed" /\ new.session = sock[c].session
        /\ new.item = sock[c].item /\ new.late = late
    BY <1>0, <2>1 DEF SocketRecord
  <2> HIDE DEF new
  <2>4. Reached(new)
    BY <2>2, <2>3 DEF Reached
  <2>5. new.session \in live => Unlocked(Owner(new.session), new.item)
    BY <2>3 DEF SockInv
  <2> QED
    BY <1>0, <2>1, <2>3, <2>4, <2>5, SocketMoves
<1> QED
  BY <1>1, <1>2, <1>3 DEF AbandonUpgrade

\* Notices of the deletion of other sessions may be skipped, the socket's own is not.
LEMMA ListenSteps ==
    ASSUME SockInv, OwnerInv, NEW c \in Conns, ReceiveRevocation(c) \/ Disconnect(c)
    PROVE  SockInv'
<1>0. /\ UNCHANGED <<live, toTell, countVars, stars>> /\ sock[c] \in SocketRecord /\ sock[c].pc = "joined"
      /\ sock[c].session \in Sessions /\ Reached(sock[c])
  BY DEF ReceiveRevocation, Disconnect, wornVars, SockInv, SockType, Holds, RevocationReaches, Reached
<1>1. sock[c].session \in live => Unlocked(Owner(sock[c].session), sock[c].item)
  BY DEF SockInv
<1>2. CASE sock' = [sock EXCEPT ![c].pc = "leaving"]
  <2> DEFINE new == [sock[c] EXCEPT !.pc = "leaving"]
  <2>1. sock' = [sock EXCEPT ![c] = new]
    BY <1>2
  <2>2. /\ new \in SocketRecord /\ new.pc = "leaving" /\ new.session = sock[c].session
        /\ new.item = sock[c].item
    BY <1>0 DEF SocketRecord
  <2> HIDE DEF new
  <2>3. Reached(new)
    BY <2>2 DEF Reached
  <2> QED
    BY <1>0, <1>1, <2>1, <2>2, <2>3, SocketMoves
<1>3. CASE sock[c].lagged /\ Lagged(c)
  <2> DEFINE pc == IF sock[c].session \in live THEN "joined" ELSE "leaving"
             new == [sock[c] EXCEPT !.lagged = FALSE, !.pc = pc]
  <2>1. sock' = [sock EXCEPT ![c] = new]
    BY <1>0, <1>3 DEF Lagged, SocketRecord, SockInv, SockType
  <2>2. /\ new \in SocketRecord /\ new.session = sock[c].session /\ new.item = sock[c].item
        /\ new.pc = pc
    BY <1>0 DEF SocketRecord
  <2> HIDE DEF new
  <2>3. Reached(new)
    BY <2>2 DEF Reached
  <2>4. new.pc # "closed"
    BY <2>2
  <2> QED
    BY <1>0, <1>1, <2>1, <2>2, <2>3, <2>4, SocketMoves
<1>4. CASE /\ ~sock[c].lagged /\ sock[c].queue # <<>>
           /\ sock' = [sock EXCEPT ![c].queue = Tail(@),
                                   ![c].pc = IF Head(sock[c].queue) = sock[c].session THEN "leaving" ELSE @]
  <2> DEFINE unread == Tail(sock[c].queue)
             pc == IF Head(sock[c].queue) = sock[c].session THEN "leaving" ELSE "joined"
             new == [sock[c] EXCEPT !.queue = unread, !.pc = pc]
  <2>1. sock' = [sock EXCEPT ![c] = new]
    BY <1>0, <1>4 DEF SocketRecord, SockInv, SockType
  <2>2. unread \in Seq(Sessions) /\ pc \in {"leaving", "joined"}
    BY <1>0, <1>4, HeadTailProperties DEF SocketRecord
  <2>3. ASSUME Head(sock[c].queue) # sock[c].session,
               NEW k \in DOMAIN sock[c].queue, sock[c].queue[k] = sock[c].session
        PROVE  \E j \in DOMAIN unread : unread[j] = sock[c].session
    <3>1. sock[c].queue \in Seq(Sessions) /\ k \in 1..Len(sock[c].queue)
      BY <1>0, LenProperties DEF SocketRecord
    <3>2. k # 1 /\ Head(sock[c].queue) = sock[c].queue[1]
      BY <1>4, <2>3, <3>1, HeadTailProperties
    <3>3. k - 1 \in 1..Len(unread) /\ unread[k - 1] = sock[c].queue[k]
      BY <1>4, <3>1, <3>2, HeadTailProperties
    <3>4. DOMAIN unread = 1..Len(unread)
      BY <2>2, LenProperties
    <3> QED
      BY <2>3, <3>3, <3>4
  <2>4. pc = "joined" => Head(sock[c].queue) # sock[c].session
    OBVIOUS
  <2> HIDE DEF unread, pc
  <2>5. /\ new \in SocketRecord /\ new.session = sock[c].session /\ new.item = sock[c].item
        /\ new.pc = pc /\ new.queue = unread /\ new.late = sock[c].late
    BY <1>0, <2>2 DEF SocketRecord
  <2> HIDE DEF new
  <2>6. Reached(new)
    BY <1>0, <1>4, <2>2, <2>3, <2>4, <2>5 DEF Reached
  <2>7. new.pc # "closed"
    BY <2>2, <2>5
  <2> QED
    BY <1>0, <1>1, <2>1, <2>5, <2>6, <2>7, SocketMoves
<1> QED
  BY <1>2, <1>3, <1>4 DEF ReceiveRevocation, Disconnect

\* A notice reaches every listening socket, or the socket knows that it missed some.
LEMMA ToldSocket ==
    ASSUME SockInv, NEW c \in Conns, NEW s \in Sessions
    PROVE  /\ Told(c, s) \in SocketRecord
           /\ Told(c, s).pc = sock[c].pc /\ Told(c, s).session = sock[c].session
           /\ Told(c, s).item = sock[c].item /\ Told(c, s).late = sock[c].late
           /\ sock[c].lagged => Told(c, s).lagged
           /\ Subscribed(c) => Told(c, s).lagged \/ \E k \in DOMAIN Told(c, s).queue : Told(c, s).queue[k] = s
           /\ \A t : (\E k \in DOMAIN sock[c].queue : sock[c].queue[k] = t) =>
                Told(c, s).lagged \/ \E k \in DOMAIN Told(c, s).queue : Told(c, s).queue[k] = t
<1> DEFINE q == sock[c].queue
<1>1. sock[c] \in SocketRecord /\ q \in Seq(Sessions) /\ NoticeCap \in Nat \ {0}
  BY CafeHubAssumption DEF SockInv, SockType, SocketRecord, CafeHubAssumption
<1>2. CASE ~Subscribed(c)
  <2>1. Told(c, s) = sock[c]
    BY <1>2 DEF Told
  <2> QED
    BY <1>1, <1>2, <2>1
<1>3. CASE Subscribed(c) /\ Len(q) < NoticeCap
  <2> DEFINE new == Append(q, s)
  <2>1. Told(c, s) = [sock[c] EXCEPT !.queue = new]
    BY <1>3 DEF Told
  <2>2. /\ new \in Seq(Sessions) /\ DOMAIN new = 1..Len(q) + 1 /\ DOMAIN q = 1..Len(q) /\ Len(q) \in Nat
        /\ \A k \in 1..Len(q) : new[k] = q[k]
        /\ new[Len(q) + 1] = s
    BY <1>1, AppendProperties, LenProperties
  <2>3. \A t : (\E k \in DOMAIN q : q[k] = t) => \E k \in DOMAIN new : new[k] = t
    BY <2>2
  <2>4. \E k \in DOMAIN new : new[k] = s
    BY <2>2
  <2> HIDE DEF new, q
  <2>5. sock[c].queue = q
    BY DEF q
  <2> QED
    BY <1>1, <2>1, <2>2, <2>3, <2>4, <2>5 DEF SocketRecord
<1>4. CASE Subscribed(c) /\ ~(Len(q) < NoticeCap)
  <2> DEFINE new == Append(Tail(q), s)
  <2>1. Told(c, s) = [sock[c] EXCEPT !.queue = new, !.lagged = TRUE]
    BY <1>4 DEF Told
  <2>2. new \in Seq(Sessions)
    <3>1. q # <<>>
      BY <1>1, <1>4, LenProperties
    <3>2. Tail(q) \in Seq(Sessions)
      BY <1>1, <3>1, HeadTailProperties
    <3> QED
      BY <3>2, AppendProperties
  <2> HIDE DEF new, q
  <2> QED
    BY <1>1, <2>1, <2>2 DEF SocketRecord
<1> QED
  BY <1>2, <1>3, <1>4

\* Telling a revoked session's sockets keeps what sockets and owners satisfy.
LEMMA DisconnectSessionStep ==
    ASSUME SockInv, OwnerInv, NEW s \in Sessions, DisconnectSession(s)
    PROVE  SockInv' /\ OwnerInv'
<1>1. /\ s \in toTell /\ toTell' = toTell \ {s} /\ UNCHANGED <<live, countVars, wornVars, stars>>
      /\ \A c \in Conns : sock'[c] = Told(c, s)
  BY DEF DisconnectSession, wornVars
<1>2. \A c \in Conns : /\ sock'[c] \in SocketRecord
                       /\ sock'[c].pc = sock[c].pc /\ sock'[c].session = sock[c].session
                       /\ sock'[c].item = sock[c].item /\ sock'[c].late = sock[c].late
  BY <1>1, ToldSocket
<1>3. SockType'
  BY <1>1, <1>2 DEF SockInv, SockType, countVars, DisconnectSession
<1>4. SocketsCounted'
  BY <1>1, <1>2, SameSockets
<1>5. RevocationReaches'
  <2> SUFFICES ASSUME NEW c \in Conns, sock[c].pc \in {"subscribed", "joined"},
                      sock[c].session \notin live \cup toTell', ~sock[c].late
               PROVE  \/ Told(c, s).lagged
                      \/ \E k \in DOMAIN Told(c, s).queue : Told(c, s).queue[k] = sock[c].session
    BY <1>1, <1>2 DEF RevocationReaches
  <2>1. CASE sock[c].session = s
    BY <2>1, ToldSocket DEF Subscribed
  <2>2. CASE sock[c].session # s
    <3>1. sock[c].lagged \/ \E k \in DOMAIN sock[c].queue : sock[c].queue[k] = sock[c].session
      BY <1>1, <2>2 DEF SockInv, RevocationReaches
    <3> QED
      BY <3>1, ToldSocket
  <2> QED
    BY <2>1, <2>2
<1>6. \A d \in Conns : (Holds(d) => sock[d].session \in Sessions)'
  BY <1>2 DEF SockInv, Holds
<1>7. \A d \in Conns : (sock[d].session \in live => Unlocked(Owner(sock[d].session), sock[d].item))'
  BY <1>1, <1>2 DEF SockInv, Unlocked
<1>8. SockInv'
  BY <1>3, <1>4, <1>5, <1>6, <1>7 DEF SockInv
<1>9. OwnerInv'
  BY <1>1 DEF OwnerInv, OwnerType, Unlocked, wornVars
<1> QED
  BY <1>8, <1>9

-----------------------------------------------------------------------------
(* Rooms. *)

\* The parts of a room that is there.
LEMMA RoomFields ==
    ASSUME RoomInv, NEW r \in DOMAIN rooms
    PROVE  /\ rooms[r].private \in BOOLEAN /\ rooms[r].ever \in BOOLEAN /\ rooms[r].quick \in BOOLEAN
           /\ rooms[r].players \in [Present(r) -> PlayerRecord] /\ Present(r) \subseteq Sessions
<1>1. PICK Codes : rooms \in [DOMAIN rooms -> RoomRecord(Codes)]
  BY DEF RoomInv, RoomType
<1>2. rooms[r] \in RoomRecord(Codes)
  BY <1>1
<1> QED
  BY <1>2 DEF RoomRecord, PlayerMaps, Present

\* An idle handler is of the type of handlers.
LEMMA NoHandlerTyped == NoHandler \in HandlerRecord /\ NoHandler.pc = "idle" /\ ~NoHandler.quick
<1> QED
  BY DEF NoHandler, HandlerRecord, AnySession

\* A request that passes the gate finds it empty, and a quick join that goes on found
\* no room with space: in particular none that waits.
LEMMA PassGateStep ==
    ASSUME RoomInv, NEW h \in Handlers, NEW s \in Sessions, NEW private \in BOOLEAN, NEW quick \in BOOLEAN,
           quick => ~private, PassGate(h, s, private, quick)
    PROVE  RoomInv'
<1>1. /\ handler[h].pc = "idle" /\ \A g \in Handlers : handler[g].pc = "idle"
      /\ UNCHANGED <<live, rooms, made, stars, now>>
  BY DEF PassGate, GateFree, wornVars, RoomInv, RoomType, HandlerRecord
<1>2. CASE handler' = handler
  BY <1>1, <1>2, RoomFrame
<1>3. CASE ~(quick /\ PublicRooms # {})
  <2> DEFINE new == [pc |-> "consume", session |-> s, private |-> private, quick |-> quick]
  <2>1. handler' = [handler EXCEPT ![h] = new]
    BY <1>3 DEF PassGate
  <2>2. new \in HandlerRecord /\ new.session = s /\ new.quick = quick /\ new.private = private
    BY DEF HandlerRecord, AnySession
  <2> HIDE DEF new
  <2>3. \A g \in Handlers : handler'[g] = IF g = h THEN new ELSE handler[g]
    BY <2>1 DEF RoomInv, RoomType
  <2>4. RoomType'
    BY <1>1, <2>1, <2>2 DEF RoomInv, RoomType
  <2>5. Waiting' = Waiting
    BY <1>1 DEF Waiting
  <2>6. quick => Waiting = {}
    <3> SUFFICES ASSUME quick, NEW r \in Waiting PROVE FALSE
      OBVIOUS
    <3>1. r \in DOMAIN rooms /\ Present(r) = {} /\ ~rooms[r].private
      BY DEF Waiting, RoomInv, QuickInv
    <3>2. Cardinality(Present(r)) < ROOM_CAPACITY
      BY <3>1, FS_EmptySet, CafeHubAssumption DEF CafeHubAssumption
    <3> QED
      BY <1>3, <3>1, <3>2 DEF PublicRooms
  <2>7. QuickInv'
    BY <1>1, <2>2, <2>3, <2>5, <2>6 DEF QuickInv, RoomInv, Present
  <2>8. WornIsUnlocked'
    BY <1>1 DEF RoomInv, WornIsUnlocked, Present
  <2> QED
    BY <1>1, <2>2, <2>3, <2>4, <2>7, <2>8 DEF RoomInv
<1> QED
  BY <1>2, <1>3 DEF PassGate

\* A creation that the limit counts or refuses keeps what rooms satisfy.
LEMMA ConsumeStep ==
    ASSUME RoomInv, NEW h \in Handlers, ConsumeRoomCreation(h)
    PROVE  RoomInv'
<1>1. handler[h].pc = "consume" /\ UNCHANGED <<live, rooms, stars, now>> /\ handler[h] \in HandlerRecord
      /\ handler[h].session \in Sessions
  BY DEF ConsumeRoomCreation, wornVars, RoomInv, RoomType
<1>2. \E new \in HandlerRecord :
         /\ handler' = [handler EXCEPT ![h] = new]
         /\ new = NoHandler \/ (new.pc = "create" /\ new.session = handler[h].session
                                /\ new.quick = handler[h].quick /\ new.private = handler[h].private)
  <2>1. CASE handler' = [handler EXCEPT ![h] = NoHandler]
    BY <2>1, NoHandlerTyped
  <2>2. CASE handler' = [handler EXCEPT ![h].pc = "create"]
    <3> DEFINE new == [handler[h] EXCEPT !.pc = "create"]
    <3>1. new \in HandlerRecord /\ new.pc = "create" /\ new.session = handler[h].session
          /\ new.quick = handler[h].quick /\ new.private = handler[h].private
      BY <1>1 DEF HandlerRecord
    <3>2. handler' = [handler EXCEPT ![h] = new]
      BY <2>2
    <3> HIDE DEF new
    <3> QED
      BY <3>1, <3>2
  <2> QED
    BY <2>1, <2>2 DEF ConsumeRoomCreation
<1>3. PICK new \in HandlerRecord :
         /\ handler' = [handler EXCEPT ![h] = new]
         /\ new = NoHandler \/ (new.pc = "create" /\ new.session = handler[h].session
                                /\ new.quick = handler[h].quick /\ new.private = handler[h].private)
  BY <1>2
<1>4. \A g \in Handlers : handler'[g] = IF g = h THEN new ELSE handler[g]
  BY <1>3 DEF RoomInv, RoomType
<1>5. RoomType'
  <2>1. [by |-> handler[h].session, at |-> now] \in Creation /\ made \in Seq(Creation)
    BY <1>1 DEF RoomInv, RoomType, Creation
  <2>2. made' = made \/ made' = Append(made, [by |-> handler[h].session, at |-> now])
    BY DEF ConsumeRoomCreation
  <2>3. made' \in Seq(Creation)
    BY <2>1, <2>2, AppendProperties
  <2> QED
    BY <1>1, <1>3, <2>3 DEF RoomInv, RoomType
<1>6. Waiting' = Waiting
  BY <1>1 DEF Waiting
<1>7. QuickInv'
  BY <1>1, <1>3, <1>4, <1>6, NoHandlerTyped DEF QuickInv, RoomInv, Present
<1>8. WornIsUnlocked'
  BY <1>1 DEF RoomInv, WornIsUnlocked, Present
<1>9. \A g \in Handlers : (handler[g].pc # "idle" => handler[g].session \in Sessions)'
  BY <1>1, <1>3, <1>4, NoHandlerTyped DEF RoomInv
<1> QED
  BY <1>5, <1>7, <1>8, <1>9 DEF RoomInv

\* A new room waits; when a quick join made it, it is the only one that waits.
LEMMA CreateStep ==
    ASSUME RoomInv, NEW h \in Handlers, CreateRoom(h)
    PROVE  RoomInv'
<1>1. /\ handler[h].pc = "create" /\ UNCHANGED <<live, made, stars, now>> /\ handler[h] \in HandlerRecord
      /\ handler' = [handler EXCEPT ![h] = NoHandler]
  BY DEF CreateRoom, wornVars, RoomInv, RoomType
<1>2. PICK seed \in Seeds :
        rooms' = [r \in DOMAIN rooms \cup {Len(made)} |->
                    IF r = Len(made) THEN NewRoom(seed, handler[h].private, handler[h].quick) ELSE rooms[r]]
  BY DEF CreateRoom
<1> DEFINE id == Len(made)
           code == InviteCode(seed)
           none == [s \in {} |-> 0]
           new == [code |-> code, private |-> handler[h].private, players |-> none, created |-> now,
                   ever |-> FALSE, emptySince |-> Never, quick |-> handler[h].quick]
<1>3. rooms' = [r \in DOMAIN rooms \cup {id} |-> IF r = id THEN new ELSE rooms[r]]
  BY <1>2 DEF NewRoom
<1>4. none \in PlayerMaps /\ DOMAIN none = {}
  BY DEF PlayerMaps
<1> HIDE DEF id, code, none
<1>5. PICK Codes : rooms \in [DOMAIN rooms -> RoomRecord(Codes)]
  BY DEF RoomInv, RoomType
<1>6. /\ new \in RoomRecord(Codes \cup {code}) /\ new.players = none /\ ~new.ever
      /\ new.private = handler[h].private /\ new.quick = handler[h].quick
  BY <1>1, <1>4 DEF RoomRecord, HandlerRecord, Never, RoomInv, RoomType
<1> HIDE DEF new
<1>7. RoomRecord(Codes) \subseteq RoomRecord(Codes \cup {code})
  BY DEF RoomRecord
<1>8. /\ DOMAIN rooms' = DOMAIN rooms \cup {id}
      /\ \A r \in DOMAIN rooms' : rooms'[r] = IF r = id THEN new ELSE rooms[r]
  BY <1>3
<1>9. RoomType'
  <2>1. rooms' \in [DOMAIN rooms' -> RoomRecord(Codes \cup {code})]
    BY <1>3, <1>5, <1>6, <1>7
  <2>2. \E C : rooms' \in [DOMAIN rooms' -> RoomRecord(C)]
    BY <2>1
  <2> QED
    BY <1>1, <2>2, NoHandlerTyped DEF RoomInv, RoomType
<1>10. \A g \in Handlers : handler'[g] = IF g = h THEN NoHandler ELSE handler[g]
  BY <1>1 DEF RoomInv, RoomType
<1>11. \A g \in Handlers : handler'[g].pc = "idle"
  BY <1>1, <1>10, NoHandlerTyped DEF RoomInv, QuickInv
<1>12. Waiting' \subseteq Waiting \cup {id} /\ (handler[h].quick => Waiting' \subseteq {id})
       /\ (~handler[h].quick => Waiting' \subseteq Waiting)
  BY <1>1, <1>6, <1>8 DEF Waiting, RoomInv, QuickInv
<1>13. \A r \in DOMAIN rooms' : /\ rooms'[r].quick => ~rooms'[r].private
                                /\ ~rooms'[r].ever => DOMAIN rooms'[r].players = {}
  BY <1>4, <1>6, <1>8 DEF RoomInv, QuickInv, Present
<1>14. QuickInv'
  BY <1>10, <1>11, <1>12, <1>13, NoHandlerTyped DEF RoomInv, QuickInv, Present
<1>15. WornIsUnlocked'
  BY <1>1, <1>4, <1>6, <1>8 DEF RoomInv, WornIsUnlocked, Present
<1> QED
  BY <1>9, <1>11, <1>14, <1>15 DEF RoomInv

\* Removing expired rooms keeps what rooms satisfy.
LEMMA CleanupStep ==
    ASSUME RoomInv, CleanupExpired
    PROVE  RoomInv'
<1>1. UNCHANGED <<live, made, handler, stars, now>>
  BY DEF CleanupExpired, wornVars
<1>2. DOMAIN rooms' \subseteq DOMAIN rooms /\ (\A r \in DOMAIN rooms' : rooms'[r] = rooms[r])
      /\ rooms' = [r \in DOMAIN rooms' |-> rooms'[r]]
  BY DEF CleanupExpired
<1>3. RoomType'
  <2>1. PICK Codes : rooms \in [DOMAIN rooms -> RoomRecord(Codes)]
    BY DEF RoomInv, RoomType
  <2>2. rooms' \in [DOMAIN rooms' -> RoomRecord(Codes)]
    BY <1>2, <2>1
  <2>3. \E C : rooms' \in [DOMAIN rooms' -> RoomRecord(C)]
    BY <2>2
  <2> QED
    BY <1>1, <2>3 DEF RoomInv, RoomType
<1>4. Waiting' \subseteq Waiting
  BY <1>2 DEF Waiting
<1>5. QuickInv'
  BY <1>1, <1>2, <1>4 DEF RoomInv, QuickInv, Present
<1>6. WornIsUnlocked'
  BY <1>1, <1>2 DEF RoomInv, WornIsUnlocked, Present
<1> QED
  BY <1>1, <1>3, <1>5, <1>6 DEF RoomInv

\* A room gets other players; once it had one it never waits again.
LEMMA RoomChanges ==
    ASSUME RoomInv, NEW r \in DOMAIN rooms, NEW players \in PlayerMaps, NEW ever \in BOOLEAN, NEW empty \in Int,
           rooms' = [rooms EXCEPT ![r].players = players, ![r].ever = ever, ![r].emptySince = empty],
           rooms[r].ever \/ players # rooms[r].players => ever,
           \A s \in DOMAIN players \cap live : Unlocked(Owner(s), players[s].item),
           UNCHANGED <<live, made, handler, stars, now>>
    PROVE  RoomInv'
<1> DEFINE new == [rooms[r] EXCEPT !.players = players, !.ever = ever, !.emptySince = empty]
<1>1. PICK Codes : rooms \in [DOMAIN rooms -> RoomRecord(Codes)]
  BY DEF RoomInv, RoomType
<1>2. rooms[r] \in RoomRecord(Codes)
  BY <1>1
<1>3. /\ new \in RoomRecord(Codes) /\ new.players = players /\ new.ever = ever
      /\ new.quick = rooms[r].quick /\ new.private = rooms[r].private
  BY <1>2 DEF RoomRecord
<1>4. rooms' = [rooms EXCEPT ![r] = new]
  BY <1>1, <1>2 DEF RoomRecord
<1> HIDE DEF new
<1>5. DOMAIN rooms' = DOMAIN rooms /\ \A q \in DOMAIN rooms : rooms'[q] = IF q = r THEN new ELSE rooms[q]
  BY <1>1, <1>4
<1>6. RoomType'
  <2>1. rooms' \in [DOMAIN rooms' -> RoomRecord(Codes)]
    BY <1>1, <1>3, <1>4, <1>5
  <2>2. \E C : rooms' \in [DOMAIN rooms' -> RoomRecord(C)]
    BY <2>1
  <2> QED
    BY <2>2 DEF RoomInv, RoomType
<1>7. Waiting' \subseteq Waiting
  BY <1>3, <1>5 DEF Waiting
<1>8. \A q \in DOMAIN rooms' : /\ rooms'[q].quick => ~rooms'[q].private
                               /\ ~rooms'[q].ever => DOMAIN rooms'[q].players = {}
  BY <1>3, <1>5 DEF RoomInv, QuickInv, Present
<1>9. QuickInv'
  BY <1>7, <1>8 DEF RoomInv, QuickInv, Present
<1>10. WornIsUnlocked'
  BY <1>3, <1>5 DEF RoomInv, WornIsUnlocked, Present, Unlocked
<1> QED
  BY <1>6, <1>9, <1>10 DEF RoomInv

\* Joining a room keeps what sockets and rooms satisfy.
LEMMA JoinStep ==
    ASSUME HubInv, NEW c \in Conns, NEW r \in 1..Len(made), Join(c, r)
    PROVE  SockInv' /\ RoomInv'
<1> USE DEF HubInv
<1> DEFINE s == sock[c].session
<1>0. /\ sock[c].pc = "subscribed" /\ UNCHANGED <<live, toTell, made, handler, stars, now>>
      /\ sock[c] \in SocketRecord /\ s \in Sessions /\ r \in Nat
      /\ s \in live => Unlocked(Owner(s), sock[c].item)
  <2>1. Len(made) \in Nat
    BY LenProperties DEF RoomInv, RoomType
  <2>2. sock[c].pc = "subscribed" /\ UNCHANGED <<live, toTell, made, handler, stars, now>>
    BY DEF Join, wornVars
  <2>3. sock[c] \in SocketRecord /\ s \in Sessions /\ (s \in live => Unlocked(Owner(s), sock[c].item))
    BY <2>2 DEF SockInv, SockType, Holds
  <2> QED
    BY <2>1, <2>2, <2>3
<1>1. CASE ~CanJoin(s, r)
  <2>1. Release(c) /\ UNCHANGED rooms
    BY <1>1 DEF Join
  <2> QED
    BY <1>0, <2>1, ReleaseCounts, RoomFrame
<1>2. CASE CanJoin(s, r)
  <2>1. /\ rooms' = [rooms EXCEPT ![r].players = [p \in Present(r) \cup {s} |->
                                                     IF p = s THEN Player(c) ELSE rooms[r].players[p]],
                                  ![r].ever = TRUE, ![r].emptySince = Never]
        /\ sock' = [sock EXCEPT ![c].pc = "joined", ![c].room = r]
        /\ UNCHANGED countVars /\ r \in DOMAIN rooms
    BY <1>2 DEF Join, CanJoin
  <2>2. SockInv'
    <3> DEFINE new == [sock[c] EXCEPT !.pc = "joined", !.room = r]
    <3>1. sock' = [sock EXCEPT ![c] = new]
      BY <1>0, <2>1 DEF SockInv, SockType, SocketRecord
    <3>2. /\ new \in SocketRecord /\ new.pc = "joined" /\ new.session = s /\ new.item = sock[c].item
          /\ new.queue = sock[c].queue /\ new.lagged = sock[c].lagged /\ new.late = sock[c].late
      BY <1>0 DEF SocketRecord
    <3> HIDE DEF new
    <3>3. Reached(new)
      BY <1>0, <3>2 DEF Reached, SockInv, RevocationReaches
    <3> QED
      BY <1>0, <2>1, <3>1, <3>2, <3>3, SocketMoves
  <2>3. RoomInv'
    <3> DEFINE players == [p \in Present(r) \cup {s} |-> IF p = s THEN Player(c) ELSE rooms[r].players[p]]
    <3>1. Player(c) \in PlayerRecord /\ Player(c).item = sock[c].item
      BY <1>0 DEF Player, PlayerRecord, SocketRecord
    <3>2. rooms[r].players \in [Present(r) -> PlayerRecord] /\ Present(r) \subseteq Sessions
      BY <2>1, RoomFields
    <3>3. players \in [Present(r) \cup {s} -> PlayerRecord] /\ Present(r) \cup {s} \subseteq Sessions
      BY <1>0, <3>1, <3>2
    <3>4. players \in PlayerMaps
      BY <3>3 DEF PlayerMaps
    <3>5. \A p \in DOMAIN players \cap live : Unlocked(Owner(p), players[p].item)
      BY <1>0, <2>1, <3>1 DEF RoomInv, WornIsUnlocked, Unlocked
    <3> HIDE DEF players
    <3>6. rooms' = [rooms EXCEPT ![r].players = players, ![r].ever = TRUE, ![r].emptySince = Never]
      BY <2>1 DEF players
    <3>7. Never \in Int
      BY DEF Never
    <3> QED
      BY <1>0, <2>1, <3>4, <3>5, <3>6, <3>7, RoomChanges
  <2> QED
    BY <2>2, <2>3
<1> QED
  BY <1>1, <1>2

\* Leaving a room keeps what sockets and rooms satisfy.
LEMMA LeaveStep ==
    ASSUME HubInv, NEW c \in Conns, LeaveForConnection(c)
    PROVE  SockInv' /\ RoomInv'
<1> USE DEF HubInv
<1>0. /\ sock[c].pc = "leaving" /\ UNCHANGED <<live, toTell, made, handler, stars, now>> /\ Release(c)
  BY DEF LeaveForConnection, wornVars
<1>1. SockInv'
  BY <1>0, ReleaseCounts
<1>2. CASE rooms' = rooms
  BY <1>0, <1>1, <1>2, RoomFrame
<1> DEFINE s == sock[c].session
           r == sock[c].room
           rest == Present(r) \ {s}
           players == [p \in rest |-> rooms[r].players[p]]
           empty == IF rest = {} THEN now ELSE rooms[r].emptySince
<1>3. CASE /\ r \in DOMAIN rooms /\ s \in Present(r)
           /\ rooms' = [rooms EXCEPT ![r].players = players, ![r].emptySince = IF rest = {} THEN now ELSE @]
  <2>1. rooms[r].players \in [Present(r) -> PlayerRecord] /\ Present(r) \subseteq Sessions
    BY <1>3, RoomFields
  <2>2. players \in [rest -> PlayerRecord] /\ rest \in SUBSET Sessions
    BY <2>1
  <2>3. players \in PlayerMaps
    BY <2>2 DEF PlayerMaps
  <2>4. \A p \in DOMAIN players \cap live : Unlocked(Owner(p), players[p].item)
    BY <1>3 DEF RoomInv, WornIsUnlocked, Unlocked
  <2>5. rooms[r].ever = TRUE
    BY <1>3, RoomFields DEF RoomInv, QuickInv
  <2>6. PICK Codes : rooms \in [DOMAIN rooms -> RoomRecord(Codes)]
    BY DEF RoomInv, RoomType
  <2>7. rooms[r] \in RoomRecord(Codes) /\ rooms[r].emptySince \in Int /\ empty \in Int
    BY <1>3, <2>6 DEF RoomRecord, RoomInv, RoomType
  <2>8. rooms' = [rooms EXCEPT ![r].players = players, ![r].ever = TRUE, ![r].emptySince = empty]
    <3> HIDE DEF players, s, r, rest
    <3>1. rooms' = [rooms EXCEPT ![r] = [rooms[r] EXCEPT !.players = players, !.emptySince = empty]]
      BY <1>3, <2>6, <2>7 DEF RoomRecord
    <3> HIDE DEF empty
    <3>2. [rooms[r] EXCEPT !.players = players, !.emptySince = empty]
            = [rooms[r] EXCEPT !.players = players, !.ever = TRUE, !.emptySince = empty]
      BY <2>5, <2>7 DEF RoomRecord
    <3>3. [rooms EXCEPT ![r].players = players, ![r].ever = TRUE, ![r].emptySince = empty]
            = [rooms EXCEPT ![r] = [rooms[r] EXCEPT !.players = players, !.ever = TRUE, !.emptySince = empty]]
      BY <1>3, <2>6, <2>7 DEF RoomRecord
    <3> QED
      BY <3>1, <3>2, <3>3
  <2> HIDE DEF players, empty, rest, s, r
  <2> QED
    BY <1>0, <1>1, <1>3, <2>3, <2>4, <2>7, <2>8, RoomChanges
<1> QED
  BY <1>2, <1>3 DEF LeaveForConnection

-----------------------------------------------------------------------------
(* Owners: stars, loadouts and the deletion of the account. *)

\* Nothing that is unlocked for a session in force gets locked.
Monotone ==
    /\ live' \subseteq live
    /\ \A s \in live' : stars'[Owner(s)] >= stars[Owner(s)]
    /\ stars' \in [Owners -> Nat]

\* An item that is unlocked stays unlocked while stars only grow.
LEMMA StillUnlocked ==
    ASSUME OwnerType, Monotone, NEW s \in live', NEW item \in AnyItem, Unlocked(Owner(s), item)
    PROVE  item = NoItem \/ Required[item] <= stars'[Owner(s)]
<1>1. Owner(s) \in Owners
  BY OwnerFacts DEF Monotone, OwnerType
<1>2. item # NoItem => Required[item] \in Nat
  BY CafeHubAssumption DEF CafeHubAssumption, AnyItem
<1> QED
  BY <1>1, <1>2 DEF Unlocked, Monotone, OwnerType

\* Steps that only end sessions or add stars keep what sockets and rooms satisfy.
LEMMA MonotoneSteps ==
    ASSUME HubInv, Monotone, live \cup toTell \subseteq live' \cup toTell',
           UNCHANGED <<hubVars, countVars, sock, now>>
    PROVE  SockInv' /\ RoomInv'
<1> USE DEF HubInv
<1>1. SockInv'
  <2>1. SockType' /\ SocketsCounted' /\ \A c \in Conns : (Holds(c) => sock[c].session \in Sessions)'
    BY DEF SockInv, SockType, SocketsCounted, Held, Holds, countVars
  <2>2. RevocationReaches'
    BY DEF SockInv, RevocationReaches
  <2>3. ASSUME NEW c \in Conns, sock[c].session \in live'
        PROVE  sock[c].item = NoItem \/ Required[sock[c].item] <= stars'[Owner(sock[c].session)]
    <3>1. sock[c].item \in AnyItem /\ Unlocked(Owner(sock[c].session), sock[c].item)
      BY <2>3 DEF SockInv, SockType, SocketRecord, Monotone
    <3> QED
      BY <2>3, <3>1, StillUnlocked DEF OwnerInv
  <2> QED
    BY <2>1, <2>2, <2>3 DEF SockInv, Unlocked
<1>2. RoomInv'
  <2>1. RoomType' /\ QuickInv' /\ \A h \in Handlers : (handler[h].pc # "idle" => handler[h].session \in Sessions)'
    BY DEF RoomInv, RoomType, QuickInv, Waiting, Present, hubVars
  <2>2. ASSUME NEW r \in DOMAIN rooms, NEW s \in Present(r) \cap live'
        PROVE  rooms[r].players[s].item = NoItem \/ Required[rooms[r].players[s].item] <= stars'[Owner(s)]
    <3>1. rooms[r].players[s].item \in AnyItem
      BY <2>2, RoomFields DEF PlayerRecord
    <3>2. Unlocked(Owner(s), rooms[r].players[s].item)
      BY <2>2 DEF RoomInv, WornIsUnlocked, Unlocked, Monotone
    <3> QED
      BY <2>2, <3>1, <3>2, StillUnlocked DEF OwnerInv
  <2>3. WornIsUnlocked'
    BY <2>2 DEF WornIsUnlocked, Present, hubVars
  <2> QED
    BY <2>1, <2>3 DEF RoomInv
<1> QED
  BY <1>1, <1>2

\* Awarding a star keeps the invariant of the hub.
LEMMA AwardStep ==
    ASSUME HubInv, NEW o \in Owners, AwardStar(o)
    PROVE  HubInv'
<1>1. /\ UNCHANGED <<live, toTell, hubVars, countVars, sock, loadout, equip, now>>
      /\ stars' = [stars EXCEPT ![o] = stars[o] + 1]
  BY DEF AwardStar
<1>2. stars' \in [Owners -> Nat] /\ \A p \in Owners : stars'[p] >= stars[p]
  BY <1>1 DEF HubInv, OwnerInv, OwnerType
<1>3. Monotone
  BY <1>1, <1>2, OwnerFacts DEF Monotone, HubInv, OwnerInv, OwnerType
<1>4. SockInv' /\ RoomInv'
  BY <1>1, <1>3, MonotoneSteps
<1>5. OwnerInv'
  <2>1. equip.pc = "apply" /\ equip.session \in live =>
          equip.item = NoItem \/ Required[equip.item] <= stars'[Owner(equip.session)]
    BY <1>1, <1>3, StillUnlocked DEF HubInv, OwnerInv, OwnerType, EquipRecord
  <2> QED
    BY <1>1, <1>2, <2>1 DEF HubInv, OwnerInv, OwnerType, Unlocked
<1> QED
  BY <1>4, <1>5 DEF HubInv

\* Deletion takes the stars with the sessions: nobody in force loses anything.
LEMMA DeleteStep ==
    ASSUME HubInv, DeleteAccount
    PROVE  HubInv'
<1>1. /\ Account \subseteq live /\ live' = live \ Account /\ toTell' = Account
      /\ stars' = [stars EXCEPT ![Account] = 0] /\ loadout' = [loadout EXCEPT ![Account] = NoItem]
      /\ UNCHANGED <<hubVars, countVars, sock, equip, now>>
  BY DEF DeleteAccount
<1>2. stars' \in [Owners -> Nat] /\ loadout' \in [Owners -> AnyItem]
  BY <1>1 DEF HubInv, OwnerInv, OwnerType, AnyItem
<1>3. \A s \in live' : Owner(s) \in Owners /\ Owner(s) # Account
  BY <1>1, OwnerFacts DEF HubInv, OwnerInv, OwnerType, Sessions
<1>4. \A s \in live' : stars'[Owner(s)] = stars[Owner(s)]
  BY <1>1, <1>3 DEF HubInv, OwnerInv, OwnerType
<1>5. Monotone
  <2>1. \A s \in live' : stars[Owner(s)] \in Nat
    BY <1>3 DEF HubInv, OwnerInv, OwnerType
  <2> QED
    BY <1>1, <1>2, <1>4, <2>1 DEF Monotone
<1>6. SockInv' /\ RoomInv'
  BY <1>1, <1>5, MonotoneSteps DEF HubInv, OwnerInv, OwnerType
<1>7. OwnerInv'
  <2>1. equip.pc = "apply" /\ equip.session \in live' =>
          equip.item = NoItem \/ Required[equip.item] <= stars'[Owner(equip.session)]
    BY <1>1, <1>4 DEF HubInv, OwnerInv, Unlocked
  <2> QED
    BY <1>1, <1>2, <2>1 DEF HubInv, OwnerInv, OwnerType, Unlocked
<1> QED
  BY <1>6, <1>7 DEF HubInv

\* Equipping an item, written and read in two statements, keeps what owners satisfy.
LEMMA EquipSteps ==
    ASSUME OwnerInv,
           WriteLoadout \/ ReadLoadout \/ \E s \in Sessions, item \in AnyItem : EquipRequest(s, item)
    PROVE  OwnerInv'
<1>1. UNCHANGED <<live, toTell, stars>> /\ equip \in EquipRecord
  BY DEF EquipRequest, WriteLoadout, ReadLoadout, OwnerInv, OwnerType
<1>2. NoEquip \in EquipRecord /\ NoEquip.pc = "idle"
  BY DEF NoEquip, EquipRecord, AnySession, AnyItem
<1>3. ASSUME equip' \in EquipRecord, loadout' \in [Owners -> AnyItem],
             equip'.pc # "idle" => equip'.session \in Sessions,
             equip'.pc = "apply" => Unlocked(Owner(equip'.session), equip'.item)
      PROVE  OwnerInv'
  BY <1>1, <1>3 DEF OwnerInv, OwnerType, Unlocked
<1>4. ASSUME NEW s \in Sessions, NEW item \in AnyItem, EquipRequest(s, item) PROVE OwnerInv'
  <2>1. CASE equip' = NoEquip
    BY <1>2, <1>3, <1>4, <2>1 DEF EquipRequest, OwnerInv, OwnerType
  <2>2. CASE equip' = [pc |-> "write", session |-> s, item |-> item]
    <3>1. equip' \in EquipRecord /\ equip'.pc = "write" /\ equip'.session = s
      BY <2>2 DEF EquipRecord, AnySession
    <3> QED
      BY <1>3, <1>4, <3>1 DEF EquipRequest, OwnerInv, OwnerType
  <2> QED
    BY <1>4, <2>1, <2>2 DEF EquipRequest
<1>5. CASE WriteLoadout
  <2>1. CASE equip.session \in live
    <3>1. /\ loadout' = [loadout EXCEPT ![Owner(equip.session)] = equip.item]
          /\ equip' = [equip EXCEPT !.pc = "read"]
      BY <1>5, <2>1 DEF WriteLoadout
    <3>2. equip' \in EquipRecord /\ equip'.pc = "read" /\ equip'.session = equip.session
      BY <1>1, <3>1 DEF EquipRecord
    <3>3. loadout' \in [Owners -> AnyItem]
      BY <1>1, <3>1 DEF EquipRecord, OwnerInv, OwnerType
    <3>4. equip.session \in Sessions
      BY <2>1 DEF OwnerInv, OwnerType
    <3> QED
      BY <1>3, <3>2, <3>3, <3>4
  <2>2. CASE equip.session \notin live
    BY <1>2, <1>3, <1>5, <2>2 DEF WriteLoadout, OwnerInv, OwnerType
  <2> QED
    BY <2>1, <2>2
<1>6. CASE ReadLoadout
  <2>1. CASE equip.session \in live
    <3> DEFINE item == EquippedOf(Owner(equip.session))
    <3>1. equip' = [equip EXCEPT !.pc = "apply", !.item = item] /\ UNCHANGED loadout
      BY <1>6, <2>1 DEF ReadLoadout
    <3>2. equip.session \in Sessions
      BY <2>1 DEF OwnerInv, OwnerType
    <3>3. item \in AnyItem /\ Unlocked(Owner(equip.session), item)
      BY <3>2, OwnerFacts, EquippedUnlocked
    <3> HIDE DEF item
    <3>4. equip' \in EquipRecord /\ equip'.session = equip.session /\ equip'.item = item
      BY <1>1, <3>1, <3>3 DEF EquipRecord
    <3> QED
      BY <1>3, <3>1, <3>2, <3>3, <3>4 DEF OwnerInv, OwnerType
  <2>2. CASE equip.session \notin live
    BY <1>2, <1>3, <1>6, <2>2 DEF ReadLoadout, OwnerInv, OwnerType
  <2> QED
    BY <2>1, <2>2
<1> QED
  BY <1>4, <1>5, <1>6

\* Every player of the owner gets what was read back, which is unlocked if the owner is
\* still in force.
LEMMA ApplyStep ==
    ASSUME HubInv, ApplyLoadout
    PROVE  RoomInv' /\ OwnerInv'
<1> USE DEF HubInv
<1>1. /\ equip.pc = "apply" /\ equip' = NoEquip
      /\ UNCHANGED <<live, toTell, made, handler, stars, loadout, now>>
      /\ equip.session \in Sessions /\ equip.item \in AnyItem
  BY DEF ApplyLoadout, OwnerInv, OwnerType, EquipRecord
<1>2. PICK Codes : rooms \in [DOMAIN rooms -> RoomRecord(Codes)]
  BY DEF RoomInv, RoomType
<1> DEFINE dressed(r, p) == IF Owner(p) = Owner(equip.session) THEN [rooms[r].players[p] EXCEPT !.item = equip.item]
                            ELSE rooms[r].players[p]
           players(r) == [p \in Present(r) |-> dressed(r, p)]
<1>3. rooms' = [r \in DOMAIN rooms |-> [rooms[r] EXCEPT !.players = players(r)]]
  BY DEF ApplyLoadout
<1>4. ASSUME NEW r \in DOMAIN rooms, NEW p \in Present(r)
      PROVE  /\ dressed(r, p) \in PlayerRecord
             /\ p \in live => Unlocked(Owner(p), dressed(r, p).item)
  <2>1. rooms[r].players[p] \in PlayerRecord /\ p \in Sessions
    BY <1>4, RoomFields
  <2>2. CASE Owner(p) = Owner(equip.session)
    <3>1. dressed(r, p) \in PlayerRecord /\ dressed(r, p).item = equip.item
      BY <1>1, <2>1, <2>2 DEF PlayerRecord
    <3>2. p \in live => equip.session \in live
      BY <1>1, <2>2, SameOwnerLive
    <3> QED
      BY <1>1, <2>2, <3>1, <3>2 DEF OwnerInv
  <2>3. CASE Owner(p) # Owner(equip.session)
    BY <1>4, <2>1, <2>3 DEF RoomInv, WornIsUnlocked, Unlocked
  <2> QED
    BY <2>2, <2>3
<1> HIDE DEF dressed
<1>5. ASSUME NEW r \in DOMAIN rooms
      PROVE  /\ players(r) \in PlayerMaps /\ DOMAIN players(r) = Present(r)
             /\ \A p \in Present(r) \cap live : Unlocked(Owner(p), players(r)[p].item)
  <2>1. Present(r) \in SUBSET Sessions
    BY RoomFields
  <2>2. players(r) \in [Present(r) -> PlayerRecord]
    BY <1>4
  <2>3. players(r) \in PlayerMaps
    BY <2>1, <2>2 DEF PlayerMaps
  <2> QED
    BY <1>4, <2>3
<1> HIDE DEF players
<1>6. DOMAIN rooms' = DOMAIN rooms
  BY <1>3
<1>7. ASSUME NEW r \in DOMAIN rooms
      PROVE  /\ rooms'[r] \in RoomRecord(Codes) /\ rooms'[r].players = players(r)
             /\ rooms'[r].ever = rooms[r].ever /\ rooms'[r].quick = rooms[r].quick
             /\ rooms'[r].private = rooms[r].private
  <2>1. rooms[r] \in RoomRecord(Codes) /\ players(r) \in PlayerMaps
    BY <1>2, <1>5
  <2>2. rooms'[r] = [rooms[r] EXCEPT !.players = players(r)]
    BY <1>3
  <2> QED
    BY <2>1, <2>2 DEF RoomRecord
<1>8. RoomType'
  <2>1. rooms' \in [DOMAIN rooms' -> RoomRecord(Codes)]
    BY <1>3, <1>6, <1>7
  <2>2. \E C : rooms' \in [DOMAIN rooms' -> RoomRecord(C)]
    BY <2>1
  <2> QED
    BY <1>1, <2>2 DEF RoomInv, RoomType
<1>9. Waiting' = Waiting
  BY <1>6, <1>7 DEF Waiting
<1>10. QuickInv'
  BY <1>1, <1>5, <1>6, <1>7, <1>9 DEF RoomInv, QuickInv, Present
<1>11. WornIsUnlocked'
  BY <1>1, <1>5, <1>6, <1>7 DEF WornIsUnlocked, Present, Unlocked
<1>12. OwnerInv'
  <2>1. NoEquip \in EquipRecord /\ NoEquip.pc = "idle"
    BY DEF NoEquip, EquipRecord, AnySession, AnyItem
  <2> QED
    BY <1>1, <2>1 DEF OwnerInv, OwnerType
<1> QED
  BY <1>1, <1>8, <1>10, <1>11, <1>12 DEF RoomInv

-----------------------------------------------------------------------------
(* The specification. *)

\* The invariant of the hub holds initially.
LEMMA HubInit == Init => HubInv
<1> SUFFICES ASSUME Init PROVE HubInv
  OBVIOUS
<1>1. /\ \A c \in Conns : sock[c] = NoSocket /\ sock[c].pc = "closed" /\ sock[c].item = NoItem
      /\ \A h \in Handlers : handler[h] = NoHandler
      /\ DOMAIN rooms = {}
  BY DEF Init, NoSocket
<1>2. SockInv
  <2>1. Held = {} /\ Cardinality({}) = 0
    BY <1>1, FS_EmptySet DEF Held, Holds
  <2>2. SocketsCounted
    BY <2>1 DEF SocketsCounted, Init
  <2>3. SockType
    BY NoSocketTyped DEF SockType, Init
  <2> QED
    BY <1>1, <2>2, <2>3 DEF SockInv, RevocationReaches, Holds, Unlocked
<1>3. RoomInv
  <2>1. rooms \in [DOMAIN rooms -> RoomRecord({})]
    BY <1>1 DEF Init
  <2>2. made \in Seq(Creation) /\ now \in Int
    BY DEF Init
  <2>3. RoomType
    BY <2>1, <2>2, NoHandlerTyped DEF RoomType, Init
  <2> QED
    BY <1>1, <2>3, NoHandlerTyped DEF RoomInv, QuickInv, Waiting, WornIsUnlocked
<1>4. OwnerInv
  <2>1. NoEquip \in EquipRecord /\ NoEquip.pc = "idle"
    BY DEF NoEquip, EquipRecord, AnySession, AnyItem
  <2>2. OwnerType
    BY <2>1 DEF OwnerType, Init, AnyItem
  <2>3. Account \subseteq live /\ equip = NoEquip
    BY DEF Init, Sessions
  <2> QED
    BY <2>1, <2>2, <2>3 DEF OwnerInv
<1> QED
  BY <1>2, <1>3, <1>4 DEF HubInv

\* Every step keeps the invariant of the hub.
LEMMA HubStep == HubInv /\ [Next]_vars => HubInv'
<1> SUFFICES ASSUME HubInv, [Next]_vars PROVE HubInv'
  OBVIOUS
<1> USE DEF HubInv
<1>1. ASSUME NEW h \in Handlers, NEW s \in Sessions, NEW private \in BOOLEAN, NEW quick \in BOOLEAN,
             quick => ~private, PassGate(h, s, private, quick)
      PROVE  HubInv'
  BY <1>1, PassGateStep, SockFrame, OwnerFrame DEF PassGate, wornVars
<1>2. ASSUME NEW h \in Handlers, ConsumeRoomCreation(h) PROVE HubInv'
  BY <1>2, ConsumeStep, SockFrame, OwnerFrame DEF ConsumeRoomCreation, wornVars
<1>3. ASSUME NEW h \in Handlers, CreateRoom(h) PROVE HubInv'
  BY <1>3, CreateStep, SockFrame, OwnerFrame DEF CreateRoom, wornVars
<1>4. CASE CleanupExpired
  BY <1>4, CleanupStep, SockFrame, OwnerFrame DEF CleanupExpired, wornVars
<1>5. ASSUME NEW c \in Conns, NEW s \in Sessions, ReserveSocket(c, s) PROVE HubInv'
  BY <1>5, ReserveCounts, RoomFrame, OwnerFrame DEF ReserveSocket, hubVars, wornVars
<1>6. ASSUME NEW c \in Conns, ReadProgress(c) \/ AbandonUpgrade(c) \/ Subscribe(c) PROVE HubInv'
  BY <1>6, UpgradeSteps, RoomFrame, OwnerFrame DEF ReadProgress, AbandonUpgrade, Subscribe, hubVars, wornVars
<1>7. ASSUME NEW c \in Conns, ReceiveRevocation(c) \/ Disconnect(c) PROVE HubInv'
  BY <1>7, ListenSteps, RoomFrame, OwnerFrame DEF ReceiveRevocation, Disconnect, hubVars, wornVars
<1>8. ASSUME NEW c \in Conns, NEW r \in 1..Len(made), Join(c, r) PROVE HubInv'
  BY <1>8, JoinStep, OwnerFrame DEF Join, wornVars
<1>9. ASSUME NEW c \in Conns, LeaveForConnection(c) PROVE HubInv'
  BY <1>9, LeaveStep, OwnerFrame DEF LeaveForConnection, wornVars
<1>10. ASSUME NEW s \in Sessions, DisconnectSession(s) PROVE HubInv'
  BY <1>10, DisconnectSessionStep, RoomFrame DEF DisconnectSession, hubVars, wornVars
<1>11. CASE WriteLoadout \/ ReadLoadout \/ \E s \in Sessions, item \in AnyItem : EquipRequest(s, item)
  <2>1. UNCHANGED <<live, toTell, hubVars, countVars, sock, stars, now>>
    BY <1>11 DEF WriteLoadout, ReadLoadout, EquipRequest
  <2> QED
    BY <1>11, <2>1, EquipSteps, SockFrame, RoomFrame DEF hubVars
<1>12. CASE ApplyLoadout
  BY <1>12, ApplyStep, SockFrame DEF ApplyLoadout
<1>13. CASE Tick
  <2>1. RoomInv'
    BY <1>13 DEF Tick, RoomInv, RoomType, QuickInv, Waiting, WornIsUnlocked, Present, hubVars, wornVars
  <2> QED
    BY <1>13, <2>1, SockFrame, OwnerFrame DEF Tick, wornVars
<1>14. CASE UNCHANGED vars
  BY <1>14, SockFrame, RoomFrame, OwnerFrame DEF vars, hubVars, wornVars
<1> QED
  BY <1>1, <1>2, <1>3, <1>4, <1>5, <1>6, <1>7, <1>8, <1>9, <1>10, <1>11, <1>12, <1>13, <1>14,
     AwardStep, DeleteStep DEF Next, AnyItem

\* The inductive invariant: types, counters, notices, the gate, and what is worn.
THEOREM HubInvariant == Spec => []HubInv
  BY HubInit, HubStep, PTL DEF Spec

\* However a connection ends, before or after its upgrade, reserve_socket's three
\* counters are exactly the sockets that exist.
THEOREM SocketsCountedHolds == Spec => []SocketsCounted
<1>1. HubInv => SocketsCounted
  BY DEF HubInv, SockInv
<1> QED
  BY <1>1, HubInvariant, PTL

\* disconnect_sessions reaches every socket that listened, however short the queue of
\* the broadcast channel is.
THEOREM RevocationReachesHolds == Spec => []RevocationReaches
<1>1. HubInv => RevocationReaches
  BY DEF HubInv, SockInv
<1> QED
  BY <1>1, HubInvariant, PTL

\* creation_gate: however many quick joins run at once, at most one of their rooms waits
\* for its first player.
THEOREM QuickJoinsMeetHolds == Spec => []QuickJoinsMeet
<1>1. HubInv => QuickJoinsMeet
  <2> SUFFICES ASSUME HubInv PROVE Cardinality(Waiting) <= 1
    BY DEF QuickJoinsMeet, Waiting
  <2>1. Waiting = {} \/ \E r : Waiting = {r}
    BY DEF HubInv, RoomInv, QuickInv
  <2>2. \A r : Cardinality({r}) = 1
    BY FS_Singleton
  <2>3. Cardinality({}) = 0
    BY FS_EmptySet
  <2>4. Cardinality(Waiting) = 0 \/ Cardinality(Waiting) = 1
    BY <2>1, <2>2, <2>3, Zenon
  <2> QED
    BY <2>4
<1> QED
  BY <1>1, HubInvariant, PTL

\* Players of sessions in force wear only what is unlocked, although progress is read,
\* written and applied in separate steps.
THEOREM WornIsUnlockedHolds == Spec => []WornIsUnlocked
<1>1. HubInv => WornIsUnlocked
  BY DEF HubInv, RoomInv
<1> QED
  BY <1>1, HubInvariant, PTL

-----------------------------------------------------------------------------
(* Delivery of a room's state. *)

Events == ({"joined", "left"} \X Sockets) \cup ({"message"} \X Nat)
Snapshots == [type : {"snapshot"}, rev : Nat, who : SUBSET Players, body : Nat, pos : Nat]
ChatEvents == [type : {"chat_event"}, event : Events]
Reliable == Snapshots \cup ChatEvents
Movements == [type : {"movement"}, rev : Nat, who : SUBSET Players, pos : Nat]
Views == [rev : Nat, who : SUBSET Players, body : Nat, pos : Nat, chat : Seq(Events),
          resync : BOOLEAN]
Rooms == [rev : Nat, dirty : BOOLEAN, body : Nat, pos : Nat, chat : Seq(Events),
          members : [Players -> Sockets \cup {None}]]

DeliveryTypeOK ==
    /\ room \in Rooms
    /\ watch \in Movements
    /\ task \in [Sockets -> {"new", "ready", "between", "closed"}]
    /\ owner \in [Sockets -> Players \cup {None}]
    /\ queue \in [Sockets -> Seq(Reliable)]
    /\ lagged \subseteq Sockets /\ unseen \subseteq Sockets
    /\ client \in [Sockets -> Views \cup {None}]
    /\ said \in Nat
    /\ \A c \in Sockets : task[c] = "new" => queue[c] = <<>>
    /\ \A c \in Sockets : Open(c) => client[c] \in Views /\ owner[c] \in Players

\* The last n elements of a sequence: which they are, and that none is lost while they fit.
LEMMA LastElements ==
    ASSUME NEW S, NEW s \in Seq(S), NEW n \in Nat \ {0}
    PROVE  /\ LastN(s, n) \in Seq(S)
           /\ Len(s) <= n => LastN(s, n) = s
           /\ Len(s) > n => Len(LastN(s, n)) = n
<1>1. PICK m \in Nat : m = Len(s)
  OBVIOUS
<1>2. CASE m > n
  <2>1. LastN(s, n) = SubSeq(s, m - n + 1, m)
    BY <1>1, <1>2 DEF LastN
  <2>2. m - n + 1 \in 1 .. m + 1 /\ m \in m - n .. m /\ m - (m - n + 1) + 1 = n
    BY <1>2
  <2>3. \A i \in m - n + 1 .. m : s[i] \in S
    BY <1>1, <1>2
  <2>4. SubSeq(s, m - n + 1, m) \in Seq(S) /\ Len(SubSeq(s, m - n + 1, m)) = n
    BY <1>1, <1>2, <2>2, <2>3, SubSeqProperties
  <2> QED
    BY <1>1, <1>2, <2>1, <2>4
<1>3. CASE ~(m > n)
  BY <1>1, <1>3 DEF LastN
<1> QED
  BY <1>2, <1>3

\* Where the elements of a cut sequence come from.
LEMMA LastElement ==
    ASSUME NEW S, NEW s \in Seq(S), NEW n \in Nat \ {0}, NEW m \in Nat, Len(s) = m, m > n,
           NEW i \in 1 .. n
    PROVE  LastN(s, n)[i] = s[m - n + i]
<1>2. LastN(s, n) = SubSeq(s, m - n + 1, m)
  BY DEF LastN
<1>3. PICK a \in Nat : a = m - n + 1 /\ a >= 1
  OBVIOUS
<1>4. i \in 1 .. (m - a) + 1 /\ a + i - 1 = m - n + i
  BY <1>3
<1>5. \A j \in a .. m : s[j] \in S
  BY <1>3
<1>6. SubSeq(s, a, m)[i] = s[a + i - 1]
  BY <1>3, <1>4, <1>5
<1> QED
  BY <1>2, <1>3, <1>4, <1>6

\* A history that is cut after each event is the end of the whole history.
LEMMA LastOfLast ==
    ASSUME NEW S, NEW s \in Seq(S), NEW n \in Nat \ {0}, NEW e \in S
    PROVE  LastN(Append(LastN(s, n), e), n) = LastN(Append(s, e), n)
<1>1. PICK m \in Nat : m = Len(s)
  OBVIOUS
<1>2. CASE m <= n
  BY <1>1, <1>2, LastElements
<1>3. CASE m > n
  <2>1. PICK t : t = LastN(s, n)
    OBVIOUS
  <2>2. t \in Seq(S) /\ Len(t) = n
    BY <1>1, <1>3, <2>1, LastElements
  <2>3. PICK a, b : a = Append(t, e) /\ b = Append(s, e)
    OBVIOUS
  <2>4. a \in Seq(S) /\ b \in Seq(S) /\ Len(a) = n + 1 /\ Len(b) = m + 1
    BY <1>1, <2>2, <2>3
  <2>5. PICK x, y : x = LastN(a, n) /\ y = LastN(b, n)
    OBVIOUS
  <2>6. x \in Seq(S) /\ y \in Seq(S) /\ Len(x) = n /\ Len(y) = n
    <3>1. n + 1 > n /\ m + 1 > n /\ n + 1 \in Nat /\ m + 1 \in Nat
      BY <1>3
    <3>2. Len(a) > n /\ Len(b) > n
      BY <2>4, <3>1
    <3> QED
      BY <2>4, <2>5, <3>2, LastElements
  <2>7. ASSUME NEW i \in 1 .. n PROVE x[i] = y[i]
    <3>0. n + 1 > n /\ m + 1 > n /\ n + 1 \in Nat /\ m + 1 \in Nat
      BY <1>3
    <3>1. x[i] = a[(n + 1) - n + i]
      BY <2>4, <2>5, <3>0, LastElement
    <3>2. y[i] = b[(m + 1) - n + i]
      BY <2>4, <2>5, <3>0, LastElement
    <3>3. (n + 1) - n + i = i + 1
      OBVIOUS
    <3>4. CASE i = n
      <4>1. (m + 1) - n + i = m + 1
        BY <1>1, <3>4
      <4>2. a[n + 1] = e /\ b[m + 1] = e
        BY <1>1, <2>2, <2>3
      <4> QED
        BY <3>1, <3>2, <3>3, <3>4, <4>1, <4>2
    <3>5. CASE i < n
      <4>1. PICK j \in 1 .. n : j = i + 1
        BY <3>5
      <4>2. a[j] = t[j]
        BY <2>2, <2>3, <4>1
      <4>3. t[j] = s[m - n + j]
        BY <1>1, <1>3, <2>1, <4>1, LastElement
      <4>4. PICK k \in 1 .. m : k = m - n + j /\ k = (m + 1) - n + i
        BY <1>3, <4>1
      <4>5. b[k] = s[k]
        BY <1>1, <2>3, <4>4
      <4> QED
        BY <3>1, <3>2, <3>3, <4>1, <4>2, <4>3, <4>4, <4>5
    <3> QED
      BY <3>4, <3>5
  <2>8. x = y
    BY <2>6, <2>7, SeqEqual
  <2> QED
    BY <2>1, <2>3, <2>5, <2>8
<1> QED
  BY <1>1, <1>2, <1>3

\* What the operators on a room return.
LEMMA FlagSet ==
    ASSUME NEW r \in Rooms, NEW b \in BOOLEAN
    PROVE  [r EXCEPT !.dirty = b]
             = [rev |-> r.rev, dirty |-> b, body |-> r.body, pos |-> r.pos, chat |-> r.chat,
                members |-> r.members]
BY DEF Rooms

\* The flag for movement under way is dropped.
LEMMA FlagCleared ==
    ASSUME NEW r \in Rooms
    PROVE  LET s == [r EXCEPT !.dirty = FALSE]
           IN  /\ s \in Rooms
               /\ s.rev = r.rev /\ s.dirty = FALSE /\ s.pos = r.pos /\ s.chat = r.chat
               /\ s.members = r.members /\ Who(s) = Who(r)
<1>1. [r EXCEPT !.dirty = FALSE]
        = [rev |-> r.rev, dirty |-> FALSE, body |-> r.body, pos |-> r.pos, chat |-> r.chat,
           members |-> r.members]
  BY FlagSet, Zenon
<1> QED
  BY <1>1 DEF Rooms, Who

\* A snapshot takes the next revision and includes pending movement.
LEMMA SnapshottedRoom ==
    ASSUME NEW r \in Rooms
    PROVE  /\ Snapshotted(r) \in Rooms
           /\ Snapshotted(r).rev = r.rev + 1 /\ Snapshotted(r).dirty = FALSE
           /\ Snapshotted(r).pos = r.pos /\ Snapshotted(r).chat = r.chat
           /\ Snapshotted(r).members = r.members /\ Who(Snapshotted(r)) = Who(r)
<1>1. PICK s : s = [r EXCEPT !.rev = r.rev + 1]
  OBVIOUS
<1>2. s = [rev |-> r.rev + 1, dirty |-> r.dirty, body |-> r.body, pos |-> r.pos,
           chat |-> r.chat, members |-> r.members]
  BY <1>1 DEF Rooms
<1>3. s \in Rooms /\ s.rev = r.rev + 1 /\ s.pos = r.pos /\ s.chat = r.chat /\ s.members = r.members
  BY <1>2 DEF Rooms
<1>4. Snapshotted(r) = [s EXCEPT !.dirty = FALSE]
  BY <1>1 DEF Snapshotted
<1> QED
  BY <1>3, <1>4, FlagCleared DEF Who

\* A recorded event is the only thing that changes.
LEMMA RecordedRoom ==
    ASSUME NEW r \in Rooms, NEW e \in Events
    PROVE  /\ Recorded(r, e) \in Rooms
           /\ Recorded(r, e).rev = r.rev /\ Recorded(r, e).dirty = r.dirty
           /\ Recorded(r, e).pos = r.pos /\ Recorded(r, e).members = r.members
           /\ Recorded(r, e).chat = LastN(Append(r.chat, e), HistoryLimit)
           /\ Who(Recorded(r, e)) = Who(r)
<1>1. LastN(Append(r.chat, e), HistoryLimit) \in Seq(Events)
  <2>1. Append(r.chat, e) \in Seq(Events) /\ HistoryLimit \in Nat \ {0}
    BY CafeDeliveryAssumption DEF Rooms, CafeDeliveryAssumption
  <2> QED
    BY <2>1, LastElements
<1>2. Recorded(r, e) = [rev |-> r.rev, dirty |-> r.dirty, body |-> r.body, pos |-> r.pos,
                        chat |-> LastN(Append(r.chat, e), HistoryLimit), members |-> r.members]
  BY DEF Recorded, Rooms
<1> QED
  BY <1>1, <1>2 DEF Rooms, Who

\* A player comes or goes.
LEMMA MembersOf ==
    ASSUME NEW r \in Rooms, NEW p \in Players, NEW x \in Sockets \cup {None}
    PROVE  LET s == [r EXCEPT !.members[p] = x]
           IN  /\ s \in Rooms
               /\ s.rev = r.rev /\ s.dirty = r.dirty /\ s.pos = r.pos /\ s.chat = r.chat
               /\ s.members = [r.members EXCEPT ![p] = x]
<1>1. [r EXCEPT !.members[p] = x]
        = [rev |-> r.rev, dirty |-> r.dirty, body |-> r.body, pos |-> r.pos, chat |-> r.chat,
           members |-> [r.members EXCEPT ![p] = x]]
  BY DEF Rooms
<1> QED
  BY <1>1 DEF Rooms

\* What the messages carry.
LEMMA SnapshotOf ==
    ASSUME NEW r \in Rooms
    PROVE  /\ Snapshot(r) \in Snapshots /\ Snapshot(r) \in Reliable
           /\ Snapshot(r).type = "snapshot" /\ Snapshot(r).rev = r.rev
           /\ Snapshot(r).who = Who(r) /\ Snapshot(r).pos = r.pos
<1>1. Who(r) \in SUBSET Players
  BY DEF Who
<1> QED
  BY <1>1 DEF Snapshot, Snapshots, Reliable, Rooms

\* A chat event carries one event.
LEMMA ChatMessageOf ==
    ASSUME NEW e \in Events
    PROVE  /\ ChatMessage(e) \in ChatEvents /\ ChatMessage(e) \in Reliable
           /\ ChatMessage(e).type = "chat_event" /\ ChatMessage(e).event = e
BY DEF ChatMessage, ChatEvents, Reliable

\* A welcome shows the room as it is.
LEMMA WelcomedView ==
    ASSUME NEW r \in Rooms, NEW s \in Seq(Events)
    PROVE  /\ Welcomed(r, s) \in Views
           /\ Welcomed(r, s).rev = r.rev /\ Welcomed(r, s).who = Who(r)
           /\ Welcomed(r, s).pos = r.pos /\ Welcomed(r, s).chat = s
           /\ Welcomed(r, s).resync = FALSE
<1>1. Who(r) \in SUBSET Players
  BY DEF Who
<1> QED
  BY <1>1 DEF Welcomed, Views, Rooms

\* A socket that a broadcast does not leave lagging has lost nothing.
LEMMA Received ==
    ASSUME queue \in [Sockets -> Seq(Reliable)], lagged \subseteq Sockets,
           NEW S \in SUBSET Sockets, NEW msgs \in Seq(Reliable), Broadcast(S, msgs)
    PROVE  /\ queue' \in [Sockets -> Seq(Reliable)]
           /\ lagged' \subseteq Sockets /\ lagged \subseteq lagged'
           /\ \A c \in Sockets \ S : queue'[c] = queue[c]
           /\ \A c \in S \ lagged' : queue'[c] = queue[c] \o msgs
<1>1. QueueCapacity \in Nat \ {0}
  BY CafeDeliveryAssumption DEF CafeDeliveryAssumption
<1>2. \A c \in Sockets : queue[c] \o msgs \in Seq(Reliable)
  OBVIOUS
<1>3. \A c \in Sockets : LastN(queue[c] \o msgs, QueueCapacity) \in Seq(Reliable)
  BY <1>1, <1>2, LastElements
<1>4. queue' = [c \in Sockets |-> IF c \in S THEN LastN(queue[c] \o msgs, QueueCapacity)
                                             ELSE queue[c]]
  BY DEF Broadcast
<1>5. lagged' = lagged \cup {c \in S : Overflows(queue[c], msgs)}
  BY DEF Broadcast, NowLagged
<1>6. ASSUME NEW c \in S \ lagged' PROVE queue'[c] = queue[c] \o msgs
  <2>1. ~Overflows(queue[c], msgs) /\ queue[c] \in Seq(Reliable)
    BY <1>5, <1>6
  <2>2. ~(Len(queue[c]) + Len(msgs) > QueueCapacity)
    BY <2>1 DEF Overflows
  <2>3. Len(queue[c] \o msgs) = Len(queue[c]) + Len(msgs)
    BY <2>1
  <2>4. Len(queue[c] \o msgs) <= QueueCapacity
    BY <1>1, <2>1, <2>2, <2>3
  <2>5. LastN(queue[c] \o msgs, QueueCapacity) = queue[c] \o msgs
    BY <1>1, <1>2, <2>4, LastElements
  <2> QED
    BY <1>4, <2>5
<1> QED
  BY <1>3, <1>4, <1>5, <1>6

\* What handleServerMessage does with each kind of message.
LEMMA AppliedSnapshot ==
    ASSUME NEW v \in Views, NEW m \in Snapshots
    PROVE  /\ Applied(v, m) \in Views
           /\ Applied(v, m).chat = v.chat /\ Applied(v, m).resync = v.resync
           /\ m.rev > v.rev => /\ Applied(v, m).rev = m.rev /\ Applied(v, m).who = m.who
                               /\ Applied(v, m).pos = m.pos
           /\ ~(m.rev > v.rev) => Applied(v, m) = v
<1>1. m.type = "snapshot" /\ m.rev \in Nat /\ m.who \in SUBSET Players /\ m.body \in Nat /\ m.pos \in Nat
  BY DEF Snapshots
<1>2. CASE m.rev > v.rev
  <2>1. Applied(v, m) = [v EXCEPT !.rev = m.rev, !.who = m.who, !.body = m.body, !.pos = m.pos]
    BY <1>1, <1>2 DEF Applied, Newer
  <2>2. Applied(v, m) = [rev |-> m.rev, who |-> m.who, body |-> m.body, pos |-> m.pos,
                         chat |-> v.chat, resync |-> v.resync]
    BY <2>1 DEF Views
  <2> QED
    BY <1>1, <1>2, <2>2 DEF Views
<1>3. CASE ~(m.rev > v.rev)
  <2>1. Applied(v, m) = v
    BY <1>1, <1>3 DEF Applied, Newer
  <2> QED
    BY <1>3, <2>1
<1> QED
  BY <1>2, <1>3

\* A movement update applies to the players shown, or asks for a resynchronisation.
LEMMA AppliedMovement ==
    ASSUME NEW v \in Views, NEW m \in Movements
    PROVE  /\ Applied(v, m) \in Views
           /\ Applied(v, m).chat = v.chat /\ Applied(v, m).who = v.who
           /\ v.resync => Applied(v, m).resync
           /\ m.rev > v.rev /\ m.who = v.who => Applied(v, m).rev = m.rev /\ Applied(v, m).pos = m.pos
           /\ m.rev > v.rev /\ m.who # v.who => Applied(v, m).rev = v.rev /\ Applied(v, m).resync
           /\ ~(m.rev > v.rev) => Applied(v, m) = v
<1>1. m.type = "movement" /\ m.rev \in Nat /\ m.pos \in Nat
  BY DEF Movements
<1>2. CASE m.rev > v.rev /\ m.who = v.who
  <2>1. Applied(v, m) = [v EXCEPT !.rev = m.rev, !.pos = m.pos]
    BY <1>1, <1>2 DEF Applied, Newer, SameBatch
  <2>2. Applied(v, m) = [rev |-> m.rev, who |-> v.who, body |-> v.body, pos |-> m.pos,
                         chat |-> v.chat, resync |-> v.resync]
    BY <2>1 DEF Views
  <2> QED
    BY <1>1, <1>2, <2>2 DEF Views
<1>3. CASE m.rev > v.rev /\ m.who # v.who
  <2>1. Applied(v, m) = [v EXCEPT !.resync = TRUE]
    BY <1>1, <1>3 DEF Applied, Newer, SameBatch
  <2>2. Applied(v, m) = [rev |-> v.rev, who |-> v.who, body |-> v.body, pos |-> v.pos,
                         chat |-> v.chat, resync |-> TRUE]
    BY <2>1 DEF Views
  <2> QED
    BY <1>1, <1>3, <2>2 DEF Views
<1>4. CASE ~(m.rev > v.rev)
  <2>1. Applied(v, m) = v
    BY <1>1, <1>4 DEF Applied, Newer
  <2> QED
    BY <1>4, <2>1
<1> QED
  BY <1>2, <1>3, <1>4

\* A chat event is appended unless it is there already.
LEMMA AppliedChat ==
    ASSUME NEW v \in Views, NEW m \in ChatEvents
    PROVE  /\ Applied(v, m) \in Views
           /\ Applied(v, m).rev = v.rev /\ Applied(v, m).who = v.who
           /\ Applied(v, m).pos = v.pos /\ Applied(v, m).resync = v.resync
           /\ ~Contains(v.chat, m.event) =>
                Applied(v, m).chat = LastN(Append(v.chat, m.event), HistoryLimit)
<1>1. m.type = "chat_event" /\ m.event \in Events /\ v.chat \in Seq(Events)
  BY DEF ChatEvents, Views
<1>2. LastN(Append(v.chat, m.event), HistoryLimit) \in Seq(Events)
  <2>1. Append(v.chat, m.event) \in Seq(Events) /\ HistoryLimit \in Nat \ {0}
    BY <1>1, CafeDeliveryAssumption DEF CafeDeliveryAssumption
  <2> QED
    BY <2>1, LastElements
<1>3. CASE ~Contains(v.chat, m.event)
  <2>1. Applied(v, m) = [v EXCEPT !.chat = LastN(Append(@, m.event), HistoryLimit)]
    BY <1>1, <1>3 DEF Applied
  <2>2. Applied(v, m) = [rev |-> v.rev, who |-> v.who, body |-> v.body, pos |-> v.pos,
                         chat |-> LastN(Append(v.chat, m.event), HistoryLimit),
                         resync |-> v.resync]
    BY <2>1 DEF Views
  <2> QED
    BY <1>2, <2>2 DEF Views
<1>4. CASE Contains(v.chat, m.event)
  <2>1. Applied(v, m) = v
    BY <1>1, <1>4 DEF Applied
  <2> QED
    BY <1>4, <2>1
<1> QED
  BY <1>3, <1>4

(* Revisions: what is newest among the view and the snapshots under way. *)

Snaps(q) == {q[i] : i \in {j \in DOMAIN q : q[j].type = "snapshot"}}
Shown(v, q) == {v} \cup Snaps(q)

\* The newest of X, or w if it is newer, has the right value.
MembersKnown(X, w, who) ==
    \A x \in X \cup {w} : (\A y \in X : y.rev <= x.rev) => x.who = who
PositionsKnown(X, pos) ==
    \A x \in X : (\A y \in X : y.rev <= x.rev) => x.pos = pos

\* The snapshots of a queue that grows or shrinks.
LEMMA SnapsOfNone == Snaps(<<>>) = {}
BY DEF Snaps

\* One more message adds at most its own snapshot.
LEMMA SnapsOfAppend ==
    ASSUME NEW q \in Seq(Reliable), NEW m \in Reliable
    PROVE  /\ m.type = "snapshot" => Snaps(Append(q, m)) = Snaps(q) \cup {m}
           /\ m.type # "snapshot" => Snaps(Append(q, m)) = Snaps(q)
<1>1. PICK l \in Nat : l = Len(q)
  OBVIOUS
<1>2. PICK s : s = Append(q, m)
  OBVIOUS
<1>3. DOMAIN q = 1 .. l /\ DOMAIN s = 1 .. l + 1 /\ s[l + 1] = m
  BY <1>1, <1>2
<1>4. \A i \in 1 .. l : s[i] = q[i] /\ i \in 1 .. l + 1
  BY <1>1, <1>2
<1>5. \A i \in 1 .. l + 1 : i \in 1 .. l \/ i = l + 1
  BY <1>1
<1>6. l + 1 \in 1 .. l + 1
  BY <1>1
<1>7. Snaps(s) \subseteq Snaps(q) \cup {m}
  BY <1>3, <1>4, <1>5 DEF Snaps
<1>8. Snaps(q) \subseteq Snaps(s)
  BY <1>3, <1>4 DEF Snaps
<1>9. m.type = "snapshot" => m \in Snaps(s)
  BY <1>3, <1>6 DEF Snaps
<1>10. m.type # "snapshot" => Snaps(s) \subseteq Snaps(q)
  BY <1>3, <1>4, <1>5 DEF Snaps
<1> QED
  BY <1>2, <1>7, <1>8, <1>9, <1>10

\* The oldest message was a snapshot or took none with it.
LEMMA SnapsOfTail ==
    ASSUME NEW q \in Seq(Reliable), q # <<>>
    PROVE  /\ Head(q).type = "snapshot" => Snaps(q) = {Head(q)} \cup Snaps(Tail(q))
           /\ Head(q).type # "snapshot" => Snaps(q) = Snaps(Tail(q))
<1>1. PICK t : t = Tail(q)
  OBVIOUS
<1>2. PICK l \in Nat : l = Len(t)
  BY <1>1
<1>3. DOMAIN t = 1 .. l /\ DOMAIN q = 1 .. l + 1 /\ Head(q) = q[1]
  BY <1>1, <1>2
<1>4. \A i \in 1 .. l : t[i] = q[i + 1] /\ i + 1 \in 1 .. l + 1
  BY <1>1, <1>2
<1>5. \A i \in 1 .. l + 1 : i # 1 => i - 1 \in 1 .. l /\ (i - 1) + 1 = i
  BY <1>2
<1>6. 1 \in 1 .. l + 1
  BY <1>2
<1>7. Snaps(t) \subseteq Snaps(q)
  BY <1>3, <1>4 DEF Snaps
<1>8. \A i \in 1 .. l + 1 : i # 1 => t[i - 1] = q[i]
  BY <1>4, <1>5
<1>9. Snaps(q) \subseteq {Head(q)} \cup Snaps(t)
  BY <1>3, <1>5, <1>8 DEF Snaps
<1>10. Head(q).type = "snapshot" => Head(q) \in Snaps(q)
  BY <1>3, <1>6 DEF Snaps
<1>11. Head(q).type # "snapshot" => Snaps(q) \subseteq Snaps(t)
  BY <1>3, <1>5, <1>8 DEF Snaps
<1> QED
  BY <1>1, <1>7, <1>9, <1>10, <1>11

\* What is collected are snapshots.
LEMMA SnapsAreSnapshots ==
    ASSUME NEW q \in Seq(Reliable)
    PROVE  Snaps(q) \subseteq Snapshots
<1>1. \A i \in DOMAIN q : q[i] \in Reliable
  OBVIOUS
<1> QED
  BY <1>1 DEF Snaps, Reliable, ChatEvents

\* What is newest is known when everything newest is right.
LEMMA NewestKnown ==
    ASSUME NEW X, NEW n \in Nat, \A x \in X : x.rev \in Nat /\ x.rev <= n,
           NEW t \in X, t.rev = n,
           NEW pos, \A x \in X : x.rev = n => x.pos = pos
    PROVE  PositionsKnown(X, pos)
<1>1. ASSUME NEW x \in X, \A y \in X : y.rev <= x.rev PROVE x.pos = pos
  <2>1. x.rev \in Nat /\ x.rev <= n /\ n <= x.rev
    BY <1>1
  <2> QED
    BY <2>1
<1> QED
  BY <1>1 DEF PositionsKnown

\* The same for the members, with the movement channel's value.
LEMMA NewestMembersKnown ==
    ASSUME NEW X, NEW n \in Nat, NEW w, w.rev \in Nat, w.rev <= n,
           \A x \in X : x.rev \in Nat /\ x.rev <= n,
           NEW t \in X, t.rev = n,
           NEW who, \A x \in X \cup {w} : x.rev = n => x.who = who
    PROVE  MembersKnown(X, w, who)
<1>1. ASSUME NEW x \in X \cup {w}, \A y \in X : y.rev <= x.rev PROVE x.who = who
  <2>1. x.rev \in Nat /\ x.rev <= n /\ n <= x.rev
    BY <1>1
  <2> QED
    BY <1>1, <2>1
<1> QED
  BY <1>1 DEF MembersKnown

\* What is older than something that is still there may be forgotten.
LEMMA ForgottenMembers ==
    ASSUME NEW X, NEW Y, NEW w, NEW who, MembersKnown(X, w, who),
           w.rev \in Nat, \A x \in X \cup Y : x.rev \in Nat,
           \A y \in Y : \E x \in X \cup {w} : x.rev = y.rev /\ x.who = y.who,
           \A x \in X : \E y \in Y : x.rev <= y.rev
    PROVE  MembersKnown(Y, w, who)
<1>1. ASSUME NEW z \in Y \cup {w}, \A y \in Y : y.rev <= z.rev PROVE z.who = who
  <2>1. PICK x \in X \cup {w} : x.rev = z.rev /\ x.who = z.who
    OBVIOUS
  <2>2. ASSUME NEW u \in X PROVE u.rev <= x.rev
    <3>1. PICK y \in Y : u.rev <= y.rev
      OBVIOUS
    <3>2. u.rev \in Nat /\ y.rev \in Nat /\ z.rev \in Nat /\ y.rev <= z.rev
      BY <1>1
    <3> QED
      BY <2>1, <3>1, <3>2
  <2> QED
    BY <2>1, <2>2 DEF MembersKnown
<1> QED
  BY <1>1 DEF MembersKnown

\* The same for the positions.
LEMMA ForgottenPositions ==
    ASSUME NEW X, NEW Y, NEW pos, PositionsKnown(X, pos),
           \A x \in X \cup Y : x.rev \in Nat,
           \A y \in Y : \E x \in X : x.rev = y.rev /\ x.pos = y.pos,
           \A x \in X : \E y \in Y : x.rev <= y.rev
    PROVE  PositionsKnown(Y, pos)
<1>1. ASSUME NEW z \in Y, \A y \in Y : y.rev <= z.rev PROVE z.pos = pos
  <2>1. PICK x \in X : x.rev = z.rev /\ x.pos = z.pos
    OBVIOUS
  <2>2. ASSUME NEW u \in X PROVE u.rev <= x.rev
    <3>1. PICK y \in Y : u.rev <= y.rev
      OBVIOUS
    <3>2. u.rev \in Nat /\ y.rev \in Nat /\ z.rev \in Nat /\ y.rev <= z.rev
      BY <1>1
    <3> QED
      BY <2>1, <3>1, <3>2
  <2> QED
    BY <2>1, <2>2 DEF PositionsKnown
<1> QED
  BY <1>1 DEF PositionsKnown

(* Chat: what a browser shows and what is under way add up to the history. *)

\* g[k] events of h are shown or sent once k messages of q are applied.
Carries(h, g, q) ==
    /\ g \in [0 .. Len(q) -> 0 .. Len(h)]
    /\ g[Len(q)] = Len(h)
    /\ \A k \in 1 .. Len(q) :
          IF q[k].type = "chat_event" THEN g[k] = g[k - 1] + 1 /\ h[g[k]] = q[k].event
                                      ELSE g[k] = g[k - 1]

Keeps(h, chat, q) ==
    \E g : Carries(h, g, q) /\ chat = LastN(SubSeq(h, 1, g[0]), HistoryLimit)

\* The first elements of a sequence.
LEMMA FirstElements ==
    ASSUME NEW S, NEW s \in Seq(S), NEW n \in 0 .. Len(s)
    PROVE  /\ SubSeq(s, 1, n) \in Seq(S) /\ Len(SubSeq(s, 1, n)) = n
           /\ \A i \in 1 .. n : SubSeq(s, 1, n)[i] = s[i]
<1>1. \A i \in 1 .. n : s[i] \in S
  OBVIOUS
<1>2. n \in Nat /\ 1 \in 1 .. n + 1
  OBVIOUS
<1> QED
  BY <1>1, <1>2, SubSeqProperties

\* An appended element is not among the first ones.
LEMMA FirstOfAppend ==
    ASSUME NEW S, NEW s \in Seq(S), NEW e \in S, NEW n \in 0 .. Len(s)
    PROVE  SubSeq(Append(s, e), 1, n) = SubSeq(s, 1, n)
<1>1. PICK t : t = Append(s, e)
  OBVIOUS
<1>2. t \in Seq(S) /\ n \in 0 .. Len(t) /\ n \in Nat
  BY <1>1
<1>3. PICK x, y : x = SubSeq(t, 1, n) /\ y = SubSeq(s, 1, n)
  OBVIOUS
<1>4. x \in Seq(S) /\ y \in Seq(S) /\ Len(x) = n /\ Len(y) = n
  BY <1>2, <1>3, FirstElements
<1>5. \A i \in 1 .. n : x[i] = t[i] /\ y[i] = s[i]
  BY <1>2, <1>3, FirstElements
<1>6. \A i \in 1 .. n : t[i] = s[i]
  BY <1>1
<1>7. x = y
  BY <1>4, <1>5, <1>6, SeqEqual
<1> QED
  BY <1>1, <1>3, <1>7

\* The first elements and the next one.
LEMMA OneMore ==
    ASSUME NEW S, NEW s \in Seq(S), NEW n \in Nat, n < Len(s)
    PROVE  SubSeq(s, 1, n + 1) = Append(SubSeq(s, 1, n), s[n + 1])
<1>1. n \in 0 .. Len(s) /\ n + 1 \in 0 .. Len(s) /\ s[n + 1] \in S
  OBVIOUS
<1>2. PICK x, y : x = SubSeq(s, 1, n + 1) /\ y = SubSeq(s, 1, n)
  OBVIOUS
<1>3. x \in Seq(S) /\ y \in Seq(S) /\ Len(x) = n + 1 /\ Len(y) = n
  BY <1>1, <1>2, FirstElements
<1>4. (\A i \in 1 .. n + 1 : x[i] = s[i]) /\ (\A i \in 1 .. n : y[i] = s[i])
  BY <1>1, <1>2, FirstElements
<1>5. PICK z : z = Append(y, s[n + 1])
  OBVIOUS
<1>6. z \in Seq(S) /\ Len(z) = n + 1 /\ z[n + 1] = s[n + 1] /\ \A i \in 1 .. n : z[i] = y[i]
  BY <1>1, <1>3, <1>5
<1>7. \A i \in 1 .. n + 1 : x[i] = z[i]
  <2> TAKE i \in 1 .. n + 1
  <2>1. i = n + 1 \/ i \in 1 .. n
    OBVIOUS
  <2> QED
    BY <1>4, <1>6, <2>1
<1>8. x = z
  BY <1>3, <1>5, <1>6, <1>7, SeqEqual
<1> QED
  BY <1>2, <1>5, <1>8

\* A browser that has everything, and one to which nothing is under way.
LEMMA KeepsNone ==
    ASSUME NEW h \in Seq(Events)
    PROVE  Keeps(h, LastN(h, HistoryLimit), <<>>)
<1> DEFINE g == [k \in 0 .. 0 |-> Len(h)]
<1>1. SubSeq(h, 1, g[0]) = h
  <2>1. PICK x : x = SubSeq(h, 1, Len(h))
    OBVIOUS
  <2>2. Len(h) \in 0 .. Len(h)
    OBVIOUS
  <2>3. x \in Seq(Events) /\ Len(x) = Len(h) /\ \A i \in 1 .. Len(h) : x[i] = h[i]
    BY <2>1, <2>2, FirstElements
  <2>4. x = h
    BY <2>3, SeqEqual
  <2> QED
    BY <2>1, <2>4
<1>2. Carries(h, g, <<>>)
  BY DEF Carries
<1> HIDE DEF g
<1> QED
  BY <1>1, <1>2 DEF Keeps

\* A browser to which nothing is under way has everything.
LEMMA KeptNone ==
    ASSUME NEW h \in Seq(Events), NEW chat, Keeps(h, chat, <<>>)
    PROVE  chat = LastN(h, HistoryLimit)
<1>1. PICK g : Carries(h, g, <<>>) /\ chat = LastN(SubSeq(h, 1, g[0]), HistoryLimit)
  BY DEF Keeps
<1>2. g[0] = Len(h)
  BY <1>1 DEF Carries
<1>3. PICK x : x = SubSeq(h, 1, Len(h))
  OBVIOUS
<1>4. Len(h) \in 0 .. Len(h)
  OBVIOUS
<1>5. x \in Seq(Events) /\ Len(x) = Len(h) /\ \A i \in 1 .. Len(h) : x[i] = h[i]
  BY <1>3, <1>4, FirstElements
<1>6. x = h
  BY <1>5, SeqEqual
<1> QED
  BY <1>1, <1>2, <1>3, <1>6

\* Another message is sent.
LEMMA KeepsSnapshot ==
    ASSUME NEW h \in Seq(Events), NEW chat, NEW q \in Seq(Reliable), Keeps(h, chat, q),
           NEW m \in Reliable, m.type # "chat_event"
    PROVE  Keeps(h, chat, Append(q, m))
<1>1. PICK g : Carries(h, g, q) /\ chat = LastN(SubSeq(h, 1, g[0]), HistoryLimit)
  BY DEF Keeps
<1>2. PICK l \in Nat : l = Len(q)
  OBVIOUS
<1>3. PICK s : s = Append(q, m)
  OBVIOUS
<1>4. Len(s) = l + 1 /\ s[l + 1] = m /\ \A k \in 1 .. l : s[k] = q[k]
  BY <1>2, <1>3
<1>5. PICK new : new = [k \in 0 .. l + 1 |-> IF k = l + 1 THEN Len(h) ELSE g[k]]
  OBVIOUS
<1>6. /\ new[l + 1] = Len(h) /\ new[l] = Len(h) /\ new[0] = g[0]
      /\ \A k \in 1 .. l : new[k] = g[k] /\ new[k - 1] = g[k - 1]
  BY <1>1, <1>2, <1>5 DEF Carries
<1>7. new \in [0 .. l + 1 -> 0 .. Len(h)]
  BY <1>1, <1>2, <1>5 DEF Carries
<1>8. ASSUME NEW k \in 1 .. l + 1
      PROVE  IF s[k].type = "chat_event" THEN new[k] = new[k - 1] + 1 /\ h[new[k]] = s[k].event
                                         ELSE new[k] = new[k - 1]
  <2>1. CASE k = l + 1
    <3>1. k - 1 = l
      BY <1>2, <2>1
    <3> QED
      BY <1>4, <1>6, <2>1, <3>1
  <2>2. CASE k # l + 1
    <3>1. k \in 1 .. l
      BY <1>2, <2>2
    <3> QED
      BY <1>1, <1>2, <1>4, <1>6, <3>1 DEF Carries
  <2> QED
    BY <2>1, <2>2
<1>9. Carries(h, new, s)
  BY <1>4, <1>6, <1>7, <1>8 DEF Carries
<1> QED
  BY <1>1, <1>3, <1>6, <1>9 DEF Keeps

\* An event is recorded and sent.
LEMMA KeepsEvent ==
    ASSUME NEW h \in Seq(Events), NEW chat, NEW q \in Seq(Reliable), Keeps(h, chat, q),
           NEW e \in Events
    PROVE  Keeps(Append(h, e), chat, Append(q, ChatMessage(e)))
<1>1. PICK g : Carries(h, g, q) /\ chat = LastN(SubSeq(h, 1, g[0]), HistoryLimit)
  BY DEF Keeps
<1>2. PICK l \in Nat : l = Len(q)
  OBVIOUS
<1>3. PICK s, m, j : s = Append(q, m) /\ m = ChatMessage(e) /\ j = Append(h, e)
  OBVIOUS
<1>4. Len(s) = l + 1 /\ s[l + 1] = m /\ \A k \in 1 .. l : s[k] = q[k]
  BY <1>2, <1>3
<1>5. PICK n \in Nat : n = Len(h)
  OBVIOUS
<1>6. Len(j) = n + 1 /\ j[n + 1] = e /\ \A i \in 1 .. n : j[i] = h[i]
  BY <1>3, <1>5
<1>7. g \in [0 .. l -> 0 .. n] /\ g[l] = n
  BY <1>1, <1>2, <1>5 DEF Carries
<1>8. PICK new : new = [k \in 0 .. l + 1 |-> IF k = l + 1 THEN n + 1 ELSE g[k]]
  OBVIOUS
<1>9. /\ new[l + 1] = n + 1 /\ new[l] = n /\ new[0] = g[0]
      /\ \A k \in 1 .. l : new[k] = g[k] /\ new[k - 1] = g[k - 1]
  BY <1>2, <1>7, <1>8
<1>10. new \in [0 .. l + 1 -> 0 .. n + 1]
  BY <1>7, <1>8
<1>11. m.type = "chat_event" /\ m.event = e
  BY <1>3, ChatMessageOf
<1>12. ASSUME NEW k \in 1 .. l + 1
       PROVE  IF s[k].type = "chat_event" THEN new[k] = new[k - 1] + 1 /\ j[new[k]] = s[k].event
                                          ELSE new[k] = new[k - 1]
  <2>1. CASE k = l + 1
    <3>1. k - 1 = l
      BY <1>2, <2>1
    <3> QED
      BY <1>4, <1>6, <1>9, <1>11, <2>1, <3>1
  <2>2. CASE k # l + 1
    <3>1. k \in 1 .. l /\ k - 1 \in 0 .. l /\ k \in 0 .. l
      BY <1>2, <2>2
    <3>2. IF q[k].type = "chat_event" THEN g[k] = g[k - 1] + 1 /\ h[g[k]] = q[k].event
                                      ELSE g[k] = g[k - 1]
      BY <1>1, <1>2, <3>1 DEF Carries
    <3>3. g[k] \in 0 .. n /\ g[k - 1] \in 0 .. n
      BY <1>7, <3>1
    <3>4. g[k] = g[k - 1] + 1 => g[k] \in 1 .. n
      BY <3>3
    <3>5. s[k] = q[k] /\ new[k] = g[k] /\ new[k - 1] = g[k - 1]
      BY <1>4, <1>9, <3>1
    <3>6. g[k] = g[k - 1] + 1 => j[g[k]] = h[g[k]]
      BY <1>6, <3>4
    <3> QED
      BY <3>2, <3>5, <3>6
  <2> QED
    BY <2>1, <2>2
<1>13. Carries(j, new, s)
  BY <1>4, <1>6, <1>9, <1>10, <1>12 DEF Carries
<1>14. SubSeq(j, 1, new[0]) = SubSeq(h, 1, g[0])
  <2>1. g[0] \in 0 .. Len(h)
    BY <1>2, <1>5, <1>7
  <2> QED
    BY <1>3, <1>9, <2>1, FirstOfAppend
<1> QED
  BY <1>1, <1>3, <1>13, <1>14 DEF Keeps

\* The oldest message arrives.
LEMMA KeepsShift ==
    ASSUME NEW h \in Seq(Events), NEW q \in Seq(Reliable), q # <<>>, NEW g, Carries(h, g, q)
    PROVE  \E new : Carries(h, new, Tail(q)) /\ new[0] = g[1]
<1>1. PICK l \in Nat : Len(q) = l + 1
  <2>1. Len(q) \in Nat /\ Len(q) # 0
    OBVIOUS
  <2> QED
    BY <2>1
<1>2. PICK s : s = Tail(q)
  OBVIOUS
<1>3. Len(s) = l /\ \A k \in 1 .. l : s[k] = q[k + 1]
  BY <1>1, <1>2
<1>4. PICK new : new = [k \in 0 .. l |-> g[k + 1]]
  OBVIOUS
<1>5. new \in [0 .. l -> 0 .. Len(h)] /\ new[l] = Len(h) /\ new[0] = g[1]
  BY <1>1, <1>4 DEF Carries
<1>6. ASSUME NEW k \in 1 .. l
      PROVE  IF s[k].type = "chat_event" THEN new[k] = new[k - 1] + 1 /\ h[new[k]] = s[k].event
                                         ELSE new[k] = new[k - 1]
  <2>1. k + 1 \in 1 .. Len(q) /\ (k + 1) - 1 = k /\ (k - 1) + 1 = k
    BY <1>1
  <2>2. new[k] = g[k + 1] /\ new[k - 1] = g[k]
    BY <1>4, <2>1
  <2> QED
    BY <1>3, <2>1, <2>2 DEF Carries
<1>7. Carries(h, new, s)
  BY <1>3, <1>5, <1>6 DEF Carries
<1> QED
  BY <1>2, <1>5, <1>7

\* A snapshot leaves the chat alone.
LEMMA KeepsAfterSnapshot ==
    ASSUME NEW h \in Seq(Events), NEW chat, NEW q \in Seq(Reliable), q # <<>>,
           Keeps(h, chat, q), Head(q).type # "chat_event"
    PROVE  Keeps(h, chat, Tail(q))
<1>1. PICK g : Carries(h, g, q) /\ chat = LastN(SubSeq(h, 1, g[0]), HistoryLimit)
  BY DEF Keeps
<1>2. PICK new : Carries(h, new, Tail(q)) /\ new[0] = g[1]
  BY <1>1, KeepsShift
<1>3. 1 \in 1 .. Len(q) /\ Head(q) = q[1] /\ 1 - 1 = 0
  OBVIOUS
<1>4. g[1] = g[0]
  BY <1>1, <1>3 DEF Carries
<1> QED
  BY <1>1, <1>2, <1>4 DEF Keeps

\* An event is new to the browser, and the chat it shows goes on by one.
LEMMA KeepsAfterEvent ==
    ASSUME NEW h \in Seq(Events), NEW chat, NEW q \in Seq(Reliable), q # <<>>,
           Keeps(h, chat, q), Head(q).type = "chat_event",
           \A i, k \in DOMAIN h : h[i] = h[k] => i = k
    PROVE  /\ ~Contains(chat, Head(q).event)
           /\ Keeps(h, LastN(Append(chat, Head(q).event), HistoryLimit), Tail(q))
<1>1. PICK g : Carries(h, g, q) /\ chat = LastN(SubSeq(h, 1, g[0]), HistoryLimit)
  BY DEF Keeps
<1>2. PICK new : Carries(h, new, Tail(q)) /\ new[0] = g[1]
  BY <1>1, KeepsShift
<1>3. 1 \in 1 .. Len(q) /\ Head(q) = q[1] /\ 1 - 1 = 0 /\ 0 \in 0 .. Len(q) /\ 1 \in 0 .. Len(q)
  OBVIOUS
<1>4. g[1] = g[0] + 1 /\ h[g[1]] = Head(q).event
  BY <1>1, <1>3 DEF Carries
<1>5. PICK n \in Nat : n = g[0] /\ n + 1 = g[1] /\ n < Len(h) /\ n + 1 \in DOMAIN h /\ n \in 0 .. Len(h)
  <2>1. g[0] \in 0 .. Len(h) /\ g[1] \in 0 .. Len(h)
    BY <1>1, <1>3 DEF Carries
  <2> QED
    BY <1>4, <2>1
<1>6. PICK x, e : x = SubSeq(h, 1, n) /\ e = h[n + 1]
  OBVIOUS
<1>7. x \in Seq(Events) /\ Len(x) = n /\ e \in Events /\ \A i \in 1 .. n : x[i] = h[i]
  BY <1>5, <1>6, FirstElements
<1>8. HistoryLimit \in Nat \ {0}
  BY CafeDeliveryAssumption DEF CafeDeliveryAssumption
<1>9. LastN(Append(chat, e), HistoryLimit) = LastN(SubSeq(h, 1, n + 1), HistoryLimit)
  <2>1. SubSeq(h, 1, n + 1) = Append(x, e)
    BY <1>5, <1>6, OneMore
  <2>2. chat = LastN(x, HistoryLimit)
    BY <1>1, <1>5, <1>6
  <2>3. LastN(Append(LastN(x, HistoryLimit), e), HistoryLimit) = LastN(Append(x, e), HistoryLimit)
    <3>1. x \in Seq(Events) /\ HistoryLimit \in Nat \ {0} /\ e \in Events
      BY <1>7, <1>8
    <3>2. PICK H : H = HistoryLimit
      OBVIOUS
    <3>3. LastN(Append(LastN(x, H), e), H) = LastN(Append(x, e), H)
      BY <3>1, <3>2, LastOfLast
    <3> QED
      BY <3>2, <3>3
  <2> QED
    BY <2>1, <2>2, <2>3, Zenon
<1>10. ASSUME NEW i \in DOMAIN chat, chat[i] = e PROVE FALSE
  <2>1. chat = LastN(x, HistoryLimit)
    BY <1>1, <1>5, <1>6
  <2>2. \E k \in 1 .. n : chat[i] = x[k]
    <3>1. CASE n > HistoryLimit
      <4>1. chat \in Seq(Events) /\ Len(chat) = HistoryLimit
        BY <1>7, <1>8, <2>1, <3>1, LastElements
      <4>2. i \in 1 .. HistoryLimit
        BY <1>10, <4>1
      <4>3. chat[i] = x[n - HistoryLimit + i]
        BY <1>7, <1>8, <2>1, <3>1, <4>2, LastElement
      <4>4. n - HistoryLimit + i \in 1 .. n
        BY <1>8, <3>1, <4>2
      <4> QED
        BY <4>3, <4>4
    <3>2. CASE n <= HistoryLimit
      <4>1. chat = x
        BY <1>7, <1>8, <2>1, <3>2, LastElements
      <4> QED
        BY <1>7, <1>10, <4>1
    <3> QED
      BY <1>8, <3>1, <3>2
  <2>3. PICK k \in 1 .. n : h[k] = h[n + 1]
    BY <1>6, <1>7, <1>10, <2>2
  <2>4. k \in DOMAIN h /\ k # n + 1
    BY <1>5
  <2> QED
    BY <1>5, <2>3, <2>4
<1>11. ~Contains(chat, e)
  <2>1. chat \in Seq(Events)
    <3>1. chat = LastN(x, HistoryLimit)
      BY <1>1, <1>5, <1>6
    <3> QED
      BY <1>7, <1>8, <3>1, LastElements
  <2>2. DOMAIN chat = 1 .. Len(chat)
    BY <2>1
  <2> QED
    BY <1>10, <2>2 DEF Contains
<1>12. Keeps(h, LastN(Append(chat, e), HistoryLimit), Tail(q))
  BY <1>2, <1>5, <1>9 DEF Keeps
<1> QED
  BY <1>4, <1>5, <1>6, <1>11, <1>12

(* A browser in step with its room. *)

InStep(v, q, w, seen, r) ==
    /\ \A x \in Shown(v, q) : x.rev <= r.rev
    /\ MembersKnown(Shown(v, q), w, Who(r))
    /\ ~v.resync /\ ~r.dirty =>
          PositionsKnown(Shown(v, q) \cup (IF seen THEN {} ELSE {w}), r.pos)

\* The revisions that are compared are numbers.
LEMMA ShownRevisions ==
    ASSUME NEW v \in Views, NEW q \in Seq(Reliable)
    PROVE  \A x \in Shown(v, q) : x.rev \in Nat
BY SnapsAreSnapshots DEF Shown, Snapshots, Views

\* A snapshot of the room is sent.
LEMMA InStepPublished ==
    ASSUME NEW v \in Views, NEW q \in Seq(Reliable), NEW w \in Movements, NEW seen \in BOOLEAN,
           NEW r \in Rooms, NEW s \in Rooms, InStep(v, q, w, seen, r), w.rev <= r.rev,
           s.rev = r.rev + 1
    PROVE  InStep(v, Append(q, Snapshot(s)), w, seen, s)
<1>1. PICK m \in Snapshots : /\ m = Snapshot(s) /\ m \in Reliable /\ m.type = "snapshot"
                             /\ m.rev = s.rev /\ m.who = Who(s) /\ m.pos = s.pos
  BY SnapshotOf
<1>2. PICK X, Y : X = Shown(v, q) /\ Y = Shown(v, Append(q, m))
  OBVIOUS
<1>3. Y = X \cup {m}
  BY <1>1, <1>2, SnapsOfAppend DEF Shown
<1>4. \A x \in X : x.rev \in Nat /\ x.rev <= r.rev
  BY <1>2, ShownRevisions DEF InStep
<1>5. PICK n \in Nat : n = s.rev
  BY DEF Rooms
<1>6. /\ r.rev \in Nat /\ w.rev \in Nat /\ w.rev < n /\ w.rev <= n /\ m.rev = n /\ m \in Y
      /\ \A x \in X : x.rev < n
  BY <1>1, <1>3, <1>4, <1>5 DEF Rooms, Movements
<1>7. \A x \in Y : x.rev \in Nat /\ x.rev <= n
  BY <1>3, <1>4, <1>6
<1>8. \A x \in Y \cup {w} : x.rev = n => x.who = Who(s) /\ x.pos = s.pos
  BY <1>1, <1>3, <1>6
<1>9. MembersKnown(Y, w, Who(s))
  BY <1>6, <1>7, <1>8, NewestMembersKnown
<1>10. PICK Z : Z = Y \cup (IF seen THEN {} ELSE {w})
  OBVIOUS
<1>11. m \in Z /\ (\A x \in Z : x.rev \in Nat /\ x.rev <= n) /\ (\A x \in Z : x.rev = n => x.pos = s.pos)
  BY <1>6, <1>7, <1>8, <1>10
<1>12. PositionsKnown(Z, s.pos)
  BY <1>6, <1>11, NewestKnown
<1> QED
  BY <1>1, <1>2, <1>5, <1>7, <1>9, <1>10, <1>12 DEF InStep

\* A chat event changes nothing that a snapshot carries.
LEMMA InStepTold ==
    ASSUME NEW v \in Views, NEW q \in Seq(Reliable), NEW w, NEW seen,
           NEW r \in Rooms, NEW s \in Rooms, InStep(v, q, w, seen, r), NEW e \in Events,
           s.rev = r.rev, Who(s) = Who(r), s.pos = r.pos, s.dirty = r.dirty
    PROVE  InStep(v, Append(q, ChatMessage(e)), w, seen, s)
<1>1. Shown(v, Append(q, ChatMessage(e))) = Shown(v, q)
  BY ChatMessageOf, SnapsOfAppend DEF Shown
<1> QED
  BY <1>1 DEF InStep

\* A player moved.
LEMMA InStepMoved ==
    ASSUME NEW v, NEW q, NEW w, NEW seen, NEW r, NEW s, InStep(v, q, w, seen, r),
           s.rev = r.rev, Who(s) = Who(r), s.dirty = TRUE
    PROVE  InStep(v, q, w, seen, s)
BY DEF InStep

\* The tick sends a movement update, which the socket has not seen.
LEMMA InStepFlushed ==
    ASSUME NEW v \in Views, NEW q \in Seq(Reliable), NEW w, NEW seen,
           NEW r \in Rooms, NEW s \in Rooms, InStep(v, q, w, seen, r),
           NEW m \in Movements, s.rev = r.rev + 1, Who(s) = Who(r),
           m.rev = s.rev, m.who = Who(s), m.pos = s.pos
    PROVE  InStep(v, q, m, FALSE, s)
<1>1. PICK X : X = Shown(v, q)
  OBVIOUS
<1>2. \A x \in X : x.rev \in Nat /\ x.rev <= r.rev
  BY <1>1, ShownRevisions DEF InStep
<1>3. PICK n \in Nat : n = s.rev
  BY DEF Rooms
<1>4. r.rev \in Nat /\ \A x \in X : x.rev < n /\ x.rev <= n
  BY <1>2, <1>3 DEF Rooms
<1>5. MembersKnown(X, w, Who(r))
  BY <1>1 DEF InStep
<1>6. MembersKnown(X, m, Who(s))
  BY <1>5 DEF MembersKnown
<1>7. PICK Z : Z = X \cup {m}
  OBVIOUS
<1>8. m \in Z /\ (\A x \in Z : x.rev \in Nat /\ x.rev <= n) /\ (\A x \in Z : x.rev = n => x.pos = s.pos)
  BY <1>2, <1>3, <1>4, <1>7
<1>9. PositionsKnown(Z, s.pos)
  BY <1>3, <1>8, NewestKnown
<1> QED
  BY <1>1, <1>3, <1>4, <1>6, <1>7, <1>9 DEF InStep

\* The oldest reliable message is applied.
LEMMA InStepReceived ==
    ASSUME NEW v \in Views, NEW q \in Seq(Reliable), q # <<>>, NEW w \in Movements,
           NEW seen \in BOOLEAN, NEW r \in Rooms, InStep(v, q, w, seen, r)
    PROVE  InStep(Applied(v, Head(q)), Tail(q), w, seen, r)
<1>1. PICK m \in Reliable : m = Head(q)
  OBVIOUS
<1>2. PICK u, t : u = Applied(v, m) /\ t = Tail(q)
  OBVIOUS
<1>3. t \in Seq(Reliable)
  BY <1>2
<1>4. PICK X, Y : X = Shown(v, q) /\ Y = Shown(u, t)
  OBVIOUS
<1>5. r.rev \in Nat /\ w.rev \in Nat
  BY DEF Rooms, Movements
<1>6. CASE m \in Snapshots
  <2>1. u \in Views /\ u.resync = v.resync
    BY <1>2, <1>6, AppliedSnapshot
  <2>2. \/ u.rev = m.rev /\ u.who = m.who /\ u.pos = m.pos /\ v.rev <= u.rev
        \/ u = v /\ m.rev <= u.rev
    <3>1. m.rev \in Nat /\ v.rev \in Nat
      BY <1>6 DEF Snapshots, Views
    <3>2. CASE m.rev > v.rev
      BY <1>2, <1>6, <3>1, <3>2, AppliedSnapshot
    <3>3. CASE ~(m.rev > v.rev)
      BY <1>2, <1>6, <3>1, <3>3, AppliedSnapshot
    <3> QED
      BY <3>2, <3>3
  <2>3. m.type = "snapshot"
    BY <1>6 DEF Snapshots
  <2>4. X = {v, m} \cup Snaps(t) /\ Y = {u} \cup Snaps(t)
    BY <1>1, <1>2, <1>4, <2>3, SnapsOfTail DEF Shown
  <2>5. (\A x \in X : x.rev \in Nat) /\ (\A y \in Y : y.rev \in Nat)
    BY <1>3, <1>4, <2>1, ShownRevisions
  <2>6. \A y \in Y : \E x \in X : x.rev = y.rev /\ x.who = y.who /\ x.pos = y.pos
    <3>1. v \in X /\ m \in X /\ Snaps(t) \subseteq X
      BY <2>4
    <3>2. \E x \in X : x.rev = u.rev /\ x.who = u.who /\ x.pos = u.pos
      BY <2>2, <3>1
    <3> QED
      BY <2>4, <3>1, <3>2
  <2>7. \A x \in X : \E y \in Y : x.rev <= y.rev
    <3>1. u \in Y /\ u.rev \in Nat /\ v.rev \in Nat /\ m.rev \in Nat /\ Snaps(t) \subseteq Y
      BY <2>4, <2>5
    <3>2. v.rev <= u.rev /\ m.rev <= u.rev
      BY <2>2, <3>1
    <3>3. \A x \in Snaps(t) : x \in Y /\ x.rev <= x.rev
      BY <2>5, <3>1
    <3> QED
      BY <2>4, <3>1, <3>2, <3>3
  <2>8. \A y \in Y : y.rev <= r.rev
    BY <1>4, <2>6 DEF InStep
  <2>9. MembersKnown(Y, w, Who(r))
    <3>1. MembersKnown(X, w, Who(r))
      BY <1>4 DEF InStep
    <3>2. \A y \in Y : \E x \in X \cup {w} : x.rev = y.rev /\ x.who = y.who
      BY <2>6
    <3>3. \A x \in X \cup Y : x.rev \in Nat
      BY <2>5
    <3> QED
      BY <1>5, <2>7, <3>1, <3>2, <3>3, ForgottenMembers
  <2>10. ASSUME ~u.resync, ~r.dirty PROVE PositionsKnown(Y \cup (IF seen THEN {} ELSE {w}), r.pos)
    <3>1. PICK C, D, W : /\ W = (IF seen THEN {} ELSE {w}) /\ C = X \cup W /\ D = Y \cup W
      OBVIOUS
    <3>2. PositionsKnown(C, r.pos)
      BY <1>4, <2>1, <2>10, <3>1 DEF InStep
    <3>3. \A x \in C \cup D : x.rev \in Nat
      BY <1>5, <2>5, <3>1
    <3>4. \A y \in D : \E x \in C : x.rev = y.rev /\ x.pos = y.pos
      BY <2>6, <3>1
    <3>5. \A x \in W : x \in D /\ x.rev <= x.rev
      BY <3>1, <3>3
    <3>6. \A x \in C : \E y \in D : x.rev <= y.rev
      BY <2>7, <3>1, <3>5
    <3>7. PositionsKnown(D, r.pos)
      BY <3>2, <3>3, <3>4, <3>6, ForgottenPositions
    <3> QED
      BY <3>1, <3>7
  <2> QED
    BY <1>1, <1>2, <1>4, <2>8, <2>9, <2>10 DEF InStep
<1>7. CASE m \in ChatEvents
  <2>1. u \in Views /\ u.rev = v.rev /\ u.who = v.who /\ u.pos = v.pos /\ u.resync = v.resync
    BY <1>2, <1>7, AppliedChat
  <2>2. m.type # "snapshot"
    BY <1>7 DEF ChatEvents
  <2>3. X = {v} \cup Snaps(t) /\ Y = {u} \cup Snaps(t)
    BY <1>1, <1>2, <1>4, <2>2, SnapsOfTail DEF Shown
  <2>4. (\A y \in Y : \E x \in X : x.rev = y.rev /\ x.who = y.who /\ x.pos = y.pos)
    BY <2>1, <2>3
  <2>5. (\A x \in X : \E y \in Y : x.rev = y.rev /\ x.who = y.who /\ x.pos = y.pos)
    BY <2>1, <2>3
  <2>6. \A y \in Y : y.rev <= r.rev
    BY <1>4, <2>4 DEF InStep
  <2>7. MembersKnown(Y, w, Who(r))
    <3>1. MembersKnown(X, w, Who(r))
      BY <1>4 DEF InStep
    <3>2. ASSUME NEW z \in Y \cup {w}, \A y \in Y : y.rev <= z.rev PROVE z.who = Who(r)
      <4>1. PICK x \in X \cup {w} : x.rev = z.rev /\ x.who = z.who
        BY <2>4
      <4>2. \A y \in X : y.rev <= x.rev
        BY <2>5, <3>2, <4>1
      <4> QED
        BY <3>1, <4>1, <4>2 DEF MembersKnown
    <3> QED
      BY <3>2 DEF MembersKnown
  <2>8. ASSUME ~u.resync, ~r.dirty PROVE PositionsKnown(Y \cup (IF seen THEN {} ELSE {w}), r.pos)
    <3>1. PICK C, D, W : /\ W = (IF seen THEN {} ELSE {w}) /\ C = X \cup W /\ D = Y \cup W
      OBVIOUS
    <3>2. PositionsKnown(C, r.pos)
      BY <1>4, <2>1, <2>8, <3>1 DEF InStep
    <3>3. \A y \in D : \E x \in C : x.rev = y.rev /\ x.pos = y.pos
      BY <2>4, <3>1
    <3>4. \A x \in C : \E y \in D : x.rev = y.rev
      BY <2>5, <3>1
    <3>5. ASSUME NEW z \in D, \A y \in D : y.rev <= z.rev PROVE z.pos = r.pos
      <4>1. PICK x \in C : x.rev = z.rev /\ x.pos = z.pos
        BY <3>3
      <4>2. \A y \in C : y.rev <= x.rev
        BY <3>4, <3>5, <4>1
      <4> QED
        BY <3>2, <4>1, <4>2 DEF PositionsKnown
    <3>6. PositionsKnown(D, r.pos)
      BY <3>5 DEF PositionsKnown
    <3> QED
      BY <3>1, <3>6
  <2> QED
    BY <1>1, <1>2, <1>4, <2>6, <2>7, <2>8 DEF InStep
<1> QED
  BY <1>6, <1>7 DEF Reliable

\* The movement update is applied, or makes the browser ask for a resynchronisation.
LEMMA InStepOvertaken ==
    ASSUME NEW v \in Views, NEW q \in Seq(Reliable), NEW w \in Movements,
           NEW r \in Rooms, InStep(v, q, w, FALSE, r), w.rev <= r.rev
    PROVE  InStep(Applied(v, w), q, w, TRUE, r)
<1>1. PICK u : u = Applied(v, w)
  OBVIOUS
<1>2. PICK X, Y : X = Shown(v, q) /\ Y = Shown(u, q)
  OBVIOUS
<1>3. u \in Views /\ u.who = v.who /\ (v.resync => u.resync)
  BY <1>1, AppliedMovement
<1>4. \/ u.rev = w.rev /\ u.pos = w.pos /\ w.who = v.who /\ v.rev <= u.rev
      \/ u.rev = v.rev /\ u.resync
      \/ u = v /\ w.rev <= u.rev
  <2>1. w.rev \in Nat /\ v.rev \in Nat
    BY DEF Movements, Views
  <2>2. CASE w.rev > v.rev /\ w.who = v.who
    BY <1>1, <2>1, <2>2, AppliedMovement
  <2>3. CASE w.rev > v.rev /\ w.who # v.who
    BY <1>1, <2>1, <2>3, AppliedMovement
  <2>4. CASE ~(w.rev > v.rev)
    BY <1>1, <2>1, <2>4, AppliedMovement
  <2> QED
    BY <2>2, <2>3, <2>4
<1>5. X = {v} \cup Snaps(q) /\ Y = {u} \cup Snaps(q)
  BY <1>2 DEF Shown
<1>6. (\A x \in X : x.rev \in Nat) /\ (\A y \in Y : y.rev \in Nat) /\ w.rev \in Nat /\ r.rev \in Nat
  BY <1>2, <1>3, ShownRevisions DEF Movements, Rooms
<1>7. /\ u.rev = v.rev \/ u.rev = w.rev
      /\ v.rev \in Nat /\ u.rev \in Nat /\ v.rev <= u.rev
  BY <1>4, <1>5, <1>6
<1>8. \A y \in Y : y.rev <= r.rev
  BY <1>2, <1>5, <1>7 DEF InStep
<1>9. \A x \in Snaps(q) : x \in X /\ x \in Y /\ x.rev <= x.rev
  BY <1>5, <1>6
<1>10. \A x \in X : \E y \in Y : x.rev <= y.rev
  BY <1>5, <1>7, <1>9
<1>11. MembersKnown(Y, w, Who(r))
  <2>1. MembersKnown(X, w, Who(r))
    BY <1>2 DEF InStep
  <2>2. \E x \in X \cup {w} : x.rev = u.rev /\ x.who = u.who
    BY <1>3, <1>4, <1>5
  <2>3. \A y \in Y : \E x \in X \cup {w} : x.rev = y.rev /\ x.who = y.who
    BY <1>5, <1>9, <2>2
  <2>4. \A x \in X \cup Y : x.rev \in Nat
    BY <1>6
  <2> QED
    BY <1>6, <1>10, <2>1, <2>3, <2>4, ForgottenMembers
<1>12. ASSUME ~u.resync, ~r.dirty PROVE PositionsKnown(Y, r.pos)
  <2>1. PICK C : C = X \cup {w}
    OBVIOUS
  <2>2. PositionsKnown(C, r.pos)
    BY <1>2, <1>3, <1>12, <2>1 DEF InStep
  <2>3. \E x \in C : x.rev = u.rev /\ x.pos = u.pos
    BY <1>4, <1>5, <1>12, <2>1
  <2>4. \A y \in Y : \E x \in C : x.rev = y.rev /\ x.pos = y.pos
    BY <1>5, <1>9, <2>1, <2>3
  <2>5. w.rev <= u.rev /\ u \in Y
    BY <1>4, <1>5, <1>6, <1>12
  <2>6. \A x \in C : \E y \in Y : x.rev <= y.rev
    BY <1>10, <2>1, <2>5
  <2>7. \A x \in C \cup Y : x.rev \in Nat
    BY <1>6, <2>1
  <2> QED
    BY <2>2, <2>4, <2>6, <2>7, ForgottenPositions
<1>13. Y \cup (IF TRUE THEN {} ELSE {w}) = Y
  OBVIOUS
<1> QED
  BY <1>1, <1>2, <1>8, <1>11, <1>12, <1>13 DEF InStep

\* A socket that joins has the snapshot that its join sends.
LEMMA InStepJoined ==
    ASSUME NEW r \in Rooms, NEW s \in Seq(Events), NEW w \in Movements, w.rev < r.rev,
           NEW seen \in BOOLEAN
    PROVE  InStep(Welcomed(r, s), <<Snapshot(r)>>, w, seen, r)
<1>1. PICK m \in Snapshots : /\ m = Snapshot(r) /\ m \in Reliable /\ m.type = "snapshot"
                             /\ m.rev = r.rev /\ m.who = Who(r) /\ m.pos = r.pos
  BY SnapshotOf
<1>2. PICK v \in Views : v = Welcomed(r, s) /\ v.rev = r.rev /\ v.who = Who(r) /\ v.pos = r.pos
  BY WelcomedView
<1>3. PICK X : X = Shown(v, <<m>>)
  OBVIOUS
<1>4. X = {v, m}
  <2>1. Append(<<>>, m) = <<m>> /\ <<>> \in Seq(Reliable)
    BY <1>1
  <2>2. Snaps(<<m>>) = Snaps(<<>>) \cup {m}
    <3>1. PICK q \in Seq(Reliable) : q = <<>>
      BY <2>1
    <3>2. Snaps(Append(q, m)) = Snaps(q) \cup {m}
      BY <1>1, SnapsOfAppend
    <3> QED
      BY <2>1, <3>1, <3>2
  <2> QED
    BY <1>3, <2>2, SnapsOfNone DEF Shown
<1>5. PICK n \in Nat : n = r.rev
  BY DEF Rooms
<1>6. w.rev \in Nat /\ w.rev <= n /\ w.rev # n
  BY <1>5 DEF Movements
<1>7. v \in X /\ v.rev = n /\ \A x \in X : x.rev \in Nat /\ x.rev <= n
  BY <1>1, <1>2, <1>4, <1>5
<1>8. \A x \in X \cup {w} : x.rev = n => x.who = Who(r) /\ x.pos = r.pos
  BY <1>1, <1>2, <1>4, <1>6
<1>9. MembersKnown(X, w, Who(r))
  BY <1>6, <1>7, <1>8, NewestMembersKnown
<1>10. PICK Z : Z = X \cup (IF seen THEN {} ELSE {w})
  OBVIOUS
<1>11. v \in Z /\ (\A x \in Z : x.rev \in Nat /\ x.rev <= n) /\ (\A x \in Z : x.rev = n => x.pos = r.pos)
  BY <1>6, <1>7, <1>8, <1>10
<1>12. PositionsKnown(Z, r.pos)
  BY <1>7, <1>11, NewestKnown
<1> QED
  BY <1>1, <1>2, <1>3, <1>5, <1>7, <1>9, <1>10, <1>12 DEF InStep

(* The types are kept by every step. *)

\* What is sent is reliable.
LEMMA Messages ==
    ASSUME NEW r \in Rooms, NEW e \in Events
    PROVE  /\ <<Snapshot(r)>> \in Seq(Reliable) /\ <<ChatMessage(e)>> \in Seq(Reliable)
           /\ <<Snapshot(r), ChatMessage(e)>> \in Seq(Reliable)
           /\ \A q \in Seq(Reliable) :
                /\ q \o <<Snapshot(r)>> = Append(q, Snapshot(r))
                /\ q \o <<ChatMessage(e)>> = Append(q, ChatMessage(e))
                /\ q \o <<Snapshot(r), ChatMessage(e)>>
                     = Append(Append(q, Snapshot(r)), ChatMessage(e))
<1>1. PICK a \in Reliable, b \in Reliable : a = Snapshot(r) /\ b = ChatMessage(e)
  BY SnapshotOf, ChatMessageOf
<1>2. <<a>> \in Seq(Reliable) /\ <<b>> \in Seq(Reliable) /\ <<a, b>> \in Seq(Reliable)
  OBVIOUS
<1>3. ASSUME NEW q \in Seq(Reliable)
      PROVE  q \o <<a>> = Append(q, a) /\ q \o <<b>> = Append(q, b)
  OBVIOUS
<1>4. ASSUME NEW q \in Seq(Reliable) PROVE q \o <<a, b>> = Append(Append(q, a), b)
  OBVIOUS
<1> QED
  BY <1>1, <1>2, <1>3, <1>4

\* The room and the messages of a join, of a departure and of a change.
Joined(c, p) == Snapshotted([room EXCEPT !.members[p] = c])
LeftBy(p) == [room EXCEPT !.members[p] = None]
Changed == Snapshotted([room EXCEPT !.body = @ + 1])

\* The events of the model.
LEMMA EventsAreTyped ==
    ASSUME NEW c \in Sockets, NEW k \in Nat
    PROVE  <<"joined", c>> \in Events /\ <<"left", c>> \in Events /\ <<"message", k>> \in Events
BY DEF Events

\* The room that a join announces.
LEMMA JoinedRoom ==
    ASSUME room \in Rooms, NEW c \in Sockets, NEW p \in Players
    PROVE  /\ Joined(c, p) \in Rooms
           /\ Joined(c, p).rev = room.rev + 1 /\ Joined(c, p).dirty = FALSE
           /\ Joined(c, p).chat = room.chat
           /\ Joined(c, p).members = [room.members EXCEPT ![p] = c]
<1>1. PICK s : s = [room EXCEPT !.members[p] = c]
  OBVIOUS
<1>2. /\ s \in Rooms /\ s.rev = room.rev /\ s.chat = room.chat
      /\ s.members = [room.members EXCEPT ![p] = c]
  BY <1>1, MembersOf
<1> QED
  BY <1>1, <1>2, SnapshottedRoom DEF Joined

\* The room that a departure leaves.
LEMMA LeftRoom ==
    ASSUME room \in Rooms, NEW p \in Players
    PROVE  /\ LeftBy(p) \in Rooms
           /\ LeftBy(p).rev = room.rev /\ LeftBy(p).dirty = room.dirty
           /\ LeftBy(p).pos = room.pos /\ LeftBy(p).chat = room.chat
           /\ LeftBy(p).members = [room.members EXCEPT ![p] = None]
BY MembersOf DEF LeftBy

\* The room that a change announces.
LEMMA ChangedRoom ==
    ASSUME room \in Rooms
    PROVE  /\ Changed \in Rooms
           /\ Changed.rev = room.rev + 1 /\ Changed.dirty = FALSE
           /\ Changed.pos = room.pos /\ Changed.chat = room.chat
           /\ Changed.members = room.members
<1>1. PICK s : s = [room EXCEPT !.body = @ + 1]
  OBVIOUS
<1>2. s = [rev |-> room.rev, dirty |-> room.dirty, body |-> room.body + 1, pos |-> room.pos,
           chat |-> room.chat, members |-> room.members]
  BY <1>1 DEF Rooms
<1>3. /\ s \in Rooms /\ s.rev = room.rev /\ s.chat = room.chat /\ s.pos = room.pos
      /\ s.members = room.members
  BY <1>2 DEF Rooms
<1> QED
  BY <1>1, <1>3, SnapshottedRoom DEF Changed

\* The room after a movement and after a flush.
LEMMA MovedRoom ==
    ASSUME room \in Rooms
    PROVE  LET s == [room EXCEPT !.pos = @ + 1, !.dirty = TRUE]
           IN  s \in Rooms /\ s.rev = room.rev /\ s.dirty = TRUE /\ s.chat = room.chat
               /\ s.members = room.members
<1>1. PICK s : s = [room EXCEPT !.pos = @ + 1]
  OBVIOUS
<1>2. s = [rev |-> room.rev, dirty |-> room.dirty, body |-> room.body, pos |-> room.pos + 1,
           chat |-> room.chat, members |-> room.members]
  BY <1>1 DEF Rooms
<1>3. s \in Rooms /\ s.rev = room.rev /\ s.chat = room.chat /\ s.members = room.members
  BY <1>2 DEF Rooms
<1>4. [s EXCEPT !.dirty = TRUE]
        = [rev |-> s.rev, dirty |-> TRUE, body |-> s.body, pos |-> s.pos, chat |-> s.chat,
           members |-> s.members]
  BY <1>3, FlagSet, Zenon
<1>5. [room EXCEPT !.pos = @ + 1, !.dirty = TRUE] = [s EXCEPT !.dirty = TRUE]
  BY <1>1
<1> QED
  BY <1>3, <1>4, <1>5 DEF Rooms

\* A flush numbers the movement update that it sends.
LEMMA FlushedRoom ==
    ASSUME room \in Rooms
    PROVE  LET s == [room EXCEPT !.rev = @ + 1, !.dirty = FALSE]
           IN  /\ s \in Rooms /\ s.rev = room.rev + 1 /\ s.chat = room.chat
               /\ s.members = room.members
               /\ MovementOf(s) \in Movements /\ MovementOf(s).rev = s.rev
               /\ MovementOf(s).who = Who(s) /\ MovementOf(s).pos = s.pos
<1>1. PICK s : s = Snapshotted(room)
  OBVIOUS
<1>2. s \in Rooms /\ s.rev = room.rev + 1 /\ s.chat = room.chat /\ s.members = room.members
  BY <1>1, SnapshottedRoom
<1>3. s = [room EXCEPT !.rev = @ + 1, !.dirty = FALSE]
  BY <1>1 DEF Snapshotted
<1>4. Who(s) \in SUBSET Players
  BY DEF Who
<1>5. /\ MovementOf(s) \in Movements /\ MovementOf(s).rev = s.rev
      /\ MovementOf(s).who = Who(s) /\ MovementOf(s).pos = s.pos
  BY <1>2, <1>4 DEF MovementOf, Movements, Rooms
<1> QED
  BY <1>2, <1>3, <1>5

\* What a join does.
LEMMA JoinEffect ==
    ASSUME DeliveryTypeOK, NEW c \in Sockets, NEW p \in Players, JoinRoom(c, p)
    PROVE  /\ task[c] = "new" /\ task' = [task EXCEPT ![c] = "ready"]
           /\ owner' = [owner EXCEPT ![c] = p]
           /\ client' = [client EXCEPT ![c] = Welcomed(Joined(c, p), room.chat)]
           /\ unseen' = unseen \ {c} /\ watch' = watch /\ said' = said
           /\ \/ /\ room' = Recorded(Joined(c, p), <<"joined", c>>)
                 /\ Broadcast(Subscribers \cup {c},
                              <<Snapshot(Joined(c, p)), ChatMessage(<<"joined", c>>)>>)
              \/ /\ room' = Joined(c, p)
                 /\ Broadcast(Subscribers \cup {c}, <<Snapshot(Joined(c, p))>>)
<1>1. PICK x, y, a : x = Snapshot(Joined(c, p)) /\ y = ChatMessage(<<"joined", c>>) /\ a = Joined(c, p)
  OBVIOUS
<1>2. <<x>> \o <<y>> = <<x, y>> /\ <<x>> \o <<>> = <<x>>
  <2>1. <<x>> \in Seq({x, y}) /\ <<y>> \in Seq({x, y})
    OBVIOUS
  <2>2. PICK s, u : s = <<x>> \o <<y>> /\ u = <<x, y>>
    OBVIOUS
  <2>3. s \in Seq({x, y}) /\ Len(s) = 2 /\ s[1] = x /\ s[2] = y
    BY <2>1, <2>2
  <2>4. u \in Seq({x, y}) /\ Len(u) = 2 /\ u[1] = x /\ u[2] = y
    BY <2>2
  <2>5. \A i \in 1 .. 2 : i = 1 \/ i = 2
    OBVIOUS
  <2>6. \A i \in 1 .. 2 : s[i] = u[i]
    BY <2>3, <2>4, <2>5
  <2>7. s = u
    BY <2>3, <2>4, <2>6, SeqEqual
  <2>8. <<x>> \o <<>> = <<x>>
    BY <2>1, ConcatEmptySeq
  <2> QED
    BY <2>2, <2>7, <2>8
<1>3. a = Snapshotted([room EXCEPT !.members[p] = c])
  BY <1>1 DEF Joined
<1>4. /\ room' = IF room.members[p] = None THEN Recorded(a, <<"joined", c>>) ELSE a
      /\ Broadcast(Subscribers \cup {c},
                   <<x>> \o IF room.members[p] = None THEN <<y>> ELSE <<>>)
  BY <1>1, <1>3 DEF JoinRoom, JoinReceivers
<1>5. CASE room.members[p] = None
  BY <1>1, <1>2, <1>3, <1>4, <1>5 DEF JoinRoom
<1>6. CASE room.members[p] # None
  BY <1>1, <1>2, <1>3, <1>4, <1>6 DEF JoinRoom
<1> QED
  BY <1>5, <1>6

\* What a departure does.
LEMMA LeaveEffect ==
    ASSUME DeliveryTypeOK, NEW c \in Sockets, Leave(c)
    PROVE  /\ Open(c) /\ task' = [task EXCEPT ![c] = "closed"]
           /\ watch' = watch /\ owner' = owner /\ unseen' = unseen /\ client' = client
           /\ said' = said
           /\ \/ /\ Who(LeftBy(owner[c])) = {}
                 /\ room' = Recorded([LeftBy(owner[c]) EXCEPT !.dirty = FALSE], <<"left", c>>)
                 /\ Broadcast(Subscribers \ {c}, <<ChatMessage(<<"left", c>>)>>)
              \/ /\ room' = Recorded(Snapshotted(LeftBy(owner[c])), <<"left", c>>)
                 /\ Broadcast(Subscribers \ {c},
                              <<Snapshot(Snapshotted(LeftBy(owner[c]))),
                                ChatMessage(<<"left", c>>)>>)
              \/ UNCHANGED <<room, queue, lagged>>
BY DEF Leave, LeftBy

\* Steps that change neither the room nor a queue nor what a browser shows.
Quiet ==
    /\ UNCHANGED <<room, watch, owner, queue, lagged, unseen, client, said>>
    /\ task' \in [Sockets -> {"new", "ready", "between", "closed"}]
    /\ \A c \in Sockets : /\ task'[c] = "new" <=> task[c] = "new"
                          /\ task[c] = "closed" => task'[c] = "closed"
                          /\ task'[c] \in {"ready", "between"} => Open(c)

Flushes ==
    /\ room' = [room EXCEPT !.rev = @ + 1, !.dirty = FALSE]
    /\ watch' = MovementOf(room')
    /\ unseen' = unseen \cup Subscribers
    /\ UNCHANGED <<task, owner, queue, lagged, client, said>>

\* A stuttering step is quiet.
LEMMA QuietStutter ==
    ASSUME DeliveryTypeOK, UNCHANGED deliveryVars
    PROVE  Quiet
<1>1. task \in [Sockets -> {"new", "ready", "between", "closed"}]
  BY DEF DeliveryTypeOK
<1> QED
  BY <1>1 DEF deliveryVars, Quiet, Open

\* The scheduler's own steps are quiet, and so is a replaced socket's departure.
LEMMA QuietSteps ==
    ASSUME DeliveryTypeOK, NEW c \in Sockets
    PROVE  /\ ReliablePending(c) => Quiet
           /\ MovementPending(c) => Quiet
           /\ TickFires(c) => Quiet
           /\ TickStops(c) => Quiet
           /\ TickFlushes(c) => Quiet \/ Flushes
           /\ Leave(c) /\ UNCHANGED <<room, queue, lagged>> => Quiet
<1>1. task \in [Sockets -> {"new", "ready", "between", "closed"}]
  BY DEF DeliveryTypeOK
<1>2. \A d \in Sockets : task[d] \in {"ready", "between"} => Open(d)
  BY DEF Open
<1>3. ReliablePending(c) => Quiet
  BY <1>1, <1>2 DEF ReliablePending, Quiet
<1>4. MovementPending(c) => Quiet
  BY <1>1, <1>2 DEF MovementPending, Quiet
<1>5. TickFires(c) => Quiet
  BY <1>1, <1>2 DEF TickFires, Quiet
<1>6. TickStops(c) => Quiet
  BY <1>1, <1>2 DEF TickStops, Quiet
<1>8. TickFlushes(c) => Quiet \/ Flushes
  BY <1>1, <1>2 DEF TickFlushes, Quiet, Flushes
<1>9. Leave(c) /\ UNCHANGED <<room, queue, lagged>> => Quiet
  <2>1. SUFFICES ASSUME Leave(c), UNCHANGED <<room, queue, lagged>> PROVE Quiet
    OBVIOUS
  <2>2. /\ task' = [task EXCEPT ![c] = "closed"] /\ Open(c)
        /\ UNCHANGED <<watch, owner, unseen, client, said>>
    BY <2>1 DEF Leave
  <2>3. task[c] # "new"
    BY <2>2 DEF Open
  <2> QED
    BY <1>1, <1>2, <2>1, <2>2, <2>3 DEF Quiet
<1> QED
  BY <1>3, <1>4, <1>5, <1>6, <1>8, <1>9

\* Every step is one of six kinds.
DeliveryEffect ==
    \/ Quiet \/ Flushes \/ Change
    \/ \E c \in Sockets, p \in Players : JoinRoom(c, p)
    \/ \E c \in Sockets : \/ Leave(c) /\ ~UNCHANGED <<room, queue, lagged>>
                          \/ Move(c) \/ Chat(c) \/ SendReliable(c) \/ SendMovement(c)

\* No step is of another kind.
LEMMA DeliverySteps ==
    ASSUME DeliveryTypeOK, [DeliveryNext]_deliveryVars
    PROVE  DeliveryEffect
<1>1. CASE UNCHANGED deliveryVars
  BY <1>1, QuietStutter DEF DeliveryEffect
<1>2. CASE \E c \in Sockets, p \in Players : JoinRoom(c, p)
  BY <1>2 DEF DeliveryEffect
<1>3. CASE Change
  BY <1>3 DEF DeliveryEffect
<1>4. ASSUME NEW c \in Sockets,
             \/ Leave(c) \/ Move(c) \/ Chat(c) \/ SendReliable(c) \/ ReliablePending(c)
             \/ SendMovement(c) \/ MovementPending(c)
             \/ TickFires(c) \/ TickFlushes(c) \/ TickStops(c)
      PROVE  DeliveryEffect
  BY <1>4, QuietSteps DEF DeliveryEffect
<1> QED
  BY <1>1, <1>2, <1>3, <1>4 DEF DeliveryNext

TickTypeOK ==
    /\ tick \in [Sockets -> {"none", "waiting", "flushing", "exited"}]
    /\ stopped \subseteq Sockets

\* Ticks and their stop signals.
LEMMA TickTypeStep ==
    ASSUME TickTypeOK, [DeliveryNext]_deliveryVars
    PROVE  TickTypeOK'
<1>1. CASE UNCHANGED deliveryVars
  BY <1>1 DEF deliveryVars, TickTypeOK
<1>2. CASE Change
  BY <1>2 DEF Change, TickTypeOK
<1>3. ASSUME NEW c \in Sockets, NEW p \in Players, JoinRoom(c, p) PROVE TickTypeOK'
  <2>1. PICK t \in {"none", "waiting", "flushing", "exited"} : tick' = [tick EXCEPT ![c] = t] /\ stopped' = stopped
    BY <1>3 DEF JoinRoom, TickTypeOK
  <2> QED
    BY <2>1 DEF TickTypeOK
<1>4. ASSUME NEW c \in Sockets,
             \/ Leave(c) \/ Move(c) \/ Chat(c) \/ SendReliable(c) \/ ReliablePending(c)
             \/ SendMovement(c) \/ MovementPending(c)
      PROVE  TickTypeOK'
  BY <1>4 DEF Leave, Move, Chat, SendReliable, ReliablePending, SendMovement, MovementPending,
              TickTypeOK
<1>5. ASSUME NEW c \in Sockets, TickFires(c) \/ TickFlushes(c) \/ TickStops(c)
      PROVE  TickTypeOK'
  BY <1>5 DEF TickFires, TickFlushes, TickStops, TickTypeOK
<1> QED
  BY <1>1, <1>2, <1>3, <1>4, <1>5 DEF DeliveryNext

\* Every kind of step keeps the types.
LEMMA DeliveryTypeStep ==
    ASSUME DeliveryTypeOK, DeliveryEffect
    PROVE  DeliveryTypeOK'
<1> USE DEF DeliveryTypeOK
<1>0. Subscribers \subseteq Sockets
  BY DEF Subscribers
<1>1. CASE Quiet
  BY <1>1 DEF Quiet, Open
<1>2. CASE Flushes
  <2>1. room' \in Rooms /\ watch' \in Movements
    BY <1>2, FlushedRoom DEF Flushes
  <2> QED
    BY <1>0, <1>2, <2>1 DEF Flushes, Open
<1>3. CASE Change
  <2>1. PICK r : r = Changed
    OBVIOUS
  <2>2. r \in Rooms /\ room' = r /\ Broadcast(Subscribers, <<Snapshot(r)>>)
    BY <1>3, <2>1, ChangedRoom DEF Change, Changed
  <2>3. <<Snapshot(r)>> \in Seq(Reliable)
    BY <2>2, SnapshotOf
  <2>4. /\ queue' \in [Sockets -> Seq(Reliable)] /\ lagged' \subseteq Sockets
        /\ \A c \in Sockets \ Subscribers : queue'[c] = queue[c]
    BY <1>0, <2>2, <2>3, Received
  <2>5. UNCHANGED <<watch, task, owner, unseen, client, said>>
    BY <1>3 DEF Change
  <2>6. \A c \in Sockets : task[c] = "new" => c \notin Subscribers
    BY DEF Subscribers, Open
  <2> QED
    BY <2>2, <2>4, <2>5, <2>6 DEF Open
<1>4. ASSUME NEW c \in Sockets, NEW p \in Players, JoinRoom(c, p) PROVE DeliveryTypeOK'
  <2>1. PICK r, e : r = Joined(c, p) /\ e = <<"joined", c>>
    OBVIOUS
  <2>2. r \in Rooms /\ r.chat = room.chat /\ e \in Events
    BY <2>1, JoinedRoom, EventsAreTyped
  <2>3. <<Snapshot(r)>> \in Seq(Reliable) /\ <<Snapshot(r), ChatMessage(e)>> \in Seq(Reliable)
    BY <2>2, Messages
  <2>4. \E msgs \in Seq(Reliable) : Broadcast(Subscribers \cup {c}, msgs)
    BY <1>4, <2>1, <2>3, JoinEffect
  <2>5. /\ queue' \in [Sockets -> Seq(Reliable)] /\ lagged' \subseteq Sockets
        /\ \A d \in Sockets \ (Subscribers \cup {c}) : queue'[d] = queue[d]
    <3>1. Subscribers \cup {c} \in SUBSET Sockets
      BY <1>0
    <3> QED
      BY <2>4, <3>1, Received
  <2>6. room' \in Rooms
    <3>1. room' = Recorded(r, e) \/ room' = r
      BY <1>4, <2>1, JoinEffect
    <3>2. Recorded(r, e) \in Rooms
      BY <2>2, RecordedRoom
    <3> QED
      BY <2>2, <3>1, <3>2
  <2>7. Welcomed(r, room.chat) \in Views
    BY <2>2, WelcomedView DEF Rooms
  <2>8. /\ task' = [task EXCEPT ![c] = "ready"] /\ owner' = [owner EXCEPT ![c] = p]
        /\ client' = [client EXCEPT ![c] = Welcomed(r, room.chat)]
        /\ unseen' = unseen \ {c} /\ watch' = watch /\ said' = said
    BY <1>4, <2>1, JoinEffect
  <2>9. \A d \in Sockets : task[d] = "new" => d \notin Subscribers
    BY DEF Subscribers, Open
  <2> QED
    BY <2>5, <2>6, <2>7, <2>8, <2>9 DEF Open
<1>5. ASSUME NEW c \in Sockets, Leave(c), ~UNCHANGED <<room, queue, lagged>> PROVE DeliveryTypeOK'
  <2>1. owner[c] \in Players
    BY <1>5 DEF Leave
  <2>2. PICK l, s, r, e : /\ l = LeftBy(owner[c]) /\ s = Snapshotted(l)
                          /\ r = [l EXCEPT !.dirty = FALSE] /\ e = <<"left", c>>
    OBVIOUS
  <2>3. l \in Rooms /\ s \in Rooms /\ r \in Rooms /\ e \in Events
    <3>1. l \in Rooms /\ e \in Events
      BY <2>1, <2>2, LeftRoom, EventsAreTyped
    <3>2. s \in Rooms
      BY <2>2, <3>1, SnapshottedRoom
    <3>3. r \in Rooms
      BY <2>2, <3>1, FlagCleared
    <3> QED
      BY <3>1, <3>2, <3>3
  <2>4. <<ChatMessage(e)>> \in Seq(Reliable) /\ <<Snapshot(s), ChatMessage(e)>> \in Seq(Reliable)
    BY <2>3, Messages
  <2>5. \/ room' = Recorded(r, e) /\ Broadcast(Subscribers \ {c}, <<ChatMessage(e)>>)
        \/ room' = Recorded(s, e) /\ Broadcast(Subscribers \ {c}, <<Snapshot(s), ChatMessage(e)>>)
    BY <1>5, <2>2, LeaveEffect
  <2>6. \E msgs \in Seq(Reliable) : Broadcast(Subscribers \ {c}, msgs)
    BY <2>4, <2>5
  <2>7. /\ queue' \in [Sockets -> Seq(Reliable)] /\ lagged' \subseteq Sockets
        /\ \A d \in Sockets \ (Subscribers \ {c}) : queue'[d] = queue[d]
    <3>1. Subscribers \ {c} \in SUBSET Sockets
      BY <1>0
    <3> QED
      BY <2>6, <3>1, Received
  <2>8. room' \in Rooms
    BY <2>3, <2>5, RecordedRoom
  <2>9. /\ task' = [task EXCEPT ![c] = "closed"]
        /\ watch' = watch /\ owner' = owner /\ unseen' = unseen /\ client' = client /\ said' = said
    BY <1>5, LeaveEffect
  <2>10. \A d \in Sockets : task[d] = "new" => d \notin Subscribers
    BY DEF Subscribers, Open
  <2> QED
    BY <2>7, <2>8, <2>9, <2>10 DEF Open
<1>6. ASSUME NEW c \in Sockets, Move(c) PROVE DeliveryTypeOK'
  <2>1. room' \in Rooms
    BY <1>6, MovedRoom DEF Move
  <2> QED
    BY <1>6, <2>1 DEF Move, Open
<1>7. ASSUME NEW c \in Sockets, Chat(c) PROVE DeliveryTypeOK'
  <2>1. PICK e : e = <<"message", said + 1>>
    OBVIOUS
  <2>2. e \in Events
    BY <2>1 DEF Events
  <2>3. room' = Recorded(room, e) /\ Broadcast(Subscribers, <<ChatMessage(e)>>)
    BY <1>7, <2>1 DEF Chat
  <2>4. room' \in Rooms /\ <<ChatMessage(e)>> \in Seq(Reliable)
    BY <2>2, <2>3, RecordedRoom, ChatMessageOf
  <2>5. /\ queue' \in [Sockets -> Seq(Reliable)] /\ lagged' \subseteq Sockets
        /\ \A d \in Sockets \ Subscribers : queue'[d] = queue[d]
    BY <1>0, <2>3, <2>4, Received
  <2>6. said' = said + 1 /\ UNCHANGED <<watch, task, owner, unseen, client>>
    BY <1>7 DEF Chat
  <2>7. \A d \in Sockets : task[d] = "new" => d \notin Subscribers
    BY DEF Subscribers, Open
  <2> QED
    BY <2>4, <2>5, <2>6, <2>7 DEF Open
<1>8. ASSUME NEW c \in Sockets, SendReliable(c) PROVE DeliveryTypeOK'
  <2>1. /\ client' = [client EXCEPT ![c] = Applied(client[c], Head(queue[c]))]
        /\ queue' = [queue EXCEPT ![c] = Tail(queue[c])]
        /\ queue[c] # <<>> /\ Open(c)
        /\ UNCHANGED <<room, watch, task, owner, lagged, unseen, said>>
    BY <1>8 DEF SendReliable, Open
  <2>2. queue[c] \in Seq(Reliable) /\ Tail(queue[c]) \in Seq(Reliable) /\ Head(queue[c]) \in Reliable
    BY <2>1
  <2>3. client[c] \in Views
    BY <2>1
  <2>4. Applied(client[c], Head(queue[c])) \in Views
    BY <2>2, <2>3, AppliedSnapshot, AppliedChat DEF Reliable
  <2> QED
    BY <2>1, <2>2, <2>4 DEF Open
<1>9. ASSUME NEW c \in Sockets, SendMovement(c) PROVE DeliveryTypeOK'
  <2>1. /\ client' = [client EXCEPT ![c] = Applied(client[c], watch)]
        /\ task' = [task EXCEPT ![c] = "ready"] /\ unseen' = unseen \ {c} /\ Open(c)
        /\ UNCHANGED <<room, watch, owner, queue, lagged, said>>
    BY <1>9 DEF SendMovement, Open
  <2>2. Applied(client[c], watch) \in Views
    BY <2>1, AppliedMovement
  <2> QED
    BY <2>1, <2>2 DEF Open
<1> QED
  BY <1>1, <1>2, <1>3, <1>4, <1>5, <1>6, <1>7, <1>8, <1>9 DEF DeliveryEffect

(* The members that a browser shows. *)

\* Whoever plays through a socket that has lost nothing is in step with the room.
MembersFollow ==
    /\ watch.rev <= room.rev
    /\ \A c \in Sockets : Acts(c) /\ c \notin lagged =>
          InStep(client[c], queue[c], watch, c \notin unseen, room)

\* A socket that acts after a step of another one acted before it.
LEMMA StillActs ==
    ASSUME DeliveryTypeOK, NEW c \in Sockets, NEW d \in Sockets, c # d,
           task' = [task EXCEPT ![c] = task'[c]], owner' = [owner EXCEPT ![c] = owner'[c]],
           NEW p \in Players, NEW x \in {c, None},
           room'.members = [room.members EXCEPT ![p] = x], Acts(d)'
    PROVE  Acts(d)
<1>1. task'[d] = task[d] /\ owner'[d] = owner[d]
  BY DEF DeliveryTypeOK
<1>2. Open(d)
  BY <1>1 DEF Acts, Open
<1>3. owner[d] \in Players /\ room.members \in [Players -> Sockets \cup {None}] /\ d # None
  BY <1>2, CafeDeliveryAssumption DEF DeliveryTypeOK, Rooms, CafeDeliveryAssumption
<1>4. room'.members[owner[d]] = d
  BY <1>1 DEF Acts
<1> QED
  BY <1>2, <1>3, <1>4 DEF Acts

\* A join announces the newest members to everybody, itself included.
LEMMA MembersFollowJoin ==
    ASSUME DeliveryTypeOK, MembersFollow, NEW c \in Sockets, NEW p \in Players, JoinRoom(c, p)
    PROVE  MembersFollow'
<1>1. PICK r, e : r = Joined(c, p) /\ e = <<"joined", c>>
  OBVIOUS
<1>2. /\ room \in Rooms /\ r \in Rooms /\ e \in Events /\ room.chat \in Seq(Events)
      /\ r.rev = room.rev + 1 /\ r.members = [room.members EXCEPT ![p] = c]
  BY <1>1, JoinedRoom, EventsAreTyped DEF DeliveryTypeOK, Rooms
<1>3. /\ task[c] = "new" /\ task' = [task EXCEPT ![c] = "ready"]
      /\ owner' = [owner EXCEPT ![c] = p]
      /\ client' = [client EXCEPT ![c] = Welcomed(r, room.chat)]
      /\ unseen' = unseen \ {c} /\ watch' = watch
  BY <1>1, JoinEffect
<1>4. \/ /\ room' = Recorded(r, e)
         /\ Broadcast(Subscribers \cup {c}, <<Snapshot(r), ChatMessage(e)>>)
      \/ room' = r /\ Broadcast(Subscribers \cup {c}, <<Snapshot(r)>>)
  BY <1>1, JoinEffect
<1>5. PICK msgs \in Seq(Reliable) :
         /\ Broadcast(Subscribers \cup {c}, msgs)
         /\ \/ room' = Recorded(r, e) /\ msgs = <<Snapshot(r), ChatMessage(e)>>
            \/ room' = r /\ msgs = <<Snapshot(r)>>
  BY <1>2, <1>4, Messages
<1>6. /\ room' \in Rooms /\ room'.rev = r.rev /\ room'.members = r.members /\ room'.dirty = r.dirty
      /\ room'.pos = r.pos /\ Who(room') = Who(r)
  <2>1. CASE room' = r
    BY <1>2, <2>1
  <2>2. CASE room' = Recorded(r, e)
    BY <1>2, <2>2, RecordedRoom
  <2> QED
    BY <1>5, <2>1, <2>2
<1>7. /\ lagged \subseteq lagged'
      /\ \A d \in (Subscribers \cup {c}) \ lagged' : queue'[d] = queue[d] \o msgs
  <2>1. Subscribers \cup {c} \in SUBSET Sockets /\ queue \in [Sockets -> Seq(Reliable)] /\ lagged \subseteq Sockets
    BY DEF Subscribers, DeliveryTypeOK
  <2> QED
    BY <1>5, <2>1, Received
<1>8. ASSUME NEW v \in Views, NEW q \in Seq(Reliable), NEW seen \in BOOLEAN,
             InStep(v, Append(q, Snapshot(r)), watch, seen, r)
      PROVE  InStep(v, q \o msgs, watch, seen, room')
  <2>1. CASE room' = r /\ msgs = <<Snapshot(r)>>
    BY <1>2, <1>8, <2>1, Messages
  <2>2. CASE room' = Recorded(r, e) /\ msgs = <<Snapshot(r), ChatMessage(e)>>
    <3>1. Append(q, Snapshot(r)) \in Seq(Reliable)
      BY <1>2, SnapshotOf
    <3>2. InStep(v, Append(Append(q, Snapshot(r)), ChatMessage(e)), watch, seen, room')
      BY <1>2, <1>6, <1>8, <3>1, InStepTold
    <3> QED
      BY <1>2, <2>2, <3>2, Messages
  <2> QED
    BY <1>5, <2>1, <2>2
<1>9. watch \in Movements /\ watch.rev <= room.rev /\ watch.rev < r.rev /\ room.rev \in Nat /\ watch.rev \in Nat
  BY <1>2 DEF MembersFollow, DeliveryTypeOK, Rooms, Movements
<1>10. ASSUME NEW d \in Sockets, Acts(d)', d \notin lagged'
       PROVE  InStep(client'[d], queue'[d], watch', d \notin unseen', room')
  <2>1. CASE d = c
    <3>1. queue[c] = <<>> /\ queue'[c] = <<>> \o msgs
      BY <1>3, <1>7, <1>10, <2>1 DEF DeliveryTypeOK
    <3>2. PICK v \in Views : v = Welcomed(r, room.chat)
      BY <1>2, WelcomedView
    <3>3. client'[c] = v
      BY <1>3, <3>2 DEF DeliveryTypeOK
    <3>4. InStep(v, <<Snapshot(r)>>, watch, TRUE, r)
      BY <1>2, <1>9, <3>2, InStepJoined
    <3>5. PICK q \in Seq(Reliable) : q = <<>> /\ Append(q, Snapshot(r)) = <<Snapshot(r)>>
      <4>0. <<>> \in Seq(Reliable)
        OBVIOUS
      <4>1. PICK q \in Seq(Reliable) : q = <<>>
        BY <4>0
      <4>2. Append(q, Snapshot(r)) = <<Snapshot(r)>>
        BY <4>1
      <4> QED
        BY <4>1, <4>2
    <3>6. InStep(v, Append(q, Snapshot(r)), watch, TRUE, r)
      BY <3>4, <3>5
    <3>7. InStep(v, q \o msgs, watch, TRUE, room')
      BY <1>8, <3>6
    <3>8. (d \notin unseen') = TRUE
      BY <1>3, <2>1
    <3>9. queue'[d] = q \o msgs /\ client'[d] = v
      BY <2>1, <3>1, <3>3, <3>5
    <3> QED
      BY <1>3, <3>7, <3>8, <3>9
  <2>2. CASE d # c
    <3>1. task' = [task EXCEPT ![c] = task'[c]] /\ owner' = [owner EXCEPT ![c] = owner'[c]]
      BY <1>3 DEF DeliveryTypeOK
    <3>2. room'.members = [room.members EXCEPT ![p] = c]
      BY <1>2, <1>6
    <3>3. Acts(d) /\ d \notin lagged
      BY <1>7, <1>10, <2>2, <3>1, <3>2, StillActs
    <3>4. d \in Subscribers /\ client[d] \in Views /\ queue[d] \in Seq(Reliable)
      BY <3>3 DEF Acts, Subscribers, DeliveryTypeOK
    <3>5. PICK seen \in BOOLEAN : seen = (d \notin unseen)
      OBVIOUS
    <3>6. InStep(client[d], queue[d], watch, seen, room)
      BY <3>3, <3>5 DEF MembersFollow
    <3>7. InStep(client[d], Append(queue[d], Snapshot(r)), watch, seen, r)
      BY <1>2, <1>9, <3>4, <3>6, InStepPublished
    <3>8. InStep(client[d], queue[d] \o msgs, watch, seen, room')
      BY <1>8, <3>4, <3>7
    <3>9. /\ queue'[d] = queue[d] \o msgs /\ client'[d] = client[d] /\ watch' = watch
          /\ (d \notin unseen') = seen
      BY <1>3, <1>7, <1>10, <2>2, <3>4, <3>5 DEF DeliveryTypeOK
    <3> QED
      BY <3>8, <3>9
  <2> QED
    BY <2>1, <2>2
<1>11. watch'.rev <= room'.rev
  BY <1>2, <1>3, <1>6, <1>9
<1> QED
  BY <1>10, <1>11 DEF MembersFollow

\* A departure announces them to whoever stays, if anybody does.
LEMMA MembersFollowLeave ==
    ASSUME DeliveryTypeOK, MembersFollow, NEW c \in Sockets, Leave(c),
           ~UNCHANGED <<room, queue, lagged>>
    PROVE  MembersFollow'
<1>1. owner[c] \in Players
  BY DEF Leave, DeliveryTypeOK
<1>2. PICK p, l, s, k, e : /\ p = owner[c] /\ l = LeftBy(p) /\ s = Snapshotted(l)
                           /\ k = [l EXCEPT !.dirty = FALSE] /\ e = <<"left", c>>
  OBVIOUS
<1>3. /\ room \in Rooms /\ l \in Rooms /\ l.rev = room.rev /\ e \in Events
      /\ l.members = [room.members EXCEPT ![p] = None]
  BY <1>1, <1>2, LeftRoom, EventsAreTyped DEF DeliveryTypeOK
<1>4. s \in Rooms /\ s.rev = room.rev + 1 /\ s.members = l.members /\ s.dirty = FALSE
  BY <1>2, <1>3, SnapshottedRoom
<1>5. k \in Rooms /\ k.rev = room.rev /\ k.members = l.members
  BY <1>2, <1>3, FlagCleared
<1>6. /\ Open(c) /\ task' = [task EXCEPT ![c] = "closed"]
      /\ watch' = watch /\ owner' = owner /\ unseen' = unseen /\ client' = client
  BY LeaveEffect
<1>7. \/ Who(l) = {} /\ room' = Recorded(k, e)
      \/ /\ room' = Recorded(s, e)
         /\ Broadcast(Subscribers \ {c}, <<Snapshot(s), ChatMessage(e)>>)
  BY <1>2, LeaveEffect
<1>8. watch \in Movements /\ watch.rev <= room.rev /\ room.rev \in Nat /\ watch.rev \in Nat
  BY <1>3 DEF MembersFollow, DeliveryTypeOK, Rooms, Movements
<1>9. CASE Who(l) = {} /\ room' = Recorded(k, e)
  <2>1. room'.rev = room.rev /\ room'.members = l.members
    BY <1>3, <1>5, <1>9, RecordedRoom
  <2>2. ASSUME NEW d \in Sockets, Acts(d)' PROVE FALSE
    <3>1. Open(d) /\ owner'[d] = owner[d]
      BY <1>6, <2>2 DEF Acts, Open, DeliveryTypeOK
    <3>2. owner[d] \in Players /\ room'.members[owner[d]] = d /\ d # None
      BY <2>2, <3>1, CafeDeliveryAssumption DEF Acts, DeliveryTypeOK, CafeDeliveryAssumption
    <3>3. owner[d] \in Who(l)
      BY <2>1, <3>2 DEF Who
    <3> QED
      BY <1>9, <3>3
  <2> QED
    BY <1>6, <1>8, <2>1, <2>2 DEF MembersFollow
<1>10. CASE /\ room' = Recorded(s, e)
            /\ Broadcast(Subscribers \ {c}, <<Snapshot(s), ChatMessage(e)>>)
  <2>1. /\ room' \in Rooms /\ room'.rev = s.rev /\ room'.members = s.members
        /\ room'.dirty = s.dirty /\ room'.pos = s.pos /\ Who(room') = Who(s)
    BY <1>3, <1>4, <1>10, RecordedRoom
  <2>2. /\ lagged \subseteq lagged'
        /\ \A d \in (Subscribers \ {c}) \ lagged' :
              queue'[d] = queue[d] \o <<Snapshot(s), ChatMessage(e)>>
    <3>1. Subscribers \ {c} \in SUBSET Sockets /\ queue \in [Sockets -> Seq(Reliable)] /\ lagged \subseteq Sockets
      BY DEF Subscribers, DeliveryTypeOK
    <3>2. <<Snapshot(s), ChatMessage(e)>> \in Seq(Reliable)
      BY <1>3, <1>4, Messages
    <3> QED
      BY <1>10, <3>1, <3>2, Received
  <2>3. ASSUME NEW d \in Sockets, Acts(d)', d \notin lagged'
        PROVE  InStep(client'[d], queue'[d], watch', d \notin unseen', room')
    <3>1. d # c
      BY <1>6, <2>3 DEF Acts, Open, DeliveryTypeOK
    <3>2. task' = [task EXCEPT ![c] = task'[c]] /\ owner' = [owner EXCEPT ![c] = owner'[c]]
      BY <1>6 DEF DeliveryTypeOK
    <3>3. room'.members = [room.members EXCEPT ![p] = None]
      BY <1>3, <1>4, <2>1
    <3>4. Acts(d) /\ d \notin lagged
      BY <1>1, <1>2, <2>2, <2>3, <3>1, <3>2, <3>3, StillActs
    <3>5. d \in Subscribers /\ client[d] \in Views /\ queue[d] \in Seq(Reliable)
      BY <3>4 DEF Acts, Subscribers, DeliveryTypeOK
    <3>6. PICK seen \in BOOLEAN : seen = (d \notin unseen)
      OBVIOUS
    <3>7. InStep(client[d], queue[d], watch, seen, room)
      BY <3>4, <3>6 DEF MembersFollow
    <3>8. InStep(client[d], Append(queue[d], Snapshot(s)), watch, seen, s)
      BY <1>3, <1>4, <1>8, <3>5, <3>7, InStepPublished
    <3>9. Append(queue[d], Snapshot(s)) \in Seq(Reliable)
      BY <1>4, <3>5, SnapshotOf
    <3>10. InStep(client[d], Append(Append(queue[d], Snapshot(s)), ChatMessage(e)), watch, seen, room')
      BY <1>3, <1>4, <2>1, <3>5, <3>8, <3>9, InStepTold
    <3>11. queue'[d] = Append(Append(queue[d], Snapshot(s)), ChatMessage(e))
      BY <1>3, <1>4, <2>2, <2>3, <3>1, <3>5, Messages
    <3> QED
      BY <1>6, <3>6, <3>10, <3>11
  <2>4. watch'.rev <= room'.rev
    BY <1>4, <1>6, <1>8, <2>1
  <2> QED
    BY <2>3, <2>4 DEF MembersFollow
<1> QED
  BY <1>7, <1>9, <1>10

\* A change announces the members and positions anew.
LEMMA MembersFollowChange ==
    ASSUME DeliveryTypeOK, MembersFollow, Change
    PROVE  MembersFollow'
<1>1. PICK s : s = Changed
  OBVIOUS
<1>2. /\ room \in Rooms /\ s \in Rooms /\ s.rev = room.rev + 1 /\ s.members = room.members
  BY <1>1, ChangedRoom DEF DeliveryTypeOK
<1>3. /\ room' = s /\ Broadcast(Subscribers, <<Snapshot(s)>>)
      /\ UNCHANGED <<watch, task, owner, unseen, client>>
  BY <1>1 DEF Change, Changed
<1>4. watch \in Movements /\ watch.rev <= room.rev /\ room.rev \in Nat /\ watch.rev \in Nat
  BY <1>2 DEF MembersFollow, DeliveryTypeOK, Rooms, Movements
<1>5. /\ lagged \subseteq lagged'
      /\ \A d \in Subscribers \ lagged' : queue'[d] = queue[d] \o <<Snapshot(s)>>
  <2>1. Subscribers \in SUBSET Sockets /\ queue \in [Sockets -> Seq(Reliable)] /\ lagged \subseteq Sockets
    BY DEF Subscribers, DeliveryTypeOK
  <2>2. <<Snapshot(s)>> \in Seq(Reliable)
    BY <1>2, SnapshotOf
  <2> QED
    BY <1>3, <2>1, <2>2, Received
<1>6. ASSUME NEW d \in Sockets, Acts(d)', d \notin lagged'
      PROVE  InStep(client'[d], queue'[d], watch', d \notin unseen', room')
  <2>1. Acts(d) /\ d \notin lagged
    BY <1>2, <1>3, <1>5, <1>6 DEF Acts, Open
  <2>2. d \in Subscribers /\ client[d] \in Views /\ queue[d] \in Seq(Reliable)
    BY <2>1 DEF Acts, Subscribers, DeliveryTypeOK
  <2>3. PICK seen \in BOOLEAN : seen = (d \notin unseen)
    OBVIOUS
  <2>4. InStep(client[d], queue[d], watch, seen, room)
    BY <2>1, <2>3 DEF MembersFollow
  <2>5. InStep(client[d], Append(queue[d], Snapshot(s)), watch, seen, s)
    BY <1>2, <1>4, <2>2, <2>4, InStepPublished
  <2>6. queue'[d] = Append(queue[d], Snapshot(s))
    <3>1. Snapshot(s) \in Reliable
      BY <1>2, SnapshotOf
    <3> QED
      BY <1>5, <1>6, <2>2, <3>1
  <2> QED
    BY <1>3, <2>3, <2>5, <2>6
<1>7. watch'.rev <= room'.rev
  BY <1>2, <1>3, <1>4
<1> QED
  BY <1>6, <1>7 DEF MembersFollow

\* Chat leaves members and positions alone.
LEMMA MembersFollowChat ==
    ASSUME DeliveryTypeOK, MembersFollow, NEW c \in Sockets, Chat(c)
    PROVE  MembersFollow'
<1>1. PICK e : e = <<"message", said + 1>>
  OBVIOUS
<1>2. e \in Events /\ room \in Rooms
  BY <1>1 DEF Events, DeliveryTypeOK
<1>3. /\ room' = Recorded(room, e) /\ Broadcast(Subscribers, <<ChatMessage(e)>>)
      /\ UNCHANGED <<watch, task, owner, unseen, client>>
  BY <1>1 DEF Chat
<1>4. /\ room' \in Rooms /\ room'.rev = room.rev /\ room'.members = room.members
      /\ room'.dirty = room.dirty /\ room'.pos = room.pos /\ Who(room') = Who(room)
  BY <1>2, <1>3, RecordedRoom
<1>5. /\ lagged \subseteq lagged'
      /\ \A d \in Subscribers \ lagged' : queue'[d] = queue[d] \o <<ChatMessage(e)>>
  <2>1. Subscribers \in SUBSET Sockets /\ queue \in [Sockets -> Seq(Reliable)] /\ lagged \subseteq Sockets
    BY DEF Subscribers, DeliveryTypeOK
  <2>2. <<ChatMessage(e)>> \in Seq(Reliable)
    BY <1>2, ChatMessageOf
  <2> QED
    BY <1>3, <2>1, <2>2, Received
<1>6. ASSUME NEW d \in Sockets, Acts(d)', d \notin lagged'
      PROVE  InStep(client'[d], queue'[d], watch', d \notin unseen', room')
  <2>1. Acts(d) /\ d \notin lagged
    BY <1>3, <1>4, <1>5, <1>6 DEF Acts, Open
  <2>2. d \in Subscribers /\ client[d] \in Views /\ queue[d] \in Seq(Reliable)
    BY <2>1 DEF Acts, Subscribers, DeliveryTypeOK
  <2>3. InStep(client[d], queue[d], watch, d \notin unseen, room)
    BY <2>1 DEF MembersFollow
  <2>4. InStep(client[d], Append(queue[d], ChatMessage(e)), watch, d \notin unseen, room')
    BY <1>2, <1>4, <2>2, <2>3, InStepTold
  <2>5. queue'[d] = Append(queue[d], ChatMessage(e))
    <3>1. ChatMessage(e) \in Reliable
      BY <1>2, ChatMessageOf
    <3> QED
      BY <1>5, <1>6, <2>2, <3>1
  <2> QED
    BY <1>3, <2>4, <2>5
<1>7. watch'.rev <= room'.rev
  BY <1>3, <1>4 DEF MembersFollow
<1> QED
  BY <1>6, <1>7 DEF MembersFollow

\* Movement, its flush, and what the socket tasks write.
LEMMA MembersFollowOther ==
    ASSUME DeliveryTypeOK, MembersFollow,
           \/ Quiet \/ Flushes
           \/ \E c \in Sockets : Move(c) \/ SendReliable(c) \/ SendMovement(c)
    PROVE  MembersFollow'
<1>0. /\ room \in Rooms /\ watch \in Movements /\ watch.rev <= room.rev
      /\ room.rev \in Nat /\ watch.rev \in Nat
  BY DEF MembersFollow, DeliveryTypeOK, Rooms, Movements
<1>1. CASE Quiet
  <2>1. \A d \in Sockets : Acts(d)' => Acts(d)
    BY <1>1 DEF Quiet, Acts, Open
  <2> QED
    BY <1>1, <2>1 DEF Quiet, MembersFollow
<1>2. CASE Flushes
  <2>1. PICK s : s = [room EXCEPT !.rev = @ + 1, !.dirty = FALSE]
    OBVIOUS
  <2>2. PICK m : m = MovementOf(s)
    OBVIOUS
  <2>3. /\ s \in Rooms /\ s.rev = room.rev + 1 /\ s.members = room.members /\ Who(s) = Who(room)
        /\ m \in Movements /\ m.rev = s.rev /\ m.who = Who(s) /\ m.pos = s.pos
    BY <1>0, <2>1, <2>2, FlushedRoom DEF Who
  <2>4. /\ room' = s /\ watch' = m /\ unseen' = unseen \cup Subscribers
        /\ UNCHANGED <<task, owner, queue, lagged, client>>
    BY <1>2, <2>1, <2>2 DEF Flushes
  <2>5. ASSUME NEW d \in Sockets, Acts(d)', d \notin lagged'
        PROVE  InStep(client'[d], queue'[d], watch', d \notin unseen', room')
    <3>1. Acts(d) /\ d \notin lagged
      BY <2>3, <2>4, <2>5 DEF Acts, Open
    <3>2. d \in Subscribers /\ client[d] \in Views /\ queue[d] \in Seq(Reliable)
      BY <3>1 DEF Acts, Subscribers, DeliveryTypeOK
    <3>3. InStep(client[d], queue[d], watch, d \notin unseen, room)
      BY <3>1 DEF MembersFollow
    <3>4. InStep(client[d], queue[d], m, FALSE, s)
      BY <1>0, <2>3, <3>2, <3>3, InStepFlushed
    <3>5. (d \notin unseen') = FALSE
      BY <2>4, <3>2
    <3> QED
      BY <2>4, <3>4, <3>5
  <2> QED
    BY <2>3, <2>4, <2>5 DEF MembersFollow, Rooms
<1>3. ASSUME NEW c \in Sockets, Move(c) PROVE MembersFollow'
  <2>1. /\ room' = [room EXCEPT !.pos = @ + 1, !.dirty = TRUE]
        /\ UNCHANGED <<watch, task, owner, queue, lagged, unseen, client>>
    BY <1>3 DEF Move
  <2>2. room'.rev = room.rev /\ room'.members = room.members /\ room'.dirty = TRUE
    BY <1>0, <2>1, MovedRoom
  <2>3. Who(room') = Who(room)
    BY <2>2 DEF Who
  <2>4. ASSUME NEW d \in Sockets, Acts(d)', d \notin lagged'
        PROVE  InStep(client'[d], queue'[d], watch', d \notin unseen', room')
    <3>1. Acts(d) /\ d \notin lagged
      BY <2>1, <2>2, <2>4 DEF Acts, Open
    <3>2. InStep(client[d], queue[d], watch, d \notin unseen, room)
      BY <3>1 DEF MembersFollow
    <3>3. InStep(client[d], queue[d], watch, d \notin unseen, room')
      BY <2>2, <2>3, <3>2, InStepMoved
    <3> QED
      BY <2>1, <3>3
  <2> QED
    BY <1>0, <2>1, <2>2, <2>4 DEF MembersFollow
<1>4. ASSUME NEW c \in Sockets, SendReliable(c) PROVE MembersFollow'
  <2>1. /\ client' = [client EXCEPT ![c] = Applied(client[c], Head(queue[c]))]
        /\ queue' = [queue EXCEPT ![c] = Tail(queue[c])]
        /\ queue[c] # <<>>
        /\ UNCHANGED <<room, watch, task, owner, lagged, unseen>>
    BY <1>4 DEF SendReliable
  <2>2. ASSUME NEW d \in Sockets, Acts(d)', d \notin lagged'
        PROVE  InStep(client'[d], queue'[d], watch', d \notin unseen', room')
    <3>1. Acts(d) /\ d \notin lagged
      BY <2>1, <2>2 DEF Acts, Open
    <3>2. client[d] \in Views /\ queue[d] \in Seq(Reliable)
      BY <3>1 DEF Acts, DeliveryTypeOK
    <3>3. PICK seen \in BOOLEAN : seen = (d \notin unseen)
      OBVIOUS
    <3>4. InStep(client[d], queue[d], watch, seen, room)
      BY <3>1, <3>3 DEF MembersFollow
    <3>5. CASE d = c
      <4>1. InStep(Applied(client[d], Head(queue[d])), Tail(queue[d]), watch, seen, room)
        BY <1>0, <2>1, <3>2, <3>4, <3>5, InStepReceived
      <4>2. client'[d] = Applied(client[d], Head(queue[d])) /\ queue'[d] = Tail(queue[d])
        BY <2>1, <3>5 DEF DeliveryTypeOK
      <4> QED
        BY <2>1, <3>3, <4>1, <4>2
    <3>6. CASE d # c
      <4>1. client'[d] = client[d] /\ queue'[d] = queue[d]
        BY <2>1, <3>6 DEF DeliveryTypeOK
      <4> QED
        BY <2>1, <3>3, <3>4, <4>1
    <3> QED
      BY <3>5, <3>6
  <2> QED
    BY <1>0, <2>1, <2>2 DEF MembersFollow
<1>5. ASSUME NEW c \in Sockets, SendMovement(c) PROVE MembersFollow'
  <2>1. /\ client' = [client EXCEPT ![c] = Applied(client[c], watch)]
        /\ task[c] = "between" /\ task' = [task EXCEPT ![c] = "ready"]
        /\ c \in unseen /\ unseen' = unseen \ {c}
        /\ UNCHANGED <<room, watch, owner, queue, lagged>>
    BY <1>5 DEF SendMovement
  <2>2. ASSUME NEW d \in Sockets, Acts(d)', d \notin lagged'
        PROVE  InStep(client'[d], queue'[d], watch', d \notin unseen', room')
    <3>1. Acts(d) /\ d \notin lagged
      BY <2>1, <2>2 DEF Acts, Open, DeliveryTypeOK
    <3>2. client[d] \in Views /\ queue[d] \in Seq(Reliable)
      BY <3>1 DEF Acts, DeliveryTypeOK
    <3>3. InStep(client[d], queue[d], watch, d \notin unseen, room)
      BY <3>1 DEF MembersFollow
    <3>4. CASE d = c
      <4>1. (d \notin unseen) = FALSE /\ (d \notin unseen') = TRUE
        BY <2>1, <3>4
      <4>2. InStep(client[d], queue[d], watch, FALSE, room)
        BY <3>3, <4>1
      <4>3. InStep(Applied(client[d], watch), queue[d], watch, TRUE, room)
        BY <1>0, <3>2, <4>2, InStepOvertaken
      <4>4. client'[d] = Applied(client[d], watch)
        BY <2>1, <3>4 DEF DeliveryTypeOK
      <4> QED
        BY <2>1, <4>1, <4>3, <4>4
    <3>5. CASE d # c
      <4>1. client'[d] = client[d] /\ (d \notin unseen') = (d \notin unseen)
        BY <2>1, <3>5 DEF DeliveryTypeOK
      <4> QED
        BY <2>1, <3>3, <4>1
    <3> QED
      BY <3>4, <3>5
  <2> QED
    BY <1>0, <2>1, <2>2 DEF MembersFollow
<1> QED
  BY <1>1, <1>2, <1>3, <1>4, <1>5

(* The chat that a browser shows. *)

\* The events there have been: each socket joins and leaves once.
Happened(t, n) ==
    {<<"joined", c>> : c \in {d \in Sockets : t[d] # "new"}}
        \cup {<<"left", c>> : c \in {d \in Sockets : t[d] = "closed"}}
        \cup {<<"message", k>> : k \in 1 .. n}

\* h is everything that was recorded, of which the room keeps the end.
HistoryOf(h, chat, t, n) ==
    /\ h \in Seq(Events)
    /\ \A i, k \in DOMAIN h : h[i] = h[k] => i = k
    /\ \A i \in DOMAIN h : h[i] \in Happened(t, n)
    /\ chat = LastN(h, HistoryLimit)

UpToDate(h) ==
    \A c \in Sockets : Open(c) /\ c \notin lagged => Keeps(h, client[c].chat, queue[c])

ChatFollows ==
    \E h : HistoryOf(h, room.chat, task, said) /\ UpToDate(h)

\* An event that has not been recorded before is recorded.
LEMMA HistoryGrows ==
    ASSUME NEW h, NEW chat, NEW t, NEW n, HistoryOf(h, chat, t, n), NEW e \in Events,
           e \notin Happened(t, n), NEW u, NEW m, e \in Happened(u, m),
           Happened(t, n) \subseteq Happened(u, m)
    PROVE  HistoryOf(Append(h, e), LastN(Append(chat, e), HistoryLimit), u, m)
<1>1. h \in Seq(Events) /\ \A i, k \in DOMAIN h : h[i] = h[k] => i = k
  BY DEF HistoryOf
<1>2. PICK l \in Nat : l = Len(h)
  BY <1>1
<1>3. PICK j : j = Append(h, e)
  OBVIOUS
<1>4. /\ j \in Seq(Events) /\ DOMAIN j = 1 .. l + 1 /\ DOMAIN h = 1 .. l
      /\ j[l + 1] = e /\ \A i \in 1 .. l : j[i] = h[i]
  BY <1>1, <1>2, <1>3
<1>5. \A i \in 1 .. l : j[i] # e
  BY <1>4 DEF HistoryOf
<1>6. \A i \in 1 .. l + 1 : i = l + 1 \/ i \in 1 .. l
  BY <1>2
<1>7. \A i, k \in DOMAIN j : j[i] = j[k] => i = k
  BY <1>1, <1>4, <1>5, <1>6
<1>8. \A i \in DOMAIN j : j[i] \in Happened(u, m)
  <2>1. \A i \in 1 .. l : h[i] \in Happened(t, n)
    BY <1>4 DEF HistoryOf
  <2> QED
    BY <1>4, <1>6, <2>1
<1>9. LastN(Append(chat, e), HistoryLimit) = LastN(j, HistoryLimit)
  <2>1. PICK H \in Nat \ {0} : H = HistoryLimit
    BY CafeDeliveryAssumption DEF CafeDeliveryAssumption
  <2>2. chat = LastN(h, H)
    BY <2>1 DEF HistoryOf
  <2>3. LastN(Append(LastN(h, H), e), H) = LastN(Append(h, e), H)
    BY <1>1, LastOfLast
  <2> QED
    BY <1>3, <2>1, <2>2, <2>3
<1> QED
  BY <1>3, <1>4, <1>7, <1>8, <1>9 DEF HistoryOf

\* A join is recorded after the history of its welcome was read.
LEMMA ChatFollowsJoin ==
    ASSUME DeliveryTypeOK, ChatFollows, NEW c \in Sockets, NEW p \in Players, JoinRoom(c, p)
    PROVE  ChatFollows'
<1>1. PICK r, e : r = Joined(c, p) /\ e = <<"joined", c>>
  OBVIOUS
<1>2. /\ r \in Rooms /\ r.chat = room.chat /\ e \in Events /\ room.chat \in Seq(Events)
  BY <1>1, JoinedRoom, EventsAreTyped DEF DeliveryTypeOK, Rooms
<1>3. /\ task[c] = "new" /\ task' = [task EXCEPT ![c] = "ready"]
      /\ client' = [client EXCEPT ![c] = Welcomed(r, room.chat)]
      /\ said' = said
  BY <1>1, JoinEffect
<1>4. \/ /\ room' = Recorded(r, e)
         /\ Broadcast(Subscribers \cup {c}, <<Snapshot(r), ChatMessage(e)>>)
      \/ room' = r /\ Broadcast(Subscribers \cup {c}, <<Snapshot(r)>>)
  BY <1>1, JoinEffect
<1>5. PICK h : HistoryOf(h, room.chat, task, said) /\ UpToDate(h)
  BY DEF ChatFollows
<1>6. h \in Seq(Events) /\ room.chat = LastN(h, HistoryLimit)
  BY <1>5 DEF HistoryOf
<1>7. /\ task'[c] = "ready" /\ \A d \in Sockets : d # c => task'[d] = task[d]
      /\ client'[c].chat = room.chat /\ \A d \in Sockets : d # c => client'[d] = client[d]
  <2>1. Welcomed(r, room.chat).chat = room.chat
    BY <1>2, WelcomedView
  <2> QED
    BY <1>3, <2>1 DEF DeliveryTypeOK
<1>8. Happened(task, said) \subseteq Happened(task', said') /\ e \in Happened(task', said')
  BY <1>1, <1>3, <1>7 DEF Happened
<1>9. e \notin Happened(task, said)
  BY <1>1, <1>3 DEF Happened
<1>10. Subscribers \cup {c} \in SUBSET Sockets /\ queue \in [Sockets -> Seq(Reliable)] /\ lagged \subseteq Sockets
  BY DEF Subscribers, DeliveryTypeOK
<1>11. ASSUME NEW d \in Sockets, Open(d)', d \notin lagged'
       PROVE  lagged \subseteq lagged' => /\ d \in Subscribers \cup {c}
                                          /\ Keeps(h, client'[d].chat, queue[d])
  <2>1. CASE d = c
    <3>1. queue[d] = <<>>
      BY <1>3, <2>1 DEF DeliveryTypeOK
    <3>2. Keeps(h, room.chat, <<>>)
      BY <1>6, KeepsNone
    <3> QED
      BY <1>7, <2>1, <3>1, <3>2
  <2>2. CASE d # c
    <3>1. Open(d)
      BY <1>7, <1>11, <2>2 DEF Open
    <3> QED
      BY <1>5, <1>7, <1>11, <2>2, <3>1 DEF UpToDate, Subscribers
  <2> QED
    BY <2>1, <2>2
<1>12. CASE /\ room' = Recorded(r, e)
            /\ Broadcast(Subscribers \cup {c}, <<Snapshot(r), ChatMessage(e)>>)
  <2>1. /\ lagged \subseteq lagged'
        /\ \A d \in (Subscribers \cup {c}) \ lagged' :
              queue'[d] = queue[d] \o <<Snapshot(r), ChatMessage(e)>>
    BY <1>2, <1>10, <1>12, Messages, Received
  <2>2. ASSUME NEW d \in Sockets, Open(d)', d \notin lagged'
        PROVE  Keeps(Append(h, e), client'[d].chat, queue'[d])
    <3>1. Keeps(h, client'[d].chat, queue[d]) /\ queue[d] \in Seq(Reliable) /\ d \in Subscribers \cup {c}
      BY <1>10, <1>11, <2>1, <2>2
    <3>2. PICK q \in Seq(Reliable) : q = Append(queue[d], Snapshot(r))
      <4>1. Append(queue[d], Snapshot(r)) \in Seq(Reliable)
        BY <1>2, <3>1, SnapshotOf
      <4> QED
        BY <4>1
    <3>3. Snapshot(r) \in Reliable /\ Snapshot(r).type # "chat_event"
      BY <1>2, SnapshotOf
    <3>4. Keeps(h, client'[d].chat, q)
      BY <1>6, <3>1, <3>2, <3>3, KeepsSnapshot
    <3>5. Keeps(Append(h, e), client'[d].chat, Append(q, ChatMessage(e)))
      BY <1>2, <1>6, <3>4, KeepsEvent
    <3>6. queue'[d] = Append(q, ChatMessage(e))
      BY <1>2, <2>1, <2>2, <3>1, <3>2, Messages
    <3> QED
      BY <3>5, <3>6
  <2>3. room'.chat = LastN(Append(room.chat, e), HistoryLimit)
    BY <1>2, <1>12, RecordedRoom
  <2>4. HistoryOf(Append(h, e), room'.chat, task', said')
    BY <1>2, <1>5, <1>8, <1>9, <2>3, HistoryGrows
  <2> QED
    BY <2>2, <2>4 DEF ChatFollows, UpToDate
<1>13. CASE room' = r /\ Broadcast(Subscribers \cup {c}, <<Snapshot(r)>>)
  <2>1. /\ lagged \subseteq lagged'
        /\ \A d \in (Subscribers \cup {c}) \ lagged' : queue'[d] = queue[d] \o <<Snapshot(r)>>
    BY <1>2, <1>10, <1>13, Messages, Received
  <2>2. ASSUME NEW d \in Sockets, Open(d)', d \notin lagged'
        PROVE  Keeps(h, client'[d].chat, queue'[d])
    <3>1. Keeps(h, client'[d].chat, queue[d]) /\ queue[d] \in Seq(Reliable) /\ d \in Subscribers \cup {c}
      BY <1>10, <1>11, <2>1, <2>2
    <3>2. Snapshot(r) \in Reliable /\ Snapshot(r).type # "chat_event"
      BY <1>2, SnapshotOf
    <3>3. Keeps(h, client'[d].chat, Append(queue[d], Snapshot(r)))
      BY <1>6, <3>1, <3>2, KeepsSnapshot
    <3>4. queue'[d] = Append(queue[d], Snapshot(r))
      BY <2>1, <2>2, <3>1, <3>2
    <3> QED
      BY <3>3, <3>4
  <2>3. HistoryOf(h, room'.chat, task', said')
    BY <1>2, <1>5, <1>8, <1>13 DEF HistoryOf
  <2> QED
    BY <2>2, <2>3 DEF ChatFollows, UpToDate
<1> QED
  BY <1>4, <1>12, <1>13

\* A departure is told to whoever stays.
LEMMA ChatFollowsLeave ==
    ASSUME DeliveryTypeOK, ChatFollows, NEW c \in Sockets, Leave(c),
           ~UNCHANGED <<room, queue, lagged>>
    PROVE  ChatFollows'
<1>1. owner[c] \in Players
  BY DEF Leave, DeliveryTypeOK
<1>2. PICK l, s, k, e : /\ l = LeftBy(owner[c]) /\ s = Snapshotted(l)
                        /\ k = [l EXCEPT !.dirty = FALSE] /\ e = <<"left", c>>
  OBVIOUS
<1>3. l \in Rooms /\ l.chat = room.chat /\ e \in Events
  BY <1>1, <1>2, LeftRoom, EventsAreTyped DEF DeliveryTypeOK
<1>4. s \in Rooms /\ s.chat = room.chat
  BY <1>2, <1>3, SnapshottedRoom
<1>5. k \in Rooms /\ k.chat = room.chat
  BY <1>2, <1>3, FlagCleared
<1>6. /\ Open(c) /\ task' = [task EXCEPT ![c] = "closed"] /\ client' = client /\ said' = said
  BY LeaveEffect
<1>7. \/ room' = Recorded(k, e) /\ Broadcast(Subscribers \ {c}, <<ChatMessage(e)>>)
      \/ /\ room' = Recorded(s, e)
         /\ Broadcast(Subscribers \ {c}, <<Snapshot(s), ChatMessage(e)>>)
  BY <1>2, LeaveEffect
<1>8. room'.chat = LastN(Append(room.chat, e), HistoryLimit)
  <2>1. Recorded(k, e).chat = LastN(Append(room.chat, e), HistoryLimit)
    BY <1>3, <1>5, RecordedRoom
  <2>2. Recorded(s, e).chat = LastN(Append(room.chat, e), HistoryLimit)
    BY <1>3, <1>4, RecordedRoom
  <2> QED
    BY <1>7, <2>1, <2>2
<1>9. PICK h : HistoryOf(h, room.chat, task, said) /\ UpToDate(h)
  BY DEF ChatFollows
<1>10. h \in Seq(Events)
  BY <1>9 DEF HistoryOf
<1>11. task'[c] = "closed" /\ \A d \in Sockets : d # c => task'[d] = task[d]
  BY <1>6 DEF DeliveryTypeOK
<1>12. Happened(task, said) \subseteq Happened(task', said') /\ e \in Happened(task', said')
  <2>1. \A d \in Sockets : (task[d] # "new" => task'[d] # "new") /\ (task[d] = "closed" => task'[d] = "closed")
    BY <1>11
  <2> QED
    BY <1>2, <1>6, <1>11, <2>1 DEF Happened
<1>13. e \notin Happened(task, said)
  BY <1>2, <1>6 DEF Happened, Open
<1>14. HistoryOf(Append(h, e), room'.chat, task', said')
  BY <1>3, <1>8, <1>9, <1>12, <1>13, HistoryGrows
<1>15. Subscribers \ {c} \in SUBSET Sockets /\ queue \in [Sockets -> Seq(Reliable)] /\ lagged \subseteq Sockets
  BY DEF Subscribers, DeliveryTypeOK
<1>16. ASSUME NEW d \in Sockets, Open(d)'
       PROVE  Open(d) /\ d \in Subscribers \ {c} /\ client'[d] = client[d]
  BY <1>6, <1>11, <1>16 DEF Open, Subscribers
<1>17. ASSUME NEW q \in Seq(Reliable), NEW chat, Keeps(h, chat, q)
       PROVE  /\ Keeps(Append(h, e), chat, q \o <<ChatMessage(e)>>)
              /\ Keeps(Append(h, e), chat, q \o <<Snapshot(s), ChatMessage(e)>>)
  <2>1. Keeps(Append(h, e), chat, Append(q, ChatMessage(e)))
    BY <1>3, <1>10, <1>17, KeepsEvent
  <2>2. Snapshot(s) \in Reliable /\ Snapshot(s).type # "chat_event"
    BY <1>4, SnapshotOf
  <2>3. PICK u \in Seq(Reliable) : u = Append(q, Snapshot(s))
    <3>1. Append(q, Snapshot(s)) \in Seq(Reliable)
      BY <2>2
    <3> QED
      BY <3>1
  <2>4. Keeps(h, chat, u)
    BY <1>10, <1>17, <2>2, <2>3, KeepsSnapshot
  <2>5. Keeps(Append(h, e), chat, Append(u, ChatMessage(e)))
    BY <1>3, <1>10, <2>4, KeepsEvent
  <2>6. /\ q \o <<ChatMessage(e)>> = Append(q, ChatMessage(e))
        /\ q \o <<Snapshot(s), ChatMessage(e)>> = Append(u, ChatMessage(e))
    BY <1>3, <1>4, <2>3, Messages
  <2> QED
    BY <2>1, <2>5, <2>6
<1>18. PICK msgs \in Seq(Reliable) :
          /\ Broadcast(Subscribers \ {c}, msgs)
          /\ msgs = <<ChatMessage(e)>> \/ msgs = <<Snapshot(s), ChatMessage(e)>>
  BY <1>3, <1>4, <1>7, Messages
<1>19. lagged \subseteq lagged' /\ \A d \in (Subscribers \ {c}) \ lagged' : queue'[d] = queue[d] \o msgs
  BY <1>15, <1>18, Received
<1>20. ASSUME NEW d \in Sockets, Open(d)', d \notin lagged'
       PROVE  Keeps(Append(h, e), client'[d].chat, queue'[d])
  <2>1. Keeps(h, client[d].chat, queue[d]) /\ queue[d] \in Seq(Reliable)
    BY <1>9, <1>15, <1>16, <1>19, <1>20 DEF UpToDate
  <2>2. Keeps(Append(h, e), client[d].chat, queue[d] \o msgs)
    BY <1>17, <1>18, <2>1
  <2> QED
    BY <1>16, <1>19, <1>20, <2>2
<1> QED
  BY <1>14, <1>20 DEF ChatFollows, UpToDate

\* A change is no event.
LEMMA ChatFollowsChange ==
    ASSUME DeliveryTypeOK, ChatFollows, Change
    PROVE  ChatFollows'
<1>1. PICK s : s = Changed
  OBVIOUS
<1>2. s \in Rooms /\ s.chat = room.chat
  BY <1>1, ChangedRoom DEF DeliveryTypeOK
<1>3. /\ room' = s /\ Broadcast(Subscribers, <<Snapshot(s)>>)
      /\ UNCHANGED <<task, client, said>>
  BY <1>1 DEF Change, Changed
<1>4. Snapshot(s) \in Reliable /\ Snapshot(s).type # "chat_event" /\ <<Snapshot(s)>> \in Seq(Reliable)
  BY <1>2, SnapshotOf
<1>5. /\ lagged \subseteq lagged'
      /\ \A d \in Subscribers \ lagged' : queue'[d] = queue[d] \o <<Snapshot(s)>>
  <2>1. Subscribers \in SUBSET Sockets /\ queue \in [Sockets -> Seq(Reliable)] /\ lagged \subseteq Sockets
    BY DEF Subscribers, DeliveryTypeOK
  <2> QED
    BY <1>3, <1>4, <2>1, Received
<1>6. PICK h : HistoryOf(h, room.chat, task, said) /\ UpToDate(h)
  BY DEF ChatFollows
<1>7. ASSUME NEW d \in Sockets, Open(d)', d \notin lagged'
      PROVE  Keeps(h, client'[d].chat, queue'[d])
  <2>1. Open(d) /\ d \in Subscribers /\ queue[d] \in Seq(Reliable)
    BY <1>3, <1>7 DEF Open, Subscribers, DeliveryTypeOK
  <2>2. Keeps(h, client[d].chat, queue[d]) /\ h \in Seq(Events)
    BY <1>5, <1>6, <1>7, <2>1 DEF UpToDate, HistoryOf
  <2>3. Keeps(h, client[d].chat, Append(queue[d], Snapshot(s)))
    BY <1>4, <2>1, <2>2, KeepsSnapshot
  <2>4. queue'[d] = Append(queue[d], Snapshot(s))
    BY <1>4, <1>5, <1>7, <2>1
  <2> QED
    BY <1>3, <2>3, <2>4
<1>8. HistoryOf(h, room'.chat, task', said')
  BY <1>2, <1>3, <1>6
<1> QED
  BY <1>7, <1>8 DEF ChatFollows, UpToDate

\* A chat message is told to everybody.
LEMMA ChatFollowsChat ==
    ASSUME DeliveryTypeOK, ChatFollows, NEW c \in Sockets, Chat(c)
    PROVE  ChatFollows'
<1>1. PICK e : e = <<"message", said + 1>>
  OBVIOUS
<1>2. e \in Events /\ room \in Rooms /\ said \in Nat
  BY <1>1 DEF Events, DeliveryTypeOK
<1>3. /\ room' = Recorded(room, e) /\ Broadcast(Subscribers, <<ChatMessage(e)>>)
      /\ said' = said + 1 /\ UNCHANGED <<task, client>>
  BY <1>1 DEF Chat
<1>4. room'.chat = LastN(Append(room.chat, e), HistoryLimit)
  BY <1>2, <1>3, RecordedRoom
<1>5. ChatMessage(e) \in Reliable /\ <<ChatMessage(e)>> \in Seq(Reliable)
  BY <1>2, ChatMessageOf
<1>6. /\ lagged \subseteq lagged'
      /\ \A d \in Subscribers \ lagged' : queue'[d] = queue[d] \o <<ChatMessage(e)>>
  <2>1. Subscribers \in SUBSET Sockets /\ queue \in [Sockets -> Seq(Reliable)] /\ lagged \subseteq Sockets
    BY DEF Subscribers, DeliveryTypeOK
  <2> QED
    BY <1>3, <1>5, <2>1, Received
<1>7. PICK h : HistoryOf(h, room.chat, task, said) /\ UpToDate(h)
  BY DEF ChatFollows
<1>8. h \in Seq(Events)
  BY <1>7 DEF HistoryOf
<1>9. Happened(task, said) \subseteq Happened(task', said') /\ e \in Happened(task', said')
  <2>1. 1 .. said \subseteq 1 .. said + 1 /\ said + 1 \in 1 .. said + 1
    BY <1>2
  <2> QED
    BY <1>1, <1>3, <2>1 DEF Happened
<1>10. e \notin Happened(task, said)
  <2>1. said + 1 \notin 1 .. said
    BY <1>2
  <2> QED
    BY <1>1, <2>1 DEF Happened
<1>11. HistoryOf(Append(h, e), room'.chat, task', said')
  BY <1>2, <1>4, <1>7, <1>9, <1>10, HistoryGrows
<1>12. ASSUME NEW d \in Sockets, Open(d)', d \notin lagged'
       PROVE  Keeps(Append(h, e), client'[d].chat, queue'[d])
  <2>1. Open(d) /\ d \in Subscribers /\ queue[d] \in Seq(Reliable)
    BY <1>3, <1>12 DEF Open, Subscribers, DeliveryTypeOK
  <2>2. Keeps(h, client[d].chat, queue[d])
    BY <1>6, <1>7, <1>12, <2>1 DEF UpToDate
  <2>3. Keeps(Append(h, e), client[d].chat, Append(queue[d], ChatMessage(e)))
    BY <1>2, <1>8, <2>1, <2>2, KeepsEvent
  <2>4. queue'[d] = Append(queue[d], ChatMessage(e))
    BY <1>5, <1>6, <1>12, <2>1
  <2> QED
    BY <1>3, <2>3, <2>4
<1> QED
  BY <1>11, <1>12 DEF ChatFollows, UpToDate

\* What arrives is what the browser lacks.
LEMMA ChatFollowsOther ==
    ASSUME DeliveryTypeOK, ChatFollows,
           \/ Quiet \/ Flushes
           \/ \E c \in Sockets : Move(c) \/ SendReliable(c) \/ SendMovement(c)
    PROVE  ChatFollows'
<1>1. PICK h : HistoryOf(h, room.chat, task, said) /\ UpToDate(h)
  BY DEF ChatFollows
<1>2. room \in Rooms /\ watch \in Movements
  BY DEF DeliveryTypeOK
<1>3. CASE Quiet
  <2>1. Happened(task, said) \subseteq Happened(task', said')
    BY <1>3 DEF Quiet, Happened
  <2>2. HistoryOf(h, room'.chat, task', said')
    BY <1>1, <1>3, <2>1 DEF Quiet, HistoryOf
  <2>3. UpToDate(h)'
    BY <1>1, <1>3 DEF Quiet, UpToDate, Open
  <2> QED
    BY <2>2, <2>3 DEF ChatFollows
<1>4. CASE Flushes \/ \E c \in Sockets : Move(c)
  <2>1. room'.chat = room.chat
    BY <1>2, <1>4, FlushedRoom, MovedRoom DEF Flushes, Move
  <2>2. UNCHANGED <<task, queue, lagged, client, said>>
    BY <1>4 DEF Flushes, Move
  <2>3. UpToDate(h)'
    BY <1>1, <2>2 DEF UpToDate, Open
  <2> QED
    BY <1>1, <2>1, <2>2, <2>3 DEF ChatFollows
<1>5. ASSUME NEW c \in Sockets, SendReliable(c) PROVE ChatFollows'
  <2>1. /\ client' = [client EXCEPT ![c] = Applied(client[c], Head(queue[c]))]
        /\ queue' = [queue EXCEPT ![c] = Tail(queue[c])]
        /\ queue[c] # <<>> /\ Open(c) /\ c \notin lagged
        /\ UNCHANGED <<room, task, lagged, said>>
    BY <1>5 DEF SendReliable, Open
  <2>2. PICK v, q : v = client[c] /\ q = queue[c]
    OBVIOUS
  <2>3. v \in Views /\ q \in Seq(Reliable) /\ q # <<>> /\ Keeps(h, v.chat, q) /\ h \in Seq(Events)
    BY <1>1, <2>1, <2>2 DEF DeliveryTypeOK, UpToDate, HistoryOf
  <2>4. PICK m \in Reliable : m = Head(q)
    BY <2>3
  <2>5. Keeps(h, Applied(v, m).chat, Tail(q))
    <3>1. CASE m \in Snapshots
      <4>1. m.type # "chat_event" /\ Applied(v, m).chat = v.chat
        BY <2>3, <3>1, AppliedSnapshot DEF Snapshots
      <4> QED
        BY <2>3, <2>4, <4>1, KeepsAfterSnapshot
    <3>2. CASE m \in ChatEvents
      <4>1. m.type = "chat_event"
        BY <3>2 DEF ChatEvents
      <4>2. \A i, k \in DOMAIN h : h[i] = h[k] => i = k
        BY <1>1 DEF HistoryOf
      <4>3. /\ ~Contains(v.chat, m.event)
            /\ Keeps(h, LastN(Append(v.chat, m.event), HistoryLimit), Tail(q))
        BY <2>3, <2>4, <4>1, <4>2, KeepsAfterEvent
      <4> QED
        BY <2>3, <3>2, <4>3, AppliedChat
    <3> QED
      BY <3>1, <3>2 DEF Reliable
  <2>6. client'[c] = Applied(v, m) /\ queue'[c] = Tail(q)
    BY <2>1, <2>2, <2>4 DEF DeliveryTypeOK
  <2>7. \A d \in Sockets : d # c => client'[d] = client[d] /\ queue'[d] = queue[d]
    BY <2>1 DEF DeliveryTypeOK
  <2>8. UpToDate(h)'
    BY <1>1, <2>1, <2>5, <2>6, <2>7 DEF UpToDate, Open
  <2> QED
    BY <1>1, <2>1, <2>8 DEF ChatFollows
<1>6. ASSUME NEW c \in Sockets, SendMovement(c) PROVE ChatFollows'
  <2>1. /\ client' = [client EXCEPT ![c] = Applied(client[c], watch)] /\ Open(c)
        /\ task[c] = "between" /\ task' = [task EXCEPT ![c] = "ready"]
        /\ UNCHANGED <<room, queue, lagged, said>>
    BY <1>6 DEF SendMovement, Open
  <2>2. client[c] \in Views
    BY <2>1 DEF DeliveryTypeOK
  <2>3. Applied(client[c], watch).chat = client[c].chat
    BY <1>2, <2>2, AppliedMovement
  <2>4. \A d \in Sockets : client'[d].chat = client[d].chat
    BY <2>1, <2>3 DEF DeliveryTypeOK
  <2>5. task'[c] = "ready" /\ \A d \in Sockets : d # c => task'[d] = task[d]
    BY <2>1 DEF DeliveryTypeOK
  <2>6. UpToDate(h)'
    BY <1>1, <2>1, <2>4, <2>5 DEF UpToDate, Open
  <2>7. Happened(task, said) \subseteq Happened(task', said')
    BY <2>1, <2>5 DEF Happened
  <2>8. HistoryOf(h, room'.chat, task', said')
    BY <1>1, <2>1, <2>7 DEF HistoryOf
  <2> QED
    BY <2>6, <2>8 DEF ChatFollows
<1> QED
  BY <1>3, <1>4, <1>5, <1>6

DeliveryInv == DeliveryTypeOK /\ TickTypeOK /\ MembersFollow /\ ChatFollows

\* The invariant holds of an empty room.
LEMMA DeliveryInit_Inv ==
    ASSUME DeliveryInit
    PROVE  DeliveryInv
<1>1. None \notin Players \cup Sockets /\ HistoryLimit \in Nat \ {0}
  BY CafeDeliveryAssumption DEF CafeDeliveryAssumption
<1>2. <<>> \in Seq(Events) /\ <<>> \in Seq(Reliable)
  OBVIOUS
<1>3. room \in Rooms /\ room.rev = 0 /\ room.chat = <<>>
  BY <1>2 DEF DeliveryInit, Rooms
<1>4. watch \in Movements /\ watch.rev = 0
  BY DEF DeliveryInit, Movements
<1>5. \A c \in Sockets : task[c] = "new"
  BY DEF DeliveryInit
<1>6. DeliveryTypeOK
  BY <1>2, <1>3, <1>4, <1>5 DEF DeliveryInit, DeliveryTypeOK, Open
<1>7. TickTypeOK
  BY DEF DeliveryInit, TickTypeOK
<1>8. MembersFollow
  BY <1>3, <1>4, <1>5 DEF MembersFollow, Acts, Open
<1>9. ChatFollows
  <2>1. LastN(<<>>, HistoryLimit) = <<>>
    <3>1. PICK s \in Seq(Events) : s = <<>>
      BY <1>2
    <3>2. Len(s) <= HistoryLimit
      BY <1>1, <3>1
    <3>3. LastN(s, HistoryLimit) = s
      BY <1>1, <3>2, LastElements
    <3> QED
      BY <3>1, <3>3
  <2>2. HistoryOf(<<>>, room.chat, task, said)
    BY <1>2, <1>3, <2>1 DEF HistoryOf
  <2>3. UpToDate(<<>>)
    BY <1>5 DEF UpToDate, Open
  <2> QED
    BY <2>2, <2>3 DEF ChatFollows
<1> QED
  BY <1>6, <1>7, <1>8, <1>9 DEF DeliveryInv

\* Every step keeps the invariant.
LEMMA DeliveryStep_Inv ==
    ASSUME DeliveryInv, [DeliveryNext]_deliveryVars
    PROVE  DeliveryInv'
<1>1. DeliveryTypeOK /\ TickTypeOK /\ MembersFollow /\ ChatFollows
  BY DEF DeliveryInv
<1>2. DeliveryEffect
  BY <1>1, DeliverySteps
<1>3. DeliveryTypeOK'
  BY <1>1, <1>2, DeliveryTypeStep
<1>4. TickTypeOK'
  BY <1>1, TickTypeStep
<1>5. MembersFollow' /\ ChatFollows'
  <2>1. CASE Change
    BY <1>1, <2>1, MembersFollowChange, ChatFollowsChange
  <2>2. CASE \E c \in Sockets, p \in Players : JoinRoom(c, p)
    BY <1>1, <2>2, MembersFollowJoin, ChatFollowsJoin
  <2>3. CASE \E c \in Sockets : Leave(c) /\ ~UNCHANGED <<room, queue, lagged>>
    BY <1>1, <2>3, MembersFollowLeave, ChatFollowsLeave
  <2>4. CASE \E c \in Sockets : Chat(c)
    BY <1>1, <2>4, MembersFollowChat, ChatFollowsChat
  <2>5. CASE \/ Quiet \/ Flushes
             \/ \E c \in Sockets : Move(c) \/ SendReliable(c) \/ SendMovement(c)
    BY <1>1, <2>5, MembersFollowOther, ChatFollowsOther
  <2> QED
    BY <1>2, <2>1, <2>2, <2>3, <2>4, <2>5 DEF DeliveryEffect
<1> QED
  BY <1>3, <1>4, <1>5 DEF DeliveryInv

\* In every reachable state the revisions under way and the chat events under way are the
\* ones that a browser needs to end up with the room's state.
THEOREM DeliveryInvariant == DeliverySpec => []DeliveryInv
<1>1. DeliveryInit => DeliveryInv
  BY DeliveryInit_Inv
<1>2. DeliveryInv /\ [DeliveryNext]_deliveryVars => DeliveryInv'
  BY DeliveryStep_Inv
<1> QED
  BY <1>1, <1>2, PTL DEF DeliverySpec

\* broadcast_room_snapshot, broadcast_room_movement and applyMovementBatch: once everything
\* sent has arrived, a browser that has not asked to resynchronise shows the players who are
\* in the room, where they are, whatever overtook what.
THEOREM MembersConvergeHolds == DeliverySpec => []MembersConverge
<1>1. DeliveryInv => MembersConverge
  <2> SUFFICES ASSUME DeliveryInv, NEW c \in Sockets, Settled(c)
               PROVE  client[c].who = Who(room) /\ client[c].pos = room.pos
    BY DEF MembersConverge
  <2>1. Acts(c) /\ c \notin lagged /\ queue[c] = <<>> /\ c \notin unseen /\ ~client[c].resync /\ ~room.dirty
    BY DEF Settled
  <2>2. PICK v \in Views : v = client[c]
    BY <2>1 DEF DeliveryInv, DeliveryTypeOK, Acts
  <2>3. InStep(v, <<>>, watch, TRUE, room)
    <3>1. InStep(client[c], queue[c], watch, c \notin unseen, room)
      BY <2>1 DEF DeliveryInv, MembersFollow
    <3>2. (c \notin unseen) = TRUE
      BY <2>1
    <3> QED
      BY <2>1, <2>2, <3>1, <3>2
  <2>4. Shown(v, <<>>) = {v}
    BY SnapsOfNone DEF Shown
  <2>5. v.rev <= v.rev
    BY DEF Views
  <2>6. v.who = Who(room)
    BY <2>3, <2>4, <2>5 DEF InStep, MembersKnown
  <2>7. PositionsKnown({v} \cup (IF TRUE THEN {} ELSE {watch}), room.pos)
    BY <2>1, <2>2, <2>3, <2>4 DEF InStep
  <2>8. v.pos = room.pos
    BY <2>5, <2>7 DEF PositionsKnown
  <2> QED
    BY <2>2, <2>6, <2>8
<1> QED
  BY <1>1, DeliveryInvariant, PTL

\* push_chat_event, join and the chat_event handler: the chat that a browser shows is the
\* end of everything that was said, with no event missing or twice, once what was sent has
\* arrived; a receiver that lost events never passes for one that is up to date.
THEOREM ChatConvergesHolds == DeliverySpec => []ChatConverges
<1>1. DeliveryInv => ChatConverges
  <2> SUFFICES ASSUME DeliveryInv, NEW c \in Sockets, Settled(c)
               PROVE  client[c].chat = room.chat
    BY DEF ChatConverges
  <2>1. Open(c) /\ c \notin lagged /\ queue[c] = <<>>
    BY DEF Settled, Acts
  <2>2. PICK h : HistoryOf(h, room.chat, task, said) /\ UpToDate(h)
    BY DEF DeliveryInv, ChatFollows
  <2>3. Keeps(h, client[c].chat, <<>>) /\ h \in Seq(Events)
    BY <2>1, <2>2 DEF UpToDate, HistoryOf
  <2>4. client[c].chat = LastN(h, HistoryLimit)
    BY <2>3, KeptNone
  <2> QED
    BY <2>2, <2>4 DEF HistoryOf
<1> QED
  BY <1>1, DeliveryInvariant, PTL

=============================================================================
