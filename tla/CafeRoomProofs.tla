--------------------------- MODULE CafeRoomProofs ---------------------------
(***************************************************************************)
(* Proofs about CafeRoom, for any numbers of players, sockets, leaves,     *)
(* orders and rounds: one task will end each phase, the deletion of an     *)
(* account is final, and a round neither loses nor duplicates its drinks   *)
(* and ingredients.                                                        *)
(***************************************************************************)
EXTENDS CafeRoom, InductionLemmas, FiniteSetTheorems, TLAPS

Things == Rounds \X Nat      \* an ingredient or an order: its round and its number
OrderRecord == [status : {"waiting", "available", "claimed", "served"}, by : Players \cup {None}]
Sizes == 0 .. (TeaLeaves + TableOrders + RushMax)
Leaves == UNION {[1 .. n -> BOOLEAN] : n \in Sizes}
Orders == UNION {[1 .. n -> OrderRecord] : n \in Sizes}
Activity ==
    [round : Rounds, phase : {"active", "intermission"}, delivered : Nat, target : Nat,
     combo : Nat, best : Nat, window : BOOLEAN, completed : BOOLEAN,
     leaves : Leaves, orders : Orders]
Hands == [tea : Nat, rush : SUBSET Things, order : Things \cup {None}]
PlayerRecord == [conn : Conns \cup {None}, hands : Hands]
Room ==
    [alive : BOOLEAN, aged : BOOLEAN, activity : Activity, players : [Players -> PlayerRecord]]
AwardRecord == [round : Rounds, owners : SUBSET Players]

\* Sockets, accounts and rewards.
SocketInv ==
    /\ sock \in [Conns -> {"idle", "upgrading", "joined", "closed"}]
    /\ sess \in [Conns -> Players \cup {None}]
    /\ \A c \in Conns : sock[c] # "idle" => sess[c] \in Players
    /\ revoked \subseteq Conns
    /\ award \in [Conns -> AwardRecord \cup {None}]

AccountInv ==
    /\ account \in [Players -> {"live", "deleted", "announced"}]
    /\ rewards \subseteq Rounds \X Players
    /\ stars \in [Players -> Nat]
    /\ DeletionIsFinal

HandsOf(r) == [p \in Players |-> r.players[p].hands]

\* What the running activity and the players' hands make of each other.
Pieces(a) == {<<a.round, i>> : i \in DOMAIN a.leaves}
Lying(a) == {<<a.round, i>> : i \in FreeLeaves(a)}
Loose(a, h) == Lying(a) \cup UNION {h[p].rush : p \in Players}

\* Hands hold ingredients of this round only, and each lies in one place.
HandsOK(a, h) ==
    \A p \in Players :
        /\ h[p].rush \subseteq Pieces(a)
        /\ h[p].rush \cap Lying(a) = {}
        /\ \A q \in Players : p # q => h[p].rush \cap h[q].rush = {}
        /\ Kind(a.round) = "cafe_rush" => h[p].tea = Cardinality(h[p].rush)

OrdersOK(a, h) ==
    a.phase = "active" =>
        \A i \in DOMAIN a.orders, p \in Players :
            (a.orders[i] = [status |-> "claimed", by |-> p]) <=> (h[p].order = <<a.round, i>>)

IngredientsOK(a, h) ==
    (a.phase = "active" /\ Kind(a.round) = "cafe_rush") =>
        Cardinality(Loose(a, h)) = Cardinality(OrdersIn(a, "waiting"))

Conserved(a, h) ==
    /\ a.completed => a.phase = "intermission"
    /\ HandsOK(a, h) /\ OrdersOK(a, h) /\ IngredientsOK(a, h)

RoomInv ==
    /\ room \in Room
    /\ Conserved(room.activity, HandsOf(room))

\* OnePendingTransition, of a room in a phase of round n with these timers.
Ending(t, m) == t["intermission"][m] + t["rush_intermission"][m]
TimersFit(alive, n, phase, t) ==
    alive => /\ Ending(t, n) = IF phase = "intermission" THEN 1 ELSE 0
             /\ \A m \in Rounds \ {n} : Ending(t, m) = 0
             /\ (phase = "active" /\ Kind(n) = "cafe_rush") => t["rush"][n] = 1
             /\ \A m \in Rounds : m > n => t["rush"][m] = 0

Timers == [TimerKinds -> [Rounds -> Nat]]
TimerInv ==
    /\ timers \in Timers
    /\ TimersFit(room.alive, room.activity.round, room.activity.phase, timers)

\* The inductive invariant.
CafeRoomInv == SocketInv /\ AccountInv /\ RoomInv /\ TimerInv
-----------------------------------------------------------------------------
\* Changing leaves leaves as many.
LEMMA LeavesKept ==
    ASSUME NEW l \in Leaves, NEW m \in [DOMAIN l -> BOOLEAN]
    PROVE  m \in Leaves
<1>1. PICK n \in Sizes : l \in [1 .. n -> BOOLEAN]
  BY DEF Leaves
<1>2. m \in [1 .. n -> BOOLEAN]
  BY <1>1
<1> QED
  BY <1>2 DEF Leaves

\* Changing orders leaves as many.
LEMMA OrdersKept ==
    ASSUME NEW l \in Orders, NEW m \in [DOMAIN l -> OrderRecord]
    PROVE  m \in Orders
<1>1. PICK n \in Sizes : l \in [1 .. n -> OrderRecord]
  BY DEF Orders
<1>2. m \in [1 .. n -> OrderRecord]
  BY <1>1
<1> QED
  BY <1>2 DEF Orders

\* The leaves and orders of an activity are finite in number, and numbered.
LEMMA ActivityParts ==
    ASSUME NEW a \in Activity
    PROVE  /\ a.round \in Rounds /\ a.round \in Nat
           /\ a.leaves \in [DOMAIN a.leaves -> BOOLEAN] /\ DOMAIN a.leaves \subseteq Nat
           /\ IsFiniteSet(DOMAIN a.leaves)
           /\ a.orders \in [DOMAIN a.orders -> OrderRecord] /\ DOMAIN a.orders \subseteq Nat
           /\ IsFiniteSet(DOMAIN a.orders)
<1>1. a.round \in Rounds /\ a.leaves \in Leaves /\ a.orders \in Orders
  BY DEF Activity
<1>2. PICK n \in Sizes : a.leaves \in [1 .. n -> BOOLEAN]
  BY <1>1 DEF Leaves
<1>3. PICK m \in Sizes : a.orders \in [1 .. m -> OrderRecord]
  BY <1>1 DEF Orders
<1>4. n \in Int /\ m \in Int
  BY CafeRoomAssumption DEF Sizes
<1>5. IsFiniteSet(1 .. n) /\ IsFiniteSet(1 .. m)
  BY <1>4, FS_Interval
<1>6. /\ a.leaves \in [DOMAIN a.leaves -> BOOLEAN] /\ DOMAIN a.leaves = 1 .. n
      /\ a.orders \in [DOMAIN a.orders -> OrderRecord] /\ DOMAIN a.orders = 1 .. m
  BY <1>2, <1>3
<1>7. 1 .. n \subseteq Nat /\ 1 .. m \subseteq Nat /\ Rounds \subseteq Nat
  BY <1>4, CafeRoomAssumption DEF Rounds
<1> QED
  BY <1>1, <1>5, <1>6, <1>7

\* The pieces of a round are as many as its leaves.
LEMMA CountPieces ==
    ASSUME NEW n, NEW S, IsFiniteSet(S)
    PROVE  /\ IsFiniteSet({<<n, i>> : i \in S})
           /\ Cardinality({<<n, i>> : i \in S}) = Cardinality(S)
<1> DEFINE T == {<<n, i>> : i \in S}
           f == [i \in S |-> <<n, i>>]
<1>1. f \in Bijection(S, T)
  <2>1. f \in [S -> T]
    OBVIOUS
  <2>2. \A i, j \in S : f[i] = f[j] => i = j
    OBVIOUS
  <2>3. \A t \in T : \E i \in S : f[i] = t
    OBVIOUS
  <2> QED
    BY <2>1, <2>2, <2>3 DEF Bijection, Injection, IsInjective, Surjection
<1>2. ExistsBijection(S, T)
  BY <1>1 DEF ExistsBijection
<1> QED
  BY <1>2, FS_Bijection

\* Finitely many ingredients are loose at any time.
LEMMA LooseFinite ==
    ASSUME NEW a \in Activity, NEW h, HandsOK(a, h)
    PROVE  /\ IsFiniteSet(Pieces(a)) /\ IsFiniteSet(Loose(a, h)) /\ Loose(a, h) \subseteq Pieces(a)
           /\ IsFiniteSet(OrdersIn(a, "waiting"))
           /\ \A p \in Players : IsFiniteSet(h[p].rush)
<1>1. IsFiniteSet(Pieces(a))
  BY ActivityParts, CountPieces DEF Pieces
<1>2. Lying(a) \subseteq Pieces(a)
  BY DEF Lying, Pieces, FreeLeaves
<1>3. \A p \in Players : h[p].rush \subseteq Pieces(a)
  BY DEF HandsOK
<1>4. Loose(a, h) \subseteq Pieces(a)
  BY <1>2, <1>3 DEF Loose
<1>5. OrdersIn(a, "waiting") \subseteq DOMAIN a.orders
  BY DEF OrdersIn
<1> QED
  BY <1>1, <1>3, <1>4, <1>5, ActivityParts, FS_Subset

\* A new round starts with nothing in hand and all its ingredients in the room.
LEMMA RoundStarts ==
    ASSUME NEW n \in Rounds, NEW k \in Nat,
           NEW h, h = [p \in Players |-> EmptyHands]
    PROVE  /\ ForRound(n, k) \in Activity
           /\ ForRound(n, k).round = n
           /\ ForRound(n, k).phase = "active"
           /\ Conserved(ForRound(n, k), h)
<1> DEFINE t == RushTarget(k)
<1>0. /\ {TeaLeaves, TableOrders, RushMin, RushMax} \subseteq Nat
      /\ RushMin <= RushMax
  BY CafeRoomAssumption
<1>1. t \in Nat /\ t <= RushMax
  BY <1>0 DEF RushTarget
<1>2. PICK leaves, orders, target, status :
        /\ ForRound(n, k) = NewActivity(n, target, leaves, orders, status)
        /\ leaves \in Sizes /\ orders \in Sizes /\ target \in Nat
        /\ status \in {"available", "waiting"}
        /\ Kind(n) = "cafe_rush" => leaves = orders /\ status = "waiting"
  <2>1. CASE Kind(n) = "tea_delivery"
    <3>1. ForRound(n, k) = NewActivity(n, TeaLeaves, TeaLeaves, 0, "available")
      BY <2>1 DEF ForRound
    <3>2. TeaLeaves \in Sizes /\ 0 \in Sizes
      BY <1>0 DEF Sizes
    <3> QED
      BY <2>1, <3>1, <3>2, <1>0
  <2>2. CASE Kind(n) = "table_service"
    <3>1. ForRound(n, k) = NewActivity(n, TableOrders, 0, TableOrders, "available")
      BY <2>2 DEF ForRound
    <3>2. TableOrders \in Sizes /\ 0 \in Sizes
      BY <1>0 DEF Sizes
    <3> QED
      BY <2>2, <3>1, <3>2, <1>0
  <2>3. CASE Kind(n) # "tea_delivery" /\ Kind(n) # "table_service"
    <3>1. ForRound(n, k) = NewActivity(n, t, t, t, "waiting")
      BY <2>3 DEF ForRound
    <3>2. t \in Sizes
      BY <1>0, <1>1 DEF Sizes
    <3> QED
      BY <3>1, <3>2, <1>1
  <2> QED
    BY <2>1, <2>2, <2>3
<1> DEFINE a == NewActivity(n, target, leaves, orders, status)
           l == [i \in 1 .. leaves |-> TRUE]
           o == [i \in 1 .. orders |-> [status |-> status, by |-> None]]
<1>3. /\ a.round = n /\ a.phase = "active" /\ a.completed = FALSE
      /\ a.leaves = l /\ a.orders = o
  BY DEF NewActivity
<1>4. l \in Leaves
  BY <1>2 DEF Leaves
<1>5. o \in [1 .. orders -> OrderRecord]
  BY <1>2 DEF OrderRecord
<1>6. o \in Orders
  BY <1>2, <1>5 DEF Orders
<1>7. a \in Activity
  BY <1>2, <1>4, <1>6 DEF Activity, NewActivity
<1>8. \A p \in Players : h[p].rush = {} /\ h[p].tea = 0 /\ h[p].order = None
  BY DEF EmptyHands
<1>9. HandsOK(a, h)
  BY <1>8, FS_EmptySet DEF HandsOK
<1>10. OrdersOK(a, h)
  <2>1. ASSUME NEW i \in DOMAIN a.orders, NEW p \in Players
        PROVE  /\ a.orders[i] # [status |-> "claimed", by |-> p]
               /\ h[p].order # <<a.round, i>>
    <3>1. a.orders[i].status # "claimed"
      BY <1>2, <1>3
    <3>2. <<a.round, i>> \in Nat \X Nat
      BY <1>7, ActivityParts
    <3> QED
      BY <3>1, <3>2, <1>8, CafeRoomAssumption
  <2> QED
    BY <2>1 DEF OrdersOK
<1>11. IngredientsOK(a, h)
  <2> SUFFICES ASSUME Kind(n) = "cafe_rush"
               PROVE  Cardinality(Loose(a, h)) = Cardinality(OrdersIn(a, "waiting"))
    BY <1>3 DEF IngredientsOK
  <2>1. OrdersIn(a, "waiting") = 1 .. orders
    BY <1>2, <1>3 DEF OrdersIn
  <2>2. Loose(a, h) = {<<n, i>> : i \in 1 .. orders}
    BY <1>2, <1>3, <1>8 DEF Loose, Lying, FreeLeaves
  <2>3. IsFiniteSet(1 .. orders)
    BY <1>2, <1>0, FS_Interval DEF Sizes
  <2>4. Cardinality({<<n, i>> : i \in 1 .. orders}) = Cardinality(1 .. orders)
    BY <2>3, CountPieces
  <2> QED
    BY <2>1, <2>2, <2>4
<1> QED
  BY <1>2, <1>3, <1>7, <1>9, <1>10, <1>11 DEF Conserved

\* Orders and claims that a step does not touch still agree.
LEMMA SameOrders ==
    ASSUME NEW a, NEW h, NEW b, NEW g, OrdersOK(a, h),
           b.orders = a.orders, b.round = a.round, b.phase = a.phase,
           \A q \in Players : g[q].order = h[q].order
    PROVE  OrdersOK(b, g)
BY DEF OrdersOK

LeafTaken(a, i) == [a EXCEPT !.leaves = [a.leaves EXCEPT ![i] = FALSE]]

\* What taking a leaf does to the activity.
LEMMA PickActivity ==
    ASSUME NEW a \in Activity, NEW i \in DOMAIN a.leaves, NEW b, b = LeafTaken(a, i)
    PROVE  /\ b \in Activity
           /\ b.round = a.round /\ b.phase = a.phase /\ b.completed = a.completed
           /\ b.leaves = [a.leaves EXCEPT ![i] = FALSE] /\ b.orders = a.orders
<1>1. PICK m : m = [a.leaves EXCEPT ![i] = FALSE]
  OBVIOUS
<1>2. a.leaves \in Leaves /\ m \in [DOMAIN a.leaves -> BOOLEAN]
  BY <1>1, ActivityParts DEF Activity
<1>3. m \in Leaves
  BY <1>2, LeavesKept
<1> QED
  BY <1>1, <1>3 DEF Activity, LeafTaken

\* What taking a leaf does to the hands of the player.
LEMMA PickHands ==
    ASSUME NEW hp \in Hands, NEW n \in Rounds, NEW i \in Nat, NEW new, new = WithLeaf(hp, n, i)
    PROVE  /\ new \in Hands /\ new.tea = hp.tea + 1 /\ new.order = hp.order
           /\ new.rush = IF Kind(n) = "cafe_rush" THEN hp.rush \cup {<<n, i>>} ELSE hp.rush
<1>1. PICK rush : rush = IF Kind(n) = "cafe_rush" THEN hp.rush \cup {<<n, i>>} ELSE hp.rush
  OBVIOUS
<1>2. <<n, i>> \in Things /\ hp.rush \in SUBSET Things /\ hp.tea \in Nat
  BY DEF Hands, Things
<1>3. rush \in SUBSET Things
  BY <1>1, <1>2
<1>4. PICK t : t = hp.tea + 1
  OBVIOUS
<1>5. t \in Nat
  BY <1>2, <1>4
<1>6. new = [tea |-> t, rush |-> rush, order |-> hp.order] /\ hp.order \in Things \cup {None}
  BY <1>1, <1>4 DEF WithLeaf, Hands
<1>7. new \in Hands /\ new.tea = t /\ new.order = hp.order /\ new.rush = rush
  BY <1>3, <1>5, <1>6 DEF Hands
<1> QED
  BY <1>1, <1>4, <1>7

\* PickLeaf: the ingredient moves from the room into a hand.
LEMMA PickKeeps ==
    ASSUME NEW a \in Activity, NEW h \in [Players -> Hands], Conserved(a, h),
           NEW p \in Players, NEW i \in DOMAIN a.leaves, a.leaves[i],
           NEW b \in Activity,
           b.round = a.round, b.phase = a.phase, b.completed = a.completed,
           b.leaves = [a.leaves EXCEPT ![i] = FALSE], b.orders = a.orders,
           NEW g \in [Players -> Hands],
           g[p].tea = h[p].tea + 1, g[p].order = h[p].order,
           g[p].rush = IF Kind(a.round) = "cafe_rush" THEN h[p].rush \cup {<<a.round, i>>} ELSE h[p].rush,
           \A q \in Players \ {p} : g[q] = h[q]
    PROVE  Conserved(b, g)
<1> DEFINE x == <<a.round, i>>
<1>1. a.leaves \in [DOMAIN a.leaves -> BOOLEAN]
  BY ActivityParts
<1>5. Lying(b) = Lying(a) \ {x} /\ x \in Lying(a) /\ Pieces(b) = Pieces(a) /\ x \in Pieces(a)
  <2>1. FreeLeaves(b) = FreeLeaves(a) \ {i} /\ i \in FreeLeaves(a)
    BY <1>1 DEF FreeLeaves
  <2>2. DOMAIN b.leaves = DOMAIN a.leaves
    BY <1>1
  <2>3. x \in Lying(a) /\ x \in Pieces(a) /\ Pieces(b) = Pieces(a)
    BY <1>1, <2>1, <2>2 DEF Lying, Pieces
  <2>4. Lying(b) \subseteq Lying(a) \ {x}
    <3>1. ASSUME NEW y \in Lying(b) PROVE y \in Lying(a) /\ y # x
      <4>1. PICK j \in FreeLeaves(b) : y = <<a.round, j>>
        BY <1>1 DEF Lying
      <4>2. j \in FreeLeaves(a) /\ j # i
        BY <2>1
      <4> QED
        BY <4>1, <4>2 DEF Lying
    <3> QED
      BY <3>1
  <2>5. Lying(a) \ {x} \subseteq Lying(b)
    BY <1>1, <2>1 DEF Lying
  <2> QED
    BY <2>3, <2>4, <2>5
<1>6. HandsOK(a, h)
  BY DEF Conserved
<1>7. \A q \in Players : x \notin h[q].rush
  BY <1>5, <1>6 DEF HandsOK
<1>8. HandsOK(b, g)
  <2>1. ASSUME NEW q \in Players
        PROVE  /\ g[q].rush \subseteq Pieces(b)
               /\ g[q].rush \cap Lying(b) = {}
               /\ \A s \in Players : q # s => g[q].rush \cap g[s].rush = {}
    <3>1. /\ h[q].rush \subseteq Pieces(a) /\ h[q].rush \cap Lying(a) = {}
          /\ \A s \in Players : q # s => h[q].rush \cap h[s].rush = {}
      BY <1>6 DEF HandsOK
    <3>2. \A s \in Players : /\ g[s].rush \subseteq h[s].rush \cup {x}
                             /\ s # p => g[s].rush = h[s].rush
      OBVIOUS
    <3>3. g[q].rush \subseteq Pieces(b) /\ g[q].rush \cap Lying(b) = {}
      BY <1>5, <3>1, <3>2
    <3>4. ASSUME NEW s \in Players, q # s PROVE g[q].rush \cap g[s].rush = {}
      BY <1>7, <3>1, <3>2, <3>4
    <3> QED
      BY <3>3, <3>4
  <2>2. ASSUME NEW q \in Players, Kind(a.round) = "cafe_rush"
        PROVE  g[q].tea = Cardinality(g[q].rush)
    <3>1. h[q].tea = Cardinality(h[q].rush) /\ h[p].tea = Cardinality(h[p].rush)
      BY <2>2, <1>6 DEF HandsOK
    <3>2. Cardinality(h[p].rush \cup {x}) = Cardinality(h[p].rush) + 1
      <4>1. IsFiniteSet(h[p].rush)
        BY <1>6, LooseFinite
      <4>2. PICK R, y : R = h[p].rush /\ y = x
        OBVIOUS
      <4>3. IsFiniteSet(R) /\ y \notin R
        BY <1>7, <4>1, <4>2
      <4>4. Cardinality(R \cup {y}) = Cardinality(R) + 1
        BY <4>3, FS_AddElement
      <4> QED
        BY <4>2, <4>4
    <3> QED
      BY <2>2, <3>1, <3>2
  <2> QED
    BY <2>1, <2>2, <1>1 DEF HandsOK
<1>9. OrdersOK(b, g)
  <2>1. OrdersOK(a, h)
    BY DEF Conserved
  <2>2. \A q \in Players : g[q].order = h[q].order
    OBVIOUS
  <2> QED
    BY <2>1, <2>2, SameOrders
<1>10. IngredientsOK(b, g)
  <2> SUFFICES ASSUME a.phase = "active", Kind(a.round) = "cafe_rush"
               PROVE  Cardinality(Loose(b, g)) = Cardinality(OrdersIn(b, "waiting"))
    BY <1>1 DEF IngredientsOK
  <2>1. OrdersIn(b, "waiting") = OrdersIn(a, "waiting")
    BY <1>1 DEF OrdersIn
  <2>2. g[p].rush = h[p].rush \cup {x}
    OBVIOUS
  <2>3. Loose(b, g) \subseteq Loose(a, h)
    BY <2>2, <1>5 DEF Loose
  <2>4. \A q \in Players : h[q].rush \subseteq g[q].rush
    BY <2>2
  <2>5. Loose(a, h) \subseteq Loose(b, g)
    <3>1. ASSUME NEW y \in Loose(a, h) PROVE y \in Loose(b, g)
      <4>1. CASE y = x
        <5>1. x \in g[p].rush
          BY <2>2
        <5> QED
          BY <4>1, <5>1 DEF Loose
      <4>2. CASE y \in Lying(a) \ {x}
        BY <4>2, <1>5 DEF Loose
      <4>3. CASE \E q \in Players : y \in h[q].rush
        BY <4>3, <2>4 DEF Loose
      <4> QED
        BY <4>1, <4>2, <4>3 DEF Loose
    <3> QED
      BY <3>1
  <2>6. Loose(b, g) = Loose(a, h)
    BY <2>3, <2>5
  <2>7. IngredientsOK(a, h)
    BY DEF Conserved
  <2> QED
    BY <2>1, <2>6, <2>7 DEF IngredientsOK
<1> QED
  BY <1>8, <1>9, <1>10 DEF Conserved

\* leave_for_connection: what the player carried lies in the room again.
LEMMA DepartKeeps ==
    ASSUME NEW a \in Activity, NEW h \in [Players -> Hands], Conserved(a, h), NEW p \in Players,
           NEW b, b = Returned(a, p, h[p]),
           NEW g, g = [h EXCEPT ![p] = EmptyHands]
    PROVE  b \in Activity /\ g \in [Players -> Hands] /\ Conserved(b, g)
<1> DEFINE m == [i \in DOMAIN a.leaves |-> a.leaves[i] \/ <<a.round, i>> \in h[p].rush]
           back(i) == h[p].order = <<a.round, i>> /\ a.orders[i].by = p
           o == [i \in DOMAIN a.orders |->
                   IF back(i) THEN [status |-> "available", by |-> None] ELSE a.orders[i]]
<1>0. /\ a.leaves \in Leaves /\ a.orders \in Orders
      /\ m \in [DOMAIN a.leaves -> BOOLEAN] /\ o \in [DOMAIN a.orders -> OrderRecord]
  <2>1. \A i \in DOMAIN a.orders : a.orders[i] \in OrderRecord
    BY ActivityParts
  <2>2. [status |-> "available", by |-> None] \in OrderRecord
    BY DEF OrderRecord
  <2>3. o \in [DOMAIN a.orders -> OrderRecord]
    BY <2>1, <2>2
  <2>4. m \in [DOMAIN a.leaves -> BOOLEAN]
    OBVIOUS
  <2> QED
    BY <2>3, <2>4 DEF Activity
<1>1. /\ b \in Activity
      /\ b.round = a.round /\ b.phase = a.phase /\ b.completed = a.completed
      /\ b.leaves = m /\ b.orders = o
  <2>1. m \in Leaves /\ o \in Orders
    BY <1>0, LeavesKept, OrdersKept
  <2>2. b = [a EXCEPT !.leaves = m, !.orders = o]
    BY DEF Returned
  <2> HIDE DEF m, o
  <2> QED
    BY <2>1, <2>2 DEF Activity
<1>2. /\ g \in [Players -> Hands]
      /\ g[p].rush = {} /\ g[p].tea = 0 /\ g[p].order = None
      /\ \A q \in Players \ {p} : g[q] = h[q]
  <2>1. EmptyHands \in Hands
    BY DEF EmptyHands, Hands
  <2> QED
    BY <2>1 DEF EmptyHands
<1>3. HandsOK(a, h)
  BY DEF Conserved
<1>4. Lying(b) = Lying(a) \cup h[p].rush /\ Pieces(b) = Pieces(a)
  <2>1. h[p].rush \subseteq Pieces(a)
    BY <1>3 DEF HandsOK
  <2>2. FreeLeaves(b) = {i \in DOMAIN a.leaves : a.leaves[i] \/ <<a.round, i>> \in h[p].rush}
    BY <1>1 DEF FreeLeaves
  <2>3. DOMAIN b.leaves = DOMAIN a.leaves
    BY <1>1
  <2>4. Pieces(b) = Pieces(a)
    BY <1>1, <2>3 DEF Pieces
  <2>5. ASSUME NEW y \in Lying(b) PROVE y \in Lying(a) \cup h[p].rush
    <3>1. PICK i \in FreeLeaves(b) : y = <<a.round, i>>
      BY <1>1 DEF Lying
    <3>2. i \in FreeLeaves(a) \/ y \in h[p].rush
      BY <2>2, <3>1 DEF FreeLeaves
    <3> QED
      BY <3>1, <3>2 DEF Lying
  <2>6. ASSUME NEW y \in Lying(a) PROVE y \in Lying(b)
    <3>1. PICK i \in FreeLeaves(a) : y = <<a.round, i>>
      BY DEF Lying
    <3>2. i \in FreeLeaves(b)
      BY <2>2 DEF FreeLeaves
    <3> QED
      BY <1>1, <3>1, <3>2 DEF Lying
  <2>7. ASSUME NEW y \in h[p].rush PROVE y \in Lying(b)
    <3>1. PICK i \in DOMAIN a.leaves : y = <<a.round, i>>
      BY <2>1 DEF Pieces
    <3>2. i \in FreeLeaves(b)
      BY <2>2, <3>1
    <3> QED
      BY <1>1, <3>1, <3>2 DEF Lying
  <2> QED
    BY <2>4, <2>5, <2>6, <2>7
<1>5. HandsOK(b, g)
  BY <1>1, <1>2, <1>3, <1>4, FS_EmptySet DEF HandsOK
<1>6. ASSUME a.phase = "active", NEW i \in DOMAIN a.orders
      PROVE  /\ back(i) => a.orders[i] = [status |-> "claimed", by |-> p]
             /\ a.orders[i] = [status |-> "claimed", by |-> p] => back(i)
  BY <1>6 DEF Conserved, OrdersOK
<1>7. OrdersOK(b, g)
  <2> SUFFICES ASSUME a.phase = "active", NEW i \in DOMAIN a.orders, NEW q \in Players
               PROVE  (o[i] = [status |-> "claimed", by |-> q]) <=> (g[q].order = <<a.round, i>>)
    <3>1. DOMAIN b.orders = DOMAIN a.orders /\ b.phase = a.phase
      BY <1>1
    <3>2. \A i \in DOMAIN a.orders : b.orders[i] = o[i] /\ <<b.round, i>> = <<a.round, i>>
      BY <1>1
    <3> HIDE DEF o
    <3> SUFFICES ASSUME b.phase = "active", NEW i \in DOMAIN b.orders, NEW q \in Players
                 PROVE  (b.orders[i] = [status |-> "claimed", by |-> q]) <=> (g[q].order = <<b.round, i>>)
      BY DEF OrdersOK
    <3> QED
      BY <3>1, <3>2
  <2>1. (a.orders[i] = [status |-> "claimed", by |-> q]) <=> (h[q].order = <<a.round, i>>)
    BY DEF Conserved, OrdersOK
  <2>2. CASE back(i)
    <3>1. o[i].status = "available"
      BY <2>2
    <3>2. g[q].order # <<a.round, i>>
      <4>1. CASE q = p
        <5>1. <<a.round, i>> \in Nat \X Nat
          BY ActivityParts
        <5> QED
          BY <4>1, <5>1, <1>2, CafeRoomAssumption
      <4>2. CASE q # p
        BY <4>2, <2>1, <2>2, <1>2
      <4> QED
        BY <4>1, <4>2
    <3> QED
      BY <3>1, <3>2
  <2>3. CASE ~back(i)
    <3>1. o[i] = a.orders[i]
      BY <2>3
    <3>2. CASE q = p
      <4>1. <<a.round, i>> \in Nat \X Nat
        BY ActivityParts
      <4>2. g[q].order # <<a.round, i>>
        BY <3>2, <4>1, <1>2, CafeRoomAssumption
      <4> QED
        BY <3>1, <3>2, <4>2, <1>6, <2>3
    <3>3. CASE q # p
      BY <3>1, <3>3, <2>1, <1>2
    <3> QED
      BY <3>2, <3>3
  <2> QED
    BY <2>2, <2>3
<1>8. IngredientsOK(b, g)
  <2> SUFFICES ASSUME a.phase = "active", Kind(a.round) = "cafe_rush"
               PROVE  Cardinality(Loose(b, g)) = Cardinality(OrdersIn(b, "waiting"))
    BY <1>1 DEF IngredientsOK
  <2>1. OrdersIn(b, "waiting") = OrdersIn(a, "waiting")
    <3>1. ASSUME NEW i \in DOMAIN a.orders
          PROVE  o[i].status = "waiting" <=> a.orders[i].status = "waiting"
      BY <1>6
    <3> QED
      BY <1>1, <3>1 DEF OrdersIn
  <2>2. Loose(b, g) \subseteq Loose(a, h)
    BY <1>2, <1>4 DEF Loose
  <2>3. Loose(a, h) \subseteq Loose(b, g)
    BY <1>2, <1>4 DEF Loose
  <2>4. Loose(b, g) = Loose(a, h)
    BY <2>2, <2>3
  <2>5. IngredientsOK(a, h)
    BY DEF Conserved
  <2> QED
    BY <2>1, <2>4, <2>5 DEF IngredientsOK
<1> QED
  BY <1>1, <1>2, <1>5, <1>7, <1>8 DEF Conserved

-----------------------------------------------------------------------------
\* The first order of a status has that status.
LEMMA LeastOrder ==
    ASSUME NEW a \in Activity, NEW status, OrdersIn(a, status) # {}
    PROVE  Min(OrdersIn(a, status)) \in OrdersIn(a, status)
<1>1. PICK T : T = OrdersIn(a, status)
  OBVIOUS
<1>2. T \subseteq Nat /\ T # {}
  BY <1>1, ActivityParts DEF OrdersIn
<1>3. PICK n \in T : \A m \in T : n <= m
  BY <1>2, LeastNumber
<1>4. Min(T) \in T
  BY <1>3 DEF Min
<1> QED
  BY <1>1, <1>4

OrderSet(a, i, new) == [a EXCEPT !.orders = [a.orders EXCEPT ![i] = new]]

\* What changing one order does to the activity.
LEMMA OrderUpdate ==
    ASSUME NEW a \in Activity, NEW i \in DOMAIN a.orders, NEW new \in OrderRecord,
           NEW b, b = OrderSet(a, i, new)
    PROVE  /\ b \in Activity
           /\ b.round = a.round /\ b.phase = a.phase /\ b.completed = a.completed
           /\ b.leaves = a.leaves /\ b.orders = [a.orders EXCEPT ![i] = new]
<1>1. PICK o : o = [a.orders EXCEPT ![i] = new]
  OBVIOUS
<1>2. a.orders \in Orders /\ o \in [DOMAIN a.orders -> OrderRecord]
  BY <1>1, ActivityParts DEF Activity
<1>3. o \in Orders
  BY <1>2, OrdersKept
<1> QED
  BY <1>1, <1>3 DEF Activity, OrderSet

\* Ingredients that a step does not touch stay where they are.
LEMMA SameIngredients ==
    ASSUME NEW a, NEW h, NEW b, NEW g, HandsOK(a, h),
           b.round = a.round, b.leaves = a.leaves,
           \A q \in Players : g[q].rush = h[q].rush,
           \A q \in Players : Kind(a.round) = "cafe_rush" => g[q].tea = h[q].tea
    PROVE  HandsOK(b, g) /\ Loose(b, g) = Loose(a, h)
<1>1. Pieces(b) = Pieces(a) /\ Lying(b) = Lying(a)
  BY DEF Pieces, Lying, FreeLeaves
<1>2. HandsOK(b, g)
  BY <1>1 DEF HandsOK
<1>3. UNION {g[q].rush : q \in Players} = UNION {h[q].rush : q \in Players}
  OBVIOUS
<1> QED
  BY <1>1, <1>2, <1>3 DEF Loose

\* Prepare: an ingredient is used up for an order that was waiting for it.
LEMMA PrepareKeeps ==
    ASSUME NEW a \in Activity, NEW h \in [Players -> Hands], Conserved(a, h),
           NEW p \in Players, NEW leaf \in h[p].rush, NEW i \in OrdersIn(a, "waiting"),
           Kind(a.round) = "cafe_rush",
           NEW new, new.status = "available",
           NEW b \in Activity,
           b.round = a.round, b.phase = a.phase, b.completed = a.completed,
           b.leaves = a.leaves, b.orders = [a.orders EXCEPT ![i] = new],
           NEW g \in [Players -> Hands],
           g[p].tea = h[p].tea - 1, g[p].order = h[p].order, g[p].rush = h[p].rush \ {leaf},
           \A q \in Players \ {p} : g[q] = h[q]
    PROVE  Conserved(b, g)
<1>1. HandsOK(a, h)
  BY DEF Conserved
<1>2. Pieces(b) = Pieces(a) /\ Lying(b) = Lying(a)
  BY DEF Pieces, Lying, FreeLeaves
<1>3. i \in DOMAIN a.orders /\ a.orders[i].status = "waiting" /\ DOMAIN b.orders = DOMAIN a.orders
  BY DEF OrdersIn
<1>4. HandsOK(b, g)
  <2>1. ASSUME NEW q \in Players
        PROVE  /\ g[q].rush \subseteq h[q].rush
               /\ g[q].tea = Cardinality(g[q].rush)
    <3>1. h[q].tea = Cardinality(h[q].rush) /\ IsFiniteSet(h[q].rush)
      BY <1>1, LooseFinite DEF HandsOK
    <3>2. CASE q # p
      BY <3>1, <3>2
    <3>3. CASE q = p
      <4>1. Cardinality(h[p].rush \ {leaf}) = Cardinality(h[p].rush) - 1
        BY <3>1, <3>3, FS_RemoveElement
      <4> QED
        BY <3>1, <3>3, <4>1
    <3> QED
      BY <3>2, <3>3
  <2>2. ASSUME NEW q \in Players
        PROVE  /\ h[q].rush \subseteq Pieces(b) /\ h[q].rush \cap Lying(b) = {}
               /\ \A s \in Players : q # s => h[q].rush \cap h[s].rush = {}
    BY <1>1, <1>2 DEF HandsOK
  <2>3. ASSUME NEW q \in Players
        PROVE  g[q].rush \subseteq Pieces(b) /\ g[q].rush \cap Lying(b) = {}
    BY <2>1, <2>2
  <2>4. ASSUME NEW q \in Players, NEW s \in Players, q # s
        PROVE  g[q].rush \cap g[s].rush = {}
    BY <2>1, <2>2, <2>4
  <2> QED
    BY <2>1, <2>3, <2>4 DEF HandsOK
<1>5. OrdersOK(b, g)
  <2> SUFFICES ASSUME b.phase = "active", NEW j \in DOMAIN b.orders, NEW q \in Players
               PROVE  (b.orders[j] = [status |-> "claimed", by |-> q]) <=> (g[q].order = <<b.round, j>>)
    BY DEF OrdersOK
  <2>1. (a.orders[j] = [status |-> "claimed", by |-> q]) <=> (h[q].order = <<a.round, j>>)
    BY <1>3 DEF Conserved, OrdersOK
  <2>2. g[q].order = h[q].order
    OBVIOUS
  <2>3. (b.orders[j] = [status |-> "claimed", by |-> q])
            <=> (a.orders[j] = [status |-> "claimed", by |-> q])
    <3>1. CASE j = i
      <4>1. a.orders[j].status # "claimed" /\ b.orders[j].status # "claimed"
        BY <3>1, <1>3
      <4> QED
        BY <4>1
    <3>2. CASE j # i
      BY <3>2, <1>3
    <3> QED
      BY <3>1, <3>2
  <2> QED
    BY <2>1, <2>2, <2>3
<1>6. IngredientsOK(b, g)
  <2> SUFFICES ASSUME a.phase = "active"
               PROVE  Cardinality(Loose(b, g)) = Cardinality(OrdersIn(b, "waiting"))
    BY DEF IngredientsOK
  <2>1. OrdersIn(b, "waiting") = OrdersIn(a, "waiting") \ {i}
    BY <1>3 DEF OrdersIn
  <2>2. ASSUME NEW x PROVE x \in Loose(b, g) <=> x \in Loose(a, h) /\ x # leaf
    <3>1. \A q \in Players : g[q].rush = h[q].rush \ {leaf}
      <4>1. ASSUME NEW q \in Players, q # p PROVE leaf \notin h[q].rush
        BY <1>1, <4>1 DEF HandsOK
      <4> QED
        BY <4>1
    <3>2. leaf \notin Lying(a)
      BY <1>1 DEF HandsOK
    <3> QED
      BY <1>2, <3>1, <3>2 DEF Loose
  <2>3. Loose(b, g) = Loose(a, h) \ {leaf} /\ leaf \in Loose(a, h)
    BY <2>2 DEF Loose
  <2>4. IsFiniteSet(Loose(a, h)) /\ IsFiniteSet(OrdersIn(a, "waiting"))
    BY <1>1, LooseFinite
  <2>5. Cardinality(Loose(a, h)) = Cardinality(OrdersIn(a, "waiting"))
    BY DEF Conserved, IngredientsOK
  <2>6. /\ Cardinality(Loose(a, h) \ {leaf}) = Cardinality(Loose(a, h)) - 1
        /\ Cardinality(OrdersIn(a, "waiting") \ {i}) = Cardinality(OrdersIn(a, "waiting")) - 1
    BY <2>3, <2>4, FS_RemoveElement
  <2> QED
    BY <2>1, <2>3, <2>5, <2>6
<1> QED
  BY <1>4, <1>5, <1>6 DEF Conserved

\* ClaimFirst: an order at the counter goes to a player with no order in hand.
LEMMA ClaimKeeps ==
    ASSUME NEW a \in Activity, NEW h \in [Players -> Hands], Conserved(a, h),
           NEW p \in Players, NEW i \in OrdersIn(a, "available"), h[p].order = None,
           NEW b \in Activity,
           b.round = a.round, b.phase = a.phase, b.completed = a.completed,
           b.leaves = a.leaves,
           b.orders = [a.orders EXCEPT ![i] = [status |-> "claimed", by |-> p]],
           NEW g \in [Players -> Hands],
           g[p].tea = h[p].tea, g[p].rush = h[p].rush, g[p].order = <<a.round, i>>,
           \A q \in Players \ {p} : g[q] = h[q]
    PROVE  Conserved(b, g)
<1>1. HandsOK(b, g) /\ Loose(b, g) = Loose(a, h)
  <2>1. HandsOK(a, h) /\ \A q \in Players : g[q].rush = h[q].rush
    BY DEF Conserved
  <2>2. \A q \in Players : Kind(a.round) = "cafe_rush" => g[q].tea = h[q].tea
    OBVIOUS
  <2> QED
    BY <2>1, <2>2, SameIngredients
<1>2. i \in DOMAIN a.orders /\ a.orders[i].status = "available" /\ DOMAIN b.orders = DOMAIN a.orders
  BY DEF OrdersIn
<1>3. OrdersOK(b, g)
  <2> SUFFICES ASSUME b.phase = "active", NEW j \in DOMAIN b.orders, NEW q \in Players
               PROVE  (b.orders[j] = [status |-> "claimed", by |-> q]) <=> (g[q].order = <<b.round, j>>)
    BY DEF OrdersOK
  <2>1. (a.orders[j] = [status |-> "claimed", by |-> q]) <=> (h[q].order = <<a.round, j>>)
    BY <1>2 DEF Conserved, OrdersOK
  <2>2. h[p].order # <<a.round, j>>
    <3>1. <<a.round, j>> \in Nat \X Nat
      BY <1>2, ActivityParts
    <3> QED
      BY <3>1, CafeRoomAssumption
  <2>3. CASE j = i /\ q = p
    BY <2>3, <1>2
  <2>4. CASE j = i /\ q # p
    <3>1. b.orders[j].by = p
      BY <2>4, <1>2
    <3>2. h[q].order # <<a.round, j>>
      BY <2>1, <2>4, <1>2
    <3> QED
      BY <3>1, <3>2, <2>4
  <2>5. CASE j # i
    <3>1. b.orders[j] = a.orders[j]
      BY <2>5, <1>2
    <3>2. g[q].order = <<a.round, j>> <=> h[q].order = <<a.round, j>>
      BY <2>2, <2>5
    <3> QED
      BY <3>1, <3>2, <2>1
  <2> QED
    BY <2>3, <2>4, <2>5
<1>4. IngredientsOK(b, g)
  <2>1. OrdersIn(b, "waiting") = OrdersIn(a, "waiting")
    BY <1>2 DEF OrdersIn
  <2> QED
    BY <1>1, <2>1 DEF Conserved, IngredientsOK
<1> QED
  BY <1>1, <1>3, <1>4 DEF Conserved

\* Delivering to Aiko in Tea Delivery: the hand is empty, the round may be over.
LEMMA TeaKeeps ==
    ASSUME NEW a \in Activity, NEW h \in [Players -> Hands], Conserved(a, h),
           NEW p \in Players, Kind(a.round) = "tea_delivery",
           NEW b \in Activity,
           b.round = a.round, b.phase \in {a.phase, "intermission"},
           b.completed => b.phase = "intermission",
           b.leaves = a.leaves, b.orders = a.orders,
           NEW g \in [Players -> Hands],
           g[p].rush = h[p].rush, g[p].order = h[p].order,
           \A q \in Players \ {p} : g[q] = h[q]
    PROVE  Conserved(b, g)
<1>1. HandsOK(b, g)
  <2>1. HandsOK(a, h) /\ \A q \in Players : g[q].rush = h[q].rush
    BY DEF Conserved
  <2>2. \A q \in Players : Kind(a.round) = "cafe_rush" => g[q].tea = h[q].tea
    OBVIOUS
  <2> QED
    BY <2>1, <2>2, SameIngredients
<1>2. OrdersOK(b, g)
  <2>1. CASE b.phase = a.phase
    <3>1. OrdersOK(a, h) /\ \A q \in Players : g[q].order = h[q].order
      BY DEF Conserved
    <3> QED
      BY <2>1, <3>1, SameOrders
  <2>2. CASE b.phase = "intermission"
    BY <2>2 DEF OrdersOK
  <2> QED
    BY <2>1, <2>2
<1>3. IngredientsOK(b, g)
  BY DEF IngredientsOK
<1> QED
  BY <1>1, <1>2, <1>3 DEF Conserved

\* serve_claimed_order: the drink leaves the hand and its order is served.
LEMMA ServeKeeps ==
    ASSUME NEW a \in Activity, NEW h \in [Players -> Hands], Conserved(a, h), a.phase = "active",
           NEW p \in Players, NEW i \in DOMAIN a.orders,
           a.orders[i] = [status |-> "claimed", by |-> p], h[p].order = <<a.round, i>>,
           NEW b \in Activity,
           b.round = a.round, b.phase \in {a.phase, "intermission"},
           b.completed => b.phase = "intermission",
           b.leaves = a.leaves,
           b.orders = [a.orders EXCEPT ![i] = [status |-> "served", by |-> None]],
           NEW g \in [Players -> Hands],
           g[p].tea = h[p].tea, g[p].rush = h[p].rush, g[p].order = None,
           \A q \in Players \ {p} : g[q] = h[q]
    PROVE  Conserved(b, g)
<1>1. HandsOK(b, g) /\ Loose(b, g) = Loose(a, h)
  <2>1. HandsOK(a, h) /\ \A q \in Players : g[q].rush = h[q].rush
    BY DEF Conserved
  <2>2. \A q \in Players : Kind(a.round) = "cafe_rush" => g[q].tea = h[q].tea
    OBVIOUS
  <2> QED
    BY <2>1, <2>2, SameIngredients
<1>2. DOMAIN b.orders = DOMAIN a.orders /\ a.orders[i].status = "claimed"
  OBVIOUS
<1>3. OrdersOK(b, g)
  <2> SUFFICES ASSUME b.phase = "active", NEW j \in DOMAIN b.orders, NEW q \in Players
               PROVE  (b.orders[j] = [status |-> "claimed", by |-> q]) <=> (g[q].order = <<b.round, j>>)
    BY DEF OrdersOK
  <2>1. (a.orders[j] = [status |-> "claimed", by |-> q]) <=> (h[q].order = <<a.round, j>>)
    BY <1>2 DEF Conserved, OrdersOK
  <2>2. g[p].order # <<a.round, j>>
    <3>1. <<a.round, j>> \in Nat \X Nat
      BY <1>2, ActivityParts
    <3> QED
      BY <3>1, CafeRoomAssumption
  <2>3. CASE j = i
    <3>1. b.orders[j].status = "served"
      BY <2>3, <1>2
    <3>2. ASSUME q # p PROVE h[q].order # <<a.round, j>>
      <4>1. a.orders[j].by = p
        BY <2>3
      <4>2. a.orders[j] # [status |-> "claimed", by |-> q]
        BY <3>2, <4>1
      <4> QED
        BY <2>1, <4>2
    <3> QED
      BY <3>1, <3>2, <2>2
  <2>4. CASE j # i
    <3>1. b.orders[j] = a.orders[j]
      BY <2>4, <1>2
    <3>2. h[p].order # <<a.round, j>>
      BY <2>4
    <3>3. g[q].order = <<a.round, j>> <=> h[q].order = <<a.round, j>>
      BY <2>2, <3>2
    <3> QED
      BY <3>1, <3>3, <2>1
  <2> QED
    BY <2>3, <2>4
<1>4. IngredientsOK(b, g)
  <2>1. OrdersIn(b, "waiting") = OrdersIn(a, "waiting")
    BY <1>2 DEF OrdersIn
  <2> QED
    BY <1>1, <2>1 DEF Conserved, IngredientsOK
<1> QED
  BY <1>1, <1>3, <1>4 DEF Conserved

\* expire_cafe_rush: the deadline empties every hand and ends the round's bookkeeping.
LEMMA ExpireKeeps ==
    ASSUME NEW b \in Activity, b.phase = "intermission",
           NEW g, g = [q \in Players |-> EmptyHands]
    PROVE  Conserved(b, g)
<1>1. \A p \in Players : g[p].rush = {} /\ g[p].tea = 0
  BY DEF EmptyHands
<1>2. HandsOK(b, g)
  BY <1>1, FS_EmptySet DEF HandsOK
<1> QED
  BY <1>2 DEF Conserved, OrdersOK, IngredientsOK

\* Least and greatest of two numbers.
LEMMA LesserOfTwo ==
    ASSUME NEW x \in Nat, NEW y \in Nat
    PROVE  Min({x, y}) \in Nat /\ Max({x, y}) = IF x < y THEN y ELSE x
<1>1. PICK T : T = {x, y}
  OBVIOUS
<1>2. T \subseteq Nat /\ T # {}
  BY <1>1
<1>3. PICK n \in T : \A m \in T : n <= m
  BY <1>2, LeastNumber
<1>4. Min(T) \in T
  BY <1>3 DEF Min
<1>5. PICK m : m = IF x < y THEN y ELSE x
  OBVIOUS
<1>6. m \in T /\ \A n2 \in T : m >= n2
  BY <1>1, <1>5
<1>7. Max(T) \in T /\ \A n2 \in T : Max(T) >= n2
  BY <1>6 DEF Max
<1>8. Max(T) = m
  <2>1. PICK k : k = Max(T)
    OBVIOUS
  <2>2. k \in Nat /\ m \in Nat /\ k >= m /\ m >= k
    BY <1>2, <1>6, <1>7, <2>1
  <2> QED
    BY <2>1, <2>2
<1> QED
  BY <1>1, <1>2, <1>4, <1>5, <1>8

\* completed_now: a round is completed and in intermission together.
LEMMA DeliveredParts ==
    ASSUME NEW a \in Activity, NEW n \in Nat, a.phase = "active", ~a.completed,
           NEW b, b = Delivered(a, n)
    PROVE  /\ b \in Activity /\ b.round = a.round
           /\ b.phase \in {a.phase, "intermission"}
           /\ b.completed <=> b.phase = "intermission"
           /\ b.leaves = a.leaves /\ b.orders = a.orders
<1>1. PICK d, done : /\ d = Min({a.delivered + n, a.target})
                     /\ done = (~a.completed /\ d >= a.target)
  OBVIOUS
<1>2. a.delivered + n \in Nat /\ a.target \in Nat
  BY DEF Activity
<1>3. d \in Nat
  BY <1>1, <1>2, LesserOfTwo
<1>4. done \in BOOLEAN
  BY <1>1
<1>5. b = [a EXCEPT !.delivered = d, !.completed = a.completed \/ done,
                    !.phase = IF done THEN "intermission" ELSE a.phase,
                    !.window = IF done THEN FALSE ELSE a.window]
  BY <1>1 DEF Delivered
<1>6. CASE done
  <2>1. b = [a EXCEPT !.delivered = d, !.completed = TRUE, !.phase = "intermission", !.window = FALSE]
    BY <1>5, <1>6
  <2> QED
    BY <2>1, <1>3 DEF Activity
<1>7. CASE ~done
  <2>1. b = [a EXCEPT !.delivered = d, !.completed = FALSE, !.phase = "active", !.window = a.window]
    BY <1>5, <1>7
  <2> QED
    BY <2>1, <1>3 DEF Activity
<1> QED
  BY <1>4, <1>6, <1>7

\* Scoring a delivery changes neither leaves, orders, round nor phase.
LEMMA ScoredParts ==
    ASSUME NEW a \in Activity, NEW inWindow \in BOOLEAN, NEW b, b = Scored(a, inWindow)
    PROVE  /\ b \in Activity /\ b.round = a.round
           /\ b.phase = a.phase /\ b.completed = a.completed
           /\ b.leaves = a.leaves /\ b.orders = a.orders
<1>1. CASE Kind(a.round) # "cafe_rush"
  BY <1>1 DEF Scored
<1>2. CASE Kind(a.round) = "cafe_rush"
  <2>1. PICK combo : combo = IF inWindow THEN a.combo + 1 ELSE 1
    OBVIOUS
  <2>2. a.combo \in Nat /\ a.best \in Nat
    BY DEF Activity
  <2>3. combo \in Nat
    BY <2>1, <2>2
  <2>4. PICK best \in Nat : best = Max({a.best, combo})
    BY <2>2, <2>3, LesserOfTwo
  <2>5. b = [a EXCEPT !.combo = combo, !.best = best, !.window = TRUE]
    BY <1>2, <2>1, <2>4 DEF Scored
  <2> QED
    BY <2>3, <2>5 DEF Activity
<1> QED
  BY <1>1, <1>2

-----------------------------------------------------------------------------
\* The parts of a room.
LEMMA RoomParts ==
    ASSUME NEW r \in Room
    PROVE  /\ r.activity \in Activity /\ r.alive \in BOOLEAN
           /\ r.players \in [Players -> PlayerRecord]
           /\ HandsOf(r) \in [Players -> Hands]
           /\ \A p \in Players : HandsOf(r)[p] = r.players[p].hands
<1>1. /\ r.activity \in Activity /\ r.alive \in BOOLEAN
      /\ r.players \in [Players -> PlayerRecord]
  BY DEF Room
<1>2. \A p \in Players : r.players[p].hands \in Hands
  BY <1>1 DEF PlayerRecord
<1> QED
  BY <1>1, <1>2 DEF HandsOf

\* One player's entry and the activity change.
Changed(r, b, p, new) == [r EXCEPT !.activity = b, !.players = [r.players EXCEPT ![p] = new]]

\* What changing the activity and one player does to the room.
LEMMA RoomUpdate ==
    ASSUME NEW r \in Room, NEW b \in Activity, NEW p \in Players, NEW new \in PlayerRecord,
           NEW s, s = Changed(r, b, p, new)
    PROVE  /\ s \in Room /\ s.activity = b /\ s.alive = r.alive
           /\ HandsOf(s) \in [Players -> Hands] /\ HandsOf(s)[p] = new.hands
           /\ \A q \in Players \ {p} : HandsOf(s)[q] = HandsOf(r)[q]
<1>1. PICK players : players = [r.players EXCEPT ![p] = new]
  OBVIOUS
<1>2. /\ players \in [Players -> PlayerRecord] /\ players[p] = new
      /\ \A q \in Players \ {p} : players[q] = r.players[q]
  BY <1>1, RoomParts
<1>3. s \in Room /\ s.activity = b /\ s.alive = r.alive /\ s.players = players
  BY <1>1, <1>2 DEF Room, Changed
<1>4. /\ HandsOf(s) \in [Players -> Hands]
      /\ \A q \in Players : HandsOf(s)[q] = s.players[q].hands /\ HandsOf(r)[q] = r.players[q].hands
  BY <1>3, RoomParts
<1> QED
  BY <1>2, <1>3, <1>4

\* What changing the hands of a player does to the player.
LEMMA HandsUpdate ==
    ASSUME NEW e \in PlayerRecord, NEW hands \in Hands
    PROVE  [e EXCEPT !.hands = hands] \in PlayerRecord /\ [e EXCEPT !.hands = hands].hands = hands
BY DEF PlayerRecord

\* A player who departs returns what was in hand: the room conserves its round.
LEMMA DepartRoom ==
    ASSUME NEW r \in Room, Conserved(r.activity, HandsOf(r)), NEW p \in Players
    PROVE  /\ Depart(r, p) \in Room /\ Depart(r, p).alive = r.alive
           /\ Depart(r, p).activity.round = r.activity.round
           /\ Depart(r, p).activity.phase = r.activity.phase
           /\ Conserved(Depart(r, p).activity, HandsOf(Depart(r, p)))
<1>1. PICK b : b = Returned(r.activity, p, r.players[p].hands)
  OBVIOUS
<1>2. PICK g : g = [HandsOf(r) EXCEPT ![p] = EmptyHands]
  OBVIOUS
<1>3. b = Returned(r.activity, p, HandsOf(r)[p])
  BY <1>1, RoomParts
<1>4. b \in Activity /\ g \in [Players -> Hands] /\ Conserved(b, g)
  BY <1>2, <1>3, RoomParts, DepartKeeps
<1>5. b.round = r.activity.round /\ b.phase = r.activity.phase
  BY <1>1, RoomParts DEF Returned, Activity
<1>6. PICK s : s = Changed(r, b, p, Absent)
  OBVIOUS
<1>7. Absent \in PlayerRecord /\ Absent.hands = EmptyHands
  BY DEF Absent, PlayerRecord, EmptyHands, Hands
<1>8. /\ s \in Room /\ s.activity = b /\ s.alive = r.alive
      /\ HandsOf(s) \in [Players -> Hands] /\ HandsOf(s)[p] = EmptyHands
      /\ \A q \in Players \ {p} : HandsOf(s)[q] = HandsOf(r)[q]
  <2>1. b \in Activity
    BY <1>4
  <2> QED
    BY <1>6, <1>7, <2>1, RoomUpdate
<1>9. HandsOf(s) = g
  BY <1>2, <1>8, RoomParts
<1>10. PICK d : d = Depart(r, p)
  OBVIOUS
<1>11. d = [s EXCEPT !.aged = FALSE]
  BY <1>1, <1>6, <1>10 DEF Depart, Changed
<1>12. /\ d \in Room /\ d.activity = s.activity /\ d.alive = s.alive /\ d.players = s.players
  BY <1>8, <1>11 DEF Room
<1>13. HandsOf(d) = HandsOf(s)
  BY <1>12 DEF HandsOf
<1> QED
  BY <1>4, <1>5, <1>8, <1>9, <1>10, <1>12, <1>13

\* A player who joins has nothing in hand that the room did not count.
LEMMA JoinedRoom ==
    ASSUME NEW r \in Room, NEW p \in Players, NEW c \in Conns
    PROVE  /\ JoinRoom(r, p, c) \in Room /\ JoinRoom(r, p, c).alive = r.alive
           /\ JoinRoom(r, p, c).activity = r.activity
           /\ HandsOf(JoinRoom(r, p, c)) = HandsOf(r)
<1>1. PICK new : new = [r.players[p] EXCEPT !.conn = c]
  OBVIOUS
<1>2. r.players[p] \in PlayerRecord
  BY RoomParts
<1>3. new \in PlayerRecord /\ new.hands = r.players[p].hands
  BY <1>1, <1>2 DEF PlayerRecord
<1>4. PICK s : s = Changed(r, r.activity, p, new)
  OBVIOUS
<1>5. /\ s \in Room /\ s.activity = r.activity /\ s.alive = r.alive
      /\ HandsOf(s) \in [Players -> Hands] /\ HandsOf(s)[p] = new.hands
      /\ \A q \in Players \ {p} : HandsOf(s)[q] = HandsOf(r)[q]
  <2>1. r.activity \in Activity
    BY RoomParts
  <2> QED
    BY <1>3, <1>4, <2>1, RoomUpdate
<1>6. HandsOf(s) = HandsOf(r)
  BY <1>3, <1>5, RoomParts
<1>7. PICK d : d = JoinRoom(r, p, c)
  OBVIOUS
<1>8. d = [s EXCEPT !.aged = FALSE]
  BY <1>1, <1>4, <1>7 DEF JoinRoom, Room, Changed
<1>9. d \in Room /\ d.activity = s.activity /\ d.alive = s.alive /\ d.players = s.players
  BY <1>5, <1>8 DEF Room
<1>10. HandsOf(d) = HandsOf(s)
  BY <1>9 DEF HandsOf
<1> QED
  BY <1>5, <1>6, <1>7, <1>9, <1>10

\* A player's hands and the activity change.
Handed(r, b, p, hands) == Changed(r, b, p, [r.players[p] EXCEPT !.hands = hands])

\* What changing the activity and the hands of one player does to the room.
LEMMA HandedRoom ==
    ASSUME NEW r \in Room, NEW b \in Activity, NEW p \in Players, NEW hands \in Hands,
           NEW s, s = Handed(r, b, p, hands)
    PROVE  /\ s \in Room /\ s.activity = b /\ s.alive = r.alive
           /\ HandsOf(s) \in [Players -> Hands] /\ HandsOf(s)[p] = hands
           /\ \A q \in Players \ {p} : HandsOf(s)[q] = HandsOf(r)[q]
<1>1. PICK new : new = [r.players[p] EXCEPT !.hands = hands]
  OBVIOUS
<1>2. r.players[p] \in PlayerRecord
  BY RoomParts
<1>3. new \in PlayerRecord /\ new.hands = hands
  BY <1>1, <1>2, HandsUpdate
<1>4. s = Changed(r, b, p, new)
  BY <1>1 DEF Handed
<1> QED
  BY <1>3, <1>4, RoomUpdate

\* What a step does to the room alone.
RoomStep ==
    /\ room' \in Room
    /\ Conserved(room'.activity, HandsOf(room'))
SamePhase ==
    /\ room'.alive => room.alive
    /\ room'.activity.round = room.activity.round
    /\ room'.activity.phase = room.activity.phase
    /\ timers' = timers

\* A socket that may interact is a player in an active round.
LEMMA Interacts ==
    ASSUME SocketInv, RoomInv, NEW c \in Conns, CanInteract(c)
    PROVE  /\ sess[c] \in Players /\ room.activity \in Activity
           /\ room.activity.phase = "active" /\ room.activity.completed = FALSE
           /\ HandsOf(room) \in [Players -> Hands]
           /\ HandsOf(room)[sess[c]] = room.players[sess[c]].hands
           /\ room.players[sess[c]].hands \in Hands
           /\ Conserved(room.activity, HandsOf(room))
<1>1. sess[c] \in Players
  BY DEF SocketInv, CanInteract
<1>2. room.activity \in Activity /\ HandsOf(room) \in [Players -> Hands]
      /\ HandsOf(room)[sess[c]] = room.players[sess[c]].hands
  BY <1>1, RoomParts DEF RoomInv
<1>3. room.activity.completed \in BOOLEAN
  BY <1>2 DEF Activity
<1> QED
  BY <1>1, <1>2, <1>3 DEF RoomInv, Conserved, CanInteract

\* Picking a leaf conserves the round and leaves its phase alone.
LEMMA PickLeafStep ==
    ASSUME SocketInv, RoomInv, NEW c \in Conns, NEW i, PickLeaf(c, i)
    PROVE  RoomStep /\ SamePhase
<1>1. PICK p, a, h, g : p = sess[c] /\ a = room.activity /\ h = HandsOf(room) /\ g = HandsOf(room')
  OBVIOUS
<1>2. /\ p \in Players /\ a \in Activity /\ h \in [Players -> Hands] /\ Conserved(a, h)
      /\ h[p] = room.players[p].hands /\ h[p] \in Hands
      /\ i \in DOMAIN a.leaves /\ a.leaves[i] /\ room \in Room
  BY <1>1, Interacts DEF PickLeaf, RoomInv
<1>3. PICK b : b = LeafTaken(a, i)
  OBVIOUS
<1>4. /\ b \in Activity
      /\ b.round = a.round /\ b.phase = a.phase /\ b.completed = a.completed
      /\ b.leaves = [a.leaves EXCEPT ![i] = FALSE] /\ b.orders = a.orders
  BY <1>2, <1>3, PickActivity
<1>5. PICK hands : hands = WithLeaf(h[p], a.round, i)
  OBVIOUS
<1>6. /\ hands \in Hands /\ hands.tea = h[p].tea + 1 /\ hands.order = h[p].order
      /\ hands.rush = IF Kind(a.round) = "cafe_rush" THEN h[p].rush \cup {<<a.round, i>>} ELSE h[p].rush
  <2>1. a.round \in Rounds /\ i \in Nat
    BY <1>2, ActivityParts
  <2>2. PICK hp : hp = h[p]
    OBVIOUS
  <2>3. hp \in Hands /\ hands = WithLeaf(hp, a.round, i)
    BY <1>2, <1>5, <2>2
  <2>4. /\ hands \in Hands /\ hands.tea = hp.tea + 1 /\ hands.order = hp.order
        /\ hands.rush = IF Kind(a.round) = "cafe_rush" THEN hp.rush \cup {<<a.round, i>>} ELSE hp.rush
    BY <2>1, <2>3, PickHands
  <2> QED
    BY <2>2, <2>4
<1>7. room' = Handed(room, b, p, hands)
  BY <1>1, <1>2, <1>3, <1>5 DEF PickLeaf, Handed, Changed, LeafTaken
<1>8. /\ room' \in Room /\ room'.activity = b /\ room'.alive = room.alive
      /\ g \in [Players -> Hands] /\ g[p] = hands
      /\ \A q \in Players \ {p} : g[q] = h[q]
  BY <1>1, <1>2, <1>4, <1>6, <1>7, HandedRoom
<1>9. Conserved(b, g)
  BY <1>2, <1>4, <1>6, <1>8, PickKeeps
<1> QED
  BY <1>1, <1>4, <1>8, <1>9 DEF RoomStep, SamePhase, PickLeaf

\* Claiming the first available order conserves the round.
LEMMA ClaimStep ==
    ASSUME SocketInv, RoomInv, NEW c \in Conns, CanInteract(c),
           room.players[sess[c]].hands.order = None,
           OrdersIn(room.activity, "available") # {},
           room' = ClaimFirst(room, sess[c]), timers' = timers
    PROVE  RoomStep /\ SamePhase
<1>1. PICK p, a, h, g : p = sess[c] /\ a = room.activity /\ h = HandsOf(room) /\ g = HandsOf(room')
  OBVIOUS
<1>2. /\ p \in Players /\ a \in Activity /\ h \in [Players -> Hands] /\ Conserved(a, h)
      /\ h[p] = room.players[p].hands /\ h[p] \in Hands /\ h[p].order = None /\ room \in Room
  BY <1>1, Interacts DEF RoomInv
<1>3. PICK i : i = Min(OrdersIn(a, "available"))
  OBVIOUS
<1>4. i \in OrdersIn(a, "available") /\ i \in DOMAIN a.orders
  <2>1. i \in OrdersIn(a, "available")
    BY <1>1, <1>2, <1>3, LeastOrder
  <2> QED
    BY <2>1 DEF OrdersIn
<1>5. PICK new : new = [status |-> "claimed", by |-> p]
  OBVIOUS
<1>6. PICK b : b = OrderSet(a, i, new)
  OBVIOUS
<1>7. /\ b \in Activity
      /\ b.round = a.round /\ b.phase = a.phase /\ b.completed = a.completed
      /\ b.leaves = a.leaves /\ b.orders = [a.orders EXCEPT ![i] = new]
  <2>1. new \in OrderRecord
    BY <1>2, <1>5 DEF OrderRecord
  <2> QED
    BY <1>2, <1>4, <1>6, <2>1, OrderUpdate
<1>8. PICK hands : hands = [h[p] EXCEPT !.order = <<a.round, i>>]
  OBVIOUS
<1>9. /\ hands \in Hands /\ hands.tea = h[p].tea /\ hands.rush = h[p].rush
      /\ hands.order = <<a.round, i>>
  <2>1. <<a.round, i>> \in Things
    BY <1>2, <1>4, ActivityParts DEF Things
  <2> QED
    BY <1>2, <1>8, <2>1 DEF Hands
<1>10. room' = Handed(room, b, p, hands)
  BY <1>1, <1>2, <1>3, <1>5, <1>6, <1>8 DEF ClaimFirst, Handed, Changed, OrderSet
<1>11. /\ room' \in Room /\ room'.activity = b /\ room'.alive = room.alive
       /\ g \in [Players -> Hands] /\ g[p] = hands
       /\ \A q \in Players \ {p} : g[q] = h[q]
  BY <1>1, <1>2, <1>7, <1>9, <1>10, HandedRoom
<1>12. Conserved(b, g)
  BY <1>2, <1>4, <1>5, <1>7, <1>9, <1>11, ClaimKeeps
<1> QED
  BY <1>1, <1>7, <1>11, <1>12 DEF RoomStep, SamePhase

\* Preparing the first waiting rush order from a leaf conserves the round.
LEMMA PrepareStep ==
    ASSUME SocketInv, RoomInv, NEW c \in Conns, CanInteract(c),
           Kind(room.activity.round) = "cafe_rush",
           NEW leaf \in room.players[sess[c]].hands.rush,
           OrdersIn(room.activity, "waiting") # {},
           room' = Prepare(room, sess[c], leaf), timers' = timers
    PROVE  RoomStep /\ SamePhase
<1>1. PICK p, a, h, g : p = sess[c] /\ a = room.activity /\ h = HandsOf(room) /\ g = HandsOf(room')
  OBVIOUS
<1>2. /\ p \in Players /\ a \in Activity /\ h \in [Players -> Hands] /\ Conserved(a, h)
      /\ h[p] = room.players[p].hands /\ h[p] \in Hands /\ leaf \in h[p].rush /\ room \in Room
  BY <1>1, Interacts DEF RoomInv
<1>3. PICK i : i = Min(OrdersIn(a, "waiting"))
  OBVIOUS
<1>4. i \in OrdersIn(a, "waiting") /\ i \in DOMAIN a.orders
  <2>1. i \in OrdersIn(a, "waiting")
    BY <1>1, <1>2, <1>3, LeastOrder
  <2> QED
    BY <2>1 DEF OrdersIn
<1>5. PICK new : new = [a.orders[i] EXCEPT !.status = "available"]
  OBVIOUS
<1>6. new \in OrderRecord /\ new.status = "available"
  <2>1. a.orders[i] \in OrderRecord
    BY <1>2, <1>4, ActivityParts
  <2> QED
    BY <2>1, <1>5 DEF OrderRecord
<1>7. PICK b : b = OrderSet(a, i, new)
  OBVIOUS
<1>8. /\ b \in Activity
      /\ b.round = a.round /\ b.phase = a.phase /\ b.completed = a.completed
      /\ b.leaves = a.leaves /\ b.orders = [a.orders EXCEPT ![i] = new]
  BY <1>2, <1>4, <1>6, <1>7, OrderUpdate
<1>9. PICK hands : hands = WithoutLeaf(h[p], leaf)
  OBVIOUS
<1>10. /\ hands \in Hands /\ hands.tea = h[p].tea - 1
       /\ hands.rush = h[p].rush \ {leaf} /\ hands.order = h[p].order
  <2>1. PICK hp, rush : hp = h[p] /\ rush = hp.rush \ {leaf}
    OBVIOUS
  <2>2. hp \in Hands /\ hp.tea \in Nat /\ hp.rush \in SUBSET Things /\ hp.order \in Things \cup {None}
    BY <1>2, <2>1 DEF Hands
  <2>3. IsFiniteSet(hp.rush) /\ hp.tea = Cardinality(hp.rush)
    BY <1>1, <1>2, <2>1, LooseFinite DEF Conserved, HandsOK
  <2>4. hp.tea - 1 \in Nat
    <3>1. Cardinality(hp.rush \ {leaf}) = Cardinality(hp.rush) - 1 /\ IsFiniteSet(hp.rush \ {leaf})
      BY <1>2, <2>1, <2>3, FS_RemoveElement
    <3>2. Cardinality(hp.rush \ {leaf}) \in Nat
      BY <3>1, FS_CardinalityType
    <3> QED
      BY <2>3, <3>1, <3>2
  <2>5. PICK t \in Nat : t = hp.tea - 1
    BY <2>4
  <2>6. Max({t, 0}) = t
    BY LesserOfTwo
  <2>7. hands = [tea |-> t, rush |-> rush, order |-> hp.order]
    BY <1>9, <2>1, <2>2, <2>5, <2>6 DEF WithoutLeaf, Hands
  <2>8. rush \in SUBSET Things
    BY <2>1, <2>2
  <2>9. hands \in Hands /\ hands.tea = t /\ hands.rush = rush /\ hands.order = hp.order
    BY <2>2, <2>7, <2>8 DEF Hands
  <2> QED
    BY <2>1, <2>5, <2>9
<1>11. room' = Handed(room, b, p, hands)
  BY <1>1, <1>2, <1>3, <1>5, <1>7, <1>9 DEF Prepare, Handed, Changed, OrderSet
<1>12. /\ room' \in Room /\ room'.activity = b /\ room'.alive = room.alive
       /\ g \in [Players -> Hands] /\ g[p] = hands
       /\ \A q \in Players \ {p} : g[q] = h[q]
  BY <1>1, <1>2, <1>8, <1>10, <1>11, HandedRoom
<1>13. Kind(a.round) = "cafe_rush"
  BY <1>1
<1>14. Conserved(b, g)
  BY <1>2, <1>4, <1>6, <1>8, <1>10, <1>12, <1>13, PrepareKeeps
<1> QED
  BY <1>1, <1>8, <1>12, <1>14 DEF RoomStep, SamePhase

\* A delivery goes on in the same phase or completes the round and spawns its timer.
Completes ==
    /\ room'.alive => room.alive
    /\ room'.activity.round = room.activity.round
    /\ room.activity.phase = "active" /\ room'.activity.phase = "intermission"
    /\ timers' = [timers EXCEPT !["intermission"][room.activity.round] = @ + 1]

\* A delivery goes on with the round, or completes it and sets the one timer for the next.
LEMMA DeliveryTimers ==
    ASSUME NEW c, NEW b, AfterDelivery(c, b),
           room.activity.phase = "active", ~room.activity.completed,
           b.round = room.activity.round, b.phase \in {"active", "intermission"},
           b.completed <=> b.phase = "intermission",
           room'.activity = b, room'.alive = room.alive
    PROVE  SamePhase \/ Completes
<1>1. CASE b.completed
  BY <1>1 DEF AfterDelivery, Completes
<1>2. CASE ~b.completed
  BY <1>2 DEF AfterDelivery, SamePhase
<1> QED
  BY <1>1, <1>2

\* Giving tea conserves the round.
LEMMA GiveTeaStep ==
    ASSUME SocketInv, RoomInv, NEW c \in Conns, GiveTea(c)
    PROVE  RoomStep /\ (SamePhase \/ Completes)
<1>1. PICK p, a, h, g : p = sess[c] /\ a = room.activity /\ h = HandsOf(room) /\ g = HandsOf(room')
  OBVIOUS
<1>2. /\ p \in Players /\ a \in Activity /\ h \in [Players -> Hands] /\ Conserved(a, h)
      /\ h[p] = room.players[p].hands /\ h[p] \in Hands /\ room \in Room
      /\ a.phase = "active" /\ ~a.completed /\ Kind(a.round) = "tea_delivery"
  BY <1>1, Interacts DEF GiveTea, RoomInv
<1>3. PICK n : n = h[p].tea
  OBVIOUS
<1>4. n \in Nat
  BY <1>2, <1>3 DEF Hands
<1>5. PICK b : b = Delivered(a, n)
  OBVIOUS
<1>6. /\ b \in Activity /\ b.round = a.round /\ b.phase \in {a.phase, "intermission"}
      /\ b.completed <=> b.phase = "intermission"
      /\ b.leaves = a.leaves /\ b.orders = a.orders
  BY <1>2, <1>4, <1>5, DeliveredParts
<1>7. PICK hands : hands = [h[p] EXCEPT !.tea = 0]
  OBVIOUS
<1>8. hands \in Hands /\ hands.rush = h[p].rush /\ hands.order = h[p].order
  BY <1>2, <1>7 DEF Hands
<1>9. room' = Handed(room, b, p, hands)
  BY <1>1, <1>2, <1>3, <1>5, <1>7 DEF GiveTea, Handed, Changed
<1>10. /\ room' \in Room /\ room'.activity = b /\ room'.alive = room.alive
       /\ g \in [Players -> Hands] /\ g[p] = hands
       /\ \A q \in Players \ {p} : g[q] = h[q]
  BY <1>1, <1>2, <1>6, <1>8, <1>9, HandedRoom
<1>11. Conserved(b, g)
  BY <1>2, <1>6, <1>8, <1>10, TeaKeeps
<1>12. AfterDelivery(c, b)
  BY <1>1, <1>2, <1>3, <1>5 DEF GiveTea
<1>13. SamePhase \/ Completes
  BY <1>1, <1>2, <1>6, <1>10, <1>12, DeliveryTimers
<1> QED
  BY <1>1, <1>10, <1>11, <1>13 DEF RoomStep

\* Serving an order conserves the round.
LEMMA ServeStep ==
    ASSUME SocketInv, RoomInv, NEW c \in Conns, NEW i, NEW w \in BOOLEAN, Serve(c, i, w)
    PROVE  RoomStep /\ (SamePhase \/ Completes)
<1>1. PICK p, a, h, g : p = sess[c] /\ a = room.activity /\ h = HandsOf(room) /\ g = HandsOf(room')
  OBVIOUS
<1>2. /\ p \in Players /\ a \in Activity /\ h \in [Players -> Hands] /\ Conserved(a, h)
      /\ h[p] = room.players[p].hands /\ h[p] \in Hands /\ room \in Room
      /\ a.phase = "active" /\ ~a.completed /\ i \in DOMAIN a.orders
      /\ a.orders[i] = [status |-> "claimed", by |-> p] /\ h[p].order = <<a.round, i>>
  BY <1>1, Interacts DEF Serve, RoomInv
<1>3. PICK new : new = [status |-> "served", by |-> None]
  OBVIOUS
<1>4. new \in OrderRecord
  BY <1>3 DEF OrderRecord
<1>5. PICK s, t, b : s = OrderSet(a, i, new) /\ t = Scored(s, w) /\ b = Delivered(t, 1)
  OBVIOUS
<1>6. /\ s \in Activity
      /\ s.round = a.round /\ s.phase = a.phase /\ s.completed = a.completed
      /\ s.leaves = a.leaves /\ s.orders = [a.orders EXCEPT ![i] = new]
  BY <1>2, <1>4, <1>5, OrderUpdate
<1>7. /\ t \in Activity /\ t.round = s.round /\ t.phase = s.phase /\ t.completed = s.completed
      /\ t.leaves = s.leaves /\ t.orders = s.orders
  BY <1>5, <1>6, ScoredParts
<1>8. /\ b \in Activity /\ b.round = t.round /\ b.phase \in {t.phase, "intermission"}
      /\ b.completed <=> b.phase = "intermission"
      /\ b.leaves = t.leaves /\ b.orders = t.orders
  <2>1. t.phase = "active" /\ ~t.completed /\ 1 \in Nat
    BY <1>2, <1>6, <1>7
  <2> QED
    BY <1>5, <1>7, <2>1, DeliveredParts
<1>9. PICK hands : hands = [h[p] EXCEPT !.order = None]
  OBVIOUS
<1>10. /\ hands \in Hands /\ hands.tea = h[p].tea /\ hands.rush = h[p].rush /\ hands.order = None
  BY <1>2, <1>9 DEF Hands
<1>11. room' = Handed(room, b, p, hands)
  BY <1>1, <1>2, <1>3, <1>5, <1>9 DEF Serve, Handed, Changed, OrderSet
<1>12. /\ room' \in Room /\ room'.activity = b /\ room'.alive = room.alive
       /\ g \in [Players -> Hands] /\ g[p] = hands
       /\ \A q \in Players \ {p} : g[q] = h[q]
  BY <1>1, <1>2, <1>8, <1>10, <1>11, HandedRoom
<1>13. /\ b.round = a.round /\ b.phase \in {a.phase, "intermission"}
       /\ b.completed => b.phase = "intermission"
       /\ b.leaves = a.leaves /\ b.orders = [a.orders EXCEPT ![i] = [status |-> "served", by |-> None]]
  BY <1>3, <1>6, <1>7, <1>8
<1>14. Conserved(b, g)
  BY <1>2, <1>8, <1>10, <1>12, <1>13, ServeKeeps
<1>15. AfterDelivery(c, b)
  BY <1>1, <1>2, <1>3, <1>5 DEF Serve, OrderSet
<1>16. SamePhase \/ Completes
  BY <1>1, <1>2, <1>8, <1>12, <1>13, <1>15, DeliveryTimers
<1> QED
  BY <1>1, <1>12, <1>14, <1>16 DEF RoomStep

\* Joining conserves the round.
LEMMA JoinStep ==
    ASSUME SocketInv, RoomInv, NEW c \in Conns, Join(c)
    PROVE  RoomStep /\ SamePhase
<1>1. sess[c] \in Players /\ room \in Room
  BY DEF SocketInv, Join, RoomInv
<1>2. CASE room' = JoinRoom(room, sess[c], c)
  <2>1. /\ room' \in Room /\ room'.alive = room.alive /\ room'.activity = room.activity
        /\ HandsOf(room') = HandsOf(room)
    BY <1>1, <1>2, JoinedRoom
  <2> QED
    BY <2>1 DEF RoomStep, SamePhase, RoomInv, Join
<1>3. CASE room' = room
  BY <1>3 DEF RoomStep, SamePhase, RoomInv, Join
<1> QED
  BY <1>2, <1>3 DEF Join

\* Leaving, by a socket that is current or replaced, conserves the round.
LEMMA LeaveStep ==
    ASSUME SocketInv, RoomInv, NEW c \in Conns, Leave(c)
    PROVE  RoomStep /\ SamePhase
<1>1. sess[c] \in Players /\ room \in Room /\ Conserved(room.activity, HandsOf(room))
  BY DEF SocketInv, Leave, RoomInv
<1>2. CASE room' = Depart(room, sess[c])
  <2>1. /\ room' \in Room /\ room'.alive = room.alive
        /\ room'.activity.round = room.activity.round
        /\ room'.activity.phase = room.activity.phase
        /\ Conserved(room'.activity, HandsOf(room'))
    BY <1>1, <1>2, DepartRoom
  <2> QED
    BY <2>1 DEF RoomStep, SamePhase, Leave
<1>3. CASE room' = room
  BY <1>3 DEF RoomStep, SamePhase, RoomInv, Leave
<1> QED
  BY <1>2, <1>3 DEF Leave, LeaveForConnection

\* The counter of a rush round conserves it.
LEMMA RushCounterStep ==
    ASSUME SocketInv, RoomInv, NEW c \in Conns, RushCounter(c)
    PROVE  RoomStep /\ SamePhase
<1>1. /\ CanInteract(c) /\ Kind(room.activity.round) = "cafe_rush" /\ timers' = timers
      /\ room.players[sess[c]].hands.order = None
  BY DEF RushCounter
<1>2. CASE /\ OrdersIn(room.activity, "waiting") # {}
           /\ \E leaf \in room.players[sess[c]].hands.rush : room' = Prepare(room, sess[c], leaf)
  <2>1. PICK leaf \in room.players[sess[c]].hands.rush : room' = Prepare(room, sess[c], leaf)
    BY <1>2
  <2> QED
    BY <1>1, <1>2, <2>1, PrepareStep
<1>3. CASE OrdersIn(room.activity, "available") # {} /\ room' = ClaimFirst(room, sess[c])
  BY <1>1, <1>3, ClaimStep
<1> QED
  BY <1>2, <1>3 DEF RushCounter

\* The counter of a table round conserves it.
LEMMA TableCounterStep ==
    ASSUME SocketInv, RoomInv, NEW c \in Conns, TableCounter(c)
    PROVE  RoomStep /\ SamePhase
<1>1. /\ CanInteract(c) /\ room.players[sess[c]].hands.order = None
      /\ OrdersIn(room.activity, "available") # {}
      /\ room' = ClaimFirst(room, sess[c]) /\ timers' = timers
  BY DEF TableCounter
<1> QED
  BY <1>1, ClaimStep

\* The retention of an empty room conserves the round.
LEMMA RetentionStep ==
    ASSUME RoomInv, EmptyRoomAges \/ CleanupExpired
    PROVE  RoomStep /\ SamePhase
<1>1. room \in Room /\ timers' = timers
  BY DEF RoomInv, EmptyRoomAges, CleanupExpired
<1>2. room' = [room EXCEPT !.aged = TRUE] \/ room' = [room EXCEPT !.alive = FALSE]
  BY DEF EmptyRoomAges, CleanupExpired
<1>3. /\ room' \in Room /\ room'.activity = room.activity /\ room'.players = room.players
      /\ room'.alive => room.alive
  BY <1>1, <1>2 DEF Room
<1>4. HandsOf(room') = HandsOf(room)
  BY <1>3 DEF HandsOf
<1> QED
  BY <1>1, <1>3, <1>4 DEF RoomStep, SamePhase, RoomInv

\* start_next_round and expire_cafe_rush: everybody's hands are empty afterwards.
Emptied(r, b) == [r EXCEPT !.activity = b, !.players = HandsEmptied(r.players)]

\* A room after all hands were emptied.
LEMMA EmptiedRoom ==
    ASSUME NEW r \in Room, NEW b \in Activity, NEW s, s = Emptied(r, b)
    PROVE  /\ s \in Room /\ s.activity = b /\ s.alive = r.alive
           /\ HandsOf(s) = [p \in Players |-> EmptyHands]
<1>1. EmptyHands \in Hands
  BY DEF EmptyHands, Hands
<1>2. PICK players : players = HandsEmptied(r.players)
  OBVIOUS
<1>3. ASSUME NEW p \in Players
      PROVE  players[p] \in PlayerRecord /\ players[p].hands = EmptyHands
  <2>1. r.players[p] \in PlayerRecord /\ players[p] = [r.players[p] EXCEPT !.hands = EmptyHands]
    BY <1>2, RoomParts DEF HandsEmptied
  <2> QED
    BY <2>1, <1>1, HandsUpdate
<1>4. players \in [Players -> PlayerRecord]
  <2>1. players = [p \in Players |-> players[p]]
    BY <1>2 DEF HandsEmptied
  <2> QED
    BY <1>3, <2>1
<1>5. s \in Room /\ s.activity = b /\ s.alive = r.alive /\ s.players = players
  BY <1>2, <1>4 DEF Room, Emptied
<1> QED
  BY <1>3, <1>5 DEF HandsOf

\* The next round starts with nothing in any hand.
LEMMA AdvanceRoom ==
    ASSUME RoomInv, NEW n \in Rounds, n < MaxRound,
           room' = [room EXCEPT !.activity = ForRound(n + 1, Cardinality(Present(room))),
                                !.players = HandsEmptied(room.players)]
    PROVE  /\ RoomStep /\ room'.alive = room.alive
           /\ room'.activity.round = n + 1 /\ room'.activity.phase = "active"
<1>1. n + 1 \in Rounds
  BY CafeRoomAssumption DEF Rounds
<1>2. Cardinality(Present(room)) \in Nat
  <2>1. Present(room) \subseteq Players
    BY DEF Present
  <2> QED
    BY <2>1, CafeRoomAssumption, FS_Subset, FS_CardinalityType
<1>3. PICK k, b, h : /\ k = Cardinality(Present(room)) /\ b = ForRound(n + 1, k)
                     /\ h = [p \in Players |-> EmptyHands]
  OBVIOUS
<1>4. /\ b \in Activity /\ b.round = n + 1 /\ b.phase = "active" /\ Conserved(b, h)
  BY <1>1, <1>2, <1>3, RoundStarts
<1>5. room \in Room /\ room' = Emptied(room, b)
  BY <1>3 DEF RoomInv, Emptied
<1>6. room' \in Room /\ room'.activity = b /\ room'.alive = room.alive /\ HandsOf(room') = h
  BY <1>3, <1>4, <1>5, EmptiedRoom
<1> QED
  BY <1>4, <1>6 DEF RoomStep

\* A rush that ran out of time goes to intermission with nothing in any hand.
LEMMA ExpireRoom ==
    ASSUME RoomInv, room' = Expired(room)
    PROVE  /\ RoomStep /\ room'.alive = room.alive
           /\ room'.activity.round = room.activity.round /\ room'.activity.phase = "intermission"
<1>1. PICK a, b, h : /\ a = room.activity
                     /\ b = [a EXCEPT !.phase = "intermission", !.window = FALSE]
                     /\ h = [p \in Players |-> EmptyHands]
  OBVIOUS
<1>2. room \in Room /\ a \in Activity
  BY <1>1, RoomParts DEF RoomInv
<1>3. b \in Activity /\ b.round = a.round /\ b.phase = "intermission"
  BY <1>1, <1>2 DEF Activity
<1>4. room' = Emptied(room, b)
  BY <1>1, <1>2 DEF Expired, Emptied
<1>5. room' \in Room /\ room'.activity = b /\ room'.alive = room.alive /\ HandsOf(room') = h
  BY <1>1, <1>2, <1>3, <1>4, EmptiedRoom
<1>6. Conserved(b, h)
  BY <1>1, <1>3, ExpireKeeps
<1> QED
  BY <1>1, <1>3, <1>5, <1>6 DEF RoomStep

-----------------------------------------------------------------------------
\* Timers
LEMMA SamePhaseFits ==
    ASSUME TimerInv, SamePhase
    PROVE  TimerInv'
BY DEF TimerInv, SamePhase, TimersFit

\* A completed round has just the timer it set.
LEMMA CompletesFits ==
    ASSUME TimerInv, RoomInv, Completes
    PROVE  TimerInv'
<1>1. PICK n, t, u : n = room.activity.round /\ t = timers /\ u = timers'
  OBVIOUS
<1>2. n \in Rounds /\ t \in Timers
  BY <1>1, RoomParts, ActivityParts DEF RoomInv, TimerInv
<1>3. PICK v : v = t["intermission"][n] + 1
  OBVIOUS
<1>4. t["intermission"][n] \in Nat /\ t["rush_intermission"][n] \in Nat /\ v \in Nat
  BY <1>2, <1>3 DEF Timers, TimerKinds
<1>5. "intermission" \in TimerKinds /\ u = [t EXCEPT !["intermission"][n] = v]
  BY <1>1, <1>3 DEF Completes, TimerKinds
<1>6. /\ u \in Timers /\ u["intermission"][n] = v
      /\ \A m \in Rounds \ {n} : u["intermission"][m] = t["intermission"][m]
      /\ u["rush"] = t["rush"] /\ u["rush_intermission"] = t["rush_intermission"]
  BY <1>2, <1>4, <1>5 DEF Timers, TimerKinds
<1>7. ASSUME room'.alive PROVE TimersFit(TRUE, n, "intermission", u)
  <2>1. TimersFit(TRUE, n, "active", t)
    BY <1>1, <1>7 DEF TimerInv, Completes
  <2>2. Ending(u, n) = 1
    BY <2>1, <1>3, <1>4, <1>6 DEF TimersFit, Ending
  <2>3. \A m \in Rounds \ {n} : Ending(u, m) = 0
    BY <2>1, <1>6 DEF TimersFit, Ending
  <2>4. \A m \in Rounds : m > n => u["rush"][m] = 0
    BY <2>1, <1>6 DEF TimersFit
  <2> QED
    BY <2>2, <2>3, <2>4 DEF TimersFit
<1> QED
  BY <1>1, <1>6, <1>7 DEF TimerInv, Completes, TimersFit

\* The timer of a transition starts the next round once, or finds its round over.
LEMMA StartNextRoundStep ==
    ASSUME TimerInv, RoomInv, NEW k \in TimerKinds, NEW n \in Rounds, StartNextRound(k, n)
    PROVE  RoomStep /\ TimerInv'
<1>1. PICK t, u, v : t = timers /\ u = timers' /\ v = t[k][n] - 1
  OBVIOUS
<1>2. /\ t \in Timers /\ k \in {"intermission", "rush_intermission"} /\ n < MaxRound
      /\ t[k][n] \in Nat /\ t[k][n] > 0 /\ v \in Nat
  <2>1. t \in Timers /\ k \in {"intermission", "rush_intermission"} /\ n < MaxRound /\ t[k][n] > 0
    BY <1>1 DEF TimerInv, StartNextRound
  <2>2. t[k][n] \in Nat
    BY <2>1 DEF Timers
  <2> QED
    BY <1>1, <2>1, <2>2
<1>3. n \in Nat /\ n + 1 \in Rounds
  BY <1>2, CafeRoomAssumption DEF Rounds
<1>4. \A m \in Rounds : /\ t["intermission"][m] \in Nat /\ t["rush_intermission"][m] \in Nat
                        /\ t["rush"][m] \in Nat
  BY <1>2 DEF Timers, TimerKinds
<1>5. Ending(t, n) > 0
  BY <1>2, <1>4 DEF Ending
<1>6. ASSUME room.alive PROVE Advances(room, n)
  <2>1. TimersFit(TRUE, room.activity.round, room.activity.phase, t)
    BY <1>1, <1>6 DEF TimerInv
  <2>2. room.activity.round = n
    BY <2>1, <1>5 DEF TimersFit
  <2>3. room.activity.phase = "intermission"
    BY <2>1, <2>2, <1>5 DEF TimersFit
  <2> QED
    BY <1>6, <2>2, <2>3 DEF Advances
<1>7. CASE Advances(room, n)
  <2>1. PICK w : w = IF Kind(n + 1) = "cafe_rush" THEN t["rush"][n + 1] + 1 ELSE t["rush"][n + 1]
    OBVIOUS
  <2>2. w \in Nat
    BY <1>3, <1>4, <2>1
  <2>3. /\ u = [t EXCEPT ![k][n] = v, !["rush"][n + 1] = w]
        /\ room' = [room EXCEPT !.activity = ForRound(n + 1, Cardinality(Present(room))),
                                !.players = HandsEmptied(room.players)]
    BY <1>1, <1>2, <1>7, <2>1 DEF StartNextRound
  <2>4. /\ RoomStep /\ room'.alive = room.alive
        /\ room'.activity.round = n + 1 /\ room'.activity.phase = "active"
    BY <1>2, <2>3, AdvanceRoom
  <2>5. /\ u \in Timers /\ u[k][n] = v /\ u["rush"][n + 1] = w
        /\ \A m \in Rounds \ {n} : u[k][m] = t[k][m]
        /\ \A m \in Rounds \ {n + 1} : u["rush"][m] = t["rush"][m]
        /\ \A j \in {"intermission", "rush_intermission"} \ {k} : u[j] = t[j]
    BY <1>2, <1>3, <2>2, <2>3 DEF Timers, TimerKinds
  <2>6. TimersFit(TRUE, n, "intermission", t)
    BY <1>1, <1>7 DEF TimerInv, Advances
  <2>7. ASSUME NEW m \in Rounds PROVE Ending(u, m) = 0
    <3>1. CASE m = n
      <4>1. Ending(t, n) = 1
        BY <2>6 DEF TimersFit
      <4>2. CASE k = "intermission"
        BY <4>1, <4>2, <3>1, <2>5, <1>1, <1>4 DEF Ending
      <4>3. CASE k = "rush_intermission"
        BY <4>1, <4>3, <3>1, <2>5, <1>1, <1>4 DEF Ending
      <4> QED
        BY <4>2, <4>3, <1>2
    <3>2. CASE m # n
      <4>1. Ending(t, m) = 0
        BY <3>2, <2>6 DEF TimersFit
      <4>2. u["intermission"][m] = t["intermission"][m] /\ u["rush_intermission"][m] = t["rush_intermission"][m]
        BY <3>2, <2>5, <1>2
      <4> QED
        BY <4>1, <4>2 DEF Ending
    <3> QED
      BY <3>1, <3>2
  <2>8. Kind(n + 1) = "cafe_rush" => u["rush"][n + 1] = 1
    <3>1. t["rush"][n + 1] = 0
      BY <2>6, <1>3 DEF TimersFit
    <3> QED
      BY <3>1, <2>1, <2>5
  <2>9. ASSUME NEW m \in Rounds, m > n + 1 PROVE u["rush"][m] = 0
    <3>1. m \in Nat /\ m > n /\ m # n + 1
      BY <1>3, <2>9, CafeRoomAssumption DEF Rounds
    <3> QED
      BY <3>1, <2>5, <2>6 DEF TimersFit
  <2>10. TimersFit(TRUE, n + 1, "active", u)
    BY <1>3, <2>7, <2>8, <2>9 DEF TimersFit
  <2> QED
    BY <1>1, <2>4, <2>5, <2>10 DEF TimerInv, TimersFit
<1>8. CASE ~Advances(room, n)
  <2>1. ~room.alive /\ room' = room /\ u = [t EXCEPT ![k][n] = v]
    BY <1>1, <1>6, <1>8 DEF StartNextRound
  <2>2. u \in Timers
    BY <1>2, <2>1 DEF Timers
  <2> QED
    BY <1>1, <2>1, <2>2 DEF RoomStep, RoomInv, TimerInv, TimersFit
<1> QED
  BY <1>7, <1>8

\* The timer of a rush ends it once, or finds it over.
LEMMA RushTimeUpStep ==
    ASSUME TimerInv, RoomInv, NEW n \in Rounds, RushTimeUp(n)
    PROVE  RoomStep /\ TimerInv'
<1>1. PICK t, u, v, r : t = timers /\ u = timers' /\ v = t["rush"][n] - 1 /\ r = room.activity.round
  OBVIOUS
<1>2. t \in Timers /\ t["rush"][n] \in Nat /\ t["rush"][n] > 0 /\ v \in Nat /\ r \in Rounds
  <2>1. t \in Timers /\ t["rush"][n] > 0
    BY <1>1 DEF TimerInv, RushTimeUp
  <2>2. t["rush"][n] \in Nat
    BY <2>1 DEF Timers, TimerKinds
  <2>3. r \in Rounds
    BY <1>1, RoomParts, ActivityParts DEF RoomInv
  <2> QED
    BY <1>1, <2>1, <2>2, <2>3
<1>3. \A m \in Rounds : t["intermission"][m] \in Nat /\ t["rush_intermission"][m] \in Nat
  BY <1>2 DEF Timers, TimerKinds
<1>4. CASE Expires(room, n)
  <2>1. r = n /\ room.alive /\ room.activity.phase = "active"
    BY <1>1, <1>4 DEF Expires
  <2>2. PICK w : w = t["rush_intermission"][n] + 1
    OBVIOUS
  <2>3. w \in Nat
    BY <1>3, <2>2
  <2>4. u = [t EXCEPT !["rush"][n] = v, !["rush_intermission"][n] = w] /\ room' = Expired(room)
    BY <1>1, <1>4, <2>2 DEF RushTimeUp
  <2>5. /\ u \in Timers /\ u["rush"][n] = v /\ u["rush_intermission"][n] = w
        /\ \A m \in Rounds \ {n} : /\ u["rush"][m] = t["rush"][m]
                                   /\ u["rush_intermission"][m] = t["rush_intermission"][m]
        /\ u["intermission"] = t["intermission"]
    BY <1>2, <2>3, <2>4 DEF Timers, TimerKinds
  <2>6. /\ RoomStep /\ room'.alive = room.alive
        /\ room'.activity.round = r /\ room'.activity.phase = "intermission"
    BY <1>1, <2>4, ExpireRoom
  <2>7. TimersFit(TRUE, n, "active", t)
    BY <1>1, <2>1 DEF TimerInv
  <2>8. Ending(u, n) = 1
    BY <2>2, <2>5, <2>7, <1>3 DEF TimersFit, Ending
  <2>9. \A m \in Rounds \ {n} : Ending(u, m) = 0
    BY <2>5, <2>7 DEF TimersFit, Ending
  <2>10. ASSUME NEW m \in Rounds, m > n PROVE u["rush"][m] = 0
    <3>1. m # n
      BY <2>10, CafeRoomAssumption DEF Rounds
    <3> QED
      BY <2>5, <2>7, <2>10, <3>1 DEF TimersFit
  <2>11. TimersFit(TRUE, n, "intermission", u)
    BY <2>8, <2>9, <2>10 DEF TimersFit
  <2> QED
    BY <1>1, <2>1, <2>5, <2>6, <2>11 DEF TimerInv, TimersFit
<1>5. CASE ~Expires(room, n)
  <2>1. u = [t EXCEPT !["rush"][n] = v] /\ room' = room
    BY <1>1, <1>5 DEF RushTimeUp
  <2>2. /\ u \in Timers /\ u["rush"][n] = v
        /\ \A m \in Rounds \ {n} : u["rush"][m] = t["rush"][m]
        /\ u["intermission"] = t["intermission"] /\ u["rush_intermission"] = t["rush_intermission"]
    BY <1>2, <2>1 DEF Timers, TimerKinds
  <2>3. ASSUME room.alive PROVE TimersFit(TRUE, r, room.activity.phase, u)
    <3>1. TimersFit(TRUE, r, room.activity.phase, t)
      BY <1>1, <2>3 DEF TimerInv
    <3>2. \A m \in Rounds : Ending(u, m) = Ending(t, m)
      BY <2>2 DEF Ending
    <3>3. ~(n > r)
      BY <1>2, <3>1 DEF TimersFit
    <3>4. (room.activity.phase = "active" /\ Kind(r) = "cafe_rush") => r # n
      BY <1>1, <1>5, <2>3 DEF Expires, RoomInv, Conserved
    <3>5. ASSUME NEW m \in Rounds, m > r PROVE u["rush"][m] = 0
      <4>1. m # n
        BY <3>3, <3>5
      <4> QED
        BY <2>2, <3>1, <3>5, <4>1 DEF TimersFit
    <3>6. (room.activity.phase = "active" /\ Kind(r) = "cafe_rush") => u["rush"][r] = 1
      BY <1>2, <2>2, <3>1, <3>4 DEF TimersFit
    <3> QED
      BY <1>2, <3>1, <3>2, <3>5, <3>6 DEF TimersFit
  <2> QED
    BY <1>1, <2>1, <2>2, <2>3 DEF RoomStep, RoomInv, TimerInv, TimersFit
<1> QED
  BY <1>4, <1>5

-----------------------------------------------------------------------------
\* The invariant of the room holds initially.
LEMMA InitInv ==
    ASSUME Init
    PROVE  CafeRoomInv
<1>1. SocketInv
  BY DEF Init, SocketInv
<1>2. AccountInv
  BY DEF Init, AccountInv, DeletionIsFinal
<1>3. PICK b, h : b = ForRound(1, 0) /\ h = [p \in Players |-> EmptyHands]
  OBVIOUS
<1>4. /\ b \in Activity /\ b.round = 1 /\ b.phase = "active" /\ Conserved(b, h)
      /\ 1 \in Rounds
  <2>1. 1 \in Rounds /\ 0 \in Nat
    BY CafeRoomAssumption DEF Rounds
  <2> QED
    BY <1>3, <2>1, RoundStarts
<1>5. Absent \in PlayerRecord /\ Absent.hands = EmptyHands
  BY DEF Absent, PlayerRecord, EmptyHands, Hands
<1>6. /\ room.activity = b /\ room.alive = TRUE /\ room \in Room
      /\ room.players = [p \in Players |-> Absent]
  BY <1>3, <1>4, <1>5 DEF Init, Room
<1>7. HandsOf(room) = h
  BY <1>3, <1>5, <1>6 DEF HandsOf
<1>8. RoomInv
  BY <1>4, <1>6, <1>7 DEF RoomInv
<1>9. TimerInv
  <2>1. \A k \in TimerKinds, m \in Rounds : timers[k][m] = 0
    BY DEF Init
  <2>2. timers \in Timers
    BY DEF Init, Timers
  <2>3. Kind(1) = "tea_delivery"
    BY DEF Kind
  <2>4. TimersFit(TRUE, 1, "active", timers)
    BY <1>4, <2>1, <2>3 DEF TimersFit, Ending, TimerKinds
  <2> QED
    BY <1>4, <1>6, <2>2, <2>4 DEF TimerInv
<1> QED
  BY <1>1, <1>2, <1>8, <1>9 DEF CafeRoomInv

\* Nothing changes in the room or its timers.
LEMMA RoomUntouched ==
    ASSUME RoomInv, TimerInv, room' = room, timers' = timers
    PROVE  RoomInv' /\ TimerInv'
BY DEF RoomInv, TimerInv, SamePhase

\* Every step conserves the round and keeps timers in order.
LEMMA NextRoom ==
    ASSUME CafeRoomInv, [Next]_vars
    PROVE  RoomInv' /\ TimerInv'
<1> USE DEF CafeRoomInv
<1>0. RoomStep <=> RoomInv'
  BY DEF RoomStep, RoomInv
<1>1. ASSUME NEW c \in Conns, SocketStep(c) PROVE RoomStep /\ (SamePhase \/ Completes)
  <2>1. ASSUME NEW i, PickLeaf(c, i) PROVE RoomStep /\ SamePhase
    BY <2>1, PickLeafStep
  <2>2. ASSUME NEW i, NEW w \in BOOLEAN, Serve(c, i, w) PROVE RoomStep /\ (SamePhase \/ Completes)
    BY <2>2, ServeStep
  <2> QED
    BY <1>1, <2>1, <2>2, JoinStep, LeaveStep, GiveTeaStep, TableCounterStep, RushCounterStep
    DEF SocketStep
<1>2. ASSUME RoomStep /\ (SamePhase \/ Completes) PROVE RoomInv' /\ TimerInv'
  BY <1>0, <1>2, SamePhaseFits, CompletesFits
<1>3. CASE \E c \in Conns : SocketStep(c)
  BY <1>1, <1>2, <1>3
<1>4. CASE \E k \in TimerKinds, n \in Rounds : StartNextRound(k, n)
  BY <1>0, <1>4, StartNextRoundStep
<1>5. CASE \E n \in Rounds : RushTimeUp(n)
  BY <1>0, <1>5, RushTimeUpStep
<1>6. CASE EmptyRoomAges \/ CleanupExpired
  BY <1>2, <1>6, RetentionStep
<1>7. CASE room' = room /\ timers' = timers
  BY <1>7, RoomUntouched
<1> QED
  BY <1>3, <1>4, <1>5, <1>6, <1>7
  DEF Next, vars, Authorize, AwardCommits, AwardFails, DeleteAccount, DisconnectSessions

\* A socket step leaves an award that is typed, or none.
LEMMA NextAward ==
    ASSUME SocketInv, RoomInv, NEW c \in Conns, SocketStep(c)
    PROVE  award' \in [Conns -> AwardRecord \cup {None}]
<1>1. ASSUME NEW b, b.round = room.activity.round, AfterDelivery(c, b)
      PROVE  award' \in [Conns -> AwardRecord \cup {None}]
  <2>1. room.activity.round \in Rounds
    BY RoomParts, ActivityParts DEF RoomInv
  <2>2. Present(room) \subseteq Players
    BY DEF Present
  <2>3. PICK w : w = [round |-> b.round, owners |-> Present(room)]
    OBVIOUS
  <2>4. w \in AwardRecord
    BY <1>1, <2>1, <2>2, <2>3 DEF AwardRecord
  <2>5. award' = award \/ award' = [award EXCEPT ![c] = w]
    BY <1>1, <2>3 DEF AfterDelivery
  <2> QED
    BY <2>4, <2>5 DEF SocketInv
<1>2. CASE GiveTea(c)
  <2>1. PICK n, b : n = room.players[sess[c]].hands.tea /\ b = Delivered(room.activity, n)
    OBVIOUS
  <2>2. CanInteract(c) /\ AfterDelivery(c, b)
    BY <1>2, <2>1 DEF GiveTea
  <2>3. b.round = room.activity.round
    BY <2>1, <2>2, Interacts DEF Delivered, Activity
  <2> QED
    BY <1>1, <2>2, <2>3
<1>3. ASSUME NEW i, NEW w \in BOOLEAN, Serve(c, i, w)
      PROVE  award' \in [Conns -> AwardRecord \cup {None}]
  <2>1. RoomStep /\ (SamePhase \/ Completes)
    BY <1>3, ServeStep
  <2>2. PICK b : b = Delivered(Scored([room.activity EXCEPT !.orders[i] = [status |-> "served", by |-> None]], w), 1)
    OBVIOUS
  <2>3. AfterDelivery(c, b) /\ CanInteract(c)
    BY <1>3, <2>2 DEF Serve
  <2>4. room \in Room /\ room' = [room EXCEPT !.activity = b, !.players[sess[c]].hands.order = None]
    BY <1>3, <2>2 DEF Serve, RoomInv
  <2>5. room'.activity = b
    BY <2>4 DEF Room
  <2>6. b.round = room.activity.round
    BY <2>1, <2>5 DEF SamePhase, Completes
  <2> QED
    BY <1>1, <2>3, <2>6
<1>4. CASE award' = award
  BY <1>4 DEF SocketInv
<1> QED
  BY <1>2, <1>3, <1>4 DEF SocketStep, Join, Leave, PickLeaf, TableCounter, RushCounter

\* Every step keeps what sockets satisfy.
LEMMA NextSockets ==
    ASSUME CafeRoomInv, [Next]_vars
    PROVE  SocketInv'
<1> USE DEF CafeRoomInv
<1>1. ASSUME NEW c \in Conns, SocketStep(c) PROVE SocketInv'
  <2>1. /\ \/ sock' = sock
           \/ /\ sock[c] \in {"upgrading", "joined"}
              /\ \E s \in {"joined", "closed"} : sock' = [sock EXCEPT ![c] = s]
        /\ revoked' \subseteq revoked /\ sess' = sess
    <3>1. CASE Join(c) \/ Leave(c)
      BY <3>1 DEF Join, Leave
    <3>2. CASE UNCHANGED Elsewhere
      BY <3>2 DEF Elsewhere
    <3> QED
      BY <1>1, <3>1, <3>2 DEF SocketStep, PickLeaf, GiveTea, TableCounter, RushCounter, Serve
  <2>2. award' \in [Conns -> AwardRecord \cup {None}]
    BY <1>1, NextAward
  <2> QED
    BY <2>1, <2>2 DEF SocketInv
<1>2. ASSUME NEW c \in Conns, NEW p \in Players, Authorize(c, p) PROVE SocketInv'
  BY <1>2 DEF SocketInv, Authorize
<1>3. ASSUME NEW c \in Conns, AwardCommits(c) \/ AwardFails(c) PROVE SocketInv'
  BY <1>3 DEF SocketInv, AwardCommits, AwardFails
<1>4. ASSUME NEW p \in Players, DisconnectSessions(p) PROVE SocketInv'
  BY <1>4 DEF SocketInv, DisconnectSessions
<1>5. CASE /\ sock' = sock /\ sess' = sess /\ revoked' = revoked /\ award' = award
  BY <1>5 DEF SocketInv
<1> QED
  BY <1>1, <1>2, <1>3, <1>4, <1>5
  DEF Next, vars, StartNextRound, RushTimeUp, EmptyRoomAges, CleanupExpired, DeleteAccount

\* Every step keeps what accounts satisfy.
LEMMA NextAccounts ==
    ASSUME CafeRoomInv, [Next]_vars
    PROVE  AccountInv'
<1> USE DEF CafeRoomInv
<1>1. ASSUME NEW c \in Conns, AwardCommits(c) PROVE AccountInv'
  <2>1. PICK w : w = award[c]
    OBVIOUS
  <2>2. w \in AwardRecord /\ w.round \in Rounds /\ w.owners \subseteq Players
    BY <1>1, <2>1 DEF AwardCommits, SocketInv, AwardRecord
  <2>3. PICK new : new = {p \in w.owners : <<w.round, p>> \notin rewards}
    OBVIOUS
  <2>4. /\ rewards' = rewards \cup {<<w.round, p>> : p \in new}
        /\ stars' = [p \in Players |-> stars[p] + IF p \in new THEN 1 ELSE 0]
        /\ \A p \in w.owners : account[p] = "live"
        /\ account' = account
    BY <1>1, <2>1, <2>3 DEF AwardCommits
  <2>5. \A p \in new : p \in Players /\ account[p] = "live"
    BY <2>2, <2>3, <2>4
  <2>6. rewards' \subseteq Rounds \X Players
    BY <2>2, <2>4, <2>5 DEF AccountInv
  <2>7. stars' \in [Players -> Nat]
    BY <2>4 DEF AccountInv
  <2>8. ASSUME NEW p \in Players, account[p] # "live"
        PROVE  stars'[p] = 0 /\ \A n \in Rounds : <<n, p>> \notin rewards'
    <3>1. p \notin new /\ stars[p] = 0 /\ \A n \in Rounds : <<n, p>> \notin rewards
      BY <2>5, <2>8 DEF AccountInv, DeletionIsFinal
    <3> QED
      BY <3>1, <2>4
  <2> QED
    BY <2>4, <2>6, <2>7, <2>8 DEF AccountInv, DeletionIsFinal
<1>2. ASSUME NEW p \in Players, DeleteAccount(p) PROVE AccountInv'
  <2>1. /\ account' = [account EXCEPT ![p] = "deleted"]
        /\ rewards' = {r \in rewards : r[2] # p}
        /\ stars' = [stars EXCEPT ![p] = 0]
    BY <1>2 DEF DeleteAccount
  <2>2. /\ account' \in [Players -> {"live", "deleted", "announced"}]
        /\ rewards' \subseteq Rounds \X Players /\ stars' \in [Players -> Nat]
    BY <2>1 DEF AccountInv
  <2>3. ASSUME NEW q \in Players, account'[q] # "live"
        PROVE  stars'[q] = 0 /\ \A n \in Rounds : <<n, q>> \notin rewards'
    <3>1. CASE q = p
      BY <2>1, <3>1 DEF AccountInv
    <3>2. CASE q # p
      <4>1. account'[q] = account[q] /\ stars'[q] = stars[q] /\ rewards' \subseteq rewards
        BY <2>1, <3>2 DEF AccountInv
      <4> QED
        BY <2>3, <4>1 DEF AccountInv, DeletionIsFinal
    <3> QED
      BY <3>1, <3>2
  <2> QED
    BY <2>2, <2>3 DEF AccountInv, DeletionIsFinal
<1>3. ASSUME NEW p \in Players, DisconnectSessions(p) PROVE AccountInv'
  <2>1. /\ account[p] = "deleted" /\ account' = [account EXCEPT ![p] = "announced"]
        /\ rewards' = rewards /\ stars' = stars
    BY <1>3 DEF DisconnectSessions
  <2>2. \A q \in Players : account'[q] # "live" => account[q] # "live"
    BY <2>1 DEF AccountInv
  <2> QED
    BY <2>1, <2>2 DEF AccountInv, DeletionIsFinal
<1>4. CASE account' = account /\ rewards' = rewards /\ stars' = stars
  BY <1>4 DEF AccountInv, DeletionIsFinal
<1> QED
  BY <1>1, <1>2, <1>3, <1>4
  DEF Next, vars, Authorize, SocketStep, Join, Leave, PickLeaf, GiveTea, TableCounter, RushCounter, Serve,
      Elsewhere, AwardFails, StartNextRound, RushTimeUp, EmptyRoomAges, CleanupExpired

\* Lying and carried ingredients together are what waiting orders need.
LEMMA InvConserves ==
    ASSUME RoomInv
    PROVE  RoundConserved
<1>1. PICK a, h : a = room.activity /\ h = HandsOf(room)
  OBVIOUS
<1>2. /\ a \in Activity /\ Conserved(a, h)
      /\ \A p \in Players : InHand(p) = h[p]
  BY <1>1, RoomParts DEF RoomInv, InHand
<1>3. OrdersMatchHands
  <2>1. OrdersOK(a, h)
    BY <1>2 DEF Conserved
  <2> SUFFICES ASSUME a.phase = "active", NEW i \in DOMAIN a.orders, NEW p \in Players
               PROVE  (a.orders[i] = [status |-> "claimed", by |-> p]) <=> (InHand(p).order = <<a.round, i>>)
    BY <1>1 DEF OrdersMatchHands
  <2>2. InHand(p) = h[p]
    BY <1>2
  <2> QED
    BY <2>1, <2>2 DEF OrdersOK
<1>4. RushConserved
  <2> DEFINE held == UNION {InHand(p).rush : p \in Players}
  <2> SUFFICES ASSUME a.phase = "active", Kind(a.round) = "cafe_rush"
               PROVE  /\ \A p \in Players : InHand(p).tea = Cardinality(InHand(p).rush)
                      /\ \A p, q \in Players : p # q => InHand(p).rush \cap InHand(q).rush = {}
                      /\ \A i \in FreeLeaves(a) : <<a.round, i>> \notin held
                      /\ Cardinality(FreeLeaves(a)) + Cardinality(held)
                            = Cardinality(OrdersIn(a, "waiting"))
    BY <1>1 DEF RushConserved
  <2>1. HandsOK(a, h)
    BY <1>2 DEF Conserved
  <2>2. /\ \A p \in Players : InHand(p).tea = Cardinality(InHand(p).rush)
        /\ \A p, q \in Players : p # q => InHand(p).rush \cap InHand(q).rush = {}
    BY <1>2, <2>1 DEF HandsOK
  <2>3. held = UNION {h[p].rush : p \in Players}
    BY <1>2
  <2>4. Lying(a) \cap held = {}
    BY <2>1, <2>3 DEF HandsOK
  <2>5. \A i \in FreeLeaves(a) : <<a.round, i>> \notin held
    BY <2>4 DEF Lying
  <2>6. Loose(a, h) = Lying(a) \cup held
    BY <2>3 DEF Loose
  <2> HIDE DEF held
  <2>7. IsFiniteSet(Lying(a)) /\ IsFiniteSet(held)
    BY <1>2, <2>1, <2>6, LooseFinite, FS_Subset
  <2>8. Cardinality(Loose(a, h)) = Cardinality(Lying(a)) + Cardinality(held)
    <3>1. PICK L : L = Lying(a)
      OBVIOUS
    <3>2. Cardinality(L \cup held) = Cardinality(L) + Cardinality(held) - Cardinality(L \cap held)
      BY <2>7, <3>1, FS_Union
    <3>3. Cardinality(L \cap held) = 0 /\ Cardinality(L) \in Nat /\ Cardinality(held) \in Nat
      BY <2>4, <2>7, <3>1, FS_EmptySet, FS_CardinalityType
    <3> QED
      BY <2>6, <3>1, <3>2, <3>3
  <2>9. Cardinality(Lying(a)) = Cardinality(FreeLeaves(a))
    <3>1. IsFiniteSet(FreeLeaves(a))
      BY <1>2, ActivityParts, FS_Subset DEF FreeLeaves
    <3> QED
      BY <3>1, CountPieces DEF Lying
  <2>10. Cardinality(Loose(a, h)) = Cardinality(OrdersIn(a, "waiting"))
    BY <1>2 DEF Conserved, IngredientsOK
  <2> QED
    BY <2>2, <2>5, <2>8, <2>9, <2>10
<1> QED
  BY <1>3, <1>4 DEF RoundConserved

\* Timers in order means one transition at most is pending.
LEMMA InvPends ==
    ASSUME TimerInv
    PROVE  OnePendingTransition
BY DEF TimerInv, TimersFit, Ending, OnePendingTransition

\* The inductive invariant of the room: its types, the agreement of orders, ingredients
\* and hands in every phase, the timers of every round, and the accounts behind it.
THEOREM CafeRoomInvariant == Spec => []CafeRoomInv
<1>1. Init => CafeRoomInv
  BY InitInv
<1>2. CafeRoomInv /\ [Next]_vars => CafeRoomInv'
  BY NextRoom, NextSockets, NextAccounts DEF CafeRoomInv
<1> QED
  BY <1>1, <1>2, PTL DEF Spec

\* Drinks and ingredients of a running round are neither lost nor duplicated, whoever
\* claims, delivers, leaves, reconnects or runs out of time (interact_for_connection,
\* leave_for_connection, expire_cafe_rush), for rooms and rounds of any size.
THEOREM RoundConservedHolds == Spec => []RoundConserved
<1>1. CafeRoomInv => RoundConserved
  BY InvConserves DEF CafeRoomInv
<1> QED
  BY <1>1, CafeRoomInvariant, PTL

\* Exactly one detached task will end the current phase of a live room
\* (start_next_round and run_cafe_rush_timer), for any number of rounds.
THEOREM OnePendingTransitionHolds == Spec => []OnePendingTransition
<1>1. CafeRoomInv => OnePendingTransition
  BY InvPends DEF CafeRoomInv
<1> QED
  BY <1>1, CafeRoomInvariant, PTL

\* No reward that was in flight brings back rows of a deleted account
\* (award_cafe_round_completion against delete_registered_account).
THEOREM DeletionIsFinalHolds == Spec => []DeletionIsFinal
<1>1. CafeRoomInv => DeletionIsFinal
  BY DEF CafeRoomInv, AccountInv
<1> QED
  BY <1>1, CafeRoomInvariant, PTL

=============================================================================
