---------------------------- MODULE LimitsProofs ----------------------------
(***************************************************************************)
(* Proofs about what limits the use of the system.                         *)
(*                                                                         *)
(* DailyQuota, for any number of requests, sessions, accounts and days and *)
(* any limits: the table operations are pure functions of the tables, so   *)
(* each gets one lemma; the step lemma puts them together.                 *)
(*                                                                         *)
(* VoiceRequests with RateLimiter, for any clients, proxies, limits and    *)
(* window: the requests accepted for one key are a set of records, and an  *)
(* invariant of each window counts the part before it and the part in it.  *)
(*                                                                         *)
(* Config, for any presets, groups and number of edits: what is read of    *)
(* the environment stays once it is validated, and each reply follows from *)
(* what validation checked.                                                *)
(***************************************************************************)
EXTENDS DailyQuota, VoiceRequests, Config, FiniteSetTheorems, SequenceTheorems, InductionLemmas, TLAPS

\* Well-formed tables: an existing row has a date and an owner.
TablesOK(t) ==
    /\ t \in Tables
    /\ \A r \in Requests : t.res[r].exists => t.res[r].date \in Days /\ t.res[r].owner \in Owners

\* What an inductive argument adds to TypeOK: who a request runs for, whose a
\* registered session is, and that only an admission creates a row.
QuotaInv ==
    /\ TypeOK
    /\ TablesOK(db)
    /\ \A r \in Requests : pc[r] # "idle" => reqSession[r] \in Sessions
    /\ \A r \in Requests : pc[r] \in {"idle", "begun"} => ~db.res[r].exists
    /\ \A s \in Sessions : sess[s].kind = "registered" => sess[s].user \in Users
    /\ GlobalBalanced(db)

-----------------------------------------------------------------------------
(* Counting rows. *)

\* Every set of requests is finite and its cardinality is a natural number.
LEMMA FiniteRequests ==
    ASSUME NEW S \in SUBSET Requests
    PROVE  IsFiniteSet(S) /\ Cardinality(S) \in Nat
  BY FS_Subset, FS_CardinalityType, QuotaAssumption DEF QuotaAssumption

\* Taking R away from S takes exactly their common part off the count.
LEMMA CountDifference ==
    ASSUME NEW S \in SUBSET Requests, NEW R \in SUBSET Requests
    PROVE  /\ Cardinality(S \ R) = Cardinality(S) - Cardinality(S \cap R)
           /\ Cardinality(S \cap R) <= Cardinality(S)
<1>1. IsFiniteSet(S) /\ IsFiniteSet(R)
  BY FiniteRequests
<1>2. IsFiniteSet(S \ R) /\ Cardinality(S \ R) = Cardinality(S) - Cardinality(S \cap R)
  BY <1>1, FS_Difference
<1>3. S \cap R \in SUBSET S
  OBVIOUS
<1>4. Cardinality(S \cap R) <= Cardinality(S)
  BY <1>1, <1>3, FS_Subset
<1> QED
  BY <1>2, <1>4

\* The sets of rows the counters are about are sets of requests.
LEMMA RowSets ==
    ASSUME NEW t, NEW d, NEW o
    PROVE  /\ Held(t, d, o) \in SUBSET Requests
           /\ GlobalHeld(t, d) \in SUBSET Requests
           /\ Owned(t, o) \in SUBSET Requests
  BY DEF Held, GlobalHeld, Owned

\* The changes an operation makes to a row leave it a row; release and deletion
\* keep its date and owner.
LEMMA RowUpdates ==
    ASSUME NEW row \in Row
    PROVE  /\ SettledRow(row) \in Row
           /\ SettledRow(row).exists = row.exists
           /\ SettledRow(row).date = row.date
           /\ SettledRow(row).owner = row.owner
           /\ SettledRow(row).gstate # "reserved"
           /\ [row EXCEPT !.exists = FALSE] \in Row
           /\ [row EXCEPT !.gstate = "consumed", !.fresh = TRUE] \in Row
           /\ [row EXCEPT !.ostate = "committed", !.fresh = TRUE] \in Row
           /\ [row EXCEPT !.fresh = FALSE] \in Row
           /\ \A o \in Owners : [row EXCEPT !.owner = o, !.fresh = TRUE] \in Row
<1>1. /\ row.exists \in BOOLEAN /\ row.date \in 0..MaxDay /\ row.owner \in Owners \cup {NoOwner}
      /\ row.ostate \in {"none", "reserved", "committed", "released"}
      /\ row.gstate \in {"none", "reserved", "consumed", "released"}
      /\ row.fresh \in BOOLEAN
      /\ row = [exists |-> row.exists, date |-> row.date, owner |-> row.owner,
                ostate |-> row.ostate, gstate |-> row.gstate, fresh |-> row.fresh]
  BY DEF Row
<1>2. /\ ReleasedIfReserved(row.ostate) \in {"none", "reserved", "committed", "released"}
      /\ ReleasedIfReserved(row.gstate) \in {"none", "reserved", "consumed", "released"}
      /\ ReleasedIfReserved(row.gstate) # "reserved"
  BY <1>1 DEF ReleasedIfReserved
<1>4. SettledRow(row) \in Row
  BY <1>2 DEF SettledRow, Row
<1>5. /\ SettledRow(row).exists = row.exists
      /\ SettledRow(row).date = row.date
      /\ SettledRow(row).owner = row.owner
      /\ SettledRow(row).gstate # "reserved"
  BY <1>2 DEF SettledRow, Row
<1> QED
  BY <1>1, <1>4, <1>5 DEF Row

-----------------------------------------------------------------------------
(* One lemma per table operation. *)

\* Releasing rows (release, stale recovery) keeps the tables well formed and
\* the global counter equal to the rows it counts.
LEMMA SettleSafe ==
    ASSUME NEW t, TablesOK(t), GlobalBalanced(t), NEW R \in SUBSET Requests, CanSettle(t, R)
    PROVE  TablesOK(Settle(t, R)) /\ GlobalBalanced(Settle(t, R))
<1> DEFINE u == Settle(t, R)
<1>1. \A d \in Days, o \in Owners : Cardinality(Held(t, d, o) \cap R) \in Nat
  BY FiniteRequests, RowSets
<1>2. \A d \in Days : Cardinality(GlobalHeld(t, d) \cap R) \in Nat
  BY FiniteRequests, RowSets
<1>3. u.res \in [Requests -> Row]
  BY RowUpdates DEF TablesOK, Tables, Settle
<1>4. u.usage \in [Days -> [Owners -> Nat]]
  BY <1>1 DEF TablesOK, Tables, Settle, CanSettle
<1>5. u.greserved \in [Days -> Nat] /\ u.gconsumed \in [Days -> Nat]
  BY <1>2 DEF TablesOK, Tables, Settle, CanSettle
<1>6. TablesOK(u)
  <2>1. u \in Tables
    BY <1>3, <1>4, <1>5 DEF Tables, Settle
  <2>2. ASSUME NEW r \in Requests, u.res[r].exists
        PROVE  u.res[r].date \in Days /\ u.res[r].owner \in Owners
    BY <2>2, RowUpdates DEF TablesOK, Tables, Settle
  <2> QED
    BY <2>1, <2>2 DEF TablesOK
<1>7. ASSUME NEW d \in Days
      PROVE  u.greserved[d] = Cardinality(GlobalHeld(u, d))
  <2>1. GlobalHeld(u, d) = GlobalHeld(t, d) \ R
    BY RowUpdates DEF TablesOK, Tables, GlobalHeld, Settle, Pending
  <2>2. u.greserved[d] = Cardinality(GlobalHeld(t, d)) - Cardinality(GlobalHeld(t, d) \cap R)
    BY DEF Settle, GlobalBalanced
  <2> QED
    BY <2>1, <2>2, CountDifference, RowSets
<1> QED
  BY <1>6, <1>7 DEF GlobalBalanced

\* Retention keeps them too: it drops only rows with nothing reserved, and a
\* day's global counter only when no row of the day holds a global use.
LEMMA CleanupSafe ==
    ASSUME NEW t, TablesOK(t), GlobalBalanced(t), NEW d \in Days,
           NEW rows \in SUBSET TerminalRows(t, d), NEW owners,
           NEW days \in SUBSET IdleGlobalCounters(t, d)
    PROVE  /\ TablesOK(Cleanup(t, rows, owners, days))
           /\ GlobalBalanced(Cleanup(t, rows, owners, days))
           /\ \A r \in Requests : ~t.res[r].exists => ~Cleanup(t, rows, owners, days).res[r].exists
<1> DEFINE u == Cleanup(t, rows, owners, days)
<1>1. \A r \in Requests : u.res[r] = IF r \in rows THEN [t.res[r] EXCEPT !.exists = FALSE]
                                     ELSE t.res[r]
  BY DEF Cleanup, WithoutRows
<1>2. u.res \in [Requests -> Row]
  BY RowUpdates DEF TablesOK, Tables, Cleanup, WithoutRows
<1>3. u \in Tables
  <2>1. u.usage \in [Days -> [Owners -> Nat]]
    BY DEF TablesOK, Tables, Cleanup
  <2>2. u.greserved \in [Days -> Nat] /\ u.gconsumed \in [Days -> Nat]
    BY DEF TablesOK, Tables, Cleanup
  <2> QED
    BY <1>2, <2>1, <2>2 DEF Tables, Cleanup
<1>4. \A r \in Requests : u.res[r].exists => t.res[r].exists /\ u.res[r] = t.res[r]
  BY <1>1 DEF TablesOK, Tables, Row
<1>5. TablesOK(u)
  BY <1>3, <1>4 DEF TablesOK
<1>6. ASSUME NEW e \in Days
      PROVE  u.greserved[e] = Cardinality(GlobalHeld(u, e))
  <2>1. GlobalHeld(u, e) = GlobalHeld(t, e)
    BY <1>1, <1>4 DEF GlobalHeld, TerminalRows
  <2>2. CASE e \in days
    <3>1. GlobalHeld(t, e) = {}
      BY <2>2 DEF IdleGlobalCounters
    <3>2. u.greserved[e] = 0
      BY <2>2 DEF Cleanup
    <3> QED
      BY <2>1, <3>1, <3>2, FS_EmptySet
  <2>3. CASE e \notin days
    BY <2>1, <2>3 DEF Cleanup, GlobalBalanced
  <2> QED
    BY <2>2, <2>3
<1> QED
  BY <1>4, <1>5, <1>6 DEF GlobalBalanced

\* An admission for a request that has no row yet adds one row and one unit.
LEMMA AdmitSafe ==
    ASSUME NEW t, TablesOK(t), GlobalBalanced(t), NEW r \in Requests, ~t.res[r].exists,
           NEW d \in Days, NEW o \in Owners
    PROVE  TablesOK(Admit(t, r, d, o)) /\ GlobalBalanced(Admit(t, r, d, o))
<1> DEFINE u == Admit(t, r, d, o)
<1>1. u.res[r] = [exists |-> TRUE, date |-> d, owner |-> o, ostate |-> "reserved",
                  gstate |-> "reserved", fresh |-> TRUE]
  BY DEF TablesOK, Tables, Admit
<1>2. \A q \in Requests \ {r} : u.res[q] = t.res[q]
  BY DEF TablesOK, Tables, Admit
<1>3. u.res \in [Requests -> Row]
  BY DEF TablesOK, Tables, Row, Admit, Days
<1>4. u.usage \in [Days -> [Owners -> Nat]] /\ u.greserved \in [Days -> Nat]
  BY DEF TablesOK, Tables, Admit
<1>5. TablesOK(u)
  BY <1>1, <1>2, <1>3, <1>4 DEF TablesOK, Tables, Admit
<1>6. ASSUME NEW e \in Days
      PROVE  u.greserved[e] = Cardinality(GlobalHeld(u, e))
  <2>1. CASE e = d
    <3>1. GlobalHeld(u, e) = GlobalHeld(t, e) \cup {r} /\ r \notin GlobalHeld(t, e)
      BY <1>1, <1>2, <2>1 DEF GlobalHeld
    <3>2. Cardinality(GlobalHeld(u, e)) = Cardinality(GlobalHeld(t, e)) + 1
      BY <3>1, FiniteRequests, RowSets, FS_AddElement
    <3>3. u.greserved[e] = t.greserved[e] + 1
      BY <2>1 DEF TablesOK, Tables, Admit
    <3> QED
      BY <3>2, <3>3 DEF GlobalBalanced
  <2>2. CASE e # d
    <3>1. GlobalHeld(u, e) = GlobalHeld(t, e)
      BY <1>1, <1>2, <2>2 DEF GlobalHeld
    <3>2. u.greserved[e] = t.greserved[e]
      BY <2>2 DEF TablesOK, Tables, Admit
    <3> QED
      BY <3>1, <3>2 DEF GlobalBalanced
  <2> QED
    BY <2>1, <2>2
<1> QED
  BY <1>5, <1>6 DEF GlobalBalanced

\* Starting the provider moves one unit from reserved to consumed.
LEMMA StartSafe ==
    ASSUME NEW t, TablesOK(t), GlobalBalanced(t), NEW r \in Requests,
           t.res[r].exists, t.res[r].gstate = "reserved", t.greserved[t.res[r].date] > 0
    PROVE  /\ TablesOK(Start(t, r)) /\ GlobalBalanced(Start(t, r))
           /\ \A q \in Requests : Start(t, r).res[q].exists = t.res[q].exists
<1> DEFINE u == Start(t, r)
           d == t.res[r].date
<1>1. d \in Days
  BY DEF TablesOK
<1>2. /\ u.res = [t.res EXCEPT ![r] = [@ EXCEPT !.gstate = "consumed", !.fresh = TRUE]]
      /\ u.usage = t.usage
      /\ u.greserved = [t.greserved EXCEPT ![d] = @ - 1]
      /\ u.gconsumed = [t.gconsumed EXCEPT ![d] = @ + 1]
  BY DEF Start
<1>3. u.res \in [Requests -> Row]
  <2> DEFINE started == [t.res[r] EXCEPT !.gstate = "consumed", !.fresh = TRUE]
  <2>1. started \in Row
    BY RowUpdates DEF TablesOK, Tables
  <2>2. u.res = [t.res EXCEPT ![r] = started]
    BY <1>2
  <2> HIDE DEF started
  <2> QED
    BY <2>1, <2>2 DEF TablesOK, Tables
<1>4. u.greserved \in [Days -> Nat] /\ u.gconsumed \in [Days -> Nat]
  BY <1>1, <1>2 DEF TablesOK, Tables
<1>5. u \in Tables
  BY <1>2, <1>3, <1>4 DEF TablesOK, Tables, Start
<1>6. \A q \in Requests : /\ u.res[q].exists = t.res[q].exists
                          /\ u.res[q].date = t.res[q].date
                          /\ u.res[q].owner = t.res[q].owner
                          /\ q # r => u.res[q] = t.res[q]
  BY <1>2 DEF TablesOK, Tables, Row
<1>7. u.res[r].gstate = "consumed"
  BY <1>2 DEF TablesOK, Tables, Row
<1>8. ASSUME NEW e \in Days
      PROVE  u.greserved[e] = Cardinality(GlobalHeld(u, e))
  <2>1. CASE e = d
    <3>1. GlobalHeld(u, e) = GlobalHeld(t, e) \ {r} /\ r \in GlobalHeld(t, e)
      BY <1>6, <1>7, <2>1 DEF GlobalHeld
    <3>2. Cardinality(GlobalHeld(u, e)) = Cardinality(GlobalHeld(t, e)) - 1
      <4>1. IsFiniteSet(GlobalHeld(t, e))
        BY FiniteRequests, RowSets
      <4> QED
        BY <3>1, <4>1, FS_RemoveElement
    <3>3. u.greserved[e] = t.greserved[e] - 1
      BY <1>1, <1>2, <2>1 DEF TablesOK, Tables
    <3> QED
      BY <3>2, <3>3 DEF GlobalBalanced
  <2>2. CASE e # d
    <3>1. GlobalHeld(u, e) = GlobalHeld(t, e)
      BY <1>6, <1>7, <2>2 DEF GlobalHeld
    <3>2. u.greserved[e] = t.greserved[e]
      BY <1>2, <2>2 DEF TablesOK, Tables
    <3> QED
      BY <3>1, <3>2 DEF GlobalBalanced
  <2> QED
    BY <2>1, <2>2
<1> QED
  BY <1>5, <1>6, <1>8 DEF TablesOK, GlobalBalanced

\* An operation that leaves every row's existence, date and global state alone,
\* and the global reserved counters, keeps the global ledger.
LEMMA SameGlobalSide ==
    ASSUME NEW t, GlobalBalanced(t), NEW u, u.greserved = t.greserved,
           \A q \in Requests : /\ u.res[q].exists = t.res[q].exists
                               /\ u.res[q].date = t.res[q].date
                               /\ u.res[q].gstate = t.res[q].gstate
    PROVE  GlobalBalanced(u)
<1>1. \A d \in Days : GlobalHeld(u, d) = GlobalHeld(t, d)
  BY DEF GlobalHeld
<1> QED
  BY <1>1 DEF GlobalBalanced

\* Committing a reply, and the passing of time, change no counter.
LEMMA CommitSafe ==
    ASSUME NEW t, TablesOK(t), GlobalBalanced(t), NEW r \in Requests,
           NEW u, u = Commit(t, r) \/ u = Aged(t, r)
    PROVE  /\ TablesOK(u) /\ GlobalBalanced(u)
           /\ \A q \in Requests : u.res[q].exists = t.res[q].exists
<1>1. PICK new \in Row : /\ new.exists = t.res[r].exists /\ new.date = t.res[r].date
                         /\ new.owner = t.res[r].owner /\ new.gstate = t.res[r].gstate
                         /\ u = [t EXCEPT !.res = [t.res EXCEPT ![r] = new]]
  <2>1. t.res[r] \in Row
    BY DEF TablesOK, Tables
  <2>2. CASE u = Commit(t, r)
    <3> DEFINE new == [t.res[r] EXCEPT !.ostate = "committed", !.fresh = TRUE]
    <3>1. new \in Row
      BY <2>1, RowUpdates
    <3>2. /\ new.exists = t.res[r].exists /\ new.date = t.res[r].date
          /\ new.owner = t.res[r].owner /\ new.gstate = t.res[r].gstate
      BY <2>1 DEF Row
    <3>3. u = [t EXCEPT !.res = [t.res EXCEPT ![r] = new]]
      BY <2>2 DEF Commit
    <3> QED
      BY <3>1, <3>2, <3>3
  <2>3. CASE u = Aged(t, r)
    <3> DEFINE new == [t.res[r] EXCEPT !.fresh = FALSE]
    <3>1. new \in Row
      BY <2>1, RowUpdates
    <3>2. /\ new.exists = t.res[r].exists /\ new.date = t.res[r].date
          /\ new.owner = t.res[r].owner /\ new.gstate = t.res[r].gstate
      BY <2>1 DEF Row
    <3>3. u = [t EXCEPT !.res = [t.res EXCEPT ![r] = new]]
      BY <2>3 DEF Aged
    <3> QED
      BY <3>1, <3>2, <3>3
  <2> QED
    BY <2>2, <2>3
<1>2. u \in Tables /\ u.greserved = t.greserved /\ u.res = [t.res EXCEPT ![r] = new]
  BY <1>1 DEF TablesOK, Tables
<1>3. \A q \in Requests : /\ u.res[q].exists = t.res[q].exists
                          /\ u.res[q].date = t.res[q].date
                          /\ u.res[q].owner = t.res[q].owner
                          /\ u.res[q].gstate = t.res[q].gstate
  BY <1>1, <1>2 DEF TablesOK, Tables
<1>4. GlobalBalanced(u)
  BY <1>2, <1>3, SameGlobalSide
<1> QED
  BY <1>2, <1>3, <1>4 DEF TablesOK

\* Moving a guest's uses to an account moves only owner counters.
LEMMA TransferSafe ==
    ASSUME NEW t, TablesOK(t), GlobalBalanced(t), NEW M \in SUBSET Requests,
           NEW a \in Users, NEW d \in Days, CanTransfer(t, M, d)
    PROVE  /\ TablesOK(Transfer(t, M, a, d)) /\ GlobalBalanced(Transfer(t, M, a, d))
           /\ \A q \in Requests : Transfer(t, M, a, d).res[q].exists = t.res[q].exists
<1> DEFINE u == Transfer(t, M, a, d)
           owned == [r \in Requests |->
                       IF r \in M THEN [t.res[r] EXCEPT !.owner = AccountOwner(a), !.fresh = TRUE]
                       ELSE t.res[r]]
           counts == [o \in Owners |->
                       IF o = AccountOwner(a) THEN t.usage[d][o] + Cardinality(M)
                       ELSE t.usage[d][o] - Cardinality(MovedFrom(t, M, o))]
<1>1. AccountOwner(a) \in Owners
  BY DEF AccountOwner, Owners
<1>2. owned \in [Requests -> Row]
  BY <1>1, RowUpdates DEF TablesOK, Tables
<1>3. counts \in [Owners -> Nat]
  <2>1. \A o \in Owners : Cardinality(MovedFrom(t, M, o)) \in Nat
    BY FiniteRequests DEF MovedFrom
  <2>2. Cardinality(M) \in Nat
    BY FiniteRequests
  <2>3. \A o \in Owners : t.usage[d][o] \in Nat
    BY DEF TablesOK, Tables
  <2> QED
    BY <2>1, <2>2, <2>3 DEF CanTransfer
<1>4. u = [t EXCEPT !.res = owned, !.usage = [t.usage EXCEPT ![d] = counts]]
  BY DEF Transfer
<1>5. \A q \in Requests : /\ owned[q].exists = t.res[q].exists
                          /\ owned[q].date = t.res[q].date
                          /\ owned[q].gstate = t.res[q].gstate
                          /\ owned[q].owner = t.res[q].owner \/ owned[q].owner = AccountOwner(a)
  BY DEF TablesOK, Tables, Row
<1> HIDE DEF owned, counts, u
<1>6. u \in Tables /\ u.res = owned /\ u.greserved = t.greserved
  BY <1>2, <1>3, <1>4 DEF TablesOK, Tables
<1>7. GlobalBalanced(u)
  BY <1>5, <1>6, SameGlobalSide
<1>8. TablesOK(u)
  BY <1>1, <1>5, <1>6 DEF TablesOK
<1> QED
  BY <1>5, <1>6, <1>7, <1>8 DEF u

\* Deleting an account gives back exactly its unstarted global reservations.
LEMMA ForgetSafe ==
    ASSUME NEW t, TablesOK(t), GlobalBalanced(t), NEW o \in Owners, NEW d \in Days
    PROVE  /\ TablesOK(ForgetAccount(t, o, d)) /\ GlobalBalanced(ForgetAccount(t, o, d))
           /\ \A q \in Requests : ~t.res[q].exists => ~ForgetAccount(t, o, d).res[q].exists
<1> DEFINE u == ForgetAccount(t, o, d)
           W == Owned(t, o)
<1>1. \A q \in Requests : u.res[q] = IF q \in W THEN [t.res[q] EXCEPT !.exists = FALSE]
                                     ELSE t.res[q]
  BY DEF ForgetAccount, WithoutRows
<1>2. u.res \in [Requests -> Row]
  BY RowUpdates DEF TablesOK, Tables, ForgetAccount, WithoutRows
<1>3. \A q \in Requests : u.res[q].exists <=> t.res[q].exists /\ q \notin W
  BY <1>1 DEF TablesOK, Tables, Row, Owned
<1>4. \A q \in Requests : u.res[q].exists => u.res[q] = t.res[q]
  BY <1>1, <1>3
<1>5. ASSUME NEW e \in Days
      PROVE  u.greserved[e] \in Nat /\ u.greserved[e] = Cardinality(GlobalHeld(u, e))
  <2>1. GlobalHeld(u, e) = GlobalHeld(t, e) \ W
    BY <1>1, <1>3 DEF GlobalHeld
  <2>2. /\ Cardinality(GlobalHeld(t, e) \ W)
             = Cardinality(GlobalHeld(t, e)) - Cardinality(GlobalHeld(t, e) \cap W)
        /\ Cardinality(GlobalHeld(t, e) \cap W) <= Cardinality(GlobalHeld(t, e))
    BY CountDifference, RowSets
  <2>3. Cardinality(GlobalHeld(t, e) \cap W) \in Nat /\ Cardinality(GlobalHeld(t, e)) \in Nat
    BY FiniteRequests, RowSets
  <2>4. u.greserved[e] = Decreased(Cardinality(GlobalHeld(t, e)),
                                   Cardinality(GlobalHeld(t, e) \cap W))
    BY DEF ForgetAccount, GlobalBalanced
  <2> QED
    BY <2>1, <2>2, <2>3, <2>4 DEF Decreased
<1>6. u \in Tables
  <2>1. u.usage \in [Days -> [Owners -> Nat]]
    BY DEF ForgetAccount, TablesOK, Tables
  <2>2. u.greserved \in [Days -> Nat]
    BY <1>5 DEF ForgetAccount
  <2>3. u.gconsumed \in [Days -> Nat]
    BY DEF ForgetAccount, TablesOK, Tables
  <2> QED
    BY <1>2, <2>1, <2>2, <2>3 DEF Tables, ForgetAccount
<1>7. TablesOK(u)
  BY <1>4, <1>6, <1>3 DEF TablesOK
<1> QED
  BY <1>3, <1>5, <1>7 DEF GlobalBalanced

-----------------------------------------------------------------------------
(* The specification. *)

\* The parts of QuotaInv that are not about the tables.
ControlOK ==
    /\ today \in Days
    /\ sess \in [Sessions -> SessionRow]
    /\ promo \in [Sessions -> [user : Users \cup {None}, date : Days]]
    /\ pc \in [Requests -> {"idle", "begun", "admitted", "started", "erring", "done"}]
    /\ reqSession \in [Requests -> Sessions \cup {None}]
    /\ txDate \in [Requests -> Days]
    /\ appended \in SUBSET Requests
    /\ \A r \in Requests : pc[r] # "idle" => reqSession[r] \in Sessions
    /\ \A s \in Sessions : sess[s].kind = "registered" => sess[s].user \in Users

\* What the tables and the program counters have to do with each other.
TablesInv ==
    /\ TablesOK(db)
    /\ GlobalBalanced(db)
    /\ \A r \in Requests : pc[r] \in {"idle", "begun"} => ~db.res[r].exists

\* The invariant of the quota is about the handlers and about the tables.
LEMMA QuotaInvSplit == QuotaInv <=> ControlOK /\ TablesInv
  BY DEF QuotaInv, ControlOK, TablesInv, TypeOK, TablesOK

\* A promotion not under way is of its type.
LEMMA NoPromotionType == NoPromotion \in [user : Users \cup {None}, date : Days]
  BY QuotaAssumption DEF QuotaAssumption, Days, NoPromotion

\* Handlers and tables are in order initially.
LEMMA InitSafe == Init => ControlOK /\ TablesInv
<1> SUFFICES ASSUME Init PROVE ControlOK /\ TablesInv
  OBVIOUS
<1>1. 1 \in Days /\ 0 \in 0..MaxDay
  BY QuotaAssumption DEF QuotaAssumption, Days
<1>2. ControlOK
  BY <1>1, NoPromotionType DEF Init, ControlOK, SessionRow
<1>3. NoRow \in Row
  BY <1>1 DEF NoRow, Row
<1>4. db \in Tables
  BY <1>3 DEF Init, EmptyTables, Tables
<1>5. \A r \in Requests : ~db.res[r].exists
  BY DEF Init, EmptyTables, NoRow
<1>6. GlobalBalanced(db)
  <2>1. \A d \in Days : GlobalHeld(db, d) = {}
    BY <1>5 DEF GlobalHeld
  <2> QED
    BY <2>1, FS_EmptySet DEF GlobalBalanced, Init, EmptyTables
<1> QED
  BY <1>2, <1>4, <1>5, <1>6 DEF TablesInv, TablesOK

\* The owner an active session's admission charges.
LEMMA QuotaOwnerType ==
    ASSUME ControlOK, NEW s \in Sessions, NEW d, Active(s)
    PROVE  QuotaOwner(s, d) \in Owners
<1>1. CASE sess[s].kind = "registered"
  BY <1>1 DEF ControlOK, QuotaOwner, AccountOwner, Owners
<1>2. CASE sess[s].kind # "registered"
  BY <1>2 DEF ControlOK, SessionRow, QuotaOwner, AccountOwner, GuestOwner, Owners
<1> QED
  BY <1>1, <1>2

\* Revoking, promoting or deleting a session, or forgetting its carry-over,
\* leaves it a session.
LEMMA SessionUpdates ==
    ASSUME NEW x \in SessionRow
    PROVE  /\ [x EXCEPT !.active = FALSE] \in SessionRow
           /\ [x EXCEPT !.active = FALSE].kind = x.kind
           /\ [x EXCEPT !.active = FALSE].user = x.user
           /\ [x EXCEPT !.active = FALSE, !.kind = "promoted"] \in SessionRow
           /\ [x EXCEPT !.active = FALSE, !.kind = "promoted"].kind = "promoted"
           /\ [x EXCEPT !.kind = "deleted", !.active = FALSE] \in SessionRow
           /\ [x EXCEPT !.kind = "deleted", !.active = FALSE].kind = "deleted"
           /\ [x EXCEPT !.carry = None, !.carryDate = 0] \in SessionRow
           /\ [x EXCEPT !.carry = None, !.carryDate = 0].kind = x.kind
           /\ [x EXCEPT !.carry = None, !.carryDate = 0].user = x.user
<1>1. 0 \in 0..MaxDay
  BY QuotaAssumption DEF QuotaAssumption
<1> QED
  BY <1>1 DEF SessionRow

\* Every step keeps the handlers in order.
LEMMA ControlStep == ControlOK /\ [Next]_vars => ControlOK'
<1> SUFFICES ASSUME ControlOK, [Next]_vars PROVE ControlOK'
  OBVIOUS
<1> USE DEF ControlOK
<1>1. ASSUME NEW r \in Requests, NEW s \in Sessions, BeginReserve(r, s) PROVE ControlOK'
  BY <1>1 DEF BeginReserve, Become
<1>2. ASSUME NEW r \in Requests, Reserve(r) PROVE ControlOK'
  BY <1>2 DEF Reserve, Become
<1>3. ASSUME NEW r \in Requests, ReserveRefused(r) PROVE ControlOK'
  BY <1>3 DEF ReserveRefused, Become
<1>4. ASSUME NEW r \in Requests, MarkProviderStarted(r) PROVE ControlOK'
  BY <1>4 DEF MarkProviderStarted, Become
<1>5. ASSUME NEW r \in Requests, GenerationFails(r) PROVE ControlOK'
  BY <1>5 DEF GenerationFails, Become
<1>6. ASSUME NEW r \in Requests, AppendReply(r) PROVE ControlOK'
  BY <1>6 DEF AppendReply, Become
<1>7. ASSUME NEW r \in Requests, Release(r) PROVE ControlOK'
  BY <1>7 DEF Release, Become
<1>8. ASSUME NEW r \in Requests, Abandon(r) PROVE ControlOK'
  BY <1>8 DEF Abandon, Become
<1>9. ASSUME NEW r \in Requests, Age(r) PROVE ControlOK'
  BY <1>9 DEF Age
<1>10. 0 \in 0..MaxDay /\ Days \subseteq 0..MaxDay
  BY QuotaAssumption DEF QuotaAssumption, Days
<1>11. \A u \in Users \cup {None}, d \in 0..MaxDay : NewGuest(u, d) \in SessionRow
                                                    /\ NewGuest(u, d).kind = "guest"
  BY DEF NewGuest, SessionRow
<1>12. ASSUME NEW s \in Sessions, CreateGuest(s) PROVE ControlOK'
  BY <1>10, <1>11, <1>12 DEF CreateGuest
<1>13. ASSUME NEW s \in Sessions, Deactivate(s) PROVE ControlOK'
  <2> DEFINE new == [sess[s] EXCEPT !.active = FALSE]
  <2>1. new \in SessionRow /\ new.kind = sess[s].kind /\ new.user = sess[s].user
    BY SessionUpdates
  <2>2. sess' = [sess EXCEPT ![s] = new]
    BY <1>13 DEF Deactivate
  <2> HIDE DEF new
  <2> QED
    BY <1>13, <2>1, <2>2 DEF Deactivate
<1>14. ASSUME NEW s \in Sessions, PromoteAborts(s) PROVE ControlOK'
  BY <1>14, NoPromotionType DEF PromoteAborts
<1>15. ASSUME NEW s \in Sessions, NEW u \in Users, BeginPromote(s, u) PROVE ControlOK'
  BY <1>15 DEF BeginPromote
<1>16. ASSUME NEW s \in Sessions, NEW g \in Sessions, Logout(s, g) PROVE ControlOK'
  <2>1. sess[s].user \in Users \cup {None} /\ today \in 0..MaxDay
    BY <1>10 DEF SessionRow
  <2>2. NewGuest(sess[s].user, today) \in SessionRow /\ NewGuest(sess[s].user, today).kind = "guest"
    BY <2>1, <1>11
  <2>3. [sess[s] EXCEPT !.active = FALSE] \in SessionRow
    BY SessionUpdates
  <2>4. sess' \in [Sessions -> SessionRow]
    BY <1>16, <2>2, <2>3 DEF Logout
  <2>5. \A x \in Sessions : sess'[x].kind = "registered" => sess'[x].user \in Users
    BY <1>16, <2>2 DEF Logout, SessionRow
  <2> QED
    BY <1>16, <2>4, <2>5 DEF Logout
<1>17. ASSUME NEW s \in Sessions, NEW g \in Sessions, Promote(s, g) PROVE ControlOK'
  <2> DEFINE new == [kind |-> "registered", active |-> TRUE, user |-> promo[s].user,
                     carry |-> None, carryDate |-> 0]
             old == [sess[s] EXCEPT !.active = FALSE, !.kind = "promoted"]
  <2>1. promo[s].user \in Users
    BY <1>17 DEF Promote
  <2>2. new \in SessionRow /\ new.user \in Users
    BY <2>1, <1>10 DEF SessionRow
  <2>3. old \in SessionRow /\ old.kind = "promoted"
    BY SessionUpdates
  <2>4. s # g
    BY <1>17 DEF Promote
  <2>5. \A x \in Sessions : sess'[x] = IF x = g THEN new ELSE IF x = s THEN old ELSE sess[x]
    BY <1>17, <2>4 DEF Promote
  <2>6. sess' \in [Sessions -> SessionRow]
    <3>1. DOMAIN sess' = Sessions /\ sess' = [x \in Sessions |-> sess'[x]]
      BY <1>17 DEF Promote
    <3> HIDE DEF new, old
    <3> QED
      BY <2>2, <2>3, <2>5, <3>1
  <2>7. \A x \in Sessions : sess'[x].kind = "registered" => sess'[x].user \in Users
    <3> HIDE DEF new, old
    <3> QED
      BY <2>2, <2>3, <2>5
  <2>8. promo' \in [Sessions -> [user : Users \cup {None}, date : Days]]
    BY <1>17, NoPromotionType DEF Promote
  <2> QED
    BY <1>17, <2>6, <2>7, <2>8 DEF Promote
<1>18. ASSUME NEW s \in Sessions, NEW g \in Sessions, DeleteAccount(s, g) PROVE ControlOK'
  <2> DEFINE u == sess[s].user
  <2>1. u \in Users \cup {None} /\ today \in 0..MaxDay
    BY <1>10 DEF SessionRow
  <2>2. NewGuest(u, today) \in SessionRow /\ NewGuest(u, today).kind = "guest"
    BY <2>1, <1>11
  <2>3. \A x \in Sessions :
           \/ sess'[x] = NewGuest(u, today)
           \/ sess'[x] = [sess[x] EXCEPT !.kind = "deleted", !.active = FALSE]
           \/ sess'[x] = [sess[x] EXCEPT !.carry = None, !.carryDate = 0]
           \/ sess'[x] = sess[x]
    BY <1>18 DEF DeleteAccount
  <2>4. \A x \in Sessions :
           /\ [sess[x] EXCEPT !.kind = "deleted", !.active = FALSE] \in SessionRow
           /\ [sess[x] EXCEPT !.kind = "deleted", !.active = FALSE].kind = "deleted"
           /\ [sess[x] EXCEPT !.carry = None, !.carryDate = 0] \in SessionRow
           /\ [sess[x] EXCEPT !.carry = None, !.carryDate = 0].kind = sess[x].kind
           /\ [sess[x] EXCEPT !.carry = None, !.carryDate = 0].user = sess[x].user
    BY SessionUpdates
  <2>5. sess' = [x \in Sessions |-> sess'[x]]
    BY <1>18 DEF DeleteAccount
  <2>6. \A x \in Sessions : sess'[x] \in SessionRow
    BY <2>2, <2>3, <2>4
  <2>7. \A x \in Sessions : sess'[x].kind = "registered" => sess'[x].user \in Users
    BY <2>2, <2>3, <2>4
  <2> QED
    BY <1>18, <2>5, <2>6, <2>7 DEF DeleteAccount
<1>19. ASSUME NextDay PROVE ControlOK'
  BY <1>19, QuotaAssumption DEF NextDay, Days, QuotaAssumption
<1>20. ASSUME StartupCleanup PROVE ControlOK'
  BY <1>20 DEF StartupCleanup
<1>21. CASE UNCHANGED vars
  BY <1>21 DEF vars
<1> QED
  BY <1>1, <1>2, <1>3, <1>4, <1>5, <1>6, <1>7, <1>8, <1>9, <1>12, <1>13, <1>14, <1>15,
     <1>16, <1>17, <1>18, <1>19, <1>20, <1>21 DEF Next, GenerationStep, SessionStep

\* A recovery and a retention pass, then the admission: the tables an admitted
\* request leaves behind.
LEMMA ReserveSafe ==
    ASSUME ControlOK, TablesInv, NEW r \in Requests, Reserve(r)
    PROVE  TablesInv'
<1> DEFINE s == reqSession[r]
           d == txDate[r]
           o == QuotaOwner(s, d)
<1>1. pc[r] = "begun" /\ s \in Sessions /\ d \in Days /\ Active(s) /\ ~db.res[r].exists
  BY DEF Reserve, ControlOK, TablesInv
<1>2. o \in Owners
  BY <1>1, QuotaOwnerType
<1>3. PICK stale \in SUBSET Stale(db) :
        /\ CanSettle(db, stale)
        /\ LET t == Settle(db, stale)
           IN  \E rows \in Batches(TerminalRows(t, d)),
                  owners \in Batches(IdleOwnerCounters(t, d)),
                  days \in Batches(IdleGlobalCounters(t, d)) :
                 db' = Admit(Cleanup(t, rows, owners, days), r, d, o)
  BY DEF Reserve
<1> DEFINE t == Settle(db, stale)
<1>4. PICK rows \in Batches(TerminalRows(t, d)), owners \in Batches(IdleOwnerCounters(t, d)),
           days \in Batches(IdleGlobalCounters(t, d)) :
        db' = Admit(Cleanup(t, rows, owners, days), r, d, o)
  BY <1>3
<1> DEFINE c == Cleanup(t, rows, owners, days)
<1>5. stale \in SUBSET Requests
  BY DEF Stale
<1>6. TablesOK(t) /\ GlobalBalanced(t)
  BY <1>3, <1>5, SettleSafe DEF TablesInv
<1>7. \A q \in Requests : ~db.res[q].exists => ~t.res[q].exists
  BY DEF Settle, Pending
<1>8. rows \in SUBSET TerminalRows(t, d) /\ days \in SUBSET IdleGlobalCounters(t, d)
  BY DEF Batches
<1> HIDE DEF t
<1>9. /\ TablesOK(c) /\ GlobalBalanced(c)
      /\ \A q \in Requests : ~t.res[q].exists => ~c.res[q].exists
  BY <1>1, <1>6, <1>8, CleanupSafe
<1> HIDE DEF c
<1>10. ~c.res[r].exists
  BY <1>1, <1>7, <1>9
<1>11. TablesOK(Admit(c, r, d, o)) /\ GlobalBalanced(Admit(c, r, d, o))
  BY <1>1, <1>2, <1>9, <1>10, AdmitSafe
<1>12. db' = Admit(c, r, d, o)
  BY <1>4 DEF c
<1>13. \A q \in Requests : pc'[q] \in {"idle", "begun"} => q # r /\ pc[q] \in {"idle", "begun"}
  BY DEF Reserve, Become, ControlOK
<1>14. \A q \in Requests \ {r} : Admit(c, r, d, o).res[q] = c.res[q]
  BY <1>9 DEF Admit, TablesOK, Tables
<1>15. \A q \in Requests : pc'[q] \in {"idle", "begun"} => ~db'.res[q].exists
  BY <1>7, <1>9, <1>12, <1>13, <1>14 DEF TablesInv
<1> QED
  BY <1>11, <1>12, <1>15 DEF TablesInv

\* Every step keeps the tables in order.
LEMMA TablesStep == ControlOK /\ TablesInv /\ [Next]_vars => TablesInv'
<1> SUFFICES ASSUME ControlOK, TablesInv, [Next]_vars PROVE TablesInv'
  OBVIOUS
\* A step that changes no table and gives no request a fresh start.
<1>1. ASSUME UNCHANGED db,
             \A r \in Requests : pc'[r] \in {"idle", "begun"} => pc[r] \in {"idle", "begun"}
      PROVE  TablesInv'
  BY <1>1 DEF TablesInv, TablesOK, GlobalBalanced, GlobalHeld
\* A step that changes the tables as one of the lemmas above allows.
<1>2. ASSUME NEW t, db' = t, TablesOK(t), GlobalBalanced(t),
             \A q \in Requests : ~db.res[q].exists => ~t.res[q].exists,
             \A q \in Requests : pc'[q] \in {"idle", "begun"} => pc[q] \in {"idle", "begun"}
      PROVE  TablesInv'
  BY <1>2 DEF TablesInv
<1>3. ASSUME NEW r \in Requests, NEW s \in Sessions, BeginReserve(r, s) PROVE TablesInv'
  BY <1>1, <1>3 DEF BeginReserve, Become, ControlOK
<1>4. ASSUME NEW r \in Requests, Reserve(r) PROVE TablesInv'
  BY <1>4, ReserveSafe
<1>5. ASSUME NEW r \in Requests, ReserveRefused(r) PROVE TablesInv'
  BY <1>1, <1>5 DEF ReserveRefused, Become, ControlOK
<1>6. ASSUME NEW r \in Requests, MarkProviderStarted(r) PROVE TablesInv'
  <2>1. /\ db.res[r].exists /\ db.res[r].gstate = "reserved"
        /\ db.greserved[db.res[r].date] > 0 /\ db' = Start(db, r)
    BY <1>6 DEF MarkProviderStarted
  <2>2. \A q \in Requests : pc'[q] \in {"idle", "begun"} => pc[q] \in {"idle", "begun"}
    BY <1>6 DEF MarkProviderStarted, Become, ControlOK
  <2>3. TablesOK(db) /\ GlobalBalanced(db)
    BY DEF TablesInv
  <2>4. /\ TablesOK(Start(db, r)) /\ GlobalBalanced(Start(db, r))
        /\ \A q \in Requests : Start(db, r).res[q].exists = db.res[q].exists
    BY <2>1, <2>3, StartSafe
  <2> QED
    BY <1>2, <2>1, <2>2, <2>4
<1>7. ASSUME NEW r \in Requests, GenerationFails(r) PROVE TablesInv'
  BY <1>1, <1>7 DEF GenerationFails, Become, ControlOK
<1>8. ASSUME NEW r \in Requests, AppendReply(r) PROVE TablesInv'
  <2>1. db' = Commit(db, r) /\ TablesOK(db) /\ GlobalBalanced(db)
    BY <1>8 DEF AppendReply, TablesInv
  <2>2. \A q \in Requests : pc'[q] \in {"idle", "begun"} => pc[q] \in {"idle", "begun"}
    BY <1>8 DEF AppendReply, Become, ControlOK
  <2>3. /\ TablesOK(Commit(db, r)) /\ GlobalBalanced(Commit(db, r))
        /\ \A q \in Requests : Commit(db, r).res[q].exists = db.res[q].exists
    BY <2>1, CommitSafe
  <2> QED
    BY <1>2, <2>1, <2>2, <2>3
<1>9. ASSUME NEW r \in Requests, Release(r) PROVE TablesInv'
  <2>1. \A q \in Requests : pc'[q] \in {"idle", "begun"} => pc[q] \in {"idle", "begun"}
    BY <1>9 DEF Release, Become, ControlOK
  <2>2. CASE CanSettle(db, {r})
    <3>1. db' = Settle(db, {r})
      BY <1>9, <2>2 DEF Release, Released
    <3>2. TablesOK(Settle(db, {r})) /\ GlobalBalanced(Settle(db, {r}))
      BY <2>2, SettleSafe DEF TablesInv
    <3>3. \A q \in Requests : ~db.res[q].exists => ~Settle(db, {r}).res[q].exists
      BY DEF Settle, Pending
    <3> QED
      BY <1>2, <2>1, <3>1, <3>2, <3>3
  <2>3. CASE ~CanSettle(db, {r})
    BY <1>1, <1>9, <2>1, <2>3 DEF Release, Released
  <2> QED
    BY <2>2, <2>3
<1>10. ASSUME NEW r \in Requests, Abandon(r) PROVE TablesInv'
  BY <1>1, <1>10 DEF Abandon, Become, ControlOK
<1>11. ASSUME NEW r \in Requests, Age(r) PROVE TablesInv'
  <2>1. db' = Aged(db, r) /\ TablesOK(db) /\ GlobalBalanced(db) /\ UNCHANGED pc
    BY <1>11 DEF Age, TablesInv
  <2>2. /\ TablesOK(Aged(db, r)) /\ GlobalBalanced(Aged(db, r))
        /\ \A q \in Requests : Aged(db, r).res[q].exists = db.res[q].exists
    BY <2>1, CommitSafe
  <2> QED
    BY <1>2, <2>1, <2>2
<1>12. ASSUME NEW s \in Sessions, CreateGuest(s) \/ Deactivate(s) \/ PromoteAborts(s) PROVE TablesInv'
  BY <1>1, <1>12 DEF CreateGuest, Deactivate, PromoteAborts
<1>13. ASSUME NEW s \in Sessions, NEW u \in Users, BeginPromote(s, u) PROVE TablesInv'
  BY <1>1, <1>13 DEF BeginPromote
<1>14. ASSUME NEW s \in Sessions, NEW g \in Sessions, Logout(s, g) PROVE TablesInv'
  BY <1>1, <1>14 DEF Logout
<1>15. ASSUME NEW s \in Sessions, NEW g \in Sessions, Promote(s, g) PROVE TablesInv'
  <2> DEFINE u == promo[s].user
             d == promo[s].date
             M == Moved(db, SentWith(s), u, d)
  <2>1. u \in Users /\ d \in Days
    BY <1>15 DEF Promote, ControlOK
  <2>2. M \in SUBSET Requests
    BY DEF Moved, SentWith
  <2>3. CanTransfer(db, M, d) /\ db' = Transfer(db, M, u, d) /\ UNCHANGED pc
    BY <1>15 DEF Promote
  <2>4. TablesOK(db) /\ GlobalBalanced(db)
    BY DEF TablesInv
  <2> HIDE DEF M, u, d
  <2>5. /\ TablesOK(Transfer(db, M, u, d)) /\ GlobalBalanced(Transfer(db, M, u, d))
        /\ \A q \in Requests : Transfer(db, M, u, d).res[q].exists = db.res[q].exists
    BY <2>1, <2>2, <2>3, <2>4, TransferSafe
  <2> QED
    BY <1>2, <2>3, <2>5
<1>16. ASSUME NEW s \in Sessions, NEW g \in Sessions, DeleteAccount(s, g) PROVE TablesInv'
  <2> DEFINE o == AccountOwner(sess[s].user)
  <2>1. o \in Owners /\ today \in Days
    BY <1>16 DEF DeleteAccount, ControlOK, AccountOwner, Owners
  <2>2. db' = ForgetAccount(db, o, today) /\ UNCHANGED pc
    BY <1>16 DEF DeleteAccount
  <2>3. TablesOK(db) /\ GlobalBalanced(db)
    BY DEF TablesInv
  <2> HIDE DEF o
  <2>4. /\ TablesOK(ForgetAccount(db, o, today)) /\ GlobalBalanced(ForgetAccount(db, o, today))
        /\ \A q \in Requests : ~db.res[q].exists => ~ForgetAccount(db, o, today).res[q].exists
    BY <2>1, <2>3, ForgetSafe
  <2> QED
    BY <1>2, <2>2, <2>4
<1>17. CASE NextDay
  BY <1>1, <1>17 DEF NextDay
<1>18. CASE StartupCleanup
  <2> DEFINE c == Cleanup(db, TerminalRows(db, today), IdleOwnerCounters(db, today),
                          IdleGlobalCounters(db, today))
  <2>1. db' = c /\ UNCHANGED pc /\ today \in Days /\ TablesOK(db) /\ GlobalBalanced(db)
    BY <1>18 DEF StartupCleanup, ControlOK, TablesInv
  <2>2. /\ TablesOK(c) /\ GlobalBalanced(c)
        /\ \A q \in Requests : ~db.res[q].exists => ~c.res[q].exists
    BY <2>1, CleanupSafe
  <2> QED
    BY <1>2, <2>1, <2>2
<1>19. CASE UNCHANGED vars
  BY <1>1, <1>19 DEF vars
<1> QED
  BY <1>3, <1>4, <1>5, <1>6, <1>7, <1>8, <1>9, <1>10, <1>11, <1>12, <1>13, <1>14, <1>15,
     <1>16, <1>17, <1>18, <1>19 DEF Next, GenerationStep, SessionStep

\* The inductive invariant holds in every behaviour.
THEOREM QuotaInvariant == Spec => []QuotaInv
<1>1. Init => QuotaInv
  BY InitSafe, QuotaInvSplit
<1>2. QuotaInv /\ [Next]_vars => QuotaInv'
  <2> SUFFICES ASSUME ControlOK, TablesInv, [Next]_vars PROVE QuotaInv'
    BY QuotaInvSplit
  <2>1. ControlOK' /\ TablesInv'
    BY ControlStep, TablesStep
  <2> QED
    BY <2>1 DEF QuotaInv, ControlOK, TablesInv, TypeOK, TablesOK
<1> QED
  BY <1>1, <1>2, PTL DEF Spec

\* Types: no counter of the three quota tables ever becomes negative, whatever
\* is released, recovered, transferred, deleted or cleaned up.
THEOREM TypeCorrect == Spec => []TypeOK
<1>1. QuotaInv => TypeOK
  BY DEF QuotaInv
<1> QED
  BY <1>1, QuotaInvariant, PTL

\* On every date the global reserved count is the number of stored reservations
\* whose provider call has not started, also when midnight passes inside an
\* open transaction.
THEOREM GlobalLedgerHolds == Spec => []GlobalLedger
<1>1. QuotaInv => GlobalLedger
  BY DEF QuotaInv, GlobalLedger
<1> QED
  BY <1>1, QuotaInvariant, PTL
-----------------------------------------------------------------------------
(* The current date's ledger: what each table operation does to the uses   *)
(* charged and the generations spent on a date that retention leaves alone. *)

\* The counters of date d are exactly the uses charged and the calls started.
DayBalanced(t, d) ==
    /\ \A o \in Owners : t.usage[d][o] = Cardinality(Charged(t, d, o))
    /\ t.gconsumed[d] = Cardinality(GlobalSpent(t, d))

Committed(t) == {r \in Requests : t.res[r].ostate = "committed"}

\* No row is created, moved to another date, committed or uncommitted: what
\* every operation but an admission and a commit does to the rows.
KeepsRows(t, u) ==
    /\ Committed(u) = Committed(t)
    /\ \A r \in Requests : /\ u.res[r].date = t.res[r].date
                           /\ t.res[r] = NoRow => u.res[r] = NoRow

\* The ledger of the current and of every later date, which a step at midnight
\* needs; that nothing is dated in the future; that a request not yet admitted
\* has no row, not even a deleted one; and that replies are charged.
LedgerInv ==
    /\ \A d \in Days : d >= today => DayBalanced(db, d)
    /\ \A r \in Requests : db.res[r].date <= today /\ txDate[r] <= today
    /\ \A s \in Sessions : promo[s].date <= today
    /\ \A r \in Requests : pc[r] \in {"idle", "begun"} => db.res[r] = NoRow
    /\ RepliesCharged

\* What is charged are sets of requests.
LEMMA LedgerSets ==
    ASSUME NEW t, NEW d, NEW o
    PROVE  Charged(t, d, o) \in SUBSET Requests /\ GlobalSpent(t, d) \in SUBSET Requests
  BY DEF Charged, GlobalSpent

\* Rows with the same date, owner and state are charged alike.
LEMMA SameCharged ==
    ASSUME NEW t, NEW u, NEW d,
           \A r \in Requests : /\ u.res[r].date = t.res[r].date
                               /\ u.res[r].owner = t.res[r].owner
                               /\ u.res[r].ostate = t.res[r].ostate
                               /\ u.res[r].gstate = t.res[r].gstate
    PROVE  /\ \A o : Charged(u, d, o) = Charged(t, d, o)
           /\ GlobalSpent(u, d) = GlobalSpent(t, d)
           /\ Committed(u) = Committed(t)
  BY DEF Charged, GlobalSpent, Committed

\* A released use leaves its owner's charge and its owner's counter together.
LEMMA SettleDay ==
    ASSUME NEW t, TablesOK(t), NEW R \in SUBSET Requests, NEW d \in Days, DayBalanced(t, d)
    PROVE  DayBalanced(Settle(t, R), d) /\ KeepsRows(t, Settle(t, R))
<1> DEFINE u == Settle(t, R)
<1>1. \A r \in Requests :
        /\ u.res[r].date = t.res[r].date
        /\ u.res[r].owner = t.res[r].owner
        /\ u.res[r].ostate = IF r \in R /\ t.res[r].exists THEN ReleasedIfReserved(t.res[r].ostate)
                             ELSE t.res[r].ostate
        /\ u.res[r].gstate = IF r \in R /\ t.res[r].exists THEN ReleasedIfReserved(t.res[r].gstate)
                             ELSE t.res[r].gstate
  BY DEF TablesOK, Tables, Row, Settle, SettledRow, Pending, ReleasedIfReserved
<1>2. ASSUME NEW o \in Owners
      PROVE  u.usage[d][o] = Cardinality(Charged(u, d, o))
  <2>1. Charged(u, d, o) = Charged(t, d, o) \ (Held(t, d, o) \cap R)
    BY <1>1 DEF Charged, Held, ReleasedIfReserved
  <2>2. Charged(t, d, o) \cap (Held(t, d, o) \cap R) = Held(t, d, o) \cap R
    BY DEF Charged, Held
  <2>3. Held(t, d, o) \cap R \in SUBSET Requests /\ Charged(t, d, o) \in SUBSET Requests
    BY LedgerSets
  <2>4. Cardinality(Charged(u, d, o))
          = Cardinality(Charged(t, d, o)) - Cardinality(Held(t, d, o) \cap R)
    BY <2>1, <2>2, <2>3, CountDifference
  <2> QED
    BY <2>4 DEF Settle, DayBalanced
<1>3. GlobalSpent(u, d) = GlobalSpent(t, d)
  BY <1>1 DEF GlobalSpent, ReleasedIfReserved
<1>4. Committed(u) = Committed(t)
  BY <1>1 DEF Committed, ReleasedIfReserved
<1>5. \A r \in Requests : t.res[r] = NoRow => u.res[r] = NoRow
  BY DEF Settle, Pending, NoRow
<1> QED
  BY <1>1, <1>2, <1>3, <1>4, <1>5 DEF DayBalanced, KeepsRows, Settle

\* Retention before date d touches no counter of date d or later, and the rows
\* it deletes stay charged.
LEMMA CleanupDay ==
    ASSUME NEW t, TablesOK(t), NEW d \in Days, NEW e \in Days, e >= d, DayBalanced(t, e),
           NEW rows \in SUBSET TerminalRows(t, d), NEW owners \in SUBSET IdleOwnerCounters(t, d),
           NEW days \in SUBSET IdleGlobalCounters(t, d)
    PROVE  /\ DayBalanced(Cleanup(t, rows, owners, days), e)
           /\ KeepsRows(t, Cleanup(t, rows, owners, days))
<1> DEFINE u == Cleanup(t, rows, owners, days)
<1>1. \A r \in Requests : /\ u.res[r].date = t.res[r].date
                          /\ u.res[r].owner = t.res[r].owner
                          /\ u.res[r].ostate = t.res[r].ostate
                          /\ u.res[r].gstate = t.res[r].gstate
  BY DEF TablesOK, Tables, Row, Cleanup, WithoutRows
<1>2. \A o \in Owners : <<e, o>> \notin owners
  BY DEF IdleOwnerCounters, Days
<1>3. e \notin days
  BY DEF IdleGlobalCounters, Days
<1>4. /\ \A o \in Owners : u.usage[e][o] = t.usage[e][o]
      /\ u.gconsumed[e] = t.gconsumed[e]
  BY <1>2, <1>3 DEF Cleanup
<1>5. \A r \in Requests : t.res[r] = NoRow => u.res[r] = NoRow
  BY DEF Cleanup, WithoutRows, TerminalRows, NoRow
<1> HIDE DEF u
<1>6. /\ \A o : Charged(u, e, o) = Charged(t, e, o)
      /\ GlobalSpent(u, e) = GlobalSpent(t, e)
      /\ Committed(u) = Committed(t)
  BY <1>1 DEF Charged, GlobalSpent, Committed
<1>7. DayBalanced(u, e)
  BY <1>4, <1>6 DEF DayBalanced
<1> QED
  BY <1>1, <1>5, <1>6, <1>7 DEF u, KeepsRows

\* An admission charges its owner's day once.
LEMMA AdmitDay ==
    ASSUME NEW t, TablesOK(t), NEW r \in Requests, t.res[r] = NoRow,
           NEW d \in Days, NEW o \in Owners, NEW e \in Days, DayBalanced(t, e)
    PROVE  DayBalanced(Admit(t, r, d, o), e)
<1> DEFINE u == Admit(t, r, d, o)
<1>1. u.res[r] = [exists |-> TRUE, date |-> d, owner |-> o, ostate |-> "reserved",
                  gstate |-> "reserved", fresh |-> TRUE]
  BY DEF TablesOK, Tables, Admit
<1>2. \A q \in Requests \ {r} : u.res[q] = t.res[q]
  BY DEF TablesOK, Tables, Admit
<1>3. ASSUME NEW p \in Owners
      PROVE  u.usage[e][p] = Cardinality(Charged(u, e, p))
  <2>1. CASE e = d /\ p = o
    <3>1. Charged(u, e, p) = Charged(t, e, p) \cup {r} /\ r \notin Charged(t, e, p)
      BY <1>1, <1>2, <2>1 DEF Charged, NoRow
    <3>2. Cardinality(Charged(u, e, p)) = Cardinality(Charged(t, e, p)) + 1
      BY <3>1, FiniteRequests, LedgerSets, FS_AddElement
    <3>3. u.usage[e][p] = t.usage[e][p] + 1
      BY <2>1 DEF TablesOK, Tables, Admit
    <3> QED
      BY <3>2, <3>3 DEF DayBalanced
  <2>2. CASE ~(e = d /\ p = o)
    <3>1. Charged(u, e, p) = Charged(t, e, p)
      BY <1>1, <1>2, <2>2 DEF Charged, NoRow
    <3>2. u.usage[e][p] = t.usage[e][p]
      BY <2>2 DEF TablesOK, Tables, Admit
    <3> QED
      BY <3>1, <3>2 DEF DayBalanced
  <2> QED
    BY <2>1, <2>2
<1>4. GlobalSpent(u, e) = GlobalSpent(t, e)
  BY <1>1, <1>2 DEF GlobalSpent, NoRow
<1> QED
  BY <1>3, <1>4 DEF DayBalanced, Admit

\* Starting the provider spends one generation of the row's date.
LEMMA StartDay ==
    ASSUME NEW t, TablesOK(t), NEW r \in Requests, t.res[r].exists, t.res[r].gstate = "reserved",
           NEW e \in Days, DayBalanced(t, e)
    PROVE  DayBalanced(Start(t, r), e) /\ KeepsRows(t, Start(t, r))
<1> DEFINE u == Start(t, r)
           d == t.res[r].date
<1>1. d \in Days
  BY DEF TablesOK
<1>2. /\ u.res = [t.res EXCEPT ![r] = [@ EXCEPT !.gstate = "consumed", !.fresh = TRUE]]
      /\ u.usage = t.usage
      /\ u.gconsumed = [t.gconsumed EXCEPT ![d] = @ + 1]
  BY DEF Start
<1>3. \A q \in Requests : /\ u.res[q].date = t.res[q].date
                          /\ u.res[q].owner = t.res[q].owner
                          /\ u.res[q].ostate = t.res[q].ostate
                          /\ u.res[q].gstate = IF q = r THEN "consumed" ELSE t.res[q].gstate
  BY <1>2 DEF TablesOK, Tables, Row
<1>4. /\ \A o \in Owners : Charged(u, e, o) = Charged(t, e, o)
      /\ Committed(u) = Committed(t)
  BY <1>3 DEF Charged, Committed
<1>5. u.gconsumed[e] = Cardinality(GlobalSpent(u, e))
  <2>1. CASE e = d
    <3>1. GlobalSpent(u, e) = GlobalSpent(t, e) \cup {r} /\ r \notin GlobalSpent(t, e)
      BY <1>3, <2>1 DEF GlobalSpent
    <3>2. Cardinality(GlobalSpent(u, e)) = Cardinality(GlobalSpent(t, e)) + 1
      BY <3>1, FiniteRequests, LedgerSets, FS_AddElement
    <3>3. u.gconsumed[e] = t.gconsumed[e] + 1
      BY <1>1, <1>2, <2>1 DEF TablesOK, Tables
    <3> QED
      BY <3>2, <3>3 DEF DayBalanced
  <2>2. CASE e # d
    <3>1. GlobalSpent(u, e) = GlobalSpent(t, e)
      BY <1>3, <2>2 DEF GlobalSpent
    <3>2. u.gconsumed[e] = t.gconsumed[e]
      BY <1>2, <2>2 DEF TablesOK, Tables
    <3> QED
      BY <3>1, <3>2 DEF DayBalanced
  <2> QED
    BY <2>1, <2>2
<1>6. \A q \in Requests : t.res[q] = NoRow => u.res[q] = NoRow
  BY <1>2 DEF NoRow, TablesOK, Tables
<1> HIDE DEF u
<1>7. DayBalanced(u, e)
  BY <1>2, <1>4, <1>5 DEF DayBalanced
<1> QED
  BY <1>3, <1>4, <1>6, <1>7 DEF u, KeepsRows

\* Committing a reserved use keeps it charged.
LEMMA CommitDay ==
    ASSUME NEW t, TablesOK(t), NEW r \in Requests, t.res[r].ostate = "reserved"
    PROVE  /\ \A e \in Days : DayBalanced(t, e) => DayBalanced(Commit(t, r), e)
           /\ Committed(Commit(t, r)) = Committed(t) \cup {r}
           /\ \A q \in Requests : /\ Commit(t, r).res[q].date = t.res[q].date
                                  /\ q # r => Commit(t, r).res[q] = t.res[q]
<1> DEFINE u == Commit(t, r)
<1>1. /\ u.res = [t.res EXCEPT ![r] = [@ EXCEPT !.ostate = "committed", !.fresh = TRUE]]
      /\ u.usage = t.usage
      /\ u.gconsumed = t.gconsumed
  BY DEF Commit, TablesOK, Tables
<1>2. \A q \in Requests : /\ u.res[q].date = t.res[q].date
                          /\ u.res[q].owner = t.res[q].owner
                          /\ u.res[q].gstate = t.res[q].gstate
                          /\ u.res[q].ostate = IF q = r THEN "committed" ELSE t.res[q].ostate
                          /\ q # r => u.res[q] = t.res[q]
  BY <1>1 DEF TablesOK, Tables, Row
<1> HIDE DEF u
<1>3. \A e \in Days : /\ \A o \in Owners : Charged(u, e, o) = Charged(t, e, o)
                      /\ GlobalSpent(u, e) = GlobalSpent(t, e)
  BY <1>2 DEF Charged, GlobalSpent
<1>4. Committed(u) = Committed(t) \cup {r}
  BY <1>2 DEF Committed
<1>5. \A e \in Days : DayBalanced(t, e) => DayBalanced(u, e)
  BY <1>1, <1>3 DEF DayBalanced
<1> QED
  BY <1>2, <1>4, <1>5 DEF u

\* The passing of time charges nobody.
LEMMA AgedDay ==
    ASSUME NEW t, TablesOK(t), NEW r \in Requests, t.res[r].exists
    PROVE  /\ \A e \in Days : DayBalanced(t, e) => DayBalanced(Aged(t, r), e)
           /\ KeepsRows(t, Aged(t, r))
<1> DEFINE u == Aged(t, r)
<1>1. /\ u.res = [t.res EXCEPT ![r] = [@ EXCEPT !.fresh = FALSE]]
      /\ u.usage = t.usage
      /\ u.gconsumed = t.gconsumed
  BY DEF Aged, TablesOK, Tables
<1>2. \A q \in Requests : /\ u.res[q].date = t.res[q].date
                          /\ u.res[q].owner = t.res[q].owner
                          /\ u.res[q].ostate = t.res[q].ostate
                          /\ u.res[q].gstate = t.res[q].gstate
  BY <1>1 DEF TablesOK, Tables, Row
<1> HIDE DEF u
<1>3. \A e \in Days : /\ \A o : Charged(u, e, o) = Charged(t, e, o)
                      /\ GlobalSpent(u, e) = GlobalSpent(t, e)
                      /\ Committed(u) = Committed(t)
  BY <1>2, SameCharged
<1>4. Committed(u) = Committed(t)
  BY <1>2 DEF Committed
<1>5. \A e \in Days : DayBalanced(t, e) => DayBalanced(u, e)
  BY <1>1, <1>3 DEF DayBalanced
<1>6. \A q \in Requests : t.res[q] = NoRow => u.res[q] = NoRow
  BY <1>1 DEF NoRow, TablesOK, Tables
<1> QED
  BY <1>2, <1>4, <1>5, <1>6 DEF u, KeepsRows

\* A promotion moves each use, and its unit on the counter, to the account.
LEMMA TransferDay ==
    ASSUME NEW t, TablesOK(t), NEW S \in SUBSET Requests, NEW a \in Users, NEW d \in Days,
           NEW M, M = Moved(t, S, a, d)
    PROVE  /\ \A e \in Days : DayBalanced(t, e) => DayBalanced(Transfer(t, M, a, d), e)
           /\ KeepsRows(t, Transfer(t, M, a, d))
<1> DEFINE u == Transfer(t, M, a, d)
           acc == AccountOwner(a)
           counts == [o \in Owners |->
                       IF o = acc THEN t.usage[d][o] + Cardinality(M)
                       ELSE t.usage[d][o] - Cardinality(MovedFrom(t, M, o))]
<1>1. acc \in Owners
  BY DEF AccountOwner, Owners
<1>2. M \in SUBSET Requests /\ \A r \in M : /\ t.res[r].date = d
                                            /\ t.res[r].ostate \in {"reserved", "committed"}
                                            /\ t.res[r].owner # acc
  BY DEF Moved
<1>0. \A r \in M : t.res[r] # NoRow
  BY DEF Moved, NoRow
<1>3. /\ u.usage = [t.usage EXCEPT ![d] = counts]
      /\ u.gconsumed = t.gconsumed
      /\ u.res = [r \in Requests |->
                    IF r \in M THEN [t.res[r] EXCEPT !.owner = acc, !.fresh = TRUE] ELSE t.res[r]]
  BY DEF Transfer, TablesOK, Tables
<1> HIDE DEF u, acc, counts
<1>4. \A q \in Requests : /\ u.res[q].date = t.res[q].date
                          /\ u.res[q].ostate = t.res[q].ostate
                          /\ u.res[q].gstate = t.res[q].gstate
                          /\ u.res[q].owner = IF q \in M THEN acc ELSE t.res[q].owner
  <2> TAKE q \in Requests
  <2>1. t.res[q] \in Row
    BY DEF TablesOK, Tables
  <2>2. CASE q \in M
    <3>1. u.res[q] = [t.res[q] EXCEPT !.owner = acc, !.fresh = TRUE]
      BY <1>3, <2>2
    <3> QED
      BY <2>1, <2>2, <3>1 DEF Row
  <2>3. CASE q \notin M
    BY <1>3, <2>3
  <2> QED
    BY <2>2, <2>3
<1>5. Committed(u) = Committed(t)
  BY <1>4 DEF Committed
<1>6. ASSUME NEW e \in Days, DayBalanced(t, e)
      PROVE  DayBalanced(u, e)
  <2>1. GlobalSpent(u, e) = GlobalSpent(t, e)
    BY <1>4 DEF GlobalSpent
  <2>2. CASE e # d
    <3>1. \A o \in Owners : Charged(u, e, o) = Charged(t, e, o)
      BY <1>2, <1>4, <2>2 DEF Charged
    <3>2. u.usage[e] = t.usage[e]
      BY <1>3, <2>2 DEF TablesOK, Tables
    <3> QED
      BY <1>3, <1>6, <2>1, <3>1, <3>2 DEF DayBalanced
  <2>3. CASE e = d
    <3>1. u.usage[e] = counts
      BY <1>3, <2>3 DEF TablesOK, Tables
    <3>2. counts[acc] = Cardinality(Charged(u, e, acc))
      <4>1. /\ Charged(u, e, acc) = Charged(t, e, acc) \cup M
            /\ Charged(t, e, acc) \cap M = {}
        BY <1>2, <1>4, <2>3 DEF Charged
      <4>2. IsFiniteSet(Charged(t, e, acc)) /\ IsFiniteSet(M)
        BY <1>2, FiniteRequests, LedgerSets
      <4>3. Cardinality(Charged(u, e, acc)) = Cardinality(Charged(t, e, acc)) + Cardinality(M)
        <5>1. Cardinality(Charged(t, e, acc) \cup M)
                = Cardinality(Charged(t, e, acc)) + Cardinality(M) - Cardinality(Charged(t, e, acc) \cap M)
          BY <4>2, FS_Union
        <5> QED
          BY <4>1, <4>2, <5>1, FS_EmptySet, FS_CardinalityType
      <4>4. counts[acc] = t.usage[e][acc] + Cardinality(M)
        BY <1>1, <2>3 DEF counts
      <4> QED
        BY <1>1, <1>6, <4>3, <4>4 DEF DayBalanced
    <3>3. ASSUME NEW o \in Owners, o # acc
          PROVE  counts[o] = Cardinality(Charged(u, e, o))
      <4>1. /\ Charged(u, e, o) = Charged(t, e, o) \ MovedFrom(t, M, o)
            /\ Charged(t, e, o) \cap MovedFrom(t, M, o) = MovedFrom(t, M, o)
        BY <1>2, <1>4, <2>3, <3>3 DEF Charged, MovedFrom
      <4>2. Charged(t, e, o) \in SUBSET Requests /\ MovedFrom(t, M, o) \in SUBSET Requests
        BY <1>2, LedgerSets DEF MovedFrom
      <4>3. Cardinality(Charged(u, e, o))
              = Cardinality(Charged(t, e, o)) - Cardinality(MovedFrom(t, M, o))
        <5>1. Cardinality(Charged(t, e, o) \ MovedFrom(t, M, o))
                = Cardinality(Charged(t, e, o))
                    - Cardinality(Charged(t, e, o) \cap MovedFrom(t, M, o))
          BY <4>2, CountDifference
        <5> QED
          BY <4>1, <5>1
      <4>4. counts[o] = t.usage[e][o] - Cardinality(MovedFrom(t, M, o))
        BY <2>3, <3>3 DEF counts
      <4> QED
        BY <1>6, <4>3, <4>4 DEF DayBalanced
    <3> QED
      BY <1>3, <1>6, <2>1, <3>1, <3>2, <3>3 DEF DayBalanced
  <2> QED
    BY <2>2, <2>3
<1>7. \A q \in Requests : t.res[q] = NoRow => u.res[q] = NoRow
  BY <1>0, <1>3
<1> QED
  BY <1>4, <1>5, <1>6, <1>7 DEF u, KeepsRows

\* Deleting an account today keeps what it used today; it has used nothing on a
\* later date.
LEMMA ForgetDay ==
    ASSUME NEW t, TablesOK(t), NEW o \in Owners, NEW d \in Days,
           \A r \in Requests : t.res[r].date <= d
    PROVE  /\ \A e \in Days : e >= d /\ DayBalanced(t, e) => DayBalanced(ForgetAccount(t, o, d), e)
           /\ KeepsRows(t, ForgetAccount(t, o, d))
<1> DEFINE u == ForgetAccount(t, o, d)
<1>1. \A q \in Requests : /\ u.res[q].date = t.res[q].date
                          /\ u.res[q].owner = t.res[q].owner
                          /\ u.res[q].ostate = t.res[q].ostate
                          /\ u.res[q].gstate = t.res[q].gstate
  BY DEF TablesOK, Tables, Row, ForgetAccount, WithoutRows
<1>2. \A e \in Days, p \in Owners : u.usage[e][p] = IF e # d /\ p = o THEN 0 ELSE t.usage[e][p]
  BY DEF ForgetAccount, TablesOK, Tables
<1>3. u.gconsumed = t.gconsumed
  BY DEF ForgetAccount
<1>6. \A q \in Requests : t.res[q] = NoRow => u.res[q] = NoRow
  BY DEF ForgetAccount, WithoutRows, Owned, NoRow
<1> HIDE DEF u
<1>4. Committed(u) = Committed(t)
  BY <1>1 DEF Committed
<1>5. ASSUME NEW e \in Days, e >= d, DayBalanced(t, e)
      PROVE  DayBalanced(u, e)
  <2>1. /\ \A p : Charged(u, e, p) = Charged(t, e, p)
        /\ GlobalSpent(u, e) = GlobalSpent(t, e)
    BY <1>1, SameCharged
  <2>2. CASE e = d
    BY <1>2, <1>3, <1>5, <2>1, <2>2 DEF DayBalanced
  <2>3. CASE e # d
    <3>1. \A r \in Requests : t.res[r].date # e
      BY <1>5, <2>3 DEF TablesOK, Tables, Row, Days
    <3>2. \A p \in Owners : Charged(t, e, p) = {}
      BY <3>1 DEF Charged
    <3>3. \A p \in Owners : t.usage[e][p] = 0
      BY <1>5, <3>2, FS_EmptySet DEF DayBalanced
    <3> QED
      BY <1>2, <1>3, <1>5, <2>1, <3>2, <3>3, FS_EmptySet DEF DayBalanced
  <2> QED
    BY <2>2, <2>3
<1> QED
  BY <1>1, <1>4, <1>5, <1>6 DEF u, KeepsRows

\* The ledger balances initially.
LEMMA LedgerInit == Init => LedgerInv
<1> SUFFICES ASSUME Init PROVE LedgerInv
  OBVIOUS
<1>1. 1 \in Days /\ \A d \in Days : d >= 1
  BY QuotaAssumption DEF QuotaAssumption, Days
<1>2. \A r \in Requests : db.res[r] = NoRow
  BY DEF Init, EmptyTables
<1>3. /\ \A d \in Days, o \in Owners : Charged(db, d, o) = {}
      /\ \A d \in Days : GlobalSpent(db, d) = {}
  BY <1>2 DEF Charged, GlobalSpent, NoRow
<1>4. \A d \in Days : DayBalanced(db, d)
  BY <1>3, FS_EmptySet DEF DayBalanced, Init, EmptyTables
<1>5. RepliesCharged
  BY <1>2 DEF RepliesCharged, Init, NoRow
<1>6. \A r \in Requests : db.res[r].date <= today /\ txDate[r] <= today
  BY <1>2 DEF Init, NoRow
<1>7. \A s \in Sessions : promo[s].date <= today
  BY DEF Init, NoPromotion
<1> QED
  BY <1>2, <1>4, <1>5, <1>6, <1>7 DEF LedgerInv

\* A recovery pass and a retention pass of an open admission, which may have
\* begun before midnight, then the admission itself.
LEMMA ReserveLedger ==
    ASSUME ControlOK, TablesInv, LedgerInv, NEW r \in Requests, Reserve(r)
    PROVE  LedgerInv'
<1> DEFINE d == txDate[r]
           o == QuotaOwner(reqSession[r], d)
<1>1. /\ pc[r] = "begun" /\ d \in Days /\ d <= today /\ db.res[r] = NoRow
      /\ today \in Days /\ o \in Owners
  BY QuotaOwnerType DEF Reserve, ControlOK, LedgerInv
<1>2. PICK stale \in SUBSET Stale(db) :
        /\ CanSettle(db, stale)
        /\ LET t == Settle(db, stale)
           IN  \E rows \in Batches(TerminalRows(t, d)),
                  owners \in Batches(IdleOwnerCounters(t, d)),
                  days \in Batches(IdleGlobalCounters(t, d)) :
                 db' = Admit(Cleanup(t, rows, owners, days), r, d, o)
  BY DEF Reserve
<1> DEFINE t == Settle(db, stale)
<1>3. PICK rows \in Batches(TerminalRows(t, d)), owners \in Batches(IdleOwnerCounters(t, d)),
           days \in Batches(IdleGlobalCounters(t, d)) :
        db' = Admit(Cleanup(t, rows, owners, days), r, d, o)
  BY <1>2
<1> DEFINE c == Cleanup(t, rows, owners, days)
<1>4. stale \in SUBSET Requests
  BY DEF Stale
<1>5. TablesOK(t) /\ GlobalBalanced(t)
  BY <1>2, <1>4, SettleSafe DEF TablesInv
<1>6. /\ rows \in SUBSET TerminalRows(t, d)
      /\ owners \in SUBSET IdleOwnerCounters(t, d)
      /\ days \in SUBSET IdleGlobalCounters(t, d)
  BY DEF Batches
<1>7. /\ \A e \in Days : e >= today => DayBalanced(t, e)
      /\ KeepsRows(db, t)
  BY <1>1, <1>4, SettleDay DEF LedgerInv, TablesInv, Days
<1> HIDE DEF t
<1>8. TablesOK(c)
  BY <1>1, <1>5, <1>6, CleanupSafe
<1>9. /\ \A e \in Days : e >= today => DayBalanced(c, e)
      /\ KeepsRows(t, c)
  <2>1. ASSUME NEW e \in Days, e >= today PROVE DayBalanced(c, e) /\ KeepsRows(t, c)
    <3>1. e >= d
      BY <1>1, <2>1 DEF Days
    <3> QED
      BY <1>1, <1>5, <1>6, <1>7, <2>1, <3>1, CleanupDay
  <2>2. today >= today
    BY <1>1 DEF Days
  <2> QED
    BY <1>1, <2>1, <2>2
<1> HIDE DEF c
<1>10. c.res[r] = NoRow /\ Committed(c) = Committed(db)
       /\ \A q \in Requests : c.res[q].date = db.res[q].date
  BY <1>1, <1>7, <1>9 DEF KeepsRows
<1>11. db' = Admit(c, r, d, o)
  BY <1>3 DEF c
<1>12. \A e \in Days : e >= today => DayBalanced(db', e)
  BY <1>1, <1>8, <1>9, <1>10, <1>11, AdmitDay
<1>13. /\ db'.res[r].date = d /\ db'.res[r].ostate = "reserved"
       /\ \A q \in Requests \ {r} : db'.res[q] = c.res[q]
  BY <1>8, <1>11 DEF Admit, TablesOK, Tables
<1>14. {q \in Requests : db'.res[q].ostate = "committed"} = Committed(c)
  BY <1>10, <1>13 DEF Committed, NoRow
<1>15. \A q \in Requests : db'.res[q].date <= today
  BY <1>1, <1>10, <1>13 DEF LedgerInv
<1>16. \A q \in Requests : pc'[q] \in {"idle", "begun"} => q # r /\ pc[q] \in {"idle", "begun"}
  BY DEF Reserve, Become, ControlOK
<1>17. \A q \in Requests : pc'[q] \in {"idle", "begun"} => db'.res[q] = NoRow
  BY <1>7, <1>9, <1>13, <1>16 DEF KeepsRows, LedgerInv
<1>18. UNCHANGED <<today, txDate, promo, appended>>
  BY DEF Reserve
<1>19. RepliesCharged'
  BY <1>10, <1>14, <1>18 DEF RepliesCharged, LedgerInv, Committed
<1> QED
  BY <1>12, <1>15, <1>17, <1>18, <1>19 DEF LedgerInv

\* Every step keeps the ledger balanced.
LEMMA LedgerStep == ControlOK /\ TablesInv /\ LedgerInv /\ [Next]_vars => LedgerInv'
<1> SUFFICES ASSUME ControlOK, TablesInv, LedgerInv, [Next]_vars PROVE LedgerInv'
  OBVIOUS
<1>0. today \in Days /\ today >= today /\ TablesOK(db) /\ GlobalBalanced(db)
  BY DEF ControlOK, TablesInv, Days
\* A step that changes no table, no reply and no date.
<1>1. ASSUME UNCHANGED <<today, promo, db, appended>>,
             \A r \in Requests : txDate'[r] <= today,
             \A r \in Requests : pc'[r] \in {"idle", "begun"} => pc[r] \in {"idle", "begun"}
      PROVE  LedgerInv'
  BY <1>1 DEF LedgerInv, RepliesCharged, DayBalanced, Charged, GlobalSpent
\* A step that changes the tables as one of the lemmas above allows.
<1>2. ASSUME NEW t, db' = t, \A e \in Days : e >= today => DayBalanced(t, e), KeepsRows(db, t),
             UNCHANGED <<today, txDate, appended>>, \A s \in Sessions : promo'[s].date <= today,
             \A q \in Requests : pc'[q] \in {"idle", "begun"} => pc[q] \in {"idle", "begun"}
      PROVE  LedgerInv'
  <2>1. RepliesCharged'
    BY <1>2 DEF LedgerInv, RepliesCharged, KeepsRows, Committed
  <2> QED
    BY <1>2, <2>1 DEF LedgerInv, KeepsRows
<1>3. ASSUME NEW r \in Requests, NEW s \in Sessions, BeginReserve(r, s) PROVE LedgerInv'
  <2>1. \A q \in Requests : txDate'[q] <= today
    BY <1>0, <1>3 DEF BeginReserve, ControlOK, LedgerInv
  <2> QED
    BY <1>1, <1>3, <2>1 DEF BeginReserve, Become, ControlOK
<1>4. ASSUME NEW r \in Requests, Reserve(r) PROVE LedgerInv'
  BY <1>4, ReserveLedger
<1>5. ASSUME NEW r \in Requests, ReserveRefused(r) \/ GenerationFails(r) \/ Abandon(r)
      PROVE  LedgerInv'
  BY <1>1, <1>5 DEF ReserveRefused, GenerationFails, Abandon, Become, ControlOK, LedgerInv
<1>6. ASSUME NEW r \in Requests, MarkProviderStarted(r) PROVE LedgerInv'
  <2>1. /\ db.res[r].exists /\ db.res[r].gstate = "reserved" /\ db' = Start(db, r)
        /\ UNCHANGED <<today, txDate, appended, promo>>
    BY <1>6 DEF MarkProviderStarted
  <2>2. \A q \in Requests : pc'[q] \in {"idle", "begun"} => pc[q] \in {"idle", "begun"}
    BY <1>6 DEF MarkProviderStarted, Become, ControlOK
  <2>3. \A e \in Days : e >= today => DayBalanced(Start(db, r), e) /\ KeepsRows(db, Start(db, r))
    BY <1>0, <2>1, StartDay DEF LedgerInv
  <2> QED
    BY <1>0, <1>2, <2>1, <2>2, <2>3 DEF LedgerInv
<1>7. ASSUME NEW r \in Requests, AppendReply(r) PROVE LedgerInv'
  <2>1. /\ db.res[r].ostate = "reserved" /\ db' = Commit(db, r) /\ appended' = appended \cup {r}
        /\ UNCHANGED <<today, txDate, promo>>
    BY <1>7 DEF AppendReply
  <2>2. \A q \in Requests : pc'[q] \in {"idle", "begun"} => q # r /\ pc[q] \in {"idle", "begun"}
    BY <1>7 DEF AppendReply, Become, ControlOK
  <2>3. /\ \A e \in Days : DayBalanced(db, e) => DayBalanced(Commit(db, r), e)
        /\ Committed(Commit(db, r)) = Committed(db) \cup {r}
        /\ \A q \in Requests : /\ Commit(db, r).res[q].date = db.res[q].date
                               /\ q # r => Commit(db, r).res[q] = db.res[q]
    BY <1>0, <2>1, CommitDay
  <2>4. RepliesCharged'
    BY <2>1, <2>3 DEF LedgerInv, RepliesCharged, Committed
  <2> QED
    BY <2>1, <2>2, <2>3, <2>4 DEF LedgerInv
<1>8. ASSUME NEW r \in Requests, Release(r) PROVE LedgerInv'
  <2>1. \A q \in Requests : pc'[q] \in {"idle", "begun"} => pc[q] \in {"idle", "begun"}
    BY <1>8 DEF Release, Become, ControlOK
  <2>2. UNCHANGED <<today, txDate, appended, promo>>
    BY <1>8 DEF Release
  <2>3. CASE CanSettle(db, {r})
    <3>1. db' = Settle(db, {r})
      BY <1>8, <2>3 DEF Release, Released
    <3>2. \A e \in Days : e >= today => DayBalanced(Settle(db, {r}), e)
                                        /\ KeepsRows(db, Settle(db, {r}))
      BY <1>0, SettleDay DEF LedgerInv
    <3> QED
      BY <1>0, <1>2, <2>1, <2>2, <3>1, <3>2 DEF LedgerInv
  <2>4. CASE ~CanSettle(db, {r})
    <3>1. db' = db
      BY <1>8, <2>4 DEF Release, Released
    <3> QED
      BY <1>1, <2>1, <2>2, <3>1 DEF LedgerInv
  <2> QED
    BY <2>3, <2>4
<1>9. ASSUME NEW r \in Requests, Age(r) PROVE LedgerInv'
  <2>1. /\ db.res[r].exists /\ db' = Aged(db, r)
        /\ UNCHANGED <<today, txDate, appended, promo, pc>>
    BY <1>9 DEF Age, Pending
  <2>2. /\ \A e \in Days : DayBalanced(db, e) => DayBalanced(Aged(db, r), e)
        /\ KeepsRows(db, Aged(db, r))
    BY <1>0, <2>1, AgedDay
  <2> QED
    BY <1>2, <2>1, <2>2 DEF LedgerInv
<1>10. ASSUME NEW s \in Sessions, CreateGuest(s) \/ Deactivate(s) PROVE LedgerInv'
  BY <1>1, <1>10 DEF CreateGuest, Deactivate, LedgerInv
<1>11. ASSUME NEW s \in Sessions, PromoteAborts(s) \/ \E u \in Users : BeginPromote(s, u)
       PROVE  LedgerInv'
  <2>1. \A x \in Sessions : promo'[x].date <= today
    BY <1>0, <1>11 DEF PromoteAborts, BeginPromote, NoPromotion, LedgerInv, ControlOK, Days
  <2>2. UNCHANGED <<today, db, appended, txDate, pc>>
    BY <1>11 DEF PromoteAborts, BeginPromote
  <2> QED
    BY <2>1, <2>2 DEF LedgerInv, RepliesCharged, DayBalanced, Charged, GlobalSpent
<1>12. ASSUME NEW s \in Sessions, NEW g \in Sessions, Logout(s, g) PROVE LedgerInv'
  BY <1>1, <1>12 DEF Logout, LedgerInv
<1>13. ASSUME NEW s \in Sessions, NEW g \in Sessions, Promote(s, g) PROVE LedgerInv'
  <2> DEFINE u == promo[s].user
             d == promo[s].date
             M == Moved(db, SentWith(s), u, d)
  <2>1. u \in Users /\ d \in Days
    BY <1>13 DEF Promote, ControlOK
  <2>2. SentWith(s) \in SUBSET Requests
    BY DEF SentWith
  <2>3. db' = Transfer(db, M, u, d) /\ UNCHANGED <<today, txDate, appended, pc>>
    BY <1>13 DEF Promote
  <2>4. \A x \in Sessions : promo'[x].date <= today
    BY <1>0, <1>13 DEF Promote, NoPromotion, LedgerInv, ControlOK, Days
  <2> HIDE DEF u, d
  <2>5. /\ \A e \in Days : DayBalanced(db, e) => DayBalanced(Transfer(db, M, u, d), e)
        /\ KeepsRows(db, Transfer(db, M, u, d))
    BY <1>0, <2>1, <2>2, TransferDay
  <2> QED
    BY <1>2, <2>3, <2>4, <2>5 DEF LedgerInv
<1>14. ASSUME NEW s \in Sessions, NEW g \in Sessions, DeleteAccount(s, g) PROVE LedgerInv'
  <2> DEFINE o == AccountOwner(sess[s].user)
  <2>1. o \in Owners
    BY <1>14 DEF DeleteAccount, ControlOK, AccountOwner, Owners
  <2>2. db' = ForgetAccount(db, o, today) /\ UNCHANGED <<today, txDate, appended, promo, pc>>
    BY <1>14 DEF DeleteAccount
  <2> HIDE DEF o
  <2>3. /\ \A e \in Days : e >= today /\ DayBalanced(db, e)
                             => DayBalanced(ForgetAccount(db, o, today), e)
        /\ KeepsRows(db, ForgetAccount(db, o, today))
    BY <1>0, <2>1, ForgetDay DEF LedgerInv
  <2> QED
    BY <1>2, <2>2, <2>3 DEF LedgerInv
<1>15. CASE NextDay
  <2>1. today' = today + 1 /\ UNCHANGED <<promo, db, pc, txDate, appended>>
    BY <1>15 DEF NextDay
  <2>2. /\ \A d \in Days : d >= today + 1 => d >= today
        /\ \A r \in Requests : db.res[r].date \in 0..MaxDay /\ txDate[r] \in Days
        /\ \A s \in Sessions : promo[s].date \in Days
    BY <1>0 DEF Days, TablesOK, Tables, Row, ControlOK
  <2>3. /\ \A r \in Requests : db.res[r].date <= today + 1 /\ txDate[r] <= today + 1
        /\ \A s \in Sessions : promo[s].date <= today + 1
    BY <1>0, <2>2 DEF LedgerInv, Days
  <2> QED
    BY <2>1, <2>2, <2>3 DEF LedgerInv, RepliesCharged, DayBalanced, Charged, GlobalSpent
<1>16. CASE StartupCleanup
  <2> DEFINE c == Cleanup(db, TerminalRows(db, today), IdleOwnerCounters(db, today),
                          IdleGlobalCounters(db, today))
  <2>1. db' = c /\ UNCHANGED <<today, promo, pc, txDate, appended>>
    BY <1>16 DEF StartupCleanup
  <2>2. \A e \in Days : e >= today => DayBalanced(c, e) /\ KeepsRows(db, c)
    BY <1>0, CleanupDay DEF LedgerInv
  <2> HIDE DEF c
  <2> QED
    BY <1>0, <1>2, <2>1, <2>2 DEF LedgerInv
<1>17. CASE UNCHANGED vars
  BY <1>1, <1>17 DEF vars, LedgerInv
<1> QED
  BY <1>3, <1>4, <1>5, <1>6, <1>7, <1>8, <1>9, <1>10, <1>11, <1>12, <1>13, <1>14, <1>15,
     <1>16, <1>17 DEF Next, GenerationStep, SessionStep

\* The ledger of the current date and of every later one, in every behaviour.
LEMMA LedgerInvariant == Spec => []LedgerInv
<1>1. Init => ControlOK /\ TablesInv /\ LedgerInv
  BY InitSafe, LedgerInit
<1>2. ControlOK /\ TablesInv /\ LedgerInv /\ [Next]_vars => (ControlOK /\ TablesInv /\ LedgerInv)'
  BY ControlStep, TablesStep, LedgerStep
<1> QED
  BY <1>1, <1>2, PTL DEF Spec

\* Today's counters charge exactly the replies reserved or committed today,
\* whoever holds them now and whatever deleted their rows: promotion, logout
\* carry-over, account deletion, signing up again, stale recovery, retention and
\* admissions that straddle midnight neither refund nor double-charge.
THEOREM TodayLedgerHolds == Spec => []TodayLedger
<1>1. ControlOK /\ LedgerInv => TodayLedger
  BY DEF ControlOK, LedgerInv, TodayLedger, DayBalanced, Days
<1>2. QuotaInv => ControlOK
  BY QuotaInvSplit
<1> QED
  BY <1>1, <1>2, QuotaInvariant, LedgerInvariant, PTL

\* A reply is stored if and only if its owner was charged for it.
THEOREM RepliesChargedHolds == Spec => []RepliesCharged
<1>1. LedgerInv => RepliesCharged
  BY DEF LedgerInv
<1> QED
  BY <1>1, LedgerInvariant, PTL

-----------------------------------------------------------------------------
(* The rate limiter. *)

\* The keys requests are counted for: what CountedForItsAddress allows.
LimiterKeys ==
    Families \X (SessionIds \cup {Global} \cup Trusted \cup {c.address : c \in Clients})

\* The records of one key, and the parts of a set of records before and in a window.
RecordsOf(S, k) == {a \in S : a.key = k}
Early(A, start) == {a \in A : a.at < start}
Late(A, start) == {a \in A : a.at >= start}

\* A key with a window: what came before it still fits the limit, what came in it has
\* been counted, to the unit as long as the window lasts, and nothing came after it.
OpenRow(A, start, count, n, max) ==
    /\ start \in Nat /\ start <= n
    /\ count \in Nat /\ count <= max
    /\ \A a \in A : a.at < start + Window
    /\ Cardinality(Early(A, start)) <= max
    /\ Cardinality(Late(A, start)) <= count
    /\ n - start < Window => Cardinality(Late(A, start)) = count

\* A key without a window: nothing is as new as now, and what there is fits the limit.
ClosedRow(A, n, max) == (\A a \in A : a.at < n) /\ Cardinality(A) <= max

RowOK(A, b, k, n) ==
    IF k \in DOMAIN b THEN OpenRow(A, b[k].start, b[k].count, n, MaxRequests(k))
                      ELSE ClosedRow(A, n, MaxRequests(k))

RecordOK(a, n) ==
    /\ a.key \in LimiterKeys
    /\ a.at \in Nat /\ n - Window < a.at /\ a.at <= n
    /\ a.nth \in Nat

\* The inductive invariant: well-formed records, each told apart from the next one of
\* its key and tick; a row for each key; a reason for the last refusal.
LimiterInv ==
    /\ now \in Nat
    /\ DOMAIN buckets \subseteq LimiterKeys
    /\ IsFiniteSet(accepted)
    /\ \A a \in accepted : RecordOK(a, now)
    /\ \A a \in accepted : a.at = now => a.nth < AcceptedSince(a.key, now)
    /\ \A k \in LimiterKeys : RowOK(RecordsOf(accepted, k), buckets, k, now)
    /\ refusal \subseteq LimiterKeys
    /\ refusal # {} => \E k \in refusal : AcceptedSince(k, now - Window + 1) >= MaxRequests(k)

\* Every key has a positive limit.
LEMMA KeyLimit ==
    ASSUME NEW k \in LimiterKeys
    PROVE  MaxRequests(k) \in Nat /\ MaxRequests(k) > 0
<1>1. k[1] \in Families
  BY DEF LimiterKeys
<1> QED
  BY <1>1, RateLimiterAssumption DEF RateLimiterAssumption, MaxRequests

\* The parts of a finite set of records are finite, and no larger.
LEMMA RecordSets ==
    ASSUME NEW A, IsFiniteSet(A), NEW start
    PROVE  /\ IsFiniteSet(Early(A, start)) /\ IsFiniteSet(Late(A, start))
           /\ Cardinality(A) \in Nat
           /\ Cardinality(Early(A, start)) \in Nat /\ Cardinality(Early(A, start)) <= Cardinality(A)
           /\ Cardinality(Late(A, start)) \in Nat /\ Cardinality(Late(A, start)) <= Cardinality(A)
<1>1. Early(A, start) \in SUBSET A /\ Late(A, start) \in SUBSET A
  BY DEF Early, Late
<1> QED
  BY <1>1, FS_Subset, FS_CardinalityType

\* A window that is over leaves its key as if it had none.
LEMMA RowExpires ==
    ASSUME NEW A, IsFiniteSet(A), NEW start, NEW count, NEW n \in Nat, NEW max \in Nat,
           OpenRow(A, start, count, n, max), n - start >= Window,
           \A a \in A : a.at \in Nat /\ n - Window < a.at
    PROVE  ClosedRow(A, n, max)
<1>1. Window \in Nat
  BY RateLimiterAssumption DEF RateLimiterAssumption
<1>2. start \in Nat /\ count \in Nat /\ count <= max
  BY DEF OpenRow
<1>3. Late(A, start) = A
  BY <1>1, <1>2 DEF Late
<1>4. Cardinality(A) <= count
  BY <1>3 DEF OpenRow
<1>5. Cardinality(A) \in Nat
  BY RecordSets
<1>6. Cardinality(A) <= max
  BY <1>2, <1>4, <1>5
<1>7. \A a \in A : a.at < n
  BY <1>1, <1>2 DEF OpenRow
<1> QED
  BY <1>6, <1>7 DEF ClosedRow

\* A key without a window can be given an empty one.
LEMMA RowOpens ==
    ASSUME NEW A, IsFiniteSet(A), NEW n \in Nat, NEW max \in Nat, ClosedRow(A, n, max),
           \A a \in A : a.at \in Nat
    PROVE  OpenRow(A, n, 0, n, max)
<1>1. Window \in Nat
  BY RateLimiterAssumption DEF RateLimiterAssumption
<1>2. Early(A, n) = A
  BY DEF Early, ClosedRow
<1>3. Late(A, n) = {}
  BY DEF Late, ClosedRow
<1>4. Cardinality(Late(A, n)) = 0
  BY <1>3, FS_EmptySet
<1>5. Cardinality(Early(A, n)) <= max
  BY <1>2 DEF ClosedRow
<1>6. \A a \in A : a.at < n + Window
  BY <1>1 DEF ClosedRow
<1> QED
  BY <1>4, <1>5, <1>6 DEF OpenRow

\* A request of this tick is counted in the window that is open.
LEMMA RowCounts ==
    ASSUME NEW A, IsFiniteSet(A), NEW start, NEW count, NEW n \in Nat, NEW max \in Nat,
           OpenRow(A, start, count, n, max), n - start < Window, count < max,
           NEW r, r \notin A, r.at = n
    PROVE  OpenRow(A \cup {r}, start, count + 1, n, max)
<1>1. Window \in Nat
  BY RateLimiterAssumption DEF RateLimiterAssumption
<1>2. start \in Nat /\ start <= n /\ count \in Nat
  BY DEF OpenRow
<1>3. Early(A \cup {r}, start) = Early(A, start)
  BY <1>2 DEF Early
<1>4. Late(A \cup {r}, start) = Late(A, start) \cup {r}
  BY <1>2 DEF Late
<1>5. r \notin Late(A, start) /\ IsFiniteSet(Late(A, start))
  BY RecordSets DEF Late
<1>6. Cardinality(Late(A, start) \cup {r}) = Cardinality(Late(A, start)) + 1
  BY <1>5, FS_AddElement
<1>7. Cardinality(Late(A, start)) = count
  BY DEF OpenRow
<1>8. \A a \in A \cup {r} : a.at < start + Window
  BY <1>1, <1>2 DEF OpenRow
<1>9. Cardinality(Early(A \cup {r}, start)) <= max
  BY <1>3 DEF OpenRow
<1>10. Cardinality(Late(A \cup {r}, start)) = count + 1
  BY <1>4, <1>6, <1>7
<1> QED
  BY <1>2, <1>8, <1>9, <1>10 DEF OpenRow

\* Taking away the same records does not let a count grow.
LEMMA FewerRecords ==
    ASSUME NEW A, IsFiniteSet(A), NEW B \in SUBSET A
    PROVE  IsFiniteSet(B) /\ Cardinality(B) \in Nat /\ Cardinality(B) <= Cardinality(A)
           /\ Cardinality(A) \in Nat
  BY FS_Subset, FS_CardinalityType

\* A tick drops no record of a window that lasts.
LEMMA RowAges ==
    ASSUME NEW A, IsFiniteSet(A), NEW start, NEW count, NEW n \in Nat, NEW max \in Nat,
           OpenRow(A, start, count, n, max), \A a \in A : a.at \in Nat
    PROVE  OpenRow({a \in A : a.at > n + 1 - Window}, start, count, n + 1, max)
<1> DEFINE B == {a \in A : a.at > n + 1 - Window}
<1>1. Window \in Nat
  BY RateLimiterAssumption DEF RateLimiterAssumption
<1>2. start \in Nat /\ start <= n /\ count \in Nat /\ count <= max
  BY DEF OpenRow
<1>3. Early(B, start) \in SUBSET Early(A, start) /\ Late(B, start) \in SUBSET Late(A, start)
  BY DEF Early, Late
<1>4. IsFiniteSet(Early(A, start)) /\ IsFiniteSet(Late(A, start))
  BY RecordSets
<1>5. /\ Cardinality(Early(B, start)) \in Nat /\ Cardinality(Early(A, start)) \in Nat
      /\ Cardinality(Early(B, start)) <= Cardinality(Early(A, start))
  BY <1>3, <1>4, FewerRecords
<1>6. /\ Cardinality(Late(B, start)) \in Nat /\ Cardinality(Late(A, start)) \in Nat
      /\ Cardinality(Late(B, start)) <= Cardinality(Late(A, start))
  BY <1>3, <1>4, FewerRecords
<1>7. Cardinality(Early(A, start)) <= max /\ Cardinality(Late(A, start)) <= count
  BY DEF OpenRow
<1>8. Cardinality(Early(B, start)) <= max /\ Cardinality(Late(B, start)) <= count
  BY <1>2, <1>5, <1>6, <1>7
<1>9. ASSUME n + 1 - start < Window PROVE Cardinality(Late(B, start)) = count
  <2>1. Late(B, start) = Late(A, start)
    BY <1>1, <1>2, <1>9 DEF Late
  <2>2. n - start < Window
    BY <1>1, <1>2, <1>9
  <2> QED
    BY <2>1, <2>2 DEF OpenRow
<1>10. \A a \in B : a.at < start + Window
  BY DEF OpenRow
<1>11. start <= n + 1
  BY <1>2
<1> HIDE DEF B
<1>12. OpenRow(B, start, count, n + 1, max)
  BY <1>2, <1>8, <1>9, <1>10, <1>11 DEF OpenRow
<1> QED
  BY <1>12 DEF B

\* A tick drops records, if anything, of a key without a window.
LEMMA ClosedRowAges ==
    ASSUME NEW A, IsFiniteSet(A), NEW n \in Nat, NEW max \in Nat,
           ClosedRow(A, n, max), \A a \in A : a.at \in Nat
    PROVE  ClosedRow({a \in A : a.at > n + 1 - Window}, n + 1, max)
<1> DEFINE B == {a \in A : a.at > n + 1 - Window}
<1>1. B \in SUBSET A
  OBVIOUS
<1>2. Cardinality(B) \in Nat /\ Cardinality(A) \in Nat /\ Cardinality(B) <= Cardinality(A)
  BY <1>1, FewerRecords
<1>3. \A a \in B : a.at < n + 1
  BY DEF ClosedRow
<1>4. Cardinality(B) <= max
  BY <1>2 DEF ClosedRow
<1> QED
  BY <1>3, <1>4 DEF ClosedRow

\* What the invariant says of the records of one key.
LEMMA KeyRecords ==
    ASSUME LimiterInv, NEW k
    PROVE  /\ IsFiniteSet(RecordsOf(accepted, k))
           /\ \A a \in RecordsOf(accepted, k) : a.at \in Nat /\ now - Window < a.at /\ a.at <= now
           /\ now \in Nat
<1>1. RecordsOf(accepted, k) \in SUBSET accepted
  BY DEF RecordsOf
<1>2. IsFiniteSet(RecordsOf(accepted, k))
  BY <1>1, FS_Subset DEF LimiterInv
<1> QED
  BY <1>2 DEF LimiterInv, RecordOK, RecordsOf

\* check_many looks at each key as if it had a window that is not over.
LEMMA WindowRow ==
    ASSUME LimiterInv, NEW k \in LimiterKeys
    PROVE  /\ OpenRow(RecordsOf(accepted, k), StartOf(k), CountOf(k), now, MaxRequests(k))
           /\ now - StartOf(k) < Window
           /\ k \notin Retained => ClosedRow(RecordsOf(accepted, k), now, MaxRequests(k))
<1> DEFINE A == RecordsOf(accepted, k)
<1>1. Window \in Nat /\ Window > 0
  BY RateLimiterAssumption DEF RateLimiterAssumption
<1>2. MaxRequests(k) \in Nat
  BY KeyLimit
<1>3. IsFiniteSet(A) /\ now \in Nat /\ \A a \in A : a.at \in Nat /\ now - Window < a.at
  BY KeyRecords
<1>4. RowOK(A, buckets, k, now)
  BY DEF LimiterInv
<1>5. CASE k \in Retained
  <2>1. k \in DOMAIN buckets /\ now - buckets[k].start < Window
    BY <1>5 DEF Retained
  <2>2. StartOf(k) = buckets[k].start /\ CountOf(k) = buckets[k].count
    BY <1>5 DEF StartOf, CountOf
  <2> QED
    BY <1>4, <1>5, <2>1, <2>2 DEF RowOK
<1>6. CASE k \notin Retained
  <2>1. ClosedRow(A, now, MaxRequests(k))
    <3>1. CASE k \in DOMAIN buckets
      <4>1. PICK start : start = buckets[k].start
        OBVIOUS
      <4>2. PICK count : count = buckets[k].count
        OBVIOUS
      <4>3. OpenRow(A, start, count, now, MaxRequests(k))
        BY <1>4, <3>1, <4>1, <4>2 DEF RowOK
      <4>4. ~(now - start < Window)
        BY <1>6, <3>1, <4>1 DEF Retained
      <4>5. start \in Nat
        BY <4>3 DEF OpenRow
      <4>6. now - start >= Window
        BY <1>1, <1>3, <4>4, <4>5
      <4> HIDE DEF A
      <4> QED
        BY <1>2, <1>3, <4>3, <4>6, RowExpires
    <3>2. CASE k \notin DOMAIN buckets
      BY <1>4, <3>2 DEF RowOK
    <3> QED
      BY <3>1, <3>2
  <2>2. StartOf(k) = now /\ CountOf(k) = 0
    BY <1>6 DEF StartOf, CountOf
  <2>3. OpenRow(A, now, 0, now, MaxRequests(k))
    <3> HIDE DEF A
    <3> QED
      BY <1>2, <1>3, <2>1, RowOpens
  <2> QED
    BY <1>1, <1>3, <2>1, <2>2, <2>3
<1> QED
  BY <1>5, <1>6

\* The number of records of a key from a tick on is a natural number.
LEMMA SinceCount ==
    ASSUME LimiterInv, NEW k, NEW t
    PROVE  AcceptedSince(k, t) \in Nat
<1>1. {a \in accepted : a.key = k /\ a.at >= t} \in SUBSET accepted
  OBVIOUS
<1> QED
  BY <1>1, FS_Subset, FS_CardinalityType DEF AcceptedSince, LimiterInv

\* A refused request opens some windows and counts nothing; the key at its limit has
\* had its number of requests within a window.
LEMMA RefusedKeeps ==
    ASSUME LimiterInv, NEW keys \in SUBSET LimiterKeys, Refused(keys)
    PROVE  LimiterInv'
<1>1. PICK O \in SUBSET keys : O = OpenedBefore(keys)
  BY DEF OpenedBefore
<1>2. /\ AtLimit(keys) # {} /\ refusal' = keys
      /\ buckets' = [k \in Retained \cup O |-> [start |-> StartOf(k), count |-> CountOf(k)]]
      /\ now' = now /\ accepted' = accepted
  BY <1>1 DEF Refused, Opened
<1>3. Retained \subseteq LimiterKeys
  BY DEF Retained, LimiterInv
<1>4. DOMAIN buckets' \subseteq LimiterKeys
  BY <1>2, <1>3
<1>5. \A k \in LimiterKeys : RowOK(RecordsOf(accepted, k), buckets', k, now)
  <2> SUFFICES ASSUME NEW k \in LimiterKeys PROVE RowOK(RecordsOf(accepted, k), buckets', k, now)
    OBVIOUS
  <2>1. CASE k \in Retained \cup O
    <3>1. k \in DOMAIN buckets' /\ buckets'[k].start = StartOf(k) /\ buckets'[k].count = CountOf(k)
      BY <1>2, <2>1
    <3>2. OpenRow(RecordsOf(accepted, k), StartOf(k), CountOf(k), now, MaxRequests(k))
      BY WindowRow
    <3> QED
      BY <3>1, <3>2 DEF RowOK
  <2>2. CASE k \notin Retained \cup O
    BY <1>2, <2>2, WindowRow DEF RowOK
  <2> QED
    BY <2>1, <2>2
<1>6. \E k \in keys : AcceptedSince(k, now - Window + 1) >= MaxRequests(k)
  <2>1. PICK k \in keys : CountOf(k) >= MaxRequests(k)
    BY <1>2 DEF AtLimit
  <2>2. MaxRequests(k) \in Nat /\ MaxRequests(k) > 0
    BY <2>1, KeyLimit
  <2>3. PICK start, count : start = StartOf(k) /\ count = CountOf(k)
    OBVIOUS
  <2>4. /\ OpenRow(RecordsOf(accepted, k), start, count, now, MaxRequests(k))
        /\ now - start < Window
    BY <2>1, <2>3, WindowRow
  <2>5. /\ now \in Nat /\ IsFiniteSet(accepted)
        /\ \A a \in RecordsOf(accepted, k) : a.at \in Nat /\ now - Window < a.at /\ a.at <= now
    BY KeyRecords DEF LimiterInv
  <2>6. start \in Nat /\ Cardinality(Late(RecordsOf(accepted, k), start)) = count
    BY <2>4 DEF OpenRow
  <2>7. Window \in Nat
    BY RateLimiterAssumption DEF RateLimiterAssumption
  <2>8. {a \in accepted : a.key = k /\ a.at >= now - Window + 1} = RecordsOf(accepted, k)
    BY <2>5, <2>7 DEF RecordsOf
  <2>9. AcceptedSince(k, now - Window + 1) = Cardinality(RecordsOf(accepted, k))
    BY <2>8 DEF AcceptedSince
  <2>10. /\ Cardinality(Late(RecordsOf(accepted, k), start)) <= Cardinality(RecordsOf(accepted, k))
         /\ Cardinality(RecordsOf(accepted, k)) \in Nat
    BY KeyRecords, RecordSets
  <2>11. count \in Nat /\ count >= MaxRequests(k)
    BY <2>1, <2>3, <2>4 DEF OpenRow
  <2>12. AcceptedSince(k, now - Window + 1) >= MaxRequests(k)
    BY <2>2, <2>6, <2>9, <2>10, <2>11
  <2> QED
    BY <2>1, <2>12
<1> QED
  BY <1>2, <1>4, <1>5, <1>6 DEF LimiterInv, AcceptedSince

\* A request let through is a new record of each of its keys, counted in its window.
LEMMA AdmittedKeeps ==
    ASSUME LimiterInv, NEW keys \in SUBSET LimiterKeys, IsFiniteSet(keys), Admitted(keys)
    PROVE  LimiterInv'
<1> DEFINE Rec(k) == [key |-> k, at |-> now, nth |-> AcceptedSince(k, now)]
<1>1. PICK New : New = {Rec(k) : k \in keys}
  OBVIOUS
<1>2. /\ AtLimit(keys) = {} /\ now' = now /\ refusal' = refusal
      /\ accepted' = accepted \cup New
      /\ buckets' = [k \in Retained \cup keys |->
                       [start |-> StartOf(k), count |-> CountOf(k) + (IF k \in keys THEN 1 ELSE 0)]]
  BY <1>1 DEF Admitted, Counted
<1>3. IsFiniteSet(New)
  <2>1. PICK g : g = [k \in keys |-> Rec(k)]
    OBVIOUS
  <2>2. g \in Surjection(keys, New)
    BY <1>1, <2>1 DEF Surjection
  <2> QED
    BY <2>2, FS_Surjection
<1>4. IsFiniteSet(accepted \cup New) /\ IsFiniteSet(accepted)
  BY <1>3, FS_Union DEF LimiterInv
<1>5. now \in Nat /\ Window \in Nat /\ Window > 0
  BY RateLimiterAssumption DEF LimiterInv, RateLimiterAssumption
<1>6. Retained \subseteq LimiterKeys
  BY DEF Retained, LimiterInv
<1>7. \A a \in New : a.key \in keys /\ a = Rec(a.key)
  BY <1>1
<1>8. \A k \in keys : Rec(k) \in New /\ Rec(k).key = k /\ Rec(k).at = now /\ Rec(k).nth = AcceptedSince(k, now)
  BY <1>1
<1>9. \A k \in keys : Rec(k) \notin accepted
  <2> SUFFICES ASSUME NEW k \in keys, Rec(k) \in accepted PROVE FALSE
    OBVIOUS
  <2>1. AcceptedSince(k, now) < AcceptedSince(k, now)
    BY DEF LimiterInv
  <2> QED
    BY <2>1, SinceCount
<1>10. \A a \in New : RecordOK(a, now)
  <2> SUFFICES ASSUME NEW a \in New PROVE RecordOK(a, now)
    OBVIOUS
  <2>1. AcceptedSince(a.key, now) \in Nat
    BY SinceCount
  <2>2. a.key \in LimiterKeys /\ a.at = now /\ a.nth = AcceptedSince(a.key, now)
    BY <1>7, <1>8
  <2> QED
    BY <1>5, <2>1, <2>2 DEF RecordOK
<1> HIDE DEF Rec
<1>11. \A k \in keys, t \in Int : t <= now =>
          AcceptedSince(k, t)' = AcceptedSince(k, t) + 1
  <2> SUFFICES ASSUME NEW k \in keys, NEW t \in Int, t <= now
               PROVE  AcceptedSince(k, t)' = AcceptedSince(k, t) + 1
    OBVIOUS
  <2>1. PICK S : S = {a \in accepted : a.key = k /\ a.at >= t}
    OBVIOUS
  <2>2. S \subseteq accepted /\ IsFiniteSet(S)
    BY <1>4, <2>1, FS_Subset
  <2>3. Rec(k) \notin S
    BY <1>9, <2>2
  <2>4. Rec(k).key = k /\ Rec(k).at = now /\ Rec(k) \in New
    BY <1>8
  <2>5. \A a \in New : a.key = k => a = Rec(k)
    BY <1>7
  <2>6. {a \in accepted \cup New : a.key = k /\ a.at >= t} = S \cup {Rec(k)}
    BY <2>1, <2>4, <2>5, <1>5
  <2>7. Cardinality(S \cup {Rec(k)}) = Cardinality(S) + 1
    BY <2>2, <2>3, FS_AddElement
  <2> QED
    BY <1>2, <2>1, <2>6, <2>7 DEF AcceptedSince
<1>12. \A k, t : k \notin keys =>
          Cardinality({a \in accepted' : a.key = k /\ a.at >= t}) = AcceptedSince(k, t)
  <2> SUFFICES ASSUME NEW k, NEW t, k \notin keys
               PROVE  {a \in accepted' : a.key = k /\ a.at >= t}
                        = {a \in accepted : a.key = k /\ a.at >= t}
    BY DEF AcceptedSince
  <2> QED
    BY <1>2, <1>7
<1>13. \A a \in accepted' : a.at = now => a.nth < AcceptedSince(a.key, now)'
  <2> SUFFICES ASSUME NEW a \in accepted \cup New, a.at = now
               PROVE  a.nth < AcceptedSince(a.key, now)'
    BY <1>2
  <2>1. AcceptedSince(a.key, now) \in Nat
    BY SinceCount
  <2>2. CASE a \in New
    <3>1. a.key \in keys /\ a.nth = AcceptedSince(a.key, now)
      BY <1>7, <1>8, <2>2
    <3>2. AcceptedSince(a.key, now)' = AcceptedSince(a.key, now) + 1
      BY <1>2, <1>5, <1>11, <3>1 DEF AcceptedSince
    <3> QED
      BY <2>1, <3>1, <3>2
  <2>3. CASE a \in accepted
    <3>1. a.nth < AcceptedSince(a.key, now) /\ a.nth \in Nat
      BY <2>3 DEF LimiterInv, RecordOK
    <3>2. CASE a.key \in keys
      <4>1. AcceptedSince(a.key, now)' = AcceptedSince(a.key, now) + 1
        BY <1>2, <1>5, <1>11, <3>2 DEF AcceptedSince
      <4> QED
        BY <2>1, <3>1, <4>1
    <3>3. CASE a.key \notin keys
      <4>1. PICK k : k = a.key
        OBVIOUS
      <4>2. AcceptedSince(k, now)' = Cardinality({b \in accepted' : b.key = k /\ b.at >= now})
        BY <1>2 DEF AcceptedSince
      <4>3. AcceptedSince(k, now)' = AcceptedSince(k, now)
        BY <1>12, <3>3, <4>1, <4>2
      <4>4. AcceptedSince(a.key, now)' = AcceptedSince(a.key, now)
        BY <4>1, <4>3
      <4> QED
        BY <3>1, <4>4
    <3> QED
      BY <3>2, <3>3
  <2> QED
    BY <2>2, <2>3
<1>14. \A k \in LimiterKeys : RowOK(RecordsOf(accepted', k), buckets', k, now)
  <2> SUFFICES ASSUME NEW k \in LimiterKeys PROVE RowOK(RecordsOf(accepted', k), buckets', k, now)
    OBVIOUS
  <2>1. MaxRequests(k) \in Nat
    BY KeyLimit
  <2>2. PICK start, count : start = StartOf(k) /\ count = CountOf(k)
    OBVIOUS
  <2>3. PICK A : A = RecordsOf(accepted, k)
    OBVIOUS
  <2>4. OpenRow(A, start, count, now, MaxRequests(k)) /\ now - start < Window /\ IsFiniteSet(A)
    BY <2>2, <2>3, WindowRow, KeyRecords
  <2>5. CASE k \in keys
    <3>1. ~(count >= MaxRequests(k)) /\ count \in Nat
      BY <1>2, <2>2, <2>4, <2>5 DEF AtLimit, OpenRow
    <3>2. PICK r, max : r = Rec(k) /\ max = MaxRequests(k)
      OBVIOUS
    <3>3. r \notin A /\ r.at = now /\ max \in Nat /\ count < max
      BY <1>8, <1>9, <2>1, <2>3, <2>5, <3>1, <3>2 DEF RecordsOf
    <3>4. OpenRow(A, start, count, now, max)
      BY <2>4, <3>2
    <3>5. OpenRow(A \cup {r}, start, count + 1, now, max)
      BY <1>5, <2>4, <3>3, <3>4, RowCounts
    <3>6. RecordsOf(accepted', k) = A \cup {Rec(k)}
      BY <1>2, <1>7, <1>8, <2>3, <2>5 DEF RecordsOf
    <3>7. k \in DOMAIN buckets' /\ buckets'[k].start = start /\ buckets'[k].count = count + 1
      BY <1>2, <2>2, <2>5
    <3> QED
      BY <3>2, <3>6, <3>7, <3>5 DEF RowOK
  <2>6. CASE k \notin keys
    <3>1. RecordsOf(accepted', k) = A
      BY <1>2, <1>7, <2>3, <2>6 DEF RecordsOf
    <3>2. CASE k \in Retained
      <4>1. k \in DOMAIN buckets' /\ buckets'[k].start = start /\ buckets'[k].count = count + 0
        BY <1>2, <2>2, <2>6, <3>2
      <4>2. count + 0 = count
        BY <2>4 DEF OpenRow
      <4> QED
        BY <2>4, <3>1, <4>1, <4>2 DEF RowOK
    <3>3. CASE k \notin Retained
      BY <1>2, <2>3, <2>6, <3>1, <3>3, WindowRow DEF RowOK
    <3> QED
      BY <3>2, <3>3
  <2> QED
    BY <2>5, <2>6
<1>15. ASSUME refusal # {}
       PROVE  \E k \in refusal : AcceptedSince(k, now - Window + 1)' >= MaxRequests(k)
  <2>1. PICK k \in refusal : AcceptedSince(k, now - Window + 1) >= MaxRequests(k)
    BY <1>15 DEF LimiterInv
  <2>2. MaxRequests(k) \in Nat
    BY <2>1, KeyLimit DEF LimiterInv
  <2>3. PICK t \in Int : t = now - Window + 1 /\ t <= now
    BY <1>5
  <2>4. AcceptedSince(k, t) \in Nat /\ AcceptedSince(k, t) >= MaxRequests(k)
    BY <2>1, <2>3, SinceCount
  <2>5. CASE k \in keys
    BY <1>2, <1>11, <2>1, <2>2, <2>3, <2>4, <2>5 DEF AcceptedSince
  <2>6. CASE k \notin keys
    <3>1. AcceptedSince(k, t)' = Cardinality({a \in accepted' : a.key = k /\ a.at >= t})
      BY DEF AcceptedSince
    <3>2. AcceptedSince(k, t)' = AcceptedSince(k, t)
      BY <1>12, <2>6, <3>1
    <3>3. AcceptedSince(k, now - Window + 1)' = AcceptedSince(k, t)'
      BY <1>2, <2>3 DEF AcceptedSince
    <3> QED
      BY <2>1, <2>3, <3>2, <3>3
  <2> QED
    BY <2>5, <2>6
<1>16. \A a \in accepted' : RecordOK(a, now)
  BY <1>2, <1>10 DEF LimiterInv
<1>17. DOMAIN buckets' \subseteq LimiterKeys
  BY <1>2, <1>6
<1>18. IsFiniteSet(accepted')
  BY <1>2, <1>4
<1> QED
  BY <1>2, <1>5, <1>13, <1>14, <1>15, <1>16, <1>17, <1>18 DEF LimiterInv, AcceptedSince

\* A tick drops the records that are older than a window, and closes no window.
LEMMA TickKeeps ==
    ASSUME LimiterInv, Tick
    PROVE  LimiterInv'
<1>1. /\ now' = now + 1 /\ refusal' = {} /\ buckets' = buckets
      /\ accepted' = {a \in accepted : a.at > now + 1 - Window}
  BY DEF Tick
<1>2. now \in Nat /\ Window \in Nat
  BY RateLimiterAssumption DEF LimiterInv, RateLimiterAssumption
<1>3. IsFiniteSet(accepted')
  BY <1>1, FS_Subset DEF LimiterInv
<1>4. \A a \in accepted' : RecordOK(a, now') /\ a.at # now'
  BY <1>1, <1>2 DEF LimiterInv, RecordOK
<1>5. \A k \in LimiterKeys : RowOK(RecordsOf(accepted', k), buckets', k, now')
  <2> SUFFICES ASSUME NEW k \in LimiterKeys PROVE RowOK(RecordsOf(accepted', k), buckets, k, now + 1)
    BY <1>1
  <2>1. PICK A : A = RecordsOf(accepted, k)
    OBVIOUS
  <2>2. RecordsOf(accepted', k) = {a \in A : a.at > now + 1 - Window}
    BY <1>1, <2>1 DEF RecordsOf
  <2>3. IsFiniteSet(A) /\ (\A a \in A : a.at \in Nat) /\ MaxRequests(k) \in Nat
    BY <2>1, KeyRecords, KeyLimit
  <2>4. RowOK(A, buckets, k, now)
    BY <2>1 DEF LimiterInv
  <2>5. CASE k \in DOMAIN buckets
    <3>1. PICK start, count : start = buckets[k].start /\ count = buckets[k].count
      OBVIOUS
    <3>2. OpenRow(A, start, count, now, MaxRequests(k))
      BY <2>4, <2>5, <3>1 DEF RowOK
    <3>3. OpenRow({a \in A : a.at > now + 1 - Window}, start, count, now + 1, MaxRequests(k))
      BY <1>2, <2>3, <3>2, RowAges
    <3> QED
      BY <2>2, <2>5, <3>1, <3>3 DEF RowOK
  <2>6. CASE k \notin DOMAIN buckets
    <3>1. ClosedRow(A, now, MaxRequests(k))
      BY <2>4, <2>6 DEF RowOK
    <3>2. ClosedRow({a \in A : a.at > now + 1 - Window}, now + 1, MaxRequests(k))
      BY <1>2, <2>3, <3>1, ClosedRowAges
    <3> QED
      BY <2>2, <2>6, <3>2 DEF RowOK
  <2> QED
    BY <2>5, <2>6
<1> QED
  BY <1>1, <1>2, <1>3, <1>4, <1>5 DEF LimiterInv

\* The address a request counts for is its client's or that of a proxy: with trusted
\* proxies in front, the last entry that is not one of theirs is what the first of them
\* appended, the address of the client.
LEMMA ClientIpIsTrue ==
    ASSUME NEW c \in Clients, NEW via \in Proxies, NEW claimed \in Claimed
    PROVE  ClientIp(Peer(c, via), Header(c, via, claimed)) \in Trusted \cup {c.address}
<1>1. via \in Seq(Trusted) /\ c.address \notin Trusted
  BY VoiceRequestsAssumption DEF VoiceRequestsAssumption
<1>2. \E n \in Nat : claimed \in Seq(Addresses \cup {Malformed}) /\ n = Len(claimed)
  BY VoiceRequestsAssumption DEF VoiceRequestsAssumption
<1>3. CASE via = <<>>
  <2>1. Peer(c, via) = c.address
    BY <1>3 DEF Peer
  <2> QED
    BY <1>1, <2>1 DEF ClientIp
<1>4. CASE via # <<>>
  <2>1. Len(via) \in Nat /\ Len(via) >= 1 /\ \A k \in 1 .. Len(via) : via[k] \in Trusted
    BY <1>1, <1>4
  <2>2. Peer(c, via) \in Trusted
    BY <1>4, <2>1 DEF Peer
  <2>3. PICK first \in Nat : first = Len(claimed) + 1 /\ first >= 1
    BY <1>2
  <2>4. PICK h : h = Header(c, via, claimed)
    OBVIOUS
  <2>5. PICK rest : rest = SubSeq(via, 1, Len(via) - 1)
    OBVIOUS
  <2>6. rest \in Seq(Trusted) /\ Len(rest) \in Nat
    BY <1>1, <2>1, <2>5
  <2>7. h = claimed \o <<c.address>> \o rest
    BY <1>4, <2>4, <2>5 DEF Header
  <2>8. PICK mine : mine = claimed \o <<c.address>>
    OBVIOUS
  <2>9. /\ mine \in Seq(Addresses \cup {Malformed, c.address})
        /\ Len(mine) = first /\ mine[first] = c.address
    BY <1>2, <2>3, <2>8
  <2>10. /\ DOMAIN h = 1 .. first + Len(rest)
         /\ h[first] = c.address
         /\ \A k \in first + 1 .. first + Len(rest) : h[k] = rest[k - first]
    BY <2>3, <2>6, <2>7, <2>8, <2>9
  <2>11. \A k \in first + 1 .. first + Len(rest) : h[k] \in Trusted
    <3> SUFFICES ASSUME NEW k \in first + 1 .. first + Len(rest) PROVE h[k] \in Trusted
      OBVIOUS
    <3>1. k - first \in 1 .. Len(rest)
      BY <2>3, <2>6
    <3>2. rest[k - first] \in Trusted
      BY <2>6, <3>1
    <3> QED
      BY <2>10, <3>2
  <2>12. PICK S : S = {k \in DOMAIN h : h[k] \notin Trusted}
    OBVIOUS
  <2>13. first \in S /\ \A j \in S : j \in Nat /\ j <= first
    BY <1>1, <2>3, <2>6, <2>10, <2>11, <2>12
  <2>14. LastUntrusted(h) = CHOOSE k \in S : \A j \in S : j <= k
    BY <2>12, <2>13 DEF LastUntrusted
  <2>15. \A k \in S : (\A j \in S : j <= k) => k = first
    BY <2>3, <2>13
  <2>16. LastUntrusted(h) = first
    BY <2>13, <2>14, <2>15
  <2>17. ClientIp(Peer(c, via), h) \in Trusted \cup {c.address}
    BY <2>2, <2>10, <2>16 DEF ClientIp
  <2> QED
    BY <2>4, <2>17
<1> QED
  BY <1>3, <1>4

\* A request counts for at most three keys, each a session, an address of the request's
\* way or the process.
LEMMA KeysOfRequest ==
    ASSUME NEW f \in Families, NEW c \in Clients, NEW via \in Proxies, NEW claimed \in Claimed
    PROVE  KeysOf(f, c, via, claimed) \in SUBSET LimiterKeys /\ IsFiniteSet(KeysOf(f, c, via, claimed))
<1>1. PICK ip : ip = ClientIp(Peer(c, via), Header(c, via, claimed))
  OBVIOUS
<1>2. ip \in Trusted \cup {c.address}
  BY <1>1, ClientIpIsTrue
<1>3. KeysOf(f, c, via, claimed) \in SUBSET {<<f, c.session>>, <<f, ip>>, <<f, Global>>}
  BY <1>1 DEF KeysOf, Identities, Key
<1>4. c.session \in SessionIds
  BY VoiceRequestsAssumption DEF VoiceRequestsAssumption
<1>5. {<<f, c.session>>, <<f, ip>>, <<f, Global>>} \in SUBSET LimiterKeys
  BY <1>2, <1>4 DEF LimiterKeys
<1>6. IsFiniteSet({<<f, c.session>>, <<f, ip>>, <<f, Global>>})
  <2>1. IsFiniteSet({<<f, c.session>>})
    BY FS_Singleton
  <2>2. IsFiniteSet({<<f, c.session>>} \cup {<<f, ip>>})
    BY <2>1, FS_AddElement
  <2>3. IsFiniteSet(({<<f, c.session>>} \cup {<<f, ip>>}) \cup {<<f, Global>>})
    BY <2>2, FS_AddElement
  <2>4. ({<<f, c.session>>} \cup {<<f, ip>>}) \cup {<<f, Global>>}
          = {<<f, c.session>>, <<f, ip>>, <<f, Global>>}
    OBVIOUS
  <2> QED
    BY <2>3, <2>4
<1> QED
  BY <1>3, <1>5, <1>6, FS_Subset

\* A request refused or admitted by the limits keeps the invariant.
LEMMA CheckedKeeps ==
    ASSUME LimiterInv, NEW f \in Families, NEW c \in Clients, NEW via \in Proxies,
           NEW claimed \in Claimed, NEW r1, NEW r2, Checked(f, c, via, claimed, r1, r2)
    PROVE  LimiterInv'
<1>1. PICK keys : keys = KeysOf(f, c, via, claimed)
  OBVIOUS
<1>2. keys \in SUBSET LimiterKeys /\ IsFiniteSet(keys)
  BY <1>1, KeysOfRequest
<1>3. Refused(keys) \/ Admitted(keys)
  BY <1>1 DEF Checked
<1> QED
  BY <1>2, <1>3, RefusedKeeps, AdmittedKeeps

\* Every step of the voice endpoints keeps the limiter's invariant.
LEMMA LimiterStep == LimiterInv /\ [VoiceNext]_voiceVars => LimiterInv'
<1> SUFFICES ASSUME LimiterInv, [VoiceNext]_voiceVars PROVE LimiterInv'
  OBVIOUS
<1>1. {"speech", "transcription"} \subseteq Families
  BY VoiceRequestsAssumption DEF VoiceRequestsAssumption
<1>2. ASSUME UNCHANGED limiter PROVE LimiterInv'
  BY <1>2 DEF limiter, LimiterInv, AcceptedSince
<1>3. ASSUME NEW c \in Clients, NEW via \in Proxies, NEW claimed \in Claimed, NEW f \in Families,
             OtherRequest(f, c, via, claimed)
      PROVE  LimiterInv'
  BY <1>3, CheckedKeeps DEF OtherRequest
<1>4. ASSUME NEW c \in Clients, NEW via \in Proxies, NEW claimed \in Claimed, NEW m \in Messages,
             SynthesizeMessageSpeech(c, via, claimed, m)
      PROVE  LimiterInv'
  BY <1>1, <1>4, CheckedKeeps DEF SynthesizeMessageSpeech
<1>5. ASSUME NEW c \in Clients, NEW via \in Proxies, NEW claimed \in Claimed, NEW x \in Recordings,
             TranscribeUserSpeech(c, via, claimed, x)
      PROVE  LimiterInv'
  BY <1>1, <1>5, CheckedKeeps DEF TranscribeUserSpeech
<1>6. CASE TranslateSpeechText
  BY <1>2, <1>6 DEF TranslateSpeechText
<1>7. CASE SynthesizeSpeech
  BY <1>2, <1>7 DEF SynthesizeSpeech
<1>8. CASE TranscriptionEnds
  BY <1>2, <1>8 DEF TranscriptionEnds
<1>9. CASE Answer
  BY <1>2, <1>9 DEF Answer
<1>10. CASE Tick
  BY <1>10, TickKeeps
<1>11. CASE UNCHANGED voiceVars
  BY <1>2, <1>11 DEF voiceVars
<1> QED
  BY <1>3, <1>4, <1>5, <1>6, <1>7, <1>8, <1>9, <1>10, <1>11 DEF VoiceNext

\* Nothing has been counted at the start.
LEMMA LimiterStarts == VoiceInit => LimiterInv
<1> SUFFICES ASSUME VoiceInit PROVE LimiterInv
  OBVIOUS
<1>1. now = 0 /\ accepted = {} /\ refusal = {} /\ DOMAIN buckets = {}
  BY DEF VoiceInit, LimiterInit
<1>2. IsFiniteSet({}) /\ Cardinality({}) = 0
  BY FS_EmptySet
<1>3. \A k \in LimiterKeys : RowOK(RecordsOf(accepted, k), buckets, k, now)
  <2> SUFFICES ASSUME NEW k \in LimiterKeys PROVE RowOK(RecordsOf(accepted, k), buckets, k, now)
    OBVIOUS
  <2>1. RecordsOf(accepted, k) = {}
    BY <1>1 DEF RecordsOf
  <2>2. MaxRequests(k) \in Nat
    BY KeyLimit
  <2>3. ClosedRow({}, now, MaxRequests(k))
    BY <1>2, <2>2 DEF ClosedRow
  <2> QED
    BY <1>1, <2>1, <2>3 DEF RowOK
<1> QED
  BY <1>1, <1>2, <1>3 DEF LimiterInv

\* The invariant of the limiter holds in every reachable state, for any clients,
\* proxies, forged headers, limits and length of the window.
THEOREM LimiterInvariant == VoiceSpec => []LimiterInv
  BY LimiterStarts, LimiterStep, PTL DEF VoiceSpec

\* The records of the last window of a key are all its records: at most the limit
\* before its window and at most the limit in it.
LEMMA LimitFromRows == LimiterInv => LimitKept
<1> SUFFICES ASSUME LimiterInv, NEW k, \E a \in accepted : a.key = k
             PROVE  AcceptedSince(k, now - Window + 1) <= 2 * MaxRequests(k)
  BY DEF LimitKept
<1>1. k \in LimiterKeys
  BY DEF LimiterInv, RecordOK
<1>2. PICK max \in Nat : max = MaxRequests(k)
  BY <1>1, KeyLimit
<1>3. PICK A : A = RecordsOf(accepted, k)
  OBVIOUS
<1>4. PICK start, count : start = StartOf(k) /\ count = CountOf(k)
  OBVIOUS
<1>5. OpenRow(A, start, count, now, max) /\ IsFiniteSet(A) /\ \A a \in A : a.at \in Nat
  BY <1>1, <1>2, <1>3, <1>4, WindowRow, KeyRecords
<1>6. start \in Nat
  BY <1>5 DEF OpenRow
<1>7. A = Early(A, start) \cup Late(A, start) /\ Early(A, start) \cap Late(A, start) = {}
  BY <1>5, <1>6 DEF Early, Late
<1>8. /\ IsFiniteSet(Early(A, start)) /\ IsFiniteSet(Late(A, start))
      /\ Cardinality(Early(A, start)) \in Nat /\ Cardinality(Late(A, start)) \in Nat
  BY <1>5, RecordSets
<1>9. Cardinality(A) = Cardinality(Early(A, start)) + Cardinality(Late(A, start))
  <2>1. PICK E, L : E = Early(A, start) /\ L = Late(A, start)
    OBVIOUS
  <2>2. Cardinality(E \cup L) = Cardinality(E) + Cardinality(L) - Cardinality(E \cap L)
    BY <1>8, <2>1, FS_Union
  <2>3. Cardinality(E \cap L) = 0
    BY <1>7, <2>1, FS_EmptySet
  <2>4. PICK e \in Nat, l \in Nat : e = Cardinality(E) /\ l = Cardinality(L)
    BY <1>8, <2>1
  <2>5. Cardinality(E \cup L) = e + l
    BY <2>2, <2>3, <2>4
  <2> QED
    BY <1>7, <2>1, <2>4, <2>5
<1>10. Cardinality(Early(A, start)) <= max /\ Cardinality(Late(A, start)) <= max
  BY <1>5, <1>8 DEF OpenRow
<1>11. Cardinality(A) <= 2 * max
  BY <1>8, <1>9, <1>10
<1>12. {a \in accepted : a.key = k /\ a.at >= now - Window + 1} \in SUBSET A
  BY <1>3 DEF RecordsOf
<1>13. AcceptedSince(k, now - Window + 1) \in Nat /\ Cardinality(A) \in Nat
       /\ AcceptedSince(k, now - Window + 1) <= Cardinality(A)
  BY <1>5, <1>12, FewerRecords DEF AcceptedSince
<1> QED
  BY <1>2, <1>11, <1>13

\* No identity gets through with more than twice its limit in any span of the length of
\* a window, for any limits and any clock.
THEOREM LimitKeptHolds == VoiceSpec => []LimitKept
  BY LimiterInvariant, LimitFromRows, PTL

\* Whenever a request is refused, one of its identities has had its full number of
\* requests accepted within the last window.
THEOREM RefusalJustifiedHolds == VoiceSpec => []RefusalJustified
<1>1. LimiterInv => RefusalJustified
  BY DEF LimiterInv, RefusalJustified
<1> QED
  BY <1>1, LimiterInvariant, PTL

\* Whatever a client writes into its header, a request counts for its session, for its
\* own address or a proxy's, or for the process.
THEOREM CountedForItsAddressHolds == VoiceSpec => []CountedForItsAddress
<1>1. LimiterInv => CountedForItsAddress
  BY DEF LimiterInv, CountedForItsAddress, LimiterKeys
<1> QED
  BY <1>1, LimiterInvariant, PTL

-----------------------------------------------------------------------------
(* The audio of the speech engine. *)

AudioChunks == [id : STRING \ {"sample"}, size : Nat, samples : Seq(Nat)]
Cells == [id : (STRING \ {"sample"}) \cup {"sample"}, n : Nat]

\* The cells of one chunk, and the recursion of Encoded.
CellsOf(chunk) ==
    <<Header8(chunk)>> \o [j \in DOMAIN chunk.samples |-> Sample(chunk.samples[j])]
      \o (IF chunk.size % 2 = 1 THEN <<Sample(0)>> ELSE <<>>)
Encodes(up, file) ==
    up = [k \in 0 .. Len(file) |-> IF k = 0 THEN <<>> ELSE up[k - 1] \o CellsOf(file[k])]

\* What it amounts to: cells at every step, one more chunk each time.
Grows(up, file, n) ==
    /\ up[0] = <<>>
    /\ \A k \in 1 .. n : up[k] = up[k - 1] \o CellsOf(file[k])
    /\ \A k \in 0 .. n : up[k] \in Seq(Cells)

\* The recursion of WavDataChunk.
Scanned(scan, cells, index) ==
    IF index > Len(cells) \/ index + cells[index].n > Len(cells) THEN {}
    ELSE CASE cells[index].id = "data" -> {SubSeq(cells, index + 1, index + cells[index].n)}
           [] cells[index].id = "sample" -> {}
           [] OTHER -> scan[NextChunk(index, cells[index].n)]
Scans(scan, cells) == scan = [index \in 1 .. Len(cells) + 2 |-> Scanned(scan, cells, index)]

\* A concatenation: its length, and its elements from the left and from the right part.
LEMMA Concatenated ==
    ASSUME NEW S, NEW a \in Seq(S), NEW b \in Seq(S)
    PROVE  a \o b \in Seq(S) /\ Len(a \o b) = Len(a) + Len(b)
  BY ConcatProperties

\* An element of the left part of two joined sequences.
LEMMA FromLeft ==
    ASSUME NEW S, NEW a \in Seq(S), NEW b \in Seq(S), NEW i \in 1 .. Len(a)
    PROVE  (a \o b)[i] = a[i]
<1>1. Len(a) \in Nat /\ Len(b) \in Nat
  OBVIOUS
<1>2. i \in 1 .. Len(a) + Len(b) /\ i <= Len(a)
  BY <1>1
<1>3. (a \o b)[i] = IF i <= Len(a) THEN a[i] ELSE b[i - Len(a)]
  BY <1>2, ConcatProperties
<1> QED
  BY <1>2, <1>3

\* An element of the right part of two joined sequences.
LEMMA FromRight ==
    ASSUME NEW S, NEW a \in Seq(S), NEW b \in Seq(S), NEW i \in 1 .. Len(b)
    PROVE  (a \o b)[Len(a) + i] = b[i]
<1>1. Len(a) \in Nat /\ Len(b) \in Nat
  OBVIOUS
<1>2. PICK k : k = Len(a) + i
  OBVIOUS
<1>3. k \in 1 .. Len(a) + Len(b) /\ ~(k <= Len(a)) /\ k - Len(a) = i
  BY <1>1, <1>2
<1>4. (a \o b)[k] = IF k <= Len(a) THEN a[k] ELSE b[k - Len(a)]
  BY <1>3, ConcatProperties
<1> QED
  BY <1>2, <1>3, <1>4

\* A chunk becomes its header, its samples and a padding cell if its size is odd.
LEMMA CellsOfChunk ==
    ASSUME NEW chunk \in AudioChunks
    PROVE  /\ CellsOf(chunk) \in Seq(Cells)
           /\ Len(CellsOf(chunk)) = 1 + Len(chunk.samples) + (IF chunk.size % 2 = 1 THEN 1 ELSE 0)
           /\ CellsOf(chunk)[1] = Header8(chunk)
           /\ \A j \in DOMAIN chunk.samples : CellsOf(chunk)[1 + j] = Sample(chunk.samples[j])
<1>1. PICK first : first = <<Header8(chunk)>>
  OBVIOUS
<1>2. PICK middle : middle = [j \in DOMAIN chunk.samples |-> Sample(chunk.samples[j])]
  OBVIOUS
<1>3. PICK pad : pad = IF chunk.size % 2 = 1 THEN <<Sample(0)>> ELSE <<>>
  OBVIOUS
<1>4. Header8(chunk) \in Cells /\ \A n \in Nat : Sample(n) \in Cells
  BY DEF AudioChunks, Cells, Header8, Sample
<1>5. first \in Seq(Cells) /\ Len(first) = 1 /\ first[1] = Header8(chunk)
  BY <1>1, <1>4
<1>6. PICK m \in Nat : m = Len(chunk.samples) /\ DOMAIN chunk.samples = 1 .. m
  BY DEF AudioChunks
<1>7. \A j \in 1 .. m : chunk.samples[j] \in Nat
  BY <1>6 DEF AudioChunks
<1>8. middle \in [1 .. m -> Cells]
  BY <1>2, <1>4, <1>6, <1>7
<1>9. middle \in Seq(Cells) /\ Len(middle) = m
  BY <1>8
<1>10. pad \in Seq(Cells) /\ Len(pad) = IF chunk.size % 2 = 1 THEN 1 ELSE 0
  BY <1>3, <1>4
<1>11. CellsOf(chunk) = first \o middle \o pad
  BY <1>1, <1>2, <1>3 DEF CellsOf
<1>12. PICK front : front = first \o middle
  OBVIOUS
<1>13. front \in Seq(Cells) /\ Len(front) = 1 + m /\ front[1] = Header8(chunk)
  <2>1. 1 \in 1 .. Len(first)
    BY <1>5
  <2>2. (first \o middle)[1] = first[1]
    BY <1>5, <1>9, <2>1, FromLeft
  <2>3. first \o middle \in Seq(Cells) /\ Len(first \o middle) = 1 + m
    BY <1>5, <1>9, Concatenated
  <2> QED
    BY <1>5, <1>12, <2>2, <2>3
<1>14. ASSUME NEW j \in 1 .. m PROVE front[1 + j] = middle[j]
  <2>0. j \in 1 .. Len(middle)
    BY <1>9
  <2>1. (first \o middle)[Len(first) + j] = middle[j]
    BY <1>5, <1>9, <2>0, FromRight
  <2> QED
    BY <1>5, <1>12, <2>1
<1>15. \A j \in 1 .. m : middle[j] = Sample(chunk.samples[j])
  BY <1>2, <1>6
<1>16. CellsOf(chunk) \in Seq(Cells) /\ Len(CellsOf(chunk)) = (1 + m) + Len(pad)
  <2>1. front \o pad \in Seq(Cells) /\ Len(front \o pad) = Len(front) + Len(pad)
    BY <1>10, <1>13, Concatenated
  <2> QED
    BY <1>11, <1>12, <1>13, <2>1
<1>17. ASSUME NEW i \in 1 .. 1 + m PROVE CellsOf(chunk)[i] = front[i]
  <2>1. (front \o pad)[i] = front[i]
    BY <1>10, <1>13, FromLeft
  <2> QED
    BY <1>11, <1>12, <2>1
<1>18. CellsOf(chunk)[1] = Header8(chunk)
  BY <1>13, <1>17
<1>19. ASSUME NEW j \in 1 .. m PROVE CellsOf(chunk)[1 + j] = Sample(chunk.samples[j])
  <2>1. 1 + j \in 1 .. 1 + m
    OBVIOUS
  <2> QED
    BY <1>14, <1>15, <1>17, <2>1
<1> QED
  BY <1>6, <1>10, <1>16, <1>18, <1>19

\* The recursion of Encoded has a solution: the loop over the chunks, as a fold.
LEMMA EncodedExists ==
    ASSUME NEW file \in Seq(AudioChunks)
    PROVE  \E up : Encodes(up, file) /\ Encoded(file) = up[Len(file)]
<1>1. PICK n \in Nat : n = Len(file) /\ \A k \in 1 .. n : file[k] \in AudioChunks
  OBVIOUS
<1>2. PICK step : step = [x \in Seq(Cells) \X (1 .. n) |-> x[1] \o CellsOf(file[x[2]])]
  OBVIOUS
<1>3. \A x \in Seq(Cells), i \in 1 .. n : step[<<x, i>>] = x \o CellsOf(file[i])
  BY <1>2
<1>4. \A x \in Seq(Cells), i \in 1 .. n : step[<<x, i>>] \in Seq(Cells)
  <2> SUFFICES ASSUME NEW x \in Seq(Cells), NEW i \in 1 .. n PROVE x \o CellsOf(file[i]) \in Seq(Cells)
    BY <1>3
  <2>1. CellsOf(file[i]) \in Seq(Cells)
    BY <1>1, CellsOfChunk
  <2> QED
    BY <2>1, Concatenated
<1>5. <<>> \in Seq(Cells)
  OBVIOUS
<1>6. PICK g : Folds(g, n, <<>>, step) /\ \A s \in SUBSET (1 .. n) : g[s] \in Seq(Cells)
  BY <1>4, <1>5, FoldExists
<1>7. PICK up : up = [k \in 0 .. n |-> g[1 .. k]]
  OBVIOUS
<1>8. \A k \in 0 .. n : up[k] \in Seq(Cells) /\ up[k] = g[1 .. k]
  BY <1>6, <1>7
<1>9. up[0] = <<>>
  <2>1. 1 .. 0 = {} /\ {} \in SUBSET (1 .. n) /\ 0 \in 0 .. n
    OBVIOUS
  <2>2. g[{}] = <<>>
    BY <1>6, <2>1 DEF Folds
  <2> QED
    BY <1>8, <2>1, <2>2
<1>10. \A k \in 1 .. n : up[k] = up[k - 1] \o CellsOf(file[k])
  <2> SUFFICES ASSUME NEW k \in 1 .. n PROVE up[k] = up[k - 1] \o CellsOf(file[k])
    OBVIOUS
  <2>1. /\ 1 .. k \in SUBSET (1 .. n) /\ 1 .. k # {}
        /\ Max(1 .. k) = k /\ (1 .. k) \ {Max(1 .. k)} = 1 .. k - 1
    BY PrefixTaken
  <2>2. g[1 .. k] = step[<<g[1 .. k - 1], k>>]
    BY <1>6, <2>1 DEF Folds
  <2>3. k - 1 \in 0 .. n /\ k \in 0 .. n
    OBVIOUS
  <2>4. up[k - 1] = g[1 .. k - 1] /\ up[k] = g[1 .. k] /\ up[k - 1] \in Seq(Cells)
    BY <1>8, <2>3
  <2> QED
    BY <1>3, <2>2, <2>4
<1>11. Encodes(up, file)
  <2>1. \A k \in 0 .. n : up[k] = IF k = 0 THEN <<>> ELSE up[k - 1] \o CellsOf(file[k])
    <3>1. \A k \in 0 .. n : k = 0 \/ k \in 1 .. n
      OBVIOUS
    <3> QED
      BY <1>9, <1>10, <3>1
  <2>2. up = [k \in 0 .. n |-> up[k]]
    BY <1>7
  <2>3. up = [k \in 0 .. n |-> IF k = 0 THEN <<>> ELSE up[k - 1] \o CellsOf(file[k])]
    BY <2>1, <2>2
  <2> QED
    BY <1>1, <2>3 DEF Encodes
<1>12. Encoded(file) = (CHOOSE u : Encodes(u, file))[Len(file)]
  BY DEF Encoded, Encodes, CellsOf
<1>13. \E u : Encodes(u, file)
  BY <1>11
<1>14. PICK u : u = CHOOSE v : Encodes(v, file)
  OBVIOUS
<1>15. Encodes(u, file)
  BY <1>13, <1>14
<1> QED
  BY <1>12, <1>14, <1>15

\* Any solution of the recursion goes through sequences of cells, each the one before
\* with one more chunk.
LEMMA EncodedPrefixes ==
    ASSUME NEW file \in Seq(AudioChunks), NEW up, Encodes(up, file)
    PROVE  Grows(up, file, Len(file))
<1>1. PICK n \in Nat : n = Len(file) /\ \A k \in 1 .. n : file[k] \in AudioChunks
  OBVIOUS
<1>2. \A k \in 0 .. n : up[k] = IF k = 0 THEN <<>> ELSE up[k - 1] \o CellsOf(file[k])
  BY <1>1 DEF Encodes
<1>3. 0 \in 0 .. n /\ \A k \in 1 .. n : k \in 0 .. n /\ k # 0
  OBVIOUS
<1>4. up[0] = <<>> /\ \A k \in 1 .. n : up[k] = up[k - 1] \o CellsOf(file[k])
  BY <1>2, <1>3
<1>5. PICK T : T = {k \in Nat : k <= n => up[k] \in Seq(Cells)}
  OBVIOUS
<1>6. T \subseteq Nat /\ 0 \in T
  <2>1. <<>> \in Seq(Cells)
    OBVIOUS
  <2>2. up[0] \in Seq(Cells)
    BY <1>4, <2>1
  <2> QED
    BY <1>5, <2>2
<1>7. ASSUME NEW k \in T PROVE k + 1 \in T
  <2>1. k \in Nat /\ (k <= n => up[k] \in Seq(Cells))
    BY <1>5
  <2>2. ASSUME k + 1 <= n PROVE up[k + 1] \in Seq(Cells)
    <3>1. k + 1 \in 1 .. n /\ (k + 1) - 1 = k /\ k <= n
      BY <2>1, <2>2
    <3>2. up[k + 1] = up[k] \o CellsOf(file[k + 1])
      BY <1>4, <3>1
    <3>3. CellsOf(file[k + 1]) \in Seq(Cells)
      BY <1>1, <3>1, CellsOfChunk
    <3> QED
      BY <2>1, <3>1, <3>2, <3>3, Concatenated
  <2> QED
    BY <1>5, <2>1, <2>2
<1>8. \A k \in T : k + 1 \in T
  BY <1>7
<1>9. T = Nat
  BY <1>6, <1>8, NumberInduction
<1>10. \A k \in 0 .. n : up[k] \in Seq(Cells)
  BY <1>5, <1>9
<1> QED
  BY <1>1, <1>4, <1>10 DEF Grows

\* The whole file starts with its first chunks, any number of them.
LEMMA StartsWith ==
    ASSUME NEW file \in Seq(AudioChunks), NEW up, Encodes(up, file),
           NEW k \in 0 .. Len(file)
    PROVE  /\ Len(up[k]) <= Len(up[Len(file)])
           /\ \A i \in 1 .. Len(up[k]) : up[Len(file)][i] = up[k][i]
<1>1. PICK n \in Nat : n = Len(file)
  OBVIOUS
<1>2. /\ \A j \in 1 .. n : up[j] = up[j - 1] \o CellsOf(file[j])
      /\ \A j \in 0 .. n : up[j] \in Seq(Cells)
      /\ \A j \in 1 .. n : CellsOf(file[j]) \in Seq(Cells)
  <2>1. Grows(up, file, n)
    BY <1>1, EncodedPrefixes
  <2>2. ASSUME NEW j \in 1 .. n PROVE CellsOf(file[j]) \in Seq(Cells)
    <3>1. file[j] \in AudioChunks
      BY <1>1
    <3> QED
      BY <3>1, CellsOfChunk
  <2> QED
    BY <2>1, <2>2 DEF Grows
<1> DEFINE Prefix(m) == Len(up[k]) <= Len(up[m]) /\ \A i \in 1 .. Len(up[k]) : up[m][i] = up[k][i]
           T == {d \in Nat : k + d <= n => Prefix(k + d)}
<1>3. T \subseteq Nat /\ 0 \in T
  <2>1. Prefix(k + 0)
    <3>1. k + 0 = k /\ up[k] \in Seq(Cells)
      BY <1>1, <1>2
    <3> QED
      BY <3>1
  <2> QED
    BY <2>1
<1>4. ASSUME NEW d \in T PROVE d + 1 \in T
  <2>1. d \in Nat /\ (k + d <= n => Prefix(k + d))
    OBVIOUS
  <2>2. ASSUME k + (d + 1) <= n PROVE Prefix(k + (d + 1))
    <3>1. PICK m \in Nat : m = k + d /\ m + 1 = k + (d + 1) /\ m <= n /\ m \in 0 .. n /\ m + 1 \in 1 .. n
      BY <1>1, <2>1, <2>2
    <3>2. Prefix(m)
      BY <2>1, <3>1
    <3>3. (m + 1) - 1 = m
      BY <3>1
    <3>4. PICK a, b : a = up[m] /\ b = CellsOf(file[m + 1])
      OBVIOUS
    <3>5. up[m + 1] = a \o b /\ a \in Seq(Cells) /\ b \in Seq(Cells)
      BY <1>2, <3>1, <3>3, <3>4
    <3>6. Len(a \o b) = Len(a) + Len(b) /\ Len(a) \in Nat /\ Len(b) \in Nat
      BY <3>5, Concatenated
    <3>7. PICK l \in Nat : l = Len(up[k]) /\ l <= Len(a)
      BY <1>1, <1>2, <3>2, <3>4
    <3>8. ASSUME NEW i \in 1 .. l PROVE up[m + 1][i] = up[k][i]
      <4>1. i \in 1 .. Len(a)
        BY <3>6, <3>7
      <4>2. (a \o b)[i] = a[i]
        BY <3>5, <4>1, FromLeft
      <4> QED
        BY <3>2, <3>4, <3>5, <3>7, <4>2
    <3>9. l <= Len(up[m + 1])
      BY <3>5, <3>6, <3>7
    <3>10. Prefix(m + 1)
      BY <3>7, <3>8, <3>9
    <3> QED
      BY <3>1, <3>10
  <2> HIDE DEF Prefix
  <2> QED
    BY <2>1, <2>2
<1> HIDE DEF Prefix
<1>5. \A d \in T : d + 1 \in T
  BY <1>4
<1> HIDE DEF T
<1>6. T = Nat
  BY <1>3, <1>5, NumberInduction
<1>7. PICK d \in Nat : k + d = n
  <2>1. n - k \in Nat /\ k + (n - k) = n
    BY <1>1
  <2> QED
    BY <2>1
<1>8. Prefix(n)
  <2>1. d \in T /\ k + d <= n
    BY <1>1, <1>6, <1>7
  <2>2. Prefix(k + d)
    BY <2>1 DEF T
  <2> QED
    BY <1>7, <2>2
<1> QED
  BY <1>1, <1>8 DEF Prefix

\* A whole chunk lies in the file from its header to its padding.
LiesIn(cells, chunk, start, next) ==
    /\ start \in 1 .. Len(cells) /\ cells[start] = Header8(chunk)
    /\ start + chunk.size <= Len(cells)
    /\ \A j \in 1 .. chunk.size : cells[start + j] = Sample(chunk.samples[j])
    /\ NextChunk(start, chunk.size) = next

\* A chunk of a file lies where the encoding so far ends.
LEMMA ChunkPlaced ==
    ASSUME NEW file \in Seq(AudioChunks), Whole(file), NEW up, Encodes(up, file),
           NEW k \in 1 .. Len(file)
    PROVE  LiesIn(up[Len(file)], file[k], Len(up[k - 1]) + 1, Len(up[k]) + 1)
<1>1. PICK n \in Nat : n = Len(file) /\ k \in 1 .. n /\ k - 1 \in 0 .. n /\ k \in 0 .. n
  OBVIOUS
<1>2. PICK cells : cells = up[n]
  OBVIOUS
<1>3. PICK a, c : a = up[k - 1] /\ c = file[k]
  OBVIOUS
<1>4. c \in AudioChunks /\ c.size \in Nat /\ Len(c.samples) = c.size /\ DOMAIN c.samples = 1 .. c.size
  <2>1. c \in AudioChunks /\ k \in DOMAIN file
    BY <1>1, <1>3
  <2>2. c.size \in Nat /\ c.samples \in Seq(Nat)
    BY <2>1 DEF AudioChunks
  <2>3. Len(c.samples) = c.size
    BY <1>3, <2>1 DEF Whole
  <2> QED
    BY <2>1, <2>2, <2>3
<1>5. PICK b : b = CellsOf(c)
  OBVIOUS
<1>6. /\ b \in Seq(Cells) /\ Len(b) = 1 + c.size + (IF c.size % 2 = 1 THEN 1 ELSE 0)
      /\ b[1] = Header8(c) /\ \A j \in 1 .. c.size : b[1 + j] = Sample(c.samples[j])
  BY <1>4, <1>5, CellsOfChunk
<1>7. a \in Seq(Cells) /\ up[k] = a \o b
  BY <1>1, <1>3, <1>5, EncodedPrefixes DEF Grows
<1>8. PICK la \in Nat, lb \in Nat : la = Len(a) /\ lb = Len(b)
  BY <1>6, <1>7
<1>9. Len(a \o b) = la + lb
  BY <1>6, <1>7, <1>8, Concatenated
<1>10. cells \in Seq(Cells)
  <2>1. n \in 0 .. Len(file)
    BY <1>1
  <2>2. up[n] \in Seq(Cells)
    BY <2>1, EncodedPrefixes DEF Grows
  <2> QED
    BY <1>2, <2>2
<1>11. /\ la + lb <= Len(cells)
       /\ \A i \in 1 .. la + lb : cells[i] = (a \o b)[i]
  BY <1>1, <1>2, <1>7, <1>9, StartsWith
<1>12. \A i \in 1 .. lb : cells[la + i] = b[i]
  <2> SUFFICES ASSUME NEW i \in 1 .. lb PROVE cells[la + i] = b[i]
    OBVIOUS
  <2>1. la + i \in 1 .. la + lb /\ i \in 1 .. Len(b)
    BY <1>8
  <2>2. (a \o b)[Len(a) + i] = b[i]
    BY <1>6, <1>7, <2>1, FromRight
  <2> QED
    BY <1>8, <1>11, <2>1, <2>2
<1>13. lb = 1 + c.size + (c.size % 2)
  <2>1. c.size % 2 = 0 \/ c.size % 2 = 1
    BY <1>4
  <2>2. CASE c.size % 2 = 1
    BY <1>4, <1>6, <1>8, <2>2
  <2>3. CASE c.size % 2 = 0
    BY <1>4, <1>6, <1>8, <2>3
  <2> QED
    BY <2>1, <2>2, <2>3
<1>14. PICK size \in Nat, r \in 0 .. 1, all \in Nat : size = c.size /\ r = size % 2 /\ all = Len(cells)
  BY <1>4, <1>10
<1>15. lb = 1 + size + r /\ la + lb <= all
  BY <1>11, <1>13, <1>14
<1>16. /\ 1 \in 1 .. lb /\ la + 1 \in 1 .. all /\ (la + 1) + size <= all
       /\ \A j \in 1 .. size : 1 + j \in 1 .. lb /\ la + (1 + j) = (la + 1) + j
  BY <1>15
<1>17. cells[la + 1] = Header8(c)
  BY <1>6, <1>12, <1>16
<1>18. ASSUME NEW j \in 1 .. c.size PROVE cells[(la + 1) + j] = Sample(c.samples[j])
  BY <1>6, <1>12, <1>14, <1>16
<1>19. NextChunk(la + 1, c.size) = (la + lb) + 1
  <2>1. (la + 1) + 1 + size + r = (la + lb) + 1
    BY <1>15
  <2> QED
    BY <1>14, <2>1 DEF NextChunk
<1>20. LiesIn(cells, c, la + 1, (la + lb) + 1)
  BY <1>14, <1>16, <1>17, <1>18, <1>19 DEF LiesIn
<1> QED
  BY <1>1, <1>2, <1>3, <1>7, <1>8, <1>9, <1>20

\* Reading a cell as a header looks at nothing but later cells.
LEMMA ScanLooksAhead ==
    ASSUME NEW cells \in Seq(Cells), NEW i \in 1 .. Len(cells) + 2, NEW f, NEW g,
           \A j \in i + 1 .. Len(cells) + 2 : f[j] = g[j]
    PROVE  Scanned(f, cells, i) = Scanned(g, cells, i)
<1>1. Len(cells) \in Nat
  OBVIOUS
<1>2. CASE i > Len(cells) \/ i + cells[i].n > Len(cells)
  BY <1>2 DEF Scanned
<1>3. CASE ~(i > Len(cells) \/ i + cells[i].n > Len(cells))
  <2>1. i \in 1 .. Len(cells)
    BY <1>1, <1>3
  <2>2. cells[i] \in Cells
    BY <2>1
  <2>3. PICK n \in Nat : n = cells[i].n
    BY <2>2 DEF Cells
  <2>4. n % 2 \in 0 .. 1
    OBVIOUS
  <2>5. i + n <= Len(cells)
    BY <1>1, <1>3, <2>3
  <2>6. NextChunk(i, n) \in i + 1 .. Len(cells) + 2
    BY <1>1, <2>3, <2>4, <2>5 DEF NextChunk
  <2>7. f[NextChunk(i, cells[i].n)] = g[NextChunk(i, cells[i].n)]
    BY <2>3, <2>6
  <2> QED
    BY <1>3, <2>7 DEF Scanned
<1> QED
  BY <1>2, <1>3

\* The recursion of WavDataChunk has a solution, built from the end of the file.
LEMMA ScanExists ==
    ASSUME NEW cells \in Seq(Cells)
    PROVE  \E scan : Scans(scan, cells) /\ WavDataChunk(cells) = scan[1]
<1>1. PICK last \in Nat : last = Len(cells) + 2 /\ last >= 2
  OBVIOUS
<1> DEFINE Solves(f, m) == f = [i \in m .. last |-> Scanned(f, cells, i)]
           T == {d \in Nat : \A m \in 1 .. last + 1 : m + d = last + 1 => \E f : Solves(f, m)}
<1>2. T \subseteq Nat /\ 0 \in T
  <2>1. ASSUME NEW m \in 1 .. last + 1, m + 0 = last + 1 PROVE \E f : Solves(f, m)
    <3>1. m .. last = {}
      BY <2>1
    <3>2. PICK f : f = [i \in m .. last |-> {}]
      OBVIOUS
    <3>3. Solves(f, m)
      BY <3>1, <3>2
    <3> QED
      BY <3>3
  <2> HIDE DEF Solves
  <2> QED
    BY <2>1
<1>3. ASSUME NEW d \in T PROVE d + 1 \in T
  <2>1. d \in Nat
    OBVIOUS
  <2>2. ASSUME NEW m \in 1 .. last + 1, m + (d + 1) = last + 1 PROVE \E f : Solves(f, m)
    <3>1. m + 1 \in 1 .. last + 1 /\ (m + 1) + d = last + 1 /\ m \in 1 .. last
      BY <2>1, <2>2
    <3>2. PICK f : Solves(f, m + 1)
      BY <2>1, <3>1
    <3>3. \A i \in m + 1 .. last : f[i] = Scanned(f, cells, i)
      BY <3>2
    <3> HIDE DEF Solves
    <3>4. PICK h : h = [i \in m .. last |-> Scanned(f, cells, i)]
      OBVIOUS
    <3>5. \A i \in m .. last : h[i] = Scanned(f, cells, i)
      BY <3>4
    <3>6. \A i \in m + 1 .. last : h[i] = f[i]
      BY <3>1, <3>3, <3>5
    <3>7. ASSUME NEW i \in m .. last PROVE Scanned(f, cells, i) = Scanned(h, cells, i)
      <4>1. i \in 1 .. Len(cells) + 2 /\ \A j \in i + 1 .. Len(cells) + 2 : f[j] = h[j]
        BY <1>1, <3>1, <3>6
      <4> QED
        BY <4>1, ScanLooksAhead
    <3>8. h = [i \in m .. last |-> Scanned(h, cells, i)]
      BY <3>4, <3>7
    <3> QED
      BY <3>8 DEF Solves
  <2> HIDE DEF Solves
  <2> QED
    BY <2>1, <2>2
<1> HIDE DEF Solves
<1>4. \A d \in T : d + 1 \in T
  BY <1>3
<1> HIDE DEF T
<1>5. T = Nat
  BY <1>2, <1>4, NumberInduction
<1>6. \E f : Solves(f, 1)
  <2>1. last \in T /\ 1 \in 1 .. last + 1 /\ 1 + last = last + 1
    BY <1>1, <1>5
  <2> QED
    BY <2>1 DEF T
<1>7. \E f : Scans(f, cells)
  BY <1>1, <1>6 DEF Solves, Scans
<1>8. WavDataChunk(cells) = (CHOOSE f : Scans(f, cells))[1]
  BY DEF WavDataChunk, Scans, Scanned
<1>9. PICK scan : scan = CHOOSE f : Scans(f, cells)
  OBVIOUS
<1> QED
  BY <1>7, <1>8, <1>9

\* Reading a chunk where it lies: a data chunk gives its samples, another one is skipped.
LEMMA ChunkRead ==
    ASSUME NEW cells \in Seq(Cells), NEW scan, Scans(scan, cells), NEW chunk \in AudioChunks,
           NEW start, NEW next, LiesIn(cells, chunk, start, next)
    PROVE  /\ chunk.id = "data" => scan[start] = {SubSeq(cells, start + 1, start + chunk.size)}
           /\ chunk.id # "data" => scan[start] = scan[next]
<1>1. PICK all \in Nat : all = Len(cells)
  OBVIOUS
<1>2. /\ start \in 1 .. all /\ cells[start] = Header8(chunk)
      /\ start + chunk.size <= all /\ NextChunk(start, chunk.size) = next
  BY <1>1 DEF LiesIn
<1>3. start \in 1 .. Len(cells) + 2
  BY <1>1, <1>2
<1>4. scan[start] = Scanned(scan, cells, start)
  BY <1>3 DEF Scans
<1>5. cells[start].n = chunk.size /\ cells[start].id = chunk.id
  BY <1>2 DEF Header8
<1>6. chunk.id # "sample" /\ chunk.size \in Nat
  BY DEF AudioChunks
<1>7. ~(start > Len(cells) \/ start + cells[start].n > Len(cells))
  BY <1>1, <1>2, <1>5, <1>6
<1>8. CASE chunk.id = "data"
  BY <1>4, <1>5, <1>7, <1>8 DEF Scanned
<1>9. CASE chunk.id # "data"
  BY <1>2, <1>4, <1>5, <1>6, <1>7, <1>9 DEF Scanned
<1> QED
  BY <1>8, <1>9

\* Chunks that hold no data are skipped, one after the other.
LEMMA ChunksSkipped ==
    ASSUME NEW file \in Seq(AudioChunks), Whole(file), NEW up, Encodes(up, file),
           NEW scan, Scans(scan, up[Len(file)]),
           NEW k \in 0 .. Len(file), \A j \in 1 .. k : file[j].id # "data"
    PROVE  scan[1] = scan[Len(up[k]) + 1]
<1>1. PICK n \in Nat : n = Len(file) /\ \A j \in 1 .. n : file[j] \in AudioChunks
  OBVIOUS
<1>2. up[0] = <<>> /\ up[n] \in Seq(Cells)
  <2>1. n \in 0 .. n
    OBVIOUS
  <2> QED
    BY <1>1, <2>1, EncodedPrefixes DEF Grows
<1>3. PICK T : T = {d \in Nat : d <= k => scan[1] = scan[Len(up[d]) + 1]}
  OBVIOUS
<1>4. T \subseteq Nat /\ 0 \in T
  <2>1. Len(up[0]) + 1 = 1
    BY <1>2
  <2> QED
    BY <1>3, <2>1
<1>5. ASSUME NEW d \in T PROVE d + 1 \in T
  <2>1. d \in Nat /\ (d <= k => scan[1] = scan[Len(up[d]) + 1])
    BY <1>3
  <2>2. ASSUME d + 1 <= k PROVE scan[1] = scan[Len(up[d + 1]) + 1]
    <3>1. PICK m \in 1 .. n : m = d + 1 /\ m - 1 = d /\ m \in 1 .. k /\ d <= k
      BY <1>1, <2>1, <2>2
    <3>2. PICK start, next : start = Len(up[m - 1]) + 1 /\ next = Len(up[m]) + 1
      OBVIOUS
    <3>3. PICK cells, chunk : cells = up[n] /\ chunk = file[m]
      OBVIOUS
    <3>4. LiesIn(cells, chunk, start, next)
      BY <1>1, <3>2, <3>3, ChunkPlaced
    <3>5. chunk \in AudioChunks /\ chunk.id # "data" /\ cells \in Seq(Cells) /\ Scans(scan, cells)
      BY <1>1, <1>2, <3>1, <3>3
    <3>6. scan[start] = scan[next]
      BY <3>4, <3>5, ChunkRead
    <3> QED
      BY <2>1, <3>1, <3>2, <3>6
  <2> QED
    BY <1>3, <2>1, <2>2
<1>6. \A d \in T : d + 1 \in T
  BY <1>5
<1>7. T = Nat
  BY <1>4, <1>6, NumberInduction
<1> QED
  BY <1>3, <1>7

\* For a whole file, what the reader says is what the first data chunk holds.
LEMMA WavOfFile ==
    ASSUME NEW file \in Seq(AudioChunks), Whole(file)
    PROVE  ValidWav(Encoded(file)) <=> Audible(file)
<1>1. PICK n \in Nat : n = Len(file) /\ DOMAIN file = 1 .. n /\ \A j \in 1 .. n : file[j] \in AudioChunks
  OBVIOUS
<1>2. PICK up : Encodes(up, file) /\ Encoded(file) = up[n]
  BY <1>1, EncodedExists
<1>3. PICK cells : cells = up[n]
  OBVIOUS
<1>4. cells \in Seq(Cells)
  <2>1. n \in 0 .. Len(file)
    BY <1>1
  <2>2. up[n] \in Seq(Cells)
    BY <1>2, <2>1, EncodedPrefixes DEF Grows
  <2> QED
    BY <1>3, <2>2
<1>5. PICK scan : Scans(scan, cells) /\ WavDataChunk(cells) = scan[1]
  BY <1>4, ScanExists
<1>6. ValidWav(Encoded(file)) <=> \E data \in scan[1] : \E k \in DOMAIN data : data[k].n # 0
  BY <1>2, <1>3, <1>5 DEF ValidWav
<1>7. CASE FirstData(file) = {}
  <2>1. PICK D : D = {j \in 1 .. n : file[j].id = "data"}
    OBVIOUS
  <2>2. D = {}
    <3> SUFFICES ASSUME D # {} PROVE FALSE
      OBVIOUS
    <3>1. D \subseteq Nat
      BY <2>1
    <3>2. PICK k \in D : \A m \in D : k <= m
      BY <3>1, LeastNumber
    <3>3. k \in 1 .. n /\ file[k].id = "data"
      BY <2>1, <3>2
    <3>4. ASSUME NEW j \in 1 .. k - 1 PROVE file[j].id # "data"
      <4>1. j \in 1 .. n /\ ~(k <= j)
        BY <3>3
      <4> QED
        BY <2>1, <3>2, <4>1
    <3>5. k \in FirstData(file)
      BY <1>1, <3>3, <3>4 DEF FirstData
    <3> QED
      BY <1>7, <3>5
  <2>3. n \in 0 .. Len(file) /\ \A j \in 1 .. n : file[j].id # "data"
    BY <1>1, <2>1, <2>2
  <2>4. Scans(scan, up[Len(file)])
    BY <1>1, <1>3, <1>5
  <2>5. scan[1] = scan[Len(up[n]) + 1]
    BY <1>2, <2>3, <2>4, ChunksSkipped
  <2>6. PICK all \in Nat : all = Len(cells) /\ all + 1 \in 1 .. all + 2 /\ all + 1 > all
    BY <1>4
  <2>7. scan[all + 1] = Scanned(scan, cells, all + 1)
    BY <1>5, <2>6 DEF Scans
  <2>8. scan[1] = {}
    BY <1>3, <2>5, <2>6, <2>7 DEF Scanned
  <2> QED
    BY <1>6, <1>7, <2>8 DEF Audible
<1>8. ASSUME NEW k \in FirstData(file) PROVE ValidWav(Encoded(file)) <=> Audible(file)
  <2>1. k \in 1 .. n /\ file[k].id = "data" /\ \A j \in 1 .. k - 1 : file[j].id # "data"
    BY <1>1, <1>8 DEF FirstData
  <2>2. PICK m \in 0 .. n : m = k - 1
    BY <2>1
  <2>3. PICK start, next : start = Len(up[k - 1]) + 1 /\ next = Len(up[k]) + 1
    OBVIOUS
  <2>4. PICK chunk : chunk = file[k]
    OBVIOUS
  <2>5. LiesIn(cells, chunk, start, next)
    BY <1>1, <1>2, <1>3, <2>1, <2>3, <2>4, ChunkPlaced
  <2>6. chunk \in AudioChunks /\ chunk.id = "data"
    BY <1>1, <2>1, <2>4
  <2>7. m \in 0 .. Len(file) /\ \A j \in 1 .. m : file[j].id # "data"
    BY <1>1, <2>1, <2>2
  <2>8. Scans(scan, up[Len(file)])
    BY <1>1, <1>3, <1>5
  <2>9. scan[1] = scan[Len(up[m]) + 1]
    BY <1>2, <2>7, <2>8, ChunksSkipped
  <2>10. scan[1] = {SubSeq(cells, start + 1, start + chunk.size)}
    <3>1. scan[start] = {SubSeq(cells, start + 1, start + chunk.size)}
      BY <1>4, <1>5, <2>5, <2>6, ChunkRead
    <3> QED
      BY <2>2, <2>3, <2>9, <3>1
  <2>11. PICK data : data = SubSeq(cells, start + 1, start + chunk.size)
    OBVIOUS
  <2>12. PICK size \in Nat : size = chunk.size /\ size = Len(chunk.samples) /\ DOMAIN chunk.samples = 1 .. size
    <3>1. chunk.size \in Nat /\ chunk.samples \in Seq(Nat)
      BY <2>6 DEF AudioChunks
    <3>2. Len(chunk.samples) = chunk.size
      BY <1>1, <2>1, <2>4 DEF Whole
    <3> QED
      BY <3>1, <3>2
  <2>13. /\ start \in 1 .. Len(cells) /\ start + size <= Len(cells)
         /\ \A j \in 1 .. size : cells[start + j] = Sample(chunk.samples[j])
    BY <2>5, <2>12 DEF LiesIn
  <2>14. /\ DOMAIN data = 1 .. size
         /\ \A j \in 1 .. size : data[j] = cells[start + j]
    BY <1>4, <2>11, <2>12, <2>13
  <2>15. ASSUME NEW j \in 1 .. size PROVE data[j].n = chunk.samples[j]
    <3>1. data[j] = Sample(chunk.samples[j])
      BY <2>13, <2>14
    <3> QED
      BY <3>1 DEF Sample
  <2>16. \A i \in FirstData(file) : i = k
    <3> SUFFICES ASSUME NEW i \in FirstData(file) PROVE i = k
      OBVIOUS
    <3>1. i \in 1 .. n /\ file[i].id = "data" /\ \A j \in 1 .. i - 1 : file[j].id # "data"
      BY <1>1 DEF FirstData
    <3>2. ~(i \in 1 .. k - 1) /\ ~(k \in 1 .. i - 1)
      BY <2>1, <3>1
    <3> QED
      BY <2>1, <3>1, <3>2
  <2>17. Audible(file) <=> \E j \in 1 .. size : chunk.samples[j] # 0
    BY <1>8, <2>4, <2>12, <2>16 DEF Audible
  <2>18. ValidWav(Encoded(file)) <=> \E j \in 1 .. size : data[j].n # 0
    BY <1>6, <2>10, <2>11, <2>14
  <2> QED
    BY <2>15, <2>17, <2>18
<1> QED
  BY <1>7, <1>8

\* What is about to be answered is an engine's file, judged by what it holds.
ReplyJudged ==
    /\ req = [pc |-> req.pc, file |-> req.file, calls |-> req.calls, message |-> req.message]
    /\ (Provider = "voicevox" /\ req.pc \in {"played", "failed"}) =>
          /\ req.file \in Files
          /\ req.pc = "played" <=> ValidWav(Encoded(req.file))

\* Every step keeps it: only an answer of the engine leads to either outcome.
LEMMA JudgedStep == ReplyJudged /\ [VoiceNext]_voiceVars => ReplyJudged'
<1> SUFFICES ASSUME ReplyJudged, [VoiceNext]_voiceVars PROVE ReplyJudged'
  OBVIOUS
<1>1. ASSUME UNCHANGED req PROVE ReplyJudged'
  BY <1>1 DEF ReplyJudged
<1>2. ASSUME NEW stage, NEW file, NEW calls, NEW message, stage \notin {"played", "failed"},
             req' = [pc |-> stage, file |-> file, calls |-> calls, message |-> message]
      PROVE  ReplyJudged'
  BY <1>2 DEF ReplyJudged
<1>3. ASSUME req' = NoRequest PROVE ReplyJudged'
  BY <1>2, <1>3 DEF NoRequest
<1>4. ASSUME NEW c \in Clients, NEW via \in Proxies, NEW claimed \in Claimed, NEW f \in Families,
             OtherRequest(f, c, via, claimed)
      PROVE  ReplyJudged'
  BY <1>1, <1>4 DEF OtherRequest, Checked
<1>5. ASSUME NEW c \in Clients, NEW via \in Proxies, NEW claimed \in Claimed, NEW m \in Messages,
             SynthesizeMessageSpeech(c, via, claimed, m)
      PROVE  ReplyJudged'
  <2>1. \/ req' = req
        \/ req' = NoRequest
        \/ req' = [NoRequest EXCEPT !.pc = IF Translates THEN "translate" ELSE "synthesize", !.message = m]
    BY <1>5 DEF SynthesizeMessageSpeech, Checked
  <2>2. CASE req' = [NoRequest EXCEPT !.pc = IF Translates THEN "translate" ELSE "synthesize", !.message = m]
    <3>1. PICK stage : stage = (IF Translates THEN "translate" ELSE "synthesize") /\ stage \notin {"played", "failed"}
      OBVIOUS
    <3>2. req' = [pc |-> stage, file |-> <<>>, calls |-> {}, message |-> m]
      BY <2>2, <3>1 DEF NoRequest
    <3> QED
      BY <1>2, <3>1, <3>2
  <2> QED
    BY <1>1, <1>3, <2>1, <2>2
<1>6. ASSUME NEW c \in Clients, NEW via \in Proxies, NEW claimed \in Claimed, NEW x \in Recordings,
             TranscribeUserSpeech(c, via, claimed, x)
      PROVE  ReplyJudged'
  <2>1. req' = req \/ req' = NoRequest \/ req' = [NoRequest EXCEPT !.pc = "transcribe"]
    BY <1>6 DEF TranscribeUserSpeech, Checked
  <2>2. CASE req' = [NoRequest EXCEPT !.pc = "transcribe"]
    <3>1. req' = [pc |-> "transcribe", file |-> <<>>, calls |-> {}, message |-> NoRequest.message]
      BY <2>2 DEF NoRequest
    <3> QED
      BY <1>2, <3>1
  <2> QED
    BY <1>1, <1>3, <2>1, <2>2
<1>7. CASE TranslateSpeechText
  <2>1. CASE req' = [req EXCEPT !.pc = "synthesize", !.calls = @ \cup {"translate"}]
    <3>1. req' = [pc |-> "synthesize", file |-> req.file, calls |-> req.calls \cup {"translate"},
                  message |-> req.message]
      BY <2>1 DEF ReplyJudged
    <3> QED
      BY <1>2, <3>1
  <2> QED
    BY <1>3, <1>7, <2>1 DEF TranslateSpeechText
<1>8. CASE SynthesizeSpeech
  <2>1. ASSUME NEW file \in Files,
               req' = IF Provider # "voicevox" \/ ValidWav(Encoded(file))
                      THEN [req EXCEPT !.pc = "played", !.file = file, !.calls = @ \cup {"synthesize"}]
                      ELSE [req EXCEPT !.pc = "failed", !.file = file, !.calls = @ \cup {"synthesize"}]
        PROVE  ReplyJudged'
    <3>1. PICK ok \in BOOLEAN : ok <=> (Provider # "voicevox" \/ ValidWav(Encoded(file)))
      OBVIOUS
    <3>2. PICK stage : stage = IF ok THEN "played" ELSE "failed"
      OBVIOUS
    <3>3. req' = [pc |-> stage, file |-> file, calls |-> req.calls \cup {"synthesize"},
                  message |-> req.message]
      BY <2>1, <3>1, <3>2 DEF ReplyJudged
    <3>4. req'.pc = stage /\ req'.file = file
      BY <3>3
    <3>5. req' = [pc |-> req'.pc, file |-> req'.file, calls |-> req'.calls, message |-> req'.message]
      BY <3>3
    <3>6. stage = "played" <=> ok
      BY <3>2
    <3> QED
      BY <2>1, <3>1, <3>4, <3>5, <3>6 DEF ReplyJudged
  <2> QED
    BY <1>3, <1>8, <2>1 DEF SynthesizeSpeech
<1>9. CASE TranscriptionEnds \/ Answer
  BY <1>3, <1>9 DEF TranscriptionEnds, Answer
<1>10. CASE Tick /\ UNCHANGED <<req, sent>>
  BY <1>1, <1>10
<1>11. CASE UNCHANGED voiceVars
  BY <1>1, <1>11 DEF voiceVars
<1> QED
  BY <1>4, <1>5, <1>6, <1>7, <1>8, <1>9, <1>10, <1>11 DEF VoiceNext

\* Audio of the VOICEVOX engine is played exactly if the first data chunk of a whole file
\* is not silent: for any number of chunks of any sizes before and behind it.
THEOREM AudibleIsPlayedHolds == VoiceSpec => []AudibleIsPlayed
<1>1. VoiceInit => ReplyJudged
  BY DEF VoiceInit, NoRequest, ReplyJudged
<1>2. ReplyJudged => AudibleIsPlayed
  <2> SUFFICES ASSUME ReplyJudged, Provider = "voicevox", Whole(req.file), req.pc \in {"played", "failed"}
               PROVE  req.pc = "played" <=> Audible(req.file)
    BY DEF AudibleIsPlayed
  <2>1. req.file \in Seq(AudioChunks)
    BY VoiceRequestsAssumption DEF ReplyJudged, VoiceRequestsAssumption, AudioChunks
  <2>2. ValidWav(Encoded(req.file)) <=> Audible(req.file)
    BY <2>1, WavOfFile
  <2> QED
    BY <2>2 DEF ReplyJudged
<1> QED
  BY <1>1, <1>2, JudgedStep, PTL DEF VoiceSpec

(***************************************************************************)
(* Config: the environment is read, validated, built from and asked.       *)
(***************************************************************************)
LimitRecord == [fallback : Nat, production : Nat, max : Nat]

\* The chat limits are numbers.
LEMMA ChatLimitsTyped ==
    \A k \in DOMAIN ChatLimits : ChatLimits[k] \in LimitRecord
BY DEF ChatLimits, Size, Count, LimitRecord, UsizeMax, U32Max

\* The Cafe limits are numbers.
LEMMA CafeLimitsTyped ==
    \A k \in DOMAIN CafeLimits : CafeLimits[k] \in LimitRecord
BY DEF CafeLimits, Size, Count, LimitRecord, UsizeMax, U32Max

\* The limits of images are numbers.
LEMMA AttachmentLimitsTyped ==
    \A k \in DOMAIN AttachmentLimits : AttachmentLimits[k] \in LimitRecord
BY DEF AttachmentLimits, Size, Count, LimitRecord, UsizeMax, U32Max, MiB

\* One function laid over another is defined where either is, with the values of one of them.
LEMMA OverlaidTyped ==
    ASSUME NEW f, NEW g, NEW S,
           \A k \in DOMAIN f : f[k] \in S,
           \A k \in DOMAIN g : g[k] \in S
    PROVE  /\ DOMAIN Overlaid(f, g) = DOMAIN f \cup DOMAIN g
           /\ \A k \in DOMAIN Overlaid(f, g) : Overlaid(f, g)[k] \in S
BY DEF Overlaid

\* Every limit has a number for its fallback.
LEMMA LimitsTyped ==
    /\ DOMAIN Limits = DOMAIN ChatLimits \cup DOMAIN CafeLimits \cup DOMAIN AttachmentLimits
    /\ \A k \in DOMAIN Limits : Limits[k] \in LimitRecord
<1>1. PICK a, b, c : a = ChatLimits /\ b = CafeLimits /\ c = AttachmentLimits
  OBVIOUS
<1>2. Limits = Overlaid(a, Overlaid(b, c))
  BY <1>1 DEF Limits
<1>3. /\ \A k \in DOMAIN a : a[k] \in LimitRecord
      /\ \A k \in DOMAIN b : b[k] \in LimitRecord
      /\ \A k \in DOMAIN c : c[k] \in LimitRecord
  BY <1>1, ChatLimitsTyped, CafeLimitsTyped, AttachmentLimitsTyped
<1>4. PICK d : d = Overlaid(b, c)
  OBVIOUS
<1>5. DOMAIN d = DOMAIN b \cup DOMAIN c /\ \A k \in DOMAIN d : d[k] \in LimitRecord
  BY <1>3, <1>4, OverlaidTyped
<1>6. /\ DOMAIN Overlaid(a, d) = DOMAIN a \cup DOMAIN d
      /\ \A k \in DOMAIN Overlaid(a, d) : Overlaid(a, d)[k] \in LimitRecord
  BY <1>3, <1>5, OverlaidTyped
<1> QED
  BY <1>1, <1>2, <1>4, <1>5, <1>6

\* The words of the keys of the providers.
LEMMA KeyWords ==
    \A k \in OptionalTexts : k \in DOMAIN Words /\ Words[k] = {"given", "blank"}
<1>1. \A k \in OptionalTexts : k \notin Flags /\ k \notin Scales
  BY DEF OptionalTexts, Flags, Scales
<1> QED
  BY <1>1 DEF Words

\* The variables set by hand, and those of the preset, hold what their kind allows.
ConfigTyped ==
    /\ preset \in Presets
    /\ \A k \in DOMAIN Limits \cap DOMAIN numbers : numbers[k] \in Int
    /\ \A k \in DOMAIN Words \cap DOMAIN texts : texts[k] \in Words[k]

\* A numeric variable is a number.
LEMMA ParsedNumber ==
    ASSUME ConfigTyped, NEW k \in DOMAIN Limits
    PROVE  parsed_env_value(k) \in Int
<1>1. Limits[k].fallback \in Int
  BY LimitsTyped DEF LimitRecord
<1> QED
  BY <1>1, ConfigAssumption DEF ConfigAssumption, parsed_env_value, ConfigTyped

\* A key that is not blank is given.
LEMMA KeyIsGiven ==
    ASSUME ConfigTyped, NEW k \in OptionalTexts, require_non_empty(k)
    PROVE  KeyGiven(k)
<1>1. env_value(k, "blank") # "blank"
  BY DEF require_non_empty
<1>2. env_value(k, "blank") \in Words[k]
  BY <1>1, KeyWords, ConfigAssumption DEF ConfigAssumption, env_value, ConfigTyped
<1> QED
  BY <1>1, <1>2, KeyWords DEF KeyGiven, optional_env_value

\* A valid environment reads as numbers no less than zero.
LEMMA ParsedNatural ==
    ASSUME ConfigTyped, Parses, NEW k \in DOMAIN Limits
    PROVE  parsed_env_value(k) \in Nat
BY ParsedNumber DEF Parses

(* What a request is answered, as AdvertisedIsServed asks of the last one. *)
AnsweredWell(kind, reply) ==
    CASE kind \in {"chat", "model"} -> reply = "served"
      [] kind = "image" ->
            \/ reply \in UploadRefusals \cup {"served"}
            \/ "image" \notin Advertised
            \/ reply = "unsupported" /\ ai_provider \in {"xai", "lmstudio"}
      [] OTHER -> (reply = "served") = (kind \in Advertised)

\* A valid provider serves chats and has a model.
LEMMA ChatServed ==
    ASSUME ConfigTyped, Valid
    PROVE  ChatReply = "served" /\ active_model = "served"
<1>1. ProviderValid
  BY DEF Valid
<1>2. CASE ai_provider = "mock"
  BY <1>2 DEF ChatReply, active_model
<1>3. CASE ai_provider = "lmstudio"
  BY <1>3 DEF ChatReply, active_model
<1>4. CASE ai_provider = "openai" /\ require_non_empty("OPENAI_API_KEY")
  <2>1. KeyGiven("OPENAI_API_KEY")
    BY <1>4, KeyIsGiven DEF OptionalTexts
  <2> QED
    BY <1>4, <2>1 DEF ChatReply, active_model
<1>5. CASE ai_provider = "xai" /\ require_non_empty("XAI_API_KEY")
  <2>1. KeyGiven("XAI_API_KEY")
    BY <1>5, KeyIsGiven DEF OptionalTexts
  <2> QED
    BY <1>5, <2>1 DEF ChatReply, active_model
<1> QED
  BY <1>1, <1>2, <1>3, <1>4, <1>5 DEF ProviderValid

\* Speech is served exactly when it is offered.
LEMMA SpeechServed ==
    ASSUME ConfigTyped, Valid
    PROVE  (SpeechReply = "served") = ("speech" \in Advertised)
<1>1. VoiceValid /\ ProviderValid
  BY DEF Valid
<1>2. ai_provider \in {"mock", "openai", "lmstudio", "xai"}
  BY <1>1 DEF ProviderValid
<1>3. SpeechTextDerived
  BY <1>1, <1>2 DEF VoiceValid, validate_voice_speech_text_policy, SpeechTextDerived
<1>4. ai_voice_provider = "openai" => KeyGiven("OPENAI_API_KEY") /\ voice_format \in {"mp3", "wav"}
  <2> SUFFICES ASSUME ai_voice_provider = "openai"
               PROVE  KeyGiven("OPENAI_API_KEY") /\ voice_format \in {"mp3", "wav"}
    OBVIOUS
  <2>1. require_non_empty("OPENAI_API_KEY") /\ validate_voice_format
    BY <1>1 DEF VoiceValid
  <2> QED
    BY <2>1, KeyIsGiven DEF OptionalTexts, validate_voice_format
<1>5. "speech" \in Advertised <=> tts_enabled /\ ai_voice_provider \in {"mock", "openai", "voicevox"}
  BY DEF Advertised
<1>6. SpeechReply = "served" <=> tts_enabled /\ ai_voice_provider \in {"mock", "openai", "voicevox"}
  BY <1>3, <1>4 DEF SpeechReply
<1> QED
  BY <1>5, <1>6

\* Transcription is served exactly when it is offered.
LEMMA TranscriptionServed ==
    ASSUME ConfigTyped, Valid
    PROVE  (TranscriptionReply = "served") = ("transcription" \in Advertised)
<1>1. TranscriptionValid
  BY DEF Valid
<1>2. ai_transcription_provider = "openai" => KeyGiven("OPENAI_API_KEY")
  BY <1>1, KeyIsGiven DEF OptionalTexts, TranscriptionValid
<1>3. "transcription" \in Advertised
        <=> transcription_enabled /\ ai_transcription_provider \in {"mock", "openai"}
  BY DEF Advertised
<1>4. TranscriptionReply = "served"
        <=> transcription_enabled /\ ai_transcription_provider \in {"mock", "openai"}
  BY <1>2 DEF TranscriptionReply
<1> QED
  BY <1>3, <1>4

\* Whatever is asked without an image is answered as it should be.
LEMMA AskedWell ==
    ASSUME ConfigTyped, Valid, NEW kind \in Kinds
    PROVE  AnsweredWell(kind, Reply(kind))
<1>1. CASE kind \in {"chat", "model"}
  BY <1>1, ChatServed DEF AnsweredWell, Reply
<1>2. CASE kind = "speech"
  BY <1>2, SpeechServed DEF AnsweredWell, Reply
<1>3. CASE kind = "transcription"
  BY <1>3, TranscriptionServed DEF AnsweredWell, Reply
<1> QED
  BY <1>1, <1>2, <1>3 DEF Kinds

\* An image is refused on its own account, or by a provider that takes none.
LEMMA ImageAnsweredWell ==
    ASSUME ConfigTyped, Parses, Valid, NEW image \in Samples
    PROVE  AnsweredWell("image", ImageReply(image))
<1> DEFINE most == parsed_env_value("CHAT_ATTACHMENT_MAX_BYTES")
           total == parsed_env_value("CHAT_ATTACHMENT_MAX_TOTAL_BYTES_PER_MESSAGE")
           each == parsed_env_value("CHAT_ATTACHMENT_MAX_IMAGES_PER_MESSAGE")
<1>1. {"CHAT_ATTACHMENT_MAX_BYTES", "CHAT_ATTACHMENT_MAX_TOTAL_BYTES_PER_MESSAGE",
       "CHAT_ATTACHMENT_MAX_IMAGES_PER_MESSAGE"} \subseteq DOMAIN AttachmentLimits
  BY DEF AttachmentLimits
<1>2. most \in Nat /\ total \in Nat /\ each \in Nat
  BY <1>1, LimitsTyped, ParsedNatural
<1>3. AttachmentsValid /\ ProviderValid
  BY DEF Valid
<1>4. most <= total /\ each # 0
  BY <1>1, <1>3 DEF AttachmentsValid, InOrder, Positive
<1>5. image.bytes \in Nat
  <2>1. \/ image = UploadSample(most, 1, 1, "png")
        \/ \E shape \in Shapes : image = UploadSample(1024, shape[1], shape[2], shape[3])
    BY DEF Samples
  <2> QED
    BY <1>2, <2>1 DEF UploadSample
<1>6. validate_image_attachment(image) \in {"image size limit", "invalid image", "valid"}
  BY DEF validate_image_attachment
<1>7. StorageReply(image) \in {"image storage limit", "stored"}
  BY DEF StorageReply
<1>8. validate_image_attachment(image) = "valid" => image.bytes <= total
  <2>1. validate_image_attachment(image) = "valid" => ~(image.bytes > most)
    BY DEF validate_image_attachment
  <2> QED
    BY <1>2, <1>4, <1>5, <2>1
<1>9. ~ProviderTakesImages => ai_provider \in {"xai", "lmstudio"}
  BY <1>3 DEF ProviderTakesImages, ProviderValid
<1>10. image.bytes <= total =>
           MessageReply(image) = (IF ProviderTakesImages THEN "served" ELSE "unsupported")
  <2>1. ~(each < 1) /\ (image.bytes <= total => ~(image.bytes > total))
    BY <1>2, <1>4, <1>5
  <2> QED
    BY <2>1, ChatServed DEF MessageReply
<1>11. ~image_upload_enabled => "image" \notin Advertised
  BY DEF Advertised
<1> HIDE DEF most, total, each
<1>12. \/ ~image_upload_enabled
       \/ ImageReply(image) \in UploadRefusals
       \/ ImageReply(image) = (IF ProviderTakesImages THEN "served" ELSE "unsupported")
  BY <1>6, <1>7, <1>8, <1>10 DEF ImageReply, UploadRefusals
<1> QED
  BY <1>9, <1>11, <1>12 DEF AnsweredWell

(* The invariant: what started was validated, and a request was answered by a server that runs. *)
Started == phase \in {"validated", "running"} => Parses /\ Valid
Answerable ==
    answer # Quiet =>
        /\ phase = "running"
        /\ answer.credential = "cookie" \/ answer.reply = "forbidden" \/ allow_session_header
ConfigInv == ConfigTyped /\ Started /\ ValidatedStarts /\ Answerable /\ AdvertisedIsServed

\* The preset and the variables set by hand stay.
SameEnvironment == UNCHANGED <<preset, numbers, texts>>

\* What is read of the environment stays with it.
LEMMA SameReadings ==
    ASSUME SameEnvironment
    PROVE  /\ \A k : parsed_env_value(k)' = parsed_env_value(k)
           /\ \A k, f : env_value(k, f)' = env_value(k, f)
BY DEF SameEnvironment, parsed_env_value, env_value

\* What the flags allow stays with the environment.
LEMMA SameFlags ==
    ASSUME SameEnvironment
    PROVE  /\ is_production' = is_production
           /\ allow_session_header' = allow_session_header
           /\ trust_proxy_headers' = trust_proxy_headers
           /\ ai_provider' = ai_provider
           /\ Advertised' = Advertised
BY SameReadings DEF is_production, environment, allow_session_header, trust_proxy_headers, bool_env_value,
   optional_env_value, ai_provider, Advertised, tts_enabled, image_upload_enabled, transcription_enabled,
   ai_voice_provider, ai_transcription_provider

\* Whether the environment is valid stays with it.
LEMMA SameVerdict ==
    ASSUME SameEnvironment
    PROVE  Parses' = Parses /\ Valid' = Valid
<1>1. Parses' = Parses
  BY SameReadings DEF Parses, environment, parse_trusted_proxy_cidrs, optional_env_value, optional_f32_env_value
<1>2. ProviderValid' = ProviderValid
  BY SameReadings DEF ProviderValid, ai_provider, require_non_empty
<1>3. VoiceValid' = VoiceValid
  BY SameReadings DEF VoiceValid, ai_voice_provider, require_non_empty, validate_voice_speech_text_policy,
     speech_text_policy, validate_voice_format, voice_format, validate_non_negative_f32, optional_env_value
<1>4. TranscriptionValid' = TranscriptionValid
  BY SameReadings DEF TranscriptionValid, ai_transcription_provider, require_non_empty
<1>5. AttachmentsValid' = AttachmentsValid
  BY SameReadings, SameFlags DEF AttachmentsValid, require_non_empty, Positive, InOrder, WithinProduction
<1>6. CafeValid' = CafeValid
  BY SameReadings DEF CafeValid, Positive, InOrder
<1>7. ChatValid' = ChatValid
  BY SameReadings, SameFlags DEF ChatValid, Positive, InOrder
<1>8. ProductionValid' = ProductionValid
  BY SameReadings, SameFlags DEF ProductionValid, ChatWithinProduction, CafeWithinProduction, WithinProduction,
     OriginsValid, frontend_origin
<1> QED
  BY <1>1, <1>2, <1>3, <1>4, <1>5, <1>6, <1>7, <1>8, SameFlags DEF Valid

\* What would answer a request well stays with the environment.
LEMMA SameAnswers ==
    ASSUME SameEnvironment
    PROVE  \A kind, reply : AnsweredWell(kind, reply)' = AnsweredWell(kind, reply)
BY SameFlags DEF AnsweredWell

\* AdvertisedIsServed asks of the last request that it was answered well.
LEMMA AdvertisedIs ==
    AdvertisedIsServed <=> (answer # Quiet /\ answer.reply # "forbidden" => AnsweredWell(answer.asked, answer.reply))
BY DEF AdvertisedIsServed, AnsweredWell

\* Editing adds a word or a number that the variable may hold.
LEMMA EditingKeepsTypes ==
    ASSUME ConfigTyped
    PROVE  /\ \A k \in DOMAIN Limits : \A n \in Numbers(k) : SetNumber(k, n) => ConfigTyped'
           /\ \A k \in DOMAIN Words : \A w \in Words[k] : SetText(k, w) => ConfigTyped'
<1>1. ASSUME NEW k \in DOMAIN Limits, NEW n \in Numbers(k), SetNumber(k, n)
      PROVE  ConfigTyped'
  <2>1. n \in Int
    BY LimitsTyped DEF Numbers, LimitRecord, MaxPermits, I64Max, UsizeMax
  <2>2. numbers' = Overlaid(numbers, [l \in {k} |-> n]) /\ UNCHANGED <<preset, texts>>
    BY <1>1 DEF SetNumber
  <2>3. \A l \in DOMAIN Limits \cap DOMAIN numbers' : numbers'[l] \in Int
    BY <2>1, <2>2 DEF Overlaid, ConfigTyped
  <2> QED
    BY <2>2, <2>3 DEF ConfigTyped
<1>2. ASSUME NEW k \in DOMAIN Words, NEW w \in Words[k], SetText(k, w)
      PROVE  ConfigTyped'
  <2>1. texts' = Overlaid(texts, [l \in {k} |-> w]) /\ UNCHANGED <<preset, numbers>>
    BY <1>2 DEF SetText
  <2>2. \A l \in DOMAIN Words \cap DOMAIN texts' : texts'[l] \in Words[l]
    BY <2>1 DEF Overlaid, ConfigTyped
  <2> QED
    BY <2>1, <2>2 DEF ConfigTyped
<1> QED
  BY <1>1, <1>2

\* With the environment and the answer as they were, what the answer should be stays.
LEMMA SameAnswerKept ==
    ASSUME ConfigInv, SameEnvironment, UNCHANGED answer
    PROVE  ConfigTyped' /\ AdvertisedIsServed'
<1>1. ConfigTyped'
  BY DEF ConfigInv, ConfigTyped, SameEnvironment
<1>2. AdvertisedIsServed' = AdvertisedIsServed
  BY SameFlags DEF AdvertisedIsServed, Quiet, UploadRefusals
<1> QED
  BY <1>1, <1>2 DEF ConfigInv

\* A valid configuration builds: the semaphores, the limits and, in production, the task.
LEMMA ValidBuilds ==
    ASSUME ConfigTyped, Parses, Valid
    PROVE  /\ \A k \in Permits : parsed_env_value(k) <= MaxPermits
           /\ \A family \in DOMAIN policies : policies[family] >= 1
           /\ TaskStarts \/ (~is_production /\ \E k \in Intervals : BeyondClock(k))
<1>1. ChatValid /\ CafeValid /\ AttachmentsValid
  BY DEF Valid
<1>2. \A k \in Permits : parsed_env_value(k) <= MaxPermits
  BY <1>1 DEF Permits, ChatValid, AttachmentsValid
<1>3. \A k \in DOMAIN ChatLimits : parsed_env_value(k) >= 1
  <2> SUFFICES ASSUME NEW k \in DOMAIN ChatLimits
               PROVE  parsed_env_value(k) >= 1
    OBVIOUS
  <2>1. parsed_env_value(k) \in Nat
    BY LimitsTyped, ParsedNatural
  <2>2. parsed_env_value(k) # 0
    BY <1>1 DEF ChatValid, Positive
  <2> QED
    BY <2>1, <2>2
<1>4. {"AUTH_GUEST_REQUESTS_PER_MINUTE", "AUTH_GUEST_GLOBAL_REQUESTS_PER_MINUTE", "CHAT_REQUESTS_PER_MINUTE",
       "CHAT_GLOBAL_REQUESTS_PER_MINUTE"} \subseteq DOMAIN ChatLimits
  BY DEF ChatLimits
<1>5. \A family \in DOMAIN policies : policies[family] >= 1
  BY <1>3, <1>4 DEF policies
<1>6. Intervals \subseteq DOMAIN CafeLimits
  BY DEF Intervals, CafeLimits
<1>7. \A k \in Intervals : parsed_env_value(k) # 0
  BY <1>1, <1>6 DEF CafeValid, Positive
<1>8. CASE ~is_production
  <2>1. TaskStarts <=> \A k \in Intervals : parsed_env_value(k) # 0 /\ ~BeyondClock(k)
    BY DEF TaskStarts
  <2> QED
    BY <1>2, <1>5, <1>7, <1>8, <2>1
<1>9. CASE is_production
  <2>1. \A k \in Intervals : parsed_env_value(k) <= CafeLimits[k].production
    BY <1>6, <1>9 DEF Intervals, Valid, ProductionValid, CafeWithinProduction, WithinProduction
  <2>2. \A k \in Intervals : CafeLimits[k].production \in Nat /\ CafeLimits[k].production <= 60
    BY DEF Intervals, CafeLimits, Size, Count
  <2>3. \A k \in Intervals : parsed_env_value(k) \in Nat
    BY <1>6, LimitsTyped, ParsedNatural
  <2>4. \A k \in Intervals : ~BeyondClock(k)
    BY <2>1, <2>2, <2>3 DEF BeyondClock, I64Max
  <2>5. TaskStarts <=> \A k \in Intervals : parsed_env_value(k) # 0 /\ ~BeyondClock(k)
    BY DEF TaskStarts
  <2> QED
    BY <1>2, <1>5, <1>7, <2>4, <2>5
<1> QED
  BY <1>2, <1>5, <1>8, <1>9

\* A server that was built keeps what it was built with.
LEMMA SameStart ==
    ASSUME ValidatedStarts, SameEnvironment, UNCHANGED <<phase, maintained>>
    PROVE  ValidatedStarts'
<1>1. policies' = policies
  BY SameReadings DEF policies
<1>2. \A k : BeyondClock(k)' = BeyondClock(k)
  BY SameReadings DEF BeyondClock
<1> QED
  BY <1>1, <1>2, SameFlags DEF ValidatedStarts, Intervals

\* Reading and validating the configuration.
LEMMA LoadKeeps ==
    ASSUME ConfigInv, LoadConfig
    PROVE  ConfigInv'
<1>1. /\ SameEnvironment /\ UNCHANGED <<maintained, answer>> /\ phase = "editing"
      /\ phase' \in {"validated", "refused"}
      /\ phase' = "validated" => Parses /\ Valid
  BY DEF LoadConfig, SameEnvironment
<1>2. ConfigTyped' /\ AdvertisedIsServed'
  BY <1>1, SameAnswerKept
<1>3. Started'
  BY <1>1, SameVerdict DEF Started
<1>4. ValidatedStarts'
  BY <1>1 DEF ValidatedStarts
<1>5. Answerable'
  BY <1>1 DEF ConfigInv, Answerable, Quiet
<1> QED
  BY <1>2, <1>3, <1>4, <1>5 DEF ConfigInv

\* Building the server from the configuration.
LEMMA BuildKeeps ==
    ASSUME ConfigInv, Build
    PROVE  ConfigInv'
<1>1. /\ SameEnvironment /\ UNCHANGED answer /\ phase = "validated"
      /\ phase' = IF \A k \in Permits : parsed_env_value(k) <= MaxPermits THEN "running" ELSE "panicked"
      /\ maintained' = (phase' = "running" /\ TaskStarts)
  BY DEF Build, SameEnvironment
<1>2. ConfigTyped' /\ AdvertisedIsServed'
  BY <1>1, SameAnswerKept
<1>3. ConfigTyped /\ Parses /\ Valid
  BY <1>1 DEF ConfigInv, Started
<1>4. phase' = "running"
  BY <1>1, <1>3, ValidBuilds
<1>5. Started'
  BY <1>1, <1>3, SameVerdict DEF Started
<1>6. ValidatedStarts'
  <2>1. policies' = policies
    BY <1>1, SameReadings DEF policies
  <2>2. \A k : BeyondClock(k)' = BeyondClock(k)
    BY <1>1, SameReadings DEF BeyondClock
  <2>3. maintained' = TaskStarts
    BY <1>1, <1>4 DEF TaskStarts
  <2> QED
    BY <1>1, <1>3, <1>4, <2>1, <2>2, <2>3, ValidBuilds, SameFlags DEF ValidatedStarts, Intervals
<1>7. Answerable'
  BY <1>1 DEF ConfigInv, Answerable, Quiet
<1> QED
  BY <1>2, <1>5, <1>6, <1>7 DEF ConfigInv

\* The database does not answer.
LEMMA RefusalKeeps ==
    ASSUME ConfigInv, DatabaseUnavailable
    PROVE  ConfigInv'
<1>1. SameEnvironment /\ UNCHANGED <<maintained, answer>> /\ phase = "validated" /\ phase' = "refused"
  BY DEF DatabaseUnavailable, SameEnvironment
<1>2. ConfigTyped' /\ AdvertisedIsServed'
  BY <1>1, SameAnswerKept
<1>3. Started' /\ ValidatedStarts'
  BY <1>1 DEF Started, ValidatedStarts
<1>4. Answerable'
  BY <1>1 DEF ConfigInv, Answerable, Quiet
<1> QED
  BY <1>2, <1>3, <1>4 DEF ConfigInv

\* A request answered well.
LEMMA AnsweredKeeps ==
    ASSUME ConfigInv, NEW kind, NEW credential \in Credentials, NEW reply,
           Parses /\ Valid => AnsweredWell(kind, reply),
           Answered(kind, credential, reply)
    PROVE  ConfigInv'
<1> DEFINE said == IF session_id_from_headers(credential) THEN reply ELSE "forbidden"
<1>1. /\ SameEnvironment /\ UNCHANGED <<phase, maintained>> /\ phase = "running"
      /\ answer' = [asked |-> kind, credential |-> credential, reply |-> said]
  BY DEF Answered, SameEnvironment
<1>2. answer'.asked = kind /\ answer'.credential = credential /\ answer'.reply = said
  BY <1>1
<1>3. Parses /\ Valid
  BY <1>1 DEF ConfigInv, Started
<1>4. said = "forbidden" \/ (said = reply /\ (credential = "cookie" \/ allow_session_header))
  BY DEF session_id_from_headers
<1> HIDE DEF said
<1>5. ConfigTyped' /\ Started'
  BY <1>1, SameVerdict DEF ConfigInv, ConfigTyped, SameEnvironment, Started
<1>6. ValidatedStarts'
  BY <1>1, SameStart DEF ConfigInv
<1>7. Answerable'
  BY <1>1, <1>2, <1>4, SameFlags DEF Answerable
<1>8. AdvertisedIsServed'
  <2>1. AnsweredWell(answer'.asked, answer'.reply) \/ answer'.reply = "forbidden"
    BY <1>2, <1>3, <1>4
  <2> QED
    BY <1>1, <2>1, SameFlags DEF AdvertisedIsServed, AnsweredWell, UploadRefusals
<1> QED
  BY <1>5, <1>6, <1>7, <1>8 DEF ConfigInv

\* Every step keeps the invariant.
LEMMA ConfigStep ==
    ASSUME ConfigInv, [ConfigNext]_configVars
    PROVE  ConfigInv'
<1>1. ASSUME NEW k \in DOMAIN Limits, NEW n \in Numbers(k), SetNumber(k, n)
      PROVE  ConfigInv'
  <2>1. phase = "editing" /\ phase' = "editing" /\ answer' = answer
    BY <1>1 DEF SetNumber, Editable
  <2>2. answer' = Quiet
    BY <2>1 DEF ConfigInv, Answerable
  <2>3. ConfigTyped'
    BY <1>1, EditingKeepsTypes DEF ConfigInv
  <2> QED
    BY <2>1, <2>2, <2>3 DEF ConfigInv, Started, ValidatedStarts, Answerable, AdvertisedIsServed, Quiet
<1>2. ASSUME NEW k \in DOMAIN Words, NEW w \in Words[k], SetText(k, w)
      PROVE  ConfigInv'
  <2>1. phase = "editing" /\ phase' = "editing" /\ answer' = answer
    BY <1>2 DEF SetText, Editable
  <2>2. answer' = Quiet
    BY <2>1 DEF ConfigInv, Answerable
  <2>3. ConfigTyped'
    BY <1>2, EditingKeepsTypes DEF ConfigInv
  <2> QED
    BY <2>1, <2>2, <2>3 DEF ConfigInv, Started, ValidatedStarts, Answerable, AdvertisedIsServed, Quiet
<1>3. ASSUME NEW kind \in Kinds, NEW credential \in Credentials, Ask(kind, credential)
      PROVE  ConfigInv'
  BY <1>3, AskedWell, AnsweredKeeps DEF Ask, ConfigInv
<1>4. ASSUME NEW image \in Samples, NEW credential \in Credentials, AskWithImage(image, credential)
      PROVE  ConfigInv'
  BY <1>4, ImageAnsweredWell, AnsweredKeeps DEF AskWithImage, ConfigInv
<1>5. CASE UNCHANGED configVars
  <2>1. SameEnvironment /\ UNCHANGED <<phase, maintained, answer>>
    BY <1>5 DEF configVars, SameEnvironment
  <2>2. ConfigTyped' /\ AdvertisedIsServed'
    BY <2>1, SameAnswerKept
  <2>3. ValidatedStarts' /\ Started'
    BY <2>1, SameStart, SameVerdict DEF ConfigInv, Started
  <2>4. Answerable'
    BY <2>1, SameFlags DEF ConfigInv, Answerable
  <2> QED
    BY <2>2, <2>3, <2>4 DEF ConfigInv
<1> QED
  BY <1>1, <1>2, <1>3, <1>4, <1>5, LoadKeeps, BuildKeeps, RefusalKeeps DEF ConfigNext

\* Nothing has been read or asked yet.
LEMMA ConfigStart ==
    ASSUME ConfigInit
    PROVE  ConfigInv
BY DEF ConfigInit, ConfigInv, ConfigTyped, Started, ValidatedStarts, Answerable, AdvertisedIsServed, Quiet

(* Config::from_env, validate and AppState::build: what the proofs of the
   three properties rest on holds for any presets, groups and edits. *)
THEOREM ConfigInvariant == ConfigSpec => []ConfigInv
BY ConfigStart, ConfigStep, PTL DEF ConfigSpec

(* ValidatedStarts (Config::validate against AppState::build and spawn_cafe_maintenance):
   a configuration that passes validation builds. *)
THEOREM ValidatedStartsHolds == ConfigSpec => []ValidatedStarts
<1>1. ConfigInv => ValidatedStarts
  BY DEF ConfigInv
<1> QED
  BY <1>1, ConfigInvariant, PTL

(* AdvertisedIsServed (get_chat_ui_config against the handlers): what is
   offered is served, for any limits and any choice of providers. *)
THEOREM AdvertisedIsServedHolds == ConfigSpec => []AdvertisedIsServed
<1>1. ConfigInv => AdvertisedIsServed
  BY DEF ConfigInv
<1> QED
  BY <1>1, ConfigInvariant, PTL

\* Validation leaves a production server with origins that are public.
LEMMA SealedByValidation ==
    ASSUME ConfigInv
    PROVE  ProductionSealed
<1> SUFFICES ASSUME phase = "running", is_production
             PROVE  /\ should_use_secure_cookie
                    /\ answer # Quiet => answer.credential = "cookie" \/ answer.reply = "forbidden"
                    /\ \/ parse_frontend_origins = {"public"}
                       \/ \A i \in DOMAIN frontend_origin : frontend_origin[i] = "wrapped"
  BY DEF ProductionSealed
<1>1. ~allow_session_header /\ OriginsValid
  BY DEF ConfigInv, Started, Valid, ProductionValid
<1>2. \A i \in DOMAIN frontend_origin : frontend_origin[i] \in {"public", "wrapped"}
  BY <1>1 DEF OriginsValid, validate_production_origin
<1>3. ASSUME NEW i \in DOMAIN frontend_origin, frontend_origin[i] # "wrapped"
      PROVE  parse_frontend_origins = {"public"}
  BY <1>2, <1>3 DEF parse_frontend_origins
<1>4. answer # Quiet => answer.credential = "cookie" \/ answer.reply = "forbidden"
  BY <1>1 DEF ConfigInv, Answerable
<1>5. should_use_secure_cookie
  BY DEF should_use_secure_cookie
<1> QED
  BY <1>3, <1>4, <1>5

(* ProductionSealed (validate_security_config, session.rs and parse_frontend_origins):
   cookies only, marked Secure, and public https origins. *)
THEOREM ProductionSealedHolds == ConfigSpec => []ProductionSealed
BY ConfigInvariant, SealedByValidation, PTL

=============================================================================
