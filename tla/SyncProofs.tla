----------------------------- MODULE SyncProofs -----------------------------
(***************************************************************************)
(* Proofs about Sync over Sessions, for any numbers of browsers, accounts, *)
(* requests, operations and items: what accounts own stays with them, what *)
(* is deleted stays deleted, and a commit sent again has one result.       *)
(***************************************************************************)
EXTENDS Sync, InductionLemmas, FiniteSetTheorems, SequenceTheorems, TLAPS

Users == Accounts \cup {Nobody}
SessionRecord == [kind : {"guest", "registered"}, user : Users, state : {"active", "revoked", "gone"}]
RowRecord == [session : Nat, owner : Users, item : Items, at : Nat]
CommitRecord == [session : Nat, op : Operations, merged : Nat]

AccountPoints == {"migrate", "ensure", "update", "erase", "exists", "insert"}
GuestPoints == {"verify", "promote"}
SyncPoints == {"item", "exists", "insert", "save"}
RequestRecord ==
    [pc : {"idle", "respond"} \cup AccountPoints \cup GuestPoints \cup SyncPoints,
     op : Operations \cup {"none", "guest", "me", "login", "logout", "delete", "profile", "profiled"},
     by : Browsers \cup {Nobody}, session : Nat, account : Users, item : Nat, merged : Nat]

\* Sessions: the kind of a session fits its user, and without its identity an account
\* has no session left.
SessionInv ==
    /\ sessions \in Seq(SessionRecord)
    /\ \A s \in Numbers :
         /\ IsGuest(s) => UserOf(s) = Nobody
         /\ ~IsGuest(s) => UserOf(s) \in Accounts
         /\ UserOf(s) \in Accounts \ identity => sessions[s].state = "gone"

\* Rows hang on stored sessions, the rows of an account on its own.
RowInv ==
    /\ rows \subseteq RowRecord
    /\ \A x \in rows : Stored(x.session)
    /\ AccountRowsAnchored

\* There is one result for each operation of a session.
CommitInv ==
    /\ commits \subseteq CommitRecord
    /\ \A c \in commits : Stored(c.session)
    /\ \A c, d \in commits : c.session = d.session /\ c.op = d.op => c = d

\* What was answered to a session in force is what is stored.
AnswerInv == \A x \in answers : x \in commits /\ Active(x.session)

\* A request refers to a session that was once stored, of the kind its handler checked.
RequestOK(x) ==
    /\ x \in RequestRecord
    /\ x.pc # "idle" => x.session \in Numbers
    /\ x.pc \in AccountPoints => ~IsGuest(x.session)
    /\ x.pc \in GuestPoints => IsGuest(x.session)
    /\ x.pc = "promote" => x.account \in Accounts
    /\ x.pc \in SyncPoints => x.op \in Operations /\ x.item <= Len(ItemsOf[x.op])
    /\ x.pc \in {"exists", "insert"} => x.item < Len(ItemsOf[x.op])

RequestInv ==
    /\ req \in [Requests -> RequestRecord]
    /\ \A r \in Requests : RequestOK(req[r])
    /\ cookie \in [Browsers -> Numbers]

StoreInv == SessionInv /\ RowInv /\ CommitInv /\ AnswerInv
SyncInv == StoreInv /\ RequestInv

-----------------------------------------------------------------------------
(* Sessions are never renumbered and never change their kind. *)

Keeps ==
    /\ sessions' \in Seq(SessionRecord)
    /\ Len(sessions) <= Len(sessions')
    /\ \A s \in Numbers : sessions'[s].kind = sessions[s].kind /\ sessions'[s].user = sessions[s].user

\* Sessions are numbered, and the next number is new.
LEMMA NumbersAre ==
    ASSUME sessions \in Seq(SessionRecord)
    PROVE  /\ Len(sessions) \in Nat /\ Numbers \subseteq Nat /\ NewNumber \notin Numbers /\ NewNumber \in Nat
           /\ \A s \in Numbers : sessions[s] \in SessionRecord
<1> QED
  BY LenProperties DEF Numbers, NewNumber

\* Sessions put into another state keep their kind and user.
LEMMA InStateSessions ==
    ASSUME sessions \in Seq(SessionRecord), NEW S, NEW state \in {"active", "revoked", "gone"}
    PROVE  /\ InState(S, state) \in Seq(SessionRecord)
           /\ Len(InState(S, state)) = Len(sessions)
           /\ \A s \in Numbers : /\ InState(S, state)[s].kind = sessions[s].kind
                                 /\ InState(S, state)[s].user = sessions[s].user
                                 /\ InState(S, state)[s].state = IF s \in S THEN state ELSE sessions[s].state
<1> DEFINE new == InState(S, state)
<1>1. \A s \in Numbers : sessions[s] \in SessionRecord /\ [sessions[s] EXCEPT !.state = state] \in SessionRecord
  BY NumbersAre DEF SessionRecord
<1>2. new \in [Numbers -> SessionRecord]
  BY <1>1 DEF InState
<1>3. new \in Seq(SessionRecord) /\ Len(new) = Len(sessions)
  BY <1>2, NumbersAre, IsASeq, LenProperties DEF Numbers
<1>4. ASSUME NEW s \in Numbers
      PROVE  /\ new[s].kind = sessions[s].kind /\ new[s].user = sessions[s].user
             /\ new[s].state = IF s \in S THEN state ELSE sessions[s].state
  <2>1. new[s] = IF s \in S THEN [sessions[s] EXCEPT !.state = state] ELSE sessions[s]
    BY DEF InState
  <2> QED
    BY <1>1, <2>1 DEF SessionRecord
<1> QED
  BY <1>3, <1>4

\* Sessions of S change their state and one session is added.
LEMMA AppendSession ==
    ASSUME sessions \in Seq(SessionRecord), NEW S, NEW state \in {"active", "revoked", "gone"},
           NEW new \in SessionRecord, sessions' = Append(InState(S, state), new)
    PROVE  /\ Keeps /\ Numbers' = Numbers \cup {NewNumber} /\ sessions'[NewNumber] = new
           /\ \A s \in Numbers : sessions'[s].state = IF s \in S THEN state ELSE sessions[s].state
<1>1. /\ InState(S, state) \in Seq(SessionRecord)
      /\ Len(InState(S, state)) = Len(sessions)
      /\ \A s \in Numbers : /\ InState(S, state)[s].kind = sessions[s].kind
                            /\ InState(S, state)[s].user = sessions[s].user
                            /\ InState(S, state)[s].state = IF s \in S THEN state ELSE sessions[s].state
  BY InStateSessions
<1>2. /\ sessions' \in Seq(SessionRecord) /\ Len(sessions') = Len(sessions) + 1
      /\ \A s \in 1..Len(sessions) : sessions'[s] = InState(S, state)[s]
      /\ sessions'[Len(sessions) + 1] = new
  BY <1>1, AppendProperties
<1>3. Len(sessions) \in Nat
  BY NumbersAre
<1> QED
  BY <1>1, <1>2, <1>3 DEF Keeps, Numbers, NewNumber

\* Putting some sessions into another state keeps every session, its kind and its user.
LEMMA SetStates ==
    ASSUME sessions \in Seq(SessionRecord), NEW S, NEW state \in {"active", "revoked", "gone"},
           sessions' = InState(S, state)
    PROVE  /\ Keeps /\ Numbers' = Numbers
           /\ \A s \in Numbers : sessions'[s].state = IF s \in S THEN state ELSE sessions[s].state
<1> QED
  BY InStateSessions, NumbersAre DEF Keeps, Numbers

\* A new guest session takes the next number.
LEMMA AppendGuest ==
    ASSUME sessions \in Seq(SessionRecord), sessions' = Append(sessions, NewGuest)
    PROVE  /\ Keeps /\ Numbers' = Numbers \cup {NewNumber} /\ sessions'[NewNumber] = NewGuest
           /\ \A s \in Numbers : sessions'[s].state = sessions[s].state
<1>1. NewGuest \in SessionRecord
  BY DEF NewGuest, Session, SessionRecord, Users
<1>2. /\ sessions' \in Seq(SessionRecord) /\ Len(sessions') = Len(sessions) + 1
      /\ \A s \in 1..Len(sessions) : sessions'[s] = sessions[s]
      /\ sessions'[Len(sessions) + 1] = NewGuest
  BY <1>1, AppendProperties
<1>3. Len(sessions) \in Nat
  BY NumbersAre
<1> QED
  BY <1>2, <1>3 DEF Keeps, Numbers, NewNumber

\* Sessions begin active, as a guest's or an account's.
LEMMA NewSessions ==
    /\ NewGuest \in SessionRecord /\ NewGuest.kind = "guest" /\ NewGuest.user = Nobody /\ NewGuest.state = "active"
    /\ \A a \in Accounts : /\ Session("registered", a) \in SessionRecord
                           /\ Session("registered", a).kind = "registered"
                           /\ Session("registered", a).user = a
                           /\ Session("registered", a).state = "active"
<1> QED
  BY DEF NewGuest, Session, SessionRecord, Users

-----------------------------------------------------------------------------
(* Requests. *)

\* One request moves; the sessions the others refer to keep their kinds.
LEMMA RequestMoves ==
    ASSUME RequestInv, SessionInv, Keeps, NEW r \in Requests, NEW new,
           req' = [req EXCEPT ![r] = new], RequestOK(new)',
           UNCHANGED cookie \/ cookie' \in [Browsers -> Numbers]
    PROVE  RequestInv'
<1>1. \A q \in Requests : req'[q] = IF q = r THEN new ELSE req[q]
  BY DEF RequestInv
<1>2. Numbers \subseteq Numbers'
  BY NumbersAre, LenProperties DEF Keeps, Numbers, SessionInv
<1>3. new \in RequestRecord
  BY DEF RequestOK
<1>4. req' \in [Requests -> RequestRecord]
  BY <1>3 DEF RequestInv
<1>5. ASSUME NEW q \in Requests PROVE RequestOK(req[q])'
  <2>1. CASE q = r
    <3>1. req'[q] = new
      BY <1>1, <2>1
    <3> QED
      BY <3>1 DEF RequestOK, IsGuest, Numbers
  <2>2. CASE q # r
    <3>1. req'[q] = req[q] /\ RequestOK(req[q])
      BY <1>1, <2>2 DEF RequestInv
    <3>2. req[q].pc # "idle" => req[q].session \in Numbers /\ req[q].session \in Numbers'
                                /\ sessions'[req[q].session].kind = sessions[req[q].session].kind
      BY <1>2, <3>1 DEF RequestOK, Keeps
    <3> QED
      BY <3>1, <3>2 DEF RequestOK, IsGuest, AccountPoints, GuestPoints, SyncPoints
  <2> QED
    BY <2>1, <2>2
<1>6. cookie' \in [Browsers -> Numbers']
  BY <1>2 DEF RequestInv
<1> QED
  BY <1>4, <1>5, <1>6 DEF RequestInv

\* ... or none does.
LEMMA RequestsStay ==
    ASSUME RequestInv, SessionInv, Keeps, UNCHANGED <<req, cookie>>
    PROVE  RequestInv'
<1>1. Numbers \subseteq Numbers'
  BY NumbersAre, LenProperties DEF Keeps, Numbers, SessionInv
<1>2. ASSUME NEW q \in Requests PROVE RequestOK(req[q])'
  <2>1. RequestOK(req[q])
    BY DEF RequestInv
  <2>2. req[q].pc # "idle" => req[q].session \in Numbers /\ req[q].session \in Numbers'
                              /\ sessions'[req[q].session].kind = sessions[req[q].session].kind
    BY <1>1, <2>1 DEF RequestOK, Keeps
  <2> QED
    BY <2>1, <2>2 DEF RequestOK, IsGuest, AccountPoints, GuestPoints, SyncPoints
<1> QED
  BY <1>1, <1>2 DEF RequestInv

\* Sessions that stay are kept.
LEMMA SameSessions ==
    ASSUME SessionInv, UNCHANGED sessions
    PROVE  Keeps
<1> QED
  BY NumbersAre DEF Keeps, SessionInv

\* A request not under way is in order.
LEMMA NoRequestOK == NoRequest \in RequestRecord /\ NoRequest.pc = "idle" /\ RequestOK(NoRequest)
<1>1. NoRequest \in RequestRecord /\ NoRequest.pc = "idle"
  BY DEF NoRequest, RequestRecord, Users
<1> QED
  BY <1>1 DEF RequestOK, AccountPoints, GuestPoints, SyncPoints

\* A request that ends.
LEMMA EndOK ==
    ASSUME RequestInv, SessionInv, Keeps, NEW r \in Requests, End(r),
           UNCHANGED cookie \/ cookie' \in [Browsers -> Numbers]
    PROVE  RequestInv'
<1>1. RequestOK(NoRequest)'
  <2>1. NoRequest \in RequestRecord /\ NoRequest.pc = "idle"
    BY NoRequestOK
  <2> QED
    BY <2>1 DEF RequestOK, AccountPoints, GuestPoints, SyncPoints
<1> DEFINE new == NoRequest
<1>2. req' = [req EXCEPT ![r] = new]
  BY DEF End
<1>3. RequestOK(new)'
  BY <1>1
<1> HIDE DEF new
<1> QED
  BY <1>2, <1>3, RequestMoves

\* A request that begins, with the session it read or made.
LEMMA BeginOK ==
    ASSUME RequestInv, SessionInv, Keeps, NEW r \in Requests, NEW b \in Browsers,
           NEW op \in Operations \cup {"guest", "me", "login", "logout", "delete", "profile"},
           NEW s \in Numbers', NEW pc \in {"respond", "migrate", "ensure", "erase", "verify", "item"},
           Begin(r, b, op, s, pc), UNCHANGED cookie,
           pc \in {"migrate", "ensure", "erase"} => sessions'[s].kind # "guest",
           pc = "verify" => sessions'[s].kind = "guest",
           pc = "item" => op \in Operations
    PROVE  RequestInv'
<1> DEFINE new == [NoRequest EXCEPT !.pc = pc, !.op = op, !.by = b, !.session = s]
<1>1. s \in Nat
  BY LenProperties DEF Numbers, Keeps
<1>2. req' = [req EXCEPT ![r] = new]
  BY DEF Begin
<1>3. new \in RequestRecord /\ new.pc = pc /\ new.op = op /\ new.session = s /\ new.item = 0
  BY <1>1 DEF NoRequest, RequestRecord, AccountPoints, GuestPoints, SyncPoints, Users
<1> HIDE DEF new
<1>4. op \in Operations => Len(ItemsOf[op]) \in Nat
  BY SyncAssumption, LenProperties DEF SyncAssumption
<1>5. RequestOK(new)'
  BY <1>3, <1>4 DEF RequestOK, IsGuest, AccountPoints, GuestPoints, SyncPoints
<1> QED
  BY <1>2, <1>5, RequestMoves

\* A request that goes to another point with the same session.
LEMMA GoOK ==
    ASSUME RequestInv, SessionInv, UNCHANGED <<sessions, cookie>>, NEW r \in Requests,
           NEW pc \in {"ensure", "update", "respond", "exists", "insert", "save"}, Go(r, pc),
           req[r].pc # "idle",
           pc \in {"ensure", "update", "exists", "insert"} => ~IsGuest(req[r].session),
           pc \in SyncPoints => req[r].op \in Operations /\ req[r].item <= Len(ItemsOf[req[r].op]),
           pc \in {"exists", "insert"} => req[r].item < Len(ItemsOf[req[r].op])
    PROVE  RequestInv'
<1>0. PICK new : new = [req[r] EXCEPT !.pc = pc]
  OBVIOUS
<1>1. req[r] \in RequestRecord /\ RequestOK(req[r])
  BY DEF RequestInv
<1>2. req' = [req EXCEPT ![r] = new]
  BY <1>0 DEF Go
<1>3. /\ new \in RequestRecord /\ new.pc = pc /\ new.op = req[r].op /\ new.session = req[r].session
      /\ new.item = req[r].item /\ new.account = req[r].account
  BY <1>0, <1>1 DEF RequestRecord, AccountPoints, GuestPoints, SyncPoints
<1>4. RequestOK(new)'
  BY <1>1, <1>3 DEF RequestOK, IsGuest, Numbers, AccountPoints, GuestPoints, SyncPoints
<1> QED
  BY <1>2, <1>4, SameSessions, RequestMoves

\* The next item of a commit.
LEMMA NextItemOK ==
    ASSUME RequestInv, SessionInv, UNCHANGED <<sessions, cookie>>, NEW r \in Requests,
           NEW saved \in {0, 1}, NextItem(r, saved), req[r].pc \in SyncPoints,
           req[r].item < Len(ItemsOf[req[r].op])
    PROVE  RequestInv'
<1> DEFINE item == req[r].item + 1
           merged == req[r].merged + saved
<1>0. PICK new : new = [req[r] EXCEPT !.pc = "item", !.item = item, !.merged = merged]
  OBVIOUS
<1>1. req[r] \in RequestRecord /\ RequestOK(req[r])
  BY DEF RequestInv
<1>2. req[r].op \in Operations /\ Len(ItemsOf[req[r].op]) \in Nat
  BY <1>1, SyncAssumption, LenProperties DEF SyncAssumption, RequestOK
<1>3. item \in Nat /\ merged \in Nat /\ item <= Len(ItemsOf[req[r].op])
  BY <1>1, <1>2 DEF RequestRecord
<1>4. req' = [req EXCEPT ![r] = new]
  BY <1>0, <1>1 DEF NextItem, RequestInv, RequestRecord
<1> HIDE DEF item, merged
<1>5. /\ new \in RequestRecord /\ new.pc = "item" /\ new.op = req[r].op /\ new.session = req[r].session
      /\ new.item = item
  BY <1>0, <1>1, <1>3 DEF RequestRecord, SyncPoints
<1>6. RequestOK(new)'
  BY <1>1, <1>2, <1>3, <1>5 DEF RequestOK, Numbers, AccountPoints, GuestPoints, SyncPoints
<1> QED
  BY <1>4, <1>6, SameSessions, RequestMoves

-----------------------------------------------------------------------------
(* The store. *)

\* Answers to sessions no longer in force are dropped from the history.
Forget == answers' = {x \in answers : sessions'[x.session].state = "active"}

\* Answers to commits that are no longer stored are forgotten with their sessions.
LEMMA AnswersForgotten ==
    ASSUME StoreInv, Keeps, Forget, \A c \in commits : c.session \in Numbers /\ c \notin commits' =>
                                                       sessions'[c.session].state # "active"
    PROVE  AnswerInv'
<1>1. \A x \in answers' : x \in answers /\ x \in commits /\ x.session \in Numbers
                          /\ sessions'[x.session].state = "active"
  BY DEF Forget, StoreInv, AnswerInv, Active
<1>2. Numbers \subseteq Numbers'
  BY NumbersAre, LenProperties DEF Keeps, Numbers, SessionInv, StoreInv
<1> QED
  BY <1>1, <1>2 DEF AnswerInv, Active

\* Sessions are added, revoked or expire.
LEMMA SessionsOnly ==
    ASSUME StoreInv, Keeps, Forget, UNCHANGED <<identity, rows, commits>>,
           \A s \in Numbers : sessions'[s].state = "gone" <=> sessions[s].state = "gone",
           \A s \in Numbers' \ Numbers : sessions'[s].kind = "guest" /\ sessions'[s].user = Nobody
    PROVE  StoreInv'
<1>1. Numbers \subseteq Numbers'
  BY NumbersAre, LenProperties DEF Keeps, Numbers, SessionInv, StoreInv
<1>2. Nobody \notin Accounts
  BY SessionsAssumption DEF SessionsAssumption
<1>3. \A s \in Numbers : /\ IsGuest(s)' <=> IsGuest(s)
                         /\ UserOf(s)' = UserOf(s)
                         /\ Stored(s)' <=> Stored(s)
  BY <1>1 DEF Keeps, IsGuest, UserOf, Stored
<1>4. SessionInv'
  BY <1>1, <1>2, <1>3 DEF StoreInv, SessionInv, Keeps, IsGuest, UserOf
<1>5. RowInv'
  <2>1. \A x \in rows : x.session \in Numbers
    BY DEF StoreInv, RowInv, Stored
  <2> QED
    BY <1>3, <2>1 DEF StoreInv, RowInv, AccountRowsAnchored
<1>6. CommitInv'
  <2>1. \A c \in commits : c.session \in Numbers
    BY DEF StoreInv, CommitInv, Stored
  <2> QED
    BY <1>3, <2>1 DEF StoreInv, CommitInv
<1>7. AnswerInv'
  BY AnswersForgotten
<1> QED
  BY <1>4, <1>5, <1>6, <1>7 DEF StoreInv

\* A step that leaves the tables alone keeps them in order.
LEMMA StoreStays ==
    ASSUME StoreInv, UNCHANGED <<sessions, identity, rows, commits>>, answers' \subseteq answers
    PROVE  StoreInv'
<1>1. SessionInv' /\ RowInv' /\ CommitInv'
  BY DEF StoreInv, SessionInv, RowInv, CommitInv, AccountRowsAnchored, Stored, IsGuest, UserOf, Numbers
<1>2. AnswerInv'
  BY DEF StoreInv, AnswerInv, Active, Numbers
<1> QED
  BY <1>1, <1>2 DEF StoreInv

\* Rows are written while sessions and commits stay.
LEMMA RowsOnly ==
    ASSUME StoreInv, UNCHANGED <<sessions, identity, commits>>, answers' \subseteq answers,
           \A x \in rows' : /\ x \in RowRecord /\ Stored(x.session)
                            /\ x.owner # Nobody => ~IsGuest(x.session) /\ UserOf(x.session) = x.owner
    PROVE  StoreInv'
<1>1. SessionInv' /\ CommitInv'
  BY DEF StoreInv, SessionInv, CommitInv, Stored, IsGuest, UserOf, Numbers
<1>2. RowInv'
  BY DEF RowInv, AccountRowsAnchored, Stored, IsGuest, UserOf, Numbers
<1>3. AnswerInv'
  BY DEF StoreInv, AnswerInv, Active, Numbers
<1> QED
  BY <1>1, <1>2, <1>3 DEF StoreInv

\* A row belongs to a stored session, and a row of an account to a session of it.
LEMMA RowFacts ==
    ASSUME StoreInv, NEW x \in rows
    PROVE  /\ x \in RowRecord /\ Stored(x.session) /\ x.session \in Numbers
           /\ x.owner # Nobody => ~IsGuest(x.session) /\ UserOf(x.session) = x.owner
<1> QED
  BY DEF StoreInv, RowInv, AccountRowsAnchored, Stored

\* migrate_session_data_to_user: what a session owned becomes its account's.
LEMMA MigratedRow ==
    ASSUME rows \subseteq RowRecord, NEW s, NEW a \in Accounts, NEW y \in Migrated(rows, s, a)
    PROVE  /\ y \in RowRecord
           /\ \E x \in rows : /\ y.session = x.session /\ y.at = x.at
                              /\ y.owner = IF x.session = s /\ x.owner = Nobody THEN a ELSE x.owner
<1>1. PICK x \in rows : y = IF x.session = s /\ x.owner = Nobody THEN [x EXCEPT !.owner = a] ELSE x
  BY DEF Migrated
<1>2. x \in RowRecord
  OBVIOUS
<1>3. CASE x.session = s /\ x.owner = Nobody
  <2>1. y = [x EXCEPT !.owner = a]
    BY <1>1, <1>3
  <2>2. y \in RowRecord /\ y.session = x.session /\ y.owner = a /\ y.at = x.at
    BY <1>2, <2>1 DEF RowRecord, Users
  <2> QED
    BY <1>3, <2>2
<1>4. CASE ~(x.session = s /\ x.owner = Nobody)
  BY <1>1, <1>2, <1>4
<1> QED
  BY <1>3, <1>4

\* Promotion of a guest keeps the invariant.
LEMMA MigrateStep ==
    ASSUME SyncInv, NEW r \in Requests, MigrateSessionData(r), Forget
    PROVE  SyncInv'
<1> USE DEF SyncInv
<1> DEFINE s == req[r].session
<1>1. /\ req[r].pc = "migrate" /\ UNCHANGED <<sessions, identity, commits, cookie>>
      /\ rows' = Migrated(rows, s, UserOf(s)) /\ Go(r, "ensure")
  BY DEF MigrateSessionData, At
<1>2. RequestOK(req[r]) /\ s \in Numbers /\ ~IsGuest(s) /\ UserOf(s) \in Accounts
  BY <1>1 DEF RequestInv, RequestOK, AccountPoints, StoreInv, SessionInv
<1>3. RequestInv'
  BY <1>1, <1>2, GoOK DEF StoreInv, SyncPoints
<1>4. PICK a \in Accounts : a = UserOf(s)
  BY <1>2
<1>5. ASSUME NEW y \in rows'
      PROVE  /\ y \in RowRecord /\ Stored(y.session)
             /\ y.owner # Nobody => ~IsGuest(y.session) /\ UserOf(y.session) = y.owner
  <2>1. rows \subseteq RowRecord /\ y \in Migrated(rows, s, a)
    BY <1>1, <1>4, <1>5 DEF StoreInv, RowInv
  <2>2. PICK x \in rows : /\ y.session = x.session
                          /\ y.owner = IF x.session = s /\ x.owner = Nobody THEN a ELSE x.owner
    BY <2>1, MigratedRow
  <2>3. y \in RowRecord
    BY <2>1, MigratedRow
  <2> QED
    BY <1>2, <1>4, <2>2, <2>3, RowFacts
<1>6. answers' \subseteq answers
  BY DEF Forget
<1> QED
  BY <1>1, <1>3, <1>5, <1>6, RowsOnly

\* The rows and commits of a session hang on another one.
LEMMA ReparentedRow ==
    ASSUME NEW R, R \subseteq RowRecord, NEW old, NEW new \in Nat, NEW y \in Reparented(R, old, new)
    PROVE  /\ y \in RowRecord
           /\ \E x \in R : /\ y.session = IF x.session = old THEN new ELSE x.session
                           /\ y.owner = x.owner /\ y.at = x.at
<1>1. PICK x \in R : y = IF x.session = old THEN [x EXCEPT !.session = new] ELSE x
  BY DEF Reparented
<1>2. x \in RowRecord
  OBVIOUS
<1>3. CASE x.session = old
  <2>1. y = [x EXCEPT !.session = new]
    BY <1>1, <1>3
  <2>2. y \in RowRecord /\ y.session = new /\ y.owner = x.owner /\ y.at = x.at
    BY <1>2, <2>1 DEF RowRecord
  <2> QED
    BY <1>3, <2>2
<1>4. CASE x.session # old
  BY <1>1, <1>2, <1>4
<1> QED
  BY <1>3, <1>4

\* What giving the commits of a session to another does.
LEMMA ReparentedCommit ==
    ASSUME NEW C, C \subseteq CommitRecord, NEW old, NEW new \in Nat
    PROVE  /\ \A y \in Reparented(C, old, new) :
                /\ y \in CommitRecord
                /\ \E x \in C : /\ y.session = IF x.session = old THEN new ELSE x.session
                                /\ y.op = x.op /\ y.merged = x.merged
           /\ \A x \in C : x.session # old => x \in Reparented(C, old, new)
<1>1. ASSUME NEW y \in Reparented(C, old, new)
      PROVE  /\ y \in CommitRecord
             /\ \E x \in C : /\ y.session = IF x.session = old THEN new ELSE x.session
                             /\ y.op = x.op /\ y.merged = x.merged
  <2>1. PICK x \in C : y = IF x.session = old THEN [x EXCEPT !.session = new] ELSE x
    BY <1>1 DEF Reparented
  <2>2. x \in CommitRecord
    OBVIOUS
  <2>3. CASE x.session = old
    <3>1. y = [x EXCEPT !.session = new]
      BY <2>1, <2>3
    <3>2. y \in CommitRecord /\ y.session = new /\ y.op = x.op /\ y.merged = x.merged
      BY <2>2, <3>1 DEF CommitRecord
    <3> QED
      BY <2>3, <3>1, <3>2
  <2>4. CASE x.session # old
    <3>1. y = x
      BY <2>1, <2>4
    <3> QED
      BY <2>2, <2>4, <3>1
  <2> QED
    BY <2>3, <2>4
<1>2. \A x \in C : x.session # old => x \in Reparented(C, old, new)
  BY DEF Reparented
<1> QED
  BY <1>1, <1>2

\* Login: the guest's rows and commits become the account's and hang on its new session.
LEMMA PromoteStep ==
    ASSUME SyncInv, NEW r \in Requests, Promote(r), Forget
    PROVE  SyncInv'
<1> USE DEF SyncInv
<1>1. PICK s : s = req[r].session
  OBVIOUS
<1>2. PICK a : a = req[r].account
  OBVIOUS
<1>3. PICK n : n = NewNumber
  OBVIOUS
<1>4. /\ req[r].pc = "promote" /\ UNCHANGED cookie /\ RequestOK(req[r]) /\ req[r] \in RequestRecord
      /\ s \in Numbers /\ IsGuest(s) /\ a \in Accounts /\ sessions \in Seq(SessionRecord)
  BY <1>1, <1>2 DEF Promote, At, RequestInv, RequestOK, GuestPoints, StoreInv, SessionInv
<1>5. CASE End(r) /\ UNCHANGED accountVars
  <2>1. Keeps
    BY <1>5, SameSessions DEF accountVars, StoreInv
  <2>2. RequestInv'
    BY <1>4, <1>5, <2>1, EndOK DEF StoreInv
  <2>3. answers' \subseteq answers
    BY DEF Forget
  <2> QED
    BY <1>5, <2>2, <2>3, StoreStays DEF accountVars
<1>6. CASE /\ PromoteGuestSession(s, a)
           /\ req' = [req EXCEPT ![r].pc = "ensure", ![r].session = NewNumber, ![r].account = Nobody]
  <2> DEFINE user == Session("registered", a)
  <2>1. /\ Active(s) /\ sessions' = Append(InState({s}, "revoked"), user)
        /\ identity' = identity \cup {a}
        /\ rows' = Reparented(Migrated(rows, s, a), s, n)
        /\ commits' = Reparented(commits, s, n)
    BY <1>3, <1>6 DEF PromoteGuestSession
  <2>2. user \in SessionRecord /\ user.kind = "registered" /\ user.user = a /\ user.state = "active"
    BY <1>4, NewSessions
  <2> HIDE DEF user
  <2>3. /\ Keeps /\ Numbers' = Numbers \cup {n} /\ sessions'[n] = user
        /\ \A t \in Numbers : sessions'[t].state = IF t \in {s} THEN "revoked" ELSE sessions[t].state
    BY <1>3, <1>4, <2>1, <2>2, AppendSession
  <2>4. n \notin Numbers /\ n \in Nat /\ Numbers \subseteq Nat /\ s # n
    BY <1>3, <1>4, NumbersAre
  <2>5. /\ \A t \in Numbers : /\ IsGuest(t)' <=> IsGuest(t)
                              /\ UserOf(t)' = UserOf(t)
                              /\ Stored(t)' <=> Stored(t)
        /\ Stored(n)' /\ ~IsGuest(n)' /\ UserOf(n)' = a
    BY <2>1, <2>2, <2>3 DEF Keeps, IsGuest, UserOf, Stored, Active
  <2>6. SessionInv'
    <3>1. \A t \in Numbers : sessions[t].state = "gone" => sessions'[t].state = "gone"
      BY <2>1, <2>3 DEF Active
    <3>2. \A t \in Numbers' : /\ IsGuest(t)' => UserOf(t)' = Nobody
                              /\ ~IsGuest(t)' => UserOf(t)' \in Accounts
                              /\ UserOf(t)' \in Accounts \ identity' => sessions'[t].state = "gone"
      BY <1>4, <2>1, <2>3, <2>5, <3>1 DEF StoreInv, SessionInv
    <3> QED
      BY <2>3, <3>2 DEF SessionInv, Keeps
  <2>7. RowInv'
    <3> SUFFICES ASSUME NEW y \in rows'
                 PROVE  /\ y \in RowRecord /\ Stored(y.session)'
                        /\ y.owner # Nobody => ~IsGuest(y.session)' /\ UserOf(y.session)' = y.owner
      BY DEF RowInv, AccountRowsAnchored
    <3>1. rows \subseteq RowRecord /\ Migrated(rows, s, a) \subseteq RowRecord
      BY <1>4, MigratedRow DEF StoreInv, RowInv
    <3>2. y \in RowRecord /\ \E z \in Migrated(rows, s, a) :
             y.session = (IF z.session = s THEN n ELSE z.session) /\ y.owner = z.owner
      <4> DEFINE M == Migrated(rows, s, a)
      <4>1. M \subseteq RowRecord /\ y \in Reparented(M, s, n)
        BY <2>1, <3>1
      <4> HIDE DEF M
      <4>2. y \in RowRecord /\ \E z \in M : y.session = (IF z.session = s THEN n ELSE z.session) /\ y.owner = z.owner
        BY <2>4, <4>1, ReparentedRow
      <4> QED
        BY <4>2 DEF M
    <3>3. PICK z \in Migrated(rows, s, a) :
             y.session = (IF z.session = s THEN n ELSE z.session) /\ y.owner = z.owner
      BY <3>2
    <3>4. PICK x \in rows : /\ z.session = x.session
                            /\ z.owner = IF x.session = s /\ x.owner = Nobody THEN a ELSE x.owner
      BY <1>4, <3>1, MigratedRow
    <3>5. /\ Stored(x.session) /\ x.session \in Numbers
          /\ x.owner # Nobody => ~IsGuest(x.session) /\ UserOf(x.session) = x.owner
      BY RowFacts
    <3>6. CASE x.session = s
      <4>1. y.session = n /\ y.owner = a
        BY <1>4, <3>3, <3>4, <3>5, <3>6
      <4> QED
        BY <2>5, <3>2, <4>1
    <3>7. CASE x.session # s
      <4>1. y.session = x.session /\ y.owner = x.owner
        BY <3>3, <3>4, <3>7
      <4> QED
        BY <2>5, <3>2, <3>5, <4>1
    <3> QED
      BY <3>6, <3>7
  <2>8. CommitInv'
    <3>0. commits \subseteq CommitRecord /\ \A c \in commits : c.session \in Numbers /\ Stored(c.session)
      BY DEF StoreInv, CommitInv, Stored
    <3>1. \A y \in commits' :
            /\ y \in CommitRecord
            /\ \E x \in commits : /\ y.session = IF x.session = s THEN n ELSE x.session
                                  /\ y.op = x.op /\ y.merged = x.merged
      BY <2>1, <2>4, <3>0, ReparentedCommit
    <3>2. ASSUME NEW c \in commits', NEW d \in commits', c.session = d.session, c.op = d.op
          PROVE  c = d
      <4>1. PICK x \in commits : /\ c.session = IF x.session = s THEN n ELSE x.session
                                 /\ c.op = x.op /\ c.merged = x.merged
        BY <3>1
      <4>2. PICK y \in commits : /\ d.session = IF y.session = s THEN n ELSE y.session
                                 /\ d.op = y.op /\ d.merged = y.merged
        BY <3>1
      <4>3. x.session = y.session /\ x.op = y.op
        BY <2>4, <3>0, <3>2, <4>1, <4>2
      <4>4. x = y
        BY <4>3 DEF StoreInv, CommitInv
      <4>5. c \in CommitRecord /\ d \in CommitRecord /\ c.merged = d.merged
        BY <3>1, <4>1, <4>2, <4>4
      <4> QED
        BY <3>2, <4>5 DEF CommitRecord
    <3>3. \A c \in commits' : Stored(c.session)'
      BY <2>5, <3>0, <3>1
    <3> QED
      BY <3>1, <3>2, <3>3 DEF CommitInv
  <2>9. AnswerInv'
    <3>1. \A c \in commits : c.session # s => c \in commits'
      BY <2>1, <2>4, ReparentedCommit DEF StoreInv, CommitInv
    <3>2. sessions'[s].state # "active"
      BY <1>4, <2>3
    <3> QED
      BY <2>3, <3>1, <3>2, AnswersForgotten
  <2>10. RequestInv'
    <3>1. PICK new : new = [req[r] EXCEPT !.pc = "ensure", !.session = n, !.account = Nobody]
      OBVIOUS
    <3>2. req' = [req EXCEPT ![r] = new]
      BY <1>3, <1>4, <1>6, <3>1 DEF RequestInv, RequestRecord
    <3>3. new \in RequestRecord /\ new.pc = "ensure" /\ new.session = n
      BY <1>4, <2>4, <3>1 DEF RequestRecord, AccountPoints, Users
    <3>4. RequestOK(new)'
      BY <2>3, <2>5, <3>3 DEF RequestOK, AccountPoints, GuestPoints, SyncPoints
    <3> QED
      BY <1>4, <2>3, <3>2, <3>4, RequestMoves DEF StoreInv
  <2> QED
    BY <2>6, <2>7, <2>8, <2>9, <2>10 DEF StoreInv
<1> QED
  BY <1>1, <1>2, <1>5, <1>6 DEF Promote

\* Deletion: all sessions of the account go, and with them whatever hangs on them.
LEMMA EraseStep ==
    ASSUME SyncInv, NEW r \in Requests, DeleteRegisteredAccount(r), Forget
    PROVE  SyncInv'
<1> USE DEF SyncInv
<1>1. PICK s : s = req[r].session
  OBVIOUS
<1>2. PICK a : a = UserOf(s)
  OBVIOUS
<1>3. PICK n : n = NewNumber
  OBVIOUS
<1>4. /\ req[r].pc = "erase" /\ UNCHANGED cookie /\ RequestOK(req[r]) /\ req[r] \in RequestRecord
      /\ s \in Numbers /\ ~IsGuest(s) /\ a \in Accounts /\ sessions \in Seq(SessionRecord) /\ Nobody \notin Accounts
  BY <1>1, <1>2, SessionsAssumption
     DEF DeleteRegisteredAccount, Erase, At, RequestInv, RequestOK, AccountPoints, StoreInv, SessionInv,
         SessionsAssumption
<1>5. CASE End(r) /\ UNCHANGED accountVars
  <2>1. Keeps
    BY <1>5, SameSessions DEF accountVars, StoreInv
  <2>2. RequestInv'
    BY <1>4, <1>5, <2>1, EndOK DEF StoreInv
  <2>3. answers' \subseteq answers
    BY DEF Forget
  <2> QED
    BY <1>5, <2>2, <2>3, StoreStays DEF accountVars
<1>6. PICK gone : gone = SessionsOf(a)
  OBVIOUS
<1>7. CASE /\ sessions' = Append(InState(gone, "gone"), NewGuest)
           /\ identity' = identity \ {a}
           /\ rows' = {x \in rows : x.owner # a /\ x.session \notin gone}
           /\ commits' = {c \in commits : c.session \notin gone \cup {x.session : x \in {y \in rows : y.owner = a}}}
           /\ req' = [req EXCEPT ![r].pc = "respond", ![r].session = n]
  <2>1. NewGuest \in SessionRecord /\ NewGuest.kind = "guest" /\ NewGuest.user = Nobody /\ NewGuest.state = "active"
    BY NewSessions
  <2>2. /\ Keeps /\ Numbers' = Numbers \cup {n} /\ sessions'[n] = NewGuest
        /\ \A t \in Numbers : sessions'[t].state = IF t \in gone THEN "gone" ELSE sessions[t].state
    BY <1>3, <1>4, <1>7, <2>1, AppendSession
  <2>3. n \notin Numbers /\ n \in Nat /\ \A t \in Numbers : t \in gone <=> UserOf(t) = a
    BY <1>3, <1>4, <1>6, NumbersAre DEF SessionsOf
  <2>4. \A t \in Numbers : /\ IsGuest(t)' <=> IsGuest(t)
                           /\ UserOf(t)' = UserOf(t)
                           /\ t \notin gone => (Stored(t)' <=> Stored(t))
    BY <2>2 DEF Keeps, IsGuest, UserOf, Stored
  <2>5. IsGuest(n)' /\ UserOf(n)' = Nobody
    BY <2>1, <2>2 DEF IsGuest, UserOf
  <2>6. SessionInv'
    <3>1. ASSUME NEW t \in Numbers'
          PROVE  /\ IsGuest(t)' => UserOf(t)' = Nobody
                 /\ ~IsGuest(t)' => UserOf(t)' \in Accounts
                 /\ UserOf(t)' \in Accounts \ identity' => sessions'[t].state = "gone"
      <4>1. CASE t = n
        BY <1>4, <2>5, <4>1
      <4>2. CASE t \in Numbers /\ t \in gone
        BY <2>2, <2>4, <4>2 DEF StoreInv, SessionInv
      <4>3. CASE t \in Numbers /\ t \notin gone
        BY <1>7, <2>2, <2>3, <2>4, <4>3 DEF StoreInv, SessionInv
      <4> QED
        BY <2>2, <4>1, <4>2, <4>3
    <3> QED
      BY <2>2, <3>1 DEF SessionInv, Keeps
  <2>7. RowInv'
    <3>1. \A x \in rows' : x \in rows /\ x.session \notin gone
      BY <1>7
    <3> QED
      BY <2>4, <3>1, RowFacts DEF RowInv, AccountRowsAnchored
  <2>8. CommitInv'
    <3>1. \A c \in commits' : c \in commits /\ c.session \notin gone
      BY <1>7
    <3>2. \A c \in commits : c.session \in Numbers
      BY DEF StoreInv, CommitInv, Stored
    <3> QED
      BY <2>4, <3>1, <3>2 DEF StoreInv, CommitInv
  <2>9. AnswerInv'
    <3>1. \A x \in rows : x.owner = a => x.session \in gone
      BY <1>4, <2>3, RowFacts
    <3>2. \A c \in commits : c \notin commits' => c.session \in gone
      BY <1>7, <3>1
    <3>3. \A c \in commits : c.session \in Numbers /\ c \notin commits' => sessions'[c.session].state # "active"
      BY <2>2, <3>2
    <3> QED
      BY <2>2, <3>3, AnswersForgotten
  <2>10. RequestInv'
    <3>1. PICK new : new = [req[r] EXCEPT !.pc = "respond", !.session = n]
      OBVIOUS
    <3>2. req' = [req EXCEPT ![r] = new]
      BY <1>4, <1>7, <3>1 DEF RequestInv, RequestRecord
    <3>3. new \in RequestRecord /\ new.pc = "respond" /\ new.session = n
      BY <1>4, <2>3, <3>1 DEF RequestRecord
    <3>4. RequestOK(new)'
      BY <2>2, <3>3 DEF RequestOK, AccountPoints, GuestPoints, SyncPoints
    <3> QED
      BY <1>4, <2>2, <3>2, <3>4, RequestMoves DEF StoreInv
  <2> QED
    BY <2>6, <2>7, <2>8, <2>9, <2>10 DEF StoreInv
<1> QED
  BY <1>1, <1>2, <1>3, <1>5, <1>6, <1>7 DEF DeleteRegisteredAccount, Erase

\* The cleanup takes whole sessions, and none that an account's row hangs on.
LEMMA CleanupStep ==
    ASSUME SyncInv, CleanupInactiveGuestSessions, Forget
    PROVE  SyncInv'
<1> USE DEF SyncInv
<1>1. PICK gone : gone = {s \in Numbers : Removable(s)}
  OBVIOUS
<1>2. /\ sessions' = InState(gone, "gone") /\ UNCHANGED <<identity, cookie, req>>
      /\ rows' = {x \in rows : x.session \notin gone}
      /\ commits' = {c \in commits : c.session \notin gone}
      /\ sessions \in Seq(SessionRecord)
  BY <1>1 DEF CleanupInactiveGuestSessions, StoreInv, SessionInv
<1>3. /\ Keeps /\ Numbers' = Numbers
      /\ \A t \in Numbers : sessions'[t].state = IF t \in gone THEN "gone" ELSE sessions[t].state
  BY <1>2, SetStates
<1>4. \A t \in Numbers : /\ IsGuest(t)' <=> IsGuest(t)
                         /\ UserOf(t)' = UserOf(t)
                         /\ t \notin gone => (Stored(t)' <=> Stored(t))
  BY <1>3 DEF Keeps, IsGuest, UserOf, Stored
<1>5. SessionInv'
  BY <1>2, <1>3, <1>4 DEF StoreInv, SessionInv, Keeps
<1>6. RowInv'
  <2>1. \A x \in rows' : x \in rows /\ x.session \notin gone
    BY <1>2
  <2> QED
    BY <1>4, <2>1, RowFacts DEF RowInv, AccountRowsAnchored
<1>7. CommitInv'
  <2>1. \A c \in commits' : c \in commits /\ c.session \notin gone
    BY <1>2
  <2>2. \A c \in commits : c.session \in Numbers
    BY DEF StoreInv, CommitInv, Stored
  <2> QED
    BY <1>4, <2>1, <2>2 DEF StoreInv, CommitInv
<1>8. AnswerInv'
  <2>1. \A c \in commits : c.session \in Numbers /\ c \notin commits' => sessions'[c.session].state # "active"
    BY <1>2, <1>3
  <2> QED
    BY <1>3, <2>1, AnswersForgotten
<1>9. RequestInv'
  BY <1>2, <1>3, RequestsStay DEF StoreInv
<1> QED
  BY <1>5, <1>6, <1>7, <1>8, <1>9 DEF StoreInv

\* Requests of a browser to the session endpoints keep the invariant.
LEMMA BrowserSteps ==
    ASSUME SyncInv, NEW r \in Requests, NEW b \in Browsers, Forget,
           \/ CreateGuestSession(r, b) \/ CurrentUser(r, b) \/ LoginWithGoogle(r, b)
           \/ Logout(r, b) \/ DeleteAccount(r, b) \/ UpdateProfile(r, b)
    PROVE  SyncInv'
<1> USE DEF SyncInv
<1>0. sessions \in Seq(SessionRecord) /\ cookie[b] \in Numbers /\ answers' \subseteq answers
  BY DEF StoreInv, SessionInv, RequestInv, Forget
<1>1. ASSUME NEW op \in {"guest", "me"}, InsertGuest(r, b, op) PROVE SyncInv'
  <2>1. PICK n : n = NewNumber
    OBVIOUS
  <2>2. /\ sessions' = Append(sessions, NewGuest) /\ Begin(r, b, op, n, "respond")
        /\ UNCHANGED <<identity, rows, commits, cookie>>
    BY <1>1, <2>1 DEF InsertGuest
  <2>3. /\ Keeps /\ Numbers' = Numbers \cup {n} /\ sessions'[n] = NewGuest
        /\ \A s \in Numbers : sessions'[s].state = sessions[s].state
    BY <1>0, <2>1, <2>2, AppendGuest
  <2>4. StoreInv'
    BY <2>2, <2>3, SessionsOnly, NewSessions
  <2>5. RequestInv'
    BY <2>2, <2>3, BeginOK DEF StoreInv
  <2> QED
    BY <2>4, <2>5
<1>2. CASE Logout(r, b)
  <2>0. NewGuest \in SessionRecord
    BY NewSessions
  <2>1. PICK n : n = NewNumber
    OBVIOUS
  <2>2. PICK s : s = cookie[b]
    OBVIOUS
  <2>3. /\ sessions' = Append(InState({s}, "revoked"), NewGuest) /\ Begin(r, b, "logout", n, "respond")
        /\ UNCHANGED <<identity, rows, commits, cookie>> /\ Active(s)
    BY <1>2, <2>1, <2>2 DEF Logout
  <2>4. /\ Keeps /\ Numbers' = Numbers \cup {n} /\ sessions'[n] = NewGuest
        /\ \A t \in Numbers : sessions'[t].state = IF t \in {s} THEN "revoked" ELSE sessions[t].state
    BY <1>0, <2>0, <2>1, <2>3, AppendSession
  <2>5. StoreInv'
    BY <2>3, <2>4, SessionsOnly, NewSessions DEF Active
  <2>6. RequestInv'
    BY <2>3, <2>4, BeginOK DEF StoreInv
  <2> QED
    BY <2>5, <2>6
<1>3. ASSUME NEW op \in {"me", "login", "delete", "profile"}, NEW pc \in {"respond", "migrate", "verify", "erase", "ensure"},
             Begin(r, b, op, cookie[b], pc), UNCHANGED <<accountVars, cookie>>,
             pc \in {"migrate", "erase", "ensure"} => ~IsGuest(cookie[b]),
             pc = "verify" => IsGuest(cookie[b])
      PROVE  SyncInv'
  <2>1. PICK s : s = cookie[b]
    OBVIOUS
  <2>2. Keeps /\ s \in Numbers' /\ sessions' = sessions
    BY <1>0, <1>3, <2>1, SameSessions DEF accountVars, StoreInv, Numbers
  <2>3. RequestInv'
    BY <1>3, <2>1, <2>2, BeginOK DEF StoreInv, IsGuest
  <2> QED
    BY <1>0, <1>3, <2>3, StoreStays DEF accountVars
<1>4. CASE CurrentUser(r, b)
  BY <1>1, <1>3, <1>4 DEF CurrentUser
<1>5. CASE LoginWithGoogle(r, b)
  BY <1>3, <1>5 DEF LoginWithGoogle
<1>6. CASE DeleteAccount(r, b)
  BY <1>3, <1>6 DEF DeleteAccount
<1>7. CASE UpdateProfile(r, b)
  BY <1>3, <1>7 DEF UpdateProfile
<1> QED
  BY <1>1, <1>2, <1>4, <1>5, <1>6, <1>7 DEF CreateGuestSession

\* The statements of those handlers keep the invariant.
LEMMA HandlerSteps ==
    ASSUME SyncInv, NEW r \in Requests, Forget,
           EnsureUserProfile(r) \/ VerifyGoogleToken(r) \/ UpdateUserProfile(r) \/ Respond(r) \/ Disconnect(r)
    PROVE  SyncInv'
<1> USE DEF SyncInv
<1>1. UNCHANGED <<sessions, identity, rows, commits>> /\ answers' \subseteq answers
  BY DEF EnsureUserProfile, VerifyGoogleToken, UpdateUserProfile, Respond, Disconnect, accountVars, Forget
<1>2. StoreInv'
  BY <1>1, StoreStays
<1>3. Keeps
  BY <1>1, SameSessions DEF StoreInv
<1>4. RequestOK(req[r]) /\ req[r] \in RequestRecord
  BY DEF RequestInv
<1>5. CASE EnsureUserProfile(r)
  <2>1. req[r].pc = "ensure" /\ ~IsGuest(req[r].session) /\ UNCHANGED cookie
        /\ (Go(r, "update") \/ Go(r, "respond"))
    BY <1>4, <1>5 DEF EnsureUserProfile, At, RequestOK, AccountPoints
  <2> QED
    BY <1>1, <1>2, <2>1, GoOK DEF StoreInv, SyncPoints
<1>6. CASE End(r) /\ (UNCHANGED cookie \/ cookie' \in [Browsers -> Numbers])
  BY <1>2, <1>3, <1>6, EndOK DEF StoreInv
<1>7. ASSUME req[r].pc # "idle", UNCHANGED cookie, NEW new \in RequestRecord, req' = [req EXCEPT ![r] = new],
             new.session = req[r].session, new.pc \in AccountPoints \ SyncPoints => ~IsGuest(req[r].session),
             new.pc \in GuestPoints => IsGuest(req[r].session),
             new.pc = "promote" => new.account \in Accounts, new.pc \in {"ensure", "promote"}
      PROVE  SyncInv'
  <2>1. RequestOK(new)'
    BY <1>1, <1>4, <1>7 DEF RequestOK, IsGuest, Numbers, AccountPoints, GuestPoints, SyncPoints
  <2> QED
    BY <1>2, <1>3, <1>7, <2>1, RequestMoves DEF StoreInv
<1>8. CASE VerifyGoogleToken(r)
  <2>1. req[r].pc = "verify" /\ IsGuest(req[r].session) /\ UNCHANGED cookie
    BY <1>4, <1>8 DEF VerifyGoogleToken, At, RequestOK, GuestPoints
  <2>2. ASSUME NEW a \in Accounts, req' = [req EXCEPT ![r].pc = "promote", ![r].account = a] PROVE SyncInv'
    <3>1. PICK new : new = [req[r] EXCEPT !.pc = "promote", !.account = a]
      OBVIOUS
    <3>2. req' = [req EXCEPT ![r] = new]
      BY <1>4, <2>2, <3>1 DEF RequestInv, RequestRecord
    <3>3. new \in RequestRecord /\ new.pc = "promote" /\ new.account = a /\ new.session = req[r].session
      BY <1>4, <3>1 DEF RequestRecord, GuestPoints, Users
    <3> QED
      BY <1>7, <2>1, <3>2, <3>3 DEF AccountPoints
  <2> QED
    BY <1>6, <1>8, <2>1, <2>2 DEF VerifyGoogleToken
<1>9. CASE UpdateUserProfile(r)
  <2>1. req[r].pc = "update" /\ ~IsGuest(req[r].session) /\ UNCHANGED cookie
    BY <1>4, <1>9 DEF UpdateUserProfile, At, RequestOK, AccountPoints
  <2>2. CASE req' = [req EXCEPT ![r].pc = "ensure", ![r].op = "profiled"]
    <3>1. PICK new : new = [req[r] EXCEPT !.pc = "ensure", !.op = "profiled"]
      OBVIOUS
    <3>2. req' = [req EXCEPT ![r] = new]
      BY <1>4, <2>2, <3>1 DEF RequestInv, RequestRecord
    <3>3. new \in RequestRecord /\ new.pc = "ensure" /\ new.session = req[r].session
      BY <1>4, <3>1 DEF RequestRecord, AccountPoints
    <3> QED
      BY <1>7, <2>1, <3>2, <3>3 DEF GuestPoints
  <2> QED
    BY <1>6, <1>9, <2>1, <2>2 DEF UpdateUserProfile
<1>10. CASE Respond(r)
  <2>1. End(r) /\ req[r].session \in Numbers
    BY <1>4, <1>10 DEF Respond, At, RequestOK
  <2>2. cookie' = cookie \/ cookie' = [cookie EXCEPT ![req[r].by] = req[r].session]
    BY <1>10 DEF Respond
  <2>3. UNCHANGED cookie \/ cookie' \in [Browsers -> Numbers]
    BY <2>1, <2>2 DEF RequestInv
  <2> QED
    BY <1>6, <2>1, <2>3
<1>11. CASE Disconnect(r)
  BY <1>6, <1>11 DEF Disconnect
<1> QED
  BY <1>5, <1>8, <1>9, <1>10, <1>11

\* The expiry of a session keeps the invariant.
LEMMA ExpireStep ==
    ASSUME SyncInv, NEW s \in Numbers, Expire(s), Forget
    PROVE  SyncInv'
<1> USE DEF SyncInv
<1>1. /\ sessions \in Seq(SessionRecord) /\ Active(s) /\ sessions' = InState({s}, "revoked")
      /\ UNCHANGED <<identity, rows, commits, cookie, req>>
  BY DEF StoreInv, SessionInv, Expire
<1>2. /\ Keeps /\ Numbers' = Numbers
      /\ \A t \in Numbers : sessions'[t].state = IF t \in {s} THEN "revoked" ELSE sessions[t].state
  BY <1>1, SetStates
<1>3. StoreInv'
  BY <1>1, <1>2, SessionsOnly DEF Active
<1>4. RequestInv'
  BY <1>1, <1>2, RequestsStay DEF StoreInv
<1> QED
  BY <1>3, <1>4

-----------------------------------------------------------------------------
(* Commits of items. *)

\* The operation at hand is one of the commit's.
LEMMA CurrentOK ==
    ASSUME RequestInv, NEW r \in Requests, req[r].pc \in SyncPoints, req[r].pc = "item" => ~Done(r),
           req[r].pc # "save"
    PROVE  /\ req[r].item < Len(ItemsOf[req[r].op]) /\ req[r].session \in Numbers /\ req[r].op \in Operations
           /\ Current(r).item \in Items /\ Current(r).at \in Nat
<1>1. RequestOK(req[r]) /\ req[r] \in RequestRecord
  BY DEF RequestInv
<1>2. PICK op : op = req[r].op
  OBVIOUS
<1>3. PICK n : n = req[r].item
  OBVIOUS
<1>4. op \in Operations /\ n \in Nat /\ n <= Len(ItemsOf[op])
  BY <1>1, <1>2, <1>3 DEF RequestOK, RequestRecord
<1>5. ItemsOf[op] \in Seq([item : Items, at : Nat]) /\ Len(ItemsOf[op]) \in Nat
  BY <1>4, SyncAssumption, LenProperties DEF SyncAssumption
<1>6. n < Len(ItemsOf[op])
  BY <1>1, <1>2, <1>3, <1>4, <1>5 DEF RequestOK, Done, SyncPoints
<1>7. n + 1 \in 1 .. Len(ItemsOf[op])
  BY <1>4, <1>5, <1>6
<1>8. ItemsOf[op][n + 1] \in [item : Items, at : Nat]
  BY <1>5, <1>7, ElementOfSeq
<1>9. Current(r) = ItemsOf[op][n + 1]
  BY <1>2, <1>3 DEF Current
<1> QED
  BY <1>1, <1>2, <1>3, <1>4, <1>6, <1>8, <1>9 DEF RequestOK, SyncPoints

\* A row that is inserted, or the rows whose stamp is overwritten.
LEMMA NewRow ==
    ASSUME NEW r \in Requests, req[r].session \in Nat, Current(r).item \in Items, Current(r).at \in Nat,
           NEW a \in Users
    PROVE  Row(r, a) \in RowRecord /\ Row(r, a).session = req[r].session /\ Row(r, a).owner = a
           /\ Row(r, a).at = Current(r).at
<1> QED
  BY DEF Row, RowRecord

\* A written row keeps its session and owner.
LEMMA WrittenRow ==
    ASSUME rows \subseteq RowRecord, NEW S, S \subseteq rows, NEW at \in Nat, NEW y \in Written(S, at)
    PROVE  y \in RowRecord /\ \E x \in rows : y.session = x.session /\ y.owner = x.owner /\ y.at \in {x.at, at}
<1>1. CASE y \in rows
  BY <1>1
<1>2. CASE y \notin rows
  <2>1. PICK x \in S : y = [x EXCEPT !.at = at]
    BY <1>2 DEF Written
  <2>2. x \in RowRecord
    OBVIOUS
  <2>3. y \in RowRecord /\ y.session = x.session /\ y.owner = x.owner /\ y.at = at
    BY <2>1, <2>2 DEF RowRecord
  <2> QED
    BY <2>3
<1> QED
  BY <1>1, <1>2

\* The start of a commit keeps the invariant.
LEMMA CommitStarts ==
    ASSUME SyncInv, NEW r \in Requests, NEW b \in Browsers, NEW op \in Operations, SyncCommit(r, b, op)
    PROVE  SyncInv'
<1> USE DEF SyncInv
<1>1. PICK s : s = cookie[b]
  OBVIOUS
<1>2. Begin(r, b, op, s, "item") /\ UNCHANGED <<sessions, identity, rows, commits, cookie, answers>> /\ s \in Numbers'
  BY <1>1 DEF SyncCommit, accountVars, RequestInv, Numbers
<1>3. Keeps
  BY <1>2, SameSessions DEF StoreInv
<1>4. RequestInv'
  BY <1>2, <1>3, BeginOK DEF StoreInv
<1> QED
  BY <1>2, <1>4, StoreStays

\* Each item of a commit, merged for a guest or an account, keeps the invariant.
LEMMA ItemSteps ==
    ASSUME SyncInv, NEW r \in Requests,
           SkipInvalid(r) \/ UpsertGuestEntity(r) \/ UpdateAccountEntity(r) \/ FindAccountEntity(r) \/ InsertAccountEntity(r)
    PROVE  SyncInv'
<1> USE DEF SyncInv
<1>1. /\ req[r].pc \in {"item", "exists", "insert"} /\ (req[r].pc = "item" => ~Done(r))
      /\ UNCHANGED <<sessions, identity, commits, cookie, answers>>
  BY DEF SkipInvalid, UpsertGuestEntity, UpdateAccountEntity, FindAccountEntity, InsertAccountEntity, At, accountVars
<1>2. /\ req[r].item < Len(ItemsOf[req[r].op]) /\ req[r].session \in Numbers /\ req[r].op \in Operations
      /\ Current(r).item \in Items /\ Current(r).at \in Nat
  BY <1>1, CurrentOK DEF SyncPoints
<1>3. /\ rows \subseteq RowRecord /\ req[r].session \in Nat /\ RequestOK(req[r]) /\ Keeps
      /\ sessions \in Seq(SessionRecord) /\ Nobody \in Users /\ Len(ItemsOf[req[r].op]) \in Nat /\ req[r].item \in Nat
  <2>1. Keeps
    BY <1>1, SameSessions DEF StoreInv
  <2>2. RequestOK(req[r]) /\ req[r] \in RequestRecord
    BY DEF RequestInv
  <2>3. Len(ItemsOf[req[r].op]) \in Nat
    BY <1>2, SyncAssumption, LenProperties DEF SyncAssumption
  <2> QED
    BY <2>1, <2>2, <2>3 DEF StoreInv, RowInv, SessionInv, Users, RequestRecord
<1>4. ASSUME NEW saved \in {0, 1}, NextItem(r, saved) PROVE RequestInv'
  BY <1>1, <1>2, <1>4, NextItemOK DEF StoreInv, SyncPoints
<1>5. ASSUME End(r) PROVE RequestInv'
  BY <1>1, <1>3, <1>5, EndOK DEF StoreInv
<1>6. ASSUME NEW pc \in {"exists", "insert"}, Go(r, pc), ~IsGuest(req[r].session) PROVE RequestInv'
  BY <1>1, <1>2, <1>3, <1>6, GoOK DEF StoreInv, SyncPoints
<1>7. ASSUME UNCHANGED rows PROVE StoreInv'
  BY <1>1, <1>7, StoreStays
<1>8. CASE SkipInvalid(r)
  BY <1>4, <1>7, <1>8 DEF SkipInvalid, accountVars
<1>9. CASE UpsertGuestEntity(r)
  <2> DEFINE old == {x \in rows : x.session = req[r].session /\ x.item = Current(r).item}
             newer == {x \in old : ~MayOverwrite(x.at, Current(r).at)}
             next == (rows \ old) \cup {Row(r, Nobody)}
  <2>1. CASE End(r) /\ UNCHANGED rows
    BY <1>5, <1>7, <2>1
  <2>2. CASE /\ Stored(req[r].session)
             /\ rows' = IF newer # {} THEN rows ELSE next
             /\ NextItem(r, IF newer = {} THEN 1 ELSE 0)
    <3>1. RequestInv'
      BY <1>4, <2>2
    <3>2. \A x \in next : x \in rows \/ x = Row(r, Nobody)
      OBVIOUS
    <3>3. \A x \in rows' : x \in rows \/ x = Row(r, Nobody)
      BY <2>2, <3>2
    <3>4. Row(r, Nobody) \in RowRecord /\ Row(r, Nobody).session = req[r].session /\ Row(r, Nobody).owner = Nobody
      BY <1>2, <1>3, NewRow
    <3>5. ASSUME NEW x \in rows'
          PROVE  /\ x \in RowRecord /\ Stored(x.session)
                 /\ x.owner # Nobody => ~IsGuest(x.session) /\ UserOf(x.session) = x.owner
      <4>1. CASE x \in rows
        BY <4>1, RowFacts
      <4>2. CASE x = Row(r, Nobody)
        BY <2>2, <3>4, <4>2
      <4> QED
        BY <3>3, <4>1, <4>2
    <3> QED
      BY <1>1, <3>1, <3>5, RowsOnly
  <2> QED
    BY <1>9, <2>1, <2>2 DEF UpsertGuestEntity
<1>10. CASE UpdateAccountEntity(r)
  <2> DEFINE older == {x \in Same(r) : MayOverwrite(x.at, Current(r).at)}
  <2>1. /\ rows' = Written(older, Current(r).at) /\ ~IsGuest(req[r].session) /\ older \subseteq rows
        /\ NextItem(r, 1) \/ Go(r, "exists")
    BY <1>10 DEF UpdateAccountEntity, Same
  <2> HIDE DEF older
  <2>2. RequestInv'
    BY <1>4, <1>6, <2>1
  <2>3. PICK at \in Nat : at = Current(r).at
    BY <1>2
  <2>4. ASSUME NEW y \in rows'
        PROVE  /\ y \in RowRecord /\ Stored(y.session)
               /\ y.owner # Nobody => ~IsGuest(y.session) /\ UserOf(y.session) = y.owner
    <3>1. y \in Written(older, at)
      BY <2>1, <2>3
    <3>2. y \in RowRecord /\ \E x \in rows : y.session = x.session /\ y.owner = x.owner
      BY <1>3, <2>1, <3>1, WrittenRow
    <3>3. PICK x \in rows : y.session = x.session /\ y.owner = x.owner
      BY <3>2
    <3> QED
      BY <3>2, <3>3, RowFacts
  <2> QED
    BY <1>1, <2>2, <2>4, RowsOnly
<1>11. CASE FindAccountEntity(r)
  <2>1. UNCHANGED rows /\ ~IsGuest(req[r].session) /\ (NextItem(r, 0) \/ Go(r, "insert"))
    BY <1>3, <1>11 DEF FindAccountEntity, accountVars, RequestOK, At, AccountPoints
  <2> QED
    BY <1>4, <1>6, <1>7, <2>1
<1>12. CASE InsertAccountEntity(r)
  <2>1. PICK a : a = UserOf(req[r].session)
    OBVIOUS
  <2>2. ~IsGuest(req[r].session) /\ a \in Accounts
    BY <1>2, <1>3, <1>12, <2>1 DEF InsertAccountEntity, At, RequestOK, AccountPoints, StoreInv, SessionInv
  <2>3. CASE End(r) /\ UNCHANGED rows
    BY <1>5, <1>7, <2>3
  <2>4. CASE Stored(req[r].session) /\ rows' = rows \cup {Row(r, a)} /\ NextItem(r, 1)
    <3>1. Row(r, a) \in RowRecord /\ Row(r, a).session = req[r].session /\ Row(r, a).owner = a
      BY <1>2, <1>3, <2>2, NewRow DEF Users
    <3>2. ASSUME NEW x \in rows'
          PROVE  /\ x \in RowRecord /\ Stored(x.session)
                 /\ x.owner # Nobody => ~IsGuest(x.session) /\ UserOf(x.session) = x.owner
      <4>1. CASE x \in rows
        BY <4>1, RowFacts
      <4>2. CASE x = Row(r, a)
        BY <2>1, <2>2, <2>4, <3>1, <4>2
      <4> QED
        BY <2>4, <4>1, <4>2
    <3>3. RequestInv'
      BY <1>4, <2>4
    <3> QED
      BY <1>1, <3>2, <3>3, RowsOnly
  <2> QED
    BY <1>12, <2>1, <2>3, <2>4 DEF InsertAccountEntity
<1> QED
  BY <1>8, <1>9, <1>10, <1>11, <1>12

\* The result found for a commit is the stored one.
LEMMA ResultIsStored ==
    ASSUME CommitInv, NEW s, NEW op, NEW c \in CommitsOf(s, op)
    PROVE  [session |-> s, op |-> op, merged |-> c.merged] = c /\ c \in commits
<1>1. c \in CommitRecord /\ c.session = s /\ c.op = op /\ c \in commits
  BY DEF CommitInv, CommitsOf
<1> QED
  BY <1>1 DEF CommitRecord

\* save_sync_commit answers with what is stored, now or before.
LEMMA AnswerStored ==
    ASSUME StoreInv, UNCHANGED sessions, commits \subseteq commits', NEW r \in Requests, NEW merged, Answer(r, merged),
           [session |-> req[r].session, op |-> req[r].op, merged |-> merged] \in commits'
    PROVE  AnswerInv' /\ End(r)
<1> DEFINE mine == [session |-> req[r].session, op |-> req[r].op, merged |-> merged]
<1>1. End(r) /\ (answers' = answers \/ (Active(req[r].session) /\ answers' = answers \cup {mine}))
  BY DEF Answer
<1>2. mine \in commits' /\ mine.session = req[r].session
  OBVIOUS
<1> HIDE DEF mine
<1>3. \A x \in answers' : x \in commits' /\ Active(x.session)
  BY <1>1, <1>2 DEF StoreInv, AnswerInv
<1> QED
  BY <1>1, <1>3 DEF AnswerInv, Active, Numbers

\* Finding and saving the commit keep the invariant.
LEMMA CommitSteps ==
    ASSUME SyncInv, NEW r \in Requests, FindCommit(r) \/ SaveCommit(r)
    PROVE  SyncInv'
<1> USE DEF SyncInv
<1>1. PICK s : s = req[r].session
  OBVIOUS
<1>2. PICK op : op = req[r].op
  OBVIOUS
<1>3. PICK merged : merged = req[r].merged
  OBVIOUS
<1>4. UNCHANGED <<sessions, identity, rows, cookie>> /\ req[r].pc \in {"item", "save"}
  BY DEF FindCommit, SaveCommit, accountVars, At
<1>5. /\ RequestOK(req[r]) /\ s \in Nat /\ s \in Numbers /\ op \in Operations /\ merged \in Nat /\ Keeps
      /\ req[r].item <= Len(ItemsOf[op])
  BY <1>1, <1>2, <1>3, <1>4, SameSessions DEF RequestInv, RequestOK, RequestRecord, SyncPoints, StoreInv
<1>6. ASSUME End(r) PROVE RequestInv'
  BY <1>4, <1>5, <1>6, EndOK DEF StoreInv
<1>7. SessionInv' /\ RowInv'
  BY <1>4 DEF StoreInv, SessionInv, RowInv, AccountRowsAnchored, Stored, IsGuest, UserOf, Numbers
<1>8. ASSUME UNCHANGED commits PROVE CommitInv'
  BY <1>4, <1>8 DEF StoreInv, CommitInv, Stored, Numbers
<1>9. ASSUME CommitsOf(s, op) # {}, Answer(r, OriginalResult(r).merged), UNCHANGED commits PROVE SyncInv'
  <2>1. PICK c : c = OriginalResult(r)
    OBVIOUS
  <2>2. c \in CommitsOf(s, op)
    BY <1>1, <1>2, <1>9, <2>1 DEF OriginalResult
  <2>3. [session |-> s, op |-> op, merged |-> c.merged] \in commits
    BY <2>2, ResultIsStored DEF StoreInv
  <2>4. PICK m : m = c.merged
    OBVIOUS
  <2>5. Answer(r, m) /\ [session |-> req[r].session, op |-> req[r].op, merged |-> m] \in commits'
    BY <1>1, <1>2, <1>9, <2>1, <2>3, <2>4
  <2>6. AnswerInv' /\ End(r)
    BY <1>4, <1>9, <2>5, AnswerStored
  <2> QED
    BY <1>6, <1>7, <1>8, <1>9, <2>6 DEF StoreInv
<1>10. CASE FindCommit(r)
  <2>1. UNCHANGED commits
    BY <1>10 DEF FindCommit, accountVars
  <2>2. CASE Go(r, "save") /\ UNCHANGED answers
    <3>1. RequestInv'
      BY <1>2, <1>4, <1>5, <2>2, GoOK DEF StoreInv, SyncPoints
    <3> QED
      BY <1>4, <2>1, <2>2, <3>1, StoreStays
  <2> QED
    BY <1>1, <1>2, <1>9, <1>10, <2>1, <2>2 DEF FindCommit
<1>11. CASE SaveCommit(r)
  <2> DEFINE mine == [session |-> s, op |-> op, merged |-> merged]
  <2>1. CASE End(r) /\ UNCHANGED <<commits, answers>>
    BY <1>4, <1>6, <2>1, StoreStays
  <2>2. CASE Stored(s) /\ CommitsOf(s, op) = {} /\ commits' = commits \cup {mine} /\ Answer(r, merged)
    <3>1. mine \in CommitRecord /\ mine.session = s /\ mine.op = op
      BY <1>5 DEF CommitRecord
    <3>2. [session |-> req[r].session, op |-> req[r].op, merged |-> merged] \in commits'
      BY <1>1, <1>2, <2>2
    <3>3. AnswerInv' /\ End(r)
      BY <1>4, <2>2, <3>2, AnswerStored
    <3> HIDE DEF mine
    <3>4. \A c \in commits : ~(c.session = s /\ c.op = op)
      BY <2>2 DEF CommitsOf
    <3>5. \A c \in commits' : c \in commits \/ c = mine
      BY <2>2
    <3>6. \A c, d \in commits' : c.session = d.session /\ c.op = d.op => c = d
      BY <3>1, <3>4, <3>5 DEF StoreInv, CommitInv
    <3>7. \A c \in commits' : c \in CommitRecord /\ Stored(c.session)
      BY <2>2, <3>1, <3>5 DEF StoreInv, CommitInv
    <3>8. CommitInv'
      BY <1>4, <3>6, <3>7 DEF CommitInv, Stored, Numbers
    <3> QED
      BY <1>6, <1>7, <3>3, <3>8 DEF StoreInv
  <2>3. \/ End(r) /\ UNCHANGED <<commits, answers>>
        \/ CommitsOf(s, op) # {} /\ Answer(r, OriginalResult(r).merged) /\ UNCHANGED commits
        \/ Stored(s) /\ CommitsOf(s, op) = {} /\ commits' = commits \cup {mine} /\ Answer(r, merged)
    BY <1>1, <1>2, <1>3, <1>11 DEF SaveCommit
  <2> QED
    BY <1>9, <2>1, <2>2, <2>3
<1> QED
  BY <1>10, <1>11

-----------------------------------------------------------------------------
\* Nothing happening keeps the invariant.
LEMMA SyncStutter ==
    ASSUME SyncInv, UNCHANGED vars
    PROVE  SyncInv'
<1>1. UNCHANGED <<sessions, identity, rows, commits, cookie, req, answers>>
  BY DEF vars
<1>2. StoreInv'
  BY <1>1, StoreStays DEF SyncInv
<1>3. RequestInv'
  BY <1>1, SameSessions, RequestsStay DEF SyncInv, StoreInv
<1> QED
  BY <1>2, <1>3 DEF SyncInv

\* Every step keeps the invariant of sync.
LEMMA SyncStep ==
    ASSUME SyncInv, [Next]_vars
    PROVE  SyncInv'
<1>1. ASSUME SessionsNext, Forget PROVE SyncInv'
  BY <1>1, BrowserSteps, HandlerSteps, MigrateStep, PromoteStep, EraseStep, ExpireStep, CleanupStep DEF SessionsNext
<1> QED
  BY <1>1, CommitStarts, ItemSteps, CommitSteps, SyncStutter DEF Next, Forget

\* Every browser begins with a session of its own, and an account that has one has its identity.
LEMMA SyncBegins ==
    ASSUME Init
    PROVE  SyncInv
<1>1. PICK browser \in [1 .. Cardinality(Browsers) -> Browsers], user \in [Browsers -> Accounts \cup {Nobody}] :
        /\ cookie \in [Browsers -> DOMAIN browser]
        /\ sessions = [n \in DOMAIN browser |->
              IF user[browser[n]] = Nobody THEN NewGuest ELSE Session("registered", user[browser[n]])]
        /\ identity = {user[b] : b \in Browsers} \ {Nobody}
        /\ rows = {} /\ commits = {} /\ req = [r \in Requests |-> NoRequest]
  BY DEF Init, SessionsInit
<1>2. PICK n \in Nat : n = Cardinality(Browsers)
  BY FS_CardinalityType, SessionsAssumption DEF SessionsAssumption
<1>3. \A k \in 1 .. n : browser[k] \in Browsers /\ user[browser[k]] \in Users
  BY <1>1, <1>2 DEF Users
<1>4. /\ sessions = [k \in 1 .. n |->
              IF user[browser[k]] = Nobody THEN NewGuest ELSE Session("registered", user[browser[k]])]
      /\ cookie \in [Browsers -> 1 .. n]
  BY <1>1, <1>2
<1>5. \A k \in 1 .. n : /\ sessions[k] \in SessionRecord
                        /\ user[browser[k]] = Nobody => sessions[k] = NewGuest
                        /\ user[browser[k]] # Nobody => /\ user[browser[k]] \in Accounts
                                                        /\ sessions[k] = Session("registered", user[browser[k]])
  BY <1>3, <1>4, NewSessions DEF Users
<1>6. sessions \in [1 .. n -> SessionRecord]
  BY <1>4, <1>5
<1>7. sessions \in Seq(SessionRecord) /\ Len(sessions) = n
  BY <1>6, IsASeq, LenProperties
<1>8. SessionInv
  <2>1. \A k \in 1 .. n : user[browser[k]] # Nobody => user[browser[k]] \in identity
    BY <1>1, <1>3
  <2> QED
    BY <1>5, <1>7, <2>1, NewSessions, SessionsAssumption DEF SessionInv, Numbers, IsGuest, UserOf, SessionsAssumption
<1>9. RowInv /\ CommitInv /\ AnswerInv
  BY <1>1 DEF Init, RowInv, CommitInv, AnswerInv, AccountRowsAnchored
<1>10. RequestInv
  BY <1>1, <1>4, <1>7, NoRequestOK DEF RequestInv, Numbers
<1> QED
  BY <1>8, <1>9, <1>10 DEF SyncInv, StoreInv

(***************************************************************************)
(* The inductive invariant of sessions and sync: sessions keep their kind  *)
(* and number and those of an account without an identity are gone; rows   *)
(* and commits hang on stored sessions, an account's on its own; there is  *)
(* one result for each operation of a session, and all that was answered   *)
(* to a session in force is stored; requests refer to sessions of the kind *)
(* their handlers checked, whatever has become of those since.             *)
(***************************************************************************)
THEOREM SyncInvariant == Spec => []SyncInv
<1>1. Init => SyncInv
  BY SyncBegins
<1>2. SyncInv /\ [Next]_vars => SyncInv'
  BY SyncStep
<1> QED
  BY <1>1, <1>2, PTL DEF Spec

(***************************************************************************)
(* No row of an account is left on a guest session, so the cleanup of      *)
(* guests (cleanup_inactive_guest_sessions) never takes one with it.       *)
(***************************************************************************)
THEOREM AccountRowsAnchoredHolds == Spec => []AccountRowsAnchored
<1>1. SyncInv => AccountRowsAnchored
  BY DEF SyncInv, StoreInv, RowInv
<1> QED
  BY <1>1, SyncInvariant, PTL

(***************************************************************************)
(* After delete_registered_account nothing of the account comes back,      *)
(* whatever requests of its other sessions were still under way.           *)
(***************************************************************************)
THEOREM DeletionErasesHolds == Spec => []DeletionErases
<1>1. ASSUME SyncInv PROVE DeletionErases
  <2> SUFFICES ASSUME NEW a \in Accounts \ identity
               PROVE  /\ \A x \in rows : x.owner # a
                      /\ \A s \in SessionsOf(a) : ~Active(s)
                      /\ \A c \in commits : UserOf(c.session) # a
    BY DEF DeletionErases
  <2>1. \A s \in Numbers : UserOf(s) = a => sessions[s].state = "gone"
    BY <1>1 DEF SyncInv, StoreInv, SessionInv
  <2>2. a # Nobody
    BY SessionsAssumption DEF SessionsAssumption
  <2>3. \A x \in rows : x.owner # a
    BY <1>1, <2>1, <2>2, RowFacts DEF SyncInv, Stored
  <2>4. \A s \in SessionsOf(a) : ~Active(s)
    BY <2>1 DEF SessionsOf, Active
  <2>5. \A c \in commits : UserOf(c.session) # a
    BY <1>1, <2>1 DEF SyncInv, StoreInv, CommitInv, Stored
  <2> QED
    BY <2>3, <2>4, <2>5
<1> QED
  BY <1>1, SyncInvariant, PTL

(***************************************************************************)
(* A commit that is sent again, even while the first is under way, has one *)
(* result as long as its session is in force (save_sync_commit).           *)
(***************************************************************************)
THEOREM CommitIdempotentHolds == Spec => []CommitIdempotent
<1>1. SyncInv => CommitIdempotent
  BY DEF SyncInv, StoreInv, AnswerInv, CommitInv, CommitIdempotent
<1> QED
  BY <1>1, SyncInvariant, PTL

-----------------------------------------------------------------------------
(***************************************************************************)
(* Pulls and previews read the greatest of several stamps: there is one,   *)
(* since in every state the stamps have a bound.                           *)
(***************************************************************************)
Bounded == \E n \in Nat : \A x \in rows : x.at <= n

\* A step that writes one new stamp leaves stamps bounded.
LEMMA StampsBounded ==
    ASSUME SyncInv, Bounded, NEW n \in Nat, \A y \in rows' : y.at = n \/ \E x \in rows : y.at = x.at
    PROVE  Bounded'
<1>1. PICK m \in Nat : \A x \in rows : x.at <= m
  BY DEF Bounded
<1>2. \A x \in rows : x.at \in Nat
  BY DEF SyncInv, StoreInv, RowInv, RowRecord
<1>3. PICK k \in Nat : m <= k /\ n <= k
  <2>1. CASE m <= n
    BY <2>1
  <2>2. CASE n <= m
    BY <2>2
  <2> QED
    BY <2>1, <2>2
<1>4. \A y \in rows' : y.at <= k
  BY <1>1, <1>2, <1>3
<1> QED
  BY <1>4 DEF Bounded

\* Every step keeps stamps bounded.
LEMMA BoundedStep ==
    ASSUME SyncInv, Bounded, [Next]_vars
    PROVE  Bounded'
<1> USE DEF SyncInv
<1>0. rows \subseteq RowRecord
  BY DEF StoreInv, RowInv
<1>1. ASSUME rows' \subseteq rows PROVE Bounded'
  BY <1>1 DEF Bounded
<1>2. ASSUME NEW r \in Requests, MigrateSessionData(r) PROVE Bounded'
  <2>1. PICK s : s = req[r].session
    OBVIOUS
  <2>2. PICK a : a = UserOf(s)
    OBVIOUS
  <2>3. a \in Accounts /\ rows' = Migrated(rows, s, a)
    BY <1>2, <2>1, <2>2 DEF MigrateSessionData, At, RequestInv, RequestOK, AccountPoints, StoreInv, SessionInv
  <2>4. \A y \in rows' : \E x \in rows : y.at = x.at
    BY <1>0, <2>3, MigratedRow
  <2> QED
    BY <2>4, StampsBounded
<1>3. ASSUME NEW r \in Requests, Promote(r) PROVE Bounded'
  <2>1. PICK s : s = req[r].session
    OBVIOUS
  <2>2. PICK a : a = req[r].account
    OBVIOUS
  <2>3. PICK n : n = NewNumber
    OBVIOUS
  <2>4. a \in Accounts /\ n \in Nat
    BY <1>3, <2>2, <2>3, NumbersAre DEF Promote, At, RequestInv, RequestOK, StoreInv, SessionInv
  <2>5. UNCHANGED rows \/ rows' = Reparented(Migrated(rows, s, a), s, n)
    BY <1>3, <2>1, <2>2, <2>3 DEF Promote, PromoteGuestSession, accountVars
  <2>6. ASSUME NEW y \in Reparented(Migrated(rows, s, a), s, n) PROVE \E x \in rows : y.at = x.at
    <3> DEFINE M == Migrated(rows, s, a)
    <3>1. /\ M \subseteq RowRecord
          /\ \A z \in M : \E x \in rows : z.at = x.at
      BY <1>0, <2>4, MigratedRow
    <3>2. y \in Reparented(M, s, n)
      BY <2>6
    <3> HIDE DEF M
    <3>3. \E z \in M : y.at = z.at
      BY <2>4, <3>1, <3>2, ReparentedRow
    <3> QED
      BY <3>1, <3>3
  <2> QED
    BY <1>1, <2>5, <2>6, StampsBounded
<1>4. ASSUME SessionsNext PROVE Bounded'
  <2>1. ASSUME UNCHANGED rows PROVE Bounded'
    BY <1>1, <2>1
  <2>2. ASSUME NEW r \in Requests, NEW b \in Browsers,
               \/ CreateGuestSession(r, b) \/ CurrentUser(r, b) \/ LoginWithGoogle(r, b)
               \/ Logout(r, b) \/ DeleteAccount(r, b) \/ UpdateProfile(r, b)
        PROVE  UNCHANGED rows
    BY <2>2 DEF CreateGuestSession, InsertGuest, CurrentUser, LoginWithGoogle, Logout, DeleteAccount, UpdateProfile,
                accountVars
  <2>3. ASSUME NEW r \in Requests,
               EnsureUserProfile(r) \/ VerifyGoogleToken(r) \/ UpdateUserProfile(r) \/ Respond(r) \/ Disconnect(r)
        PROVE  UNCHANGED rows
    BY <2>3 DEF EnsureUserProfile, VerifyGoogleToken, UpdateUserProfile, Respond, Disconnect, accountVars
  <2>4. ASSUME NEW r \in Requests, DeleteRegisteredAccount(r) PROVE rows' \subseteq rows
    BY <2>4 DEF DeleteRegisteredAccount, Erase, accountVars
  <2>5. ASSUME NEW s \in Numbers, Expire(s) PROVE UNCHANGED rows
    BY <2>5 DEF Expire
  <2>6. ASSUME CleanupInactiveGuestSessions PROVE rows' \subseteq rows
    BY <2>6 DEF CleanupInactiveGuestSessions
  <2> QED
    BY <1>1, <1>2, <1>3, <1>4, <2>1, <2>2, <2>3, <2>4, <2>5, <2>6 DEF SessionsNext
<1>5. ASSUME NEW r \in Requests, UpsertGuestEntity(r) \/ UpdateAccountEntity(r) \/ InsertAccountEntity(r)
      PROVE  Bounded'
  <2>1. req[r].pc \in SyncPoints /\ req[r].pc # "save" /\ (req[r].pc = "item" => ~Done(r))
    BY <1>5 DEF UpsertGuestEntity, UpdateAccountEntity, InsertAccountEntity, At, SyncPoints
  <2>2. Current(r).item \in Items /\ Current(r).at \in Nat /\ req[r].session \in Numbers /\ req[r].session \in Nat
    BY <2>1, CurrentOK, NumbersAre DEF StoreInv, SessionInv
  <2>3. PICK at \in Nat : at = Current(r).at
    BY <2>2
  <2>4. \A a \in Users : Row(r, a).at = at
    BY <2>2, <2>3, NewRow
  <2>5. UserOf(req[r].session) \in Users /\ Nobody \in Users
    BY <2>2, NumbersAre DEF UserOf, StoreInv, SessionInv, SessionRecord, Users
  <2>6. CASE UpsertGuestEntity(r)
    <3>1. \A y \in rows' : y \in rows \/ y = Row(r, Nobody)
      BY <2>6 DEF UpsertGuestEntity
    <3> QED
      BY <2>4, <2>5, <3>1, StampsBounded
  <2>7. CASE InsertAccountEntity(r)
    <3>1. \A y \in rows' : y \in rows \/ y = Row(r, UserOf(req[r].session))
      BY <2>7 DEF InsertAccountEntity
    <3> QED
      BY <2>4, <2>5, <3>1, StampsBounded
  <2>8. CASE UpdateAccountEntity(r)
    <3> DEFINE older == {x \in Same(r) : MayOverwrite(x.at, Current(r).at)}
    <3>1. rows' = Written(older, at) /\ older \subseteq rows
      BY <2>3, <2>8 DEF UpdateAccountEntity, Same
    <3> HIDE DEF older
    <3>2. \A y \in rows' : \E x \in rows : y.at \in {x.at, at}
      BY <1>0, <3>1, WrittenRow
    <3> QED
      BY <3>2, StampsBounded
  <2> QED
    BY <1>5, <2>6, <2>7, <2>8
<1>6. ASSUME NEW r \in Requests, SkipInvalid(r) \/ FindAccountEntity(r) \/ FindCommit(r) \/ SaveCommit(r)
      PROVE  UNCHANGED rows
  BY <1>6 DEF SkipInvalid, FindAccountEntity, FindCommit, SaveCommit, accountVars
<1>7. ASSUME NEW r \in Requests, NEW b \in Browsers, NEW op \in Operations, SyncCommit(r, b, op)
      PROVE  UNCHANGED rows
  BY <1>7 DEF SyncCommit, accountVars
<1>8. UNCHANGED vars => UNCHANGED rows
  BY DEF vars
<1> QED
  BY <1>1, <1>4, <1>5, <1>6, <1>7, <1>8 DEF Next

\* Latest is the greatest member of a set of stamps with a bound.
LEMMA LatestIsGreatest ==
    ASSUME NEW S, S \subseteq Nat, S # {}, NEW bound \in Nat, \A n \in S : n <= bound
    PROVE  Latest(S) \in S /\ \A m \in S : m <= Latest(S)
<1>1. PICK n \in S : \A m \in S : m <= n
  BY GreatestNumber
<1> QED
  BY <1>1 DEF Latest

\* A pull shows the latest of an owner's rows for an item.
LEMMA VisibleIsLatest ==
    ASSUME SyncInv, Bounded, NEW o, NEW i
    PROVE  /\ Visible(rows, o, i) \in Nat
           /\ \A y \in rows : OwnedBy(y, o) /\ y.item = i => y.at \in Nat /\ y.at <= Visible(rows, o, i)
<1> DEFINE S == {x.at : x \in {y \in rows : OwnedBy(y, o) /\ y.item = i}}
<1>1. \A x \in rows : x.at \in Nat
  BY DEF SyncInv, StoreInv, RowInv, RowRecord
<1>2. PICK bound \in Nat : \A x \in rows : x.at <= bound
  BY DEF Bounded
<1>3. S \subseteq Nat /\ \A n \in S : n <= bound
  BY <1>1, <1>2
<1>4. \A y \in rows : OwnedBy(y, o) /\ y.item = i => y.at \in S
  OBVIOUS
<1>5. Visible(rows, o, i) = IF S = {} THEN 0 ELSE Latest(S)
  BY DEF Visible
<1> HIDE DEF S
<1>6. S # {} => Latest(S) \in S /\ \A m \in S : m <= Latest(S)
  BY <1>3, LatestIsGreatest
<1>7. PICK v : v = Visible(rows, o, i)
  OBVIOUS
<1>8. v \in Nat /\ \A n \in S : n <= v
  <2>1. CASE S = {}
    <3>1. v = 0
      BY <1>5, <1>7, <2>1
    <3> QED
      BY <2>1, <3>1
  <2>2. CASE S # {}
    <3>1. v = Latest(S)
      BY <1>5, <1>7, <2>2
    <3> QED
      BY <1>3, <1>6, <2>2, <3>1
  <2> QED
    BY <2>1, <2>2
<1> QED
  BY <1>1, <1>4, <1>7, <1>8

(***************************************************************************)
(* Pulls return the present values and leave nothing behind their cursor,  *)
(* and previews say what a commit would do, whatever rows races have left. *)
(***************************************************************************)
THEOREM PullsPresentValuesHolds == Spec => []PullsPresentValues
<1>1. Init => Bounded
  BY DEF Init, SessionsInit, Bounded
<1>2. SyncInv /\ Bounded /\ [Next]_vars => Bounded'
  BY BoundedStep
<1>3. ASSUME SyncInv, Bounded PROVE PullsPresentValues
  <2> SUFFICES ASSUME NEW o \in Scopes
               PROVE  /\ \A op \in Operations : \A n \in DOMAIN ItemsOf[op] :
                           SyncPreview(op, o)[n] \in {"create", "update"} =>
                               \A y \in rows : OwnedBy(y, o) /\ y.item = ItemsOf[op][n].item =>
                                   MayOverwrite(y.at, ItemsOf[op][n].at)
                      /\ \A cursor \in Stamps : \A page \in Pages(rows, o, cursor) :
                           /\ \A x \in page : x.at = Visible(rows, o, x.item)
                           /\ \A i \in Items : Visible(rows, o, i) > cursor =>
                                 \/ [item |-> i, at |-> Visible(rows, o, i)] \in page
                                 \/ Visible(rows, o, i) >= NextCursor(page, cursor)
    BY DEF PullsPresentValues
  <2>1. ASSUME NEW op \in Operations, NEW n \in DOMAIN ItemsOf[op],
               SyncPreview(op, o)[n] \in {"create", "update"},
               NEW y \in rows, OwnedBy(y, o), y.item = ItemsOf[op][n].item
        PROVE  MayOverwrite(y.at, ItemsOf[op][n].at)
    <3>1. PICK x : x = ItemsOf[op][n]
      OBVIOUS
    <3>2. x.at \in Nat
      <4>1. ItemsOf[op] \in Seq([item : Items, at : Nat])
        BY SyncAssumption DEF SyncAssumption
      <4>2. n \in 1 .. Len(ItemsOf[op])
        BY <4>1, LenProperties
      <4>3. x \in [item : Items, at : Nat]
        BY <3>1, <4>1, <4>2, ElementOfSeq
      <4> QED
        BY <4>3
    <3>3. classify_preview_action(x, o) \in {"create", "update"}
      BY <2>1, <3>1 DEF SyncPreview
    <3>4. PICK v : v = Visible(rows, o, x.item)
      OBVIOUS
    <3>5. v \in Nat /\ y.at \in Nat /\ y.at <= v
      BY <1>3, <2>1, <3>1, <3>4, VisibleIsLatest
    <3>6. v = 0 \/ x.at >= v
      BY <3>3, <3>4 DEF classify_preview_action
    <3> QED
      BY <3>1, <3>2, <3>5, <3>6 DEF MayOverwrite
  <2>2. ASSUME NEW cursor \in Stamps, NEW page \in Pages(rows, o, cursor)
        PROVE  /\ \A x \in page : x.at = Visible(rows, o, x.item)
               /\ \A i \in Items : Visible(rows, o, i) > cursor =>
                     \/ [item |-> i, at |-> Visible(rows, o, i)] \in page
                     \/ Visible(rows, o, i) >= NextCursor(page, cursor)
    <3> DEFINE all == LatestSince(rows, o, cursor)
    <3>1. cursor \in Nat
      BY <1>3 DEF Stamps, SyncInv, StoreInv, RowInv, RowRecord
    <3>2. page \subseteq all /\ \A x \in page, y \in all \ page : x.at <= y.at
      BY <2>2 DEF Pages
    <3>3. \A x \in all : \E i \in Items : x = [item |-> i, at |-> Visible(rows, o, i)] /\ Visible(rows, o, i) > cursor
      BY DEF LatestSince
    <3>4. \A x \in page : x.at = Visible(rows, o, x.item)
      BY <3>2, <3>3
    <3>5. \A x \in page : x.at \in Nat
      BY <1>3, <3>4, VisibleIsLatest
    <3>6. ASSUME NEW i \in Items, Visible(rows, o, i) > cursor,
                 [item |-> i, at |-> Visible(rows, o, i)] \notin page
          PROVE  Visible(rows, o, i) >= NextCursor(page, cursor)
      <4>1. PICK v \in Nat : v = Visible(rows, o, i)
        BY <1>3, VisibleIsLatest
      <4>2. PICK x : x = [item |-> i, at |-> v]
        OBVIOUS
      <4>3. x \in all \ page /\ x.at = v
        BY <3>6, <4>1, <4>2 DEF LatestSince
      <4> DEFINE S == {cursor} \cup {y.at : y \in page}
      <4>4. S \subseteq Nat /\ S # {} /\ \A n \in S : n <= v
        BY <3>1, <3>2, <3>5, <3>6, <4>1, <4>3
      <4>5. NextCursor(page, cursor) = Latest(S)
        BY DEF NextCursor
      <4> HIDE DEF S
      <4>6. Latest(S) \in S
        BY <4>4, LatestIsGreatest
      <4> QED
        BY <4>1, <4>4, <4>5, <4>6
    <3> QED
      BY <3>4, <3>6
  <2> QED
    BY <2>1, <2>2
<1> QED
  BY <1>1, <1>2, <1>3, SyncInvariant, PTL DEF Spec

=============================================================================
