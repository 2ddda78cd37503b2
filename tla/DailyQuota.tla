----------------------------- MODULE DailyQuota -----------------------------
(***************************************************************************)
(* The daily chat-generation quota: the three PostgreSQL tables of         *)
(* store/quota.rs (owner counters, global counters, reservations), the     *)
(* request that reserves, starts, commits or releases one generation       *)
(* (chat/messages.rs), and the session operations that move or retire      *)
(* quota (store/auth.rs).                                                  *)
(*                                                                         *)
(* A transaction is one action, taken when it commits.  One thing is not   *)
(* atomic with it: now() is the time at which the transaction BEGAN, so an *)
(* admission or a promotion remembers the Bangkok date it began on         *)
(* (txDate, promo.date) and may commit after midnight.                     *)
(***************************************************************************)
EXTENDS Integers, FiniteSets

CONSTANTS
    Requests,          \* chat sends; each owns at most one reservation row
    Sessions,          \* auth_sessions ids
    Users,             \* account ids
    None,              \* SQL null
    MaxDay,            \* bound on the Bangkok calendar
    RegisteredLimit,   \* CHAT_REGISTERED_DAILY_QUOTA
    GuestLimit,        \* CHAT_GUEST_DAILY_QUOTA
    GlobalLimit,       \* CHAT_GLOBAL_DAILY_GENERATION_LIMIT
    CleanupBatch       \* RETENTION_CLEANUP_BATCH_SIZE

ASSUME QuotaAssumption ==
    /\ IsFiniteSet(Requests)
    /\ None \notin Users \cup Sessions
    /\ MaxDay \in Nat \ {0}
    /\ RegisteredLimit \in Nat \ {0}
    /\ GuestLimit \in Nat \ {0}
    /\ GlobalLimit \in Nat \ {0}
    /\ CleanupBatch \in Nat \ {0}

VARIABLES
    today,      \* the current Bangkok date
    sess,       \* auth_sessions
    promo,      \* open promote_guest_session_with_google transactions
    db,         \* the quota tables
    pc,         \* where each request is
    reqSession, \* the session each request was sent with
    txDate,     \* the date on which each request's admission began
    appended    \* requests whose user and assistant messages are stored

vars == <<today, sess, promo, db, pc, reqSession, txDate, appended>>

Days == 1..MaxDay
Owners == ({"guest"} \X Sessions) \cup ({"account"} \X Users)
NoOwner == <<"none", None>>
GuestOwner(s) == <<"guest", s>>
AccountOwner(u) == <<"account", u>>
OwnerLimit(o) == IF o[1] = "account" THEN RegisteredLimit ELSE GuestLimit

(***************************************************************************)
(* A reservation row.  A deleted row keeps its columns (exists = FALSE):   *)
(* no operation reads them, the properties do.  fresh = FALSE stands for   *)
(* updated_at < now() - (total timeout + 60 s).                            *)
(***************************************************************************)
Row == [exists : BOOLEAN, date : 0..MaxDay, owner : Owners \cup {NoOwner},
        ostate : {"none", "reserved", "committed", "released"},
        gstate : {"none", "reserved", "consumed", "released"},
        fresh : BOOLEAN]

NoRow == [exists |-> FALSE, date |-> 0, owner |-> NoOwner,
          ostate |-> "none", gstate |-> "none", fresh |-> FALSE]

\* A counter row with every count 0 and an absent one are the same value.
Tables == [res : [Requests -> Row], usage : [Days -> [Owners -> Nat]],
           greserved : [Days -> Nat], gconsumed : [Days -> Nat]]

\* Rows charged to an owner's day, those a deleted account left behind included.
Charged(t, d, o) == {r \in Requests : /\ t.res[r].date = d
                                      /\ t.res[r].owner = o
                                      /\ t.res[r].ostate \in {"reserved", "committed"}}

\* Existing rows whose owner use is still reserved.
Held(t, d, o) == {r \in Requests : /\ t.res[r].exists
                                   /\ t.res[r].date = d
                                   /\ t.res[r].owner = o
                                   /\ t.res[r].ostate = "reserved"}

\* Existing rows whose global use is still reserved.
GlobalHeld(t, d) == {r \in Requests : /\ t.res[r].exists
                                      /\ t.res[r].date = d
                                      /\ t.res[r].gstate = "reserved"}

\* Generations whose provider call was durably started.
GlobalSpent(t, d) == {r \in Requests : /\ t.res[r].date = d
                                       /\ t.res[r].gstate = "consumed"}

Pending(row) == row.exists /\ (row.ostate = "reserved" \/ row.gstate = "reserved")

(***************************************************************************)
(* Releasing a set of rows: each reserved owner use is taken off its       *)
(* counter, each reserved global use off the day's counter.  A decrement   *)
(* that finds its counter too small is an error and rolls everything back. *)
(***************************************************************************)
CanSettle(t, R) ==
    /\ \A d \in Days, o \in Owners : Cardinality(Held(t, d, o) \cap R) <= t.usage[d][o]
    /\ \A d \in Days : Cardinality(GlobalHeld(t, d) \cap R) <= t.greserved[d]

ReleasedIfReserved(state) == IF state = "reserved" THEN "released" ELSE state

SettledRow(row) ==
    [row EXCEPT !.ostate = ReleasedIfReserved(@), !.gstate = ReleasedIfReserved(@),
                !.fresh = TRUE]

Settle(t, R) ==
    [res |-> [r \in Requests |-> IF r \in R /\ Pending(t.res[r])
                                 THEN SettledRow(t.res[r]) ELSE t.res[r]],
     usage |-> [d \in Days |-> [o \in Owners |->
                  t.usage[d][o] - Cardinality(Held(t, d, o) \cap R)]],
     greserved |-> [d \in Days |->
                  t.greserved[d] - Cardinality(GlobalHeld(t, d) \cap R)],
     gconsumed |-> t.gconsumed]

\* recover_stale_chat_generation_quotas_in_tx: what is selected.  Rows another
\* transaction has locked are skipped, so a pass takes any subset of these.
Stale(t) == {r \in Requests : Pending(t.res[r]) /\ ~t.res[r].fresh}

\* cleanup_past_chat_generation_quotas_in_tx: the three candidate queries.
TerminalRows(t, d) == {r \in Requests : /\ t.res[r].exists
                                        /\ t.res[r].date < d
                                        /\ t.res[r].ostate # "reserved"
                                        /\ t.res[r].gstate # "reserved"}
IdleOwnerCounters(t, d) == {c \in Days \X Owners : /\ c[1] < d
                                                   /\ t.usage[c[1]][c[2]] > 0
                                                   /\ Held(t, c[1], c[2]) = {}}

IdleGlobalCounters(t, d) == {e \in Days : /\ e < d
                                          /\ t.greserved[e] + t.gconsumed[e] > 0
                                          /\ GlobalHeld(t, e) = {}}

Batches(S) == {T \in SUBSET S : Cardinality(T) <= CleanupBatch}

WithoutRows(t, rows) ==
    [r \in Requests |-> IF r \in rows THEN [t.res[r] EXCEPT !.exists = FALSE] ELSE t.res[r]]

Cleanup(t, rows, owners, days) ==
    [res |-> WithoutRows(t, rows),
     usage |-> [d \in Days |-> [o \in Owners |->
                  IF <<d, o>> \in owners THEN 0 ELSE t.usage[d][o]]],
     greserved |-> [d \in Days |-> IF d \in days THEN 0 ELSE t.greserved[d]],
     gconsumed |-> [d \in Days |-> IF d \in days THEN 0 ELSE t.gconsumed[d]]]

\* The counters and the row an admission writes.
Admit(t, r, d, o) ==
    [res |-> [t.res EXCEPT ![r] = [exists |-> TRUE, date |-> d, owner |-> o,
                                   ostate |-> "reserved", gstate |-> "reserved",
                                   fresh |-> TRUE]],
     usage |-> [t.usage EXCEPT ![d][o] = @ + 1],
     greserved |-> [t.greserved EXCEPT ![d] = @ + 1],
     gconsumed |-> t.gconsumed]

\* The provider call is about to be made: reserved becomes consumed.
Start(t, r) ==
    LET d == t.res[r].date
    IN  [res |-> [t.res EXCEPT ![r] = [@ EXCEPT !.gstate = "consumed", !.fresh = TRUE]],
         usage |-> t.usage,
         greserved |-> [t.greserved EXCEPT ![d] = @ - 1],
         gconsumed |-> [t.gconsumed EXCEPT ![d] = @ + 1]]

Commit(t, r) ==
    [t EXCEPT !.res = [t.res EXCEPT ![r] = [@ EXCEPT !.ostate = "committed", !.fresh = TRUE]]]

\* A reservation row passes the stale interval.
Aged(t, r) == [t EXCEPT !.res = [t.res EXCEPT ![r] = [@ EXCEPT !.fresh = FALSE]]]

\* transfer_session_daily_quota_to_account_in_tx: rows M go to account u.
Moved(t, ofSession, u, d) ==
    {r \in ofSession : /\ t.res[r].exists
                       /\ t.res[r].date = d
                       /\ t.res[r].ostate \in {"reserved", "committed"}
                       /\ t.res[r].owner # AccountOwner(u)}

MovedFrom(t, M, o) == {r \in M : t.res[r].owner = o}

CanTransfer(t, M, d) ==
    \A o \in Owners : Cardinality(MovedFrom(t, M, o)) <= t.usage[d][o]

\* Mutant: the counters the uses come from are not decremented.
MutTransfer(t, M, u, d) ==
    [t EXCEPT
       !.res = [r \in Requests |->
                  IF r \in M THEN [t.res[r] EXCEPT !.owner = AccountOwner(u), !.fresh = TRUE]
                  ELSE t.res[r]],
       !.usage[d] = [o \in Owners |->
                       IF o = AccountOwner(u) THEN t.usage[d][o] + Cardinality(M)
                       ELSE t.usage[d][o]]]

Transfer(t, M, u, d) ==
    [t EXCEPT
       !.res = [r \in Requests |->
                  IF r \in M THEN [t.res[r] EXCEPT !.owner = AccountOwner(u), !.fresh = TRUE]
                  ELSE t.res[r]],
       !.usage[d] = [o \in Owners |->
                       IF o = AccountOwner(u) THEN t.usage[d][o] + Cardinality(M)
                       ELSE t.usage[d][o] - Cardinality(MovedFrom(t, M, o))]]

\* delete_registered_account: the account's reservations go, whatever their
\* date; of its counters only today's stays.
Owned(t, o) == {r \in Requests : t.res[r].exists /\ t.res[r].owner = o}

Decreased(n, by) == IF n > by THEN n - by ELSE 0

\* Mutant: unstarted global reservations of the account are not given back.
MutForgetAccount(t, o, d) ==
    [t EXCEPT !.res = WithoutRows(t, Owned(t, o)),
              !.usage = [e \in Days |-> IF e = d THEN t.usage[e] ELSE [t.usage[e] EXCEPT ![o] = 0]]]

ForgetAccount(t, o, d) ==
    [res |-> WithoutRows(t, Owned(t, o)),
     usage |-> [e \in Days |-> IF e = d THEN t.usage[e] ELSE [t.usage[e] EXCEPT ![o] = 0]],
     greserved |-> [e \in Days |->
        Decreased(t.greserved[e], Cardinality(GlobalHeld(t, e) \cap Owned(t, o)))],
     gconsumed |-> t.gconsumed]

Active(s) == sess[s].kind \in {"guest", "registered"} /\ sess[s].active

\* Whose allowance a session spends on date d.
QuotaOwner(s, d) ==
    IF sess[s].kind = "registered" THEN AccountOwner(sess[s].user)
    ELSE IF sess[s].carry # None /\ sess[s].carryDate = d
         THEN AccountOwner(sess[s].carry)
         ELSE GuestOwner(s)

UnderLimits(t, d, o) ==
    /\ t.usage[d][o] < OwnerLimit(o)
    /\ t.greserved[d] + t.gconsumed[d] < GlobalLimit

-----------------------------------------------------------------------------
(* One generation. *)

Become(r, state) == pc' = [pc EXCEPT ![r] = state]

\* The admission transaction opens: now() is fixed from here on.
BeginReserve(r, s) ==
    /\ pc[r] = "idle"
    /\ Active(s)
    /\ Become(r, "begun")
    /\ reqSession' = [reqSession EXCEPT ![r] = s]
    /\ txDate' = [txDate EXCEPT ![r] = today]
    /\ UNCHANGED <<today, sess, promo, db, appended>>

\* reserve_chat_generation_quota, admitted: recover, clean up, charge, insert.
Reserve(r) ==
    LET s == reqSession[r]
        d == txDate[r]
        o == QuotaOwner(s, d)
    IN  /\ pc[r] = "begun"
        /\ Active(s)
        /\ \E stale \in SUBSET Stale(db) :
             /\ CanSettle(db, stale)
             /\ LET t == Settle(db, stale)
                IN  /\ UnderLimits(t, d, o)
                    /\ \E rows \in Batches(TerminalRows(t, d)),
                          owners \in Batches(IdleOwnerCounters(t, d)),
                          days \in Batches(IdleGlobalCounters(t, d)) :
                         db' = Admit(Cleanup(t, rows, owners, days), r, d, o)
        /\ Become(r, "admitted")
        /\ UNCHANGED <<today, sess, promo, reqSession, txDate, appended>>

\* ... refused: no session, a limit, or an inconsistent counter.  Rolled back.
ReserveRefused(r) ==
    LET s == reqSession[r]
        d == txDate[r]
        o == QuotaOwner(s, d)
    IN  /\ pc[r] = "begun"
        /\ \/ ~Active(s)
           \/ \E stale \in SUBSET Stale(db) :
                \/ ~CanSettle(db, stale)
                \/ ~UnderLimits(Settle(db, stale), d, o)
        /\ Become(r, "done")
        /\ UNCHANGED <<today, sess, promo, db, reqSession, txDate, appended>>

\* mark_chat_generation_provider_started; the provider is called after it.
MarkProviderStarted(r) ==
    LET row == db.res[r]
    IN  /\ pc[r] = "admitted"
        /\ row.exists /\ row.gstate = "reserved"
        /\ db.greserved[row.date] > 0
        /\ db' = Start(db, r)
        /\ Become(r, "started")
        /\ UNCHANGED <<today, sess, promo, reqSession, txDate, appended>>

\* Anything between the admission and the append fails: the client left before
\* message_start, the row is gone, the provider, a limit, the append.
GenerationFails(r) ==
    /\ pc[r] \in {"admitted", "started"}
    /\ Become(r, "erring")
    /\ UNCHANGED <<today, sess, promo, db, reqSession, txDate, appended>>

\* append_chat_messages_limited_with_quota: messages and reservation commit
\* together; a read after the commit may still turn the outcome into an error.
\* The chat of a promoted guest has moved to another session: unavailable.
AppendReply(r) ==
    LET row == db.res[r]
    IN  /\ pc[r] = "started"
        /\ sess[reqSession[r]].kind # "promoted"
        /\ row.exists /\ row.ostate = "reserved" /\ row.gstate = "consumed"
        /\ db' = Commit(db, r)
        /\ appended' = appended \cup {r}
        /\ \E state \in {"done", "erring"} : Become(r, state)
        /\ UNCHANGED <<today, sess, promo, reqSession, txDate>>

\* Mutant: the release takes a committed use back too.
MutReleased(t, r) ==
    IF t.res[r].exists /\ t.res[r].ostate = "committed"
    THEN [t EXCEPT !.res[r].ostate = "released",
                   !.usage[t.res[r].date][t.res[r].owner] = @ - 1]
    ELSE IF CanSettle(t, {r}) THEN Settle(t, {r}) ELSE t

\* release_chat_generation_quota: one transaction, undone by a counter that is too small.
Released(t, r) == IF CanSettle(t, {r}) THEN Settle(t, {r}) ELSE t

\* release_daily_generation_quota: a release that fails on a counter is only logged.
Release(r) ==
    /\ pc[r] = "erring"
    /\ db' = Released(db, r)
    /\ Become(r, "done")
    /\ UNCHANGED <<today, sess, promo, reqSession, txDate, appended>>

\* The process dies, the non-streaming handler is dropped by its client, or the
\* release cannot reach the database: nothing more happens for this request.
Abandon(r) ==
    /\ pc[r] \in {"begun", "admitted", "started", "erring"}
    /\ Become(r, "done")
    /\ UNCHANGED <<today, sess, promo, db, reqSession, txDate, appended>>

-----------------------------------------------------------------------------
(* Sessions. *)

NewGuest(u, d) == [kind |-> "guest", active |-> TRUE, user |-> None,
                   carry |-> u, carryDate |-> d]

\* create_guest_session
CreateGuest(s) ==
    /\ sess[s].kind = "none"
    /\ sess' = [sess EXCEPT ![s] = NewGuest(None, 0)]
    /\ UNCHANGED <<today, promo, db, pc, reqSession, txDate, appended>>

\* expires_at passes, or revoke_session
Deactivate(s) ==
    /\ Active(s)
    /\ sess' = [sess EXCEPT ![s].active = FALSE]
    /\ UNCHANGED <<today, promo, db, pc, reqSession, txDate, appended>>

\* logout_registered_session_to_guest: s is revoked, guest g replaces it
Logout(s, g) ==
    /\ Active(s) /\ sess[s].kind = "registered"
    /\ sess[g].kind = "none"
    /\ sess' = [sess EXCEPT ![s].active = FALSE,
                            ![g] = NewGuest(sess[s].user, today)]
    /\ UNCHANGED <<today, promo, db, pc, reqSession, txDate, appended>>

NoPromotion == [user |-> None, date |-> 1]

\* promote_guest_session_with_google opens its transaction
BeginPromote(s, u) ==
    /\ Active(s) /\ sess[s].kind = "guest"
    /\ promo[s].user = None
    /\ promo' = [promo EXCEPT ![s] = [user |-> u, date |-> today]]
    /\ UNCHANGED <<today, sess, db, pc, reqSession, txDate, appended>>

\* The requests sent with session s.
SentWith(s) == {r \in Requests : reqSession[r] = s}

\* ... commits: quota moves, registered session g replaces the guest,
\* which is revoked and owns no chats any more ("promoted")
Promote(s, g) ==
    LET u == promo[s].user
        d == promo[s].date
        M == Moved(db, SentWith(s), u, d)
    IN  /\ u # None
        /\ Active(s) /\ sess[s].kind = "guest"
        /\ sess[g].kind = "none"
        /\ CanTransfer(db, M, d)
        /\ db' = Transfer(db, M, u, d)
        /\ sess' = [sess EXCEPT ![s].active = FALSE, ![s].kind = "promoted",
                                ![g] = [kind |-> "registered", active |-> TRUE,
                                        user |-> u, carry |-> None, carryDate |-> 0]]
        /\ promo' = [promo EXCEPT ![s] = NoPromotion]
        /\ UNCHANGED <<today, pc, reqSession, txDate, appended>>

\* ... rolls back: session no longer an active guest, a counter too small, an error
PromoteAborts(s) ==
    /\ promo[s].user # None
    /\ promo' = [promo EXCEPT ![s] = NoPromotion]
    /\ UNCHANGED <<today, sess, db, pc, reqSession, txDate, appended>>

\* delete_registered_account: every registered session of the account goes, and
\* the replacement guest g carries the account's allowance today.  Signing in
\* again yields the same account id (a hash of the Google subject).
DeleteAccount(s, g) ==
    LET u == sess[s].user
    IN  /\ Active(s) /\ sess[s].kind = "registered"
        /\ sess[g].kind = "none"
        /\ db' = ForgetAccount(db, AccountOwner(u), today)
        /\ sess' = [x \in Sessions |->
                      IF x = g THEN NewGuest(u, today)
                      ELSE IF sess[x].kind = "registered" /\ sess[x].user = u
                           THEN [sess[x] EXCEPT !.kind = "deleted", !.active = FALSE]
                      ELSE IF sess[x].kind \in {"guest", "promoted"} /\ sess[x].carry = u
                           THEN [sess[x] EXCEPT !.carry = None, !.carryDate = 0]
                      ELSE sess[x]]
        /\ UNCHANGED <<today, promo, pc, reqSession, txDate, appended>>

-----------------------------------------------------------------------------
(* Time and restarts. *)

\* Time passes for a reservation that is neither started, committed nor released.
Age(r) ==
    /\ Pending(db.res[r]) /\ db.res[r].fresh
    /\ db' = Aged(db, r)
    /\ UNCHANGED <<today, sess, promo, pc, reqSession, txDate, appended>>

\* Midnight in Bangkok.
NextDay ==
    /\ today < MaxDay
    /\ today' = today + 1
    /\ UNCHANGED <<sess, promo, db, pc, reqSession, txDate, appended>>

\* cleanup_past_chat_generation_quotas, run by connect() until nothing is left
StartupCleanup ==
    /\ db' = Cleanup(db, TerminalRows(db, today), IdleOwnerCounters(db, today),
                     IdleGlobalCounters(db, today))
    /\ UNCHANGED <<today, sess, promo, pc, reqSession, txDate, appended>>

-----------------------------------------------------------------------------
EmptyTables == [res |-> [r \in Requests |-> NoRow],
                usage |-> [d \in Days |-> [o \in Owners |-> 0]],
                greserved |-> [d \in Days |-> 0],
                gconsumed |-> [d \in Days |-> 0]]

Init ==
    /\ today = 1
    /\ sess = [s \in Sessions |-> [kind |-> "none", active |-> FALSE, user |-> None,
                                   carry |-> None, carryDate |-> 0]]
    /\ promo = [s \in Sessions |-> NoPromotion]
    /\ db = EmptyTables
    /\ pc = [r \in Requests |-> "idle"]
    /\ reqSession = [r \in Requests |-> None]
    /\ txDate = [r \in Requests |-> 1]
    /\ appended = {}

GenerationStep(r) ==
    \/ \E s \in Sessions : BeginReserve(r, s)
    \/ Reserve(r) \/ ReserveRefused(r)
    \/ MarkProviderStarted(r) \/ GenerationFails(r) \/ AppendReply(r)
    \/ Release(r) \/ Abandon(r) \/ Age(r)

SessionStep(s) ==
    \/ CreateGuest(s) \/ Deactivate(s) \/ PromoteAborts(s)
    \/ \E u \in Users : BeginPromote(s, u)
    \/ \E g \in Sessions : Logout(s, g) \/ Promote(s, g) \/ DeleteAccount(s, g)

Next ==
    \/ \E r \in Requests : GenerationStep(r)
    \/ \E s \in Sessions : SessionStep(s)
    \/ NextDay
    \/ StartupCleanup

Spec == Init /\ [][Next]_vars

-----------------------------------------------------------------------------
(* Properties. *)

SessionRow == [kind : {"none", "guest", "promoted", "registered", "deleted"}, active : BOOLEAN,
               user : Users \cup {None}, carry : Users \cup {None},
               carryDate : 0..MaxDay]

\* Types; in particular every counter stays a natural number, which the check
\* constraints of the tables ask and every decrement must respect.
TypeOK ==
    /\ today \in Days
    /\ sess \in [Sessions -> SessionRow]
    /\ promo \in [Sessions -> [user : Users \cup {None}, date : Days]]
    /\ db \in Tables
    /\ pc \in [Requests -> {"idle", "begun", "admitted", "started", "erring", "done"}]
    /\ reqSession \in [Requests -> Sessions \cup {None}]
    /\ txDate \in [Requests -> Days]
    /\ appended \in SUBSET Requests

\* On every date the global reserved count is the number of stored reservations
\* whose provider call has not started: reserve, start, release, stale recovery,
\* account deletion and retention agree, so no decrement ever fails on it.
GlobalBalanced(t) == \A d \in Days : t.greserved[d] = Cardinality(GlobalHeld(t, d))
GlobalLedger == GlobalBalanced(db)

\* Today's counters charge exactly the replies reserved or committed today,
\* whoever holds them now: promotion, logout carry-over, account deletion and
\* signing up again neither refund nor double-charge, and retention never
\* touches the current date.
TodayLedger ==
    /\ \A o \in Owners : db.usage[today][o] = Cardinality(Charged(db, today, o))
    /\ db.gconsumed[today] = Cardinality(GlobalSpent(db, today))

\* A reply is stored if and only if its owner was charged for it: a commit whose
\* outcome is reported as an error is not refunded, an uncommitted one is not billed.
RepliesCharged == appended = {r \in Requests : db.res[r].ostate = "committed"}

=============================================================================
