------------------------------ MODULE Sessions ------------------------------
(***************************************************************************)
(* Sessions and accounts (auth.rs, session.rs, store/auth.rs): guest       *)
(* sessions, Google login, logout, profiles, deletion of an account and    *)
(* the cleanup of guests.  The rows that sessions and accounts own stand   *)
(* for every owner-scoped table; here they are the sync entities and       *)
(* commits that module Sync writes.                                        *)
(*                                                                         *)
(* A request runs in the process of its handler between awaits, and its    *)
(* browser may go away at any of them, which drops the handler.  A store   *)
(* transaction is one action: login and deletion lock the account and the  *)
(* session row.  An administrator's session is made outside the program.   *)
(* Quotas, Cafe sockets and image files have modules of their own.         *)
(***************************************************************************)
EXTENDS Integers, Sequences, FiniteSets

CONSTANTS
    Browsers,
    Requests,      \* requests under way at the same time
    Accounts,      \* what a verified Google token may name
    Nobody,        \* the user of a guest session, who owns nothing else
    MaxSessions,   \* bound on the session rows ever inserted
    MaxRequests    \* bound on the requests ever sent

ASSUME SessionsAssumption ==
    /\ Nobody \notin Accounts /\ IsFiniteSet(Browsers)
    /\ MaxSessions \in Nat \ {0}
    /\ MaxRequests \in Nat \ {0}

VARIABLES
    sessions,   \* auth_sessions by number; numbers are never used again
    identity,   \* accounts with a row in auth_identities
    profile,    \* users with a row in user_profiles
    rows,       \* sync_entities: [session, owner, item, at]
    commits,    \* sync_commits: [session, op, merged]
    cookie,     \* the session cookie of each browser
    req,        \* the requests under way
    sent        \* requests sent so far

accountVars == <<sessions, identity, profile, rows, commits>>

Numbers == 1 .. Len(sessions)
Active(s) == s \in Numbers /\ sessions[s].state = "active"
Stored(s) == s \in Numbers /\ sessions[s].state # "gone"   \* is there a row to refer to?
IsGuest(s) == sessions[s].kind = "guest"
UserOf(s) == sessions[s].user
SessionsOf(a) == {s \in Numbers : UserOf(s) = a}

Session(kind, user) == [kind |-> kind, user |-> user, state |-> "active"]
NewGuest == Session("guest", Nobody)
NewNumber == Len(sessions) + 1
Room == NewNumber <= MaxSessions

InState(S, state) == [s \in Numbers |-> IF s \in S THEN [sessions[s] EXCEPT !.state = state]
                                        ELSE sessions[s]]

NoRequest == [pc |-> "idle", op |-> "none", by |-> Nobody,
              session |-> 0, account |-> Nobody, item |-> 0, merged |-> 0]
At(r, pc) == req[r].pc = pc
Go(r, pc) == req' = [req EXCEPT ![r].pc = pc]
End(r) == req' = [req EXCEPT ![r] = NoRequest]

\* session_id_from_headers and get_session; the request keeps the record it read.
Begin(r, b, op, s, pc) ==
    /\ At(r, "idle")
    /\ sent < MaxRequests
    /\ sent' = sent + 1
    /\ req' = [req EXCEPT ![r] = [NoRequest EXCEPT !.pc = pc, !.op = op, !.by = b, !.session = s]]

(***************************************************************************)
(* POST /auth/guest, and GET /auth/me: the session of the cookie, or a new *)
(* guest (the rate limiter of module VoiceRequests may refuse one).        *)
(***************************************************************************)
InsertGuest(r, b, op) ==
    /\ Room
    /\ sessions' = Append(sessions, NewGuest)
    /\ Begin(r, b, op, NewNumber, "respond")
    /\ UNCHANGED <<identity, profile, rows, commits, cookie>>

CreateGuestSession(r, b) == InsertGuest(r, b, "guest")

CurrentUser(r, b) ==
    \/ /\ ~Active(cookie[b])
       /\ InsertGuest(r, b, "me")
    \/ /\ Active(cookie[b])
       /\ Begin(r, b, "me", cookie[b], IF IsGuest(cookie[b]) THEN "respond" ELSE "migrate")
       /\ UNCHANGED <<accountVars, cookie>>

\* migrate_session_data_to_user_in_tx: what the session owns becomes the account's.
Migrated(R, s, a) == {IF x.session = s /\ x.owner = Nobody THEN [x EXCEPT !.owner = a] ELSE x : x \in R}

MigrateSessionData(r) ==
    LET s == req[r].session IN
    /\ At(r, "migrate")
    /\ rows' = Migrated(rows, s, UserOf(s))
    /\ Go(r, "ensure")
    /\ UNCHANGED <<sessions, identity, profile, commits, cookie, sent>>

\* session_response: the identity is read, then a profile is inserted if there is none.
EnsureUserProfile(r) ==
    /\ At(r, "ensure")
    /\ profile' = profile \cup {UserOf(req[r].session)}
    /\ Go(r, IF req[r].op = "profile" THEN "update" ELSE "respond")
    /\ UNCHANGED <<sessions, identity, rows, commits, cookie, sent>>

(***************************************************************************)
(* POST /auth/google.  Verifying the token is a call of Google's between   *)
(* the check of the session and the transaction, which checks it again.    *)
(***************************************************************************)
LoginWithGoogle(r, b) ==
    /\ Active(cookie[b])
    /\ IsGuest(cookie[b])
    /\ Begin(r, b, "login", cookie[b], "verify")
    /\ UNCHANGED <<accountVars, cookie>>

VerifyGoogleToken(r) ==
    /\ At(r, "verify")
    /\ \/ \E a \in Accounts : req' = [req EXCEPT ![r].pc = "promote", ![r].account = a]
       \/ End(r)
    /\ UNCHANGED <<accountVars, cookie, sent>>

MutReparented(R, old, new) == R
Reparented(R, old, new) == {IF x.session = old THEN [x EXCEPT !.session = new] ELSE x : x \in R}

\* promote_guest_session_with_google: one transaction
PromoteGuestSession(s, a) ==
    /\ Active(s)
    /\ Room
    /\ sessions' = Append(InState({s}, "revoked"), Session("registered", a))
    /\ identity' = identity \cup {a}
    /\ profile' = profile \cup {a}
    /\ rows' = Reparented(Migrated(rows, s, a), s, NewNumber)
    /\ commits' = Reparented(commits, s, NewNumber)

Promote(r) ==
    LET s == req[r].session IN
    /\ At(r, "promote")
    /\ \/ /\ ~Active(s)      \* "could not promote session"
          /\ End(r)
          /\ UNCHANGED accountVars
       \/ /\ PromoteGuestSession(s, req[r].account)
          /\ req' = [req EXCEPT ![r].pc = "ensure", ![r].session = NewNumber, ![r].account = Nobody]
    /\ UNCHANGED <<cookie, sent>>

\* POST /auth/logout: the session is revoked and a guest takes its place.
Logout(r, b) ==
    /\ Active(cookie[b])
    /\ ~IsGuest(cookie[b])
    /\ Room
    /\ sessions' = Append(InState({cookie[b]}, "revoked"), NewGuest)
    /\ Begin(r, b, "logout", NewNumber, "respond")
    /\ UNCHANGED <<identity, profile, rows, commits, cookie>>

(***************************************************************************)
(* DELETE /auth/account.  Deleting a session row cascades to what hangs on *)
(* it, and no row can refer to it afterwards.                              *)
(***************************************************************************)
DeleteAccount(r, b) ==
    /\ Active(cookie[b])
    /\ ~IsGuest(cookie[b])
    /\ Begin(r, b, "delete", cookie[b], "erase")
    /\ UNCHANGED <<accountVars, cookie>>

Erase(r, fate) ==
    LET s == req[r].session
        a == UserOf(s)
        gone == SessionsOf(a) IN
    /\ At(r, "erase")
    /\ \/ /\ ~Active(s)
          /\ End(r)
          /\ UNCHANGED accountVars
       \/ /\ Active(s)
          /\ Room
          /\ sessions' = Append(InState(gone, fate), NewGuest)
          /\ identity' = identity \ {a}
          /\ profile' = profile \ {a}
          /\ rows' = {x \in rows : x.owner # a /\ x.session \notin gone}
          /\ commits' = {c \in commits : c.session \notin gone \cup {x.session : x \in {y \in rows : y.owner = a}}}
          /\ req' = [req EXCEPT ![r].pc = "respond", ![r].session = NewNumber]
    /\ UNCHANGED <<cookie, sent>>

MutDeleteRegisteredAccount(r) == Erase(r, "revoked")
DeleteRegisteredAccount(r) == Erase(r, "gone")

(***************************************************************************)
(* PATCH /auth/profile: a profile is ensured, updated, and ensured again   *)
(* for the response.                                                       *)
(***************************************************************************)
UpdateProfile(r, b) ==
    /\ Active(cookie[b])
    /\ ~IsGuest(cookie[b])
    /\ Begin(r, b, "profile", cookie[b], "ensure")
    /\ UNCHANGED <<accountVars, cookie>>

UpdateUserProfile(r) ==
    /\ At(r, "update")
    /\ IF UserOf(req[r].session) \in profile
       THEN req' = [req EXCEPT ![r].pc = "ensure", ![r].op = "profiled"]
       ELSE End(r)           \* "could not update profile"
    /\ UNCHANGED <<accountVars, cookie, sent>>

\* The response arrives; all but the profile's set the cookie.
Respond(r) ==
    /\ At(r, "respond")
    /\ cookie' = IF req[r].op = "profiled" THEN cookie
                 ELSE [cookie EXCEPT ![req[r].by] = req[r].session]
    /\ End(r)
    /\ UNCHANGED <<accountVars, sent>>

\* The browser goes away: the handler is dropped where it is, or its response is lost.
Disconnect(r) ==
    /\ ~At(r, "idle")
    /\ End(r)
    /\ UNCHANGED <<accountVars, cookie, sent>>

\* Thirty days from its insertion, which nothing extends: the oldest session expires first,
\* and no statement tells it from a revoked one.
Expire(s) ==
    /\ Active(s)
    /\ \A t \in 1 .. s - 1 : ~Active(t)
    /\ sessions' = InState({s}, "revoked")
    /\ UNCHANGED <<identity, profile, rows, commits, cookie, req, sent>>

\* Guests without a session any more go, with their rows, unless an account owns one of these.
Removable(s) ==
    /\ Stored(s) /\ IsGuest(s) /\ ~Active(s)
    /\ \A x \in rows : x.session = s => x.owner = Nobody

CleanupInactiveGuestSessions ==
    LET gone == {s \in Numbers : Removable(s)} IN
    /\ gone # {}
    /\ sessions' = InState(gone, "gone")
    /\ rows' = {x \in rows : x.session \notin gone}
    /\ commits' = {c \in commits : c.session \notin gone}
    /\ UNCHANGED <<identity, profile, cookie, req, sent>>

\* Every browser has been given a session of its own, as a guest or in an account.
SessionsInit ==
    \E browser \in [1 .. Cardinality(Browsers) -> Browsers], user \in [Browsers -> Accounts \cup {Nobody}] :
        /\ cookie \in [Browsers -> DOMAIN browser]
        /\ \A b \in Browsers : browser[cookie[b]] = b
        /\ sessions = [n \in DOMAIN browser |->
              IF user[browser[n]] = Nobody THEN NewGuest ELSE Session("registered", user[browser[n]])]
        /\ identity = {user[b] : b \in Browsers} \ {Nobody}
        /\ profile = identity
        /\ rows = {}
        /\ commits = {}
        /\ req = [r \in Requests |-> NoRequest]
        /\ sent = 0

SessionsNext ==
    \/ \E r \in Requests, b \in Browsers :
        \/ CreateGuestSession(r, b) \/ CurrentUser(r, b) \/ LoginWithGoogle(r, b)
        \/ Logout(r, b) \/ DeleteAccount(r, b) \/ UpdateProfile(r, b)
    \/ \E r \in Requests :
        \/ MigrateSessionData(r) \/ EnsureUserProfile(r) \/ VerifyGoogleToken(r) \/ Promote(r)
        \/ DeleteRegisteredAccount(r) \/ UpdateUserProfile(r) \/ Respond(r) \/ Disconnect(r)
    \/ \E s \in Numbers : Expire(s)
    \/ CleanupInactiveGuestSessions
=============================================================================
