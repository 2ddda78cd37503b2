-------------------------------- MODULE Sync --------------------------------
(***************************************************************************)
(* Sync of settings and cached chats (sync.rs, store/sync.rs) over the     *)
(* sessions of module Sessions: commits of items stamped by their clients, *)
(* which a guest writes in one statement and an account in up to three.    *)
(* A payload is told apart by its stamp; deletions are items like others.  *)
(***************************************************************************)
EXTENDS Sessions

CONSTANTS
    Operations,    \* operation ids; a client sends one again until it is answered
    Items,
    ItemsOf,       \* the items of each operation: a sequence of [item, at], at = 0 is invalid
    PageLimit      \* the limit of a pull

ASSUME SyncAssumption ==
    /\ ItemsOf \in [Operations -> Seq([item : Items, at : Nat])]
    /\ PageLimit \in Nat \ {0}

VARIABLE answers    \* history: the results returned to the sessions still in force, [session, op, merged]

vars == <<sessions, identity, profile, rows, commits, cookie, req, sent, answers>>

\* OwnerScope::from_session and the rows of a scope.
Owner(s) == IF IsGuest(s) THEN [session |-> s, user |-> Nobody] ELSE [session |-> s, user |-> UserOf(s)]
OwnedBy(x, o) == IF o.user = Nobody THEN x.session = o.session ELSE x.owner = o.user

Latest(S) == CHOOSE n \in S : \A m \in S : m <= n
\* The value of an item is its latest row, whatever number of rows a race has left.
Visible(R, o, i) == LET S == {x.at : x \in {y \in R : OwnedBy(y, o) /\ y.item = i}}
                    IN  IF S = {} THEN 0 ELSE Latest(S)

(***************************************************************************)
(* A pull: the items stamped after the cursor, each once, the earliest     *)
(* stamps first, up to a limit; the cursor moves to the last stamp.        *)
(***************************************************************************)
MutLatestSince(R, o, cursor) ==
    {[item |-> x.item, at |-> x.at] : x \in {y \in R : OwnedBy(y, o) /\ y.at > cursor}}
LatestSince(R, o, cursor) ==
    {[item |-> i, at |-> Visible(R, o, i)] : i \in {j \in Items : Visible(R, o, j) > cursor}}
\* Items of one stamp come in any order.
Pages(R, o, cursor) ==
    LET all == LatestSince(R, o, cursor) IN
    {page \in SUBSET all :
        /\ Cardinality(page) = (IF Cardinality(all) < PageLimit THEN Cardinality(all) ELSE PageLimit)
        /\ \A x \in page, y \in all \ page : x.at <= y.at}
NextCursor(page, cursor) == Latest({cursor} \cup {x.at : x \in page})

\* A preview of one item against the store.
classify_preview_action(x, o) ==
    IF x.at = 0 THEN "conflict"
    ELSE IF Visible(rows, o, x.item) = 0 THEN "create"
    ELSE IF x.at >= Visible(rows, o, x.item) THEN "update"
    ELSE "conflict"
SyncPreview(op, o) == [n \in DOMAIN ItemsOf[op] |-> classify_preview_action(ItemsOf[op][n], o)]

MayOverwrite(old, at) == old <= at

Current(r) == ItemsOf[req[r].op][req[r].item + 1]
Done(r) == req[r].item = Len(ItemsOf[req[r].op])
Row(r, a) == [session |-> req[r].session, owner |-> a, item |-> Current(r).item, at |-> Current(r).at]
Same(r) == {x \in rows : OwnedBy(x, Owner(req[r].session)) /\ x.item = Current(r).item}
Written(S, at) == (rows \ S) \cup {[x EXCEPT !.at = at] : x \in S}

\* The next item, counting this one when it was saved.
NextItem(r, saved) ==
    req' = [req EXCEPT ![r].pc = "item", ![r].item = @ + 1, ![r].merged = @ + saved]

require_sync_session(s) == Active(s)
SyncCommit(r, b, op) ==
    /\ require_sync_session(cookie[b])
    /\ Begin(r, b, op, cookie[b], "item")
    /\ UNCHANGED <<accountVars, cookie, answers>>

SkipInvalid(r) ==
    /\ At(r, "item") /\ ~Done(r)
    /\ Current(r).at = 0
    /\ NextItem(r, 0)
    /\ UNCHANGED <<accountVars, cookie, sent, answers>>

\* A guest's item: one statement; the row of the session must exist.
UpsertGuestEntity(r) ==
    LET old == {x \in rows : x.session = req[r].session /\ x.item = Current(r).item}
        newer == {x \in old : ~MayOverwrite(x.at, Current(r).at)} IN
    /\ At(r, "item") /\ ~Done(r) /\ Current(r).at > 0
    /\ IsGuest(req[r].session)
    /\ IF ~Stored(req[r].session) THEN End(r) /\ UNCHANGED rows
       ELSE /\ rows' = IF newer # {} THEN rows ELSE (rows \ old) \cup {Row(r, Nobody)}
            /\ NextItem(r, IF newer = {} THEN 1 ELSE 0)
    /\ UNCHANGED <<sessions, identity, profile, commits, cookie, sent, answers>>

\* An account's item: update what is not newer; if nothing was, look for any row; if none, insert.
UpdateAccountEntity(r) ==
    LET older == {x \in Same(r) : MayOverwrite(x.at, Current(r).at)} IN
    /\ At(r, "item") /\ ~Done(r) /\ Current(r).at > 0
    /\ ~IsGuest(req[r].session)
    /\ rows' = Written(older, Current(r).at)
    /\ IF older # {} THEN NextItem(r, 1) ELSE Go(r, "exists")
    /\ UNCHANGED <<sessions, identity, profile, commits, cookie, sent, answers>>

FindAccountEntity(r) ==
    /\ At(r, "exists")
    /\ IF Same(r) # {} THEN NextItem(r, 0) ELSE Go(r, "insert")
    /\ UNCHANGED <<accountVars, cookie, sent, answers>>

InsertAccountEntity(r) ==
    LET s == req[r].session IN
    /\ At(r, "insert")
    /\ IF ~Stored(s) \/ \E x \in rows : x.session = s /\ x.item = Current(r).item
       THEN End(r) /\ UNCHANGED rows       \* a constraint fails and with it the request
       ELSE /\ rows' = rows \cup {Row(r, UserOf(s))}
            /\ NextItem(r, 1)
    /\ UNCHANGED <<sessions, identity, profile, commits, cookie, sent, answers>>

(***************************************************************************)
(* save_sync_commit: the result already stored for the operation, or this  *)
(* one unless another request has stored one since.                        *)
(***************************************************************************)
CommitsOf(s, op) == {c \in commits : c.session = s /\ c.op = op}
Answer(r, merged) ==
    /\ answers' = IF ~Active(req[r].session) THEN answers
                  ELSE answers \cup {[session |-> req[r].session, op |-> req[r].op, merged |-> merged]}
    /\ End(r)
OriginalResult(r) == CHOOSE c \in CommitsOf(req[r].session, req[r].op) : TRUE

MutFindCommit(r) ==
    /\ At(r, "item") /\ Done(r)
    /\ IF CommitsOf(req[r].session, req[r].op) # {} THEN Answer(r, req[r].merged)
       ELSE Go(r, "save") /\ UNCHANGED answers
    /\ UNCHANGED <<accountVars, cookie, sent>>
FindCommit(r) ==
    /\ At(r, "item") /\ Done(r)
    /\ IF CommitsOf(req[r].session, req[r].op) # {} THEN Answer(r, OriginalResult(r).merged)
       ELSE Go(r, "save") /\ UNCHANGED answers
    /\ UNCHANGED <<accountVars, cookie, sent>>

SaveCommit(r) ==
    LET s == req[r].session
        mine == [session |-> s, op |-> req[r].op, merged |-> req[r].merged] IN
    /\ At(r, "save")
    /\ IF ~Stored(s) THEN End(r) /\ UNCHANGED <<commits, answers>>
       ELSE IF CommitsOf(s, req[r].op) # {}
       THEN Answer(r, OriginalResult(r).merged) /\ UNCHANGED commits
       ELSE commits' = commits \cup {mine} /\ Answer(r, req[r].merged)
    /\ UNCHANGED <<sessions, identity, profile, rows, cookie, sent>>

Init == SessionsInit /\ answers = {}

Next ==
    \/ SessionsNext /\ answers' = {x \in answers : sessions'[x.session].state = "active"}
    \/ \E r \in Requests, b \in Browsers, op \in Operations : SyncCommit(r, b, op)
    \/ \E r \in Requests :
        \/ SkipInvalid(r) \/ UpsertGuestEntity(r) \/ UpdateAccountEntity(r) \/ FindAccountEntity(r)
        \/ InsertAccountEntity(r) \/ FindCommit(r) \/ SaveCommit(r)

Spec == Init /\ [][Next]_vars

-----------------------------------------------------------------------------
(***************************************************************************)
(* The rows of an account hang on its own sessions.  The cleanup of guests *)
(* removes a session with everything that hangs on it, so an account row   *)
(* left on the guest session it came from would be lost with that session. *)
(***************************************************************************)
AccountRowsAnchored ==
    \A x \in rows : x.owner # Nobody =>
        Stored(x.session) /\ ~IsGuest(x.session) /\ UserOf(x.session) = x.owner

(***************************************************************************)
(* Deleting an account erases its rows, its commits and its sessions for   *)
(* good: whatever requests of the account were under way on any device,    *)
(* none of them brings anything back before the next login.                *)
(***************************************************************************)
DeletionErases ==
    \A a \in Accounts \ identity :
        /\ \A x \in rows : x.owner # a
        /\ \A s \in SessionsOf(a) : ~Active(s)
        /\ \A c \in commits : UserOf(c.session) # a

AccountScope(a) == [session |-> 0, user |-> a]
GuestScope(s) == [session |-> s, user |-> Nobody]
Scopes == {AccountScope(a) : a \in Accounts} \cup {GuestScope(s) : s \in {n \in Numbers : IsGuest(n)}}
Stamps == {x.at : x \in rows} \cup {0}

(***************************************************************************)
(* Whatever rows racing commits and logins have left, a pull returns every *)
(* item with its present value and no other, and leaves behind only        *)
(* items whose stamp is not before its next cursor (equal stamps across a  *)
(* page boundary are lost to the following pull).  And what a preview      *)
(* calls a creation or an update, a commit at that moment overwrites all   *)
(* rows of the item with.                                                  *)
(***************************************************************************)
PullsPresentValues ==
    \A o \in Scopes :
        /\ \A op \in Operations : \A n \in DOMAIN ItemsOf[op] :
              LET x == ItemsOf[op][n] IN
              SyncPreview(op, o)[n] \in {"create", "update"} =>
                  \A y \in rows : OwnedBy(y, o) /\ y.item = x.item => MayOverwrite(y.at, x.at)
        /\ \A cursor \in Stamps : \A page \in Pages(rows, o, cursor) :
              /\ \A x \in page : x.at = Visible(rows, o, x.item)
              /\ \A i \in Items : Visible(rows, o, i) > cursor =>
                    \/ [item |-> i, at |-> Visible(rows, o, i)] \in page
                    \/ Visible(rows, o, i) >= NextCursor(page, cursor)

(***************************************************************************)
(* A commit sent again returns the result of the first: all answers to one *)
(* operation of one session are equal while the session is in force,       *)
(* although each request writes its items again and several may be under   *)
(* way.  (Login moves the results to the session that replaces a guest's.) *)
(***************************************************************************)
CommitIdempotent ==
    \A x, y \in answers : x.session = y.session /\ x.op = y.op => x.merged = y.merged

(***************************************************************************)
(* Deleting an account removes its profile for good.                       *)
(***************************************************************************)
ProfileErased == \A a \in Accounts : a \in profile => a \in identity
=============================================================================
