----------------------------- MODULE Attachments -----------------------------
(***************************************************************************)
(* Chat images: the metadata rows and the durable deletion queue of        *)
(* PostgreSQL (store/attachments.rs, the delete trigger of the migration), *)
(* the files on the shared upload directory (attachments.rs), uploads and  *)
(* message sends (chat/attachments.rs, chat/messages.rs, store/chat.rs),   *)
(* the maintenance loop of every replica (state.rs), and what promotion,   *)
(* guest cleanup and account deletion do to them (store/auth.rs).          *)
(*                                                                         *)
(* A database statement or transaction is one action and so is one file    *)
(* operation: everything else interleaves, and a fault (a crash, a failed  *)
(* file operation, a failed statement) may strike between any two of them. *)
(* Wall-clock conditions are flags raised by actions of their own: a row   *)
(* or a file older than 24 hours, a lease of 15 minutes that has run out,  *)
(* a retry whose hour has passed.                                          *)
(***************************************************************************)
EXTENDS Integers, FiniteSets, FiniteSetsExt

CONSTANTS
    Keys,        \* attachment ids; each upload makes one id and one storage key
    Guests,      \* guest sessions as owners
    Accounts,    \* registered accounts as owners
    Messages,    \* sends with images, each in a chat of its own
    Replicas,    \* API processes running the maintenance loop
    None,        \* SQL null, Option::None
    Size,        \* byte_size of each image
    MaxStorage,  \* CHAT_ATTACHMENT_MAX_STORAGE_BYTES_PER_OWNER
    MaxFaults    \* bound on crashes, file errors and database errors

Owners == Guests \cup Accounts

\* Who removes files: a replica, or the request that deletes an account.
Workers == Replicas \cup Accounts

ASSUME AttachmentsAssumption ==
    /\ IsFiniteSet(Keys) /\ IsFiniteSet(Guests)
    /\ Guests \cap Accounts = {} /\ Replicas \cap Accounts = {}
    /\ None \notin Keys \cup Owners \cup Messages \cup Replicas
    /\ Size \in [Keys -> Nat]
    /\ MaxStorage \in Nat
    /\ MaxFaults \in Nat

VARIABLES
    status,  \* of each owner: live, expired or promoted (guests), deleted
    up,      \* the upload request of each key
    att,     \* chat_attachments
    queue,   \* chat_attachment_file_deletions
    file,    \* the upload directory
    oldFile, \* files modified more than 24 hours ago
    msg,     \* sends and the messages they store
    round,   \* where each replica's maintenance loop is
    look,    \* the old file each replica's directory scan has found
    job,     \* the claimed batch each worker is processing
    req,     \* the account-deletion request of each account
    late,    \* history: files written after their row was deleted
    faults   \* faults so far

vars == <<status, up, att, queue, file, oldFile, msg, round, look, job, req, late, faults>>

tables == <<att, queue>>
upkeep == <<round, look, job, req>>

NoRow == [exists |-> FALSE, owner |-> None, msg |-> None, old |-> FALSE]
NoEntry == [exists |-> FALSE, owner |-> None, due |-> FALSE, claim |-> None, leased |-> FALSE]
NoMessage == [phase |-> "none", owner |-> None, keys |-> {}]
IdleJob == [todo |-> {}, at |-> None, gone |-> FALSE]

require_attachment_session(o) == status[o] = "live"

\* The row an insert leaves: pending, of the owner of the request.
insert_chat_attachment(o) == [NoRow EXCEPT !.exists = TRUE, !.owner = o]

\* Rows are found in the owner scope of the request only.
get_chat_attachment(k, o) == att[k].exists /\ att[k].owner = o

attachments_for_message(m) == {k \in Keys : att[k].exists /\ att[k].msg = m}

\* NotFound when there is no file; a part of a file is delivered as it is.
read_attachment_bytes(k) == IF file[k] = "absent" THEN "not found" ELSE file[k]

\* What the browser of owner o is shown for image k.
preview_chat_attachment(k, o) ==
    IF ~require_attachment_session(o) THEN "forbidden"
    ELSE IF ~get_chat_attachment(k, o) THEN "not found"
    ELSE read_attachment_bytes(k)

Pending(k) == att[k].exists /\ att[k].msg = None
InFlight(k) == up[k].phase \in {"checked", "writing", "undoing"}
Stored(m) == msg[m].phase = "stored"

(***************************************************************************)
(* Deleting metadata: the trigger snapshots owner and size into the queue. *)
(***************************************************************************)
\* Mutant: the trigger is missing.
MutEnqueued(q, rows, D) == q

Enqueued(q, rows, D) ==
    [k \in Keys |->
        IF k \notin D THEN q[k]
        ELSE IF q[k].exists
             THEN [q[k] EXCEPT !.owner = rows[k].owner, !.due = TRUE]
             ELSE [NoEntry EXCEPT !.exists = TRUE, !.owner = rows[k].owner, !.due = TRUE]]

Without(rows, D) == [k \in Keys |-> IF k \in D THEN NoRow ELSE rows[k]]

DeleteRows(D) ==
    /\ att' = Without(att, D)
    /\ queue' = Enqueued(queue, att, D)

(***************************************************************************)
(* Storage quota                                                           *)
(***************************************************************************)
SumSize(S) == MapThenSumSet(LAMBDA k : Size[k], S)

\* Mutant: queued deletions are not counted.
MutUsage(o) == SumSize({k \in Keys : att[k].exists /\ att[k].owner = o})

Usage(o) ==
    SumSize({k \in Keys : att[k].exists /\ att[k].owner = o})
    + SumSize({k \in Keys : queue[k].exists /\ queue[k].owner = o})

FitsQuota(k, o) == Usage(o) + Size[k] <= MaxStorage

Init ==
    /\ status = [o \in Owners |-> "live"]
    /\ up = [k \in Keys |-> [phase |-> "none", owner |-> None]]
    /\ att = [k \in Keys |-> NoRow]
    /\ queue = [k \in Keys |-> NoEntry]
    /\ file = [k \in Keys |-> "absent"]
    /\ oldFile = {}
    /\ msg = [m \in Messages |-> NoMessage]
    /\ round = [r \in Replicas |-> "stale"]
    /\ look = [r \in Replicas |-> None]
    /\ job = [w \in Workers |-> IdleJob]
    /\ req = [a \in Accounts |-> [phase |-> "none", keys |-> {}]]
    /\ late = {}
    /\ faults = 0

Fault == faults < MaxFaults /\ faults' = faults + 1

(***************************************************************************)
(* Uploads: create_chat_attachment_metadata_then_file                      *)
(***************************************************************************)
SetPhase(k, phase) == up' = [up EXCEPT ![k].phase = phase]

\* upload_chat_attachment: the session is valid and the image has been validated.
Authorize(k, o) ==
    /\ up[k].phase = "none"
    /\ require_attachment_session(o)
    /\ up' = [up EXCEPT ![k] = [phase |-> "checked", owner |-> o]]
    /\ UNCHANGED <<status, tables, file, oldFile, msg, upkeep, late, faults>>

\* create_chat_attachment_with_storage_quota under the owner's advisory lock.  The
\* row references the session: revoked will do, deleted will not.
CreateMetadata(k) ==
    LET o == up[k].owner
    IN  /\ up[k].phase = "checked"
        /\ \/ /\ status[o] # "deleted" /\ FitsQuota(k, o)
              /\ att' = [att EXCEPT ![k] = insert_chat_attachment(o)]
              /\ SetPhase(k, "writing")
           \/ /\ status[o] = "deleted" \/ ~FitsQuota(k, o)
              /\ SetPhase(k, "failed")
              /\ UNCHANGED att
        /\ UNCHANGED <<status, queue, file, oldFile, msg, upkeep, late, faults>>

Written(k, content) ==
    /\ file' = [file EXCEPT ![k] = content]
    /\ late' = IF content # "absent" /\ ~att[k].exists THEN late \cup {k} ELSE late

\* write_attachment_bytes succeeds; the client learns the id.
WriteFile(k) ==
    /\ up[k].phase = "writing"
    /\ SetPhase(k, "stored")
    /\ Written(k, "whole")
    /\ UNCHANGED <<status, tables, oldFile, msg, upkeep, faults>>

\* ... fails, perhaps after a part was written.
WriteFails(k) ==
    /\ up[k].phase = "writing"
    /\ Fault
    /\ SetPhase(k, "undoing")
    /\ \E content \in {"absent", "partial"} : Written(k, content)
    /\ UNCHANGED <<status, tables, oldFile, msg, upkeep>>

\* delete_pending_chat_attachment in the owner scope of the request: a row that was
\* promoted or deleted in the meantime is not found.
UndoMetadata(k) ==
    /\ up[k].phase = "undoing"
    /\ SetPhase(k, "failed")
    /\ DeleteRows(IF Pending(k) /\ att[k].owner = up[k].owner THEN {k} ELSE {})
    /\ UNCHANGED <<status, file, oldFile, msg, upkeep, late, faults>>

\* The process dies, or the statement fails: nothing more happens for this upload.
UploadDies(k) ==
    /\ InFlight(k)
    /\ Fault
    /\ SetPhase(k, "failed")
    /\ \/ /\ up[k].phase = "writing"
          /\ \E content \in {"absent", "partial", "whole"} : Written(k, content)
       \/ up[k].phase # "writing" /\ UNCHANGED <<file, late>>
    /\ UNCHANGED <<status, tables, oldFile, msg, upkeep>>

\* delete_chat_attachment: the composer drops an image that was not sent.
DeletePending(k) ==
    /\ up[k].phase = "stored"
    /\ Pending(k)
    /\ require_attachment_session(att[k].owner)
    /\ DeleteRows({k})
    /\ UNCHANGED <<status, up, file, oldFile, msg, upkeep, late, faults>>

(***************************************************************************)
(* Sends                                                                   *)
(***************************************************************************)
OwnPending(K, o) == \A k \in K : get_chat_attachment(k, o) /\ Pending(k)

\* validate_message_attachment_requests and build_ai_user_message: the images are
\* pending, owned and readable; the provider is called next.
PrepareSend(m, o, K) ==
    /\ msg[m].phase = "none"
    /\ status[o] = "live"
    /\ \A k \in K : up[k].phase = "stored" /\ read_attachment_bytes(k) # "not found"
    /\ OwnPending(K, o)
    /\ msg' = [msg EXCEPT ![m] = [phase |-> "prepared", owner |-> o, keys |-> K]]
    /\ UNCHANGED <<status, up, tables, file, oldFile, upkeep, late, faults>>

\* The chat is found in the owner scope of the request.
ChatReachable(o) == status[o] \notin {"promoted", "deleted"}

\* Mutant: the number of linked rows is not compared with the number sent.
MutLinkable(K, o) == TRUE

Linkable(K, o) == OwnPending(K, o)

\* append_chat_messages_limited_with_quota: messages and links commit together.
AppendMessage(m) ==
    LET o == msg[m].owner
        K == msg[m].keys
    IN  /\ msg[m].phase = "prepared"
        /\ ChatReachable(o)
        /\ Linkable(K, o)
        /\ att' = [k \in Keys |-> IF k \in K /\ Pending(k) THEN [att[k] EXCEPT !.msg = m]
                                                           ELSE att[k]]
        /\ msg' = [msg EXCEPT ![m].phase = "stored"]
        /\ UNCHANGED <<status, up, queue, file, oldFile, upkeep, late, faults>>

\* Rolled back, or the provider failed: the images stay as they are.
SendFails(m) ==
    /\ msg[m].phase = "prepared"
    /\ msg' = [msg EXCEPT ![m] = [NoMessage EXCEPT !.phase = "done"]]
    /\ UNCHANGED <<status, up, tables, file, oldFile, upkeep, late, faults>>

\* clear_chat_messages or delete_chat: the rows go with their message.
ClearChat(m) ==
    /\ Stored(m)
    /\ status[msg[m].owner] = "live"
    /\ DeleteRows(attachments_for_message(m))
    /\ msg' = [msg EXCEPT ![m] = [NoMessage EXCEPT !.phase = "done"]]
    /\ UNCHANGED <<status, up, file, oldFile, upkeep, late, faults>>

(***************************************************************************)
(* Owners                                                                  *)
(***************************************************************************)
\* expires_at passes, or the session is revoked.
GuestExpires(g) ==
    /\ status[g] = "live"
    /\ status' = [status EXCEPT ![g] = "expired"]
    /\ UNCHANGED <<up, tables, file, oldFile, msg, upkeep, late, faults>>

Given(owner, g, a) == IF owner = g THEN a ELSE owner

\* promote_guest_session_with_google: migrate_session_data_to_user_in_tx and
\* reparent_promoted_session_data_in_tx give everything of the guest to the account.
Promote(g, a) ==
    /\ status[g] = "live" /\ status[a] = "live"
    /\ status' = [status EXCEPT ![g] = "promoted"]
    /\ att' = [k \in Keys |-> [att[k] EXCEPT !.owner = Given(@, g, a)]]
    /\ queue' = [k \in Keys |-> [queue[k] EXCEPT !.owner = Given(@, g, a)]]
    /\ msg' = [m \in Messages |->
                 IF Stored(m) THEN [msg[m] EXCEPT !.owner = Given(@, g, a)] ELSE msg[m]]
    /\ UNCHANGED <<up, file, oldFile, upkeep, late, faults>>

RowsOf(o) == {k \in Keys : att[k].exists /\ att[k].owner = o}

Forgotten(o) ==
    [m \in Messages |-> IF Stored(m) /\ msg[m].owner = o
                        THEN [NoMessage EXCEPT !.phase = "done"] ELSE msg[m]]

\* cleanup_inactive_guest_sessions: the session's rows cascade.
CleanupGuest(g) ==
    /\ status[g] \in {"expired", "promoted"}
    /\ status' = [status EXCEPT ![g] = "deleted"]
    /\ DeleteRows(RowsOf(g))
    /\ msg' = Forgotten(g)
    /\ UNCHANGED <<up, file, oldFile, upkeep, late, faults>>

\* Queue entries lose the owner, the claim and any postponement with the account.
Released(q, a) ==
    [k \in Keys |-> IF q[k].exists /\ q[k].owner = a
                    THEN [NoEntry EXCEPT !.exists = TRUE, !.due = TRUE] ELSE q[k]]

\* delete_registered_account
DeleteAccount(a) ==
    LET q == Enqueued(queue, att, RowsOf(a))
    IN  /\ status[a] = "live"
        /\ status' = [status EXCEPT ![a] = "deleted"]
        /\ att' = Without(att, RowsOf(a))
        /\ queue' = Released(q, a)
        /\ msg' = Forgotten(a)
        /\ req' = [req EXCEPT ![a] =
                     [phase |-> "claim", keys |-> {k \in Keys : q[k].exists /\ q[k].owner = a}]]
        /\ UNCHANGED <<up, file, oldFile, round, look, job, late, faults>>

(***************************************************************************)
(* Workers: process_chat_attachment_file_deletions_batch                   *)
(***************************************************************************)
Idle(w) == job[w] = IdleJob

Eligible(k) ==
    /\ queue[k].exists /\ queue[k].due
    /\ queue[k].claim = None \/ ~queue[k].leased

\* Claiming a batch under a fresh token: the worker itself, which has one batch at
\* a time.
Claim(w, E) ==
    /\ queue' = [k \in Keys |-> IF k \in E THEN [queue[k] EXCEPT !.claim = w, !.leased = TRUE]
                                           ELSE queue[k]]
    /\ job' = [job EXCEPT ![w].todo = E]

\* delete_attachment_file; a missing file counts as deleted.
RemoveFile(w, k) ==
    /\ k \in job[w].todo /\ job[w].at = None
    /\ file' = [file EXCEPT ![k] = "absent"]
    /\ oldFile' = oldFile \ {k}
    /\ job' = [job EXCEPT ![w].at = k, ![w].gone = TRUE]
    /\ UNCHANGED <<status, up, tables, msg, round, look, req, late, faults>>

\* ... fails: the file is inaccessible.
RemoveFails(w, k) ==
    /\ k \in job[w].todo /\ job[w].at = None
    /\ file[k] # "absent"
    /\ Fault
    /\ job' = [job EXCEPT ![w].at = k, ![w].gone = FALSE]
    /\ UNCHANGED <<status, up, tables, file, oldFile, msg, round, look, req, late>>

Processed(j) == [todo |-> j.todo \ {j.at}, at |-> None, gone |-> FALSE]

\* Mutant: the entry is completed although the file could not be removed.
MutAfterFile(entry, gone) == NoEntry

\* complete_ or retry_chat_attachment_file_deletion on the claimed entry.
AfterFile(entry, gone) ==
    IF gone THEN NoEntry
    ELSE [entry EXCEPT !.claim = None, !.leased = FALSE, !.due = FALSE]

ClaimHeld(w, k) == queue[k].exists /\ queue[k].claim = w

FinishFile(w) ==
    LET k == job[w].at
    IN  /\ k # None
        /\ queue' = IF ClaimHeld(w, k)
                    THEN [queue EXCEPT ![k] = AfterFile(@, job[w].gone)] ELSE queue
        /\ job' = [job EXCEPT ![w] = Processed(@)]
        /\ UNCHANGED <<status, up, att, file, oldFile, msg, round, look, req, late, faults>>

\* The statement fails: the entry stays claimed until its lease ends.
FinishFails(w) ==
    /\ job[w].at # None
    /\ Fault
    /\ job' = [job EXCEPT ![w] = Processed(@)]
    /\ UNCHANGED <<status, up, tables, file, oldFile, msg, round, look, req, late>>

(***************************************************************************)
(* The account-deletion request                                            *)
(***************************************************************************)
\* claim_chat_attachment_file_deletions_for_keys
ClaimForKeys(a) ==
    /\ req[a].phase = "claim"
    /\ Claim(a, {k \in req[a].keys : Eligible(k)})
    /\ req' = [req EXCEPT ![a].phase = "working"]
    /\ UNCHANGED <<status, up, att, file, oldFile, msg, round, look, late, faults>>

\* count_chat_attachment_file_deletions_for_keys decides cleanup_pending.
Report(a) ==
    /\ req[a].phase = "working"
    /\ Idle(a)
    /\ req' = [req EXCEPT ![a].phase =
                 IF \E k \in req[a].keys : queue[k].exists THEN "pending" ELSE "clean"]
    /\ UNCHANGED <<status, up, tables, file, oldFile, msg, round, look, job, late, faults>>

\* The claim or the count fails: the request goes on without it, or reports pending.
RequestQueryFails(a) ==
    /\ req[a].keys # {}
    /\ Fault
    /\ \/ req[a].phase = "claim" /\ req' = [req EXCEPT ![a].phase = "working"]
       \/ /\ req[a].phase = "working" /\ Idle(a)
          /\ req' = [req EXCEPT ![a].phase = "pending"]
    /\ UNCHANGED <<status, up, tables, file, oldFile, msg, round, look, job, late>>

RequestDies(a) ==
    /\ req[a].phase \in {"claim", "working"}
    /\ Fault
    /\ req' = [req EXCEPT ![a].phase = "dropped"]
    /\ job' = [job EXCEPT ![a] = IdleJob]
    /\ UNCHANGED <<status, up, tables, file, oldFile, msg, round, look, late>>

(***************************************************************************)
(* The maintenance loop: spawn_attachment_maintenance                      *)
(***************************************************************************)
At(r, phase) == Idle(r) /\ look[r] = None /\ round[r] = phase

StalePending == {k \in Keys : Pending(k) /\ att[k].old}

\* delete_stale_pending_chat_attachments
CleanupStale(r) ==
    /\ At(r, "stale")
    /\ DeleteRows(StalePending)
    /\ round' = [round EXCEPT ![r] = "scan"]
    /\ UNCHANGED <<status, up, file, oldFile, msg, look, job, req, late, faults>>

\* AttachmentOrphanScan: the directory scan meets an old file ...
ScanEntry(r, k) ==
    /\ At(r, "scan")
    /\ file[k] # "absent" /\ k \in oldFile
    /\ look' = [look EXCEPT ![r] = k]
    /\ UNCHANGED <<status, up, tables, file, oldFile, msg, round, job, req, late, faults>>

Orphan(k) == ~att[k].exists /\ ~queue[k].exists

\* ... and enqueue_reconciled_chat_attachment_file_deletion decides about it later.
EnqueueReconciled(r) ==
    LET k == look[r]
    IN  /\ k # None
        /\ queue' = IF Orphan(k)
                    THEN [queue EXCEPT ![k] = [NoEntry EXCEPT !.exists = TRUE, !.due = TRUE]]
                    ELSE queue
        /\ look' = [look EXCEPT ![r] = None]
        /\ UNCHANGED <<status, up, att, file, oldFile, msg, round, job, req, late, faults>>

\* The end of the directory, or of the batch of entries.
ScanEnds(r) ==
    /\ At(r, "scan")
    /\ round' = [round EXCEPT ![r] = "process"]
    /\ UNCHANGED <<status, up, tables, file, oldFile, msg, look, job, req, late, faults>>

\* claim_chat_attachment_file_deletions; the next round starts when it is processed.
ClaimBatch(r) ==
    /\ At(r, "process")
    /\ Claim(r, {k \in Keys : Eligible(k)})
    /\ round' = [round EXCEPT ![r] = "stale"]
    /\ UNCHANGED <<status, up, att, file, oldFile, msg, look, req, late, faults>>

\* A statement of the loop fails: it is logged, and the loop goes on to its next part.
LoopQueryFails(r) ==
    /\ Fault
    /\ \/ /\ look[r] # None
          /\ look' = [look EXCEPT ![r] = None]
          /\ UNCHANGED round
       \/ \E p \in {<<"stale", "scan">>, <<"process", "stale">>} :
             /\ At(r, p[1])
             /\ round' = [round EXCEPT ![r] = p[2]]
             /\ UNCHANGED look
    /\ UNCHANGED <<status, up, tables, file, oldFile, msg, job, req, late>>

ReplicaRestarts(r) ==
    /\ Fault
    /\ round' = [round EXCEPT ![r] = "stale"]
    /\ look' = [look EXCEPT ![r] = None]
    /\ job' = [job EXCEPT ![r] = IdleJob]
    /\ UNCHANGED <<status, up, tables, file, oldFile, msg, req, late>>

(***************************************************************************)
(* Time.  A request does not last for 24 hours.                            *)
(***************************************************************************)
RowAges(k) ==
    /\ att[k].exists /\ ~att[k].old /\ ~InFlight(k)
    /\ att' = [att EXCEPT ![k].old = TRUE]
    /\ UNCHANGED <<status, up, queue, file, oldFile, msg, upkeep, late, faults>>

FileAges(k) ==
    /\ file[k] # "absent" /\ k \notin oldFile /\ ~InFlight(k)
    /\ oldFile' = oldFile \cup {k}
    /\ UNCHANGED <<status, up, tables, file, msg, upkeep, late, faults>>

LeaseExpires(k) ==
    /\ queue[k].exists /\ queue[k].leased
    /\ queue' = [queue EXCEPT ![k].leased = FALSE]
    /\ UNCHANGED <<status, up, att, file, oldFile, msg, upkeep, late, faults>>

RetryDue(k) ==
    /\ queue[k].exists /\ ~queue[k].due
    /\ queue' = [queue EXCEPT ![k].due = TRUE]
    /\ UNCHANGED <<status, up, att, file, oldFile, msg, upkeep, late, faults>>

UploadStep(k) == CreateMetadata(k) \/ WriteFile(k) \/ WriteFails(k) \/ UndoMetadata(k)

TimePasses(k) == RowAges(k) \/ FileAges(k) \/ LeaseExpires(k) \/ RetryDue(k)

WorkerStep(w) ==
    \/ \E k \in Keys : RemoveFile(w, k) \/ RemoveFails(w, k)
    \/ FinishFile(w) \/ FinishFails(w)

RequestStep(a) == ClaimForKeys(a) \/ Report(a)

MaintenanceStep(r) ==
    CleanupStale(r) \/ EnqueueReconciled(r) \/ ScanEnds(r) \/ ClaimBatch(r)

Next ==
    \/ \E k \in Keys : \/ UploadStep(k) \/ UploadDies(k) \/ DeletePending(k) \/ TimePasses(k)
                       \/ \E o \in Owners : Authorize(k, o)
    \/ \E m \in Messages :
          \/ \E o \in Owners, K \in SUBSET Keys \ {{}} : PrepareSend(m, o, K)
          \/ AppendMessage(m) \/ SendFails(m) \/ ClearChat(m)
    \/ \E g \in Guests : \/ GuestExpires(g) \/ CleanupGuest(g)
                         \/ \E a \in Accounts : Promote(g, a)
    \/ \E a \in Accounts : DeleteAccount(a) \/ RequestStep(a) \/ RequestQueryFails(a) \/ RequestDies(a)
    \/ \E w \in Workers : WorkerStep(w)
    \/ \E r \in Replicas : \/ MaintenanceStep(r) \/ LoopQueryFails(r) \/ ReplicaRestarts(r)
                           \/ \E k \in Keys : ScanEntry(r, k)

Spec == Init /\ [][Next]_vars

-----------------------------------------------------------------------------
\* A stored message keeps all of its images until it is deleted itself, and its owner
\* can open every one: no cleanup, reconciliation, stale claim, concurrent send or
\* promotion takes a row, a file or the right to it away, and no message is stored
\* with some of its images missing.
MessageImagesKept ==
    \A m \in Messages : Stored(m) =>
        /\ attachments_for_message(m) = msg[m].keys
        /\ \A k \in msg[m].keys :
              /\ read_attachment_bytes(k) = "whole"
              /\ status[msg[m].owner] = "live"
                    => preview_chat_attachment(k, msg[m].owner) = "whole"

\* No file is forgotten: every file is held by its metadata or by the deletion queue,
\* unless it was written after the deletion of its owner had already
\* taken its row, which only the directory scan can find.
FilesTracked ==
    \A k \in Keys : file[k] # "absent" =>
        att[k].exists \/ queue[k].exists \/ k \in late

OnDisk(k) == file[k] # "absent"
FormerGuests == {g \in Guests : status[g] \in {"promoted", "deleted"}}

\* The files of a live owner never take more than the quota, and those of an account
\* never more than one quota for itself and one for each guest that may have become
\* it: deleting rows releases nothing before the files are gone.
DiskWithinQuota ==
    \A o \in Owners : status[o] = "live" =>
        SumSize({k \in Keys : /\ OnDisk(k)
                              /\ \/ att[k].exists /\ att[k].owner = o
                                 \/ queue[k].exists /\ queue[k].owner = o
                                 \/ ~att[k].exists /\ ~queue[k].exists /\ up[k].owner = o})
        <= MaxStorage * (1 + IF o \in Accounts THEN Cardinality(FormerGuests) ELSE 0)

\* When an account deletion has answered that no cleanup is pending, no file of the
\* account is left, except one whose upload was still writing when the account went.
CleanReportTrue ==
    \A a \in Accounts : req[a].phase = "clean" =>
        \A k \in req[a].keys : OnDisk(k) => k \in late

=============================================================================
