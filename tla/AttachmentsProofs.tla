-------------------------- MODULE AttachmentsProofs --------------------------
(***************************************************************************)
(* Proofs about Attachments, for any numbers of images, owners, messages,  *)
(* replicas and faults: no file is forgotten, no image of a message is     *)
(* lost, an account deletion that reports no cleanup has left none, and    *)
(* what is on disk for an owner stays within the storage quota.            *)
(***************************************************************************)
EXTENDS Attachments, InductionLemmas, FiniteSetTheorems, TLAPS

OwnerOrNone == Owners \cup {None}
UploadRecord == [phase : {"none", "checked", "writing", "undoing", "stored", "failed"}, owner : OwnerOrNone]
RowRecord == [exists : BOOLEAN, owner : OwnerOrNone, msg : Messages \cup {None}, old : BOOLEAN]
EntryRecord == [exists : BOOLEAN, owner : OwnerOrNone, due : BOOLEAN, claim : Workers \cup {None}, leased : BOOLEAN]
MessageRecord == [phase : {"none", "prepared", "stored", "done"}, owner : OwnerOrNone, keys : SUBSET Keys]
JobRecord == [todo : SUBSET Keys, at : Keys \cup {None}, gone : BOOLEAN]
RequestRecord == [phase : {"none", "claim", "working", "pending", "clean", "dropped"}, keys : SUBSET Keys]

TableTypes ==
    /\ up \in [Keys -> UploadRecord]
    /\ att \in [Keys -> RowRecord]
    /\ queue \in [Keys -> EntryRecord]
    /\ file \in [Keys -> {"absent", "partial", "whole"}]
    /\ late \subseteq Keys
OwnerTypes ==
    /\ status \in [Owners -> {"live", "expired", "promoted", "deleted"}]
    /\ msg \in [Messages -> MessageRecord]
UpkeepTypes ==
    /\ look \in [Replicas -> Keys \cup {None}]
    /\ job \in [Workers -> JobRecord]
    /\ req \in [Accounts -> RequestRecord]
Types == TableTypes /\ OwnerTypes /\ UpkeepTypes

\* The empty row, queue entry, message and job are of their types and hold nothing.
LEMMA Blank ==
    /\ NoRow \in RowRecord /\ ~NoRow.exists
    /\ NoEntry \in EntryRecord /\ ~NoEntry.exists
    /\ NoMessage \in MessageRecord /\ NoMessage.phase = "none" /\ NoMessage.keys = {}
    /\ IdleJob \in JobRecord /\ IdleJob.todo = {} /\ IdleJob.at = None
<1>1. NoRow \in RowRecord /\ ~NoRow.exists
  BY DEF NoRow, RowRecord, OwnerOrNone
<1>2. NoEntry \in EntryRecord /\ ~NoEntry.exists
  BY DEF NoEntry, EntryRecord, OwnerOrNone
<1>3. NoMessage \in MessageRecord /\ NoMessage.phase = "none" /\ NoMessage.keys = {}
  BY DEF NoMessage, MessageRecord, OwnerOrNone
<1>4. IdleJob \in JobRecord /\ IdleJob.todo = {} /\ IdleJob.at = None
  BY DEF IdleJob, JobRecord
<1> QED
  BY <1>1, <1>2, <1>3, <1>4

-----------------------------------------------------------------------------
\* The row of an upload has been made, and has been deleted again: neither is undone.
Past(k) == up[k].phase \notin {"none", "checked"}
Gone(k) == Past(k) /\ ~att[k].exists

UploadInv ==
    /\ \A k \in Keys : up[k].phase # "none" => up[k].owner \in Owners
    /\ \A k \in Keys : att[k].exists \/ file[k] # "absent" => Past(k)
    /\ \A k \in Keys : up[k].phase = "stored" /\ att[k].exists => file[k] = "whole"
    /\ \A r \in Replicas : \A k \in Keys : look[r] = k => Past(k)

\* Only files without a row are queued, claimed or waited for.
DeletionInv ==
    /\ \A k \in Keys : queue[k].exists => Gone(k)
    /\ \A w \in Workers : \A k \in Keys : k \in job[w].todo \/ job[w].at = k => Gone(k)
    /\ \A w \in Workers : \A k \in Keys : job[w].at = k /\ job[w].gone => file[k] = "absent" \/ k \in late
    /\ \A a \in Accounts : \A k \in req[a].keys : Gone(k)

\* The rows that name a message are its images and of its owner.
MessageInv ==
    /\ \A k \in Keys, m \in Messages : att[k].exists /\ att[k].msg = m => Stored(m) /\ k \in msg[m].keys
    /\ \A m \in Messages : Stored(m) =>
         \A k \in msg[m].keys : att[k].exists /\ att[k].msg = m /\ att[k].owner = msg[m].owner
    /\ \A m \in Messages : msg[m].phase \in {"prepared", "stored"} => \A k \in msg[m].keys : up[k].phase = "stored"

AttachmentsInv == Types /\ UploadInv /\ DeletionInv /\ MessageInv /\ FilesTracked /\ CleanReportTrue

-----------------------------------------------------------------------------
(***************************************************************************)
(* What a step may do to uploads and rows, to files, to the deletion       *)
(* queue, to the work on it, and to messages.  The invariant follows from  *)
(* these effects, and the effects from each action.                        *)
(***************************************************************************)
RowEffects ==
    /\ \A k \in Keys : up'[k].phase # "none" => up'[k].owner \in Owners
    /\ \A k \in Keys : Past(k) => Past(k)'
    /\ \A k \in Keys : att'[k].exists => Past(k)' /\ (att[k].exists \/ up[k].phase = "checked")
    /\ \A k \in Keys : up'[k].phase = "stored" => up[k].phase = "stored" \/ (file'[k] = "whole" /\ up[k].phase = "writing")
    /\ \A k \in Keys : up[k].phase = "stored" => up'[k].phase = "stored"
FileEffects ==
    /\ late \subseteq late'
    /\ \A k \in Keys : file'[k] # file[k] =>
         \/ file'[k] = "absent" /\ \E w \in Workers : k \in job[w].todo
         \/ up[k].phase = "writing" /\ (att[k].exists \/ file'[k] = "absent" \/ k \in late')
QueueEffects ==
    /\ \A k \in Keys : queue'[k].exists => \/ queue[k].exists
                                           \/ att[k].exists /\ ~att'[k].exists
                                           \/ ~att[k].exists /\ \E r \in Replicas : look[r] = k
    /\ \A k \in Keys : att[k].exists /\ ~att'[k].exists => queue'[k].exists
    /\ \A k \in Keys : queue[k].exists /\ ~queue'[k].exists => \E w \in Workers : job[w].at = k /\ job[w].gone
ScanEffects == \A r \in Replicas : \A k \in Keys : look'[r] = k => look[r] = k \/ file[k] # "absent"
JobEffects ==
    \A w \in Workers : \A k \in Keys :
        /\ k \in job'[w].todo => k \in job[w].todo \/ queue[k].exists
        /\ job'[w].at = k => job[w].at = k \/ k \in job[w].todo
        /\ job'[w].at = k /\ job'[w].gone => (job[w].at = k /\ job[w].gone) \/ file'[k] = "absent"
RequestEffects ==
    \A a \in Accounts :
        /\ \A k \in req'[a].keys : k \in req[a].keys \/ queue'[k].exists
        /\ req'[a].phase = "clean" =>
              /\ req'[a].keys = req[a].keys
              /\ req[a].phase = "clean" \/ \A k \in req[a].keys : ~queue[k].exists
WorkEffects == ScanEffects /\ JobEffects /\ RequestEffects
Effects == RowEffects /\ FileEffects /\ QueueEffects /\ WorkEffects

\* Whatever stays within the effects keeps uploads, deletions, tracked files and clean reports.
LEMMA EffectsKeep ==
    ASSUME AttachmentsInv, Types', Effects
    PROVE  UploadInv' /\ DeletionInv' /\ FilesTracked' /\ CleanReportTrue'
<1> USE DEF AttachmentsInv, Effects
<1>0. ASSUME NEW k \in Keys, Gone(k) PROVE Gone(k)'
  BY <1>0 DEF RowEffects, Gone, Past
<1>1. UploadInv'
  <2>1. ASSUME NEW k \in Keys, file'[k] # "absent" PROVE Past(k)'
    BY <2>1 DEF RowEffects, FileEffects, UploadInv, Past
  <2>2. ASSUME NEW k \in Keys, up'[k].phase = "stored", att'[k].exists PROVE file'[k] = "whole"
    <3>1. CASE up[k].phase # "stored"
      BY <2>2, <3>1 DEF RowEffects
    <3>2. CASE up[k].phase = "stored"
      <4>1. att[k].exists /\ file[k] = "whole"
        BY <2>2, <3>2 DEF RowEffects, UploadInv
      <4>2. ~ \E w \in Workers : k \in job[w].todo
        BY <4>1 DEF DeletionInv, Gone
      <4> QED
        BY <3>2, <4>1, <4>2 DEF FileEffects
    <3> QED
      BY <3>1, <3>2
  <2>3. ASSUME NEW r \in Replicas, NEW k \in Keys, look'[r] = k PROVE Past(k)'
    BY <2>3 DEF WorkEffects, ScanEffects, RowEffects, UploadInv
  <2> QED
    BY <2>1, <2>2, <2>3 DEF UploadInv, RowEffects
<1>2. \A k \in Keys : queue'[k].exists => Gone(k)'
  <2> SUFFICES ASSUME NEW k \in Keys, queue'[k].exists PROVE Gone(k)'
    OBVIOUS
  <2>1. CASE queue[k].exists
    BY <1>0, <2>1 DEF DeletionInv
  <2>2. CASE att[k].exists /\ ~att'[k].exists
    BY <2>2 DEF UploadInv, RowEffects, Gone
  <2>3. CASE ~att[k].exists /\ \E r \in Replicas : look[r] = k
    BY <1>0, <2>3 DEF UploadInv, Gone
  <2> QED
    BY <2>1, <2>2, <2>3 DEF QueueEffects
<1>3. ASSUME NEW k \in Keys, Gone(k), file'[k] # "absent", k \notin late' PROVE file[k] # "absent" /\ k \notin late
  BY <1>3 DEF FileEffects, Gone
<1>4. DeletionInv'
  <2>1. ASSUME NEW w \in Workers, NEW k \in Keys, k \in job'[w].todo \/ job'[w].at = k PROVE Gone(k)'
    BY <1>0, <2>1 DEF WorkEffects, JobEffects, DeletionInv
  <2>2. ASSUME NEW w \in Workers, NEW k \in Keys, job'[w].at = k, job'[w].gone
        PROVE  file'[k] = "absent" \/ k \in late'
    BY <1>3, <2>2 DEF WorkEffects, JobEffects, DeletionInv
  <2>3. ASSUME NEW a \in Accounts, NEW k \in req'[a].keys PROVE Gone(k)'
    <3>1. k \in Keys
      BY DEF Types, UpkeepTypes, RequestRecord
    <3> QED
      BY <1>0, <1>2, <2>3, <3>1 DEF WorkEffects, RequestEffects, DeletionInv
  <2> QED
    BY <1>2, <2>1, <2>2, <2>3 DEF DeletionInv
<1>5. FilesTracked'
  <2> SUFFICES ASSUME NEW k \in Keys, file'[k] # "absent", ~att'[k].exists, ~queue'[k].exists PROVE k \in late'
    BY DEF FilesTracked
  <2>1. ~att[k].exists
    BY DEF QueueEffects
  <2>2. Past(k)'
    BY <1>1 DEF UploadInv
  <2>3. CASE file[k] = "absent"
    BY <2>1, <2>3 DEF FileEffects
  <2>4. CASE file[k] # "absent"
    <3>1. CASE queue[k].exists
      <4>1. PICK w \in Workers : job[w].at = k /\ job[w].gone
        BY <3>1 DEF QueueEffects
      <4> QED
        BY <2>4, <4>1 DEF DeletionInv, FileEffects
    <3>2. CASE ~queue[k].exists
      BY <2>1, <2>4, <3>2 DEF FilesTracked, FileEffects
    <3> QED
      BY <3>1, <3>2
  <2> QED
    BY <2>3, <2>4
<1>6. CleanReportTrue'
  <2> SUFFICES ASSUME NEW a \in Accounts, req'[a].phase = "clean", NEW k \in req'[a].keys, file'[k] # "absent"
               PROVE  k \in late'
    BY DEF CleanReportTrue, OnDisk
  <2>1. k \in Keys /\ k \in req[a].keys /\ (req[a].phase = "clean" \/ ~queue[k].exists)
    BY DEF WorkEffects, RequestEffects, Types, UpkeepTypes, RequestRecord
  <2>2. Gone(k)
    BY <2>1 DEF DeletionInv
  <2>3. ASSUME k \notin late' PROVE FALSE
    <3>1. file[k] # "absent" /\ k \notin late
      BY <1>3, <2>1, <2>2, <2>3
    <3> QED
      BY <2>1, <2>2, <3>1 DEF CleanReportTrue, OnDisk, FilesTracked, Gone
  <2> QED
    BY <2>3
<1> QED
  BY <1>1, <1>4, <1>5, <1>6

\* Most steps neither store a message nor take one away.
QuietMessages ==
    /\ \A m \in Messages : Stored(m)' <=> Stored(m)
    /\ \A m \in Messages : Stored(m) => msg'[m] = msg[m]
    /\ \A m \in Messages : msg'[m].phase = "prepared" => \A k \in msg'[m].keys : up'[k].phase = "stored"
    /\ \A k \in Keys, m \in Messages : att'[k].exists /\ att'[k].msg = m <=> att[k].exists /\ att[k].msg = m
    /\ \A k \in Keys, m \in Messages : att[k].exists /\ att[k].msg = m => att'[k].owner = att[k].owner

\* Messages that are left alone keep their images.
LEMMA QuietKeeps ==
    ASSUME AttachmentsInv, Types', RowEffects, QuietMessages
    PROVE  MessageInv'
<1>1. \A m \in Messages : msg[m].keys \subseteq Keys /\ msg'[m].keys \subseteq Keys
  BY DEF AttachmentsInv, Types, OwnerTypes, MessageRecord
<1>2. \A k \in Keys, m \in Messages : att'[k].exists /\ att'[k].msg = m => Stored(m)' /\ k \in msg'[m].keys
  BY DEF AttachmentsInv, MessageInv, QuietMessages
<1>3. ASSUME NEW m \in Messages, Stored(m)', NEW k \in msg'[m].keys
      PROVE  att'[k].exists /\ att'[k].msg = m /\ att'[k].owner = msg'[m].owner /\ up'[k].phase = "stored"
  <2>1. Stored(m) /\ msg'[m] = msg[m] /\ k \in Keys
    BY <1>1, <1>3 DEF QuietMessages
  <2> QED
    BY <2>1 DEF AttachmentsInv, MessageInv, QuietMessages, RowEffects, Stored
<1> QED
  BY <1>2, <1>3 DEF MessageInv, QuietMessages, Stored

\* SQL null is no key, owner, message, replica or worker.
LEMMA NoneIsNothing == None \notin Keys \cup Owners \cup Messages \cup Replicas \cup Workers
<1> QED
  BY AttachmentsAssumption DEF AttachmentsAssumption, Owners, Workers

\* The effects of a step that leaves something alone.
LEMMA RowsAlone ==
    ASSUME AttachmentsInv, UNCHANGED <<up, att>>
    PROVE  RowEffects
<1> QED
  BY DEF AttachmentsInv, UploadInv, RowEffects, Past

\* A step that leaves the upload directory alone has the allowed effect on files.
LEMMA FilesAlone ==
    ASSUME UNCHANGED <<file, late>>
    PROVE  FileEffects
<1> QED
  BY DEF FileEffects

\* A step that leaves both tables alone has the allowed effect on the queue.
LEMMA QueueAlone ==
    ASSUME UNCHANGED <<att, queue>>
    PROVE  QueueEffects
<1> QED
  BY DEF QueueEffects

\* A step that leaves scans, batches and requests alone has the allowed effect on them.
LEMMA WorkAlone ==
    ASSUME UNCHANGED upkeep
    PROVE  WorkEffects
<1> QED
  BY DEF WorkEffects, ScanEffects, JobEffects, RequestEffects, upkeep

\* A step under which the same rows name the same messages leaves messages alone.
LEMMA MessagesAlone ==
    ASSUME AttachmentsInv, RowEffects, UNCHANGED msg,
           \A k \in Keys, m \in Messages : att'[k].exists /\ att'[k].msg = m <=> att[k].exists /\ att[k].msg = m,
           \A k \in Keys, m \in Messages : att[k].exists /\ att[k].msg = m => att'[k].owner = att[k].owner
    PROVE  QuietMessages
<1>1. \A m \in Messages : msg[m].keys \subseteq Keys
  BY DEF AttachmentsInv, Types, OwnerTypes, MessageRecord
<1>2. \A m \in Messages : Stored(m)' <=> Stored(m)
  BY DEF Stored
<1> QED
  BY <1>1, <1>2 DEF QuietMessages, AttachmentsInv, MessageInv, RowEffects

\* Rows of D go to the deletion queue.
LEMMA EntriesAdded ==
    ASSUME Types, NEW D \in SUBSET Keys, NEW q, q = Enqueued(queue, att, D)
    PROVE  q \in [Keys -> EntryRecord] /\ \A k \in Keys : q[k].exists <=> queue[k].exists \/ k \in D
<1>1. ASSUME NEW k \in Keys
      PROVE  q[k] \in EntryRecord /\ (q[k].exists <=> queue[k].exists \/ k \in D)
  <2>1. queue[k] \in EntryRecord /\ att[k].owner \in OwnerOrNone
    BY DEF Types, TableTypes, RowRecord
  <2>2. CASE k \notin D
    <3>1. q[k] = queue[k]
      BY <2>2 DEF Enqueued
    <3> QED
      BY <2>1, <2>2, <3>1
  <2>3. CASE k \in D /\ queue[k].exists
    <3>1. PICK o \in OwnerOrNone : o = att[k].owner
      BY <2>1
    <3>2. q[k] = [queue[k] EXCEPT !.owner = o, !.due = TRUE]
      BY <2>3, <3>1 DEF Enqueued
    <3> QED
      BY <2>1, <2>3, <3>2 DEF EntryRecord
  <2>4. CASE k \in D /\ ~queue[k].exists
    <3>1. PICK o \in OwnerOrNone : o = att[k].owner
      BY <2>1
    <3>2. q[k] = [NoEntry EXCEPT !.exists = TRUE, !.owner = o, !.due = TRUE]
      BY <2>4, <3>1 DEF Enqueued
    <3> QED
      BY <2>4, <3>2, Blank DEF EntryRecord
  <2> QED
    BY <2>2, <2>3, <2>4
<1> QED
  BY <1>1 DEF Enqueued

\* What deleting rows does: they are gone, and each has its entry in the queue (the trigger).
LEMMA RowsDeleted ==
    ASSUME Types, NEW D \in SUBSET Keys, DeleteRows(D)
    PROVE  /\ att' \in [Keys -> RowRecord] /\ queue' \in [Keys -> EntryRecord]
           /\ \A k \in Keys : att'[k] = IF k \in D THEN NoRow ELSE att[k]
           /\ \A k \in Keys : queue'[k].exists <=> queue[k].exists \/ k \in D
<1>1. \A k \in Keys : att'[k] = IF k \in D THEN NoRow ELSE att[k]
  BY DEF DeleteRows, Without
<1>2. att' \in [Keys -> RowRecord]
  BY Blank DEF DeleteRows, Without, Types, TableTypes
<1>3. queue' \in [Keys -> EntryRecord] /\ \A k \in Keys : queue'[k].exists <=> queue[k].exists \/ k \in D
  <2>1. PICK q : q = Enqueued(queue, att, D)
    OBVIOUS
  <2>2. q \in [Keys -> EntryRecord] /\ \A k \in Keys : q[k].exists <=> queue[k].exists \/ k \in D
    BY <2>1, EntriesAdded
  <2> QED
    BY <2>1, <2>2 DEF DeleteRows
<1> QED
  BY <1>1, <1>2, <1>3

\* ... which is the effect of a deletion on rows and queue.
LEMMA DeletedEffects ==
    ASSUME AttachmentsInv, NEW D \in SUBSET Keys, \A k \in D : att[k].exists, DeleteRows(D),
           \A k \in Keys : /\ up'[k].owner = up[k].owner
                           /\ up'[k].phase = up[k].phase \/ (up[k].phase = "undoing" /\ up'[k].phase = "failed")
    PROVE  RowEffects /\ QueueEffects
<1>1. /\ \A k \in Keys : att'[k] = IF k \in D THEN NoRow ELSE att[k]
      /\ \A k \in Keys : queue'[k].exists <=> queue[k].exists \/ k \in D
  BY RowsDeleted DEF AttachmentsInv
<1>2. \A k \in Keys : att'[k].exists <=> att[k].exists /\ k \notin D
  BY <1>1, Blank
<1>3. RowEffects
  <2>1. \A k \in Keys : /\ up'[k].phase # "none" => up[k].phase # "none"
                        /\ Past(k) => Past(k)'
                        /\ up'[k].phase = "stored" <=> up[k].phase = "stored"
    BY DEF Past
  <2>2. \A k \in Keys : /\ up[k].phase # "none" => up[k].owner \in Owners
                        /\ att[k].exists => Past(k)
    BY DEF AttachmentsInv, UploadInv
  <2>3. \A k \in Keys : up'[k].phase # "none" => up'[k].owner \in Owners
    BY <2>1, <2>2
  <2>4. \A k \in Keys : att'[k].exists => Past(k)' /\ (att[k].exists \/ up[k].phase = "checked")
    BY <1>2, <2>1, <2>2
  <2> QED
    BY <2>1, <2>3, <2>4 DEF RowEffects
<1>4. QueueEffects
  BY <1>1, <1>2 DEF QueueEffects
<1> QED
  BY <1>3, <1>4

\* A step within the effects that leaves messages alone keeps the invariant.
LEMMA QuietStep ==
    ASSUME AttachmentsInv, Types', Effects, QuietMessages
    PROVE  AttachmentsInv'
<1> QED
  BY EffectsKeep, QuietKeeps DEF AttachmentsInv, Effects

-----------------------------------------------------------------------------
(* Uploads. *)

\* What moving one upload to another phase does.
LEMMA PhaseSet ==
    ASSUME Types, NEW k \in Keys, NEW phase \in {"writing", "undoing", "stored", "failed"}, SetPhase(k, phase)
    PROVE  /\ up' \in [Keys -> UploadRecord]
           /\ \A j \in Keys : /\ up'[j].phase = IF j = k THEN phase ELSE up[j].phase
                              /\ up'[j].owner = up[j].owner
<1>1. up \in [Keys -> UploadRecord]
  BY DEF Types, TableTypes
<1>2. PICK new : new = [up[k] EXCEPT !.phase = phase]
  OBVIOUS
<1>3. new \in UploadRecord /\ new.phase = phase /\ new.owner = up[k].owner
  BY <1>1, <1>2 DEF UploadRecord
<1>4. up' = [up EXCEPT ![k] = new]
  BY <1>2 DEF SetPhase
<1> QED
  BY <1>1, <1>3, <1>4

\* A file is written while its upload is under way.
LEMMA FileWritten ==
    ASSUME Types, NEW k \in Keys, NEW content \in {"absent", "partial", "whole"}, Written(k, content),
           up[k].phase = "writing"
    PROVE  /\ FileEffects /\ file' \in [Keys -> {"absent", "partial", "whole"}] /\ late' \subseteq Keys
           /\ file'[k] = content
<1> QED
  BY DEF Types, TableTypes, Written, FileEffects

\* Every step of an upload, of its failures and of its removal by the composer keeps the invariant.
LEMMA UploadSteps ==
    ASSUME AttachmentsInv, NEW k \in Keys,
           \/ \E o \in Owners : Authorize(k, o)
           \/ UploadStep(k) \/ UploadDies(k) \/ DeletePending(k)
    PROVE  AttachmentsInv'
<1> USE DEF AttachmentsInv
<1>1. /\ UNCHANGED <<status, msg, upkeep>>
      /\ WorkEffects /\ OwnerTypes' /\ UpkeepTypes'
  <2>1. UNCHANGED <<status, msg, upkeep>>
    BY DEF Authorize, UploadStep, CreateMetadata, WriteFile, WriteFails, UndoMetadata, UploadDies, DeletePending
  <2> QED
    BY <2>1, WorkAlone DEF Types, OwnerTypes, UpkeepTypes, upkeep
<1>2. ASSUME TableTypes', RowEffects, FileEffects, QueueEffects,
             \A j \in Keys, m \in Messages : att'[j].exists /\ att'[j].msg = m <=> att[j].exists /\ att[j].msg = m,
             \A j \in Keys, m \in Messages : att[j].exists /\ att[j].msg = m => att'[j].owner = att[j].owner
      PROVE  AttachmentsInv'
  BY <1>1, <1>2, MessagesAlone, QuietStep DEF Types, Effects
<1>3. ASSUME NEW o \in Owners, Authorize(k, o) PROVE AttachmentsInv'
  <2>1. /\ up[k].phase = "none" /\ up' = [up EXCEPT ![k] = [phase |-> "checked", owner |-> o]]
        /\ UNCHANGED <<att, queue, file, late>>
    BY <1>3 DEF Authorize, tables
  <2>2. TableTypes'
    BY <2>1 DEF Types, TableTypes, UploadRecord, OwnerOrNone
  <2>3. RowEffects
    BY <2>1 DEF RowEffects, Past, UploadInv, Types, TableTypes
  <2> QED
    BY <1>2, <2>1, <2>2, <2>3, FilesAlone, QueueAlone
<1>4. CASE CreateMetadata(k)
  <2>1. PICK o : o = up[k].owner
    OBVIOUS
  <2>2. up[k].phase = "checked" /\ o \in Owners /\ UNCHANGED <<queue, file, late>> /\ ~att[k].exists
    BY <1>4, <2>1 DEF CreateMetadata, UploadInv, Past
  <2>3. CASE att' = [att EXCEPT ![k] = insert_chat_attachment(o)] /\ SetPhase(k, "writing")
    <3>1. PICK new : new = insert_chat_attachment(o)
      OBVIOUS
    <3>2. new \in RowRecord /\ new.msg = None
      BY <2>2, <3>1 DEF insert_chat_attachment, NoRow, RowRecord, OwnerOrNone
    <3>3. att' = [att EXCEPT ![k] = new]
      BY <2>3, <3>1
    <3>4. /\ up' \in [Keys -> UploadRecord]
          /\ \A j \in Keys : /\ up'[j].phase = IF j = k THEN "writing" ELSE up[j].phase
                             /\ up'[j].owner = up[j].owner
      BY <2>3, PhaseSet
    <3>5. \A j \in Keys : att'[j] = IF j = k THEN new ELSE att[j]
      BY <3>3 DEF Types, TableTypes
    <3>6. TableTypes'
      BY <2>2, <3>2, <3>3, <3>4 DEF Types, TableTypes
    <3>7. RowEffects
      BY <2>2, <3>4, <3>5 DEF RowEffects, Past, UploadInv
    <3>8. QueueEffects
      BY <2>2, <3>5 DEF QueueEffects
    <3> QED
      BY <1>2, <2>2, <3>2, <3>5, <3>6, <3>7, <3>8, FilesAlone, NoneIsNothing
  <2>4. CASE SetPhase(k, "failed") /\ UNCHANGED att
    <3>1. /\ up' \in [Keys -> UploadRecord]
          /\ \A j \in Keys : /\ up'[j].phase = IF j = k THEN "failed" ELSE up[j].phase
                             /\ up'[j].owner = up[j].owner
      BY <2>4, PhaseSet
    <3>2. TableTypes'
      BY <2>2, <2>4, <3>1 DEF Types, TableTypes
    <3>3. RowEffects
      BY <2>2, <2>4, <3>1 DEF RowEffects, Past, UploadInv
    <3> QED
      BY <1>2, <2>2, <2>4, <3>2, <3>3, FilesAlone, QueueAlone
  <2> QED
    BY <1>4, <2>1, <2>3, <2>4 DEF CreateMetadata
<1>5. ASSUME NEW phase \in {"undoing", "stored", "failed"}, NEW content \in {"absent", "partial", "whole"},
             up[k].phase = "writing", SetPhase(k, phase), Written(k, content), UNCHANGED tables,
             phase = "stored" => content = "whole"
      PROVE  AttachmentsInv'
  <2>1. /\ up' \in [Keys -> UploadRecord]
        /\ \A j \in Keys : /\ up'[j].phase = IF j = k THEN phase ELSE up[j].phase
                           /\ up'[j].owner = up[j].owner
    BY <1>5, PhaseSet
  <2>2. /\ FileEffects /\ file' \in [Keys -> {"absent", "partial", "whole"}] /\ late' \subseteq Keys
        /\ file'[k] = content
    BY <1>5, FileWritten
  <2>3. TableTypes'
    BY <1>5, <2>1, <2>2 DEF Types, TableTypes, tables
  <2>4. RowEffects
    BY <1>5, <2>1, <2>2 DEF RowEffects, Past, UploadInv, tables
  <2> QED
    BY <1>2, <1>5, <2>2, <2>3, <2>4, QueueAlone DEF tables
<1>6. CASE WriteFile(k)
  BY <1>5, <1>6 DEF WriteFile
<1>7. CASE WriteFails(k)
  BY <1>5, <1>7 DEF WriteFails
<1>8. ASSUME NEW D \in SUBSET Keys, \A j \in D : Pending(j), DeleteRows(D), UNCHANGED <<file, late>>,
             up' \in [Keys -> UploadRecord],
             \A j \in Keys : /\ up'[j].owner = up[j].owner
                             /\ up'[j].phase = up[j].phase \/ (up[j].phase = "undoing" /\ up'[j].phase = "failed")
      PROVE  AttachmentsInv'
  <2>1. \A j \in D : att[j].exists /\ att[j].msg = None
    BY <1>8 DEF Pending
  <2>2. RowEffects /\ QueueEffects
    BY <1>8, <2>1, DeletedEffects
  <2>3. /\ att' \in [Keys -> RowRecord] /\ queue' \in [Keys -> EntryRecord]
        /\ \A j \in Keys : att'[j] = IF j \in D THEN NoRow ELSE att[j]
    BY <1>8, <2>1, RowsDeleted
  <2>4. TableTypes'
    BY <1>8, <2>3 DEF Types, TableTypes
  <2> QED
    BY <1>2, <1>8, <2>1, <2>2, <2>3, <2>4, Blank, FilesAlone, NoneIsNothing
<1>9. CASE UndoMetadata(k)
  <2>1. /\ up' \in [Keys -> UploadRecord]
        /\ \A j \in Keys : /\ up'[j].phase = IF j = k THEN "failed" ELSE up[j].phase
                           /\ up'[j].owner = up[j].owner
    BY <1>9, PhaseSet DEF UndoMetadata
  <2>2. PICK D : D = IF Pending(k) /\ att[k].owner = up[k].owner THEN {k} ELSE {}
    OBVIOUS
  <2>3. DeleteRows(D) /\ up[k].phase = "undoing" /\ UNCHANGED <<file, late>>
    BY <1>9, <2>2 DEF UndoMetadata
  <2>4. D \in SUBSET Keys /\ \A j \in D : Pending(j)
    BY <2>2
  <2> QED
    BY <1>8, <2>1, <2>3, <2>4
<1>10. CASE UploadDies(k)
  <2>1. CASE up[k].phase = "writing"
    BY <1>5, <1>10, <2>1 DEF UploadDies
  <2>2. CASE up[k].phase # "writing"
    <3>1. up[k].phase \in {"checked", "undoing"} /\ SetPhase(k, "failed") /\ UNCHANGED <<att, queue, file, late>>
      BY <1>10, <2>2 DEF UploadDies, InFlight, tables
    <3>2. /\ up' \in [Keys -> UploadRecord]
          /\ \A j \in Keys : /\ up'[j].phase = IF j = k THEN "failed" ELSE up[j].phase
                             /\ up'[j].owner = up[j].owner
      BY <3>1, PhaseSet
    <3>3. TableTypes'
      BY <3>1, <3>2 DEF Types, TableTypes
    <3>4. RowEffects
      BY <3>1, <3>2 DEF RowEffects, Past, UploadInv
    <3> QED
      BY <1>2, <3>1, <3>3, <3>4, FilesAlone, QueueAlone
  <2> QED
    BY <2>1, <2>2
<1>11. CASE DeletePending(k)
  <2>1. PICK D : D = {k}
    OBVIOUS
  <2>2. DeleteRows(D) /\ Pending(k) /\ UNCHANGED <<up, file, late>> /\ D \in SUBSET Keys
    BY <1>11, <2>1 DEF DeletePending
  <2> QED
    BY <1>8, <2>1, <2>2 DEF Types, TableTypes
<1> QED
  BY <1>3, <1>4, <1>6, <1>7, <1>9, <1>10, <1>11 DEF UploadStep

-----------------------------------------------------------------------------
(* Work in the background, which leaves uploads, rows and messages alone. *)

\* A step that leaves owners, uploads, rows and messages alone keeps the invariant.
LEMMA BackgroundStep ==
    ASSUME AttachmentsInv, UNCHANGED <<status, up, att, msg>>, FileEffects, QueueEffects, WorkEffects,
           queue' \in [Keys -> EntryRecord], file' \in [Keys -> {"absent", "partial", "whole"}], late' \subseteq Keys,
           UpkeepTypes'
    PROVE  AttachmentsInv'
<1>1. Types'
  BY DEF AttachmentsInv, Types, TableTypes, OwnerTypes
<1>2. RowEffects
  BY RowsAlone
<1>3. QuietMessages
  BY <1>2, MessagesAlone
<1> QED
  BY <1>1, <1>2, <1>3, QuietStep DEF Effects

\* The types of the state, as the proofs below use them.
LEMMA TypesNow ==
    ASSUME AttachmentsInv
    PROVE  /\ up \in [Keys -> UploadRecord] /\ att \in [Keys -> RowRecord] /\ queue \in [Keys -> EntryRecord]
           /\ file \in [Keys -> {"absent", "partial", "whole"}] /\ late \subseteq Keys
           /\ msg \in [Messages -> MessageRecord]
           /\ look \in [Replicas -> Keys \cup {None}] /\ job \in [Workers -> JobRecord]
           /\ req \in [Accounts -> RequestRecord]
           /\ \A k \in Keys : att[k] \in RowRecord /\ queue[k] \in EntryRecord
           /\ \A w \in Workers : job[w] \in JobRecord
           /\ \A a \in Accounts : req[a] \in RequestRecord
<1> QED
  BY DEF AttachmentsInv, Types, TableTypes, OwnerTypes, UpkeepTypes

\* One entry of the queue is replaced.
LEMMA EntryReplaced ==
    ASSUME AttachmentsInv, NEW k \in Keys, NEW new \in EntryRecord, queue' = [queue EXCEPT ![k] = new], UNCHANGED att,
           new.exists => queue[k].exists \/ (~att[k].exists /\ \E r \in Replicas : look[r] = k),
           queue[k].exists /\ ~new.exists => \E w \in Workers : job[w].at = k /\ job[w].gone
    PROVE  QueueEffects /\ queue' \in [Keys -> EntryRecord]
<1>1. queue' \in [Keys -> EntryRecord] /\ \A j \in Keys : queue'[j] = IF j = k THEN new ELSE queue[j]
  BY TypesNow
<1> QED
  BY <1>1 DEF QueueEffects

\* Rows and files growing old, leases ending and retries falling due keep the invariant.
LEMMA TimeSteps ==
    ASSUME AttachmentsInv, NEW k \in Keys, TimePasses(k)
    PROVE  AttachmentsInv'
<1>1. UNCHANGED <<status, up, file, msg, late, upkeep>>
  BY DEF TimePasses, RowAges, FileAges, LeaseExpires, RetryDue
<1>2. /\ FileEffects /\ WorkEffects /\ UpkeepTypes' /\ OwnerTypes'
      /\ file' \in [Keys -> {"absent", "partial", "whole"}] /\ late' \subseteq Keys
  BY <1>1, FilesAlone, WorkAlone, TypesNow DEF UpkeepTypes, upkeep, OwnerTypes, AttachmentsInv, Types
<1>3. CASE RowAges(k)
  <2>1. PICK new : new = [att[k] EXCEPT !.old = TRUE]
    OBVIOUS
  <2>2. /\ new \in RowRecord /\ new.exists = att[k].exists /\ new.msg = att[k].msg /\ new.owner = att[k].owner
    BY <2>1, TypesNow DEF RowRecord
  <2>3. att' = [att EXCEPT ![k] = new] /\ UNCHANGED queue /\ att[k].exists
    BY <1>3, <2>1 DEF RowAges
  <2>4. att' \in [Keys -> RowRecord] /\ \A j \in Keys : att'[j] = IF j = k THEN new ELSE att[j]
    BY <2>2, <2>3, TypesNow
  <2>5. Types'
    BY <1>1, <1>2, <2>3, <2>4, TypesNow DEF Types, TableTypes
  <2>6. RowEffects /\ QueueEffects
    BY <1>1, <2>2, <2>3, <2>4 DEF RowEffects, QueueEffects, Past, AttachmentsInv, UploadInv
  <2>7. QuietMessages
    BY <1>1, <2>2, <2>4, <2>6, MessagesAlone
  <2> QED
    BY <1>2, <2>5, <2>6, <2>7, QuietStep DEF Effects
<1>4. CASE FileAges(k)
  BY <1>1, <1>2, <1>4, QueueAlone, BackgroundStep, TypesNow DEF FileAges, tables
<1>5. ASSUME NEW new \in EntryRecord, new.exists = queue[k].exists, queue' = [queue EXCEPT ![k] = new], UNCHANGED att
      PROVE  AttachmentsInv'
  BY <1>1, <1>2, <1>5, EntryReplaced, BackgroundStep
<1>6. CASE LeaseExpires(k)
  <2>1. PICK new : new = [queue[k] EXCEPT !.leased = FALSE]
    OBVIOUS
  <2>2. new \in EntryRecord /\ new.exists = queue[k].exists
    BY <2>1, TypesNow DEF EntryRecord
  <2> QED
    BY <1>5, <1>6, <2>1, <2>2 DEF LeaseExpires
<1>7. CASE RetryDue(k)
  <2>1. PICK new : new = [queue[k] EXCEPT !.due = TRUE]
    OBVIOUS
  <2>2. new \in EntryRecord /\ new.exists = queue[k].exists
    BY <2>1, TypesNow DEF EntryRecord
  <2> QED
    BY <1>5, <1>7, <2>1, <2>2 DEF RetryDue
<1> QED
  BY <1>3, <1>4, <1>6, <1>7 DEF TimePasses

\* A worker's batch changes, a request or the scan goes on.
LEMMA JobSet ==
    ASSUME AttachmentsInv, NEW w \in Workers, NEW new \in JobRecord, job' = [job EXCEPT ![w] = new],
           \A k \in Keys : /\ k \in new.todo => k \in job[w].todo \/ queue[k].exists
                           /\ new.at = k => job[w].at = k \/ k \in job[w].todo
                           /\ new.at = k /\ new.gone => (job[w].at = k /\ job[w].gone) \/ file'[k] = "absent"
    PROVE  JobEffects /\ job' \in [Workers -> JobRecord]
<1>1. job' \in [Workers -> JobRecord] /\ \A v \in Workers : job'[v] = IF v = w THEN new ELSE job[v]
  BY TypesNow
<1> QED
  BY <1>1 DEF JobEffects

\* One deletion request changes: its keys are queued, and it is clean only when none is.
LEMMA RequestSet ==
    ASSUME AttachmentsInv, NEW a \in Accounts, NEW new \in RequestRecord, req' = [req EXCEPT ![a] = new],
           \A k \in new.keys : k \in req[a].keys \/ queue'[k].exists,
           new.phase = "clean" => new.keys = req[a].keys /\ \A k \in req[a].keys : ~queue[k].exists
    PROVE  RequestEffects /\ req' \in [Accounts -> RequestRecord]
<1>1. req' \in [Accounts -> RequestRecord] /\ \A b \in Accounts : req'[b] = IF b = a THEN new ELSE req[b]
  BY TypesNow
<1> QED
  BY <1>1 DEF RequestEffects

\* One scan changes: it looks at nothing, or at a file that is there.
LEMMA ScanSet ==
    ASSUME AttachmentsInv, NEW r \in Replicas, NEW new \in Keys \cup {None}, look' = [look EXCEPT ![r] = new],
           new \in Keys => file[new] # "absent"
    PROVE  ScanEffects /\ look' \in [Replicas -> Keys \cup {None}]
<1>1. look' \in [Replicas -> Keys \cup {None}] /\ \A q \in Replicas : look'[q] = IF q = r THEN new ELSE look[q]
  BY TypesNow
<1> QED
  BY <1>1 DEF ScanEffects

\* One batch changes: it has claimed only queued files, and says gone only of removed ones.
LEMMA JobChanges ==
    ASSUME AttachmentsInv, NEW w \in Workers, NEW new \in JobRecord, job' = [job EXCEPT ![w] = new],
           UNCHANGED <<look, req>>,
           \A k \in Keys : /\ k \in new.todo => k \in job[w].todo \/ queue[k].exists
                           /\ new.at = k => job[w].at = k \/ k \in job[w].todo
                           /\ new.at = k /\ new.gone => (job[w].at = k /\ job[w].gone) \/ file'[k] = "absent"
    PROVE  WorkEffects /\ UpkeepTypes'
<1>1. JobEffects /\ job' \in [Workers -> JobRecord]
  BY JobSet
<1>2. ScanEffects /\ RequestEffects
  BY DEF ScanEffects, RequestEffects
<1> QED
  BY <1>1, <1>2, TypesNow DEF WorkEffects, UpkeepTypes

\* Removing the files of a batch, with its failures, keeps the invariant.
LEMMA WorkerSteps ==
    ASSUME AttachmentsInv, NEW w \in Workers, WorkerStep(w)
    PROVE  AttachmentsInv'
<1>1. UNCHANGED <<status, up, att, msg, look, req, late>>
  BY DEF WorkerStep, RemoveFile, RemoveFails, FinishFile, FinishFails, tables
<1>2. late' \subseteq Keys
  BY <1>1, TypesNow
<1>3. ASSUME NEW k \in Keys, RemoveFile(w, k) PROVE AttachmentsInv'
  <2>1. /\ k \in job[w].todo /\ file' = [file EXCEPT ![k] = "absent"] /\ UNCHANGED <<att, queue>>
        /\ job' = [job EXCEPT ![w].at = k, ![w].gone = TRUE]
    BY <1>3 DEF RemoveFile, tables
  <2>2. PICK new : new = [job[w] EXCEPT !.at = k, !.gone = TRUE]
    OBVIOUS
  <2>3. new \in JobRecord /\ new.todo = job[w].todo /\ new.at = k
    BY <2>2, TypesNow DEF JobRecord
  <2>4. job' = [job EXCEPT ![w] = new]
    BY <2>1, <2>2, TypesNow DEF JobRecord
  <2>5. file' \in [Keys -> {"absent", "partial", "whole"}] /\ \A j \in Keys : file'[j] = IF j = k THEN "absent" ELSE file[j]
    BY <2>1, TypesNow
  <2>6. \A j \in Keys : /\ j \in new.todo => j \in job[w].todo \/ queue[j].exists
                        /\ new.at = j => job[w].at = j \/ j \in job[w].todo
                        /\ new.at = j /\ new.gone => (job[w].at = j /\ job[w].gone) \/ file'[j] = "absent"
    BY <2>1, <2>3, <2>5
  <2>7. WorkEffects /\ UpkeepTypes'
    BY <1>1, <2>3, <2>4, <2>6, JobChanges
  <2>8. FileEffects
    BY <1>1, <2>1, <2>5 DEF FileEffects
  <2> QED
    BY <1>1, <1>2, <2>1, <2>5, <2>7, <2>8, QueueAlone, BackgroundStep, TypesNow
<1>4. ASSUME NEW k \in Keys, RemoveFails(w, k) PROVE AttachmentsInv'
  <2>1. /\ k \in job[w].todo /\ UNCHANGED <<att, queue, file>>
        /\ job' = [job EXCEPT ![w].at = k, ![w].gone = FALSE]
    BY <1>4 DEF RemoveFails, tables
  <2>2. PICK new : new = [job[w] EXCEPT !.at = k, !.gone = FALSE]
    OBVIOUS
  <2>3. new \in JobRecord /\ new.todo = job[w].todo /\ new.at = k /\ ~new.gone
    BY <2>2, TypesNow DEF JobRecord
  <2>4. job' = [job EXCEPT ![w] = new]
    BY <2>1, <2>2, TypesNow DEF JobRecord
  <2>5. WorkEffects /\ UpkeepTypes'
    BY <1>1, <2>1, <2>3, <2>4, JobChanges
  <2> QED
    BY <1>1, <1>2, <2>1, <2>5, FilesAlone, QueueAlone, BackgroundStep, TypesNow
<1>5. ASSUME job' = [job EXCEPT ![w] = Processed(@)], UNCHANGED file PROVE WorkEffects /\ UpkeepTypes' /\ FileEffects
  <2>1. PICK new : new = Processed(job[w])
    OBVIOUS
  <2>2. new \in JobRecord /\ new.todo \subseteq job[w].todo /\ new.at = None
    BY <2>1, TypesNow DEF JobRecord, Processed
  <2>3. job' = [job EXCEPT ![w] = new]
    BY <1>5, <2>1
  <2>4. \A j \in Keys : /\ j \in new.todo => j \in job[w].todo \/ queue[j].exists
                        /\ new.at = j => job[w].at = j \/ j \in job[w].todo
                        /\ new.at = j /\ new.gone => (job[w].at = j /\ job[w].gone) \/ file'[j] = "absent"
    BY <2>2, NoneIsNothing
  <2> QED
    BY <1>1, <1>5, <2>2, <2>3, <2>4, JobChanges, FilesAlone
<1>6. CASE FinishFile(w)
  <2>1. PICK k : k = job[w].at
    OBVIOUS
  <2>2. /\ k \in Keys /\ job' = [job EXCEPT ![w] = Processed(@)] /\ UNCHANGED file
        /\ queue' = IF ClaimHeld(w, k) THEN [queue EXCEPT ![k] = AfterFile(@, job[w].gone)] ELSE queue
    BY <1>6, <2>1, TypesNow DEF FinishFile, JobRecord
  <2>3. WorkEffects /\ UpkeepTypes' /\ FileEffects
    BY <1>5, <2>2
  <2>4. CASE ~ClaimHeld(w, k)
    BY <1>1, <1>2, <2>2, <2>3, <2>4, QueueAlone, BackgroundStep, TypesNow
  <2>5. CASE ClaimHeld(w, k)
    <3>1. PICK new : new = AfterFile(queue[k], job[w].gone)
      OBVIOUS
    <3>2. new \in EntryRecord /\ (job[w].gone \/ new.exists = queue[k].exists)
      <4>1. CASE job[w].gone
        BY <3>1, <4>1, Blank DEF AfterFile
      <4>2. CASE ~job[w].gone
        <5>1. new = [queue[k] EXCEPT !.claim = None, !.leased = FALSE, !.due = FALSE]
          BY <3>1, <4>2 DEF AfterFile
        <5> QED
          BY <2>2, <5>1, TypesNow DEF EntryRecord
      <4> QED
        BY <4>1, <4>2
    <3>3. queue[k].exists /\ queue' = [queue EXCEPT ![k] = new]
      BY <2>2, <2>5, <3>1 DEF ClaimHeld
    <3>4. QueueEffects /\ queue' \in [Keys -> EntryRecord]
      BY <1>1, <2>1, <2>2, <3>2, <3>3, EntryReplaced
    <3> QED
      BY <1>1, <1>2, <2>2, <2>3, <3>4, BackgroundStep, TypesNow
  <2> QED
    BY <2>4, <2>5
<1>7. CASE FinishFails(w)
  <2>1. job' = [job EXCEPT ![w] = Processed(@)] /\ UNCHANGED <<file, queue>>
    BY <1>7 DEF FinishFails, tables
  <2> QED
    BY <1>1, <1>2, <1>5, <2>1, QueueAlone, BackgroundStep, TypesNow
<1> QED
  BY <1>3, <1>4, <1>6, <1>7 DEF WorkerStep

\* A batch is claimed.
LEMMA ClaimMade ==
    ASSUME AttachmentsInv, NEW w \in Workers, NEW E \in SUBSET Keys, \A k \in E : queue[k].exists, Claim(w, E),
           UNCHANGED att
    PROVE  /\ QueueEffects /\ queue' \in [Keys -> EntryRecord]
           /\ JobEffects /\ job' \in [Workers -> JobRecord]
<1>1. ASSUME NEW k \in Keys PROVE queue'[k] \in EntryRecord /\ queue'[k].exists = queue[k].exists
  <2>1. CASE k \in E
    <3>1. queue'[k] = [queue[k] EXCEPT !.claim = w, !.leased = TRUE]
      BY <2>1 DEF Claim
    <3> QED
      BY <3>1, TypesNow DEF EntryRecord
  <2>2. CASE k \notin E
    <3>1. queue'[k] = queue[k]
      BY <2>2 DEF Claim
    <3> QED
      BY <3>1, TypesNow
  <2> QED
    BY <2>1, <2>2
<1>2. queue' \in [Keys -> EntryRecord]
  BY <1>1 DEF Claim
<1>3. PICK new : new = [job[w] EXCEPT !.todo = E]
  OBVIOUS
<1>4. new \in JobRecord /\ new.todo = E /\ new.at = job[w].at /\ new.gone = job[w].gone
  BY <1>3, TypesNow DEF JobRecord
<1>5. job' = [job EXCEPT ![w] = new]
  BY <1>3 DEF Claim
<1>6. \A j \in Keys : /\ j \in new.todo => j \in job[w].todo \/ queue[j].exists
                      /\ new.at = j => job[w].at = j \/ j \in job[w].todo
                      /\ new.at = j /\ new.gone => (job[w].at = j /\ job[w].gone) \/ file'[j] = "absent"
  BY <1>4
<1>7. JobEffects /\ job' \in [Workers -> JobRecord]
  BY <1>4, <1>5, <1>6, JobSet
<1>8. QueueEffects
  BY <1>1 DEF QueueEffects
<1> QED
  BY <1>2, <1>7, <1>8

\* A worker drops what it was doing.
LEMMA JobDropped ==
    ASSUME AttachmentsInv, NEW w \in Workers, job' = [job EXCEPT ![w] = IdleJob]
    PROVE  JobEffects /\ job' \in [Workers -> JobRecord]
<1>1. PICK new : new = IdleJob
  OBVIOUS
<1>2. new \in JobRecord /\ new.todo = {} /\ new.at = None
  BY <1>1, Blank
<1>3. \A j \in Keys : /\ j \in new.todo => j \in job[w].todo \/ queue[j].exists
                      /\ new.at = j => job[w].at = j \/ j \in job[w].todo
                      /\ new.at = j /\ new.gone => (job[w].at = j /\ job[w].gone) \/ file'[j] = "absent"
  BY <1>2, NoneIsNothing
<1> QED
  BY <1>1, <1>2, <1>3, JobSet

\* Claim, count and failures of an account-deletion request keep the invariant.
LEMMA RequestSteps ==
    ASSUME AttachmentsInv, NEW a \in Accounts, RequestStep(a) \/ RequestQueryFails(a) \/ RequestDies(a)
    PROVE  AttachmentsInv'
<1>1. UNCHANGED <<status, up, att, file, msg, look, late>>
  BY DEF RequestStep, ClaimForKeys, Report, RequestQueryFails, RequestDies, tables
<1>2. /\ FileEffects /\ ScanEffects /\ look' \in [Replicas -> Keys \cup {None}]
      /\ file' \in [Keys -> {"absent", "partial", "whole"}] /\ late' \subseteq Keys
  BY <1>1, FilesAlone, TypesNow DEF ScanEffects
<1>3. a \in Workers
  BY DEF Workers
<1>4. ASSUME QueueEffects, queue' \in [Keys -> EntryRecord], JobEffects, job' \in [Workers -> JobRecord],
             RequestEffects, req' \in [Accounts -> RequestRecord]
      PROVE  AttachmentsInv'
  BY <1>1, <1>2, <1>4, BackgroundStep DEF WorkEffects, UpkeepTypes
<1>5. ASSUME UNCHANGED <<queue, job>>
      PROVE  QueueEffects /\ queue' \in [Keys -> EntryRecord] /\ JobEffects /\ job' \in [Workers -> JobRecord]
  BY <1>1, <1>5, QueueAlone, TypesNow DEF JobEffects
<1>6. ASSUME NEW phase \in {"working", "pending", "clean", "dropped"}, req' = [req EXCEPT ![a].phase = phase],
             phase = "clean" => \A k \in req[a].keys : ~queue[k].exists
      PROVE  RequestEffects /\ req' \in [Accounts -> RequestRecord]
  <2>1. PICK new : new = [req[a] EXCEPT !.phase = phase]
    OBVIOUS
  <2>2. new \in RequestRecord /\ new.phase = phase /\ new.keys = req[a].keys
    BY <2>1, TypesNow DEF RequestRecord
  <2>3. req' = [req EXCEPT ![a] = new]
    BY <1>6, <2>1
  <2> QED
    BY <1>6, <2>2, <2>3, RequestSet
<1>7. CASE ClaimForKeys(a)
  <2>1. PICK E : E = {k \in req[a].keys : Eligible(k)}
    OBVIOUS
  <2>2. E \in SUBSET Keys /\ \A k \in E : queue[k].exists
    BY <2>1, TypesNow DEF RequestRecord, Eligible
  <2>3. Claim(a, E) /\ req' = [req EXCEPT ![a].phase = "working"]
    BY <1>7, <2>1 DEF ClaimForKeys
  <2> QED
    BY <1>1, <1>3, <1>4, <1>6, <2>2, <2>3, ClaimMade
<1>8. CASE Report(a)
  <2>1. PICK phase : phase = IF \E k \in req[a].keys : queue[k].exists THEN "pending" ELSE "clean"
    OBVIOUS
  <2>2. req' = [req EXCEPT ![a].phase = phase] /\ UNCHANGED <<queue, job>>
    BY <1>8, <2>1 DEF Report, tables
  <2>3. phase \in {"pending", "clean"} /\ (phase = "clean" => \A k \in req[a].keys : ~queue[k].exists)
    BY <2>1
  <2> QED
    BY <1>4, <1>5, <1>6, <2>2, <2>3
<1>9. CASE RequestQueryFails(a)
  BY <1>4, <1>5, <1>6, <1>9 DEF RequestQueryFails, tables
<1>10. CASE RequestDies(a)
  BY <1>1, <1>3, <1>4, <1>6, <1>10, JobDropped, QueueAlone, TypesNow DEF RequestDies, tables
<1> QED
  BY <1>7, <1>8, <1>9, <1>10 DEF RequestStep

\* Every part of the maintenance loop, its failures and restarts keep the invariant.
LEMMA MaintenanceSteps ==
    ASSUME AttachmentsInv, NEW r \in Replicas,
           \/ MaintenanceStep(r) \/ LoopQueryFails(r) \/ ReplicaRestarts(r)
           \/ \E k \in Keys : ScanEntry(r, k)
    PROVE  AttachmentsInv'
<1>1. UNCHANGED <<status, up, file, msg, late, req>>
  BY DEF MaintenanceStep, CleanupStale, EnqueueReconciled, ScanEnds, ClaimBatch, LoopQueryFails, ReplicaRestarts,
         ScanEntry
<1>2. /\ FileEffects /\ RequestEffects /\ req' \in [Accounts -> RequestRecord]
      /\ file' \in [Keys -> {"absent", "partial", "whole"}] /\ late' \subseteq Keys
  BY <1>1, FilesAlone, TypesNow DEF RequestEffects
<1>3. r \in Workers
  BY DEF Workers
<1>4. ASSUME UNCHANGED att, QueueEffects, queue' \in [Keys -> EntryRecord], JobEffects, job' \in [Workers -> JobRecord],
             ScanEffects, look' \in [Replicas -> Keys \cup {None}]
      PROVE  AttachmentsInv'
  BY <1>1, <1>2, <1>4, BackgroundStep DEF WorkEffects, UpkeepTypes
<1>5. ASSUME UNCHANGED <<att, queue>> PROVE QueueEffects /\ queue' \in [Keys -> EntryRecord]
  BY <1>5, QueueAlone, TypesNow
<1>6. ASSUME UNCHANGED job PROVE JobEffects /\ job' \in [Workers -> JobRecord]
  BY <1>6, TypesNow DEF JobEffects
<1>7. ASSUME UNCHANGED look PROVE ScanEffects /\ look' \in [Replicas -> Keys \cup {None}]
  BY <1>7, TypesNow DEF ScanEffects
<1>8. ASSUME look' = [look EXCEPT ![r] = None] PROVE ScanEffects /\ look' \in [Replicas -> Keys \cup {None}]
  BY <1>8, ScanSet, NoneIsNothing
<1>9. CASE CleanupStale(r)
  <2>1. PICK D : D = StalePending
    OBVIOUS
  <2>2. D \in SUBSET Keys /\ \A k \in D : att[k].exists /\ att[k].msg = None
    BY <2>1 DEF StalePending, Pending
  <2>3. DeleteRows(D) /\ UNCHANGED <<look, job>>
    BY <1>9, <2>1 DEF CleanupStale
  <2>4. RowEffects /\ QueueEffects
    BY <1>1, <2>2, <2>3, DeletedEffects
  <2>5. /\ att' \in [Keys -> RowRecord] /\ queue' \in [Keys -> EntryRecord]
        /\ \A k \in Keys : att'[k] = IF k \in D THEN NoRow ELSE att[k]
    BY <2>2, <2>3, RowsDeleted DEF AttachmentsInv
  <2>6. Types'
    BY <1>1, <1>2, <2>3, <2>5, TypesNow DEF AttachmentsInv, Types, TableTypes, OwnerTypes, UpkeepTypes
  <2>7. QuietMessages
    BY <1>1, <2>2, <2>4, <2>5, Blank, NoneIsNothing, MessagesAlone
  <2>8. WorkEffects
    BY <1>2, <1>6, <1>7, <2>3 DEF WorkEffects
  <2> QED
    BY <1>2, <2>4, <2>6, <2>7, <2>8, QuietStep DEF Effects
<1>10. CASE EnqueueReconciled(r)
  <2>1. PICK k : k = look[r]
    OBVIOUS
  <2>2. /\ k \in Keys /\ look' = [look EXCEPT ![r] = None] /\ UNCHANGED <<att, job>>
        /\ queue' = IF Orphan(k) THEN [queue EXCEPT ![k] = [NoEntry EXCEPT !.exists = TRUE, !.due = TRUE]] ELSE queue
    BY <1>10, <2>1, TypesNow DEF EnqueueReconciled
  <2>3. CASE ~Orphan(k)
    BY <1>4, <1>5, <1>6, <1>8, <2>2, <2>3
  <2>4. CASE Orphan(k)
    <3>1. PICK new : new = [NoEntry EXCEPT !.exists = TRUE, !.due = TRUE]
      OBVIOUS
    <3>2. new \in EntryRecord /\ new.exists
      BY <3>1, Blank DEF EntryRecord
    <3>3. queue' = [queue EXCEPT ![k] = new] /\ ~att[k].exists
      BY <2>2, <2>4, <3>1 DEF Orphan
    <3>4. QueueEffects /\ queue' \in [Keys -> EntryRecord]
      BY <2>1, <2>2, <3>2, <3>3, EntryReplaced
    <3> QED
      BY <1>4, <1>6, <1>8, <2>2, <3>4
  <2> QED
    BY <2>3, <2>4
<1>11. CASE ScanEnds(r)
  BY <1>4, <1>5, <1>6, <1>7, <1>11 DEF ScanEnds, tables
<1>12. CASE ClaimBatch(r)
  <2>1. PICK E : E = {k \in Keys : Eligible(k)}
    OBVIOUS
  <2>2. E \in SUBSET Keys /\ \A k \in E : queue[k].exists
    BY <2>1 DEF Eligible
  <2>3. Claim(r, E) /\ UNCHANGED <<att, look>>
    BY <1>12, <2>1 DEF ClaimBatch
  <2> QED
    BY <1>3, <1>4, <1>7, <2>2, <2>3, ClaimMade
<1>13. CASE LoopQueryFails(r)
  BY <1>4, <1>5, <1>6, <1>7, <1>8, <1>13 DEF LoopQueryFails, tables
<1>14. CASE ReplicaRestarts(r)
  BY <1>3, <1>4, <1>5, <1>8, <1>14, JobDropped DEF ReplicaRestarts, tables
<1>15. ASSUME NEW k \in Keys, ScanEntry(r, k) PROVE AttachmentsInv'
  <2>1. look' = [look EXCEPT ![r] = k] /\ file[k] # "absent" /\ UNCHANGED <<att, queue, job>>
    BY <1>15 DEF ScanEntry, tables
  <2>2. ScanEffects /\ look' \in [Replicas -> Keys \cup {None}]
    BY <2>1, ScanSet
  <2> QED
    BY <1>4, <1>5, <1>6, <2>1, <2>2
<1> QED
  BY <1>9, <1>10, <1>11, <1>12, <1>13, <1>14, <1>15 DEF MaintenanceStep

-----------------------------------------------------------------------------
(* Messages and owners. *)

\* A step that stores a message, or takes some away with their rows.
LEMMA MessageStep ==
    ASSUME AttachmentsInv, UNCHANGED <<up, file, late>>, Types', RowEffects, QueueEffects, WorkEffects, MessageInv'
    PROVE  AttachmentsInv'
<1> QED
  BY FilesAlone, EffectsKeep DEF AttachmentsInv, Effects

\* Preparing, storing, failing and clearing a message keep the invariant.
LEMMA SendSteps ==
    ASSUME AttachmentsInv, NEW m \in Messages,
           \/ \E o \in Owners, K \in SUBSET Keys \ {{}} : PrepareSend(m, o, K)
           \/ AppendMessage(m) \/ SendFails(m) \/ ClearChat(m)
    PROVE  AttachmentsInv'
<1>1. UNCHANGED <<status, up, file, upkeep, late>>
  BY DEF PrepareSend, AppendMessage, SendFails, ClearChat
<1>2. /\ FileEffects /\ WorkEffects /\ UpkeepTypes'
      /\ up' \in [Keys -> UploadRecord] /\ file' \in [Keys -> {"absent", "partial", "whole"}] /\ late' \subseteq Keys
  BY <1>1, FilesAlone, WorkAlone, TypesNow DEF UpkeepTypes, upkeep
<1>3. msg \in [Messages -> MessageRecord] /\ \A n \in Messages : msg[n] \in MessageRecord /\ msg[n].keys \subseteq Keys
  BY TypesNow DEF MessageRecord
\* Messages that are not stored come and go.
<1>4. ASSUME ~Stored(m), NEW new \in MessageRecord, msg' = [msg EXCEPT ![m] = new], UNCHANGED <<att, queue>>,
             new.phase # "stored", new.phase = "prepared" => \A k \in new.keys : up[k].phase = "stored"
      PROVE  AttachmentsInv'
  <2>1. msg' \in [Messages -> MessageRecord] /\ \A n \in Messages : msg'[n] = IF n = m THEN new ELSE msg[n]
    BY <1>3, <1>4
  <2>2. Types'
    BY <1>1, <1>2, <1>4, <2>1, TypesNow DEF AttachmentsInv, Types, TableTypes, OwnerTypes
  <2>3. RowEffects /\ QueueEffects
    BY <1>1, <1>4, RowsAlone, QueueAlone
  <2>4. \A n \in Messages : Stored(n)' <=> Stored(n)
    BY <1>4, <2>1 DEF Stored
  <2>5. QuietMessages
    BY <1>1, <1>3, <1>4, <2>1, <2>4 DEF QuietMessages, Stored, AttachmentsInv, MessageInv
  <2> QED
    BY <1>2, <2>2, <2>3, <2>5, QuietStep DEF Effects
<1>5. ASSUME NEW o \in Owners, NEW K \in SUBSET Keys \ {{}}, PrepareSend(m, o, K) PROVE AttachmentsInv'
  <2>1. PICK new : new = [phase |-> "prepared", owner |-> o, keys |-> K]
    OBVIOUS
  <2>2. new \in MessageRecord /\ new.phase = "prepared" /\ new.keys = K
    BY <2>1 DEF MessageRecord, OwnerOrNone
  <2>3. /\ msg' = [msg EXCEPT ![m] = new] /\ UNCHANGED <<att, queue>> /\ ~Stored(m)
        /\ \A k \in K : up[k].phase = "stored"
    BY <1>5, <2>1 DEF PrepareSend, tables, Stored
  <2> QED
    BY <1>4, <2>2, <2>3
<1>6. PICK done : done = [NoMessage EXCEPT !.phase = "done"]
  OBVIOUS
<1>7. done \in MessageRecord /\ done.phase = "done"
  BY <1>6, Blank DEF MessageRecord
<1>8. CASE SendFails(m)
  BY <1>4, <1>6, <1>7, <1>8 DEF SendFails, tables, Stored
<1>9. CASE AppendMessage(m)
  <2>1. PICK K : K = msg[m].keys
    OBVIOUS
  <2>2. PICK o : o = msg[m].owner
    OBVIOUS
  <2>3. /\ msg[m].phase = "prepared" /\ K \subseteq Keys /\ UNCHANGED queue
        /\ \A k \in K : att[k].exists /\ att[k].owner = o /\ att[k].msg = None /\ up[k].phase = "stored"
        /\ att' = [k \in Keys |-> IF k \in K /\ Pending(k) THEN [att[k] EXCEPT !.msg = m] ELSE att[k]]
        /\ msg' = [msg EXCEPT ![m].phase = "stored"]
    BY <1>3, <1>9, <2>1, <2>2 DEF AppendMessage, Linkable, OwnPending, get_chat_attachment, Pending,
                                  AttachmentsInv, MessageInv
  <2>4. ASSUME NEW k \in Keys
        PROVE  /\ att'[k] \in RowRecord /\ att'[k].exists = att[k].exists /\ att'[k].owner = att[k].owner
               /\ att'[k].msg = IF k \in K THEN m ELSE att[k].msg
    <3>1. CASE k \in K
      <4>1. att'[k] = [att[k] EXCEPT !.msg = m]
        BY <2>3, <3>1 DEF Pending
      <4> QED
        BY <3>1, <4>1, TypesNow DEF RowRecord
    <3>2. CASE k \notin K
      <4>1. att'[k] = att[k]
        BY <2>3, <3>2
      <4> QED
        BY <3>2, <4>1, TypesNow
    <3> QED
      BY <3>1, <3>2
  <2>5. att' \in [Keys -> RowRecord]
    BY <2>3, <2>4
  <2>6. PICK new : new = [msg[m] EXCEPT !.phase = "stored"]
    OBVIOUS
  <2>7. new \in MessageRecord /\ new.phase = "stored" /\ new.keys = K /\ new.owner = o
    BY <1>3, <2>1, <2>2, <2>6 DEF MessageRecord
  <2>8. msg' \in [Messages -> MessageRecord] /\ \A n \in Messages : msg'[n] = IF n = m THEN new ELSE msg[n]
    BY <1>3, <2>3, <2>6, <2>7
  <2>9. Types'
    BY <1>1, <1>2, <2>3, <2>5, <2>8, TypesNow DEF AttachmentsInv, Types, TableTypes, OwnerTypes
  <2>10. RowEffects /\ QueueEffects
    BY <1>1, <2>3, <2>4 DEF RowEffects, QueueEffects, Past, AttachmentsInv, UploadInv
  <2>11. \A n \in Messages : Stored(n)' <=> n = m \/ Stored(n)
    BY <2>7, <2>8 DEF Stored
  <2>12. MessageInv'
    <3>1. \A k \in Keys, n \in Messages : att'[k].exists /\ att'[k].msg = n => Stored(n)' /\ k \in msg'[n].keys
      <4> SUFFICES ASSUME NEW k \in Keys, NEW n \in Messages, att'[k].exists, att'[k].msg = n
                   PROVE  Stored(n)' /\ k \in msg'[n].keys
        OBVIOUS
      <4>1. CASE k \in K
        BY <2>4, <2>7, <2>8, <2>11, <4>1
      <4>2. CASE k \notin K
        <5>1. Stored(n) /\ k \in msg[n].keys
          BY <2>4, <4>2 DEF AttachmentsInv, MessageInv
        <5>2. n # m
          BY <2>3, <5>1 DEF Stored
        <5> QED
          BY <2>8, <2>11, <5>1, <5>2
      <4> QED
        BY <4>1, <4>2
    <3>2. ASSUME NEW n \in Messages, Stored(n)', NEW k \in msg'[n].keys
          PROVE  att'[k].exists /\ att'[k].msg = n /\ att'[k].owner = msg'[n].owner
      <4>1. CASE n = m
        <5>1. msg'[n] = new /\ k \in K /\ k \in Keys
          BY <2>3, <2>7, <2>8, <3>2, <4>1
        <5>2. msg'[n].owner = o
          BY <2>7, <5>1
        <5>3. att[k].exists
          BY <2>3, <5>1
        <5>4. att'[k].exists = att[k].exists /\ att'[k].owner = att[k].owner /\ att'[k].msg = m
          <6>1. k \in Keys /\ k \in K
            BY <5>1
          <6>2. att'[k].msg = IF k \in K THEN m ELSE att[k].msg
            BY <2>4, <6>1
          <6>3. att'[k].exists = att[k].exists /\ att'[k].owner = att[k].owner
            BY <2>4, <6>1
          <6> QED
            BY <6>1, <6>2, <6>3
        <5>5. att[k].owner = o
          BY <2>3, <5>1
        <5> QED
          BY <4>1, <5>2, <5>3, <5>4, <5>5
      <4>2. CASE n # m
        <5>1. /\ Stored(n) /\ k \in msg[n].keys /\ k \in Keys
              /\ att[k].exists /\ att[k].msg = n /\ att[k].owner = msg[n].owner
          BY <1>3, <2>8, <2>11, <3>2, <4>2 DEF AttachmentsInv, MessageInv
        <5>2. k \notin K
          BY <2>3, <5>1, NoneIsNothing
        <5> QED
          BY <2>4, <2>8, <4>2, <5>1, <5>2
      <4> QED
        BY <4>1, <4>2
    <3>3. \A n \in Messages : msg'[n].phase \in {"prepared", "stored"} => \A k \in msg'[n].keys : up'[k].phase = "stored"
      BY <1>1, <2>3, <2>7, <2>8 DEF AttachmentsInv, MessageInv
    <3> QED
      BY <3>1, <3>2, <3>3 DEF MessageInv
  <2> QED
    BY <1>1, <1>2, <2>9, <2>10, <2>12, MessageStep
<1>10. CASE ClearChat(m)
  <2>1. PICK D : D = attachments_for_message(m)
    OBVIOUS
  <2>2. D \in SUBSET Keys /\ \A k \in Keys : k \in D <=> att[k].exists /\ att[k].msg = m
    BY <2>1 DEF attachments_for_message
  <2>3. DeleteRows(D) /\ msg' = [msg EXCEPT ![m] = done]
    BY <1>6, <1>10, <2>1 DEF ClearChat
  <2>4. RowEffects /\ QueueEffects
    BY <1>1, <2>2, <2>3, DeletedEffects
  <2>5. /\ att' \in [Keys -> RowRecord] /\ queue' \in [Keys -> EntryRecord]
        /\ \A k \in Keys : att'[k] = IF k \in D THEN NoRow ELSE att[k]
    BY <2>2, <2>3, RowsDeleted DEF AttachmentsInv
  <2>6. msg' \in [Messages -> MessageRecord] /\ \A n \in Messages : msg'[n] = IF n = m THEN done ELSE msg[n]
    BY <1>3, <1>7, <2>3
  <2>7. Types'
    BY <1>1, <1>2, <2>5, <2>6, TypesNow DEF AttachmentsInv, Types, TableTypes, OwnerTypes
  <2>8. \A n \in Messages : Stored(n)' <=> n # m /\ Stored(n)
    BY <1>7, <2>6 DEF Stored
  <2>9. MessageInv'
    <3>1. \A k \in Keys, n \in Messages : att'[k].exists /\ att'[k].msg = n => Stored(n)' /\ k \in msg'[n].keys
      BY <2>2, <2>5, <2>6, <2>8, Blank DEF AttachmentsInv, MessageInv
    <3>2. ASSUME NEW n \in Messages, Stored(n)', NEW k \in msg'[n].keys
          PROVE  att'[k].exists /\ att'[k].msg = n /\ att'[k].owner = msg'[n].owner
      <4>1. /\ n # m /\ Stored(n) /\ msg'[n] = msg[n] /\ k \in msg[n].keys /\ k \in Keys
            /\ att[k].exists /\ att[k].msg = n /\ att[k].owner = msg[n].owner
        BY <1>3, <2>6, <2>8, <3>2 DEF AttachmentsInv, MessageInv
      <4> QED
        BY <2>2, <2>5, <4>1
    <3>3. \A n \in Messages : msg'[n].phase \in {"prepared", "stored"} => \A k \in msg'[n].keys : up'[k].phase = "stored"
      BY <1>1, <1>7, <2>6 DEF AttachmentsInv, MessageInv
    <3> QED
      BY <3>1, <3>2, <3>3 DEF MessageInv
  <2> QED
    BY <1>1, <1>2, <2>4, <2>7, <2>9, MessageStep
<1> QED
  BY <1>5, <1>8, <1>9, <1>10

\* The rows and the messages of an owner go together.
LEMMA OwnerErased ==
    ASSUME AttachmentsInv, NEW o \in Owners, UNCHANGED up, msg' = Forgotten(o),
           \A k \in Keys : att'[k] = IF k \in RowsOf(o) THEN NoRow ELSE att[k]
    PROVE  msg' \in [Messages -> MessageRecord] /\ MessageInv'
<1>1. msg \in [Messages -> MessageRecord] /\ \A n \in Messages : msg[n] \in MessageRecord /\ msg[n].keys \subseteq Keys
  BY TypesNow DEF MessageRecord
<1>2. PICK done : done = [NoMessage EXCEPT !.phase = "done"]
  OBVIOUS
<1>3. done \in MessageRecord /\ done.phase = "done"
  BY <1>2, Blank DEF MessageRecord
<1>4. \A n \in Messages : msg'[n] = IF Stored(n) /\ msg[n].owner = o THEN done ELSE msg[n]
  BY <1>2 DEF Forgotten
<1>5. msg' \in [Messages -> MessageRecord]
  BY <1>1, <1>2, <1>3 DEF Forgotten
<1>6. \A n \in Messages : Stored(n)' <=> Stored(n) /\ msg[n].owner # o
  BY <1>3, <1>4 DEF Stored
<1>7. \A k \in Keys : att'[k].exists <=> att[k].exists /\ att[k].owner # o
  BY Blank DEF RowsOf
<1>8. \A k \in Keys : att'[k].exists => att'[k] = att[k]
  BY Blank
<1>9. \A k \in Keys, n \in Messages : att'[k].exists /\ att'[k].msg = n => Stored(n)' /\ k \in msg'[n].keys
  BY <1>4, <1>6, <1>7, <1>8 DEF AttachmentsInv, MessageInv
<1>10. ASSUME NEW n \in Messages, Stored(n)', NEW k \in msg'[n].keys
       PROVE  att'[k].exists /\ att'[k].msg = n /\ att'[k].owner = msg'[n].owner
  <2>1. /\ Stored(n) /\ msg'[n] = msg[n] /\ msg[n].owner # o /\ k \in msg[n].keys /\ k \in Keys
        /\ att[k].exists /\ att[k].msg = n /\ att[k].owner = msg[n].owner
    BY <1>1, <1>4, <1>6, <1>10 DEF AttachmentsInv, MessageInv
  <2> QED
    BY <1>7, <1>8, <2>1
<1>11. \A n \in Messages : msg'[n].phase \in {"prepared", "stored"} => \A k \in msg'[n].keys : up'[k].phase = "stored"
  BY <1>3, <1>4 DEF AttachmentsInv, MessageInv
<1> QED
  BY <1>5, <1>9, <1>10, <1>11 DEF MessageInv

\* Expiry, cleanup and promotion of a guest keep the invariant.
LEMMA GuestSteps ==
    ASSUME AttachmentsInv, NEW g \in Guests, GuestExpires(g) \/ CleanupGuest(g) \/ \E a \in Accounts : Promote(g, a)
    PROVE  AttachmentsInv'
<1>1. UNCHANGED <<up, file, upkeep, late>> /\ g \in Owners
  BY DEF GuestExpires, CleanupGuest, Promote, Owners
<1>2. /\ FileEffects /\ WorkEffects /\ UpkeepTypes'
      /\ up' \in [Keys -> UploadRecord] /\ file' \in [Keys -> {"absent", "partial", "whole"}] /\ late' \subseteq Keys
  BY <1>1, FilesAlone, WorkAlone, TypesNow DEF UpkeepTypes, upkeep
<1>3. ASSUME NEW new \in {"expired", "promoted", "deleted"}, status' = [status EXCEPT ![g] = new]
      PROVE  status' \in [Owners -> {"live", "expired", "promoted", "deleted"}]
  BY <1>1, <1>3 DEF AttachmentsInv, Types, OwnerTypes
<1>4. CASE GuestExpires(g)
  <2>1. UNCHANGED <<att, queue, msg>> /\ status' \in [Owners -> {"live", "expired", "promoted", "deleted"}]
    BY <1>3, <1>4 DEF GuestExpires, tables
  <2>2. Types'
    BY <1>2, <2>1, TypesNow DEF Types, TableTypes, OwnerTypes
  <2>3. RowEffects /\ QueueEffects
    BY <1>1, <2>1, RowsAlone, QueueAlone
  <2>4. QuietMessages
    BY <2>1, <2>3, MessagesAlone
  <2> QED
    BY <1>2, <2>2, <2>3, <2>4, QuietStep DEF Effects
<1>5. CASE CleanupGuest(g)
  <2>1. PICK D : D = RowsOf(g)
    OBVIOUS
  <2>2. D \in SUBSET Keys /\ \A k \in D : att[k].exists
    BY <2>1 DEF RowsOf
  <2>3. DeleteRows(D) /\ msg' = Forgotten(g) /\ status' = [status EXCEPT ![g] = "deleted"]
    BY <1>5, <2>1 DEF CleanupGuest
  <2>4. RowEffects /\ QueueEffects
    BY <1>1, <2>2, <2>3, DeletedEffects
  <2>5. /\ att' \in [Keys -> RowRecord] /\ queue' \in [Keys -> EntryRecord]
        /\ \A k \in Keys : att'[k] = IF k \in D THEN NoRow ELSE att[k]
    BY <2>2, <2>3, RowsDeleted DEF AttachmentsInv
  <2>6. msg' \in [Messages -> MessageRecord] /\ MessageInv'
    BY <1>1, <2>1, <2>3, <2>5, OwnerErased
  <2>7. Types'
    BY <1>2, <1>3, <2>3, <2>5, <2>6 DEF Types, TableTypes, OwnerTypes
  <2> QED
    BY <1>1, <1>2, <2>4, <2>6, <2>7, MessageStep
<1>6. ASSUME NEW a \in Accounts, Promote(g, a) PROVE AttachmentsInv'
  <2>1. /\ status' = [status EXCEPT ![g] = "promoted"]
        /\ att' = [k \in Keys |-> [att[k] EXCEPT !.owner = Given(@, g, a)]]
        /\ queue' = [k \in Keys |-> [queue[k] EXCEPT !.owner = Given(@, g, a)]]
        /\ msg' = [m \in Messages |-> IF Stored(m) THEN [msg[m] EXCEPT !.owner = Given(@, g, a)] ELSE msg[m]]
    BY <1>6 DEF Promote
  <2>2. \A o \in OwnerOrNone : Given(o, g, a) \in OwnerOrNone
    BY DEF Given, OwnerOrNone, Owners
  <2>3. ASSUME NEW k \in Keys
        PROVE  /\ att'[k] \in RowRecord /\ att'[k].exists = att[k].exists /\ att'[k].msg = att[k].msg
               /\ att'[k].owner = Given(att[k].owner, g, a)
    <3>1. PICK o : o = Given(att[k].owner, g, a)
      OBVIOUS
    <3>2. o \in OwnerOrNone
      BY <2>2, <3>1, TypesNow DEF RowRecord
    <3>3. att'[k] = [att[k] EXCEPT !.owner = o]
      BY <2>1, <3>1, TypesNow DEF RowRecord
    <3> QED
      BY <3>1, <3>2, <3>3, TypesNow DEF RowRecord
  <2>4. ASSUME NEW k \in Keys PROVE queue'[k] \in EntryRecord /\ queue'[k].exists = queue[k].exists
    <3>1. PICK o : o = Given(queue[k].owner, g, a)
      OBVIOUS
    <3>2. o \in OwnerOrNone
      BY <2>2, <3>1, TypesNow DEF EntryRecord
    <3>3. queue'[k] = [queue[k] EXCEPT !.owner = o]
      BY <2>1, <3>1, TypesNow DEF EntryRecord
    <3> QED
      BY <3>2, <3>3, TypesNow DEF EntryRecord
  <2>5. ASSUME NEW m \in Messages
        PROVE  /\ msg'[m] \in MessageRecord /\ msg'[m].phase = msg[m].phase /\ msg'[m].keys = msg[m].keys
               /\ Stored(m) => msg'[m].owner = Given(msg[m].owner, g, a)
    <3>1. msg[m] \in MessageRecord
      BY TypesNow
    <3>2. CASE Stored(m)
      <4>1. PICK o : o = Given(msg[m].owner, g, a)
        OBVIOUS
      <4>2. o \in OwnerOrNone
        BY <2>2, <3>1, <4>1 DEF MessageRecord
      <4>3. msg'[m] = [msg[m] EXCEPT !.owner = o]
        BY <2>1, <3>1, <3>2, <4>1 DEF MessageRecord
      <4> QED
        BY <3>1, <4>1, <4>2, <4>3 DEF MessageRecord
    <3>3. CASE ~Stored(m)
      BY <2>1, <3>1, <3>3
    <3> QED
      BY <3>2, <3>3
  <2>6. /\ att' \in [Keys -> RowRecord] /\ queue' \in [Keys -> EntryRecord] /\ msg' \in [Messages -> MessageRecord]
    BY <2>1, <2>3, <2>4, <2>5
  <2>7. Types'
    BY <1>2, <1>3, <2>1, <2>6 DEF Types, TableTypes, OwnerTypes
  <2>8. RowEffects /\ QueueEffects
    BY <1>1, <2>3, <2>4 DEF RowEffects, QueueEffects, Past, AttachmentsInv, UploadInv
  <2>9. \A m \in Messages : Stored(m)' <=> Stored(m)
    BY <2>5 DEF Stored
  <2>10. MessageInv'
    <3>0. \A m \in Messages : msg[m].keys \subseteq Keys
      BY TypesNow DEF MessageRecord
    <3>1. \A k \in Keys, n \in Messages : att'[k].exists /\ att'[k].msg = n => Stored(n)' /\ k \in msg'[n].keys
      BY <2>3, <2>5, <2>9 DEF AttachmentsInv, MessageInv
    <3>2. ASSUME NEW n \in Messages, Stored(n)', NEW k \in msg'[n].keys
          PROVE  att'[k].exists /\ att'[k].msg = n /\ att'[k].owner = msg'[n].owner
      <4>1. /\ Stored(n) /\ k \in msg[n].keys /\ k \in Keys
            /\ att[k].exists /\ att[k].msg = n /\ att[k].owner = msg[n].owner
        BY <2>5, <2>9, <3>0, <3>2 DEF AttachmentsInv, MessageInv
      <4> QED
        BY <2>3, <2>5, <4>1
    <3>3. \A n \in Messages : msg'[n].phase \in {"prepared", "stored"} => \A k \in msg'[n].keys : up'[k].phase = "stored"
      BY <1>1, <2>5 DEF AttachmentsInv, MessageInv
    <3> QED
      BY <3>1, <3>2, <3>3 DEF MessageInv
  <2> QED
    BY <1>1, <1>2, <2>7, <2>8, <2>10, MessageStep
<1> QED
  BY <1>4, <1>5, <1>6

\* Deleting an account keeps the invariant.
LEMMA AccountStep ==
    ASSUME AttachmentsInv, NEW a \in Accounts, DeleteAccount(a)
    PROVE  AttachmentsInv'
<1>1. PICK D : D = RowsOf(a)
  OBVIOUS
<1>2. PICK q : q = Enqueued(queue, att, D)
  OBVIOUS
<1>3. PICK new : new = [phase |-> "claim", keys |-> {k \in Keys : q[k].exists /\ q[k].owner = a}]
  OBVIOUS
<1>4. /\ status' = [status EXCEPT ![a] = "deleted"] /\ att' = Without(att, D) /\ queue' = Released(q, a)
      /\ msg' = Forgotten(a) /\ req' = [req EXCEPT ![a] = new] /\ UNCHANGED <<up, file, look, job, late>>
  BY <1>1, <1>2, <1>3 DEF DeleteAccount
<1>5. D \in SUBSET Keys /\ \A k \in D : att[k].exists
  BY <1>1 DEF RowsOf
<1>6. q \in [Keys -> EntryRecord] /\ \A k \in Keys : q[k].exists <=> queue[k].exists \/ k \in D
  BY <1>2, <1>5, EntriesAdded DEF AttachmentsInv
<1>7. ASSUME NEW k \in Keys PROVE queue'[k] \in EntryRecord /\ (queue'[k].exists <=> q[k].exists)
  <2>1. CASE q[k].exists /\ q[k].owner = a
    <3>1. queue'[k] = [NoEntry EXCEPT !.exists = TRUE, !.due = TRUE]
      BY <1>4, <2>1 DEF Released
    <3> QED
      BY <2>1, <3>1, Blank DEF EntryRecord
  <2>2. CASE ~(q[k].exists /\ q[k].owner = a)
    <3>1. queue'[k] = q[k]
      BY <1>4, <2>2 DEF Released
    <3> QED
      BY <1>6, <3>1
  <2> QED
    BY <2>1, <2>2
<1>8. queue' \in [Keys -> EntryRecord]
  BY <1>4, <1>7 DEF Released
<1>9. att' \in [Keys -> RowRecord] /\ \A k \in Keys : att'[k] = IF k \in D THEN NoRow ELSE att[k]
  BY <1>4, Blank, TypesNow DEF Without
<1>10. \A k \in Keys : att'[k].exists <=> att[k].exists /\ k \notin D
  BY <1>9, Blank
<1>11. msg' \in [Messages -> MessageRecord] /\ MessageInv'
  BY <1>1, <1>4, <1>9, OwnerErased DEF Owners
<1>12. RowEffects
  BY <1>4, <1>10 DEF RowEffects, Past, AttachmentsInv, UploadInv
<1>13. QueueEffects
  BY <1>5, <1>6, <1>7, <1>10 DEF QueueEffects
<1>14. RequestEffects /\ req' \in [Accounts -> RequestRecord]
  <2>1. new \in RequestRecord /\ new.phase = "claim" /\ \A k \in new.keys : queue'[k].exists
    BY <1>3, <1>7 DEF RequestRecord
  <2> QED
    BY <1>4, <2>1, RequestSet
<1>15. ScanEffects /\ JobEffects
  BY <1>4 DEF ScanEffects, JobEffects
<1>16. status' \in [Owners -> {"live", "expired", "promoted", "deleted"}]
  BY <1>4 DEF AttachmentsInv, Types, OwnerTypes
<1>17. Types'
  BY <1>4, <1>8, <1>9, <1>11, <1>14, <1>16, TypesNow DEF Types, TableTypes, OwnerTypes, UpkeepTypes
<1> QED
  BY <1>4, <1>11, <1>12, <1>13, <1>14, <1>15, <1>17, MessageStep DEF WorkEffects

-----------------------------------------------------------------------------
\* The invariant of images holds initially.
LEMMA AttachmentsBegin ==
    ASSUME Init
    PROVE  AttachmentsInv
<1>1. Types
  BY Blank DEF Init, Types, TableTypes, OwnerTypes, UpkeepTypes, UploadRecord, RequestRecord, OwnerOrNone
<1>2. UploadInv
  BY Blank, NoneIsNothing DEF Init, UploadInv, Past
<1>3. DeletionInv
  BY Blank, NoneIsNothing DEF Init, DeletionInv
<1>4. MessageInv
  BY Blank DEF Init, MessageInv, Stored
<1>5. FilesTracked /\ CleanReportTrue
  BY DEF Init, FilesTracked, CleanReportTrue
<1> QED
  BY <1>1, <1>2, <1>3, <1>4, <1>5 DEF AttachmentsInv

\* Every step keeps the invariant of images.
LEMMA AttachmentsStep ==
    ASSUME AttachmentsInv, [Next]_vars
    PROVE  AttachmentsInv'
<1>1. CASE UNCHANGED vars
  <2>1. UNCHANGED <<status, up, att, queue, file, late, msg, upkeep>>
    BY <1>1 DEF vars, upkeep
  <2>2. UpkeepTypes'
    BY <2>1, TypesNow DEF UpkeepTypes, upkeep
  <2> QED
    BY <2>1, <2>2, FilesAlone, QueueAlone, WorkAlone, TypesNow, BackgroundStep
<1> QED
  BY <1>1, UploadSteps, TimeSteps, SendSteps, GuestSteps, AccountStep, RequestSteps, WorkerSteps, MaintenanceSteps
     DEF Next

(***************************************************************************)
(* The inductive invariant of images: files have a row or have had one,    *)
(* the queue and its workers hold only files whose row is gone for good,   *)
(* the rows that name a message are its images, and a worker that says a   *)
(* file is gone is right unless the upload wrote it after all.             *)
(***************************************************************************)
THEOREM AttachmentsInvariant == Spec => []AttachmentsInv
<1>1. Init => AttachmentsInv
  BY AttachmentsBegin
<1>2. AttachmentsInv /\ [Next]_vars => AttachmentsInv'
  BY AttachmentsStep
<1> QED
  BY <1>1, <1>2, PTL DEF Spec

(***************************************************************************)
(* Every file in the upload directory has its row or its entry in the      *)
(* deletion queue, unless it was written after its row had been deleted.   *)
(***************************************************************************)
THEOREM FilesTrackedHolds == Spec => []FilesTracked
<1>1. AttachmentsInv => FilesTracked
  BY DEF AttachmentsInv
<1> QED
  BY <1>1, AttachmentsInvariant, PTL

(***************************************************************************)
(* An account deletion that answers without cleanup_pending has left no    *)
(* file of the account, except for an upload that was still writing.       *)
(***************************************************************************)
THEOREM CleanReportTrueHolds == Spec => []CleanReportTrue
<1>1. AttachmentsInv => CleanReportTrue
  BY DEF AttachmentsInv
<1> QED
  BY <1>1, AttachmentsInvariant, PTL

(***************************************************************************)
(* Stored messages keep exactly their images, whole and readable by their  *)
(* owners, whatever cleanup, promotion and other sends do meanwhile.       *)
(***************************************************************************)
THEOREM MessageImagesKeptHolds == Spec => []MessageImagesKept
<1>1. ASSUME AttachmentsInv PROVE MessageImagesKept
  <2> SUFFICES ASSUME NEW m \in Messages, Stored(m)
               PROVE  /\ attachments_for_message(m) = msg[m].keys
                      /\ \A k \in msg[m].keys :
                           /\ read_attachment_bytes(k) = "whole"
                           /\ status[msg[m].owner] = "live" => preview_chat_attachment(k, msg[m].owner) = "whole"
    BY DEF MessageImagesKept
  <2>1. msg[m].keys \subseteq Keys
    BY <1>1, TypesNow DEF MessageRecord
  <2>2. \A k \in msg[m].keys : /\ att[k].exists /\ att[k].msg = m /\ att[k].owner = msg[m].owner
                               /\ up[k].phase = "stored"
    BY <1>1 DEF AttachmentsInv, MessageInv, Stored
  <2>3. attachments_for_message(m) = msg[m].keys
    <3>1. \A k \in Keys : att[k].exists /\ att[k].msg = m <=> k \in msg[m].keys
      BY <1>1, <2>2 DEF AttachmentsInv, MessageInv
    <3> QED
      BY <2>1, <3>1 DEF attachments_for_message
  <2>4. \A k \in msg[m].keys : file[k] = "whole"
    BY <1>1, <2>1, <2>2 DEF AttachmentsInv, UploadInv
  <2>5. \A k \in msg[m].keys : read_attachment_bytes(k) = "whole"
    BY <2>4 DEF read_attachment_bytes
  <2> QED
    BY <2>2, <2>3, <2>5 DEF preview_chat_attachment, require_attachment_session, get_chat_attachment
<1> QED
  BY <1>1, AttachmentsInvariant, PTL

-----------------------------------------------------------------------------
(***************************************************************************)
(* The storage quota.  What an owner is charged are his rows and his       *)
(* queued deletions; every file of a live owner is among them, because a   *)
(* row is deleted under a running write only with the owner of the upload. *)
(***************************************************************************)
ChargedBy(rows, entries, o) ==
    {k \in Keys : \/ rows[k].exists /\ rows[k].owner = o
                  \/ entries[k].exists /\ entries[k].owner = o}

Former(st) == {g \in Guests : st[g] \in {"promoted", "deleted"}}

\* A guest is charged one quota at most, an account one more for every guest that may
\* have become it.
ChargesOK(rows, entries, st) ==
    /\ \A g \in Guests : SumSize(ChargedBy(rows, entries, g)) <= MaxStorage
    /\ \A a \in Accounts : st[a] = "live" =>
         SumSize(ChargedBy(rows, entries, a)) <= MaxStorage * (1 + Cardinality(Former(st)))

Abandoned(k) == up[k].phase # "none" /\ status[up[k].owner] # "live"

OwnerInv ==
    \A k \in Keys :
        /\ att[k].exists => att[k].owner = up[k].owner \/ Abandoned(k)
        /\ att[k].exists /\ att[k].old => ~InFlight(k)
        /\ up[k].phase = "writing" => att[k].exists \/ Abandoned(k)
        /\ k \in late => Abandoned(k)

QuotaInv == OwnerInv /\ ChargesOK(att, queue, status)

\* An image is charged to the owner of its row or of its entry.
LEMMA ChargedTo ==
    ASSUME NEW rows, NEW entries, NEW o, NEW k \in Keys
    PROVE  k \in ChargedBy(rows, entries, o) <=> \/ rows[k].exists /\ rows[k].owner = o
                                                 \/ entries[k].exists /\ entries[k].owner = o
<1> QED
  BY DEF ChargedBy

\* Sizes add up.
LEMMA SizesAre ==
    /\ IsFiniteSet(Keys) /\ Size \in [Keys -> Nat] /\ MaxStorage \in Nat /\ IsFiniteSet(Guests)
    /\ SumSize({}) = 0
    /\ \A S \in SUBSET Keys : SumSize(S) \in Nat
<1>1. IsFiniteSet(Keys) /\ Size \in [Keys -> Nat] /\ MaxStorage \in Nat /\ IsFiniteSet(Guests)
  BY AttachmentsAssumption DEF AttachmentsAssumption
<1>2. \A S : SumSize(S) = SumOver(Size, S)
  BY Zenon DEF SumSize, SumOver
<1>3. SumOver(Size, {}) = 0 /\ \A S \in SUBSET Keys : SumOver(Size, S) \in Nat
  BY <1>1, SumOfNone
<1> QED
  BY <1>1, <1>2, <1>3

\* Fewer images take no more space.
LEMMA SizeOfPart ==
    ASSUME NEW U \in SUBSET Keys, NEW S \in SUBSET U
    PROVE  SumSize(S) <= SumSize(U)
<1>1. \A W : SumSize(W) = SumOver(Size, W)
  BY Zenon DEF SumSize, SumOver
<1>2. SumOver(Size, S) <= SumOver(Size, U)
  BY SizesAre, SumOfPart
<1> QED
  BY <1>1, <1>2

\* The images of two sets take no more than each set for itself.
LEMMA SizeOfBoth ==
    ASSUME NEW S \in SUBSET Keys, NEW U \in SUBSET Keys
    PROVE  SumSize(S \cup U) <= SumSize(S) + SumSize(U)
<1>1. \A W : SumSize(W) = SumOver(Size, W)
  BY Zenon DEF SumSize, SumOver
<1>2. PICK V \in SUBSET Keys : V = U \ S
  OBVIOUS
<1>3. S \cap V = {} /\ S \cup V = S \cup U /\ V \in SUBSET U
  BY <1>2
<1>4. SumOver(Size, S \cup V) = SumOver(Size, S) + SumOver(Size, V)
  BY <1>3, SizesAre, SumOfBoth
<1>5. SumSize(V) <= SumSize(U)
  BY <1>3, SizeOfPart
<1>6. SumSize(S) \in Nat /\ SumSize(U) \in Nat /\ SumSize(V) \in Nat
  BY SizesAre
<1>7. SumSize(S \cup U) = SumSize(S) + SumSize(V)
  BY <1>1, <1>3, <1>4
<1>8. PICK x \in Nat, y \in Nat, z \in Nat : x = SumSize(S) /\ y = SumSize(U) /\ z = SumSize(V)
  BY <1>6
<1>9. x + z <= x + y
  BY <1>5, <1>8
<1> QED
  BY <1>7, <1>8, <1>9

\* One image more.
LEMMA SizeOfMore ==
    ASSUME NEW S \in SUBSET Keys, NEW k \in Keys, k \notin S
    PROVE  SumSize(S \cup {k}) = SumSize(S) + Size[k]
<1>1. \A W : SumSize(W) = SumOver(Size, W)
  BY Zenon DEF SumSize, SumOver
<1>2. SumOver(Size, S \cup {k}) = SumOver(Size, S) + Size[k]
  BY SizesAre, SumOfMore
<1> QED
  BY <1>1, <1>2

\* The bound of an account grows with the guests that are no longer.
LEMMA BoundGrows ==
    ASSUME NEW m \in Nat, NEW n \in Nat, m <= n
    PROVE  /\ MaxStorage * (1 + m) \in Nat /\ MaxStorage * (1 + n) \in Nat
           /\ MaxStorage <= MaxStorage * (1 + m)
           /\ MaxStorage * (1 + m) <= MaxStorage * (1 + n)
           /\ MaxStorage * (1 + (m + 1)) = MaxStorage * (1 + m) + MaxStorage
<1>1. MaxStorage \in Nat
  BY SizesAre
<1> QED
  BY <1>1

\* The guests are finitely many, and no fewer former ones in a larger set.
LEMMA FormerCounted ==
    ASSUME NEW st, NEW new, Former(st) \subseteq Former(new)
    PROVE  /\ Cardinality(Former(st)) \in Nat /\ Cardinality(Former(new)) \in Nat
           /\ Cardinality(Former(st)) <= Cardinality(Former(new))
<1>1. Former(st) \in SUBSET Guests /\ Former(new) \in SUBSET Guests
  BY DEF Former
<1>2. IsFiniteSet(Former(st)) /\ IsFiniteSet(Former(new))
  BY <1>1, SizesAre, FS_Subset
<1>3. Cardinality(Former(st)) <= Cardinality(Former(new))
  BY <1>2, FS_Subset
<1> QED
  BY <1>2, <1>3, FS_CardinalityType

\* Each owner is charged for nothing new, or for no more than one quota.
LEMMA ChargesKept ==
    ASSUME NEW rows, NEW entries, NEW st, NEW rows2, NEW entries2, NEW st2, ChargesOK(rows, entries, st),
           \A o \in Owners : \/ ChargedBy(rows2, entries2, o) \subseteq ChargedBy(rows, entries, o)
                             \/ SumSize(ChargedBy(rows2, entries2, o)) <= MaxStorage,
           \A o \in Owners : st2[o] = "live" => st[o] = "live",
           Former(st) \subseteq Former(st2)
    PROVE  ChargesOK(rows2, entries2, st2)
<1>1. PICK m \in Nat, n \in Nat : m = Cardinality(Former(st)) /\ n = Cardinality(Former(st2)) /\ m <= n
  BY FormerCounted
<1>2. PICK low \in Nat, high \in Nat : low = MaxStorage * (1 + m) /\ high = MaxStorage * (1 + n)
                                      /\ MaxStorage <= low /\ low <= high
  BY <1>1, BoundGrows
<1>3. ASSUME NEW o \in Owners, NEW bound \in Nat, SumSize(ChargedBy(rows, entries, o)) <= bound, MaxStorage <= bound
      PROVE  SumSize(ChargedBy(rows2, entries2, o)) <= bound
  <2>1. PICK S \in SUBSET Keys, U \in SUBSET Keys : S = ChargedBy(rows2, entries2, o) /\ U = ChargedBy(rows, entries, o)
    BY DEF ChargedBy
  <2>2. SumSize(S) \in Nat /\ SumSize(U) \in Nat /\ MaxStorage \in Nat
    BY SizesAre
  <2>3. CASE S \subseteq U
    <3>1. SumSize(S) <= SumSize(U)
      BY <2>3, SizeOfPart
    <3> QED
      BY <1>3, <2>1, <2>2, <3>1
  <2>4. CASE SumSize(S) <= MaxStorage
    BY <1>3, <2>1, <2>2, <2>4
  <2> QED
    BY <2>1, <2>3, <2>4
<1>4. ASSUME NEW g \in Guests PROVE SumSize(ChargedBy(rows2, entries2, g)) <= MaxStorage
  <2>1. g \in Owners /\ MaxStorage \in Nat
    BY SizesAre DEF Owners
  <2>2. SumSize(ChargedBy(rows, entries, g)) <= MaxStorage /\ MaxStorage <= MaxStorage
    BY <2>1 DEF ChargesOK
  <2> QED
    BY <1>3, <2>1, <2>2
<1>5. ASSUME NEW a \in Accounts, st2[a] = "live" PROVE SumSize(ChargedBy(rows2, entries2, a)) <= high
  <2>1. a \in Owners
    BY DEF Owners
  <2>2. SumSize(ChargedBy(rows, entries, a)) <= low
    BY <1>1, <1>2, <1>5, <2>1 DEF ChargesOK
  <2>3. PICK x \in Nat : x = SumSize(ChargedBy(rows, entries, a))
    BY SizesAre DEF ChargedBy
  <2>4. SumSize(ChargedBy(rows, entries, a)) <= high /\ MaxStorage <= high
    BY <1>2, <2>2, <2>3, SizesAre
  <2> QED
    BY <1>3, <2>1, <2>4
<1> QED
  BY <1>1, <1>2, <1>4, <1>5 DEF ChargesOK

\* What a step may do to owners: nobody becomes live again, an upload keeps its owner, a
\* row keeps its owner or its upload is abandoned, a row grows old after its upload, and
\* a row goes under a running write only when the upload is abandoned.
OwnerEffects ==
    /\ \A o \in Owners : status'[o] = "live" => status[o] = "live"
    /\ \A k \in Keys : up[k].phase # "none" => up'[k].phase # "none" /\ up'[k].owner = up[k].owner
    /\ \A k \in Keys : InFlight(k)' => up[k].phase = "none" \/ InFlight(k)
    /\ \A k \in Keys : att'[k].exists => \/ att'[k].owner = up'[k].owner \/ Abandoned(k)'
                                         \/ att[k].exists /\ att'[k].owner = att[k].owner
    /\ \A k \in Keys : att'[k].exists /\ att'[k].old => ~InFlight(k)' \/ (att[k].exists /\ att[k].old)
    /\ \A k \in Keys : up'[k].phase = "writing" => \/ att'[k].exists \/ Abandoned(k)'
                                                   \/ up[k].phase = "writing" /\ ~att[k].exists
    /\ \A k \in late' : k \in late \/ (k \in Keys /\ up[k].phase = "writing" /\ ~att[k].exists)

\* The invariant about owners follows.
LEMMA OwnersKept ==
    ASSUME AttachmentsInv, OwnerInv, OwnerEffects
    PROVE  OwnerInv'
<1>1. ASSUME NEW k \in Keys, Abandoned(k) PROVE Abandoned(k)'
  <2>1. up[k].owner \in Owners /\ up'[k].phase # "none" /\ up'[k].owner = up[k].owner
    BY <1>1 DEF AttachmentsInv, UploadInv, OwnerEffects, Abandoned
  <2> QED
    BY <1>1, <2>1 DEF OwnerEffects, Abandoned
<1>2. ASSUME NEW k \in Keys, att'[k].exists PROVE att'[k].owner = up'[k].owner \/ Abandoned(k)'
  <2>1. CASE att[k].exists /\ att'[k].owner = att[k].owner
    <3>1. att[k].owner = up[k].owner \/ Abandoned(k)
      BY <2>1 DEF OwnerInv
    <3>2. up[k].phase # "none"
      BY <2>1 DEF AttachmentsInv, UploadInv, Past
    <3> QED
      BY <1>1, <2>1, <3>1, <3>2 DEF OwnerEffects
  <2> QED
    BY <1>2, <2>1 DEF OwnerEffects
<1>3. ASSUME NEW k \in Keys, att'[k].exists, att'[k].old PROVE ~InFlight(k)'
  <2>1. CASE att[k].exists /\ att[k].old
    <3>1. ~InFlight(k) /\ up[k].phase # "none"
      BY <2>1 DEF OwnerInv, AttachmentsInv, UploadInv, Past
    <3> QED
      BY <3>1 DEF OwnerEffects
  <2> QED
    BY <1>3, <2>1 DEF OwnerEffects
<1>4. ASSUME NEW k \in Keys, up[k].phase = "writing", ~att[k].exists PROVE Abandoned(k)'
  BY <1>1, <1>4 DEF OwnerInv
<1>5. ASSUME NEW k \in Keys, up'[k].phase = "writing" PROVE att'[k].exists \/ Abandoned(k)'
  BY <1>4, <1>5 DEF OwnerEffects
<1>6. ASSUME NEW k \in Keys, k \in late' PROVE Abandoned(k)'
  BY <1>1, <1>4, <1>6 DEF OwnerEffects, OwnerInv
<1> QED
  BY <1>2, <1>3, <1>5, <1>6 DEF OwnerInv

\* Most steps charge nobody for anything new: rows keep their owners, and an entry of
\* the queue has the owner that it, or the row, had before.
SameCharges ==
    /\ \A k \in Keys : att'[k].exists => att[k].exists /\ att'[k].owner = att[k].owner
    /\ \A k \in Keys, o \in Owners : queue'[k].exists /\ queue'[k].owner = o =>
         \/ queue[k].exists /\ queue[k].owner = o
         \/ att[k].exists /\ att[k].owner = o

\* Former guests stay former guests.
StatusEffects ==
    /\ \A o \in Owners : status'[o] = "live" => status[o] = "live"
    /\ \A g \in Guests : status[g] \in {"promoted", "deleted"} => status'[g] \in {"promoted", "deleted"}

\* The quota is kept by a step that charges nobody for anything new.
LEMMA QuotaKept ==
    ASSUME AttachmentsInv, QuotaInv, OwnerEffects, SameCharges, StatusEffects
    PROVE  QuotaInv'
<1>1. \A o \in Owners : ChargedBy(att', queue', o) \subseteq ChargedBy(att, queue, o)
  <2> SUFFICES ASSUME NEW o \in Owners, NEW k \in ChargedBy(att', queue', o)
               PROVE  k \in ChargedBy(att, queue, o)
    OBVIOUS
  <2>1. /\ k \in Keys
        /\ (att'[k].exists /\ att'[k].owner = o) \/ (queue'[k].exists /\ queue'[k].owner = o)
    BY DEF ChargedBy
  <2>2. (att[k].exists /\ att[k].owner = o) \/ (queue[k].exists /\ queue[k].owner = o)
    BY <2>1 DEF SameCharges
  <2> QED
    BY <2>1, <2>2, ChargedTo
<1>2. Former(status) \subseteq Former(status')
  BY DEF StatusEffects, Former
<1>3. ChargesOK(att, queue, status)
  BY DEF QuotaInv
<1>4. \A o \in Owners : status'[o] = "live" => status[o] = "live"
  BY DEF StatusEffects
<1>5. ChargesOK(att', queue', status')
  BY <1>1, <1>2, <1>3, <1>4, ChargesKept
<1> QED
  BY <1>5, OwnersKept DEF QuotaInv

\* Deleting rows charges nobody for anything new.
LEMMA DeletedCharges ==
    ASSUME AttachmentsInv, NEW D \in SUBSET Keys, \A k \in D : att[k].exists, NEW q, q = Enqueued(queue, att, D)
    PROVE  \A k \in Keys, o \in Owners : q[k].exists /\ q[k].owner = o =>
             \/ queue[k].exists /\ queue[k].owner = o
             \/ att[k].exists /\ att[k].owner = o
<1>1. ASSUME NEW k \in D PROVE q[k].owner = att[k].owner
  <2>1. queue[k] \in EntryRecord /\ k \in Keys
    BY TypesNow
  <2>2. PICK o : o = att[k].owner
    OBVIOUS
  <2>3. CASE queue[k].exists
    <3>1. q[k] = [queue[k] EXCEPT !.owner = o, !.due = TRUE]
      BY <2>1, <2>2, <2>3 DEF Enqueued
    <3> QED
      BY <2>1, <2>2, <3>1 DEF EntryRecord
  <2>4. CASE ~queue[k].exists
    <3>1. q[k] = [NoEntry EXCEPT !.exists = TRUE, !.owner = o, !.due = TRUE]
      BY <2>1, <2>2, <2>4 DEF Enqueued
    <3> QED
      BY <2>2, <3>1 DEF NoEntry
  <2> QED
    BY <2>3, <2>4
<1>2. \A k \in Keys \ D : q[k] = queue[k]
  BY DEF Enqueued
<1> QED
  BY <1>1, <1>2

\* Rows whose upload no longer writes may be deleted at any time.
LEMMA DeletionKeepsQuota ==
    ASSUME AttachmentsInv, QuotaInv, NEW D \in SUBSET Keys, DeleteRows(D), UNCHANGED <<status, late>>,
           \A k \in D : att[k].exists /\ up[k].phase # "writing",
           \A k \in Keys : /\ up'[k].owner = up[k].owner
                           /\ up'[k].phase = up[k].phase \/ (up[k].phase = "undoing" /\ up'[k].phase = "failed")
    PROVE  QuotaInv'
<1>1. \A k \in Keys : att'[k] = IF k \in D THEN NoRow ELSE att[k]
  BY RowsDeleted DEF AttachmentsInv
<1>2. \A k \in Keys : att'[k].exists => att[k].exists /\ att'[k] = att[k] /\ k \notin D
  BY <1>1, Blank
<1>3. \A k \in Keys : att[k].exists /\ up[k].phase = "writing" => att'[k].exists
  BY <1>1
<1>4. \A k \in Keys : /\ up[k].phase # "none" => up'[k].phase # "none"
                      /\ InFlight(k)' => InFlight(k)
                      /\ up'[k].phase = "writing" => up[k].phase = "writing"
  BY DEF InFlight
<1>5. OwnerEffects
  BY <1>2, <1>3, <1>4 DEF OwnerEffects
<1>6. SameCharges
  <2>1. queue' = Enqueued(queue, att, D)
    BY DEF DeleteRows
  <2>2. PICK q : q = Enqueued(queue, att, D)
    OBVIOUS
  <2>3. \A k \in Keys, o \in Owners : q[k].exists /\ q[k].owner = o =>
             \/ queue[k].exists /\ queue[k].owner = o
             \/ att[k].exists /\ att[k].owner = o
    BY <2>2, DeletedCharges
  <2> QED
    BY <1>2, <2>1, <2>2, <2>3 DEF SameCharges
<1>7. StatusEffects
  BY DEF StatusEffects
<1> QED
  BY <1>5, <1>6, <1>7, QuotaKept

\* Neither do steps that leave uploads, rows and owners alone and no entry of the queue
\* to another owner.
LEMMA BackgroundKeepsQuota ==
    ASSUME AttachmentsInv, QuotaInv, UNCHANGED <<status, up, att, late>>,
           \A k \in Keys, o \in Owners : queue'[k].exists /\ queue'[k].owner = o => queue[k].exists /\ queue[k].owner = o
    PROVE  QuotaInv'
<1>1. OwnerEffects
  <2>1. \A k \in Keys : InFlight(k)' <=> InFlight(k)
    BY DEF InFlight
  <2>2. \A k \in late : k \in Keys
    BY TypesNow
  <2> QED
    BY <2>1, <2>2 DEF OwnerEffects
<1>2. SameCharges /\ StatusEffects
  BY DEF SameCharges, StatusEffects
<1> QED
  BY <1>1, <1>2, QuotaKept

\* Entries of the queue that change, keep their owner or lose it.
LEMMA EntryKeepsQuota ==
    ASSUME AttachmentsInv, QuotaInv, UNCHANGED <<status, up, att, late>>,
           NEW k \in Keys, NEW new, queue' = [queue EXCEPT ![k] = new],
           new.exists /\ new.owner \in Owners => queue[k].exists /\ queue[k].owner = new.owner
    PROVE  QuotaInv'
<1>1. \A j \in Keys : queue'[j] = IF j = k THEN new ELSE queue[j]
  BY TypesNow
<1>2. \A j \in Keys, o \in Owners : queue'[j].exists /\ queue'[j].owner = o => queue[j].exists /\ queue[j].owner = o
  BY <1>1
<1> QED
  BY <1>2, BackgroundKeepsQuota

\* Uploads: a row is made only within the quota.
LEMMA UploadsKeepQuota ==
    ASSUME AttachmentsInv, QuotaInv, NEW k \in Keys,
           \/ \E o \in Owners : Authorize(k, o)
           \/ UploadStep(k) \/ UploadDies(k) \/ DeletePending(k)
    PROVE  QuotaInv'
<1>0. UNCHANGED status /\ StatusEffects
  <2>1. UNCHANGED status
    BY DEF Authorize, UploadStep, CreateMetadata, WriteFile, WriteFails, UndoMetadata, UploadDies, DeletePending
  <2> QED
    BY <2>1 DEF StatusEffects
<1>1. ASSUME NEW o \in Owners, Authorize(k, o) PROVE QuotaInv'
  <2>1. /\ up[k].phase = "none" /\ UNCHANGED <<att, queue, late>>
        /\ \A j \in Keys : up'[j] = IF j = k THEN [phase |-> "checked", owner |-> o] ELSE up[j]
    BY <1>1, TypesNow DEF Authorize, tables
  <2>2. ~att[k].exists
    BY <2>1 DEF AttachmentsInv, UploadInv, Past
  <2>3. \A j \in Keys : up[j].phase # "none" => up'[j] = up[j]
    BY <2>1
  <2>4. \A j \in Keys : InFlight(j)' => up[j].phase = "none" \/ InFlight(j)
    BY <2>1 DEF InFlight
  <2>5. \A j \in Keys : up'[j].phase = "writing" => up[j].phase = "writing"
    BY <2>1
  <2>6. \A j \in Keys : att'[j] = att[j] /\ (j \in late' => j \in late)
    BY <2>1
  <2>7. OwnerEffects
    BY <1>0, <2>1, <2>3, <2>4, <2>5, <2>6 DEF OwnerEffects
  <2>8. SameCharges
    BY <2>1 DEF SameCharges
  <2> QED
    BY <1>0, <2>7, <2>8, QuotaKept
<1>2. ASSUME NEW phase \in {"undoing", "stored", "failed"}, SetPhase(k, phase), UNCHANGED <<att, queue>>,
             InFlight(k) \/ phase # "undoing", up[k].phase # "none",
             late' = late \/ (up[k].phase = "writing" /\ ~att[k].exists /\ late' = late \cup {k})
      PROVE  QuotaInv'
  <2>1. \A j \in Keys : /\ up'[j].phase = IF j = k THEN phase ELSE up[j].phase
                        /\ up'[j].owner = up[j].owner
    BY <1>2, PhaseSet DEF AttachmentsInv
  <2>2. \A j \in Keys : /\ up[j].phase # "none" => up'[j].phase # "none"
                        /\ InFlight(j)' => InFlight(j)
                        /\ up'[j].phase = "writing" => up[j].phase = "writing"
    BY <1>2, <2>1 DEF InFlight
  <2>3. \A j \in late' : j \in late \/ (j \in Keys /\ up[j].phase = "writing" /\ ~att[j].exists)
    BY <1>2
  <2>4. OwnerEffects
    BY <1>0, <1>2, <2>1, <2>2, <2>3 DEF OwnerEffects
  <2>5. SameCharges
    BY <1>2 DEF SameCharges
  <2> QED
    BY <1>0, <2>4, <2>5, QuotaKept
<1>3. CASE CreateMetadata(k)
  <2>1. PICK o : o = up[k].owner
    OBVIOUS
  <2>2. up[k].phase = "checked" /\ o \in Owners /\ UNCHANGED <<queue, late>> /\ ~att[k].exists /\ ~queue[k].exists
    BY <1>3, <2>1 DEF CreateMetadata, AttachmentsInv, UploadInv, DeletionInv, Gone, Past
  <2>3. CASE SetPhase(k, "failed") /\ UNCHANGED att
    BY <1>2, <2>2, <2>3
  <2>4. CASE FitsQuota(k, o) /\ att' = [att EXCEPT ![k] = insert_chat_attachment(o)] /\ SetPhase(k, "writing")
    <3>1. PICK new : new = insert_chat_attachment(o)
      OBVIOUS
    <3>2. new.exists /\ new.owner = o /\ ~new.old
      BY <3>1 DEF insert_chat_attachment, NoRow
    <3>3. \A j \in Keys : att'[j] = IF j = k THEN new ELSE att[j]
      BY <2>4, <3>1, TypesNow
    <3>4. \A j \in Keys : /\ up'[j].phase = IF j = k THEN "writing" ELSE up[j].phase
                          /\ up'[j].owner = up[j].owner
      BY <2>4, PhaseSet DEF AttachmentsInv
    <3>5. \A j \in Keys : /\ up[j].phase # "none" => up'[j].phase # "none"
                          /\ InFlight(j)' => InFlight(j)
                          /\ up'[j].phase = "writing" => j = k \/ up[j].phase = "writing"
      BY <2>2, <3>4 DEF InFlight
    <3>6. OwnerEffects
      BY <1>0, <2>1, <2>2, <3>2, <3>3, <3>4, <3>5 DEF OwnerEffects
    <3>7. PICK S \in SUBSET Keys, R \in SUBSET Keys, Q \in SUBSET Keys :
             /\ S = ChargedBy(att, queue, o) /\ S = R \cup Q
             /\ Usage(o) = SumSize(R) + SumSize(Q)
      <4> DEFINE R == {j \in Keys : att[j].exists /\ att[j].owner = o}
                 Q == {j \in Keys : queue[j].exists /\ queue[j].owner = o}
                 S == ChargedBy(att, queue, o)
      <4>0. S \in SUBSET Keys
        BY DEF ChargedBy
      <4>1. S = R \cup Q /\ R \in SUBSET Keys /\ Q \in SUBSET Keys
        <5>1. \A j \in Keys : j \in S <=> j \in R \/ j \in Q
          BY ChargedTo
        <5> HIDE DEF S
        <5> QED
          BY <4>0, <5>1
      <4>2. Usage(o) = SumSize(R) + SumSize(Q)
        BY DEF Usage
      <4> HIDE DEF R, Q
      <4> QED
        BY <4>0, <4>1, <4>2
    <3>8. ChargedBy(att', queue', o) = S \cup {k}
      <4>1. \A j \in Keys : att'[j].exists /\ att'[j].owner = o <=> j = k \/ (att[j].exists /\ att[j].owner = o)
        BY <3>2, <3>3
      <4> QED
        <5>1. \A j \in Keys : j \in ChargedBy(att', queue', o) <=> j \in S \/ j = k
          <6> SUFFICES ASSUME NEW j \in Keys
                       PROVE  j \in ChargedBy(att', queue', o) <=> j \in S \/ j = k
            OBVIOUS
          <6>1. j \in ChargedBy(att', queue', o) <=>
                  (att'[j].exists /\ att'[j].owner = o) \/ (queue'[j].exists /\ queue'[j].owner = o)
            BY ChargedTo
          <6>2. j \in ChargedBy(att, queue, o) <=>
                  (att[j].exists /\ att[j].owner = o) \/ (queue[j].exists /\ queue[j].owner = o)
            BY ChargedTo
          <6> QED
            BY <2>2, <3>7, <4>1, <6>1, <6>2
        <5>2. ChargedBy(att', queue', o) \subseteq Keys
          BY DEF ChargedBy
        <5> QED
          BY <5>1, <5>2
    <3>9. k \notin S
      BY <2>2, <3>7 DEF ChargedBy
    <3>10. SumSize(S \cup {k}) <= MaxStorage
      <4>1. SumSize(S \cup {k}) = SumSize(S) + Size[k] /\ SumSize(S) <= SumSize(R) + SumSize(Q)
        BY <3>7, <3>9, SizeOfMore, SizeOfBoth
      <4>2. SumSize(R) + SumSize(Q) + Size[k] <= MaxStorage
        BY <2>4, <3>7 DEF FitsQuota
      <4>3. PICK s \in Nat, x \in Nat, y \in Nat, z \in Nat, max \in Nat :
               s = SumSize(S) /\ x = SumSize(R) /\ y = SumSize(Q) /\ z = Size[k] /\ max = MaxStorage
        BY SizesAre
      <4>4. s <= x + y /\ x + y + z <= max => s + z <= max
        OBVIOUS
      <4> QED
        BY <4>1, <4>2, <4>3, <4>4
    <3>11. ASSUME NEW p \in Owners, p # o
           PROVE  ChargedBy(att', queue', p) \subseteq ChargedBy(att, queue, p)
      <4>1. \A j \in Keys : att'[j].exists /\ att'[j].owner = p => att[j].exists /\ att[j].owner = p
        BY <3>2, <3>3, <3>11
      <4> QED
        BY <2>2, <4>1 DEF ChargedBy
    <3>12. \A p \in Owners : \/ ChargedBy(att', queue', p) \subseteq ChargedBy(att, queue, p)
                             \/ SumSize(ChargedBy(att', queue', p)) <= MaxStorage
      BY <3>8, <3>10, <3>11
    <3>13. ChargesOK(att, queue, status) /\ status' = status
      BY <1>0 DEF QuotaInv
    <3>14. ChargesOK(att', queue', status)
      BY <3>12, <3>13, ChargesKept
    <3> QED
      BY <3>6, <3>13, <3>14, OwnersKept DEF QuotaInv
  <2> QED
    BY <1>3, <2>1, <2>3, <2>4 DEF CreateMetadata
<1>4. ASSUME NEW content, NEW phase \in {"undoing", "stored", "failed"}, SetPhase(k, phase), Written(k, content),
             up[k].phase = "writing", UNCHANGED tables
      PROVE  QuotaInv'
  <2>1. late' = late \/ (~att[k].exists /\ late' = late \cup {k})
    BY <1>4 DEF Written
  <2> QED
    BY <1>2, <1>4, <2>1 DEF tables, InFlight
<1>5. CASE WriteFile(k)
  BY <1>4, <1>5 DEF WriteFile
<1>6. CASE WriteFails(k)
  BY <1>4, <1>6 DEF WriteFails
<1>7. CASE UndoMetadata(k)
  <2>1. \A j \in Keys : /\ up'[j].phase = IF j = k THEN "failed" ELSE up[j].phase
                        /\ up'[j].owner = up[j].owner
    BY <1>7, PhaseSet DEF UndoMetadata, AttachmentsInv
  <2>2. PICK D : D = IF Pending(k) /\ att[k].owner = up[k].owner THEN {k} ELSE {}
    OBVIOUS
  <2>3. DeleteRows(D) /\ up[k].phase = "undoing" /\ UNCHANGED <<status, late>>
    BY <1>7, <2>2 DEF UndoMetadata
  <2>4. D \in SUBSET Keys /\ \A j \in D : att[j].exists /\ up[j].phase # "writing"
    BY <2>2, <2>3 DEF Pending
  <2>5. \A j \in Keys : /\ up'[j].owner = up[j].owner
                        /\ up'[j].phase = up[j].phase \/ (up[j].phase = "undoing" /\ up'[j].phase = "failed")
    BY <2>1, <2>3
  <2> QED
    BY <2>3, <2>4, <2>5, DeletionKeepsQuota
<1>8. CASE UploadDies(k)
  <2>1. CASE up[k].phase = "writing"
    BY <1>4, <1>8, <2>1 DEF UploadDies
  <2>2. CASE up[k].phase # "writing"
    BY <1>2, <1>8, <2>2 DEF UploadDies, tables, InFlight
  <2> QED
    BY <2>1, <2>2
<1>9. CASE DeletePending(k)
  <2>1. PICK D : D = {k}
    OBVIOUS
  <2>2. DeleteRows(D) /\ D \in SUBSET Keys /\ UNCHANGED <<status, late, up>>
    BY <1>9, <2>1 DEF DeletePending
  <2>3. \A j \in D : att[j].exists /\ up[j].phase # "writing"
    BY <1>9, <2>1 DEF DeletePending, Pending
  <2>4. \A j \in Keys : /\ up'[j].owner = up[j].owner
                        /\ up'[j].phase = up[j].phase \/ (up[j].phase = "undoing" /\ up'[j].phase = "failed")
    BY <2>2
  <2> QED
    BY <2>2, <2>3, <2>4, DeletionKeepsQuota
<1> QED
  BY <1>1, <1>3, <1>5, <1>6, <1>7, <1>8, <1>9 DEF UploadStep

\* A row grows old after its upload; leases and retries change no owner.
LEMMA TimeKeepsQuota ==
    ASSUME AttachmentsInv, QuotaInv, NEW k \in Keys, TimePasses(k)
    PROVE  QuotaInv'
<1>1. CASE RowAges(k)
  <2>1. att[k].exists /\ ~InFlight(k) /\ UNCHANGED <<status, up, queue, late>>
    BY <1>1 DEF RowAges
  <2>2. PICK new : new = [att[k] EXCEPT !.old = TRUE]
    OBVIOUS
  <2>3. new.exists /\ new.owner = att[k].owner
    BY <2>1, <2>2, TypesNow DEF RowRecord
  <2>4. \A j \in Keys : att'[j] = IF j = k THEN new ELSE att[j]
    BY <1>1, <2>2, TypesNow DEF RowAges
  <2>5. \A j \in Keys : InFlight(j)' <=> InFlight(j)
    BY <2>1 DEF InFlight
  <2>6. \A j \in Keys : att'[j].exists => att[j].exists /\ att'[j].owner = att[j].owner
    BY <2>1, <2>3, <2>4
  <2>7. \A j \in Keys : /\ att'[j].exists /\ att'[j].old => ~InFlight(j)' \/ (att[j].exists /\ att[j].old)
                        /\ att[j].exists => att'[j].exists
    BY <2>1, <2>3, <2>4, <2>5
  <2>8. OwnerEffects
    BY <2>1, <2>5, <2>6, <2>7 DEF OwnerEffects
  <2>9. SameCharges /\ StatusEffects
    BY <2>1, <2>6 DEF SameCharges, StatusEffects
  <2> QED
    BY <2>8, <2>9, QuotaKept
<1>2. CASE FileAges(k)
  BY <1>2, BackgroundKeepsQuota DEF FileAges, tables
<1>3. CASE LeaseExpires(k)
  <2>1. PICK new : new = [queue[k] EXCEPT !.leased = FALSE]
    OBVIOUS
  <2>2. new.exists = queue[k].exists /\ new.owner = queue[k].owner
    BY <2>1, TypesNow DEF EntryRecord
  <2>3. queue' = [queue EXCEPT ![k] = new] /\ UNCHANGED <<status, up, att, late>>
    BY <1>3, <2>1 DEF LeaseExpires
  <2> QED
    BY <2>2, <2>3, EntryKeepsQuota
<1>4. CASE RetryDue(k)
  <2>1. PICK new : new = [queue[k] EXCEPT !.due = TRUE]
    OBVIOUS
  <2>2. new.exists = queue[k].exists /\ new.owner = queue[k].owner
    BY <2>1, TypesNow DEF EntryRecord
  <2>3. queue' = [queue EXCEPT ![k] = new] /\ UNCHANGED <<status, up, att, late>>
    BY <1>4, <2>1 DEF RetryDue
  <2> QED
    BY <2>2, <2>3, EntryKeepsQuota
<1> QED
  BY <1>1, <1>2, <1>3, <1>4 DEF TimePasses

\* Sends: a stored message links rows to itself; clearing deletes rows of whole files.
LEMMA SendsKeepQuota ==
    ASSUME AttachmentsInv, QuotaInv, NEW m \in Messages,
           \/ \E o \in Owners, K \in SUBSET Keys \ {{}} : PrepareSend(m, o, K)
           \/ AppendMessage(m) \/ SendFails(m) \/ ClearChat(m)
    PROVE  QuotaInv'
<1>1. CASE (\E o \in Owners, K \in SUBSET Keys \ {{}} : PrepareSend(m, o, K)) \/ SendFails(m)
  <2>1. UNCHANGED <<status, up, att, queue, late>>
    BY <1>1 DEF PrepareSend, SendFails, tables
  <2> QED
    BY <2>1, BackgroundKeepsQuota
<1>2. CASE AppendMessage(m)
  <2>1. PICK K : K = msg[m].keys
    OBVIOUS
  <2>2. /\ UNCHANGED <<status, up, queue, late>>
        /\ att' = [k \in Keys |-> IF k \in K /\ Pending(k) THEN [att[k] EXCEPT !.msg = m] ELSE att[k]]
    BY <1>2, <2>1 DEF AppendMessage
  <2>3. ASSUME NEW k \in Keys
        PROVE  att'[k].exists = att[k].exists /\ att'[k].owner = att[k].owner /\ att'[k].old = att[k].old
    <3>1. att'[k] = [att[k] EXCEPT !.msg = m] \/ att'[k] = att[k]
      BY <2>2
    <3> QED
      BY <3>1, TypesNow DEF RowRecord
  <2>4. \A k \in Keys : InFlight(k)' <=> InFlight(k)
    BY <2>2 DEF InFlight
  <2>5. OwnerEffects
    BY <2>2, <2>3, <2>4 DEF OwnerEffects
  <2>6. SameCharges /\ StatusEffects
    BY <2>2, <2>3 DEF SameCharges, StatusEffects
  <2> QED
    BY <2>5, <2>6, QuotaKept
<1>3. CASE ClearChat(m)
  <2>1. PICK D \in SUBSET Keys : D = attachments_for_message(m)
    BY DEF attachments_for_message
  <2>2. DeleteRows(D) /\ UNCHANGED <<status, up, late>> /\ Stored(m)
    BY <1>3, <2>1 DEF ClearChat
  <2>3. \A k \in D : att[k].exists /\ att[k].msg = m
    BY <2>1 DEF attachments_for_message
  <2>4. \A k \in D : k \in msg[m].keys
    BY <2>3 DEF AttachmentsInv, MessageInv
  <2>5. \A k \in D : att[k].exists /\ up[k].phase # "writing"
    BY <2>2, <2>3, <2>4 DEF AttachmentsInv, MessageInv, Stored
  <2>6. \A k \in Keys : /\ up'[k].owner = up[k].owner
                        /\ up'[k].phase = up[k].phase \/ (up[k].phase = "undoing" /\ up'[k].phase = "failed")
    BY <2>2
  <2> QED
    BY <2>2, <2>5, <2>6, DeletionKeepsQuota
<1> QED
  BY <1>1, <1>2, <1>3

\* The rows of an owner go with the owner: uploads of his are abandoned.
LEMMA OwnerGone ==
    ASSUME AttachmentsInv, QuotaInv, NEW o \in Owners, status' = [status EXCEPT ![o] = "deleted"],
           att' = Without(att, RowsOf(o)), UNCHANGED <<up, late>>
    PROVE  /\ OwnerEffects /\ StatusEffects
           /\ \A k \in Keys : att'[k].exists => att[k].exists /\ att'[k].owner = att[k].owner
<1>1. \A p \in Owners : status'[p] = IF p = o THEN "deleted" ELSE status[p]
  BY DEF AttachmentsInv, Types, OwnerTypes
<1>2. \A k \in Keys : att'[k] = IF att[k].exists /\ att[k].owner = o THEN NoRow ELSE att[k]
  BY DEF Without, RowsOf
<1>3. \A k \in Keys : att'[k].exists => att[k].exists /\ att'[k] = att[k]
  BY <1>2, Blank
<1>4. \A k \in Keys : InFlight(k)' <=> InFlight(k)
  BY DEF InFlight
<1>5. StatusEffects
  <2>1. \A g \in Guests : g \in Owners
    BY DEF Owners
  <2> QED
    BY <1>1, <2>1 DEF StatusEffects
<1>6. ASSUME NEW k \in Keys, up[k].phase = "writing", att[k].exists
      PROVE  att'[k].exists \/ Abandoned(k)'
  <2>1. CASE att[k].owner # o
    BY <1>2, <1>6, <2>1
  <2>2. CASE att[k].owner = o
    <3>1. up[k].owner \in Owners
      BY <1>6 DEF AttachmentsInv, UploadInv
    <3>2. up[k].owner = o \/ Abandoned(k)
      BY <1>6, <2>2 DEF QuotaInv, OwnerInv
    <3>3. status'[up[k].owner] # "live"
      BY <1>1, <3>1, <3>2 DEF Abandoned
    <3> QED
      BY <1>6, <3>3 DEF Abandoned
  <2> QED
    BY <2>1, <2>2
<1>7. OwnerEffects
  BY <1>3, <1>4, <1>5, <1>6 DEF OwnerEffects, StatusEffects
<1> QED
  BY <1>3, <1>5, <1>7

\* What an account takes over from a guest it is charged for, within one more quota.
LEMMA PromotionKeepsQuota ==
    ASSUME AttachmentsInv, QuotaInv, NEW g \in Guests, NEW a \in Accounts, Promote(g, a)
    PROVE  QuotaInv'
<1>1. /\ status[g] = "live" /\ status[a] = "live" /\ g \in Owners /\ a \in Owners /\ g # a
      /\ UNCHANGED <<up, late>>
      /\ \A p \in Owners : status'[p] = IF p = g THEN "promoted" ELSE status[p]
  BY AttachmentsAssumption DEF Promote, Owners, AttachmentsInv, Types, OwnerTypes, AttachmentsAssumption
<1>2. ASSUME NEW k \in Keys
      PROVE  /\ att'[k].exists = att[k].exists /\ att'[k].owner = Given(att[k].owner, g, a) /\ att'[k].old = att[k].old
             /\ queue'[k].exists = queue[k].exists /\ queue'[k].owner = Given(queue[k].owner, g, a)
  <2>1. PICK x, y : x = Given(att[k].owner, g, a) /\ y = Given(queue[k].owner, g, a)
    OBVIOUS
  <2>2. att'[k] = [att[k] EXCEPT !.owner = x] /\ queue'[k] = [queue[k] EXCEPT !.owner = y]
    BY <2>1 DEF Promote
  <2> QED
    BY <2>1, <2>2, TypesNow DEF RowRecord, EntryRecord
<1>3. ASSUME NEW k \in Keys, att'[k].exists
      PROVE  Abandoned(k)' \/ (att[k].exists /\ att'[k].owner = att[k].owner)
  <2>1. CASE att[k].owner # g
    BY <1>2, <1>3, <2>1 DEF Given
  <2>2. CASE att[k].owner = g
    <3>1. up[k].phase # "none" /\ up[k].owner \in Owners
      BY <1>2, <1>3 DEF AttachmentsInv, UploadInv, Past
    <3>2. up[k].owner = g \/ Abandoned(k)
      BY <1>2, <1>3, <2>2 DEF QuotaInv, OwnerInv
    <3>3. status'[up[k].owner] # "live"
      BY <1>1, <3>1, <3>2 DEF Abandoned
    <3> QED
      BY <1>1, <3>1, <3>3 DEF Abandoned
  <2> QED
    BY <2>1, <2>2
<1>4. \A k \in Keys : InFlight(k)' <=> InFlight(k)
  BY <1>1 DEF InFlight
<1>5. OwnerEffects
  BY <1>1, <1>2, <1>3, <1>4 DEF OwnerEffects
<1>6. PICK A \in SUBSET Keys, G \in SUBSET Keys : A = ChargedBy(att, queue, a) /\ G = ChargedBy(att, queue, g)
  BY DEF ChargedBy
<1>7. ChargedBy(att', queue', a) \subseteq A \cup G
  <2> SUFFICES ASSUME NEW k \in ChargedBy(att', queue', a) PROVE k \in A \cup G
    OBVIOUS
  <2>1. k \in Keys
    BY DEF ChargedBy
  <2>2. (att'[k].exists /\ att'[k].owner = a) \/ (queue'[k].exists /\ queue'[k].owner = a)
    BY <2>1, ChargedTo
  <2>3. \/ att[k].exists /\ (att[k].owner = a \/ att[k].owner = g)
        \/ queue[k].exists /\ (queue[k].owner = a \/ queue[k].owner = g)
    BY <1>2, <2>1, <2>2 DEF Given
  <2>4. k \in ChargedBy(att, queue, a) \/ k \in ChargedBy(att, queue, g)
    BY <2>1, <2>3, ChargedTo
  <2> QED
    BY <1>6, <2>4
<1>8. ASSUME NEW o \in Owners, o # a PROVE ChargedBy(att', queue', o) \subseteq ChargedBy(att, queue, o)
  <2> SUFFICES ASSUME NEW k \in ChargedBy(att', queue', o) PROVE k \in ChargedBy(att, queue, o)
    OBVIOUS
  <2>1. k \in Keys
    BY DEF ChargedBy
  <2>2. (att'[k].exists /\ att'[k].owner = o) \/ (queue'[k].exists /\ queue'[k].owner = o)
    BY <2>1, ChargedTo
  <2>3. (att[k].exists /\ att[k].owner = o) \/ (queue[k].exists /\ queue[k].owner = o)
    BY <1>2, <1>8, <2>1, <2>2 DEF Given
  <2> QED
    BY <2>1, <2>3, ChargedTo
<1>9. Former(status') = Former(status) \cup {g} /\ g \notin Former(status)
  <2>1. \A h \in Guests : h \in Owners
    BY DEF Owners
  <2>2. \A h \in Guests : status'[h] \in {"promoted", "deleted"} <=> h = g \/ status[h] \in {"promoted", "deleted"}
    BY <1>1, <2>1
  <2> QED
    BY <1>1, <2>2 DEF Former
<1>10. PICK n \in Nat : n = Cardinality(Former(status)) /\ n + 1 = Cardinality(Former(status'))
  <2>1. PICK F : F = Former(status) /\ IsFiniteSet(F)
    BY SizesAre, FS_Subset DEF Former
  <2>2. Cardinality(F \cup {g}) = Cardinality(F) + 1 /\ Cardinality(F) \in Nat
    BY <1>9, <2>1, FS_AddElement, FS_CardinalityType
  <2> QED
    BY <1>9, <2>1, <2>2
<1>11. ChargesOK(att, queue, status)
  BY DEF QuotaInv
<1>12. SumSize(ChargedBy(att', queue', a)) <= MaxStorage * (1 + (n + 1))
  <2>1. PICK U \in SUBSET Keys : U = A \cup G
    OBVIOUS
  <2>2. PICK S \in SUBSET U : S = ChargedBy(att', queue', a)
    BY <1>7, <2>1
  <2>3. SumSize(S) <= SumSize(U) /\ SumSize(U) <= SumSize(A) + SumSize(G)
    BY <2>1, SizeOfPart, SizeOfBoth
  <2>4. SumSize(A) <= MaxStorage * (1 + n) /\ SumSize(G) <= MaxStorage
    BY <1>1, <1>6, <1>10, <1>11 DEF ChargesOK
  <2>5. MaxStorage * (1 + n) \in Nat /\ MaxStorage * (1 + (n + 1)) = MaxStorage * (1 + n) + MaxStorage
    BY BoundGrows
  <2>6. PICK s \in Nat, u \in Nat, x \in Nat, y \in Nat, b \in Nat, max \in Nat :
           /\ s = SumSize(S) /\ u = SumSize(U) /\ x = SumSize(A) /\ y = SumSize(G)
           /\ b = MaxStorage * (1 + n) /\ max = MaxStorage
    <3>1. S \in SUBSET Keys
      OBVIOUS
    <3> QED
      BY <2>5, <3>1, SizesAre
  <2>7. s <= u /\ u <= x + y /\ x <= b /\ y <= max => s <= b + max
    OBVIOUS
  <2>8. SumSize(S) <= b + max
    BY <2>3, <2>4, <2>6, <2>7
  <2> QED
    BY <2>2, <2>5, <2>6, <2>8
<1>13. ChargesOK(att', queue', status')
  <2>1. ASSUME NEW h \in Guests PROVE SumSize(ChargedBy(att', queue', h)) <= MaxStorage
    <3>1. h \in Owners /\ h # a
      BY AttachmentsAssumption DEF AttachmentsAssumption, Owners
    <3>0. PICK U \in SUBSET Keys : U = ChargedBy(att, queue, h)
      BY DEF ChargedBy
    <3>2. PICK S \in SUBSET U : S = ChargedBy(att', queue', h)
      BY <1>8, <3>1, <3>0
    <3>3. SumSize(S) <= SumSize(U)
      BY SizeOfPart
    <3>4. SumSize(U) <= MaxStorage
      BY <1>11, <3>0 DEF ChargesOK
    <3>5. S \in SUBSET Keys
      OBVIOUS
    <3>6. SumSize(S) \in Nat /\ SumSize(U) \in Nat /\ MaxStorage \in Nat
      BY <3>5, SizesAre
    <3>7. SumSize(S) <= MaxStorage
      BY <3>3, <3>4, <3>6
    <3> QED
      BY <3>2, <3>7
  <2>2. ASSUME NEW b \in Accounts, status'[b] = "live", b # a
        PROVE  SumSize(ChargedBy(att', queue', b)) <= MaxStorage * (1 + (n + 1))
    <3>1. b \in Owners /\ status[b] = "live"
      BY <1>1, <2>2 DEF Owners
    <3>0. PICK U \in SUBSET Keys : U = ChargedBy(att, queue, b)
      BY DEF ChargedBy
    <3>2. PICK S \in SUBSET U : S = ChargedBy(att', queue', b)
      BY <1>8, <2>2, <3>1, <3>0
    <3>3. SumSize(S) <= SumSize(U)
      BY SizeOfPart
    <3>4. SumSize(U) <= MaxStorage * (1 + n)
      BY <1>10, <1>11, <3>0, <3>1 DEF ChargesOK
    <3>5. S \in SUBSET Keys
      OBVIOUS
    <3>6. PICK s \in Nat, u \in Nat, low \in Nat, high \in Nat :
             /\ s = SumSize(S) /\ u = SumSize(U) /\ low = MaxStorage * (1 + n)
             /\ high = MaxStorage * (1 + (n + 1)) /\ low <= high
      <4>1. n + 1 \in Nat /\ n <= n + 1
        OBVIOUS
      <4>2. /\ MaxStorage * (1 + n) \in Nat /\ MaxStorage * (1 + (n + 1)) \in Nat
            /\ MaxStorage * (1 + n) <= MaxStorage * (1 + (n + 1))
        <5>1. PICK l \in Nat : l = n + 1
          OBVIOUS
        <5>2. n <= l
          BY <5>1
        <5>3. /\ MaxStorage * (1 + n) \in Nat /\ MaxStorage * (1 + l) \in Nat
              /\ MaxStorage * (1 + n) <= MaxStorage * (1 + l)
          BY <5>2, BoundGrows
        <5> QED
          BY <5>1, <5>3
      <4> QED
        BY <3>5, <4>2, SizesAre
    <3>7. s <= high
      BY <3>3, <3>4, <3>6
    <3> QED
      BY <3>2, <3>6, <3>7
  <2> QED
    BY <1>10, <1>12, <2>1, <2>2 DEF ChargesOK
<1> QED
  BY <1>5, <1>13, OwnersKept DEF QuotaInv

\* Guests that expire or are cleaned up, and accounts that are deleted.
LEMMA OwnersLeave ==
    ASSUME AttachmentsInv, QuotaInv,
           \/ \E g \in Guests : GuestExpires(g) \/ CleanupGuest(g)
           \/ \E a \in Accounts : DeleteAccount(a)
    PROVE  QuotaInv'
<1>1. ASSUME NEW g \in Guests, GuestExpires(g) PROVE QuotaInv'
  <2>1. /\ status[g] = "live" /\ g \in Owners /\ UNCHANGED <<up, att, queue, late>>
        /\ \A p \in Owners : status'[p] = IF p = g THEN "expired" ELSE status[p]
    BY <1>1 DEF GuestExpires, tables, Owners, AttachmentsInv, Types, OwnerTypes
  <2>2. StatusEffects
    <3>1. \A h \in Guests : h \in Owners
      BY DEF Owners
    <3> QED
      BY <2>1, <3>1 DEF StatusEffects
  <2>3. \A k \in Keys : InFlight(k)' <=> InFlight(k)
    BY <2>1 DEF InFlight
  <2>4. OwnerEffects
    <3>1. \A k \in late : k \in Keys
      BY TypesNow
    <3> QED
      BY <2>1, <2>2, <2>3, <3>1 DEF OwnerEffects, StatusEffects
  <2>5. SameCharges
    BY <2>1 DEF SameCharges
  <2> QED
    BY <2>2, <2>4, <2>5, QuotaKept
<1>2. ASSUME NEW o \in Owners, NEW q, q = Enqueued(queue, att, RowsOf(o))
      PROVE  \A k \in Keys, p \in Owners : q[k].exists /\ q[k].owner = p =>
                 \/ queue[k].exists /\ queue[k].owner = p
                 \/ att[k].exists /\ att[k].owner = p
  <2>1. PICK D \in SUBSET Keys : D = RowsOf(o)
    BY DEF RowsOf
  <2>2. q = Enqueued(queue, att, D) /\ \A k \in D : att[k].exists
    BY <1>2, <2>1 DEF RowsOf
  <2> QED
    BY <2>2, DeletedCharges
<1>3. ASSUME NEW g \in Guests, CleanupGuest(g) PROVE QuotaInv'
  <2>1. PICK q : q = Enqueued(queue, att, RowsOf(g))
    OBVIOUS
  <2>2. /\ status' = [status EXCEPT ![g] = "deleted"] /\ att' = Without(att, RowsOf(g)) /\ queue' = q
        /\ UNCHANGED <<up, late>>
    BY <1>3, <2>1 DEF CleanupGuest, DeleteRows
  <2>3. g \in Owners
    BY DEF Owners
  <2>4. /\ OwnerEffects /\ StatusEffects
        /\ \A k \in Keys : att'[k].exists => att[k].exists /\ att'[k].owner = att[k].owner
    BY <2>2, <2>3, OwnerGone
  <2>5. SameCharges
    BY <1>2, <2>1, <2>2, <2>3, <2>4 DEF SameCharges
  <2> QED
    BY <2>4, <2>5, QuotaKept
<1>4. ASSUME NEW a \in Accounts, DeleteAccount(a) PROVE QuotaInv'
  <2>1. PICK q : q = Enqueued(queue, att, RowsOf(a))
    OBVIOUS
  <2>2. /\ status' = [status EXCEPT ![a] = "deleted"] /\ att' = Without(att, RowsOf(a)) /\ queue' = Released(q, a)
        /\ UNCHANGED <<up, late>>
    BY <1>4, <2>1 DEF DeleteAccount
  <2>3. a \in Owners /\ None \notin Owners
    BY AttachmentsAssumption DEF Owners, AttachmentsAssumption
  <2>4. /\ OwnerEffects /\ StatusEffects
        /\ \A k \in Keys : att'[k].exists => att[k].exists /\ att'[k].owner = att[k].owner
    BY <2>2, <2>3, OwnerGone
  <2>5. \A k \in Keys : queue'[k] = q[k] \/ queue'[k].owner = None
    <3>1. PICK e : e = [NoEntry EXCEPT !.exists = TRUE, !.due = TRUE]
      OBVIOUS
    <3>2. e.owner = None
      BY <3>1 DEF NoEntry
    <3>3. \A k \in Keys : queue'[k] = q[k] \/ queue'[k] = e
      BY <2>2, <3>1 DEF Released
    <3> QED
      BY <3>2, <3>3
  <2>6. SameCharges
    BY <1>2, <2>1, <2>3, <2>4, <2>5 DEF SameCharges
  <2> QED
    BY <2>4, <2>6, QuotaKept
<1> QED
  BY <1>1, <1>3, <1>4

\* Claiming entries leaves them to their owners.
LEMMA ClaimsKeepQuota ==
    ASSUME AttachmentsInv, QuotaInv, UNCHANGED <<status, up, att, late>>, NEW w, NEW E, Claim(w, E)
    PROVE  QuotaInv'
<1>1. ASSUME NEW k \in Keys PROVE queue'[k].exists = queue[k].exists /\ queue'[k].owner = queue[k].owner
  <2>1. queue'[k] = [queue[k] EXCEPT !.claim = w, !.leased = TRUE] \/ queue'[k] = queue[k]
    BY DEF Claim
  <2> QED
    BY <2>1, TypesNow DEF EntryRecord
<1> QED
  BY <1>1, BackgroundKeepsQuota

\* The deletion request of an account.
LEMMA RequestsKeepQuota ==
    ASSUME AttachmentsInv, QuotaInv, NEW a \in Accounts,
           RequestStep(a) \/ RequestQueryFails(a) \/ RequestDies(a)
    PROVE  QuotaInv'
<1>1. CASE ClaimForKeys(a)
  <2>1. PICK E : E = {k \in req[a].keys : Eligible(k)}
    OBVIOUS
  <2>2. Claim(a, E) /\ UNCHANGED <<status, up, att, late>>
    BY <1>1, <2>1 DEF ClaimForKeys
  <2> QED
    BY <2>2, ClaimsKeepQuota
<1>2. CASE Report(a) \/ RequestQueryFails(a) \/ RequestDies(a)
  <2>1. UNCHANGED <<status, up, att, queue, late>>
    BY <1>2 DEF Report, RequestQueryFails, RequestDies, tables
  <2> QED
    BY <2>1, BackgroundKeepsQuota
<1> QED
  BY <1>1, <1>2 DEF RequestStep

\* The workers: an entry is completed or put off.
LEMMA WorkersKeepQuota ==
    ASSUME AttachmentsInv, QuotaInv, NEW w \in Workers, WorkerStep(w)
    PROVE  QuotaInv'
<1>1. CASE FinishFails(w) \/ \E k \in Keys : RemoveFile(w, k) \/ RemoveFails(w, k)
  <2>1. UNCHANGED <<status, up, att, queue, late>>
    BY <1>1 DEF FinishFails, RemoveFile, RemoveFails, tables
  <2> QED
    BY <2>1, BackgroundKeepsQuota
<1>2. CASE FinishFile(w)
  <2>1. PICK k : k = job[w].at
    OBVIOUS
  <2>2. PICK new : new = AfterFile(queue[k], job[w].gone)
    OBVIOUS
  <2>3. /\ k # None /\ UNCHANGED <<status, up, att, late>>
        /\ queue' = IF ClaimHeld(w, k) THEN [queue EXCEPT ![k] = new] ELSE queue
    BY <1>2, <2>1, <2>2 DEF FinishFile
  <2>4. k \in Keys
    BY <2>1, <2>3, TypesNow DEF JobRecord
  <2>5. CASE ClaimHeld(w, k)
    <3>1. new.exists => queue[k].exists /\ queue[k].owner = new.owner
      <4>1. CASE job[w].gone
        BY <2>2, <4>1, Blank DEF AfterFile
      <4>2. CASE ~job[w].gone
        <5>1. new = [queue[k] EXCEPT !.claim = None, !.leased = FALSE, !.due = FALSE]
          BY <2>2, <4>2 DEF AfterFile
        <5> QED
          BY <2>4, <2>5, <5>1, TypesNow DEF EntryRecord, ClaimHeld
      <4> QED
        BY <4>1, <4>2
    <3>2. queue' = [queue EXCEPT ![k] = new]
      BY <2>3, <2>5
    <3> QED
      BY <2>3, <2>4, <3>1, <3>2, EntryKeepsQuota
  <2>6. CASE ~ClaimHeld(w, k)
    BY <2>3, <2>6, BackgroundKeepsQuota
  <2> QED
    BY <2>5, <2>6
<1> QED
  BY <1>1, <1>2 DEF WorkerStep

\* The maintenance loop: stale rows are deleted after their uploads, and what the scan
\* finds is charged to nobody.
LEMMA MaintenanceKeepsQuota ==
    ASSUME AttachmentsInv, QuotaInv, NEW r \in Replicas,
           \/ MaintenanceStep(r) \/ LoopQueryFails(r) \/ ReplicaRestarts(r)
           \/ \E k \in Keys : ScanEntry(r, k)
    PROVE  QuotaInv'
<1>1. CASE CleanupStale(r)
  <2>1. PICK D \in SUBSET Keys : D = StalePending
    BY DEF StalePending
  <2>2. DeleteRows(D) /\ UNCHANGED <<status, up, late>>
    BY <1>1, <2>1 DEF CleanupStale
  <2>3. \A k \in D : att[k].exists /\ up[k].phase # "writing"
    BY <2>1 DEF StalePending, Pending, QuotaInv, OwnerInv, InFlight
  <2>4. \A k \in Keys : /\ up'[k].owner = up[k].owner
                        /\ up'[k].phase = up[k].phase \/ (up[k].phase = "undoing" /\ up'[k].phase = "failed")
    BY <2>2
  <2> QED
    BY <2>2, <2>3, <2>4, DeletionKeepsQuota
<1>2. CASE EnqueueReconciled(r)
  <2>1. PICK k : k = look[r]
    OBVIOUS
  <2>2. PICK new : new = [NoEntry EXCEPT !.exists = TRUE, !.due = TRUE]
    OBVIOUS
  <2>3. /\ k # None /\ UNCHANGED <<status, up, att, late>>
        /\ queue' = IF Orphan(k) THEN [queue EXCEPT ![k] = new] ELSE queue
    BY <1>2, <2>1, <2>2 DEF EnqueueReconciled
  <2>4. k \in Keys
    BY <2>1, <2>3, TypesNow
  <2>5. new.owner \notin Owners
    BY <2>2, AttachmentsAssumption DEF NoEntry, AttachmentsAssumption
  <2>6. CASE Orphan(k)
    <3>1. queue' = [queue EXCEPT ![k] = new]
      BY <2>3, <2>6
    <3> QED
      BY <2>3, <2>4, <2>5, <3>1, EntryKeepsQuota
  <2>7. CASE ~Orphan(k)
    BY <2>3, <2>7, BackgroundKeepsQuota
  <2> QED
    BY <2>6, <2>7
<1>3. CASE ClaimBatch(r)
  <2>1. PICK E : E = {k \in Keys : Eligible(k)}
    OBVIOUS
  <2>2. Claim(r, E) /\ UNCHANGED <<status, up, att, late>>
    BY <1>3, <2>1 DEF ClaimBatch
  <2> QED
    BY <2>2, ClaimsKeepQuota
<1>4. CASE ScanEnds(r) \/ LoopQueryFails(r) \/ ReplicaRestarts(r) \/ \E k \in Keys : ScanEntry(r, k)
  <2>1. UNCHANGED <<status, up, att, queue, late>>
    BY <1>4 DEF ScanEnds, LoopQueryFails, ReplicaRestarts, ScanEntry, tables
  <2> QED
    BY <2>1, BackgroundKeepsQuota
<1> QED
  BY <1>1, <1>2, <1>3, <1>4 DEF MaintenanceStep

\* Every step keeps the quota.
LEMMA QuotaStep ==
    ASSUME AttachmentsInv, QuotaInv, [Next]_vars
    PROVE  QuotaInv'
<1>1. CASE UNCHANGED vars
  <2>1. UNCHANGED <<status, up, att, queue, late>>
    BY <1>1 DEF vars
  <2> QED
    BY <2>1, BackgroundKeepsQuota
<1> QED
  BY <1>1, UploadsKeepQuota, TimeKeepsQuota, SendsKeepQuota, PromotionKeepsQuota, OwnersLeave, RequestsKeepQuota,
     WorkersKeepQuota, MaintenanceKeepsQuota
     DEF Next

\* Nobody is charged at first.
LEMMA QuotaBegin ==
    ASSUME Init
    PROVE  QuotaInv
<1>1. \A k \in Keys : ~att[k].exists /\ ~queue[k].exists
  BY Blank DEF Init
<1>2. OwnerInv
  BY <1>1 DEF Init, OwnerInv
<1>3. \A o \in Owners : ChargedBy(att, queue, o) = {}
  BY <1>1 DEF ChargedBy
<1>4. PICK n \in Nat : n = Cardinality(Former(status))
  BY FormerCounted
<1>5. 0 <= MaxStorage /\ 0 <= MaxStorage * (1 + n)
  <2>1. PICK max \in Nat, high \in Nat : max = MaxStorage /\ high = MaxStorage * (1 + n)
    BY BoundGrows, SizesAre
  <2> QED
    BY <2>1
<1>6. ChargesOK(att, queue, status)
  BY <1>3, <1>4, <1>5, SizesAre DEF ChargesOK, Owners
<1> QED
  BY <1>2, <1>6 DEF QuotaInv

\* The files of a live owner are among those he is charged for.
LEMMA ChargesBoundDisk ==
    ASSUME AttachmentsInv, QuotaInv
    PROVE  DiskWithinQuota
<1> SUFFICES ASSUME NEW o \in Owners, status[o] = "live"
             PROVE  SumSize({k \in Keys : /\ OnDisk(k)
                                          /\ \/ att[k].exists /\ att[k].owner = o
                                             \/ queue[k].exists /\ queue[k].owner = o
                                             \/ ~att[k].exists /\ ~queue[k].exists /\ up[k].owner = o})
                    <= MaxStorage * (1 + IF o \in Accounts THEN Cardinality(FormerGuests) ELSE 0)
  BY DEF DiskWithinQuota
<1>1. PICK U \in SUBSET Keys : U = ChargedBy(att, queue, o)
  BY DEF ChargedBy
<1>2. PICK S \in SUBSET Keys : S = {k \in Keys : /\ OnDisk(k)
                                                 /\ \/ att[k].exists /\ att[k].owner = o
                                                    \/ queue[k].exists /\ queue[k].owner = o
                                                    \/ ~att[k].exists /\ ~queue[k].exists /\ up[k].owner = o}
  OBVIOUS
<1>3. S \subseteq U
  <2> SUFFICES ASSUME NEW k \in S PROVE k \in U
    OBVIOUS
  <2>1. k \in Keys /\ OnDisk(k)
    BY <1>2
  <2>2. \/ att[k].exists /\ att[k].owner = o
        \/ queue[k].exists /\ queue[k].owner = o
        \/ ~att[k].exists /\ ~queue[k].exists /\ up[k].owner = o
    BY <1>2
  <2>3. ASSUME ~att[k].exists, ~queue[k].exists PROVE up[k].owner # o
    <3>1. k \in late
      BY <2>1, <2>3 DEF AttachmentsInv, FilesTracked, OnDisk
    <3> QED
      BY <2>1, <3>1 DEF QuotaInv, OwnerInv, Abandoned
  <2>4. k \in ChargedBy(att, queue, o)
    BY <2>1, <2>2, <2>3, ChargedTo
  <2> QED
    BY <1>1, <2>4
<1>4. SumSize(S) <= SumSize(U)
  BY <1>3, SizeOfPart
<1>5. PICK n \in Nat : n = Cardinality(FormerGuests) /\ n = Cardinality(Former(status))
  <2>1. Former(status) = FormerGuests
    BY DEF Former, FormerGuests
  <2> QED
    BY <2>1, FormerCounted
<1>6. PICK s \in Nat, u \in Nat, max \in Nat, high \in Nat :
         s = SumSize(S) /\ u = SumSize(U) /\ max = MaxStorage /\ high = MaxStorage * (1 + n)
  BY SizesAre, BoundGrows
<1>7. MaxStorage * (1 + 0) = max
  BY <1>6
<1>8. CASE o \in Accounts
  <2>1. u <= high
    BY <1>1, <1>5, <1>6, <1>8 DEF QuotaInv, ChargesOK
  <2>2. s <= high
    BY <1>4, <1>6, <2>1
  <2>3. SumSize(S) <= MaxStorage * (1 + IF o \in Accounts THEN Cardinality(FormerGuests) ELSE 0)
    BY <1>5, <1>6, <1>8, <2>2
  <2> QED
    BY <1>2, <2>3
<1>9. CASE o \notin Accounts
  <2>1. u <= max
    BY <1>1, <1>6, <1>9 DEF QuotaInv, ChargesOK, Owners
  <2>2. s <= max
    BY <1>4, <1>6, <2>1
  <2>3. SumSize(S) <= MaxStorage * (1 + IF o \in Accounts THEN Cardinality(FormerGuests) ELSE 0)
    BY <1>6, <1>7, <1>9, <2>2
  <2> QED
    BY <1>2, <2>3
<1> QED
  BY <1>8, <1>9

(***************************************************************************)
(* The files of a live owner take no more than one quota, those of an      *)
(* account one more for every guest that may have become it: the quota     *)
(* check counts rows and queued deletions, and a file leaves both only     *)
(* when it is removed or its owner is gone.                                *)
(***************************************************************************)
THEOREM DiskWithinQuotaHolds == Spec => []DiskWithinQuota
<1>1. Init => AttachmentsInv /\ QuotaInv
  BY AttachmentsBegin, QuotaBegin
<1>2. AttachmentsInv /\ QuotaInv /\ [Next]_vars => (AttachmentsInv /\ QuotaInv)'
  BY AttachmentsStep, QuotaStep
<1>3. AttachmentsInv /\ QuotaInv => DiskWithinQuota
  BY ChargesBoundDisk
<1> QED
  BY <1>1, <1>2, <1>3, PTL DEF Spec

=============================================================================
