---------------------------- MODULE MemoryProofs ----------------------------
(***************************************************************************)
(* Proofs about Memory, for any numbers of messages, chats, keys, workers  *)
(* and browsers and any answers of the extractor: memories rest on live    *)
(* evidence of their owner, the extraction jobs implement the abstract     *)
(* outbox, follow-ups keep their distance, and the learned context of a    *)
(* prompt keeps its limits.                                                *)
(***************************************************************************)
EXTENDS Memory, InductionLemmas, FiniteSetTheorems, SequenceTheorems, TLAPS

Times == 0 .. Horizon
SourceRecord == [msg : Messages, strength : Percent, at : Times]
ItemRecord ==
    [sources : SUBSET SourceRecord, kind : STRING, content : STRING, words : SUBSET STRING,
     topics : SUBSET STRING, traits : SUBSET STRING, importance : Percent, expires : Nat,
     size : Nat, conf : 0 .. 99, reinforced : Times, updated : Times]
JobRecord ==
    [status : {"none", "pending", "processing", "retry", "completed", "dead"},
     attempts : 0 .. MaxAttempts, stale : BOOLEAN, at : Times]
WorkerRecord == [pc : {"idle", "extract", "apply"}, msg : Messages, found : Seq(Candidate)]
DeliveryRecord == [owner : Owners, by : Owners, key : Keys, claim : Browsers, shown : Times]
AskRecord ==
    [pc : {"idle", "claim"}, owner : Owners, key : Keys, updated : Times, now : Times]

\* Evidence from the messages of A, one source from each.
Evidence(sources, A) ==
    /\ sources \subseteq SourceRecord /\ sources # {} /\ IsFiniteSet(sources)
    /\ \A s \in sources : s.msg \in A
    /\ \A s, t \in sources : s.msg = t.msg => s = t

\* A memory that rests on messages of A, with the confidence of exactly its evidence.
Supported(item, A) ==
    /\ item \in ItemRecord
    /\ Evidence(item.sources, A)
    /\ item.conf = Confidence(item.sources)
    /\ item.reinforced = LastReinforced(item.sources)

Memories(A) ==
    {its \in [Keys -> {NoItem} \cup ItemRecord] : \A k \in Keys : its[k] = NoItem \/ Supported(its[k], A)}

\* The messages an owner may have memories of.
LiveOf(o) == {m \in live : OwnerOf(ChatOf[m]) = o}

TurnInv ==
    /\ sent \subseteq Messages /\ live \subseteq sent /\ chats \subseteq Chats
    /\ promoted \in BOOLEAN /\ now \in Times

JobInv ==
    /\ job \in [Messages -> JobRecord]
    /\ \A m \in Messages \ sent : job[m].status = "none"

WorkerInv == worker \in [Workers -> WorkerRecord]

ItemInv ==
    /\ items \in [Owners -> [Keys -> {NoItem} \cup ItemRecord]]
    /\ \A o \in Owners : items[o] \in Memories(LiveOf(o))

\* Who has claimed a follow-up, and whose it is now.
DeliveryInv ==
    /\ delivered \subseteq DeliveryRecord
    /\ \A d \in delivered : IF promoted THEN d.owner = "account"
                            ELSE d.owner = d.by /\ d.by = HomeOf[d.claim]

AskInv ==
    /\ ask \in [Browsers -> AskRecord]
    /\ \A b \in Browsers : ask[b].pc = "claim" =>
          ask[b].owner = HomeOf[b] \/ (promoted /\ ask[b].owner = "account")

\* The inductive invariant.
MemoryInv ==
    /\ TurnInv /\ JobInv /\ WorkerInv /\ ItemInv
    /\ DeliveryInv /\ AskInv /\ FollowUpsSpaced

-----------------------------------------------------------------------------
(***************************************************************************)
(* Evidence and memories.                                                  *)
(***************************************************************************)
LEMMA Placeholders ==
    /\ NoItem.sources = {}
    /\ Idle \in WorkerRecord /\ Idle.pc = "idle"
    /\ NoJob \in JobRecord /\ NoJob.status = "none"
    /\ NoAsk \in AskRecord /\ NoAsk.pc = "idle"
<1>1. NoItem.sources = {}
  BY DEF NoItem
<1>2. MaxAttempts \in Nat /\ Horizon \in Nat
  BY MemoryAssumption
<1>3. Idle \in WorkerRecord /\ Idle.pc = "idle"
  BY MemoryAssumption DEF Idle, WorkerRecord
<1>4. NoJob \in JobRecord /\ NoJob.status = "none"
  BY <1>2 DEF NoJob, JobRecord, Times
<1>5. NoAsk \in AskRecord /\ NoAsk.pc = "idle"
  BY <1>2, MemoryAssumption DEF NoAsk, AskRecord, Times, Owners
<1> QED
  BY <1>1, <1>3, <1>4, <1>5

\* A percentage or a time of the evidence has a greatest one.
LEMMA EvidenceMax ==
    ASSUME NEW A, NEW sources, Evidence(sources, A)
    PROVE  Max(Strengths(sources)) \in Percent /\ LastReinforced(sources) \in Times
<1>1. Strengths(sources) \subseteq Percent /\ Strengths(sources) # {}
  BY DEF Strengths, Evidence, SourceRecord
<1>2. Max(Strengths(sources)) \in Strengths(sources)
  <2>1. Strengths(sources) \subseteq Nat /\ \A n \in Strengths(sources) : n <= 100
    BY <1>1 DEF Percent
  <2> QED
    BY <1>1, <2>1, MaxIsGreatest
<1> DEFINE T == {s.at : s \in sources}
<1>3. T \subseteq Times /\ T # {}
  BY DEF Evidence, SourceRecord
<1>4. Max(T) \in T
  <2>1. Horizon \in Nat /\ T \subseteq Nat /\ \A n \in T : n <= Horizon
    BY <1>3, MemoryAssumption DEF Times
  <2> HIDE DEF T
  <2> QED
    BY <1>3, <2>1, MaxIsGreatest
<1>5. LastReinforced(sources) = Max(T)
  BY DEF LastReinforced
<1> QED
  BY <1>1, <1>2, <1>3, <1>4, <1>5

\* The confidence of evidence is at most 99 percent.
LEMMA ConfidenceBounded ==
    ASSUME NEW A, NEW sources, Evidence(sources, A)
    PROVE  Confidence(sources) \in 0 .. 99
<1> DEFINE n == Cardinality(sources)
           c == Max(Strengths(sources)) + 5 * (n - 1)
           S == {99, c}
<1>1. n \in Nat \ {0}
  BY FS_CardinalityType, FS_EmptySet DEF Evidence
<1>2. c \in Nat
  <2>1. Max(Strengths(sources)) \in Nat
    BY EvidenceMax DEF Percent
  <2> HIDE DEF n
  <2> QED
    BY <1>1, <2>1
<1> HIDE DEF c
<1>3. PICK x \in S : \A y \in S : x <= y
  BY <1>2, LeastNumber
<1>4. Min(S) \in S /\ \A y \in S : Min(S) <= y
  BY <1>3 DEF Min
<1>5. Min(S) \in 0 .. 99
  BY <1>2, <1>4
<1> QED
  BY <1>5 DEF Confidence, c

\* recalculate_memory_evidence makes an item the memory of its evidence.
LEMMA RecalculatedSupported ==
    ASSUME TurnInv, NEW A, NEW item \in ItemRecord, NEW sources, Evidence(sources, A)
    PROVE  /\ Supported(Recalculated(item, sources), A)
           /\ Recalculated(item, sources).sources = sources
<1>1. Confidence(sources) \in 0 .. 99 /\ LastReinforced(sources) \in Times
  BY ConfidenceBounded, EvidenceMax
<1>2. sources \in SUBSET SourceRecord /\ now \in Times
  BY DEF Evidence, TurnInv
<1>3. PICK new : new = Recalculated(item, sources)
  OBVIOUS
<1>4. /\ new \in ItemRecord /\ new.sources = sources
      /\ new.conf = Confidence(sources) /\ new.reinforced = LastReinforced(sources)
  BY <1>1, <1>2, <1>3 DEF Recalculated, ItemRecord
<1> QED
  BY <1>3, <1>4 DEF Supported

\* A memory is not the placeholder of a missing one.
LEMMA SupportedIsItem ==
    ASSUME NEW A, NEW item, Supported(item, A)
    PROVE  item # NoItem /\ item \in ItemRecord /\ item.sources # {}
BY Placeholders DEF Supported, Evidence

\* Sources that remain when messages go still support the item, when any does.
LEMMA EvidenceRest ==
    ASSUME NEW A, NEW sources, Evidence(sources, A), NEW gone,
           {s \in sources : s.msg \notin gone} # {}
    PROVE  Evidence({s \in sources : s.msg \notin gone}, A \ gone)
<1>1. IsFiniteSet({s \in sources : s.msg \notin gone})
  BY FS_Subset DEF Evidence
<1> QED
  BY <1>1 DEF Evidence

\* Removing messages leaves the memories of the others.
LEMMA WithoutSupported ==
    ASSUME TurnInv, NEW A, NEW item, item = NoItem \/ Supported(item, A), NEW gone
    PROVE  Without(item, gone) = NoItem \/ Supported(Without(item, gone), A \ gone)
<1> DEFINE rest == {s \in item.sources : s.msg \notin gone}
<1>1. CASE item = NoItem
  <2>1. rest = item.sources /\ item.sources = {}
    BY <1>1, Placeholders
  <2> QED
    BY <1>1, <2>1 DEF Without
<1>2. CASE Supported(item, A)
  <2>1. item \in ItemRecord /\ Evidence(item.sources, A) /\ item.sources # {}
    BY <1>2, SupportedIsItem DEF Supported
  <2>2. CASE rest = item.sources
    <3>1. Evidence(item.sources, A \ gone)
      BY <2>1, <2>2 DEF Evidence
    <3>2. Supported(item, A \ gone)
      BY <1>2, <3>1 DEF Supported
    <3>3. Without(item, gone) = item
      BY <2>2 DEF Without
    <3> QED
      BY <2>2, <3>2, <3>3
  <2>3. CASE rest # item.sources /\ rest = {}
    <3>1. Without(item, gone) = NoItem
      BY <2>3 DEF Without
    <3> QED
      BY <2>3, <3>1, Placeholders
  <2>4. CASE rest # item.sources /\ rest # {}
    <3>1. Without(item, gone) = Recalculated(item, rest)
      BY <2>4 DEF Without
    <3>2. Evidence(rest, A \ gone)
      BY <2>1, <2>4, EvidenceRest
    <3> HIDE DEF rest
    <3>3. Supported(Recalculated(item, rest), A \ gone) /\ Recalculated(item, rest).sources = rest
      BY <2>1, <3>2, RecalculatedSupported
    <3> QED
      BY <3>1, <3>3 DEF rest
  <2> QED
    BY <2>2, <2>3, <2>4
<1> QED
  BY <1>1, <1>2

\* What some messages support, more of them support.
LEMMA SupportedByMore ==
    ASSUME NEW A, NEW B, A \subseteq B, NEW item, Supported(item, A)
    PROVE  Supported(item, B)
BY DEF Supported, Evidence

\* The merge at login keeps the evidence of both memories.
LEMMA MergedSupported ==
    ASSUME TurnInv, NEW G, NEW C, G \cap C = {},
           NEW guest, guest = NoItem \/ Supported(guest, G),
           NEW account, account = NoItem \/ Supported(account, C)
    PROVE  Merged(guest, account) = NoItem \/ Supported(Merged(guest, account), G \cup C)
<1>1. CASE guest = NoItem
  <2>1. Merged(guest, account) = account /\ guest.sources = {}
    BY <1>1, Placeholders DEF Merged
  <2> QED
    BY <2>1, SupportedByMore
<1>2. CASE guest # NoItem /\ account = NoItem
  <2>1. Merged(guest, account) = guest /\ account.sources = {}
    BY <1>2, Placeholders DEF Merged
  <2> QED
    BY <1>2, <2>1, SupportedByMore
<1>3. CASE guest # NoItem /\ account # NoItem
  <2>1. Supported(guest, G) /\ Supported(account, C)
    BY <1>3
  <2>2. guest \in ItemRecord /\ account \in ItemRecord
    BY <2>1 DEF Supported
  <2>3. PICK newer : newer = IF guest.reinforced > account.reinforced THEN guest ELSE account
    OBVIOUS
  <2>4. newer \in ItemRecord
    BY <2>2, <2>3
  <2> DEFINE S == {guest.importance, account.importance}
  <2>5. S \subseteq Percent /\ S # {}
    BY <2>2 DEF ItemRecord
  <2>6. Max(S) \in Percent
    <3>1. S \subseteq Nat /\ \A n \in S : n <= 100
      BY <2>5 DEF Percent
    <3> HIDE DEF S
    <3> QED
      BY <2>5, <3>1, MaxIsGreatest
  <2>7. PICK item : item = [newer EXCEPT !.importance = Max(S)]
    OBVIOUS
  <2> HIDE DEF S
  <2>8. item \in ItemRecord
    BY <2>4, <2>6, <2>7 DEF ItemRecord
  <2>9. Evidence(guest.sources \cup account.sources, G \cup C)
    <3>1. IsFiniteSet(guest.sources \cup account.sources)
      BY <2>1, FS_Union DEF Supported, Evidence
    <3> QED
      BY <2>1, <3>1 DEF Supported, Evidence
  <2>10. Merged(guest, account) = Recalculated(item, guest.sources \cup account.sources)
    BY <1>3, <2>3, <2>7 DEF Merged, S
  <2> QED
    BY <2>8, <2>9, <2>10, RecalculatedSupported
<1> QED
  BY <1>1, <1>2, <1>3

\* One candidate of a capture from m.
LEMMA RememberedSupported ==
    ASSUME TurnInv, NEW A, NEW m \in Messages, m \in A, NEW c \in Candidate,
           NEW item, item = NoItem \/ Supported(item, A)
    PROVE  Remembered(item, c, m) = NoItem \/ Supported(Remembered(item, c, m), A)
<1>1. CASE item # NoItem /\ item.content # c.content /\ ~c.replace
  BY <1>1 DEF Remembered
<1>2. CASE ~(item # NoItem /\ item.content # c.content /\ ~c.replace)
  <2>1. PICK kept : kept = IF item = NoItem \/ item.content # c.content THEN {}
                           ELSE {s \in item.sources : s.msg # m}
    OBVIOUS
  <2>2. PICK s : s = [msg |-> m, strength |-> c.strength, at |-> now]
    OBVIOUS
  <2>3. s \in SourceRecord /\ s.msg = m
    BY <2>2 DEF SourceRecord, Candidate, TurnInv
  <2>4. /\ kept \subseteq SourceRecord /\ IsFiniteSet(kept)
        /\ \A t \in kept : t.msg \in A /\ t.msg # m
        /\ \A t, u \in kept : t.msg = u.msg => t = u
    <3>1. CASE kept = {}
      BY <3>1, FS_EmptySet
    <3>2. CASE kept # {}
      <4>1. item # NoItem /\ kept = {t \in item.sources : t.msg # m}
        BY <2>1, <3>2
      <4>2. Evidence(item.sources, A)
        BY <4>1 DEF Supported
      <4>3. IsFiniteSet(kept)
        BY <4>1, <4>2, FS_Subset DEF Evidence
      <4> QED
        BY <4>1, <4>2, <4>3 DEF Evidence
    <3> QED
      BY <3>1, <3>2
  <2>5. Evidence(kept \cup {s}, A)
    <3>1. IsFiniteSet(kept \cup {s})
      BY <2>4, FS_AddElement
    <3> QED
      BY <2>3, <2>4, <3>1 DEF Evidence
  <2>6. Captured(c) \in ItemRecord
    BY MemoryAssumption DEF Captured, ItemRecord, Candidate, Times
  <2>7. Remembered(item, c, m) = Recalculated(Captured(c), kept \cup {s})
    BY <1>2, <2>1, <2>2 DEF Remembered
  <2> QED
    BY <2>5, <2>6, <2>7, RecalculatedSupported
<1> QED
  BY <1>1, <1>2

\* What is learnt from a message that is there is supported.
LEMMA LearnSupported ==
    ASSUME TurnInv, NEW A, NEW m \in Messages, m \in A, NEW c \in Candidate, NEW its \in Memories(A)
    PROVE  Learn(its, c, m) \in Memories(A)
<1>1. c.key \in Keys
  BY DEF Candidate
<1>2. its \in [Keys -> {NoItem} \cup ItemRecord] /\ \A k \in Keys : its[k] = NoItem \/ Supported(its[k], A)
  BY DEF Memories
<1>3. PICK new : new = Remembered(its[c.key], c, m)
  OBVIOUS
<1>4. new = NoItem \/ Supported(new, A)
  BY <1>1, <1>2, <1>3, RememberedSupported
<1>5. new \in {NoItem} \cup ItemRecord
  BY <1>4 DEF Supported
<1>6. Learn(its, c, m) = [its EXCEPT ![c.key] = new]
  BY <1>3 DEF Learn
<1>7. [its EXCEPT ![c.key] = new] \in [Keys -> {NoItem} \cup ItemRecord]
  BY <1>2, <1>5
<1>8. \A k \in Keys : [its EXCEPT ![c.key] = new][k] = IF k = c.key THEN new ELSE its[k]
  BY <1>2
<1> QED
  BY <1>2, <1>4, <1>6, <1>7, <1>8 DEF Memories

\* A whole capture from m: every memory rests on what it did before and on m.
LEMMA LearnedSupported ==
    ASSUME TurnInv, NEW A, NEW m \in Messages, m \in A, NEW found \in Seq(Candidate),
           NEW its \in Memories(A)
    PROVE  Learned(its, found, m) \in Memories(A)
<1>1. PICK n \in Nat : n = Len(found) /\ DOMAIN found = 1 .. n
  OBVIOUS
<1>2. \A i \in 1 .. n : found[i] \in Candidate
  BY <1>1
<1> DEFINE M == Memories(A)
           step == [p \in M \X (1 .. n) |-> Learn(p[1], found[p[2]], m)]
<1>3. \A x \in M, i \in 1 .. n : step[<<x, i>>] = Learn(x, found[i], m)
  OBVIOUS
<1>4. \A x \in M, i \in 1 .. n : Learn(x, found[i], m) \in M
  BY <1>2, LearnSupported
<1> HIDE DEF step, M
<1>5. its \in M /\ \A x \in M, i \in 1 .. n : step[<<x, i>>] \in M
  BY <1>3, <1>4 DEF M
<1>6. PICK g : Folds(g, n, its, step) /\ \A s \in SUBSET (1 .. n) : g[s] \in M
  BY <1>5, FoldExists
<1>7. g = [s \in SUBSET DOMAIN found |->
             IF s = {} THEN its ELSE Learn(g[s \ {Max(s)}], found[Max(s)], m)]
  <2>1. ASSUME NEW s \in SUBSET (1 .. n), s # {}
        PROVE  step[<<g[s \ {Max(s)}], Max(s)>>] = Learn(g[s \ {Max(s)}], found[Max(s)], m)
    <3>1. Max(s) \in 1 .. n /\ s \ {Max(s)} \in SUBSET (1 .. n)
      BY <2>1, MaxTaken
    <3>2. g[s \ {Max(s)}] \in M
      BY <1>6, <3>1
    <3> QED
      BY <1>3, <3>1, <3>2
  <2> QED
    BY <1>1, <1>6, <2>1 DEF Folds
<1>8. PICK h : /\ h = [s \in SUBSET DOMAIN found |->
                         IF s = {} THEN its ELSE Learn(h[s \ {Max(s)}], found[Max(s)], m)]
               /\ Learned(its, found, m) = h[DOMAIN found]
  BY <1>7, Zenon DEF Learned, FoldLeft, MapThenFoldSet
<1>9. h[1 .. 0] \in M
  BY <1>1, <1>5, <1>8
<1>10. ASSUME NEW k \in 1 .. n, h[1 .. k - 1] \in M
       PROVE  h[1 .. k] \in M
  <2>1. /\ 1 .. k \in SUBSET (1 .. n) /\ 1 .. k # {}
        /\ Max(1 .. k) = k /\ (1 .. k) \ {Max(1 .. k)} = 1 .. k - 1
    BY PrefixTaken
  <2>2. h[1 .. k] = Learn(h[1 .. k - 1], found[k], m)
    BY <1>1, <1>8, <2>1
  <2> QED
    BY <1>4, <1>10, <2>2
<1>11. \A k \in 0 .. n : h[1 .. k] \in M
  BY <1>9, <1>10, LoopRuns
<1>12. h[1 .. n] \in M
  BY <1>11
<1> QED
  BY <1>1, <1>8, <1>12 DEF M

\* validate_output answers with candidates of the output.
LEMMA AcceptedCandidates ==
    ASSUME NEW output \in Seq(Candidate), NEW at
    PROVE  Accepted(output, at) \in Seq(Candidate)
<1>1. PICK n \in Nat : n = Len(output) /\ DOMAIN output = 1 .. n
  OBVIOUS
<1>2. \A i \in 1 .. n : output[i] \in Candidate
  BY <1>1
<1> DEFINE M == Seq(Candidate)
           step == [p \in M \X (1 .. n) |-> Accept(p[1], output[p[2]], at)]
<1>3. \A x \in M, i \in 1 .. n : step[<<x, i>>] = Accept(x, output[i], at)
  OBVIOUS
<1>4. ASSUME NEW x \in M, NEW i \in 1 .. n PROVE Accept(x, output[i], at) \in M
  <2>1. Append(x, output[i]) \in M
    BY <1>2
  <2> QED
    BY <2>1 DEF Accept
<1>5. <<>> \in M
  OBVIOUS
<1> HIDE DEF step, M
<1>6. \A x \in M, i \in 1 .. n : step[<<x, i>>] \in M
  BY <1>3, <1>4
<1>7. PICK g : Folds(g, n, <<>>, step) /\ \A s \in SUBSET (1 .. n) : g[s] \in M
  BY <1>5, <1>6, FoldExists
<1>8. g = [s \in SUBSET DOMAIN output |->
             IF s = {} THEN <<>> ELSE Accept(g[s \ {Max(s)}], output[Max(s)], at)]
  <2>1. ASSUME NEW s \in SUBSET (1 .. n), s # {}
        PROVE  step[<<g[s \ {Max(s)}], Max(s)>>] = Accept(g[s \ {Max(s)}], output[Max(s)], at)
    <3>1. Max(s) \in 1 .. n /\ s \ {Max(s)} \in SUBSET (1 .. n)
      BY <2>1, MaxTaken
    <3>2. g[s \ {Max(s)}] \in M
      BY <1>7, <3>1
    <3> QED
      BY <1>3, <3>1, <3>2
  <2> QED
    BY <1>1, <1>7, <2>1 DEF Folds
<1>9. CASE Len(output) > MaxCandidates
  BY <1>5, <1>9 DEF Accepted, M
<1>10. CASE ~(Len(output) > MaxCandidates)
  <2>1. PICK h : /\ h = [s \in SUBSET DOMAIN output |->
                           IF s = {} THEN <<>> ELSE Accept(h[s \ {Max(s)}], output[Max(s)], at)]
                 /\ Accepted(output, at) = h[DOMAIN output]
    BY <1>8, <1>10, Zenon DEF Accepted, FoldLeft, MapThenFoldSet
  <2>2. h[1 .. 0] \in M
    BY <1>1, <1>5, <2>1
  <2>3. ASSUME NEW k \in 1 .. n, h[1 .. k - 1] \in M
        PROVE  h[1 .. k] \in M
    <3>1. /\ 1 .. k \in SUBSET (1 .. n) /\ 1 .. k # {}
          /\ Max(1 .. k) = k /\ (1 .. k) \ {Max(1 .. k)} = 1 .. k - 1
      BY PrefixTaken
    <3>2. h[1 .. k] = Accept(h[1 .. k - 1], output[k], at)
      BY <1>1, <2>1, <3>1
    <3> QED
      BY <1>4, <2>3, <3>2
  <2>4. \A k \in 0 .. n : h[1 .. k] \in M
    BY <2>2, <2>3, LoopRuns
  <2>5. h[1 .. n] \in M
    BY <2>4
  <2> QED
    BY <1>1, <2>1, <2>5 DEF M
<1> QED
  BY <1>9, <1>10

-----------------------------------------------------------------------------
(***************************************************************************)
(* The invariant.  One theorem per conjunct, one step per action.          *)
(***************************************************************************)
LEMMA InitInv == Init => MemoryInv
<1> SUFFICES ASSUME Init PROVE MemoryInv
  OBVIOUS
<1>1. TurnInv
  <2>1. Horizon \in Nat
    BY MemoryAssumption
  <2>2. now \in Times
    BY <2>1 DEF Init, Times
  <2> QED
    BY <2>2 DEF Init, TurnInv
<1>2. JobInv
  BY Placeholders DEF Init, JobInv
<1>3. WorkerInv
  BY Placeholders DEF Init, WorkerInv
<1>4. ItemInv
  <2>1. items = [o \in Owners |-> [k \in Keys |-> NoItem]]
    BY DEF Init
  <2> QED
    BY <2>1 DEF ItemInv, Memories
<1>5. DeliveryInv /\ FollowUpsSpaced
  BY DEF Init, DeliveryInv, FollowUpsSpaced
<1>6. AskInv
  BY Placeholders DEF Init, AskInv
<1> QED
  BY <1>1, <1>2, <1>3, <1>4, <1>5, <1>6 DEF MemoryInv

\* Every step keeps turns in order.
LEMMA TurnStep ==
    ASSUME MemoryInv, [Next]_vars
    PROVE  TurnInv'
<1> USE DEF TurnInv, MemoryInv
<1>1. CASE \E m \in Messages : StoreTurn(m)
  BY <1>1 DEF StoreTurn
<1>2. CASE \E c \in Chats : ClearMessages(c) \/ DeleteChat(c)
  BY <1>2 DEF ClearMessages, DeleteChat, RemoveMessages
<1>3. CASE Promote
  BY <1>3 DEF Promote
<1>4. CASE Tick
  BY <1>4, MemoryAssumption DEF Tick, turns, Times
<1>5. CASE UNCHANGED <<turns, now>>
  BY <1>5 DEF turns
<1> QED
  BY <1>1, <1>2, <1>3, <1>4, <1>5 DEF Next, CaptureGoesOn, Claim, Extract, ExtractionFails, Apply,
     LockExpires, ResetLearnedContext, WorkerLost, SelectFollowUp, ClaimFollowUp, vars, turns

\* An action that sets fields of one job.
LEMMA JobSet ==
    ASSUME TurnInv, JobInv, NEW m \in sent, NEW new \in JobRecord, job' = [job EXCEPT ![m] = new],
           sent' = sent
    PROVE  JobInv'
BY DEF TurnInv, JobInv

\* Every step keeps capture jobs in order.
LEMMA JobStep ==
    ASSUME MemoryInv, [Next]_vars
    PROVE  JobInv'
<1> USE DEF MemoryInv
<1>0. MaxAttempts \in Nat \ {0} /\ now \in Times
  BY MemoryAssumption DEF TurnInv
<1>1. ASSUME NEW m \in Messages, StoreTurn(m) PROVE JobInv'
  <2>1. PICK new : new = [job[m] EXCEPT !.status = "pending", !.at = now]
    OBVIOUS
  <2>2. new \in JobRecord
    BY <1>0, <2>1 DEF JobInv, JobRecord
  <2>3. job' = [job EXCEPT ![m] = new]
    BY <1>1, <2>1 DEF StoreTurn
  <2> QED
    BY <1>1, <2>2, <2>3 DEF StoreTurn, JobInv
<1>2. ASSUME NEW c \in Chats, ClearMessages(c) \/ DeleteChat(c) PROVE JobInv'
  <2>1. \E gone : job' = [m \in Messages |-> IF m \in gone THEN NoJob ELSE job[m]]
    BY <1>2 DEF ClearMessages, DeleteChat, RemoveMessages
  <2>2. sent' = sent
    BY <1>2 DEF ClearMessages, DeleteChat
  <2> QED
    BY <2>1, <2>2, Placeholders DEF JobInv
<1>3. ASSUME NEW o \in Owners, ResetLearnedContext(o) PROVE JobInv'
  BY <1>3, Placeholders DEF ResetLearnedContext, turns, JobInv
<1>4. ASSUME NEW w \in Workers, Claim(w) PROVE JobInv'
  <2>1. PICK m \in Messages :
          /\ Claimable(m)
          /\ job' = [job EXCEPT ![m].status = "processing", ![m].attempts = @ + 1, ![m].stale = FALSE]
    BY <1>4 DEF Claim
  <2>2. m \in sent /\ job[m].attempts < MaxAttempts /\ job[m] \in JobRecord
    BY <2>1 DEF Claimable, JobInv
  <2>3. job[m].attempts \in 0 .. MaxAttempts
    BY <2>2 DEF JobRecord
  <2>4. PICK n : n = job[m].attempts + 1
    OBVIOUS
  <2>5. n \in 0 .. MaxAttempts
    BY <1>0, <2>2, <2>3, <2>4
  <2>6. PICK new : new = [job[m] EXCEPT !.status = "processing", !.attempts = n, !.stale = FALSE]
    OBVIOUS
  <2>7. new \in JobRecord
    BY <2>2, <2>5, <2>6 DEF JobRecord
  <2>8. job' = [job EXCEPT ![m] = new]
    BY <2>1, <2>2, <2>4, <2>6 DEF JobInv, JobRecord
  <2>9. sent' = sent
    BY <1>4 DEF Claim, turns
  <2> QED
    BY <2>2, <2>7, <2>8, <2>9, JobSet
<1>5. ASSUME NEW m \in Messages, LockExpires(m) PROVE JobInv'
  <2>1. m \in sent /\ job[m] \in JobRecord
    BY <1>5 DEF LockExpires, JobInv
  <2>2. PICK new : new = [job[m] EXCEPT !.stale = TRUE]
    OBVIOUS
  <2>3. new \in JobRecord
    BY <2>1, <2>2 DEF JobRecord
  <2>4. job' = [job EXCEPT ![m] = new] /\ sent' = sent
    BY <1>5, <2>2 DEF LockExpires, turns
  <2> QED
    BY <2>1, <2>3, <2>4, JobSet
<1>6. ASSUME NEW w \in Workers, ExtractionFails(w) \/ Apply(w) PROVE JobInv'
  <2>1. PICK m : m = worker[w].msg
    OBVIOUS
  <2>2. m \in Messages /\ sent' = sent
    BY <1>6, <2>1 DEF WorkerInv, WorkerRecord, ExtractionFails, Apply, turns
  <2>3. CASE job' = job
    BY <2>2, <2>3 DEF JobInv
  <2>4. CASE job' # job
    <3>1. job[m].status = "processing"
      BY <1>6, <2>1, <2>4 DEF ExtractionFails, Apply
    <3>2. m \in sent /\ job[m] \in JobRecord
      BY <2>2, <3>1 DEF JobInv
    <3>3. PICK st \in {"dead", "retry", "completed"} :
            job' = [job EXCEPT ![m].status = st, ![m].stale = FALSE]
      BY <1>6, <2>1, <2>4 DEF ExtractionFails, Apply
    <3>4. PICK new : new = [job[m] EXCEPT !.status = st, !.stale = FALSE]
      OBVIOUS
    <3>5. new \in JobRecord
      BY <3>2, <3>4 DEF JobRecord
    <3>6. job' = [job EXCEPT ![m] = new]
      BY <2>2, <3>2, <3>3, <3>4 DEF JobInv
    <3> QED
      BY <2>2, <3>2, <3>5, <3>6, JobSet
  <2> QED
    BY <2>3, <2>4
<1>7. CASE UNCHANGED <<sent, job>>
  BY <1>7 DEF JobInv
<1> QED
  BY <1>1, <1>2, <1>3, <1>4, <1>5, <1>6, <1>7 DEF Next, CaptureGoesOn, Extract, Promote,
     WorkerLost, SelectFollowUp, ClaimFollowUp, Tick, vars, turns

\* Every step keeps capture workers in order.
LEMMA WorkerStep ==
    ASSUME MemoryInv, [Next]_vars
    PROVE  WorkerInv'
<1> USE DEF MemoryInv
<1>1. ASSUME NEW w \in Workers, NEW new \in WorkerRecord, worker' = [worker EXCEPT ![w] = new]
      PROVE  WorkerInv'
  BY <1>1 DEF WorkerInv
<1>2. ASSUME NEW w \in Workers, Claim(w) PROVE WorkerInv'
  <2>1. PICK m \in Messages : worker' = [worker EXCEPT ![w] = [Idle EXCEPT !.pc = "extract", !.msg = m]]
    BY <1>2 DEF Claim
  <2>2. [Idle EXCEPT !.pc = "extract", !.msg = m] \in WorkerRecord
    BY Placeholders DEF WorkerRecord
  <2> QED
    BY <1>1, <2>1, <2>2
<1>3. ASSUME NEW w \in Workers, Extract(w) PROVE WorkerInv'
  <2>1. PICK output \in ExtractorAnswers(worker[w].msg) :
          worker' = [worker EXCEPT ![w] = [@ EXCEPT !.pc = "apply",
                                            !.found = Accepted(output, job[worker[w].msg].at)]]
    BY <1>3 DEF Extract
  <2>2. worker[w] \in WorkerRecord /\ worker[w].msg \in Messages
    BY DEF WorkerInv, WorkerRecord
  <2>3. output \in Seq(Candidate)
    BY <2>1, <2>2, MemoryAssumption DEF ExtractorAnswers
  <2>4. PICK found : found = Accepted(output, job[worker[w].msg].at)
    OBVIOUS
  <2>5. found \in Seq(Candidate)
    BY <2>3, <2>4, AcceptedCandidates
  <2>6. PICK new : new = [worker[w] EXCEPT !.pc = "apply", !.found = found]
    OBVIOUS
  <2>7. new \in WorkerRecord
    BY <2>2, <2>5, <2>6 DEF WorkerRecord
  <2>8. worker' = [worker EXCEPT ![w] = new]
    BY <2>1, <2>4, <2>6
  <2> QED
    BY <1>1, <2>7, <2>8
<1>4. ASSUME NEW w \in Workers, ExtractionFails(w) \/ Apply(w) \/ WorkerLost(w) PROVE WorkerInv'
  <2>1. worker' = [worker EXCEPT ![w] = Idle]
    BY <1>4 DEF ExtractionFails, Apply, WorkerLost
  <2> QED
    BY <1>1, <2>1, Placeholders
<1>5. CASE UNCHANGED worker
  BY <1>5 DEF WorkerInv
<1> QED
  BY <1>2, <1>3, <1>4, <1>5 DEF Next, CaptureGoesOn, LockExpires, StoreTurn, ClearMessages, DeleteChat,
     ResetLearnedContext, Promote, SelectFollowUp, ClaimFollowUp, Tick, vars

\* Memories supported by some messages are supported by more of them.
LEMMA MemoriesByMore ==
    ASSUME NEW A, NEW B, A \subseteq B
    PROVE  Memories(A) \subseteq Memories(B)
BY SupportedByMore DEF Memories

\* Every live message is of one owner.
LEMMA OwnersOfLive ==
    ASSUME TurnInv
    PROVE  /\ live = LiveOf("guest") \cup LiveOf("account")
           /\ LiveOf("guest") \cap LiveOf("account") = {}
           /\ promoted => LiveOf("guest") = {}
<1>1. \A m \in live : OwnerOf(ChatOf[m]) \in Owners
  BY MemoryAssumption DEF TurnInv, OwnerOf, Owners
<1>2. promoted => \A m \in live : OwnerOf(ChatOf[m]) # "guest"
  BY DEF OwnerOf
<1> QED
  BY <1>1, <1>2 DEF LiveOf, Owners

\* Every step keeps every item supported.
LEMMA ItemStep ==
    ASSUME MemoryInv, [Next]_vars
    PROVE  ItemInv'
<1> USE DEF MemoryInv
<1>0. /\ items \in [Owners -> [Keys -> {NoItem} \cup ItemRecord]]
      /\ \A o \in Owners : items[o] \in Memories(LiveOf(o))
      /\ \A o \in Owners, k \in Keys : items[o][k] = NoItem \/ Supported(items[o][k], LiveOf(o))
  BY DEF ItemInv, Memories
\* It is enough to look at each memory.
<1>1. ASSUME \E f : items' = [o \in Owners |-> [k \in Keys |-> f[o][k]]],
             \A o \in Owners, k \in Keys : items'[o][k] = NoItem \/ Supported(items'[o][k], LiveOf(o)')
      PROVE  ItemInv'
  <2>1. \A o \in Owners, k \in Keys : items'[o][k] \in {NoItem} \cup ItemRecord
    BY <1>1 DEF Supported
  <2>2. items' \in [Owners -> [Keys -> {NoItem} \cup ItemRecord]]
    BY <1>1, <2>1
  <2> QED
    BY <1>1, <2>2 DEF ItemInv, Memories
<1>2. ASSUME NEW m \in Messages, StoreTurn(m) PROVE ItemInv'
  <2>1. items' = items /\ \A o \in Owners : LiveOf(o) \subseteq LiveOf(o)'
    BY <1>2 DEF StoreTurn, LiveOf, OwnerOf
  <2>2. \A o \in Owners, k \in Keys : items'[o][k] = NoItem \/ Supported(items'[o][k], LiveOf(o)')
    BY <1>0, <2>1, SupportedByMore
  <2>3. items' = [o \in Owners |-> [k \in Keys |-> items[o][k]]]
    BY <1>0, <2>1
  <2> QED
    BY <1>1, <2>2, <2>3
<1>3. ASSUME NEW c \in Chats, ClearMessages(c) \/ DeleteChat(c) PROVE ItemInv'
  <2>1. PICK gone : gone = MessagesOf(c) \cap live
    OBVIOUS
  <2>2. /\ items' = [o \in Owners |-> [k \in Keys |-> Without(items[o][k], gone)]]
        /\ live' = live \ gone /\ promoted' = promoted
    BY <1>3, <2>1 DEF ClearMessages, DeleteChat, RemoveMessages
  <2>3. \A o \in Owners : LiveOf(o)' = LiveOf(o) \ gone
    BY <2>2 DEF LiveOf, OwnerOf
  <2>4. ASSUME NEW o \in Owners, NEW k \in Keys
        PROVE  items'[o][k] = NoItem \/ Supported(items'[o][k], LiveOf(o)')
    <3>1. items'[o][k] = Without(items[o][k], gone)
      BY <2>2
    <3> QED
      BY <1>0, <2>3, <3>1, WithoutSupported
  <2>5. \E f : items' = [o \in Owners |-> [k \in Keys |-> f[o][k]]]
    <3>1. items' = [o \in Owners |-> [k \in Keys |-> items'[o][k]]]
      BY <2>2
    <3> QED
      BY <3>1
  <2> QED
    BY <1>1, <2>4, <2>5
<1>4. ASSUME NEW a \in Owners, ResetLearnedContext(a) PROVE ItemInv'
  <2>1. items' = [items EXCEPT ![a] = [k \in Keys |-> NoItem]] /\ \A o \in Owners : LiveOf(o)' = LiveOf(o)
    BY <1>4 DEF ResetLearnedContext, turns, LiveOf, OwnerOf
  <2>2. ASSUME NEW o \in Owners, NEW k \in Keys
        PROVE  items'[o][k] = NoItem \/ Supported(items'[o][k], LiveOf(o)')
    BY <1>0, <2>1
  <2>3. items' = [o \in Owners |-> [k \in Keys |-> items'[o][k]]]
    BY <1>0, <2>1
  <2> QED
    BY <1>1, <2>2, <2>3
<1>5. CASE Promote
  <2>1. items' = [o \in Owners |-> [k \in Keys |->
                    IF o = "guest" THEN NoItem ELSE Merged(items["guest"][k], items["account"][k])]]
    BY <1>5 DEF Promote
  <2>2. LiveOf("account")' = LiveOf("guest") \cup LiveOf("account")
    <3>1. LiveOf("account")' = live
      BY <1>5 DEF Promote, LiveOf, OwnerOf
    <3> QED
      BY <3>1, OwnersOfLive
  <2>3. ASSUME NEW o \in Owners, NEW k \in Keys
        PROVE  items'[o][k] = NoItem \/ Supported(items'[o][k], LiveOf(o)')
    <3>1. CASE o = "guest"
      BY <2>1, <3>1
    <3>2. CASE o = "account"
      <4>1. "guest" \in Owners /\ "account" \in Owners
        BY DEF Owners
      <4>2. /\ items["guest"][k] = NoItem \/ Supported(items["guest"][k], LiveOf("guest"))
            /\ items["account"][k] = NoItem \/ Supported(items["account"][k], LiveOf("account"))
        BY <1>0, <4>1
      <4>3. items'[o][k] = Merged(items["guest"][k], items["account"][k])
        BY <2>1, <3>2
      <4>4. LiveOf("guest") \cap LiveOf("account") = {} /\ TurnInv
        BY OwnersOfLive
      <4>5. \/ Merged(items["guest"][k], items["account"][k]) = NoItem
            \/ Supported(Merged(items["guest"][k], items["account"][k]), LiveOf("guest") \cup LiveOf("account"))
        BY <4>2, <4>4, MergedSupported
      <4> QED
        BY <2>2, <3>2, <4>3, <4>5
    <3> QED
      BY <3>1, <3>2 DEF Owners
  <2>4. items' = [o \in Owners |-> [k \in Keys |-> items'[o][k]]]
    BY <2>1
  <2> QED
    BY <1>1, <2>3, <2>4
<1>6. ASSUME NEW w \in Workers, Apply(w) PROVE ItemInv'
  <2>1. \A o \in Owners : LiveOf(o)' = LiveOf(o)
    BY <1>6 DEF Apply, turns, LiveOf, OwnerOf
  <2>2. CASE items' = items
    BY <1>0, <2>1, <2>2 DEF ItemInv
  <2>3. CASE items' # items
    <3>1. PICK m : m = worker[w].msg
      OBVIOUS
    <3>2. PICK a : a = OwnerOf(ChatOf[m])
      OBVIOUS
    <3>3. worker[w].found \in Seq(Candidate) /\ m \in Messages
      BY <3>1 DEF WorkerInv, WorkerRecord
    <3>4. m \in live /\ items' = [items EXCEPT ![a] = Learned(items[a], worker[w].found, m)]
      BY <1>6, <2>3, <3>1, <3>2 DEF Apply
    <3>5. a \in Owners /\ m \in LiveOf(a)
      BY <3>2, <3>3, <3>4, MemoryAssumption DEF OwnerOf, Owners, LiveOf
    <3>6. PICK new : new = Learned(items[a], worker[w].found, m)
      OBVIOUS
    <3>7. new \in Memories(LiveOf(a))
      BY <1>0, <3>3, <3>5, <3>6, LearnedSupported
    <3>8. items' = [items EXCEPT ![a] = new]
      BY <3>4, <3>6
    <3>9. new \in [Keys -> {NoItem} \cup ItemRecord]
      BY <3>7 DEF Memories
    <3>10. items' \in [Owners -> [Keys -> {NoItem} \cup ItemRecord]]
      BY <1>0, <3>5, <3>8, <3>9
    <3>11. \A o \in Owners : items'[o] \in Memories(LiveOf(o)')
      BY <1>0, <2>1, <3>5, <3>7, <3>8
    <3> QED
      BY <3>10, <3>11 DEF ItemInv, Memories
  <2> QED
    BY <2>2, <2>3
<1>7. CASE UNCHANGED <<items, turns>>
  <2>1. \A o \in Owners : LiveOf(o)' = LiveOf(o)
    BY <1>7 DEF turns, LiveOf, OwnerOf
  <2> QED
    BY <1>0, <1>7, <2>1 DEF ItemInv, Memories
<1> QED
  BY <1>2, <1>3, <1>4, <1>5, <1>6, <1>7 DEF Next, CaptureGoesOn, Claim, Extract, ExtractionFails,
     LockExpires, WorkerLost, SelectFollowUp, ClaimFollowUp, Tick, vars, turns

-----------------------------------------------------------------------------
(***************************************************************************)
(* Follow-ups.                                                             *)
(***************************************************************************)
\* A guest that has logged in has no memory left to ask about.
LEMMA GuestGone ==
    ASSUME MemoryInv, promoted, NEW k \in Keys
    PROVE  ~Exists("guest", k)
<1>1. items["guest"] \in Memories(LiveOf("guest")) /\ TurnInv
  BY DEF MemoryInv, ItemInv, Owners
<1>2. LiveOf("guest") = {}
  BY <1>1, OwnersOfLive
<1>3. items["guest"][k] = NoItem
  BY <1>1, <1>2 DEF Memories, Supported, Evidence
<1> QED
  BY <1>3, Placeholders DEF Exists

\* What a claim adds: a delivery for the owner of this moment, who has none with this key of
\* the browser, with this memory or within the window.
ClaimAdds(b, d) ==
    /\ d \in DeliveryRecord /\ d.owner = d.by /\ d.claim = b
    /\ IF promoted THEN d.owner = "account" ELSE d.owner = HomeOf[b]
    /\ \A e \in delivered : e.owner = d.owner =>
          e.claim # b /\ e.key # d.key /\ d.shown - e.shown >= Window
    /\ delivered' = delivered \cup {d}

\* A claim delivers nothing, or one follow-up that was due.
LEMMA ClaimEffect ==
    ASSUME MemoryInv, NEW b \in Browsers, ClaimFollowUp(b)
    PROVE  UNCHANGED delivered \/ \E d : ClaimAdds(b, d)
<1> SUFFICES ASSUME delivered' # delivered PROVE \E d : ClaimAdds(b, d)
  OBVIOUS
<1>1. PICK o : o = ask[b].owner
  OBVIOUS
<1>2. PICK d : d = [owner |-> o, by |-> o, key |-> ask[b].key, claim |-> b, shown |-> ask[b].now]
  OBVIOUS
<1>3. /\ ask[b].pc = "claim" /\ ~Answered(o, b) /\ ~RecentlyShown(o, ask[b].now)
      /\ StillClaimable(b) /\ delivered' = delivered \cup {d}
  BY <1>1, <1>2 DEF ClaimFollowUp
<1>4. ask[b] \in AskRecord
  BY DEF MemoryInv, AskInv
<1>5. /\ d \in DeliveryRecord /\ d.owner = o /\ d.by = o /\ d.claim = b
      /\ d.key = ask[b].key /\ d.shown = ask[b].now
  BY <1>1, <1>2, <1>4 DEF AskRecord, DeliveryRecord
<1>6. Exists(o, d.key) /\ d.key \in Undelivered(o) /\ d.key \in Keys
  BY <1>1, <1>3, <1>4, <1>5 DEF StillClaimable, AskRecord
<1>7. IF promoted THEN o = "account" ELSE o = HomeOf[b]
  <2>1. promoted => o # "guest"
    BY <1>6, GuestGone
  <2>2. o = HomeOf[b] \/ (promoted /\ o = "account")
    BY <1>1, <1>3 DEF MemoryInv, AskInv
  <2>3. HomeOf[b] \in Owners
    BY MemoryAssumption
  <2> QED
    BY <2>1, <2>2, <2>3 DEF Owners
<1>8. ASSUME NEW e \in delivered, e.owner = o
      PROVE  e.claim # b /\ e.key # d.key /\ d.shown - e.shown >= Window
  <2>1. e.claim # b
    BY <1>3, <1>8 DEF Answered
  <2>2. e.key # d.key
    BY <1>6, <1>8 DEF Undelivered
  <2>3. ~(e.shown > d.shown - Window)
    BY <1>3, <1>5, <1>8 DEF RecentlyShown
  <2>4. e.shown \in Times /\ d.shown \in Times
    BY <1>5 DEF MemoryInv, DeliveryInv, DeliveryRecord
  <2>5. e.shown \in Int /\ d.shown \in Int /\ Window \in Int
    BY <2>4, MemoryAssumption DEF Times
  <2> QED
    BY <2>1, <2>2, <2>3, <2>5
<1> QED
  BY <1>3, <1>5, <1>7, <1>8 DEF ClaimAdds

\* What the steps do to the deliveries.
LEMMA DeliveryEffect ==
    ASSUME MemoryInv, [Next]_vars
    PROVE  \/ delivered' \subseteq delivered /\ promoted' = promoted
           \/ Promote
           \/ \E b \in Browsers : \E d : ClaimAdds(b, d) /\ promoted' = promoted
<1>1. ASSUME NEW c \in Chats, ClearMessages(c) \/ DeleteChat(c)
      PROVE  delivered' \subseteq delivered /\ promoted' = promoted
  BY <1>1 DEF ClearMessages, DeleteChat, RemoveMessages, DeliveriesOf
<1>2. ASSUME NEW o \in Owners, ResetLearnedContext(o)
      PROVE  delivered' \subseteq delivered /\ promoted' = promoted
  BY <1>2 DEF ResetLearnedContext, DeliveriesOf, turns
<1>3. ASSUME NEW b \in Browsers, ClaimFollowUp(b)
      PROVE  \/ delivered' \subseteq delivered /\ promoted' = promoted
             \/ \E d : ClaimAdds(b, d) /\ promoted' = promoted
  <2>1. promoted' = promoted
    BY <1>3 DEF ClaimFollowUp, turns
  <2> QED
    BY <1>3, <2>1, ClaimEffect
<1>4. CASE UNCHANGED <<delivered, promoted>>
  BY <1>4
<1> QED
  BY <1>1, <1>2, <1>3, <1>4 DEF Next, CaptureGoesOn, Claim, Extract, ExtractionFails, Apply, StoreTurn,
     LockExpires, WorkerLost, SelectFollowUp, Tick, vars, turns, asking

\* Every step keeps follow-ups apart.
LEMMA DeliveryStep ==
    ASSUME MemoryInv, [Next]_vars
    PROVE  DeliveryInv' /\ FollowUpsSpaced'
<1>0. DeliveryInv /\ FollowUpsSpaced
  BY DEF MemoryInv
<1>1. CASE delivered' \subseteq delivered /\ promoted' = promoted
  BY <1>0, <1>1 DEF DeliveryInv, FollowUpsSpaced
<1>2. CASE Promote
  <2>1. delivered' = {[d EXCEPT !.owner = "account"] : d \in delivered} /\ promoted'
    BY <1>2 DEF Promote
  <2>2. ASSUME NEW d \in delivered
        PROVE  LET e == [d EXCEPT !.owner = "account"] IN
               /\ e \in DeliveryRecord /\ e.owner = "account"
               /\ e.by = d.by /\ e.key = d.key /\ e.claim = d.claim /\ e.shown = d.shown
    BY <1>0 DEF DeliveryInv, DeliveryRecord, Owners
  <2>3. DeliveryInv'
    BY <2>1, <2>2 DEF DeliveryInv
  <2>4. ASSUME NEW x \in delivered', NEW y \in delivered', x # y
        PROVE  /\ x.claim # y.claim
               /\ x.by = y.by => x.key # y.key /\ (x.shown - y.shown >= Window \/ y.shown - x.shown >= Window)
    <3>1. PICK d \in delivered : x = [d EXCEPT !.owner = "account"]
      BY <2>1
    <3>2. PICK e \in delivered : y = [e EXCEPT !.owner = "account"]
      BY <2>1
    <3>3. d # e
      BY <2>4, <3>1, <3>2
    <3>4. /\ x.by = d.by /\ x.key = d.key /\ x.claim = d.claim /\ x.shown = d.shown
          /\ y.by = e.by /\ y.key = e.key /\ y.claim = e.claim /\ y.shown = e.shown
      BY <2>2, <3>1, <3>2
    <3> QED
      BY <1>0, <3>3, <3>4 DEF FollowUpsSpaced
  <2> QED
    BY <2>3, <2>4 DEF FollowUpsSpaced
<1>3. ASSUME NEW b \in Browsers, NEW d, ClaimAdds(b, d), promoted' = promoted
      PROVE  DeliveryInv' /\ FollowUpsSpaced'
  <2>1. DeliveryInv'
    BY <1>0, <1>3 DEF ClaimAdds, DeliveryInv
  <2>2. ASSUME NEW e \in delivered
        PROVE  /\ e.claim # d.claim
               /\ e.by = d.by => e.key # d.key /\ d.shown - e.shown >= Window
    <3>1. e.by = d.by => e.owner = d.owner
      BY <1>0, <1>3 DEF ClaimAdds, DeliveryInv
    <3>2. e.claim = b => e.owner = d.owner
      BY <1>0, <1>3 DEF ClaimAdds, DeliveryInv
    <3> QED
      BY <1>3, <3>1, <3>2 DEF ClaimAdds
  <2>3. delivered' = delivered \cup {d}
    BY <1>3 DEF ClaimAdds
  <2>4. FollowUpsSpaced'
    BY <1>0, <2>2, <2>3 DEF FollowUpsSpaced
  <2> QED
    BY <2>1, <2>4
<1> QED
  BY <1>1, <1>2, <1>3, DeliveryEffect

\* Every step keeps follow-up requests in order.
LEMMA AskStep ==
    ASSUME MemoryInv, [Next]_vars
    PROVE  AskInv'
<1>0. AskInv /\ TurnInv /\ ItemInv
  BY DEF MemoryInv
<1>1. ASSUME NEW b \in Browsers, SelectFollowUp(b) PROVE AskInv'
  <2>1. PICK o : o = IF promoted THEN "account" ELSE HomeOf[b]
    OBVIOUS
  <2>2. o \in Owners
    BY <2>1, MemoryAssumption DEF Owners
  <2>3. PICK k \in Undelivered(o) :
          ask' = [ask EXCEPT ![b] = [pc |-> "claim", owner |-> o, key |-> k,
                                     updated |-> items[o][k].updated, now |-> now]]
    BY <1>1, <2>1 DEF SelectFollowUp
  <2>4. k \in Keys /\ Exists(o, k)
    BY <2>3 DEF Undelivered, KeysOf
  <2>5. items[o][k] \in ItemRecord
    BY <1>0, <2>2, <2>4, Placeholders DEF ItemInv, Exists
  <2>6. PICK new : new = [pc |-> "claim", owner |-> o, key |-> k,
                          updated |-> items[o][k].updated, now |-> now]
    OBVIOUS
  <2>7. new \in AskRecord /\ new.owner = o
    BY <1>0, <2>2, <2>4, <2>5, <2>6 DEF AskRecord, ItemRecord, TurnInv
  <2>8. ask' = [ask EXCEPT ![b] = new] /\ promoted' = promoted
    BY <1>1, <2>3, <2>6 DEF SelectFollowUp, turns
  <2> QED
    BY <1>0, <2>1, <2>7, <2>8 DEF AskInv
<1>2. ASSUME NEW b \in Browsers, ClaimFollowUp(b) PROVE AskInv'
  <2>1. ask' = [ask EXCEPT ![b] = NoAsk] /\ promoted' = promoted
    BY <1>2 DEF ClaimFollowUp, turns
  <2> QED
    BY <1>0, <2>1, Placeholders DEF AskInv
<1>3. CASE Promote
  BY <1>0, <1>3 DEF Promote, AskInv
<1>4. CASE UNCHANGED <<ask, promoted>>
  BY <1>0, <1>4 DEF AskInv
<1> QED
  BY <1>1, <1>2, <1>3, <1>4 DEF Next, CaptureGoesOn, Claim, Extract, ExtractionFails, Apply, StoreTurn,
     LockExpires, WorkerLost, ClearMessages, DeleteChat, ResetLearnedContext, Tick, vars, turns, asking

\* The inductive invariant of automatic memory: turns, jobs, workers, the evidence behind each
\* memory, and the follow-ups with the requests that claim them.
THEOREM MemoryInvariant == Spec => []MemoryInv
<1>1. Init => MemoryInv
  BY InitInv
<1>2. MemoryInv /\ [Next]_vars => MemoryInv'
  <2> SUFFICES ASSUME MemoryInv, [Next]_vars PROVE MemoryInv'
    OBVIOUS
  <2> QED
    BY TurnStep, JobStep, WorkerStep, ItemStep, DeliveryStep, AskStep DEF MemoryInv
<1> QED
  BY <1>1, <1>2, PTL DEF Spec

\* Follow-ups of one owner scope keep their distance, use a key once and an item once
\* (claim_memory_follow_up), for any number of requests that race with what they selected.
THEOREM FollowUpsSpacedHolds == Spec => []FollowUpsSpaced
<1>1. MemoryInv => FollowUpsSpaced
  BY DEF MemoryInv
<1> QED
  BY <1>1, MemoryInvariant, PTL

\* Every memory rests on live messages of its owner and has the confidence of exactly that
\* evidence (apply_memory_capture, cleanup_memory_after_source_removal, the merge at login).
THEOREM ItemsSupportedHolds == Spec => []ItemsSupported
<1>1. MemoryInv => ItemsSupported
  <2> SUFFICES ASSUME MemoryInv, NEW o \in Owners, NEW k \in Keys, Exists(o, k)
               PROVE  /\ \A s \in items[o][k].sources : s.msg \in live /\ OwnerOf(ChatOf[s.msg]) = o
                      /\ items[o][k].conf = Confidence(items[o][k].sources)
                      /\ items[o][k].reinforced = LastReinforced(items[o][k].sources)
                      /\ \A s, t \in items[o][k].sources : s.msg = t.msg => s = t
    BY DEF ItemsSupported
  <2>1. Supported(items[o][k], LiveOf(o))
    BY Placeholders DEF MemoryInv, ItemInv, Memories, Exists
  <2> QED
    BY <2>1 DEF Supported, Evidence, LiveOf
<1> QED
  BY <1>1, MemoryInvariant, PTL

-----------------------------------------------------------------------------
(***************************************************************************)
(* Jobs, retries, stale locks and lost workers implement CaptureOutbox.    *)
(***************************************************************************)
LEMMA RecalculatedSources ==
    ASSUME NEW item \in ItemRecord, NEW sources
    PROVE  Recalculated(item, sources).sources = sources
BY DEF Recalculated, ItemRecord

\* Without some messages an item has just its other sources.
LEMMA WithoutSources ==
    ASSUME NEW item \in {NoItem} \cup ItemRecord, NEW gone
    PROVE  Without(item, gone).sources = {s \in item.sources : s.msg \notin gone}
<1> DEFINE rest == {s \in item.sources : s.msg \notin gone}
<1>1. CASE rest = item.sources
  BY <1>1 DEF Without
<1>2. CASE rest # item.sources /\ rest = {}
  BY <1>2, Placeholders DEF Without
<1>3. CASE rest # item.sources /\ rest # {}
  <2>1. item \in ItemRecord
    BY <1>3, Placeholders
  <2>2. Without(item, gone) = Recalculated(item, rest)
    BY <1>3 DEF Without
  <2> HIDE DEF rest
  <2>3. Recalculated(item, rest).sources = rest
    BY <2>1, RecalculatedSources
  <2> QED
    BY <2>2, <2>3 DEF rest
<1> QED
  BY <1>1, <1>2, <1>3

\* A merged item has the sources of both.
LEMMA MergedSources ==
    ASSUME NEW guest \in {NoItem} \cup ItemRecord, NEW account \in {NoItem} \cup ItemRecord
    PROVE  Merged(guest, account).sources = guest.sources \cup account.sources
<1>1. CASE guest = NoItem
  BY <1>1, Placeholders DEF Merged
<1>2. CASE guest # NoItem /\ account = NoItem
  BY <1>2, Placeholders DEF Merged
<1>3. CASE guest # NoItem /\ account # NoItem
  <2>1. guest \in ItemRecord /\ account \in ItemRecord
    BY <1>3
  <2>2. PICK newer : newer = IF guest.reinforced > account.reinforced THEN guest ELSE account
    OBVIOUS
  <2>3. Merged(guest, account) =
          Recalculated([newer EXCEPT !.importance = Max({guest.importance, account.importance})],
                       guest.sources \cup account.sources)
    BY <1>3, <2>2 DEF Merged
  <2>4. newer \in ItemRecord
    BY <2>1, <2>2
  <2>5. PICK i : i = Max({guest.importance, account.importance})
    OBVIOUS
  <2>6. PICK all : all = guest.sources \cup account.sources
    OBVIOUS
  <2>7. Recalculated([newer EXCEPT !.importance = i], all).sources = all
    BY <2>4 DEF Recalculated, ItemRecord
  <2> QED
    BY <2>3, <2>5, <2>6, <2>7
<1> QED
  BY <1>1, <1>2, <1>3

\* A message is learnt when some item has it as a source.
LEMMA LearntFrom ==
    \A x : x \in Learnt <=> \E o \in Owners, k \in Keys : \E s \in items[o][k].sources : s.msg = x
BY DEF Learnt

\* The same in the next state.
LEMMA LearntFromNext ==
    \A x : x \in Learnt' <=> \E o \in Owners, k \in Keys : \E s \in items'[o][k].sources : s.msg = x
BY DEF Learnt

\* Items that stay are learnt from the same messages.
LEMMA LearntSame ==
    ASSUME UNCHANGED items
    PROVE  Learnt' = Learnt
BY DEF Learnt

\* When messages go, nothing is learnt from them any more.
LEMMA LearntWithout ==
    ASSUME MemoryInv, NEW gone, items' = [o \in Owners |-> [k \in Keys |-> Without(items[o][k], gone)]]
    PROVE  Learnt' = Learnt \ gone
<1>1. \A o \in Owners, k \in Keys : items'[o][k].sources = {s \in items[o][k].sources : s.msg \notin gone}
  <2>1. ASSUME NEW o \in Owners, NEW k \in Keys
        PROVE  items'[o][k].sources = {s \in items[o][k].sources : s.msg \notin gone}
    <3>1. items[o][k] \in {NoItem} \cup ItemRecord
      BY DEF MemoryInv, ItemInv
    <3>2. Without(items[o][k], gone).sources = {s \in items[o][k].sources : s.msg \notin gone}
      BY <3>1, WithoutSources
    <3> QED
      BY <3>2
  <2> QED
    BY <2>1
<1>2. \A x \in Learnt' : x \in Learnt \ gone
  BY <1>1, LearntFrom, LearntFromNext
<1>3. \A x \in Learnt \ gone : x \in Learnt'
  BY <1>1, LearntFrom, LearntFromNext
<1> QED
  BY <1>2, <1>3

\* A promotion loses and adds no source.
LEMMA LearntMerged ==
    ASSUME MemoryInv, Promote
    PROVE  Learnt' = Learnt
<1>0. "guest" \in Owners /\ "account" \in Owners /\ \A o \in Owners : o = "guest" \/ o = "account"
  BY DEF Owners
<1>1. ASSUME NEW k \in Keys
      PROVE  /\ items'["guest"][k].sources = {}
             /\ items'["account"][k].sources = items["guest"][k].sources \cup items["account"][k].sources
  <2>1. items["guest"][k] \in {NoItem} \cup ItemRecord /\ items["account"][k] \in {NoItem} \cup ItemRecord
    BY <1>0 DEF MemoryInv, ItemInv
  <2>3. Merged(items["guest"][k], items["account"][k]).sources
          = items["guest"][k].sources \cup items["account"][k].sources
    BY <2>1, MergedSources
  <2>4. items'["guest"][k] = NoItem /\ items'["account"][k] = Merged(items["guest"][k], items["account"][k])
    BY <1>0 DEF Promote
  <2> QED
    BY <2>3, <2>4, Placeholders
<1>2. \A x \in Learnt' : x \in Learnt
  BY <1>0, <1>1, LearntFrom, LearntFromNext
<1>3. \A x \in Learnt : x \in Learnt'
  BY <1>0, <1>1, LearntFrom, LearntFromNext
<1> QED
  BY <1>2, <1>3

\* A capture adds its own message at most.
LEMMA LearntCaptured ==
    ASSUME MemoryInv, NEW m \in live, NEW a \in Owners, a = OwnerOf(ChatOf[m]), NEW found \in Seq(Candidate),
           items' = [items EXCEPT ![a] = Learned(items[a], found, m)]
    PROVE  Learnt' \subseteq Learnt \cup {m}
<1> DEFINE A == Learnt \cup {m}
<1>1. TurnInv /\ m \in Messages /\ items \in [Owners -> [Keys -> {NoItem} \cup ItemRecord]]
  BY DEF MemoryInv, TurnInv, ItemInv
<1>2. items[a] \in Memories(A)
  <2>1. ASSUME NEW k \in Keys PROVE items[a][k] = NoItem \/ Supported(items[a][k], A)
    <3>1. items[a][k] = NoItem \/ Supported(items[a][k], LiveOf(a))
      BY DEF MemoryInv, ItemInv, Memories
    <3>2. \A s \in items[a][k].sources : s.msg \in A
      BY LearntFrom
    <3> HIDE DEF A
    <3> QED
      BY <3>1, <3>2 DEF Supported, Evidence
  <2>2. items[a] \in [Keys -> {NoItem} \cup ItemRecord]
    BY <1>1
  <2> QED
    BY <2>1, <2>2 DEF Memories
<1>3. m \in A
  OBVIOUS
<1> HIDE DEF A
<1>4. items'[a] \in Memories(A)
  <2>1. Learned(items[a], found, m) \in Memories(A)
    BY <1>1, <1>2, <1>3, LearnedSupported
  <2> QED
    BY <1>1, <2>1
<1>5. ASSUME NEW o \in Owners, NEW k \in Keys, NEW s \in items'[o][k].sources PROVE s.msg \in A
  <2>1. CASE o = a
    <3>1. items'[a][k] = NoItem \/ Supported(items'[a][k], A)
      BY <1>4 DEF Memories
    <3>2. items'[a][k].sources # {}
      BY <1>5, <2>1
    <3> QED
      BY <1>5, <2>1, <3>1, <3>2, Placeholders DEF Supported, Evidence
  <2>2. CASE o # a
    <3>1. items'[o] = items[o]
      BY <1>1, <2>2
    <3> QED
      BY <1>5, <3>1, LearntFrom DEF A
  <2> QED
    BY <2>1, <2>2
<1>6. \A x \in Learnt' : x \in A
  BY <1>5, LearntFromNext
<1> QED
  BY <1>6 DEF A

\* A reset forgets just the messages of the owner.
LEMMA LearntReset ==
    ASSUME MemoryInv, NEW a \in Owners, items' = [items EXCEPT ![a] = [k \in Keys |-> NoItem]]
    PROVE  Learnt' = Learnt \ {m \in sent : OwnerOf(ChatOf[m]) = a}
<1> DEFINE S == {m \in sent : OwnerOf(ChatOf[m]) = a}
<1>1. items \in [Owners -> [Keys -> {NoItem} \cup ItemRecord]] /\ live \subseteq sent
  BY DEF MemoryInv, ItemInv, TurnInv
<1>2. ASSUME NEW o \in Owners, NEW k \in Keys, NEW s \in items[o][k].sources
      PROVE  s.msg \in live /\ OwnerOf(ChatOf[s.msg]) = o
  <2>1. Supported(items[o][k], LiveOf(o))
    BY <1>2, Placeholders DEF MemoryInv, ItemInv, Memories
  <2> QED
    BY <1>2, <2>1 DEF Supported, Evidence, LiveOf
<1>3. \A o \in Owners, k \in Keys : items'[o][k].sources = IF o = a THEN {} ELSE items[o][k].sources
  BY <1>1, Placeholders
<1>4. \A x \in Learnt' : x \in Learnt \ S
  BY <1>2, <1>3, LearntFrom, LearntFromNext
<1>5. \A x \in Learnt \ S : x \in Learnt'
  BY <1>1, <1>2, <1>3, LearntFrom, LearntFromNext
<1> QED
  BY <1>4, <1>5

\* What becomes of one turn is a matter of its own job.
LEMMA TurnStateSame ==
    ASSUME NEW m \in Messages, sent' = sent, job'[m].status = job[m].status
    PROVE  TurnState(m)' = TurnState(m)
BY DEF TurnState

\* A step in which at most one turn moves on.
LEMMA TurnStatesSame ==
    ASSUME \A m \in Messages : TurnState(m)' = TurnState(m)
    PROVE  TurnStates' = TurnStates
BY DEF TurnStates

\* One message moves in the abstract outbox.
LEMMA TurnStatesMove ==
    ASSUME NEW m \in Messages, NEW state, TurnState(m)' = state,
           \A n \in Messages \ {m} : TurnState(n)' = TurnState(n)
    PROVE  TurnStates' = [TurnStates EXCEPT ![m] = state]
BY DEF TurnStates

\* Some messages are dropped from the abstract outbox.
LEMMA TurnStatesDrop ==
    ASSUME NEW S \in SUBSET Messages, \A m \in S : TurnState(m)' = "dropped",
           \A n \in Messages \ S : TurnState(n)' = TurnState(n)
    PROVE  TurnStates' = [m \in Messages |-> IF m \in S THEN "dropped" ELSE TurnStates[m]]
BY DEF TurnStates

\* An initial state is an initial state of the outbox.
LEMMA OutboxInit == Init => Outbox!Init
<1> SUFFICES ASSUME Init PROVE Outbox!Init
  OBVIOUS
<1>1. TurnStates = [m \in Messages |-> "none"]
  BY DEF Init, TurnStates, TurnState
<1>2. \A o \in Owners, k \in Keys : items[o][k].sources = {}
  BY Placeholders DEF Init
<1>3. Learnt = {}
  BY <1>2, LearntFrom
<1> QED
  BY <1>1, <1>3 DEF Outbox!Init

\* Storing a turn queues it in the outbox.
LEMMA OutboxQueue ==
    ASSUME MemoryInv, NEW m \in Messages, StoreTurn(m)
    PROVE  Outbox!Queue(m)
<1>1. m \notin sent /\ sent' = sent \cup {m} /\ UNCHANGED items
  BY DEF StoreTurn
<1>2. job'[m].status = "pending" /\ \A n \in Messages \ {m} : job'[n] = job[n]
  BY DEF StoreTurn, MemoryInv, JobInv, JobRecord
<1>3. TurnState(m) = "none" /\ TurnState(m)' = "queued"
  BY <1>1, <1>2 DEF TurnState
<1>4. \A n \in Messages \ {m} : TurnState(n)' = TurnState(n)
  BY <1>1, <1>2 DEF TurnState
<1>5. TurnStates' = [TurnStates EXCEPT ![m] = "queued"] /\ TurnStates[m] = "none"
  BY <1>3, <1>4, TurnStatesMove DEF TurnStates
<1> QED
  BY <1>1, <1>5, LearntSame DEF Outbox!Queue

\* Clearing or deleting a chat drops its messages from the outbox.
LEMMA OutboxClear ==
    ASSUME MemoryInv, NEW c \in Chats, ClearMessages(c) \/ DeleteChat(c)
    PROVE  \E S \in SUBSET Messages : Outbox!Drop(S)
<1> DEFINE S == MessagesOf(c) \cap live
<1>1. S \in SUBSET Messages /\ S \subseteq sent
  BY DEF MemoryInv, TurnInv, MessagesOf
<1>2. /\ sent' = sent
      /\ job' = [m \in Messages |-> IF m \in S THEN NoJob ELSE job[m]]
      /\ items' = [o \in Owners |-> [k \in Keys |-> Without(items[o][k], S)]]
  BY DEF ClearMessages, DeleteChat, RemoveMessages
<1> HIDE DEF S
<1>3. Learnt' = Learnt \ S
  BY <1>2, LearntWithout
<1>4. \A m \in S : TurnState(m)' = "dropped" /\ TurnState(m) # "none"
  BY <1>1, <1>2, Placeholders DEF TurnState
<1>5. \A n \in Messages \ S : TurnState(n)' = TurnState(n)
  BY <1>2 DEF TurnState
<1>6. TurnStates' = [m \in Messages |-> IF m \in S THEN "dropped" ELSE TurnStates[m]]
  BY <1>1, <1>4, <1>5, TurnStatesDrop
<1>7. \A m \in S : TurnStates[m] # "none"
  BY <1>1, <1>4 DEF TurnStates
<1> QED
  BY <1>1, <1>3, <1>6, <1>7 DEF Outbox!Drop

\* Resetting what was learnt drops the owner's messages from the outbox.
LEMMA OutboxReset ==
    ASSUME MemoryInv, NEW a \in Owners, ResetLearnedContext(a)
    PROVE  \E S \in SUBSET Messages : Outbox!Drop(S)
<1> DEFINE S == {m \in sent : OwnerOf(ChatOf[m]) = a}
<1>1. S \in SUBSET Messages /\ S \subseteq sent
  BY DEF MemoryInv, TurnInv
<1>2. /\ sent' = sent
      /\ job' = [m \in Messages |-> IF OwnerOf(ChatOf[m]) = a THEN NoJob ELSE job[m]]
      /\ items' = [items EXCEPT ![a] = [k \in Keys |-> NoItem]]
  BY DEF ResetLearnedContext, turns
<1>3. Learnt' = Learnt \ S
  BY <1>2, LearntReset
<1>4. \A m \in S : TurnState(m)' = "dropped" /\ TurnState(m) # "none"
  BY <1>1, <1>2, Placeholders DEF TurnState
<1>5. \A n \in Messages \ S : TurnState(n)' = TurnState(n)
  BY <1>2 DEF TurnState
<1> HIDE DEF S
<1>6. TurnStates' = [m \in Messages |-> IF m \in S THEN "dropped" ELSE TurnStates[m]]
  BY <1>1, <1>4, <1>5, TurnStatesDrop
<1>7. \A m \in S : TurnStates[m] # "none"
  BY <1>1, <1>4 DEF TurnStates
<1> QED
  BY <1>1, <1>3, <1>6, <1>7 DEF Outbox!Drop

\* The end of an attempt: captured, given up, to be tried again, or too late.
LEMMA OutboxAttempt ==
    ASSUME MemoryInv, NEW w \in Workers, ExtractionFails(w) \/ Apply(w)
    PROVE  \/ \E m \in Messages : Outbox!Capture(m) \/ Outbox!GiveUp(m)
           \/ UNCHANGED <<TurnStates, Learnt>>
<1>1. PICK m : m = worker[w].msg
  OBVIOUS
<1>2. m \in Messages /\ sent' = sent /\ job \in [Messages -> JobRecord]
  BY <1>1 DEF MemoryInv, WorkerInv, WorkerRecord, JobInv, ExtractionFails, Apply, turns
<1>3. CASE job' = job /\ items' = items
  BY <1>2, <1>3, TurnStateSame, TurnStatesSame, LearntSame
<1>4. CASE ~(job' = job /\ items' = items)
  <2>1. job[m].status = "processing" /\ m \in sent
    BY <1>1, <1>2, <1>4 DEF ExtractionFails, Apply, MemoryInv, JobInv
  <2>2. TurnState(m) = "queued" /\ TurnStates[m] = "queued"
    BY <1>2, <2>1 DEF TurnState, TurnStates
  <2>3. ASSUME NEW st, job' = [job EXCEPT ![m].status = st, ![m].stale = FALSE]
        PROVE  job'[m].status = st /\ \A n \in Messages \ {m} : TurnState(n)' = TurnState(n)
    <3>1. job'[m].status = st /\ \A n \in Messages \ {m} : job'[n] = job[n]
      BY <1>2, <2>3 DEF JobRecord
    <3> QED
      BY <1>2, <3>1, TurnStateSame
  <2>4. CASE ExtractionFails(w)
    <3>1. PICK st \in {"dead", "retry"} : job' = [job EXCEPT ![m].status = st, ![m].stale = FALSE]
      BY <1>1, <2>1, <2>4 DEF ExtractionFails
    <3>2. Learnt' = Learnt
      BY <2>4, LearntSame DEF ExtractionFails
    <3>3. CASE st = "dead"
      <4>1. TurnState(m)' = "dead"
        BY <1>2, <2>1, <2>3, <3>1, <3>3 DEF TurnState
      <4>2. TurnStates' = [TurnStates EXCEPT ![m] = "dead"]
        BY <1>2, <2>3, <3>1, <4>1, TurnStatesMove
      <4> QED
        BY <1>2, <2>2, <3>2, <4>2 DEF Outbox!GiveUp
    <3>4. CASE st = "retry"
      <4>1. TurnState(m)' = "queued"
        BY <1>2, <2>1, <2>3, <3>1, <3>4 DEF TurnState
      <4>2. TurnStates' = TurnStates
        BY <2>2, <2>3, <3>1, <4>1, TurnStatesSame
      <4> QED
        BY <3>2, <4>2
    <3> QED
      BY <3>1, <3>3, <3>4
  <2>5. CASE Apply(w)
    <3>1. PICK a : a = OwnerOf(ChatOf[m])
      OBVIOUS
    <3>2. /\ m \in live
          /\ items' = [items EXCEPT ![a] = Learned(items[a], worker[w].found, m)]
          /\ job' = [job EXCEPT ![m].status = "completed", ![m].stale = FALSE]
      BY <1>1, <1>4, <2>5, <3>1 DEF Apply
    <3>3. a \in Owners /\ worker[w].found \in Seq(Candidate)
      BY <1>2, <3>1, MemoryAssumption DEF OwnerOf, Owners, MemoryInv, WorkerInv, WorkerRecord
    <3>4. Learnt' \subseteq Learnt \cup {m}
      BY <3>1, <3>2, <3>3, LearntCaptured
    <3>5. TurnState(m)' = "captured"
      <4>1. job'[m].status = "completed" /\ m \in sent'
        BY <1>2, <2>1, <2>3, <3>2
      <4> QED
        BY <4>1 DEF TurnState
    <3>6. TurnStates' = [TurnStates EXCEPT ![m] = "captured"]
      BY <1>2, <2>3, <3>2, <3>5, TurnStatesMove
    <3> QED
      BY <1>2, <2>2, <3>4, <3>6 DEF Outbox!Capture
  <2> QED
    BY <2>4, <2>5
<1> QED
  BY <1>3, <1>4

\* A claim and the age of its lock leave the turn queued.
LEMMA OutboxClaim ==
    ASSUME MemoryInv, \/ \E w \in Workers : Claim(w)
                      \/ \E m \in Messages : LockExpires(m)
    PROVE  UNCHANGED <<TurnStates, Learnt>>
<1>1. UNCHANGED items /\ sent' = sent /\ job \in [Messages -> JobRecord]
  BY DEF Claim, LockExpires, turns, MemoryInv, JobInv
<1>2. PICK m \in Messages :
        /\ job[m].status \in {"pending", "retry", "processing"}
        /\ job'[m].status = "processing"
        /\ \A n \in Messages \ {m} : job'[n] = job[n]
  <2>1. CASE \E w \in Workers : Claim(w)
    <3>1. PICK m \in Messages :
            /\ Claimable(m)
            /\ job' = [job EXCEPT ![m].status = "processing", ![m].attempts = @ + 1, ![m].stale = FALSE]
      BY <2>1 DEF Claim
    <3>2. job'[m].status = "processing" /\ \A n \in Messages \ {m} : job'[n] = job[n]
      BY <1>1, <3>1 DEF JobRecord
    <3> QED
      BY <3>1, <3>2 DEF Claimable
  <2>2. CASE \E m \in Messages : LockExpires(m)
    <3>1. PICK m \in Messages : job[m].status = "processing" /\ job' = [job EXCEPT ![m].stale = TRUE]
      BY <2>2 DEF LockExpires
    <3>2. job'[m].status = "processing" /\ \A n \in Messages \ {m} : job'[n] = job[n]
      BY <1>1, <3>1 DEF JobRecord
    <3> QED
      BY <3>1, <3>2
  <2> QED
    BY <2>1, <2>2
<1>3. \A n \in Messages \ {m} : TurnState(n)' = TurnState(n)
  BY <1>1, <1>2, TurnStateSame
<1>4. TurnState(m)' = TurnState(m)
  BY <1>1, <1>2 DEF TurnState
<1> QED
  BY <1>1, <1>3, <1>4, TurnStatesSame, LearntSame

\* Every step is a step of the outbox or leaves it alone.
LEMMA OutboxStep ==
    ASSUME MemoryInv, [Next]_vars
    PROVE  [Outbox!Next]_<<TurnStates, Learnt>>
<1>1. CASE \E m \in Messages : StoreTurn(m)
  BY <1>1, OutboxQueue DEF Outbox!Next
<1>2. CASE \E c \in Chats : ClearMessages(c) \/ DeleteChat(c)
  BY <1>2, OutboxClear DEF Outbox!Next
<1>3. CASE \E o \in Owners : ResetLearnedContext(o)
  BY <1>3, OutboxReset DEF Outbox!Next
<1>4. CASE Promote
  <2>1. UNCHANGED <<sent, job>>
    BY <1>4 DEF Promote
  <2> QED
    BY <1>4, <2>1, TurnStateSame, TurnStatesSame, LearntMerged
<1>5. CASE \E w \in Workers : ExtractionFails(w) \/ Apply(w)
  BY <1>5, OutboxAttempt DEF Outbox!Next
<1>6. CASE \/ \E w \in Workers : Claim(w)
           \/ \E m \in Messages : LockExpires(m)
  BY <1>6, OutboxClaim
<1>7. CASE UNCHANGED <<sent, job, items>>
  BY <1>7, TurnStateSame, TurnStatesSame, LearntSame
<1> QED
  BY <1>1, <1>2, <1>3, <1>4, <1>5, <1>6, <1>7 DEF Next, CaptureGoesOn, Extract,
     WorkerLost, SelectFollowUp, ClaimFollowUp, Tick, vars, turns

\* Extraction jobs with their attempts, locks and workers implement the abstract outbox: a turn
\* is captured at most once and nothing is learned from one that its owner has withdrawn.
THEOREM OutboxRefined == Spec => ImplementsOutbox
<1>1. Init => Outbox!Init
  BY OutboxInit
<1>2. MemoryInv /\ [Next]_vars => [Outbox!Next]_<<TurnStates, Learnt>>
  BY OutboxStep
<1> QED
  BY <1>1, <1>2, MemoryInvariant, PTL DEF Spec, ImplementsOutbox, Outbox!Spec

-----------------------------------------------------------------------------
(***************************************************************************)
(* The learned context of a prompt.                                        *)
(***************************************************************************)
BroadKeys(o, q, keys) == {k \in keys : ~SpecificMatch(items[o][k], q)}

\* A context within the limits, with at most as many broad matches as it has counted.
Contexts(o, q) ==
    {ctx \in [keys : SUBSET Relevant(o, q), size : 0 .. MaxContext, broad : 0 .. MaxBroad,
              topics : SUBSET STRING] :
        /\ Cardinality(ctx.keys) <= MaxItems
        /\ Cardinality(BroadKeys(o, q, ctx.keys)) <= ctx.broad}

\* k is in the context, or the context has no room for it.
Settled(o, k, ctx) ==
    \/ k \in ctx.keys
    \/ Cardinality(ctx.keys) >= MaxItems
    \/ ctx.size + LineSize(o, k) > MaxContext

\* The relevant items are finitely many, and lines have sizes.
LEMMA RelevantItems ==
    ASSUME MemoryInv, NEW o \in Owners, NEW q
    PROVE  /\ IsFiniteSet(Relevant(o, q)) /\ Cardinality(Relevant(o, q)) \in Nat
           /\ \A k \in Relevant(o, q) : items[o][k] \in ItemRecord /\ LineSize(o, k) \in Nat
<1>1. IsFiniteSet(Relevant(o, q))
  <2>1. Relevant(o, q) \in SUBSET Keys
    BY DEF Relevant
  <2> QED
    BY <2>1, FS_Subset, MemoryAssumption
<1>2. ASSUME NEW k \in Relevant(o, q) PROVE items[o][k] \in ItemRecord /\ LineSize(o, k) \in Nat
  <2>1. k \in Keys /\ items[o][k] # NoItem
    BY DEF Relevant, Retrievable
  <2>2. items[o][k] \in ItemRecord
    BY <2>1 DEF MemoryInv, ItemInv
  <2> QED
    BY <2>2 DEF ItemRecord, LineSize
<1> QED
  BY <1>1, <1>2, FS_CardinalityType

\* The sets of keys of a context are finite.
LEMMA ContextFinite ==
    ASSUME MemoryInv, NEW o \in Owners, NEW q, NEW keys \in SUBSET Relevant(o, q)
    PROVE  /\ IsFiniteSet(keys) /\ Cardinality(keys) \in Nat
           /\ IsFiniteSet(BroadKeys(o, q, keys)) /\ Cardinality(BroadKeys(o, q, keys)) \in Nat
<1>1. IsFiniteSet(keys)
  BY RelevantItems, FS_Subset
<1>2. BroadKeys(o, q, keys) \in SUBSET keys
  BY DEF BroadKeys
<1>3. IsFiniteSet(BroadKeys(o, q, keys))
  BY <1>1, <1>2, FS_Subset
<1> QED
  BY <1>1, <1>3, FS_CardinalityType

\* One turn of the loop stays within the limits, settles its candidate, and unsettles none.
LEMMA TakeStep ==
    ASSUME MemoryInv, NEW o \in Owners, NEW q, NEW ctx \in Contexts(o, q), NEW k \in Relevant(o, q)
    PROVE  /\ Take(o, q, ctx, k) \in Contexts(o, q)
           /\ SpecificMatch(items[o][k], q) => Settled(o, k, Take(o, q, ctx, k))
           /\ \A j \in Relevant(o, q) : Settled(o, j, ctx) => Settled(o, j, Take(o, q, ctx, k))
<1> DEFINE topics == BroadTopics(items[o][k], q)
           broad == ~SpecificMatch(items[o][k], q) /\ topics # {}
           full == \/ Cardinality(ctx.keys) >= MaxItems
                   \/ broad /\ (ctx.broad >= MaxBroad \/ topics \subseteq ctx.topics)
                   \/ ctx.size + LineSize(o, k) > MaxContext
<1>0. /\ MaxItems \in Nat /\ MaxBroad \in Nat /\ MaxContext \in Nat /\ LineSize(o, k) \in Nat
      /\ items[o][k] \in ItemRecord
  BY MemoryAssumption, RelevantItems
<1>1. /\ ctx.keys \in SUBSET Relevant(o, q) /\ ctx.size \in 0 .. MaxContext
      /\ ctx.broad \in 0 .. MaxBroad /\ ctx.topics \in SUBSET STRING
      /\ Cardinality(ctx.keys) <= MaxItems
      /\ Cardinality(BroadKeys(o, q, ctx.keys)) <= ctx.broad
  BY DEF Contexts
<1>2. CASE full
  <2>1. Take(o, q, ctx, k) = ctx
    BY <1>2 DEF Take
  <2>2. SpecificMatch(items[o][k], q) => Settled(o, k, ctx)
    BY <1>2 DEF Settled
  <2> QED
    BY <2>1, <2>2
<1>3. CASE ~full
  <2>1. PICK more : more = IF broad THEN 1 ELSE 0
    OBVIOUS
  <2>2. PICK seen : seen = IF broad THEN ctx.topics \cup topics ELSE ctx.topics
    OBVIOUS
  <2>3. PICK keys : keys = ctx.keys \cup {k}
    OBVIOUS
  <2>4. PICK new : new = [keys |-> keys, size |-> ctx.size + LineSize(o, k),
                          broad |-> ctx.broad + more, topics |-> seen]
    OBVIOUS
  <2>5. Take(o, q, ctx, k) = new
    BY <1>3, <2>1, <2>2, <2>3, <2>4 DEF Take
  <2>6. keys \in SUBSET Relevant(o, q)
    BY <1>1, <2>3
  <2>7. ctx.size + LineSize(o, k) \in 0 .. MaxContext
    BY <1>0, <1>1, <1>3
  <2>8. more \in {0, 1} /\ ctx.broad + more \in 0 .. MaxBroad
    BY <1>0, <1>1, <1>3, <2>1
  <2>9. seen \in SUBSET STRING
    <3>1. topics \in SUBSET STRING
      BY <1>0 DEF BroadTopics, Topics, ItemRecord
    <3> HIDE DEF topics
    <3> QED
      BY <1>1, <2>2, <3>1
  <2>10. Cardinality(keys) <= MaxItems /\ Cardinality(ctx.keys) <= Cardinality(keys)
    <3>1. IsFiniteSet(ctx.keys) /\ Cardinality(ctx.keys) \in Nat
      BY <1>1, ContextFinite
    <3>2. Cardinality(keys) = IF k \in ctx.keys THEN Cardinality(ctx.keys) ELSE Cardinality(ctx.keys) + 1
      BY <2>3, <3>1, FS_AddElement
    <3>3. ~(Cardinality(ctx.keys) >= MaxItems)
      BY <1>3
    <3> QED
      BY <1>0, <3>1, <3>2, <3>3
  <2>11. Cardinality(BroadKeys(o, q, keys)) <= ctx.broad + more
    <3>1. PICK B : B = BroadKeys(o, q, ctx.keys)
      OBVIOUS
    <3>2. IsFiniteSet(B) /\ Cardinality(B) \in Nat /\ Cardinality(B) <= ctx.broad
      BY <1>1, <3>1, ContextFinite
    <3>3. ctx.broad \in Nat
      BY <1>0, <1>1
    <3>4. CASE SpecificMatch(items[o][k], q)
      <4>1. BroadKeys(o, q, keys) = B
        BY <2>3, <3>1, <3>4 DEF BroadKeys
      <4> QED
        BY <2>8, <3>2, <3>3, <4>1
    <3>5. CASE ~SpecificMatch(items[o][k], q)
      <4>1. topics # {}
        BY <3>5 DEF Relevant
      <4>2. more = 1
        BY <2>1, <3>5, <4>1
      <4>3. BroadKeys(o, q, keys) = B \cup {k}
        BY <2>3, <3>1, <3>5 DEF BroadKeys
      <4>4. Cardinality(B \cup {k}) = IF k \in B THEN Cardinality(B) ELSE Cardinality(B) + 1
        BY <3>2, FS_AddElement
      <4> QED
        BY <3>2, <3>3, <4>2, <4>3, <4>4
    <3> QED
      BY <3>4, <3>5
  <2>12. /\ new \in [keys : SUBSET Relevant(o, q), size : 0 .. MaxContext, broad : 0 .. MaxBroad,
                     topics : SUBSET STRING]
         /\ new.keys = keys /\ new.broad = ctx.broad + more /\ new.size = ctx.size + LineSize(o, k)
    BY <2>4, <2>6, <2>7, <2>8, <2>9
  <2>13. new \in Contexts(o, q)
    BY <2>10, <2>11, <2>12 DEF Contexts
  <2>14. Settled(o, k, new)
    BY <2>3, <2>12 DEF Settled
  <2>15. ASSUME NEW j \in Relevant(o, q), Settled(o, j, ctx) PROVE Settled(o, j, new)
    <3>1. LineSize(o, j) \in Nat /\ ctx.size \in Nat
      BY <1>0, <1>1, RelevantItems
    <3>2. CASE j \in ctx.keys
      BY <2>3, <2>12, <3>2 DEF Settled
    <3>3. CASE Cardinality(ctx.keys) >= MaxItems
      BY <1>3, <3>3
    <3>4. CASE ctx.size + LineSize(o, j) > MaxContext
      BY <1>0, <2>12, <3>1, <3>4 DEF Settled
    <3> QED
      BY <2>15, <3>2, <3>3, <3>4 DEF Settled
  <2> QED
    BY <2>5, <2>13, <2>14, <2>15
<1> QED
  BY <1>2, <1>3

\* The empty context is within the bounds.
LEMMA NoContextWithin ==
    ASSUME NEW o, NEW q
    PROVE  NoContext \in Contexts(o, q)
<1>1. MaxItems \in Nat /\ MaxBroad \in Nat /\ MaxContext \in Nat
  BY MemoryAssumption
<1>2. NoContext \in [keys : SUBSET Relevant(o, q), size : 0 .. MaxContext, broad : 0 .. MaxBroad,
                     topics : SUBSET STRING]
  BY <1>1 DEF NoContext
<1>3. NoContext.keys = {} /\ NoContext.broad = 0
  BY DEF NoContext
<1>4. BroadKeys(o, q, {}) = {}
  BY DEF BroadKeys
<1>5. Cardinality({}) = 0
  BY FS_EmptySet
<1> QED
  BY <1>1, <1>2, <1>3, <1>4, <1>5 DEF Contexts

\* The loop over a ranking: the context stays within the limits and every specific match is
\* settled in the end.
LEMMA ContextLoop ==
    ASSUME MemoryInv, NEW o \in Owners, NEW q, NEW n \in Nat, NEW r \in [1 .. n -> Relevant(o, q)]
    PROVE  /\ Context(o, q, r) \in Contexts(o, q)
           /\ \A j \in 1 .. n : SpecificMatch(items[o][r[j]], q) => Settled(o, r[j], Context(o, q, r))
<1>1. DOMAIN r = 1 .. n /\ \A i \in 1 .. n : r[i] \in Relevant(o, q)
  OBVIOUS
<1> DEFINE M == Contexts(o, q)
           step == [p \in M \X (1 .. n) |-> Take(o, q, p[1], r[p[2]])]
<1>2. \A x \in M, i \in 1 .. n : step[<<x, i>>] = Take(o, q, x, r[i])
  OBVIOUS
<1>3. \A x \in M, i \in 1 .. n : Take(o, q, x, r[i]) \in M
  BY <1>1, TakeStep
<1>4. NoContext \in M
  BY NoContextWithin
<1> HIDE DEF step, M
<1>5. \A x \in M, i \in 1 .. n : step[<<x, i>>] \in M
  BY <1>2, <1>3
<1>6. PICK g : Folds(g, n, NoContext, step) /\ \A s \in SUBSET (1 .. n) : g[s] \in M
  BY <1>4, <1>5, FoldExists
<1>7. g = [s \in SUBSET DOMAIN r |->
             IF s = {} THEN NoContext ELSE Take(o, q, g[s \ {Max(s)}], r[Max(s)])]
  <2>1. ASSUME NEW s \in SUBSET (1 .. n), s # {}
        PROVE  step[<<g[s \ {Max(s)}], Max(s)>>] = Take(o, q, g[s \ {Max(s)}], r[Max(s)])
    <3>1. Max(s) \in 1 .. n /\ s \ {Max(s)} \in SUBSET (1 .. n)
      BY <2>1, MaxTaken
    <3>2. g[s \ {Max(s)}] \in M
      BY <1>6, <3>1
    <3> QED
      BY <1>2, <3>1, <3>2
  <2> QED
    BY <1>1, <1>6, <2>1 DEF Folds
<1>8. PICK h : /\ h = [s \in SUBSET DOMAIN r |->
                         IF s = {} THEN NoContext ELSE Take(o, q, h[s \ {Max(s)}], r[Max(s)])]
               /\ Context(o, q, r) = h[DOMAIN r]
  BY <1>7, Zenon DEF Context, FoldLeft, MapThenFoldSet
<1>9. h[1 .. 0] \in M
  BY <1>1, <1>4, <1>8
<1>10. ASSUME NEW k \in 1 .. n PROVE h[1 .. k] = Take(o, q, h[1 .. k - 1], r[k])
  <2>1. /\ 1 .. k \in SUBSET (1 .. n) /\ 1 .. k # {}
        /\ Max(1 .. k) = k /\ (1 .. k) \ {Max(1 .. k)} = 1 .. k - 1
    BY PrefixTaken
  <2> QED
    BY <1>1, <1>8, <2>1
<1>11. \A k \in 1 .. n : h[1 .. k - 1] \in M => h[1 .. k] \in M
  BY <1>3, <1>10
<1>12. \A k \in 0 .. n : h[1 .. k] \in M
  BY <1>9, <1>11, LoopRuns
<1>13. ASSUME NEW j \in 1 .. n, SpecificMatch(items[o][r[j]], q)
       PROVE  Settled(o, r[j], h[1 .. n])
  <2> DEFINE T == {d \in Nat : j + d <= n => Settled(o, r[j], h[1 .. j + d])}
  <2>1. ASSUME NEW k \in 1 .. n PROVE h[1 .. k - 1] \in Contexts(o, q) /\ r[k] \in Relevant(o, q)
    <3>1. k - 1 \in 0 .. n
      OBVIOUS
    <3> QED
      BY <1>1, <1>12, <3>1 DEF M
  <2>2. Settled(o, r[j], h[1 .. j])
    BY <1>10, <1>13, <2>1, TakeStep
  <2>3. 0 \in T
    <3>1. j + 0 = j
      OBVIOUS
    <3> QED
      BY <2>2, <3>1
  <2>4. ASSUME NEW d \in T PROVE d + 1 \in T
    <3>1. d \in Nat /\ d + 1 \in Nat /\ (j + d <= n => Settled(o, r[j], h[1 .. j + d]))
      OBVIOUS
    <3>2. ASSUME j + (d + 1) <= n PROVE Settled(o, r[j], h[1 .. j + (d + 1)])
      <4>1. PICK k : k = j + (d + 1)
        OBVIOUS
      <4>2. k \in 1 .. n /\ k - 1 = j + d /\ j + d <= n
        BY <3>1, <3>2, <4>1
      <4>3. Settled(o, r[j], h[1 .. k - 1])
        BY <3>1, <4>2
      <4>4. Settled(o, r[j], Take(o, q, h[1 .. k - 1], r[k]))
        BY <1>1, <2>1, <4>2, <4>3, TakeStep
      <4> QED
        BY <1>10, <4>1, <4>2, <4>4
    <3> QED
      BY <3>1, <3>2
  <2>5. T \subseteq Nat /\ \A d \in T : d + 1 \in T
    BY <2>4
  <2> HIDE DEF T
  <2>6. T = Nat
    BY <2>3, <2>5, NumberInduction
  <2>7. n - j \in T /\ j + (n - j) = n
    BY <2>6
  <2> QED
    BY <2>7 DEF T
<1>14. h[1 .. n] \in M
  BY <1>12
<1> QED
  BY <1>1, <1>8, <1>13, <1>14 DEF M

\* The learned context keeps every limit of select_memory_context_with_signals and leaves out a
\* specific match only for want of room, whatever the scores and however the items came about.
THEOREM ContextBoundedHolds == Spec => []ContextBounded
<1>1. ASSUME MemoryInv, NEW o \in Owners, NEW q, NEW ctx \in LearnedContexts(o, q)
      PROVE  /\ ctx \in Contexts(o, q)
             /\ \A k \in Relevant(o, q) : SpecificMatch(items[o][k], q) => Settled(o, k, ctx)
  <2>1. CASE Signals(q) = {}
    <3>1. ctx = NoContext
      BY <2>1 DEF LearnedContexts
    <3>2. Relevant(o, q) = {}
      BY <2>1 DEF Signals, Relevant, SpecificMatch, BroadTopics
    <3> QED
      BY <3>1, <3>2, NoContextWithin
  <2>2. CASE Signals(q) # {}
    <3>1. PICK r \in Rankings(o, q) : ctx = Context(o, q, r)
      BY <2>2 DEF LearnedContexts
    <3>2. PICK n : n = Cardinality(Relevant(o, q))
      OBVIOUS
    <3>3. n \in Nat /\ IsFiniteSet(Relevant(o, q))
      BY <1>1, <3>2, RelevantItems
    <3>4. r \in [1 .. n -> Relevant(o, q)] /\ \A i, j \in 1 .. n : i # j => r[i] # r[j]
      BY <3>1, <3>2 DEF Rankings, SetToSeqs
    <3>5. r \in Injection(1 .. n, Relevant(o, q))
      BY <3>4 DEF Injection, IsInjective
    <3>6. Cardinality(1 .. n) = n
      BY <3>3, FS_Interval
    <3>7. r \in Surjection(1 .. n, Relevant(o, q))
      BY <3>2, <3>3, <3>5, <3>6, FS_Injection
    <3>8. \A k \in Relevant(o, q) : \E j \in 1 .. n : r[j] = k
      BY <3>7 DEF Surjection
    <3>9. /\ ctx \in Contexts(o, q)
          /\ \A j \in 1 .. n : SpecificMatch(items[o][r[j]], q) => Settled(o, r[j], ctx)
      BY <1>1, <3>1, <3>3, <3>4, ContextLoop
    <3> QED
      BY <3>8, <3>9
  <2> QED
    BY <2>1, <2>2
<1>2. MemoryInv => ContextBounded
  <2> SUFFICES ASSUME MemoryInv, NEW o \in Owners, NEW q \in Queries, NEW ctx \in LearnedContexts(o, q)
               PROVE  LET broad == {k \in ctx.keys : ~SpecificMatch(items[o][k], q)}
                      IN /\ Cardinality(ctx.keys) <= MaxItems
                         /\ Cardinality(broad) <= MaxBroad
                         /\ ctx.size <= MaxContext
                         /\ \A k \in Relevant(o, q) \ ctx.keys :
                              SpecificMatch(items[o][k], q) /\ Cardinality(ctx.keys) < MaxItems
                                  => ctx.size + LineSize(o, k) > MaxContext
    BY DEF ContextBounded
  <2>1. /\ ctx \in Contexts(o, q)
        /\ \A k \in Relevant(o, q) : SpecificMatch(items[o][k], q) => Settled(o, k, ctx)
    BY <1>1
  <2>2. /\ ctx.keys \in SUBSET Relevant(o, q) /\ ctx.size \in 0 .. MaxContext /\ ctx.broad \in 0 .. MaxBroad
        /\ Cardinality(ctx.keys) <= MaxItems /\ Cardinality(BroadKeys(o, q, ctx.keys)) <= ctx.broad
    BY <2>1 DEF Contexts
  <2>3. MaxItems \in Nat /\ MaxBroad \in Nat /\ MaxContext \in Nat
    BY MemoryAssumption
  <2>4. Cardinality(ctx.keys) \in Nat /\ Cardinality(BroadKeys(o, q, ctx.keys)) \in Nat
    BY <2>2, ContextFinite
  <2>5. Cardinality(BroadKeys(o, q, ctx.keys)) <= MaxBroad /\ ctx.size <= MaxContext
    BY <2>2, <2>3, <2>4
  <2>6. ASSUME NEW k \in Relevant(o, q) \ ctx.keys,
               SpecificMatch(items[o][k], q) /\ Cardinality(ctx.keys) < MaxItems
        PROVE  ctx.size + LineSize(o, k) > MaxContext
    BY <2>1, <2>3, <2>4, <2>6 DEF Settled
  <2> QED
    BY <2>2, <2>5, <2>6 DEF BroadKeys
<1> QED
  BY <1>2, MemoryInvariant, PTL

=============================================================================
