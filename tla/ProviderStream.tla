--------------------------- MODULE ProviderStream ---------------------------
(***************************************************************************)
(* The stream of a reply from an OpenAI-compatible provider                *)
(* (ai/providers/openai.rs, which xai.rs and lmstudio.rs call): bytes come *)
(* in chunks cut anywhere, are decoded chunk by chunk, joined to frames,   *)
(* and the deltas in them go through the response guard of the character,  *)
(* which corrects masculine terms of Thai before a token leaves.           *)
(*                                                                         *)
(* A character is a string; a Thai one takes two bytes here (three in      *)
(* UTF-8), the others one.  The provider decides how it cuts its text into *)
(* deltas and the network how it cuts the bytes into chunks.               *)
(***************************************************************************)
EXTENDS Integers, SequencesExt

CONSTANTS
    Letters,      \* the characters of replies
    Replies,      \* the texts a provider may send
    Guarded,      \* is the profile Aiko's?  (characters::is_aiko_profile)
    MaxDelta,     \* bound on the characters of a delta
    MaxChunk      \* bound on the bytes of a chunk

ASSUME ProviderStreamAssumption ==
    /\ {MaxDelta, MaxChunk} \subseteq Nat \ {0}
    /\ Guarded \subseteq BOOLEAN
    /\ Replies \subseteq Seq(Letters)

VARIABLES
    guarded,    \* StreamingResponseGuard.enabled
    eol,        \* the line ends of this provider
    text,       \* what the provider will send, from the start
    sent,       \* characters of it put into deltas so far
    wire,       \* bytes on their way
    closed,     \* has the provider ended the body?
    buffer,     \* decoded characters not yet in a whole frame
    pending,    \* StreamingResponseGuard.pending
    content,    \* StreamingResponseGuard.content: the tokens emitted, joined
    heard,      \* history: the deltas parsed, joined
    status      \* "open", "done" or "error"

streamVars == <<guarded, eol, text, sent, wire, closed, buffer, pending, content, heard, status>>
provider == <<guarded, eol, text, sent, closed>>

Thai == {"kho", "ro", "an", "bo", "no", "a", "pho", "mo", "tone", "ai", "o", "oo", "ko"}
Lossy == "U+FFFD"

(***************************************************************************)
(* AIKO_RESPONSE_GUARD_REPLACEMENTS, in order.                             *)
(***************************************************************************)
KrapNa == <<"kho", "ro", "an", "bo", "no", "a">>
KrapPhom == <<"kho", "ro", "an", "bo", "pho", "mo">>
Krap == <<"kho", "ro", "an", "bo">>
Kap == <<"kho", "an", "bo">>
Phom == <<"pho", "mo">>
KhaNa == <<"kho", "tone", "a", "no", "a">>
Kha == <<"kho", "tone", "a">>
Aiko == <<"ai", "o", "oo", "ko", "a">>
Replacements == << <<KrapNa, KhaNa>>, <<KrapPhom, Kha>>, <<Krap, Kha>>, <<Kap, Kha>>, <<Phom, Aiko>> >>
Terms == {Replacements[i][1] : i \in DOMAIN Replacements}

\* Does s occur in t from the k-th character?  Does t end with the first n characters of s?
OccursAt(t, s, k) == k + Len(s) - 1 <= Len(t) /\ \A i \in DOMAIN s : t[k + i - 1] = s[i]
EndsWith(t, s, n) == n <= Len(t) /\ \A i \in 1 .. n : t[Len(t) - n + i] = s[i]

\* str::replace; no term overlaps itself, so its occurrences are disjoint.
Replaced(t, from, to) ==
    LET upTo[k \in 0 .. Len(t)] ==
            IF k = 0 THEN <<>>
            ELSE IF Len(from) <= k /\ OccursAt(t, from, k - Len(from) + 1) THEN upTo[k - Len(from)] \o to
            ELSE Append(upTo[k - 1], t[k])
    IN  upTo[Len(t)]
Stage(t, i) == Replaced(t, Replacements[i][1], Replacements[i][2])
Guard(t) == Stage(Stage(Stage(Stage(Stage(t, 1), 2), 3), 4), 5)

\* aiko_guard_safe_split_index: before the longest end that may be the beginning of a term.
MutHeld(t) == {n \in 2 .. Len(t) : \E s \in Terms : n < Len(s) /\ EndsWith(t, s, n)}
Held(t) == {n \in 1 .. Len(t) : \E s \in Terms : n < Len(s) /\ EndsWith(t, s, n)}
SafeSplit(t) == Len(t) - Max({0} \cup Held(t))

(***************************************************************************)
(* The wire.                                                               *)
(***************************************************************************)
Bytes(t) == FlattenSeq([k \in DOMAIN t |-> IF t[k] \in Thai THEN << <<t[k], 1>>, <<t[k], 2>> >>
                                           ELSE << <<t[k], 0>> >>])

\* String::from_utf8_lossy of one chunk: a character cut in two is lost on both sides.
Decoded(b) ==
    FlattenSeq([k \in DOMAIN b |->
        CASE b[k][2] = 0 -> <<b[k][1]>>
          [] b[k][2] = 1 -> IF k < Len(b) THEN <<b[k][1]>> ELSE <<Lossy>>
          [] b[k][2] = 2 -> IF k = 1 THEN <<Lossy>> ELSE <<>>])

\* replace("\r\n", "\n").replace('\r', "\n") over the whole buffer
Normalised(t) ==
    FlattenSeq([k \in DOMAIN t |->
        CASE t[k] = "cr" -> <<"lf">>
          [] t[k] = "lf" /\ k > 1 /\ t[k - 1] = "cr" -> <<>>
          [] OTHER -> <<t[k]>>])

DataFrame(payload) == Bytes(<<"data:">> \o payload \o eol \o eol)

SendDelta(n) ==
    /\ ~closed
    /\ wire = <<>>
    /\ sent + n <= Len(text)
    /\ wire' = DataFrame(SubSeq(text, sent + 1, sent + n))
    /\ sent' = sent + n
    /\ UNCHANGED <<guarded, eol, text, closed, buffer, pending, content, heard, status>>

\* The last event is [DONE], broken data, or a frame without its blank line, or there is none.
CloseBody ==
    /\ ~closed
    /\ wire = <<>>
    /\ sent = Len(text)
    /\ closed' = TRUE
    /\ wire' \in {DataFrame(<<"[DONE]">>), DataFrame(<<"broken">>), Bytes(<<"data:", "!">>), <<>>}
    /\ UNCHANGED <<guarded, eol, text, sent, buffer, pending, content, heard, status>>

(***************************************************************************)
(* The loop of stream_chat_completions.  Frames are taken from the buffer  *)
(* before the next chunk is awaited.                                       *)
(***************************************************************************)
FrameEnds == {k \in 1 .. Len(buffer) - 1 : buffer[k] = "lf" /\ buffer[k + 1] = "lf"}

Receive(n) ==
    /\ status = "open"
    /\ FrameEnds = {}
    /\ n <= Len(wire)
    /\ buffer' = Normalised(buffer \o Decoded(SubSeq(wire, 1, n)))
    /\ wire' = SubSeq(wire, n + 1, Len(wire))
    /\ UNCHANGED <<provider, pending, content, heard, status>>

\* The line of a frame that holds data; a blank frame has none.
Data(frame) ==
    LET S == {k \in DOMAIN frame : frame[k] = "data:"}
    IN  IF S = {} THEN <<>>
        ELSE LET k == CHOOSE k \in S : TRUE
                 ends == {j \in k + 1 .. Len(frame) : frame[j] = "lf"} \cup {Len(frame) + 1}
             IN  SubSeq(frame, k + 1, Min(ends) - 1)

\* push_delta: what is safe leaves as a token.
PushDelta(delta) ==
    LET p == pending \o delta
        n == SafeSplit(p) IN
    /\ heard' = heard \o delta
    /\ IF ~guarded THEN content' = content \o delta /\ UNCHANGED pending
       ELSE /\ pending' = SubSeq(p, n + 1, Len(p))
            /\ content' = content \o Guard(SubSeq(p, 1, n))
    /\ UNCHANGED status

\* emit_guarded_tail and final_stream_message: a reply without content is an error.
MutFinish ==
    /\ pending' = <<>>
    /\ status' = IF content = <<>> THEN "error" ELSE "done"
    /\ UNCHANGED <<content, heard>>
Finish ==
    /\ content' = content \o Guard(pending)
    /\ pending' = <<>>
    /\ status' = IF content' = <<>> THEN "error" ELSE "done"
    /\ UNCHANGED heard

StreamError == status' = "error" /\ UNCHANGED <<pending, content, heard>>

ProcessFrame(data) ==
    \/ data = <<"broken">> /\ StreamError
    \/ data = <<"[DONE]">> /\ Finish
    \/ data \notin {<<"broken">>, <<"[DONE]">>} /\ PushDelta(data)

StreamFrame ==
    /\ status = "open"
    /\ FrameEnds # {}
    /\ LET k == CHOOSE k \in FrameEnds : \A j \in FrameEnds : k <= j IN
       /\ buffer' = SubSeq(buffer, k + 2, Len(buffer))
       /\ ProcessFrame(Data(SubSeq(buffer, 1, k - 1)))
    /\ UNCHANGED <<provider, wire>>

\* The body has ended: a last frame without a blank line, then the tail.
EndOfBody ==
    /\ status = "open"
    /\ closed /\ wire = <<>> /\ FrameEnds = {}
    /\ IF Data(buffer) # <<>>
       THEN ProcessFrame(Data(buffer)) /\ buffer' = <<>>
       ELSE Finish /\ UNCHANGED buffer
    /\ UNCHANGED <<provider, wire>>

\* apply_character_response_guard
CharacterGuard(reply) == IF guarded THEN Guard(reply) ELSE reply

\* complete_chat_completions: the whole reply in one response, guarded at once.
Complete ==
    /\ status = "open"
    /\ ~closed /\ sent = 0 /\ wire = <<>>
    /\ closed' = TRUE
    /\ heard' = text
    /\ content' = CharacterGuard(text)
    /\ status' = "done"
    /\ UNCHANGED <<guarded, eol, text, sent, wire, buffer, pending>>

\* The connection fails, a timeout passes, or the receiver of the tokens is gone.
StreamFails ==
    /\ status = "open"
    /\ StreamError
    /\ UNCHANGED <<provider, wire, buffer>>

StreamInit ==
    /\ guarded \in Guarded
    /\ eol \in {<<"lf">>, <<"cr", "lf">>}
    /\ text \in Replies
    /\ sent = 0
    /\ wire = <<>>
    /\ closed = FALSE
    /\ buffer = <<>>
    /\ pending = <<>>
    /\ content = <<>>
    /\ heard = <<>>
    /\ status = "open"

StreamNext ==
    \/ \E n \in 1 .. MaxDelta : SendDelta(n)
    \/ CloseBody
    \/ \E n \in 1 .. MaxChunk : Receive(n)
    \/ StreamFrame
    \/ EndOfBody
    \/ Complete
    \/ StreamFails

StreamSpec == StreamInit /\ [][StreamNext]_streamVars

-----------------------------------------------------------------------------
Occurs(s, t) == \E k \in DOMAIN t : OccursAt(t, s, k)

(***************************************************************************)
(* No masculine term ever reaches the UI from Aiko: not in one token, nor  *)
(* across tokens, however the provider and the network cut the text.       *)
(***************************************************************************)
NoMasculineTerm == guarded => \A s \in Terms : ~Occurs(s, content)

(***************************************************************************)
(* The guard that works on the stream does what the guard of a whole reply *)
(* does: at any time what has left and what is held make up the guarded    *)
(* form of all deltas parsed, and nothing is held when the stream is done. *)
(***************************************************************************)
StreamedIsGuarded ==
    /\ content \o Guard(pending) = CharacterGuard(heard)
    /\ status = "done" => pending = <<>>

=============================================================================
