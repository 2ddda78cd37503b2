--------------------------- MODULE VoiceRequests ----------------------------
(***************************************************************************)
(* Speech of assistant messages and transcription of recordings            *)
(* (chat/voice.rs, voice.rs), behind the rate limiter, which the requests  *)
(* of other families (guest sessions, chats, images) use as well.          *)
(*                                                                         *)
(* A message is told apart by what the handler asks of it.  A WAV file is  *)
(* a sequence of cells: a chunk header is one cell (of eight bytes), a     *)
(* sample another (of one byte).  Requests answered before the limits (a   *)
(* feature that is off, no session in force, a body that is no form)       *)
(* change nothing and are left out.                                        *)
(***************************************************************************)
EXTENDS RateLimiter, Sequences

CONSTANTS
    Clients,       \* where requests come from: [session, address]
    Proxies,       \* the trusted proxies a request may pass: sequences of addresses, the first one first
    Claimed,       \* what a client may put into the header itself: sequences
    Messages,      \* messages asked for: [found, role, empty]
    Recordings,    \* what may be uploaded: "none", "empty", "large", "broken" or "audio"
    Files,         \* what the speech engine may answer: sequences of chunks [id, size, samples]
    Provider,      \* AI_VOICE_PROVIDER
    Translates,    \* AI_VOICE_SPEECH_TEXT_POLICY is japanese_translation
    MaxSent        \* bound on the requests ever sent

\* A client is not itself a trusted proxy, and only trusted proxies append to the
\* header.  "sample" is what the cells of a file call a sample, no id of a chunk.
ASSUME VoiceRequestsAssumption ==
    /\ {"speech", "transcription"} \subseteq Families
    /\ \A c \in Clients : c.session \in SessionIds /\ c.address \in Addresses \ Trusted
    /\ Proxies \subseteq Seq(Trusted)
    /\ Claimed \subseteq Seq(Addresses \cup {Malformed})
    /\ Files \subseteq Seq([id : STRING \ {"sample"}, size : Nat, samples : Seq(Nat)])

VARIABLES
    req,     \* the voice request under way
    sent     \* requests sent so far

voiceVars == <<limiter, req, sent>>

NoRequest == [pc |-> "idle", file |-> <<>>, calls |-> {}, message |-> CHOOSE m \in Messages : TRUE]

\* The peer and the header of a request that came through proxies.
Peer(c, via) == IF via = <<>> THEN c.address ELSE via[Len(via)]
Header(c, via, claimed) ==
    IF via = <<>> THEN claimed ELSE claimed \o <<c.address>> \o SubSeq(via, 1, Len(via) - 1)
KeysOf(f, c, via, claimed) ==
    {Key(f, i) : i \in Identities(f, c.session, Peer(c, via), Header(c, via, claimed))}

\* enforce_sensitive_rate_limit, and enforce_guest_rate_limit for guests
Checked(f, c, via, claimed, refused, admitted) ==
    LET keys == KeysOf(f, c, via, claimed) IN
    /\ sent < MaxSent
    /\ sent' = sent + 1
    /\ \/ Refused(keys) /\ req' = refused
       \/ Admitted(keys) /\ req' = admitted

OtherRequest(f, c, via, claimed) ==
    /\ f \notin {"speech", "transcription"}
    /\ Checked(f, c, via, claimed, req, req)

(***************************************************************************)
(* synthesize_message_speech.                                              *)
(***************************************************************************)
Speakable(m) == m.found /\ m.role = "assistant" /\ ~m.empty
Enabled == Provider \in {"mock", "openai", "voicevox"}

SynthesizeMessageSpeech(c, via, claimed, m) ==
    /\ req.pc = "idle"
    /\ Checked("speech", c, via, claimed, req,
         IF Speakable(m) /\ Enabled
         THEN [NoRequest EXCEPT !.pc = IF Translates THEN "translate" ELSE "synthesize", !.message = m]
         ELSE NoRequest)

TranslateSpeechText ==
    /\ req.pc = "translate"
    /\ \/ req' = [req EXCEPT !.pc = "synthesize", !.calls = @ \cup {"translate"}]
       \/ req' = NoRequest       \* the provider fails or answers with nothing
    /\ UNCHANGED <<limiter, sent>>

\* The cells of a file: every chunk is padded to an even length.
Header8(chunk) == [id |-> chunk.id, n |-> chunk.size]
Sample(n) == [id |-> "sample", n |-> n]
Encoded(file) ==
    LET cells(chunk) == <<Header8(chunk)>> \o [j \in DOMAIN chunk.samples |-> Sample(chunk.samples[j])]
                          \o (IF chunk.size % 2 = 1 THEN <<Sample(0)>> ELSE <<>>)
        upTo[k \in 0 .. Len(file)] == IF k = 0 THEN <<>> ELSE upTo[k - 1] \o cells(file[k])
    IN  upTo[Len(file)]

(***************************************************************************)
(* wav_data_chunk, from the first chunk: the set of the samples of the     *)
(* data chunk, empty when there is none or a chunk is cut short.           *)
(***************************************************************************)
MutNextChunk(index, size) == index + 1 + size
NextChunk(index, size) == index + 1 + size + (size % 2)

WavDataChunk(cells) ==
    LET scan[index \in 1 .. Len(cells) + 2] ==
            IF index > Len(cells) \/ index + cells[index].n > Len(cells) THEN {}
            ELSE CASE cells[index].id = "data" -> {SubSeq(cells, index + 1, index + cells[index].n)}
                   [] cells[index].id = "sample" -> {}      \* samples read as a header: nonsense
                   [] OTHER -> scan[NextChunk(index, cells[index].n)]
    IN  scan[1]

ValidWav(cells) == \E data \in WavDataChunk(cells) : \E k \in DOMAIN data : data[k].n # 0

\* VOICEVOX: audio_query, then synthesis; OpenAI's audio is passed on as it comes.
SynthesizeSpeech ==
    /\ req.pc = "synthesize"
    /\ \/ \E file \in Files :
            req' = IF Provider # "voicevox" \/ ValidWav(Encoded(file))
                   THEN [req EXCEPT !.pc = "played", !.file = file, !.calls = @ \cup {"synthesize"}]
                   ELSE [req EXCEPT !.pc = "failed", !.file = file, !.calls = @ \cup {"synthesize"}]
       \/ req' = NoRequest       \* no sounds to speak, or the engine fails
    /\ UNCHANGED <<limiter, sent>>

(***************************************************************************)
(* transcribe_user_speech: the recording is looked at after the limits.    *)
(***************************************************************************)
TranscribeUserSpeech(c, via, claimed, recording) ==
    /\ req.pc = "idle"
    /\ Checked("transcription", c, via, claimed, req,
         IF recording = "audio" THEN [NoRequest EXCEPT !.pc = "transcribe"] ELSE NoRequest)

TranscriptionEnds ==     \* a text, or an error of the provider
    /\ req.pc = "transcribe"
    /\ req' = NoRequest
    /\ UNCHANGED <<limiter, sent>>

Answer ==
    /\ req.pc \in {"played", "failed"}
    /\ req' = NoRequest
    /\ UNCHANGED <<limiter, sent>>

VoiceInit ==
    /\ LimiterInit
    /\ req = NoRequest
    /\ sent = 0

VoiceNext ==
    \/ \E c \in Clients, via \in Proxies, claimed \in Claimed :
        \/ \E f \in Families : OtherRequest(f, c, via, claimed)
        \/ \E m \in Messages : SynthesizeMessageSpeech(c, via, claimed, m)
        \/ \E x \in Recordings : TranscribeUserSpeech(c, via, claimed, x)
    \/ TranslateSpeechText \/ SynthesizeSpeech \/ TranscriptionEnds \/ Answer
    \/ Tick /\ UNCHANGED <<req, sent>>

VoiceSpec == VoiceInit /\ [][VoiceNext]_voiceVars

-----------------------------------------------------------------------------
(***************************************************************************)
(* No identity gets through with more than twice its limit in any span of  *)
(* the length of a window, wherever its windows happen to start: not a     *)
(* session, not the clients of an address together, not the process.       *)
(***************************************************************************)
LimitKept ==
    \A k \in {a.key : a \in accepted} : AcceptedSince(k, now - Window + 1) <= 2 * MaxRequests(k)

(***************************************************************************)
(* A request is refused only if one of its identities has had its full     *)
(* number of requests accepted within the last window: what was refused    *)
(* for one identity has not been counted for the others.                   *)
(***************************************************************************)
RefusalJustified ==
    refusal # {} => \E k \in refusal : AcceptedSince(k, now - Window + 1) >= MaxRequests(k)

(***************************************************************************)
(* The address a request is counted for is the client's or that of a       *)
(* proxy it came through, never one that only its own header names.        *)
(***************************************************************************)
CountedForItsAddress ==
    \A k \in DOMAIN buckets :
        k[2] \in SessionIds \cup {Global} \cup Trusted \cup {c.address : c \in Clients}

FirstData(file) == {k \in DOMAIN file : file[k].id = "data" /\ \A j \in 1 .. k - 1 : file[j].id # "data"}
Whole(file) == \A k \in DOMAIN file : Len(file[k].samples) = file[k].size
Audible(file) == \E k \in FirstData(file) : \E j \in DOMAIN file[k].samples : file[k].samples[j] # 0

(***************************************************************************)
(* Audio of the VOICEVOX engine is played exactly if its first data chunk, *)
(* behind any other chunks and their padding, is whole and not silent.     *)
(***************************************************************************)
AudibleIsPlayed ==
    (Provider = "voicevox" /\ Whole(req.file)) =>
        /\ req.pc = "played" => Audible(req.file)
        /\ req.pc = "failed" => ~Audible(req.file)
=============================================================================
