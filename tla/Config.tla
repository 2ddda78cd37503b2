------------------------------- MODULE Config -------------------------------
(***************************************************************************)
(* How the server starts (main.rs, config.rs, state.rs, app.rs) and what   *)
(* its configuration makes of requests: the environment is parsed and      *)
(* validated, the limiters and the background workers are built from it,   *)
(* and the handlers consult it.                                            *)
(*                                                                         *)
(* An environment is one of the presets with a few variables set by hand.  *)
(* A number is an integer, -1 standing for a text that does not parse; a   *)
(* blank number is the same as none.  A text is a word of a small          *)
(* vocabulary, "blank" when it is empty, and "bad" when nothing accepts    *)
(* it.  The type limits beyond TLC's integers keep only their order.       *)
(***************************************************************************)
EXTENDS Integers, FiniteSets

CONSTANTS
    Presets,     \* environments to start from: [numbers, texts], partial functions
    Groups,      \* sets of variables edited together
    MaxEdits     \* bound on the variables edited in a preset

VARIABLES
    preset,
    numbers,     \* the edited numeric variables
    texts,       \* the edited textual variables
    phase,       \* "editing", "validated", "running", "refused" or "panicked"
    maintained,  \* the Cafe maintenance task runs
    answer       \* the last request, and how it was answered

configVars == <<preset, numbers, texts, phase, maintained, answer>>

\* f where it is defined and g elsewhere.
Overlaid(f, g) == [k \in DOMAIN f \cup DOMAIN g |-> IF k \in DOMAIN f THEN f[k] ELSE g[k]]

U32Max == 1999000000
MaxPermits == 2000000000
I64Max == 2000100000
UsizeMax == 2000200000
MultipartOverhead == 64 * 1024

(***************************************************************************)
(* The numeric variables: fallback, bound in production and type.          *)
(***************************************************************************)
Size(fallback, production) == [fallback |-> fallback, production |-> production, max |-> UsizeMax]
Count(fallback, production) == [fallback |-> fallback, production |-> production, max |-> U32Max]

ChatLimits ==
    [AUTH_GUEST_REQUESTS_PER_MINUTE |-> Count(10, 10),
     AUTH_GUEST_GLOBAL_REQUESTS_PER_MINUTE |-> Count(60, 60),
     CHAT_MESSAGE_MAX_CHARS |-> Size(4000, 16000),
     CHAT_REQUEST_MAX_BYTES |-> Size(65536, 262144),
     CHAT_CONTEXT_MAX_MESSAGES |-> Size(40, 200),
     CHAT_CONTEXT_MAX_CHARS |-> Size(32000, 200000),
     CHAT_OUTPUT_MAX_TOKENS |-> Count(1024, 8192),
     CHAT_OUTPUT_MAX_CHARS |-> Size(16384, 65536),
     CHAT_AI_CONNECT_TIMEOUT_SECONDS |-> Size(10, 30),
     CHAT_AI_TOTAL_TIMEOUT_SECONDS |-> Size(60, 300),
     CHAT_AI_IDLE_TIMEOUT_SECONDS |-> Size(20, 120),
     CHAT_MAX_CONCURRENT_GENERATIONS |-> Size(8, 128),
     CHAT_MAX_CONCURRENT_PER_SESSION |-> Size(2, 8),
     CHAT_REQUESTS_PER_MINUTE |-> Count(20, 20),
     CHAT_GLOBAL_REQUESTS_PER_MINUTE |-> Count(120, 120),
     CHAT_REGISTERED_DAILY_QUOTA |-> Count(50, 50),
     CHAT_GUEST_DAILY_QUOTA |-> Count(50, 50),
     CHAT_GLOBAL_DAILY_GENERATION_LIMIT |-> Count(2000, 2000),
     CHAT_MAX_CHATS_PER_OWNER |-> Size(50, 50),
     CHAT_MAX_MESSAGES_PER_CHAT |-> Size(100, 100),
     CHAT_MAX_STORED_CHARS_PER_CHAT |-> Size(500000, 500000)]
CafeLimits ==
    [CAFE_MAX_SOCKETS_PER_SESSION |-> Size(2, 2),
     CAFE_MAX_SOCKETS_PER_IP |-> Size(32, 32),
     CAFE_MAX_SOCKETS_GLOBAL |-> Size(512, 512),
     CAFE_ROOM_CREATIONS_PER_SESSION |-> Count(5, 5),
     CAFE_ROOM_CREATIONS_PER_IP |-> Count(30, 30),
     CAFE_ROOM_CREATIONS_GLOBAL |-> Count(300, 300),
     CAFE_ROOM_CREATION_WINDOW_SECONDS |-> Size(600, 600),   \* a lower bound
     CAFE_WEBSOCKET_MAX_BYTES |-> Size(16384, 16384),
     CAFE_NEVER_JOINED_TTL_SECONDS |-> Size(600, 600),
     CAFE_EMPTY_ROOM_TTL_SECONDS |-> Size(120, 120),
     CAFE_CLEANUP_INTERVAL_SECONDS |-> Size(30, 30),
     CAFE_TELEMETRY_INTERVAL_SECONDS |-> Size(60, 60)]
MiB == 1024 * 1024
AttachmentLimits ==
    [CHAT_ATTACHMENT_MAX_BYTES |-> Size(10 * MiB, 10 * MiB),
     CHAT_ATTACHMENT_MAX_IMAGES_PER_MESSAGE |-> Size(4, 4),
     CHAT_ATTACHMENT_MAX_WIDTH |-> Count(8192, 8192),
     CHAT_ATTACHMENT_MAX_HEIGHT |-> Count(8192, 8192),
     CHAT_ATTACHMENT_MAX_PIXELS |-> Size(20000000, 20000000),
     CHAT_ATTACHMENT_DECODER_MAX_ALLOC_BYTES |-> Size(128 * MiB, 128 * MiB),
     CHAT_ATTACHMENT_MAX_CONCURRENT_DECODES |-> Size(2, 4),
     CHAT_ATTACHMENT_MAX_TOTAL_BYTES_PER_MESSAGE |-> Size(20 * MiB, 20 * MiB),
     CHAT_ATTACHMENT_MAX_STORAGE_BYTES_PER_OWNER |-> Size(200 * MiB, 200 * MiB)]
Limits == Overlaid(ChatLimits, Overlaid(CafeLimits, AttachmentLimits))

(***************************************************************************)
(* The textual variables and the words they may hold.                      *)
(***************************************************************************)
Flags == {"TRUST_PROXY_HEADERS", "ALLOW_SESSION_HEADER", "CHAT_IMAGE_UPLOAD_ENABLED",
          "CHAT_TRANSCRIPTION_ENABLED", "CHAT_TTS_ENABLED"}
Scales == {"VOICEVOX_SPEED_SCALE", "VOICEVOX_PITCH_SCALE", "VOICEVOX_INTONATION_SCALE",
           "VOICEVOX_VOLUME_SCALE", "VOICEVOX_PRE_PHONEME_LENGTH", "VOICEVOX_POST_PHONEME_LENGTH"}
OptionalTexts == {"OPENAI_API_KEY", "XAI_API_KEY"}
RequiredTexts == {"OPENAI_MODEL", "XAI_MODEL", "LMSTUDIO_MODEL", "AI_VOICE_MODEL", "AI_VOICE_ID",
                  "AI_TRANSCRIPTION_MODEL", "VOICEVOX_BASE_URL", "VOICEVOX_SPEAKER_ID",
                  "CHAT_ATTACHMENT_UPLOAD_DIR"}
OriginLists == [local |-> <<"plain">>, public |-> <<"public">>, two |-> <<"public", "public">>,
                reserved |-> <<"public", "reserved">>, trailing |-> <<"public", "blank">>,
                insecure |-> <<"plain", "public">>, path |-> <<"path">>, address |-> <<"address">>,
                wrapped |-> <<"wrapped">>, blank |-> <<"blank">>]
ChoiceWords ==
    [APP_ENV |-> {"development", "production", "blank", "bad"},
     APP_HOST |-> {"address", "bad"},
     TRUSTED_PROXY_CIDRS |-> {"given", "blank", "bad"},
     FRONTEND_ORIGINS |-> DOMAIN OriginLists,
     FRONTEND_ORIGIN |-> {"local", "public"},
     AI_PROVIDER |-> {"mock", "openai", "xai", "lmstudio", "blank", "bad"},
     AI_VOICE_PROVIDER |-> {"disabled", "mock", "openai", "voicevox", "blank", "bad"},
     AI_TRANSCRIPTION_PROVIDER |-> {"disabled", "mock", "openai", "blank", "bad"},
     AI_VOICE_FORMAT |-> {"mp3", "wav", "bad"},
     AI_VOICE_SPEECH_TEXT_POLICY |-> {"original", "japanese_translation", "bad"}]
Words ==
    [k \in Flags \cup Scales \cup OptionalTexts \cup RequiredTexts \cup DOMAIN ChoiceWords |->
        CASE k \in Flags -> {"true", "false", "blank", "bad"}
          [] k \in Scales -> {"positive", "negative", "infinite", "blank", "bad"}
          [] k \in OptionalTexts \cup RequiredTexts -> {"given", "blank"}
          [] OTHER -> ChoiceWords[k]]
Numbers(k) == {-1, 0, 1, Limits[k].production, Limits[k].production + 1, MaxPermits + 1, I64Max + 1, UsizeMax}

ASSUME ConfigAssumption ==
    \A p \in Presets :
        /\ \A k \in DOMAIN Limits \cap DOMAIN p.numbers : p.numbers[k] \in Int
        /\ \A k \in DOMAIN Words \cap DOMAIN p.texts : p.texts[k] \in Words[k]

(***************************************************************************)
(* Reading the environment.                                                *)
(***************************************************************************)
env_value(k, fallback) ==
    IF k \in DOMAIN texts THEN texts[k]
    ELSE IF k \in DOMAIN preset.texts THEN preset.texts[k] ELSE fallback
optional_env_value(k) == LET v == env_value(k, "blank") IN IF v = "blank" THEN "none" ELSE v
parsed_env_value(k) ==
    IF k \in DOMAIN numbers THEN numbers[k]
    ELSE IF k \in DOMAIN preset.numbers THEN preset.numbers[k] ELSE Limits[k].fallback

environment == env_value("APP_ENV", "development")
is_production == environment = "production"
bool_env_value(k, fallback) ==
    LET v == optional_env_value(k) IN IF v = "none" THEN fallback ELSE v = "true"
allow_session_header == bool_env_value("ALLOW_SESSION_HEADER", ~is_production)
trust_proxy_headers == bool_env_value("TRUST_PROXY_HEADERS", FALSE)
image_upload_enabled == bool_env_value("CHAT_IMAGE_UPLOAD_ENABLED", ~is_production)
transcription_enabled == bool_env_value("CHAT_TRANSCRIPTION_ENABLED", ~is_production)
tts_enabled == bool_env_value("CHAT_TTS_ENABLED", ~is_production)
frontend_origin == OriginLists[env_value("FRONTEND_ORIGINS", env_value("FRONTEND_ORIGIN", "local"))]
ai_provider == env_value("AI_PROVIDER", "mock")
ai_voice_provider == env_value("AI_VOICE_PROVIDER", "disabled")
ai_transcription_provider == env_value("AI_TRANSCRIPTION_PROVIDER", "disabled")
speech_text_policy == env_value("AI_VOICE_SPEECH_TEXT_POLICY", "original")
voice_format == env_value("AI_VOICE_FORMAT", "mp3")

\* What from_env refuses before it validates anything.
parse_trusted_proxy_cidrs == env_value("TRUSTED_PROXY_CIDRS", "blank") # "bad"
optional_f32_env_value(k) == optional_env_value(k) \notin {"bad", "infinite"}
Parses ==
    /\ environment \in {"development", "production"}
    /\ parse_trusted_proxy_cidrs
    /\ \A k \in Flags : optional_env_value(k) # "bad"
    /\ \A k \in Scales : optional_f32_env_value(k)
    /\ \A k \in DOMAIN Limits : parsed_env_value(k) >= 0 /\ parsed_env_value(k) <= Limits[k].max

(***************************************************************************)
(* Config::validate.                                                       *)
(***************************************************************************)
require_non_empty(k) ==
    env_value(k, IF k \in OptionalTexts \cup {"VOICEVOX_SPEAKER_ID"} THEN "blank" ELSE "given") # "blank"

ProviderValid ==
    \/ ai_provider = "mock"
    \/ ai_provider = "openai" /\ require_non_empty("OPENAI_API_KEY") /\ require_non_empty("OPENAI_MODEL")
    \/ ai_provider = "xai" /\ require_non_empty("XAI_API_KEY") /\ require_non_empty("XAI_MODEL")
    \/ ai_provider = "lmstudio" /\ require_non_empty("LMSTUDIO_MODEL")

validate_voice_speech_text_policy == speech_text_policy \in {"original", "japanese_translation"}
validate_voice_format == voice_format \in {"mp3", "wav"}
validate_non_negative_f32(k) == optional_env_value(k) # "negative"
MutVoiceValid ==
    /\ validate_voice_speech_text_policy
    /\ \/ ai_voice_provider \in {"disabled", "mock", "openai"}
       \/ /\ ai_voice_provider = "voicevox"
          /\ require_non_empty("VOICEVOX_BASE_URL") /\ require_non_empty("VOICEVOX_SPEAKER_ID")
VoiceValid ==
    /\ validate_voice_speech_text_policy
    /\ \/ ai_voice_provider \in {"disabled", "mock"}
       \/ /\ ai_voice_provider = "openai"
          /\ \A k \in {"OPENAI_API_KEY", "AI_VOICE_MODEL", "AI_VOICE_ID"} : require_non_empty(k)
          /\ validate_voice_format
       \/ /\ ai_voice_provider = "voicevox"
          /\ require_non_empty("VOICEVOX_BASE_URL") /\ require_non_empty("VOICEVOX_SPEAKER_ID")
          /\ \A k \in Scales \ {"VOICEVOX_PITCH_SCALE"} : validate_non_negative_f32(k)

TranscriptionValid ==
    \/ ai_transcription_provider \in {"disabled", "mock"}
    \/ /\ ai_transcription_provider = "openai"
       /\ require_non_empty("OPENAI_API_KEY") /\ require_non_empty("AI_TRANSCRIPTION_MODEL")

Positive(limits) == \A k \in DOMAIN limits : parsed_env_value(k) # 0
InOrder(k, l) == parsed_env_value(k) <= parsed_env_value(l)
WithinProduction(limits) ==
    \A k \in DOMAIN limits :
        IF k = "CAFE_ROOM_CREATION_WINDOW_SECONDS" THEN parsed_env_value(k) >= limits[k].production
        ELSE parsed_env_value(k) <= limits[k].production

AttachmentsValid ==
    /\ require_non_empty("CHAT_ATTACHMENT_UPLOAD_DIR")
    /\ Positive(AttachmentLimits)
    /\ parsed_env_value("CHAT_ATTACHMENT_MAX_STORAGE_BYTES_PER_OWNER") <= I64Max
    /\ InOrder("CHAT_ATTACHMENT_MAX_BYTES", "CHAT_ATTACHMENT_MAX_TOTAL_BYTES_PER_MESSAGE")
    /\ parsed_env_value("CHAT_ATTACHMENT_MAX_BYTES") + MultipartOverhead <= UsizeMax
    /\ parsed_env_value("CHAT_ATTACHMENT_MAX_CONCURRENT_DECODES") <= MaxPermits
    /\ is_production => WithinProduction(AttachmentLimits)

MutCafeValid ==
    /\ \A k \in DOMAIN CafeLimits \ {"CAFE_TELEMETRY_INTERVAL_SECONDS"} : parsed_env_value(k) # 0
    /\ InOrder("CAFE_MAX_SOCKETS_PER_SESSION", "CAFE_MAX_SOCKETS_PER_IP")
    /\ InOrder("CAFE_MAX_SOCKETS_PER_IP", "CAFE_MAX_SOCKETS_GLOBAL")
    /\ InOrder("CAFE_ROOM_CREATIONS_PER_SESSION", "CAFE_ROOM_CREATIONS_PER_IP")
    /\ InOrder("CAFE_ROOM_CREATIONS_PER_IP", "CAFE_ROOM_CREATIONS_GLOBAL")
CafeValid ==
    /\ Positive(CafeLimits)
    /\ InOrder("CAFE_MAX_SOCKETS_PER_SESSION", "CAFE_MAX_SOCKETS_PER_IP")
    /\ InOrder("CAFE_MAX_SOCKETS_PER_IP", "CAFE_MAX_SOCKETS_GLOBAL")
    /\ InOrder("CAFE_ROOM_CREATIONS_PER_SESSION", "CAFE_ROOM_CREATIONS_PER_IP")
    /\ InOrder("CAFE_ROOM_CREATIONS_PER_IP", "CAFE_ROOM_CREATIONS_GLOBAL")

ChatValid ==
    /\ Positive(ChatLimits)
    /\ InOrder("CHAT_MAX_CONCURRENT_PER_SESSION", "CHAT_MAX_CONCURRENT_GENERATIONS")
    /\ InOrder("CHAT_AI_CONNECT_TIMEOUT_SECONDS", "CHAT_AI_TOTAL_TIMEOUT_SECONDS")
    /\ InOrder("CHAT_AI_IDLE_TIMEOUT_SECONDS", "CHAT_AI_TOTAL_TIMEOUT_SECONDS")
    /\ parsed_env_value("CHAT_MAX_CONCURRENT_GENERATIONS") <= MaxPermits
    /\ trust_proxy_headers => env_value("TRUSTED_PROXY_CIDRS", "blank") # "blank"

\* https, only a host and a port, a public DNS name; the URL parser drops line breaks.
validate_production_origin(origin) == origin \in {"public", "wrapped"}
MutOriginsValid == validate_production_origin(frontend_origin[1])
OriginsValid == \A i \in DOMAIN frontend_origin : validate_production_origin(frontend_origin[i])
ChatWithinProduction == WithinProduction(ChatLimits)
CafeWithinProduction == WithinProduction(CafeLimits)
ProductionValid ==
    ~allow_session_header /\ ChatWithinProduction /\ CafeWithinProduction /\ OriginsValid

Valid ==
    /\ ProviderValid /\ VoiceValid /\ TranscriptionValid
    /\ AttachmentsValid /\ CafeValid /\ ChatValid
    /\ is_production => ProductionValid

bind_addr == env_value("APP_HOST", "address") # "bad"

(***************************************************************************)
(* Starting.                                                               *)
(***************************************************************************)
Quiet == [asked |-> "nothing", reply |-> "none"]
Edited == DOMAIN numbers \cup DOMAIN texts
Editable(k) ==
    /\ phase = "editing"
    /\ \E group \in Groups : Edited \cup {k} \subseteq group
    /\ k \notin Edited /\ Cardinality(Edited) < MaxEdits

SetNumber(k, n) ==
    /\ Editable(k)
    /\ numbers' = Overlaid(numbers, [l \in {k} |-> n])
    /\ UNCHANGED <<preset, texts, phase, maintained, answer>>
SetText(k, word) ==
    /\ Editable(k)
    /\ texts' = Overlaid(texts, [l \in {k} |-> word])
    /\ UNCHANGED <<preset, numbers, phase, maintained, answer>>

\* Config::from_env and bind_addr.
LoadConfig ==
    /\ phase = "editing"
    /\ phase' = IF Parses /\ Valid /\ bind_addr THEN "validated" ELSE "refused"
    /\ UNCHANGED <<preset, numbers, texts, maintained, answer>>

\* Semaphore::new panics above its maximum, interval_at with a period of zero, and the
\* addition of a duration to the clock beyond its range.
Permits == {"CHAT_MAX_CONCURRENT_GENERATIONS", "CHAT_ATTACHMENT_MAX_CONCURRENT_DECODES"}
Intervals == {"CAFE_CLEANUP_INTERVAL_SECONDS", "CAFE_TELEMETRY_INTERVAL_SECONDS"}
BeyondClock(k) == parsed_env_value(k) > I64Max - 1
TaskStarts == \A k \in Intervals : parsed_env_value(k) # 0 /\ ~BeyondClock(k)

\* The rate limiter is built from the four limits that can be configured.
policies ==
    [guest_sessions |-> parsed_env_value("AUTH_GUEST_REQUESTS_PER_MINUTE"),
     guest_global |-> parsed_env_value("AUTH_GUEST_GLOBAL_REQUESTS_PER_MINUTE"),
     chat_messages |-> parsed_env_value("CHAT_REQUESTS_PER_MINUTE"),
     chat_global |-> parsed_env_value("CHAT_GLOBAL_REQUESTS_PER_MINUTE"),
     assistant_speech |-> 10, user_transcription |-> 6, image_upload |-> 12]

\* AppState::build: the database answers; the maintenance task panics on its own.
Build ==
    /\ phase = "validated"
    /\ phase' = IF \A k \in Permits : parsed_env_value(k) <= MaxPermits THEN "running" ELSE "panicked"
    /\ maintained' = (phase' = "running" /\ TaskStarts)
    /\ UNCHANGED <<preset, numbers, texts, answer>>
DatabaseUnavailable ==
    /\ phase = "validated"
    /\ phase' = "refused"
    /\ UNCHANGED <<preset, numbers, texts, maintained, answer>>

(***************************************************************************)
(* Requests to a running server: the provider a request reaches, or the    *)
(* refusal that only a configuration can cause.  Failures of the providers *)
(* themselves are left out.                                                *)
(***************************************************************************)
KeyGiven(k) == optional_env_value(k) # "none"
ChatReply ==
    CASE ai_provider \in {"mock", "lmstudio"} -> "served"
      [] ai_provider = "openai" -> IF KeyGiven("OPENAI_API_KEY") THEN "served" ELSE "no key"
      [] ai_provider = "xai" -> IF KeyGiven("XAI_API_KEY") THEN "served" ELSE "no key"
      [] OTHER -> "unknown provider"
\* ensure_provider_supports_messages
ProviderTakesImages == ai_provider \in {"mock", "openai"}

(***************************************************************************)
(* An image is uploaded, then sent in a message of its own.  The samples   *)
(* have the limits they are measured against, or one more.                 *)
(***************************************************************************)
UploadSample(bytes, width, height, format) == [bytes |-> bytes, width |-> width, height |-> height, format |-> format]
Shapes == {<<8192, 2441, "webp">>, <<8192, 2442, "jpeg">>, <<1, 1, "gif">>, <<1, 1, "truncated png">>}
Samples ==
    {UploadSample(parsed_env_value("CHAT_ATTACHMENT_MAX_BYTES"), 1, 1, "png")}
        \cup {UploadSample(1024, shape[1], shape[2], shape[3]) : shape \in Shapes}
detect_supported_image_format(image) == image.format \in {"png", "jpeg", "webp", "truncated png"}
\* The decoder holds three bytes for each pixel.
Pixels(image) == image.width * image.height
validate_image_attachment(image) ==
    IF image.bytes > parsed_env_value("CHAT_ATTACHMENT_MAX_BYTES") THEN "image size limit"
    ELSE IF ~detect_supported_image_format(image) THEN "invalid image"
    ELSE IF image.width > parsed_env_value("CHAT_ATTACHMENT_MAX_WIDTH") THEN "image size limit"
    ELSE IF image.height > parsed_env_value("CHAT_ATTACHMENT_MAX_HEIGHT") THEN "image size limit"
    ELSE IF Pixels(image) > parsed_env_value("CHAT_ATTACHMENT_MAX_PIXELS") THEN "image size limit"
    ELSE IF 3 * Pixels(image) > parsed_env_value("CHAT_ATTACHMENT_DECODER_MAX_ALLOC_BYTES") THEN "image size limit"
    ELSE IF image.format = "truncated png" THEN "invalid image"
    ELSE "valid"
StorageReply(image) ==
    IF image.bytes > parsed_env_value("CHAT_ATTACHMENT_MAX_STORAGE_BYTES_PER_OWNER") THEN "image storage limit" ELSE "stored"
\* validate_message_attachment_requests and add_attachment_byte_size
MessageReply(image) ==
    IF parsed_env_value("CHAT_ATTACHMENT_MAX_IMAGES_PER_MESSAGE") < 1 THEN "image count limit"
    ELSE IF image.bytes > parsed_env_value("CHAT_ATTACHMENT_MAX_TOTAL_BYTES_PER_MESSAGE") THEN "message size limit"
    ELSE IF ~ProviderTakesImages THEN "unsupported"
    ELSE ChatReply
ImageReply(image) ==
    IF ~image_upload_enabled THEN "no route"
    ELSE IF validate_image_attachment(image) # "valid" THEN validate_image_attachment(image)
    ELSE IF StorageReply(image) # "stored" THEN StorageReply(image)
    ELSE MessageReply(image)

SpeechTextDerived ==
    \/ speech_text_policy = "original"
    \/ speech_text_policy = "japanese_translation" /\ ai_provider \in {"mock", "openai", "lmstudio", "xai"}
SpeechReply ==
    IF ~tts_enabled THEN "no route"
    ELSE IF ai_voice_provider = "disabled" THEN "disabled"
    ELSE IF ai_voice_provider \notin {"mock", "openai", "voicevox"} THEN "not configured"
    ELSE IF ~SpeechTextDerived THEN "unsupported"
    ELSE IF ai_voice_provider # "openai" THEN "served"
    ELSE IF ~KeyGiven("OPENAI_API_KEY") THEN "no key"
    ELSE IF voice_format \in {"mp3", "wav"} THEN "served" ELSE "unsupported"
TranscriptionReply ==
    IF ~transcription_enabled THEN "no route"
    ELSE IF ai_transcription_provider = "mock" THEN "served"
    ELSE IF ai_transcription_provider = "openai" THEN (IF KeyGiven("OPENAI_API_KEY") THEN "served" ELSE "no key")
    ELSE IF ai_transcription_provider = "disabled" THEN "disabled"
    ELSE "not configured"
\* Config::active_model, as the administrator reads it
active_model == IF ai_provider \in {"openai", "lmstudio", "xai", "mock"} THEN "served" ELSE "unknown provider"

\* get_chat_ui_config
Advertised ==
    (IF image_upload_enabled THEN {"image"} ELSE {})
        \cup (IF tts_enabled /\ ai_voice_provider \in {"mock", "openai", "voicevox"} THEN {"speech"} ELSE {})
        \cup (IF transcription_enabled /\ ai_transcription_provider \in {"mock", "openai"}
              THEN {"transcription"} ELSE {})

Reply(kind) == CASE kind = "chat" -> ChatReply
                 [] kind = "speech" -> SpeechReply
                 [] kind = "transcription" -> TranscriptionReply
                 [] kind = "model" -> active_model

\* session_id_from_headers: the cookie, or the header where it is allowed.
session_id_from_headers(credential) == credential = "cookie" \/ (allow_session_header /\ credential = "header")
Answered(kind, credential, reply) ==
    /\ phase = "running"
    /\ answer = Quiet
    /\ answer' = [asked |-> kind, credential |-> credential,
                  reply |-> IF session_id_from_headers(credential) THEN reply ELSE "forbidden"]
    /\ UNCHANGED <<preset, numbers, texts, phase, maintained>>
Ask(kind, credential) == Answered(kind, credential, Reply(kind))
AskWithImage(image, credential) == Answered("image", credential, ImageReply(image))

\* The cookie a new session gets, and the origins the browser may call from.
should_use_secure_cookie ==
    is_production \/ \E i \in DOMAIN frontend_origin : frontend_origin[i] \notin {"plain", "blank"}
parse_frontend_origins ==
    LET readable == {frontend_origin[i] : i \in DOMAIN frontend_origin} \ {"wrapped"}
    IN  IF readable = {} THEN {"plain"} ELSE readable

ConfigInit ==
    /\ preset \in Presets
    /\ numbers = [k \in {} |-> 0] /\ texts = [k \in {} |-> "blank"]
    /\ phase = "editing"
    /\ maintained = FALSE
    /\ answer = Quiet

Kinds == {"chat", "speech", "transcription", "model"}
Credentials == {"cookie", "header"}
ConfigNext ==
    \/ \E k \in DOMAIN Limits : \E n \in Numbers(k) : SetNumber(k, n)
    \/ \E k \in DOMAIN Words : \E word \in Words[k] : SetText(k, word)
    \/ LoadConfig
    \/ Build
    \/ DatabaseUnavailable
    \/ \E kind \in Kinds, credential \in Credentials : Ask(kind, credential)
    \/ \E image \in Samples, credential \in Credentials : AskWithImage(image, credential)

ConfigSpec == ConfigInit /\ [][ConfigNext]_configVars

(***************************************************************************)
(* Properties                                                              *)
(***************************************************************************)

(* A configuration that passes validation builds: no limiter is created beyond what a semaphore holds, no rate limit
   refuses everything, and the Cafe maintenance task of a running server works, except in development with an interval
   the clock cannot reach (Config::validate against AppState::build and spawn_cafe_maintenance). *)
ValidatedStarts ==
    /\ phase # "panicked"
    /\ phase = "running" => \A family \in DOMAIN policies : policies[family] >= 1
    /\ phase = "running" => maintained \/ (~is_production /\ \E k \in Intervals : BeyondClock(k))

UploadRefusals == {"invalid image", "image size limit", "image storage limit"}

(* No request of a running server is refused for what its configuration lacks: chats are served, speech and
   transcription are served exactly when get_chat_ui_config offers them, and an image the upload accepts is refused in
   a message only by a provider that takes none, never for its size. *)
AdvertisedIsServed ==
    answer # Quiet /\ answer.reply # "forbidden" =>
        CASE answer.asked \in {"chat", "model"} -> answer.reply = "served"
          [] answer.asked = "image" ->
                \/ answer.reply \in UploadRefusals \cup {"served"}
                \/ "image" \notin Advertised
                \/ answer.reply = "unsupported" /\ ai_provider \in {"xai", "lmstudio"}
          [] OTHER -> (answer.reply = "served") = (answer.asked \in Advertised)

(* A production server takes sessions from cookies only, marks the cookie Secure, and lets browsers call it only from
   public https origins, unless every configured one holds a line break (validate_security_config, session.rs and
   parse_frontend_origins read the same text differently). *)
ProductionSealed ==
    phase = "running" /\ is_production =>
        /\ should_use_secure_cookie
        /\ answer # Quiet => answer.credential = "cookie" \/ answer.reply = "forbidden"
        /\ \/ parse_frontend_origins = {"public"}
           \/ \A i \in DOMAIN frontend_origin : frontend_origin[i] = "wrapped"

=============================================================================
