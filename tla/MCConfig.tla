------------------------------ MODULE MCConfig ------------------------------
(* Instance of Config: the presets an operator starts from, two variables of a group edited at a time. *)
EXTENDS Config

None == [k \in {} |-> 0]
Texts(t) == [numbers |-> None, texts |-> t]
MCPresets ==
    {Texts([k \in {} |-> "blank"]),
     Texts([AI_PROVIDER |-> "openai", OPENAI_API_KEY |-> "given", AI_VOICE_PROVIDER |-> "openai",
            AI_TRANSCRIPTION_PROVIDER |-> "openai"]),
     Texts([AI_PROVIDER |-> "xai", XAI_API_KEY |-> "given", AI_VOICE_PROVIDER |-> "voicevox",
            VOICEVOX_SPEAKER_ID |-> "given", AI_VOICE_SPEECH_TEXT_POLICY |-> "japanese_translation"]),
     Texts([APP_ENV |-> "production", FRONTEND_ORIGIN |-> "public"]),
     [numbers |-> [CHAT_ATTACHMENT_MAX_CONCURRENT_DECODES |-> 4],
      texts |-> [APP_ENV |-> "production", FRONTEND_ORIGINS |-> "public", AI_PROVIDER |-> "lmstudio",
                 AI_VOICE_PROVIDER |-> "mock", AI_TRANSCRIPTION_PROVIDER |-> "mock", CHAT_TTS_ENABLED |-> "true",
                 CHAT_TRANSCRIPTION_ENABLED |-> "true", CHAT_IMAGE_UPLOAD_ENABLED |-> "true"]]}
Proxies == {"TRUST_PROXY_HEADERS", "TRUSTED_PROXY_CIDRS", "APP_ENV", "CHAT_MAX_CONCURRENT_GENERATIONS"}
MCGroups == {DOMAIN ChatLimits, DOMAIN CafeLimits, DOMAIN AttachmentLimits, DOMAIN Words, Proxies}
=============================================================================
