-------------------------- MODULE MCProviderStream --------------------------
(* Instance of ProviderStream: terms, beginnings of terms and other text, next to each other. *)
EXTENDS ProviderStream

Fragments == {Krap, Kap, Phom, <<"no", "a">>, <<"x">>, <<"kho">>}
MCLetters == Thai \cup {"x"}
MCReplies == {<<>>} \cup {f \o g : f, g \in Fragments}
=============================================================================
