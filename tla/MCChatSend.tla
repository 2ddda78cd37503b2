----------------------------- MODULE MCChatSend -----------------------------
\* A session of an account and a guest session.
EXTENDS ChatSend

CONSTANTS s1, s2, u1, g1

MCOwnerOf == s1 :> u1 @@ s2 :> g1

\* Text, nothing at all, and a text with too many pictures.
MCPayloads == {[len |-> 1, images |-> <<>>], [len |-> 0, images |-> <<>>],
               [len |-> 1, images |-> <<1, 1>>]}
=============================================================================
