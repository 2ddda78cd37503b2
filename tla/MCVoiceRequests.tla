--------------------------- MODULE MCVoiceRequests --------------------------
(* Instance of VoiceRequests: two clients behind one address, one of them also reachable through proxies. *)
EXTENDS VoiceRequests, TLC

CONSTANTS s1, s2, home, fake, p1, p2

MCSymmetry == Permutations({s1, s2})
MCClients == {[session |-> s1, address |-> home], [session |-> s2, address |-> home]}
MCProxies == {<<>>, <<p1, p2>>}
MCClaimed == {<<>>, <<fake>>, <<Malformed>>}
MCLimit == [f \in Families |-> IF f = "speech" THEN 2 ELSE 1]
MCProcessLimit == [f \in Families |-> 2]
MCMessages == {[found |-> TRUE, role |-> "assistant", empty |-> FALSE],
               [found |-> TRUE, role |-> "user", empty |-> FALSE]}
Chunk(id, samples) == [id |-> id, size |-> Len(samples), samples |-> samples]
MCFiles == {<<Chunk("data", <<0, 1>>)>>, <<Chunk("data", <<0>>)>>, <<Chunk("data", <<>>)>>,
            <<Chunk("fmt", <<1>>), Chunk("data", <<1>>)>>,
            <<Chunk("fmt", <<1, 2>>), Chunk("list", <<1>>), Chunk("data", <<0, 0>>)>>,
            <<Chunk("fmt", <<1>>)>>, <<>>,
            <<[id |-> "data", size |-> 3, samples |-> <<1>>]>>}
=============================================================================
