------------------------------ MODULE MCMemory ------------------------------
\* A chat of a guest and a chat of the account it will log into.
EXTENDS Memory

CONSTANTS cg, ca, m1, m2, b1, b2

MCChatOf == m1 :> cg @@ m2 :> ca
MCHomeOf == b1 :> "guest" @@ b2 :> "account"
MCBornTo == cg :> "guest" @@ ca :> "account"

Fact(key, kind, content, words, topics, traits, expires, replace) ==
    [key |-> key, kind |-> kind, content |-> content, words |-> words, topics |-> topics,
     traits |-> traits, conf |-> 90, importance |-> 80, strength |-> 80,
     quoted |-> TRUE, expires |-> expires, replace |-> replace, size |-> 1]

Tea == Fact("drink", "goal", "tea", {"tea"}, {"food"}, {"resolved"}, Never, FALSE)
Coffee == [Fact("drink", "preference", "coffee", {}, {"food"}, {"injection"}, Never, TRUE)
            EXCEPT !.strength = 70]
Trip == Fact("trip", "plan", "trip", {"sea"}, {"travel", "food"}, {}, 1, FALSE)
Exam == Fact("exam", "goal", "exam", {"exam"}, {"food"}, {}, Never, FALSE)
Tonight == Fact("drink", "plan", "late", {}, {}, {"temporary"}, Never, FALSE)

MCOutputs == m1 :> {<<Tea, Trip, Exam>>} @@ m2 :> {<<Tonight, Coffee, Exam>>}
MCQueries == {[words |-> {"sea"}, topics |-> {"food"}]}
=============================================================================
