---------------------------- MODULE RateLimiter -----------------------------
(***************************************************************************)
(* The request rate limiter of a process (rate_limit.rs): fixed windows    *)
(* counted in memory for each family of requests and identity, and the     *)
(* address that counts as the client's.  check_many holds the mutex, so it *)
(* is one step.  A tick of the clock is a part of the window.              *)
(***************************************************************************)
EXTENDS Integers, FiniteSets, Functions

CONSTANTS
    Families,          \* families of requests in use
    SessionIds,        \* sessions that requests come with
    Addresses,         \* addresses of clients and of proxies
    Trusted,           \* trusted_proxy_cidrs
    TrustProxyHeaders, \* trust_proxy_headers
    Limit,             \* max_requests of a family for a session or an address
    ProcessLimit,      \* max_requests of a family for the process
    Window,            \* DEFAULT_WINDOW, in ticks
    Horizon            \* bound on the clock

ASSUME RateLimiterAssumption ==
    /\ Trusted \subseteq Addresses
    /\ Limit \in [Families -> Nat \ {0}]
    /\ ProcessLimit \in [Families -> Nat \ {0}]
    /\ Window \in Nat \ {0}
    /\ Horizon \in Nat

VARIABLES
    buckets,     \* from keys (a family and an identity) to [start, count]
    now,
    accepted,    \* history: the requests let through in the last Window ticks, [key, at, nth]
    refusal      \* history: the keys of the last request refused at this tick

limiter == <<buckets, now, accepted, refusal>>

Global == "global"
Malformed == "malformed"   \* an entry of the header that is not an address
Key(f, i) == <<f, i>>
MaxRequests(key) == IF key[2] = Global THEN ProcessLimit[key[1]] ELSE Limit[key[1]]

(***************************************************************************)
(* client_ip_from_request.  A request comes from a peer with the addresses *)
(* of its x-forwarded-for header, <<>> when there is none, several or an   *)
(* empty one.  A trusted proxy appends the address it was called from.     *)
(***************************************************************************)
MutLastUntrusted(h) == LET S == {k \in DOMAIN h : h[k] \notin Trusted}
                       IN  IF S = {} THEN 0 ELSE CHOOSE k \in S : \A j \in S : k <= j
LastUntrusted(h) == LET S == {k \in DOMAIN h : h[k] \notin Trusted}
                    IN  IF S = {} THEN 0 ELSE CHOOSE k \in S : \A j \in S : j <= k

ClientIp(peer, header) ==
    LET readable == TrustProxyHeaders /\ peer \in Trusted /\ \A k \in DOMAIN header : header[k] # Malformed
        k == LastUntrusted(header)
    IN  IF readable /\ k > 0 THEN header[k] ELSE peer

\* Guest sessions have no session yet; guests and chats also count for the process.
Identities(f, s, peer, header) ==
    (IF f = "guest" THEN {} ELSE {s})
        \cup {ClientIp(peer, header)}
        \cup (IF f \in {"guest", "chat"} THEN {Global} ELSE {})

(***************************************************************************)
(* check_many: drop the windows that are over, open the missing ones, and  *)
(* count the request for all its identities, or for none if one of them    *)
(* is at its limit.  The identities are looked at in some order, and a     *)
(* refusal leaves the windows opened before it.                            *)
(***************************************************************************)
Retained == {k \in DOMAIN buckets : now - buckets[k].start < Window}
CountOf(k) == IF k \in Retained THEN buckets[k].count ELSE 0
AtLimit(keys) == {k \in keys : CountOf(k) >= MaxRequests(k)}
StartOf(k) == IF k \in Retained THEN buckets[k].start ELSE now
Opened(keys) == [k \in Retained \cup keys |-> [start |-> StartOf(k), count |-> CountOf(k)]]
\* The session comes before the address and the address before the process.
Before(k, l) == k[2] \in SessionIds \/ l[2] = Global
OpenedBefore(keys) == {k \in keys : \A l \in AtLimit(keys) : k # l /\ Before(k, l)}

MutRefused(keys) ==
    /\ AtLimit(keys) # {}
    /\ buckets' = [k \in DOMAIN Opened(OpenedBefore(keys)) |->
                     IF k \in OpenedBefore(keys) THEN [start |-> StartOf(k), count |-> CountOf(k) + 1]
                     ELSE Opened(OpenedBefore(keys))[k]]
    /\ refusal' = keys
    /\ UNCHANGED <<now, accepted>>
Refused(keys) ==
    /\ AtLimit(keys) # {}
    /\ buckets' = Opened(OpenedBefore(keys))
    /\ refusal' = keys
    /\ UNCHANGED <<now, accepted>>

AcceptedSince(k, t) == Cardinality({a \in accepted : a.key = k /\ a.at >= t})

MutCounted(keys) == {k \in keys : k[2] \in SessionIds}
Counted(keys) == keys

Admitted(keys) ==
    /\ AtLimit(keys) = {}
    /\ buckets' = [k \in Retained \cup keys |->
                     [start |-> StartOf(k), count |-> CountOf(k) + (IF k \in Counted(keys) THEN 1 ELSE 0)]]
    /\ accepted' = accepted \cup {[key |-> k, at |-> now, nth |-> AcceptedSince(k, now)] : k \in keys}
    /\ UNCHANGED <<now, refusal>>

Tick ==
    /\ now < Horizon
    /\ now' = now + 1
    /\ accepted' = {a \in accepted : a.at > now + 1 - Window}
    /\ refusal' = {}
    /\ UNCHANGED buckets

LimiterInit ==
    /\ buckets = [k \in {} |-> [start |-> 0, count |-> 0]]
    /\ now = 0
    /\ accepted = {}
    /\ refusal = {}
=============================================================================
