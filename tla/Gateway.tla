------------------------------ MODULE Gateway ------------------------------
(***************************************************************************)
(* The request handler of gateway/main.go: authenticate, ask the limiter,  *)
(* proxy, and report a failed answer to the limiter.  Handlers run         *)
(* concurrently.  The two limiters of middleware/ratelimit.go are the      *)
(* modules MemoryGateway and RedisGateway; here is what they share.        *)
(*                                                                         *)
(* A request is used once.  The limiters' lists of times are sets of       *)
(* requests: the times are in stamp (of a hit) and failStamp (of a         *)
(* failure), so two hits at one time stay two.                             *)
(***************************************************************************)
EXTENDS Integers, FiniteSets

CONSTANTS
    Request,            \* bound: the requests there will be
    ApiKey, KeyOf,      \* the keys clients present, and the one of a request
    Allowed,            \* API_KEYS
    Limit, Window,      \* RATE_LIMIT_PER_MIN, a minute
    FailLimit, FailWindow,  \* CIRCUIT_FAIL_LIMIT, CIRCUIT_WINDOW_SEC
    MaxTime             \* bound: the clock

ASSUME GatewayAssumption ==
    /\ IsFiniteSet(Request)
    /\ KeyOf \in [Request -> ApiKey] /\ Allowed \subseteq ApiKey
    /\ Limit \in Nat /\ FailLimit \in Nat
    /\ Window \in Nat \ {0} /\ FailWindow \in Nat \ {0}
    /\ MaxTime \in Nat

VARIABLES
    pc,                 \* where each request is
    stamp, failStamp,   \* now in its Allow, and in its RecordFailure
    hits, fails,        \* of each key: the requests the limiter remembers
    now

handler == <<pc, stamp, failStamp>>
store == <<hits, fails>>
gvars == <<handler, store, now>>

Never == -1

\* "allow" to "failed" are waiting; a request ends "served", "denied" (429),
\* "unserved" (401, 503, gateway gone) or "unrecorded" (served, but its failure was
\* not reported).  The Redis limiter adds stages of its own, the commands it
\* sends: those of Asking to allow a request, those of Reporting a failure.
Asking == {"trim", "card", "add", "expire", "circuit"}
Reporting == {"trimFails", "addFail", "expireFails"}
Final == {"served", "denied", "unserved", "unrecorded"}
Stage == {"new", "allow", "proxy", "failed"} \cup Final

GInit ==
    /\ pc = [r \in Request |-> "new"]
    /\ stamp = [r \in Request |-> Never] /\ failStamp = [r \in Request |-> Never]
    /\ hits = [k \in ApiKey |-> {}] /\ fails = [k \in ApiKey |-> {}]
    /\ now = 0

GoTo(r, stage) == pc' = [pc EXCEPT ![r] = stage]

\* A request comes in; only the keys of API_KEYS reach the limiter.
Authenticate(r) ==
    /\ pc[r] = "new"
    /\ GoTo(r, IF KeyOf[r] \in Allowed THEN "allow" ELSE "unserved")
    /\ UNCHANGED <<stamp, failStamp, store, now>>

\* The upstream answers, or the proxy does for it with a 502; ServeHTTP may
\* also panic in the middle of a failed answer, which then goes unreported.
Proxy(r) ==
    /\ pc[r] = "proxy"
    /\ \E stage \in {"served", "failed", "unrecorded"} : GoTo(r, stage)
    /\ UNCHANGED <<stamp, failStamp, store, now>>

\* The hits of a list that are younger than w at time t: ones at t - w go.
Younger(list, times, t, w) == {r \in list : t - w < times[r]}

\* The stages of a request that was let through.
Through == {"proxy", "failed", "served", "unrecorded"} \cup Reporting

Admitted == {r \in Request : pc[r] \in Through}

\* Requests of r's key that came to the limiter within the window of time t.
Asked(r, t) ==
    {s \in Request \ {r} : /\ KeyOf[s] = KeyOf[r] /\ stamp[s] # Never
                           /\ t - Window < stamp[s]}

Failures(r, t) ==
    {s \in Request : /\ KeyOf[s] = KeyOf[r] /\ failStamp[s] # Never
                     /\ t - FailWindow <= failStamp[s]}

\* Those of them whose recording is complete, at the boundary left out.
Recorded(r, t) ==
    {s \in Failures(r, t) : pc[s] = "served" /\ t - FailWindow < failStamp[s]}

-----------------------------------------------------------------------------
(* Properties of either limiter.                                           *)

\* "At least FailLimit failures in the window open the circuit"
\* (docs/PRODUCTION_ROADMAP.md:81): no request is admitted at a time when so
\* many recorded failures of its key are inside the window.
CircuitRespected ==
    [][\A r \in Request : pc[r] # "proxy" /\ pc'[r] = "proxy" =>
          Cardinality(Recorded(r, now)) < FailLimit]_gvars

\* A client that keeps to its rate is served: a 429 means that Limit other
\* requests of the key came to the limiter within the window, or that enough
\* of its requests failed.
QuietClientServed ==
    [][\A r \in Request : pc[r] # "denied" /\ pc'[r] = "denied" =>
          \/ Cardinality(Asked(r, stamp'[r])) >= Limit
          \/ Cardinality(Failures(r, stamp'[r])) >= FailLimit]_gvars

\* The promise of a sliding window, on the times the limiter took.
Promise == INSTANCE SlidingWindow WITH
    at <- [r \in Request |-> IF r \in Admitted THEN stamp[r] ELSE Never]
=============================================================================
