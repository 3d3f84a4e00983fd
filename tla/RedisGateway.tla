---------------------------- MODULE RedisGateway ----------------------------
(***************************************************************************)
(* Gateways with the RedisLimiter of middleware/ratelimit.go on one Redis. *)
(* A go-redis Pipeline sends its commands together and is no transaction:  *)
(* between any two of them the server may run another client's, so each    *)
(* command is an action.  The clock is read once, before the first.        *)
(*                                                                         *)
(* The sorted sets rate_limit:key and circuit:key are hits and fails; the  *)
(* members are told apart by their UnixNano, here by the request.          *)
(***************************************************************************)
EXTENDS Gateway

CONSTANTS
    MaxInFlight,    \* bound: requests in an Allow at a time
    MaxDelay        \* bound: from reading the clock to the first command

ASSUME RedisAssumption ==
    MaxInFlight \in Nat \ {0} /\ MaxDelay \in 0..(Window - 1)

VARIABLES
    count,          \* what the ZCARD of each request returned, 0 when looked at
    hitsExpire, failsExpire     \* when Redis drops each set, or Never

ttls == <<hitsExpire, failsExpire>>
rvars == <<gvars, count, ttls>>

Started == {"card", "add", "expire", "addFail", "expireFails"}

\* Every entry of a set has its score.
RTypeOK ==
    /\ pc \in [Request -> Stage \cup Asking \cup Reporting]
    /\ stamp \in [Request -> 0..MaxTime \cup {Never}]
    /\ failStamp \in [Request -> 0..MaxTime \cup {Never}]
    /\ hits \in [ApiKey -> SUBSET Request] /\ fails \in [ApiKey -> SUBSET Request]
    /\ now \in 0..MaxTime
    /\ count \in [Request -> Nat]
    /\ hitsExpire \in [ApiKey -> Nat \cup {Never}]
    /\ failsExpire \in [ApiKey -> Nat \cup {Never}]
    /\ \A k \in ApiKey : /\ \A r \in hits[k] : stamp[r] # Never
                         /\ \A r \in fails[k] : failStamp[r] # Never

RInit ==
    /\ GInit
    /\ count = [r \in Request |-> 0]
    /\ hitsExpire = [k \in ApiKey |-> Never] /\ failsExpire = [k \in ApiKey |-> Never]

-----------------------------------------------------------------------------
(* Allow: ZREMRANGEBYSCORE, ZCARD, ZADD, PEXPIRE in a pipeline, then ZCOUNT.  *)

InFlight == {r \in Request : pc[r] \in Asking}

BeginAllow(r) ==
    /\ pc[r] = "allow" /\ Cardinality(InFlight) < MaxInFlight
    /\ stamp' = [stamp EXCEPT ![r] = now]
    /\ GoTo(r, "trim")
    /\ UNCHANGED <<failStamp, store, now, count, ttls>>

\* Mutant of TrimHits: the cutoff is now, the window is not taken off.
TrimHits_now(r) ==
    LET k == KeyOf[r]
        kept == Younger(hits[k], stamp, stamp[r], 0)
    IN /\ pc[r] = "trim"
       /\ hits' = [hits EXCEPT ![k] = kept]
       /\ hitsExpire' = [hitsExpire EXCEPT ![k] = IF kept = {} THEN Never ELSE @]
       /\ GoTo(r, "card")
       /\ UNCHANGED <<stamp, failStamp, fails, now, count, failsExpire>>

\* Redis drops a set that is emptied, and its expiry with it.
TrimHits(r) ==
    LET k == KeyOf[r]
        kept == Younger(hits[k], stamp, stamp[r], Window)
    IN /\ pc[r] = "trim"
       /\ hits' = [hits EXCEPT ![k] = kept]
       /\ hitsExpire' = [hitsExpire EXCEPT ![k] = IF kept = {} THEN Never ELSE @]
       /\ GoTo(r, "card")
       /\ UNCHANGED <<stamp, failStamp, fails, now, count, failsExpire>>

\* Mutant of CountHits: the request counts itself.
CountHits_itself(r) ==
    /\ pc[r] = "card"
    /\ count' = [count EXCEPT ![r] = Cardinality(hits[KeyOf[r]] \cup {r})]
    /\ GoTo(r, "add")
    /\ UNCHANGED <<stamp, failStamp, store, now, ttls>>

CountHits(r) ==
    /\ pc[r] = "card"
    /\ count' = [count EXCEPT ![r] = Cardinality(hits[KeyOf[r]])]
    /\ GoTo(r, "add")
    /\ UNCHANGED <<stamp, failStamp, store, now, ttls>>

\* Whatever the count, the request is a hit.
AddHit(r) ==
    /\ pc[r] = "add"
    /\ hits' = [hits EXCEPT ![KeyOf[r]] = @ \cup {r}]
    /\ GoTo(r, "expire")
    /\ UNCHANGED <<stamp, failStamp, fails, now, count, ttls>>

\* The last command of the pipeline, and what Allow makes of the count.
ExpireHits(r) ==
    LET k == KeyOf[r]
    IN /\ pc[r] = "expire"
       /\ hitsExpire' = [hitsExpire EXCEPT ![k] =
                           IF hits[k] = {} THEN Never ELSE now + Window]
       /\ GoTo(r, IF count[r] >= Limit THEN "denied" ELSE "circuit")
       /\ count' = [count EXCEPT ![r] = 0]
       /\ UNCHANGED <<stamp, failStamp, store, now, failsExpire>>

\* ZCOUNT includes the failures exactly FailWindow old.
CheckCircuit(r) ==
    /\ pc[r] = "circuit"
    /\ LET recent == {s \in fails[KeyOf[r]] : stamp[r] - FailWindow <= failStamp[s]}
       IN GoTo(r, IF Cardinality(recent) >= FailLimit THEN "denied" ELSE "proxy")
    /\ UNCHANGED <<stamp, failStamp, store, now, count, ttls>>

-----------------------------------------------------------------------------
(* RecordFailure: ZREMRANGEBYSCORE, ZADD, PEXPIRE; the ZCARD is only logged.  *)

\* Mutant of BeginRecord: the clock is not read.
BeginRecord_noClock(r) ==
    /\ pc[r] = "failed"
    /\ GoTo(r, "trimFails")
    /\ UNCHANGED <<stamp, failStamp, store, now, count, ttls>>

BeginRecord(r) ==
    /\ pc[r] = "failed"
    /\ failStamp' = [failStamp EXCEPT ![r] = now]
    /\ GoTo(r, "trimFails")
    /\ UNCHANGED <<stamp, store, now, count, ttls>>

\* Mutant of TrimFails: the set is deleted instead.
TrimFails_all(r) ==
    /\ pc[r] = "trimFails"
    /\ fails' = [fails EXCEPT ![KeyOf[r]] = {}]
    /\ failsExpire' = [failsExpire EXCEPT ![KeyOf[r]] = Never]
    /\ GoTo(r, "addFail")
    /\ UNCHANGED <<stamp, failStamp, hits, now, count, hitsExpire>>

TrimFails(r) ==
    LET k == KeyOf[r]
        kept == Younger(fails[k], failStamp, failStamp[r], FailWindow)
    IN /\ pc[r] = "trimFails"
       /\ fails' = [fails EXCEPT ![k] = kept]
       /\ failsExpire' = [failsExpire EXCEPT ![k] = IF kept = {} THEN Never ELSE @]
       /\ GoTo(r, "addFail")
       /\ UNCHANGED <<stamp, failStamp, hits, now, count, hitsExpire>>

AddFail(r) ==
    /\ pc[r] = "addFail"
    /\ fails' = [fails EXCEPT ![KeyOf[r]] = @ \cup {r}]
    /\ GoTo(r, "expireFails")
    /\ UNCHANGED <<stamp, failStamp, hits, now, count, ttls>>

ExpireFails(r) ==
    LET k == KeyOf[r]
    IN /\ pc[r] = "expireFails"
       /\ failsExpire' = [failsExpire EXCEPT ![k] =
                            IF fails[k] = {} THEN Never ELSE now + FailWindow]
       /\ GoTo(r, "served")
       /\ UNCHANGED <<stamp, failStamp, store, now, count, hitsExpire>>

-----------------------------------------------------------------------------

\* An error of Redis, a client that is gone, a gateway that dies: a request
\* that was asking gets a 503, a failure stays unreported; commands that were
\* run stay run.
Fail(r) ==
    /\ pc[r] \in Asking \cup Reporting
    /\ GoTo(r, IF pc[r] \in Asking THEN "unserved" ELSE "unrecorded")
    /\ count' = [count EXCEPT ![r] = 0]
    /\ UNCHANGED <<stamp, failStamp, store, now, ttls>>

Live(set, expire, t) == IF expire # Never /\ expire <= t THEN {} ELSE set

\* Time passes; Redis drops the sets whose expiry has come.  A bound: the
\* commands of one pipeline run within one unit of time.
Tick ==
    /\ now < MaxTime /\ now' = now + 1
    /\ \A r \in Request : /\ pc[r] \notin Started
                          /\ pc[r] = "trim" => now - stamp[r] < MaxDelay
    /\ hits' = [k \in ApiKey |-> Live(hits[k], hitsExpire[k], now')]
    /\ fails' = [k \in ApiKey |-> Live(fails[k], failsExpire[k], now')]
    /\ hitsExpire' = [k \in ApiKey |->
                        IF hitsExpire[k] <= now' THEN Never ELSE hitsExpire[k]]
    /\ failsExpire' = [k \in ApiKey |->
                        IF failsExpire[k] <= now' THEN Never ELSE failsExpire[k]]
    /\ UNCHANGED <<handler, count>>

AllowStep(r) ==
    \/ BeginAllow(r) \/ TrimHits(r) \/ CountHits(r) \/ AddHit(r) \/ ExpireHits(r)
    \/ CheckCircuit(r)

RecordStep(r) == BeginRecord(r) \/ TrimFails(r) \/ AddFail(r) \/ ExpireFails(r)

RServe(r) ==
    \/ (Authenticate(r) \/ Proxy(r)) /\ UNCHANGED <<count, ttls>>
    \/ AllowStep(r) \/ RecordStep(r) \/ Fail(r)

RNext == (\E r \in Request : RServe(r)) \/ Tick

RSpec == RInit /\ [][RNext]_rvars

-----------------------------------------------------------------------------
(* Properties, besides those of Gateway.                                   *)

\* Between one request's ZCARD and its ZADD others may count too, and a
\* request may find the set trimmed later than its own time: what remains of
\* the limit is that a stretch shorter than the window by the longest delay
\* sees fewer than Limit + MaxInFlight admitted requests.
OvershootBounded ==
    \A k \in Allowed, t \in 0..now :
        Cardinality({r \in Promise!Recent(k, t) : t - (Window - MaxDelay) < stamp[r]})
            < Limit + MaxInFlight

\* "Limiter enforces sliding-window rate limits" (ratelimit.go:14).
RateHolds == Promise!WithinLimit
=============================================================================
