------------------------- MODULE RedisGatewayProofs -------------------------
(***************************************************************************)
(* Gateways on one Redis, for any requests, limits and windows, and any    *)
(* number of calls of Allow at a time: their commands interleave and may   *)
(* fail at every point.  The overshoot is bounded, the circuit opens when  *)
(* it should, and nobody is turned away without reason.                    *)
(***************************************************************************)
EXTENDS RedisGateway, FiniteSetTheorems, TLAPS

AnyStage == Stage \cup Asking \cup Reporting

\* The commands a request may have in a pipeline of Allow.
Piped == {"trim", "card", "add", "expire"}

\* What a set holds are requests of its key, those that were added.
Entries ==
    \A k \in ApiKey :
        /\ \A r \in hits[k] : /\ KeyOf[r] = k
                              /\ pc[r] \notin {"new", "allow", "trim", "card", "add"}
        /\ \A r \in fails[k] : KeyOf[r] = k

\* A request has the times its stage asks for; none is in the future, and a
\* pipeline does not run long.
Stamped ==
    \A r \in Request :
        /\ stamp[r] <= now /\ failStamp[r] <= now
        /\ pc[r] \in {"new", "allow"} => stamp[r] = Never
        /\ stamp[r] = Never => pc[r] \in {"new", "allow", "unserved"}
        /\ pc[r] \in Reporting => failStamp[r] # Never
        /\ pc[r] \in Piped => now <= stamp[r] + MaxDelay

BaseInv == RTypeOK /\ Entries /\ Stamped

-----------------------------------------------------------------------------

\* The parameters, and the types of one request.
LEMMA Facts ==
    ASSUME BaseInv, NEW r \in Request
    PROVE  /\ KeyOf[r] \in ApiKey /\ pc[r] \in AnyStage
           /\ now \in Nat /\ MaxTime \in Nat
           /\ Limit \in Nat /\ Window \in Nat /\ FailLimit \in Nat /\ FailWindow \in Nat
           /\ MaxDelay \in Nat /\ MaxDelay < Window /\ MaxInFlight \in Nat
           /\ stamp[r] \in Int /\ failStamp[r] \in Int /\ -1 <= stamp[r]
           /\ stamp[r] # Never => stamp[r] \in Nat
           /\ hits[KeyOf[r]] \subseteq Request /\ fails[KeyOf[r]] \subseteq Request
           /\ hitsExpire[KeyOf[r]] \in Int /\ failsExpire[KeyOf[r]] \in Int
           /\ count[r] \in Nat
BY GatewayAssumption, RedisAssumption DEF BaseInv, RTypeOK, AnyStage, Never

\* A set of requests has a size, and a part of it no larger one.
LEMMA Sizes ==
    ASSUME NEW S \in SUBSET Request, NEW T \in SUBSET S
    PROVE  /\ IsFiniteSet(S) /\ Cardinality(S) \in Nat
           /\ Cardinality(T) \in Nat /\ Cardinality(T) <= Cardinality(S)
<1>1. IsFiniteSet(S)
  BY FS_Subset, GatewayAssumption
<1> QED BY <1>1, FS_Subset, FS_CardinalityType

LEMMA InitBase == RInit => BaseInv
<1> SUFFICES ASSUME RInit PROVE BaseInv
  OBVIOUS
<1>1. RTypeOK
  BY GatewayAssumption DEF RInit, GInit, RTypeOK, Stage, Final, Never
<1>2. Entries /\ Stamped
  BY DEF RInit, GInit, Entries, Stamped, Reporting, Piped, Never
<1> QED BY <1>1, <1>2 DEF BaseInv

\* A step that moves one request along and changes neither its times nor a set.
LEMMA MovesBase ==
    ASSUME BaseInv, NEW r \in Request, NEW stage \in AnyStage,
           pc' = [pc EXCEPT ![r] = stage],
           UNCHANGED <<stamp, failStamp, now, store, ttls>>,
           count' \in [Request -> Nat],
           stage \notin {"new", "trim", "expire"} \cup Reporting,
           stage \in {"allow", "card", "add"} => r \notin hits[KeyOf[r]],
           stage = "allow" => pc[r] = "new",
           pc[r] \in {"new", "allow"} => stage \in {"allow", "unserved"},
           stage \in Piped => pc[r] \in Piped, pc[r] # "unserved"
    PROVE  BaseInv'
<1>1. RTypeOK'
  BY DEF BaseInv, RTypeOK, AnyStage, store, ttls
<1>2. Entries'
  BY DEF BaseInv, RTypeOK, Entries, store
<1>3. ASSUME NEW s \in Request
      PROVE  /\ pc'[s] \in {"new", "allow"} => stamp[s] = Never
             /\ stamp[s] = Never => pc'[s] \in {"new", "allow", "unserved"}
             /\ pc'[s] \in Reporting => failStamp[s] # Never
             /\ pc'[s] \in Piped => pc[s] \in Piped
  <2>1. CASE s = r
    BY <2>1 DEF BaseInv, RTypeOK, Stamped
  <2>2. CASE s # r
    BY <2>2 DEF BaseInv, RTypeOK, Stamped
  <2> QED BY <2>1, <2>2
<1>4. Stamped'
  BY <1>3 DEF BaseInv, Stamped
<1> QED BY <1>1, <1>2, <1>4 DEF BaseInv

\* The steps around the limiter, the two that only ask, and failures.
LEMMA QuietBase ==
    ASSUME BaseInv, NEW r \in Request,
           \/ (Authenticate(r) \/ Proxy(r)) /\ UNCHANGED <<count, ttls>>
           \/ CountHits(r) \/ CheckCircuit(r) \/ Fail(r)
    PROVE  BaseInv'
<1> USE DEF GoTo
<1>1. count \in [Request -> Nat]
  BY DEF BaseInv, RTypeOK
<1>2. CASE Authenticate(r) /\ UNCHANGED <<count, ttls>>
  <2>1. PICK stage \in {"allow", "unserved"} : pc' = [pc EXCEPT ![r] = stage]
    BY <1>2 DEF Authenticate
  <2>2. pc[r] = "new" /\ r \notin hits[KeyOf[r]]
    BY <1>2, Facts DEF Authenticate, BaseInv, Entries
  <2> QED BY <1>1, <1>2, <2>1, <2>2, MovesBase
          DEF Authenticate, AnyStage, Stage, Final, Reporting, Piped
<1>3. CASE Proxy(r) /\ UNCHANGED <<count, ttls>>
  <2>1. PICK stage \in {"served", "failed", "unrecorded"} : pc' = [pc EXCEPT ![r] = stage]
    BY <1>3 DEF Proxy
  <2> QED BY <1>1, <1>3, <2>1, MovesBase
          DEF Proxy, AnyStage, Stage, Final, Reporting, Piped
<1>4. CASE CountHits(r)
  <2>1. pc[r] = "card" /\ r \notin hits[KeyOf[r]]
    BY <1>4, Facts DEF CountHits, BaseInv, Entries
  <2>2. Cardinality(hits[KeyOf[r]]) \in Nat
    BY Facts, Sizes
  <2>3. count' \in [Request -> Nat]
    BY <1>1, <1>4, <2>2 DEF CountHits
  <2> QED BY <1>4, <2>1, <2>3, MovesBase DEF CountHits, AnyStage, Asking, Reporting, Piped
<1>5. CASE CheckCircuit(r)
  <2>1. PICK stage \in {"denied", "proxy"} : pc' = [pc EXCEPT ![r] = stage]
    BY <1>5 DEF CheckCircuit
  <2> QED BY <1>1, <1>5, <2>1, MovesBase
          DEF CheckCircuit, AnyStage, Stage, Final, Reporting, Piped
<1>6. CASE Fail(r)
  <2>1. PICK stage \in {"unserved", "unrecorded"} : pc' = [pc EXCEPT ![r] = stage]
    BY <1>6 DEF Fail
  <2>2. count' \in [Request -> Nat] /\ pc[r] \notin {"new", "allow", "unserved"}
    BY <1>1, <1>6 DEF Fail, Asking, Reporting
  <2> QED BY <1>6, <2>1, <2>2, MovesBase
          DEF Fail, AnyStage, Stage, Final, Reporting, Piped
<1> QED BY <1>2, <1>3, <1>4, <1>5, <1>6

\* The clock is read, for a hit or for a failure.
LEMMA ClockBase ==
    ASSUME BaseInv, NEW r \in Request, BeginAllow(r) \/ BeginRecord(r)
    PROVE  BaseInv'
<1>1. CASE BeginAllow(r)
  <2>1. /\ pc[r] = "allow" /\ pc' = [pc EXCEPT ![r] = "trim"]
        /\ stamp' = [stamp EXCEPT ![r] = now]
        /\ UNCHANGED <<failStamp, hits, fails, now, count, hitsExpire, failsExpire>>
    BY <1>1 DEF BeginAllow, GoTo, store, ttls
  <2>2. RTypeOK'
    BY <2>1 DEF BaseInv, RTypeOK, Asking, Never
  <2>3. Entries'
    BY <2>1 DEF BaseInv, RTypeOK, Entries
  <2>4. Stamped'
    <3>1. now # Never /\ now <= now + MaxDelay
      BY Facts DEF Never
    <3> QED BY <2>1, <3>1 DEF BaseInv, RTypeOK, Stamped, Piped, Reporting
  <2> QED BY <2>2, <2>3, <2>4 DEF BaseInv
<1>2. CASE BeginRecord(r)
  <2>1. /\ pc[r] = "failed" /\ pc' = [pc EXCEPT ![r] = "trimFails"]
        /\ failStamp' = [failStamp EXCEPT ![r] = now]
        /\ UNCHANGED <<stamp, hits, fails, now, count, hitsExpire, failsExpire>>
    BY <1>2 DEF BeginRecord, GoTo, store, ttls
  <2>2. now # Never
    BY Facts DEF Never
  <2>3. RTypeOK'
    BY <2>1, <2>2 DEF BaseInv, RTypeOK, Reporting
  <2>4. Entries'
    BY <2>1 DEF BaseInv, RTypeOK, Entries
  <2>5. Stamped'
    BY <2>1, <2>2 DEF BaseInv, RTypeOK, Stamped, Piped, Reporting
  <2> QED BY <2>3, <2>4, <2>5 DEF BaseInv
<1> QED BY <1>1, <1>2

\* The sets that are trimmed, and the lives they get.
LEMMA TrimBase ==
    ASSUME BaseInv, NEW r \in Request, TrimHits(r) \/ TrimFails(r)
    PROVE  BaseInv'
<1>1. CASE TrimHits(r)
  <2>1. PICK kept \in SUBSET hits[KeyOf[r]] :
          /\ hits' = [hits EXCEPT ![KeyOf[r]] = kept]
          /\ hitsExpire' = [hitsExpire EXCEPT ![KeyOf[r]] = IF kept = {} THEN Never ELSE @]
    BY <1>1 DEF TrimHits, Younger
  <2>2. /\ pc[r] = "trim" /\ pc' = [pc EXCEPT ![r] = "card"]
        /\ UNCHANGED <<stamp, failStamp, fails, now, count, failsExpire>>
    BY <1>1 DEF TrimHits, GoTo
  <2>3. RTypeOK'
    BY <2>1, <2>2, Facts DEF BaseInv, RTypeOK, Asking
  <2>4. Entries'
    BY <2>1, <2>2, Facts DEF BaseInv, RTypeOK, Entries
  <2>5. Stamped'
    BY <2>2 DEF BaseInv, RTypeOK, Stamped, Piped, Reporting
  <2> QED BY <2>3, <2>4, <2>5 DEF BaseInv
<1>2. CASE TrimFails(r)
  <2>1. PICK kept \in SUBSET fails[KeyOf[r]] :
          /\ fails' = [fails EXCEPT ![KeyOf[r]] = kept]
          /\ failsExpire' = [failsExpire EXCEPT ![KeyOf[r]] = IF kept = {} THEN Never ELSE @]
    BY <1>2 DEF TrimFails, Younger
  <2>2. /\ pc[r] = "trimFails" /\ pc' = [pc EXCEPT ![r] = "addFail"]
        /\ UNCHANGED <<stamp, failStamp, hits, now, count, hitsExpire>>
    BY <1>2 DEF TrimFails, GoTo
  <2>3. RTypeOK'
    BY <2>1, <2>2, Facts DEF BaseInv, RTypeOK, Reporting
  <2>4. Entries'
    BY <2>1, <2>2, Facts DEF BaseInv, RTypeOK, Entries
  <2>5. Stamped'
    BY <2>2 DEF BaseInv, RTypeOK, Stamped, Piped, Reporting
  <2> QED BY <2>3, <2>4, <2>5 DEF BaseInv
<1> QED BY <1>1, <1>2

\* The sets a request or its failure is added to.
LEMMA AddBase ==
    ASSUME BaseInv, NEW r \in Request, AddHit(r) \/ AddFail(r)
    PROVE  BaseInv'
<1>1. CASE AddHit(r)
  <2>1. /\ pc[r] = "add" /\ pc' = [pc EXCEPT ![r] = "expire"]
        /\ hits' = [hits EXCEPT ![KeyOf[r]] = @ \cup {r}]
        /\ UNCHANGED <<stamp, failStamp, fails, now, count, hitsExpire, failsExpire>>
    BY <1>1 DEF AddHit, GoTo, ttls
  <2>2. stamp[r] # Never
    BY <2>1 DEF BaseInv, Stamped
  <2>3. RTypeOK'
    BY <2>1, <2>2, Facts DEF BaseInv, RTypeOK, Asking
  <2>4. Entries'
    BY <2>1, Facts DEF BaseInv, RTypeOK, Entries
  <2>5. Stamped'
    BY <2>1 DEF BaseInv, RTypeOK, Stamped, Piped, Reporting
  <2> QED BY <2>3, <2>4, <2>5 DEF BaseInv
<1>2. CASE AddFail(r)
  <2>1. /\ pc[r] = "addFail" /\ pc' = [pc EXCEPT ![r] = "expireFails"]
        /\ fails' = [fails EXCEPT ![KeyOf[r]] = @ \cup {r}]
        /\ UNCHANGED <<stamp, failStamp, hits, now, count, hitsExpire, failsExpire>>
    BY <1>2 DEF AddFail, GoTo, ttls
  <2>2. failStamp[r] # Never
    BY <2>1 DEF BaseInv, Stamped, Reporting
  <2>3. RTypeOK'
    BY <2>1, <2>2, Facts DEF BaseInv, RTypeOK, Reporting
  <2>4. Entries'
    BY <2>1, Facts DEF BaseInv, RTypeOK, Entries
  <2>5. Stamped'
    BY <2>1 DEF BaseInv, RTypeOK, Stamped, Piped, Reporting
  <2> QED BY <2>3, <2>4, <2>5 DEF BaseInv
<1> QED BY <1>1, <1>2

\* The commands that give a set its life, the last of their pipelines.
LEMMA ExpireBase ==
    ASSUME BaseInv, NEW r \in Request, ExpireHits(r) \/ ExpireFails(r)
    PROVE  BaseInv'
<1>1. CASE ExpireHits(r)
  <2>0. (IF hits[KeyOf[r]] = {} THEN Never ELSE now + Window) \in Nat \cup {Never}
    BY Facts
  <2>1. PICK life \in Nat \cup {Never}, stage \in {"denied", "circuit"} :
          /\ hitsExpire' = [hitsExpire EXCEPT ![KeyOf[r]] = life]
          /\ pc' = [pc EXCEPT ![r] = stage]
    BY <1>1, <2>0 DEF ExpireHits, GoTo
  <2>2. /\ pc[r] = "expire" /\ count' = [count EXCEPT ![r] = 0]
        /\ UNCHANGED <<stamp, failStamp, hits, fails, now, failsExpire>>
    BY <1>1 DEF ExpireHits, store
  <2>3. RTypeOK'
    BY <2>1, <2>2, Facts DEF BaseInv, RTypeOK, Asking, Stage, Final
  <2>4. Entries'
    BY <2>1, <2>2 DEF BaseInv, RTypeOK, Entries
  <2>5. Stamped'
    BY <2>1, <2>2 DEF BaseInv, RTypeOK, Stamped, Piped, Reporting
  <2> QED BY <2>3, <2>4, <2>5 DEF BaseInv
<1>2. CASE ExpireFails(r)
  <2>0. (IF fails[KeyOf[r]] = {} THEN Never ELSE now + FailWindow) \in Nat \cup {Never}
    BY Facts
  <2>1. PICK life \in Nat \cup {Never} : failsExpire' = [failsExpire EXCEPT ![KeyOf[r]] = life]
    BY <1>2, <2>0 DEF ExpireFails
  <2>2. /\ pc[r] = "expireFails" /\ pc' = [pc EXCEPT ![r] = "served"]
        /\ UNCHANGED <<stamp, failStamp, hits, fails, now, count, hitsExpire>>
    BY <1>2 DEF ExpireFails, store, GoTo
  <2>3. RTypeOK'
    BY <2>1, <2>2, Facts DEF BaseInv, RTypeOK, Stage, Final
  <2>4. Entries'
    BY <2>2 DEF BaseInv, RTypeOK, Entries
  <2>5. Stamped'
    BY <2>2 DEF BaseInv, RTypeOK, Stamped, Piped, Reporting
  <2> QED BY <2>3, <2>4, <2>5 DEF BaseInv
<1> QED BY <1>1, <1>2

\* What the passing of time does: sets are kept or dropped as a whole, and
\* none of the pipelines is past its trim.
LEMMA TickFacts ==
    ASSUME BaseInv, Tick
    PROVE  /\ \E t \in 0..MaxTime : t = now' /\ t = now + 1
           /\ UNCHANGED <<pc, stamp, failStamp, count>>
           /\ hits' \in [ApiKey -> SUBSET Request] /\ fails' \in [ApiKey -> SUBSET Request]
           /\ hitsExpire' \in [ApiKey -> Nat \cup {Never}]
           /\ failsExpire' \in [ApiKey -> Nat \cup {Never}]
           /\ \A k \in ApiKey :
                /\ hits'[k] \in {{}, hits[k]} /\ fails'[k] \in {{}, fails[k]}
                /\ hitsExpire'[k] \in {Never, hitsExpire[k]}
                /\ failsExpire'[k] \in {Never, failsExpire[k]}
                /\ hitsExpire[k] = Never \/ now + 1 < hitsExpire[k] => hits'[k] = hits[k]
                /\ failsExpire[k] = Never \/ now + 1 < failsExpire[k] => fails'[k] = fails[k]
           /\ \A r \in Request : /\ pc[r] \notin Started
                                 /\ pc[r] = "trim" => now + 1 <= stamp[r] + MaxDelay
<1>1. PICK t \in 0..MaxTime : t = now' /\ t = now + 1
  BY GatewayAssumption DEF Tick, BaseInv, RTypeOK
<1>2. UNCHANGED <<pc, stamp, failStamp, count>>
  BY DEF Tick, handler
<1>3. /\ hits' = [k \in ApiKey |-> Live(hits[k], hitsExpire[k], t)]
      /\ fails' = [k \in ApiKey |-> Live(fails[k], failsExpire[k], t)]
  BY <1>1 DEF Tick
<1>4. /\ hitsExpire' = [k \in ApiKey |-> IF hitsExpire[k] <= t THEN Never ELSE hitsExpire[k]]
      /\ failsExpire' = [k \in ApiKey |-> IF failsExpire[k] <= t THEN Never ELSE failsExpire[k]]
  BY <1>1 DEF Tick
<1>5. ASSUME NEW k \in ApiKey
      PROVE  /\ hits[k] \in SUBSET Request /\ fails[k] \in SUBSET Request
             /\ hitsExpire[k] \in Nat \cup {Never} /\ failsExpire[k] \in Nat \cup {Never}
  BY DEF BaseInv, RTypeOK
<1>6. /\ hits' \in [ApiKey -> SUBSET Request] /\ fails' \in [ApiKey -> SUBSET Request]
  BY <1>3, <1>5 DEF Live
<1>7. /\ hitsExpire' \in [ApiKey -> Nat \cup {Never}]
      /\ failsExpire' \in [ApiKey -> Nat \cup {Never}]
  BY <1>4, <1>5
<1>8. ASSUME NEW k \in ApiKey
      PROVE  /\ hits'[k] \in {{}, hits[k]} /\ fails'[k] \in {{}, fails[k]}
             /\ hitsExpire[k] = Never \/ now + 1 < hitsExpire[k] => hits'[k] = hits[k]
             /\ failsExpire[k] = Never \/ now + 1 < failsExpire[k] => fails'[k] = fails[k]
  BY <1>1, <1>3, <1>5 DEF Live, Never
<1>9. ASSUME NEW k \in ApiKey
      PROVE  /\ hitsExpire'[k] \in {Never, hitsExpire[k]}
             /\ failsExpire'[k] \in {Never, failsExpire[k]}
  BY <1>4
<1>10. ASSUME NEW r \in Request
       PROVE  pc[r] \notin Started /\ (pc[r] = "trim" => now + 1 <= stamp[r] + MaxDelay)
  BY Facts DEF Tick
<1> QED BY <1>1, <1>2, <1>6, <1>7, <1>8, <1>9, <1>10

LEMMA TickBase == ASSUME BaseInv, Tick PROVE BaseInv'
<1>1. PICK t \in 0..MaxTime : t = now' /\ t = now + 1
  BY TickFacts
<1>2. UNCHANGED <<pc, stamp, failStamp, count>>
  BY TickFacts
<1>3. RTypeOK'
  BY <1>1, <1>2, TickFacts DEF BaseInv, RTypeOK
<1>4. Entries'
  BY <1>2, TickFacts DEF BaseInv, Entries
<1>5. ASSUME NEW r \in Request
      PROVE  /\ stamp[r] <= t /\ failStamp[r] <= t
             /\ pc[r] \in Piped => t <= stamp[r] + MaxDelay
  <2>1. stamp[r] <= t /\ failStamp[r] <= t
    BY <1>1, Facts DEF BaseInv, Stamped
  <2>2. pc[r] \in Piped => pc[r] = "trim"
    BY TickFacts DEF Piped, Started
  <2> QED BY <1>1, <2>1, <2>2, TickFacts
<1>6. Stamped'
  BY <1>1, <1>2, <1>5 DEF BaseInv, Stamped
<1> QED BY <1>3, <1>4, <1>6 DEF BaseInv

\* The invariant is inductive.
LEMMA NextBase == BaseInv /\ [RNext]_rvars => BaseInv'
<1> SUFFICES ASSUME BaseInv, [RNext]_rvars PROVE BaseInv'
  OBVIOUS
<1>1. CASE UNCHANGED rvars
  BY <1>1 DEF rvars, gvars, handler, store, ttls, BaseInv, RTypeOK, Entries, Stamped
<1>2. ASSUME NEW r \in Request, RServe(r) PROVE BaseInv'
  BY <1>2, QuietBase, ClockBase, TrimBase, AddBase, ExpireBase
     DEF RServe, AllowStep, RecordStep
<1> QED BY <1>1, <1>2, TickBase DEF RNext

\* Redis's sets hold requests that have the times they are scored with.
THEOREM RedisTyped == RSpec => []RTypeOK
<1>1. BaseInv => RTypeOK
  BY DEF BaseInv
<1> QED BY <1>1, InitBase, NextBase, PTL DEF RSpec

-----------------------------------------------------------------------------
(* Steps, by what they change and by where they lead.                      *)

\* A step of one request leaves the others where they are.
LEMMA OthersStay ==
    ASSUME BaseInv, NEW r \in Request, RServe(r), NEW s \in Request, s # r
    PROVE  /\ pc'[s] = pc[s] /\ stamp'[s] = stamp[s] /\ failStamp'[s] = failStamp[s]
           /\ count'[s] = count[s]
<1>1. /\ \E stage : pc' = [pc EXCEPT ![r] = stage]
      /\ \E n : count' = [count EXCEPT ![r] = n] \/ count' = count
      /\ stamp' = [stamp EXCEPT ![r] = now] \/ stamp' = stamp
      /\ failStamp' = [failStamp EXCEPT ![r] = now] \/ failStamp' = failStamp
  BY DEF RServe, AllowStep, RecordStep, GoTo, Authenticate, Proxy, Fail,
         BeginAllow, TrimHits, CountHits, AddHit, ExpireHits, CheckCircuit,
         BeginRecord, TrimFails, AddFail, ExpireFails
<1> QED BY <1>1 DEF BaseInv, RTypeOK

\* Which step changes what.
LEMMA WhoChanges ==
    ASSUME NEW r \in Request, RServe(r)
    PROVE  /\ now' = now
           /\ stamp' = stamp \/ BeginAllow(r)
           /\ failStamp' = failStamp \/ BeginRecord(r)
           /\ hits' = hits \/ TrimHits(r) \/ AddHit(r)
           /\ hitsExpire' = hitsExpire \/ TrimHits(r) \/ ExpireHits(r)
           /\ fails' = fails \/ TrimFails(r) \/ AddFail(r)
           /\ failsExpire' = failsExpire \/ TrimFails(r) \/ ExpireFails(r)
           /\ count' = count \/ CountHits(r) \/ ExpireHits(r) \/ Fail(r)
BY DEF RServe, AllowStep, RecordStep, store, ttls, Authenticate, Proxy, Fail,
       BeginAllow, TrimHits, CountHits, AddHit, ExpireHits, CheckCircuit,
       BeginRecord, TrimFails, AddFail, ExpireFails

\* Which step leads where.
LEMMA WhoArrives ==
    ASSUME BaseInv, NEW r \in Request, RServe(r)
    PROVE  /\ pc'[r] # pc[r]
           /\ pc'[r] \in Asking => pc[r] \in Asking \/ BeginAllow(r)
           /\ pc'[r] = "trim" => BeginAllow(r)
           /\ pc'[r] = "card" => TrimHits(r)
           /\ pc'[r] = "add" => CountHits(r)
           /\ pc'[r] = "expire" => AddHit(r)
           /\ pc'[r] = "circuit" => ExpireHits(r) /\ count[r] < Limit
           /\ pc'[r] = "proxy" => CheckCircuit(r)
           /\ pc'[r] \in Through => pc[r] \in Through \/ CheckCircuit(r)
           /\ pc'[r] = "denied" => (ExpireHits(r) /\ count[r] >= Limit) \/ CheckCircuit(r)
           /\ pc'[r] \in Reporting => pc[r] \in Reporting \cup {"failed"}
           /\ pc'[r] = "expireFails" => AddFail(r)
           /\ pc'[r] = "served" => ExpireFails(r) \/ Proxy(r)
           /\ pc[r] \notin {"served", "unrecorded"}
           /\ pc[r] \in Reporting => pc'[r] \in Reporting \cup {"served", "unrecorded"}
<1> USE DEF BaseInv, RTypeOK, GoTo, Asking, Reporting, Through
<1>0. count[r] \in Nat /\ Limit \in Nat
  BY Facts
<1>1. CASE Authenticate(r) \/ Proxy(r) \/ Fail(r)
  BY <1>1 DEF Authenticate, Proxy, Fail
<1>2. CASE BeginAllow(r) \/ TrimHits(r) \/ CountHits(r) \/ AddHit(r)
  BY <1>2 DEF BeginAllow, TrimHits, CountHits, AddHit
<1>3. CASE ExpireHits(r) \/ CheckCircuit(r)
  BY <1>0, <1>3 DEF ExpireHits, CheckCircuit
<1>4. CASE RecordStep(r)
  BY <1>4 DEF RecordStep, BeginRecord, TrimFails, AddFail, ExpireFails
<1> QED BY <1>1, <1>2, <1>3, <1>4 DEF RServe, AllowStep

\* A request that has moved took a step of its own.
LEMMA OwnStep ==
    ASSUME BaseInv, [RNext]_rvars, NEW r \in Request, pc'[r] # pc[r]
    PROVE  RServe(r)
<1>1. ~UNCHANGED rvars /\ ~Tick
  BY DEF rvars, gvars, handler, Tick
<1>2. PICK s \in Request : RServe(s)
  BY <1>1 DEF RNext
<1> QED BY <1>2, OthersStay

-----------------------------------------------------------------------------
(* What the limiter counts against a request.                              *)

\* The set that was trimmed for a request holds none too old for it, and what
\* it counts did ask within the window.
CountFair(r) ==
    /\ pc[r] = "card" => \A s \in hits[KeyOf[r]] : stamp[r] - Window < stamp[s]
    /\ pc[r] \in {"add", "expire"} => count[r] <= Cardinality(Asked(r, stamp[r]))

CountsFair == \A r \in Request : CountFair(r)

\* Who has asked has asked.
LEMMA AskedGrows ==
    ASSUME BaseInv, NEW q \in Request, RServe(q), NEW r \in Request, NEW t \in Int
    PROVE  /\ Cardinality(Asked(r, t)) \in Nat /\ Cardinality(Asked(r, t)') \in Nat
           /\ Cardinality(Asked(r, t)) <= Cardinality(Asked(r, t)')
<1>1. ASSUME NEW s \in Request PROVE stamp'[s] = stamp[s] \/ stamp[s] = Never
  BY WhoChanges DEF BeginAllow, BaseInv, RTypeOK, Stamped
<1>2. Asked(r, t) \subseteq Asked(r, t)' /\ Asked(r, t)' \in SUBSET Request
  BY <1>1 DEF Asked
<1> QED BY <1>2, Sizes

\* What is in a set was there, with its time, or is the hit that is added.
LEMMA HitsChange ==
    ASSUME BaseInv, NEW q \in Request, RServe(q), NEW k \in ApiKey, NEW s \in hits'[k]
    PROVE  /\ s \in Request /\ stamp'[s] = stamp[s]
           /\ s \in hits[k] \/ (s = q /\ AddHit(q))
<1>1. s \in hits[k] \/ (s = q /\ AddHit(q))
  <2>1. CASE hits' = hits
    BY <2>1
  <2>2. CASE TrimHits(q)
    BY <2>2 DEF TrimHits, Younger, BaseInv, RTypeOK
  <2>3. CASE AddHit(q)
    BY <2>3 DEF AddHit, BaseInv, RTypeOK
  <2> QED BY <2>1, <2>2, <2>3, WhoChanges
<1>2. s \in Request /\ (BeginAllow(q) => s # q)
  BY <1>1 DEF BaseInv, RTypeOK, Entries, BeginAllow, AddHit
<1>3. stamp'[s] = stamp[s]
  BY <1>2, OthersStay, WhoChanges
<1> QED BY <1>1, <1>2, <1>3

LEMMA InitFair == RInit => CountsFair
BY DEF RInit, GInit, CountsFair, CountFair

LEMMA StepFair ==
    ASSUME BaseInv, CountsFair, NEW q \in Request, RServe(q), NEW r \in Request
    PROVE  CountFair(r)'
<1> DEFINE k == KeyOf[r]
<1>0. k \in ApiKey /\ CountFair(r)
  BY Facts DEF CountsFair
<1>1. ASSUME pc'[r] = "card", NEW s \in hits'[k] PROVE stamp'[r] - Window < stamp'[s]
  <2>0. s \in Request /\ stamp'[s] = stamp[s] /\ (s \in hits[k] \/ (s = q /\ AddHit(q)))
    BY <1>0, <1>1, HitsChange
  <2>1. CASE q = r
    <3>1. TrimHits(r)
      BY <1>1, <2>1, WhoArrives
    <3> QED BY <1>0, <1>1, <3>1 DEF TrimHits, Younger, BaseInv, RTypeOK
  <2>2. CASE q # r
    <3>1. pc[r] = "card" /\ stamp'[r] = stamp[r]
      BY <1>1, <2>2, OthersStay
    <3>2. CASE s \in hits[k]
      BY <1>0, <2>0, <3>1, <3>2 DEF CountFair
    <3>3. CASE AddHit(q) /\ s = q
      <4>1. now <= stamp[s] + MaxDelay /\ stamp[r] <= now
        BY <3>3 DEF BaseInv, Stamped, AddHit, Piped
      <4> QED BY <2>0, <3>1, <4>1, Facts
    <3> QED BY <2>0, <3>2, <3>3
  <2> QED BY <2>1, <2>2
<1>2. ASSUME pc'[r] \in {"add", "expire"}
      PROVE  count'[r] <= Cardinality(Asked(r, stamp[r])') /\ stamp'[r] = stamp[r]
  <2>0. stamp[r] \in Int
    BY Facts
  <2>1. CASE q = r /\ pc'[r] = "add"
    <3>1. CountHits(r)
      BY <2>1, WhoArrives
    <3>2. /\ pc[r] = "card" /\ UNCHANGED stamp /\ count'[r] = Cardinality(hits[k])
      BY <3>1 DEF CountHits, BaseInv, RTypeOK
    <3>3. hits[k] \subseteq Asked(r, stamp[r])
      BY <1>0, <3>2, Facts DEF CountFair, Asked, BaseInv, RTypeOK, Entries
    <3>4. Asked(r, stamp[r]) \in SUBSET Request
      BY DEF Asked
    <3>5. Cardinality(hits[k]) \in Nat /\ Cardinality(hits[k]) <= Cardinality(Asked(r, stamp[r]))
      BY <3>3, <3>4, Sizes
    <3> QED BY <2>0, <2>1, <3>2, <3>5, AskedGrows
  <2>2. CASE (q = r /\ pc'[r] = "expire") \/ q # r
    <3>1. pc[r] \in {"add", "expire"} /\ count'[r] = count[r] /\ stamp'[r] = stamp[r]
      <4>1. CASE q = r /\ pc'[r] = "expire"
        BY <4>1, WhoArrives DEF AddHit
      <4>2. CASE q # r
        BY <1>2, <4>2, OthersStay
      <4> QED BY <2>2, <4>1, <4>2
    <3>2. count[r] <= Cardinality(Asked(r, stamp[r])) /\ count[r] \in Nat
      BY <1>0, <3>1, Facts DEF CountFair
    <3> QED BY <2>0, <3>1, <3>2, AskedGrows
  <2> QED BY <1>2, <2>1, <2>2
<1>3. pc'[r] \in {"add", "expire"} => count'[r] <= Cardinality(Asked(r, stamp[r]))'
  BY <1>2 DEF Asked
<1> QED BY <1>1, <1>3 DEF CountFair

LEMMA NextFair ==
    ASSUME BaseInv, CountsFair, [RNext]_rvars PROVE CountsFair'
<1>1. CASE UNCHANGED rvars
  BY <1>1 DEF rvars, gvars, handler, store, CountsFair, CountFair, Asked
<1>2. CASE Tick
  BY <1>2, TickFacts DEF CountsFair, CountFair, Started
<1>3. ASSUME NEW q \in Request, RServe(q) PROVE CountsFair'
  BY <1>3, StepFair DEF CountsFair
<1> QED BY <1>1, <1>2, <1>3 DEF RNext

\* A 429 is deserved, however the commands of the gateways interleave: what
\* ZCARD counted against a request are other requests of its key that came
\* within the window, what ZCOUNT counted are its failures.
THEOREM DenialsDeserved == RSpec => QuietClientServed
<1>1. ASSUME BaseInv, CountsFair, [RNext]_rvars,
             NEW r \in Request, pc[r] # "denied", pc'[r] = "denied"
      PROVE  \/ Cardinality(Asked(r, stamp'[r])) >= Limit
             \/ Cardinality(Failures(r, stamp'[r])) >= FailLimit
  <2>1. (ExpireHits(r) /\ count[r] >= Limit) \/ CheckCircuit(r)
    BY <1>1, OwnStep, WhoArrives
  <2>2. stamp'[r] = stamp[r] /\ stamp[r] \in Int
    BY <1>1, <2>1, Facts DEF ExpireHits, CheckCircuit
  <2>3. CASE ExpireHits(r) /\ count[r] >= Limit
    <3>1. count[r] <= Cardinality(Asked(r, stamp[r])) /\ count[r] \in Nat
      BY <1>1, <2>3, Facts DEF CountsFair, CountFair, ExpireHits
    <3>2. Asked(r, stamp[r]) \in SUBSET Request
      BY DEF Asked
    <3> QED BY <1>1, <2>2, <2>3, <3>1, <3>2, Sizes, Facts
  <2>4. CASE CheckCircuit(r)
    <3> DEFINE recent == {s \in fails[KeyOf[r]] : stamp[r] - FailWindow <= failStamp[s]}
    <3>1. Cardinality(recent) >= FailLimit
      BY <1>1, <2>4 DEF CheckCircuit, GoTo, BaseInv, RTypeOK
    <3>2. recent \subseteq Failures(r, stamp[r])
      BY <1>1, Facts DEF Failures, BaseInv, RTypeOK, Entries
    <3>3. Failures(r, stamp[r]) \in SUBSET Request
      BY DEF Failures
    <3> HIDE DEF recent
    <3> QED BY <1>1, <2>2, <3>1, <3>2, <3>3, Sizes, Facts
  <2> QED BY <2>1, <2>3, <2>4
<1>2. BaseInv /\ CountsFair /\ [RNext]_rvars =>
        [\A r \in Request : pc[r] # "denied" /\ pc'[r] = "denied" =>
            \/ Cardinality(Asked(r, stamp'[r])) >= Limit
            \/ Cardinality(Failures(r, stamp'[r])) >= FailLimit]_gvars
  BY <1>1
<1> QED BY <1>2, InitBase, NextBase, InitFair, NextFair, PTL DEF RSpec, QuietClientServed

-----------------------------------------------------------------------------
(* What the circuit breaker remembers.                                     *)

\* A failure that was recorded is in its set until it is over, and so is the
\* set itself.
FailureKept(r) ==
    /\ failStamp[r] # Never => pc[r] \in Reporting \cup {"served", "unrecorded"}
    /\ pc[r] \in {"expireFails", "served"} /\ failStamp[r] # Never
         /\ now - FailWindow < failStamp[r] => r \in fails[KeyOf[r]]
    /\ pc[r] = "served" /\ failStamp[r] # Never
         => \/ failsExpire[KeyOf[r]] = Never
            \/ failStamp[r] + FailWindow <= failsExpire[KeyOf[r]]

FailuresKept == \A r \in Request : FailureKept(r)

LEMMA InitFailures == RInit => FailuresKept
BY DEF RInit, GInit, FailuresKept, FailureKept

\* A step takes from a set only failures that are over, and shortens no life
\* below what a failure needs.
LEMMA OthersFailures ==
    ASSUME BaseInv, NEW q \in Request, RServe(q), NEW r \in Request,
           failStamp[r] # Never
    PROVE  /\ r \in fails[KeyOf[r]] /\ now - FailWindow < failStamp[r]
                => r \in fails'[KeyOf[r]]
           /\ \/ failsExpire'[KeyOf[r]] \in {Never, failsExpire[KeyOf[r]]}
              \/ failStamp[r] + FailWindow <= failsExpire'[KeyOf[r]]
<1>0. /\ KeyOf[r] \in ApiKey /\ failStamp[r] \in Int /\ failStamp[r] <= now
      /\ now \in Nat /\ FailWindow \in Nat
      /\ failStamp[q] \in Int /\ failStamp[q] <= now
  BY Facts DEF BaseInv, Stamped
<1>1. CASE TrimFails(q)
  BY <1>0, <1>1 DEF TrimFails, Younger, BaseInv, RTypeOK
<1>2. CASE AddFail(q)
  BY <1>0, <1>2 DEF AddFail, BaseInv, RTypeOK, ttls
<1>3. CASE ExpireFails(q)
  BY <1>0, <1>3 DEF ExpireFails, BaseInv, RTypeOK, store
<1>4. CASE UNCHANGED <<fails, failsExpire>>
  BY <1>4
<1> QED BY <1>1, <1>2, <1>3, <1>4, WhoChanges DEF TrimFails, AddFail, ExpireFails, store

LEMMA StepFailures ==
    ASSUME BaseInv, FailuresKept, NEW q \in Request, RServe(q), NEW r \in Request
    PROVE  FailureKept(r)'
<1>0. FailureKept(r) /\ now' = now /\ KeyOf[r] \in ApiKey /\ KeyOf[q] \in ApiKey
  BY WhoChanges, Facts DEF FailuresKept
<1>1. CASE q # r
  <2>1. pc'[r] = pc[r] /\ failStamp'[r] = failStamp[r]
    BY <1>1, OthersStay
  <2> QED BY <1>0, <2>1, OthersFailures DEF FailureKept
<1>2. CASE q = r
  <2>1. failStamp'[r] # Never =>
          /\ pc'[r] \in Reporting \cup {"served", "unrecorded"}
          /\ pc'[r] = "served" => ExpireFails(r)
    <3>1. CASE BeginRecord(r)
      BY <3>1 DEF BeginRecord, GoTo, BaseInv, RTypeOK, Reporting
    <3>2. CASE failStamp' = failStamp /\ failStamp[r] # Never
      <4>1. pc[r] \in Reporting \cup {"served", "unrecorded"}
        BY <1>0, <3>2 DEF FailureKept
      <4> QED BY <1>2, <4>1, WhoArrives DEF Proxy, Reporting
    <3> QED BY <1>2, <3>1, <3>2, WhoChanges
  <2>2. ASSUME pc'[r] = "expireFails" PROVE r \in fails'[KeyOf[r]]
    BY <1>0, <1>2, <2>2, WhoArrives DEF AddFail, BaseInv, RTypeOK
  <2>3. ASSUME ExpireFails(r), now - FailWindow < failStamp'[r], failStamp'[r] # Never
        PROVE  r \in fails'[KeyOf[r]]
    BY <1>0, <2>3 DEF ExpireFails, store, FailureKept
  <2>4. ASSUME ExpireFails(r)
        PROVE  \/ failsExpire'[KeyOf[r]] = Never
               \/ failStamp'[r] + FailWindow <= failsExpire'[KeyOf[r]]
    <3>1. failStamp'[r] = failStamp[r] /\ failStamp[r] <= now
      BY <2>4 DEF ExpireFails, BaseInv, Stamped
    <3>2. failsExpire'[KeyOf[r]] \in {Never, now + FailWindow}
      BY <1>0, <2>4 DEF ExpireFails, BaseInv, RTypeOK
    <3> QED BY <3>1, <3>2, Facts
  <2> QED BY <1>0, <2>1, <2>2, <2>3, <2>4 DEF FailureKept
<1> QED BY <1>1, <1>2

LEMMA TickFailures ==
    ASSUME BaseInv, FailuresKept, Tick PROVE FailuresKept'
<1>1. PICK t \in 0..MaxTime : t = now' /\ t = now + 1
  BY TickFacts
<1> SUFFICES ASSUME NEW r \in Request PROVE FailureKept(r)'
  BY DEF FailuresKept
<1>2. /\ FailureKept(r) /\ pc[r] # "expireFails" /\ KeyOf[r] \in ApiKey
      /\ pc'[r] = pc[r] /\ failStamp'[r] = failStamp[r]
  BY TickFacts, Facts DEF FailuresKept, Started
<1>3. ASSUME pc[r] = "served", failStamp[r] # Never, t - FailWindow < failStamp[r]
      PROVE  r \in fails'[KeyOf[r]]
  <2>1. now - FailWindow < failStamp[r] /\ now + 1 < failStamp[r] + FailWindow
    BY <1>1, <1>3, Facts
  <2>2. \/ failsExpire[KeyOf[r]] = Never
        \/ now + 1 < failsExpire[KeyOf[r]]
    BY <1>2, <1>3, <2>1, Facts DEF FailureKept
  <2> QED BY <1>2, <1>3, <2>1, <2>2, TickFacts DEF FailureKept
<1>4. failsExpire'[KeyOf[r]] \in {Never, failsExpire[KeyOf[r]]}
  BY <1>2, TickFacts
<1> QED BY <1>1, <1>2, <1>3, <1>4 DEF FailureKept

LEMMA NextFailures ==
    ASSUME BaseInv, FailuresKept, [RNext]_rvars PROVE FailuresKept'
<1>1. CASE UNCHANGED rvars
  BY <1>1 DEF rvars, gvars, handler, store, ttls, FailuresKept, FailureKept
<1>2. ASSUME NEW q \in Request, RServe(q) PROVE FailuresKept'
  BY <1>2, StepFailures DEF FailuresKept
<1> QED BY <1>1, <1>2, TickFailures DEF RNext

\* No request is admitted at a time when FailLimit failures of its key that
\* were recorded are inside the window: a set outlives every failure in it,
\* whoever trims it or sets its expiry, and the ZCOUNT comes last in Allow.
THEOREM CircuitHolds == RSpec => CircuitRespected
<1>1. ASSUME BaseInv, FailuresKept, [RNext]_rvars,
             NEW r \in Request, pc[r] # "proxy", pc'[r] = "proxy"
      PROVE  Cardinality(Recorded(r, now)) < FailLimit
  <2> DEFINE recent == {s \in fails[KeyOf[r]] : stamp[r] - FailWindow <= failStamp[s]}
  <2>1. CheckCircuit(r)
    BY <1>1, OwnStep, WhoArrives
  <2>2. ~(Cardinality(recent) >= FailLimit)
    BY <1>1, <2>1 DEF CheckCircuit, GoTo, BaseInv, RTypeOK
  <2>3. recent \in SUBSET Request
    BY <1>1, Facts
  <2>4. ASSUME NEW s \in Recorded(r, now) PROVE s \in recent
    <3>1. /\ s \in Request /\ KeyOf[s] = KeyOf[r] /\ pc[s] = "served"
          /\ failStamp[s] # Never /\ now - FailWindow < failStamp[s]
      BY DEF Recorded, Failures
    <3>2. s \in fails[KeyOf[r]]
      BY <1>1, <3>1 DEF FailuresKept, FailureKept
    <3>3. stamp[r] <= now
      BY <1>1 DEF BaseInv, Stamped
    <3>4. /\ stamp[r] \in Int /\ now \in Nat /\ FailWindow \in Nat
          /\ failStamp[s] \in Int
      BY <1>1, <3>1, Facts
    <3>5. stamp[r] - FailWindow <= failStamp[s]
      BY <3>1, <3>3, <3>4
    <3> QED BY <3>2, <3>5
  <2> HIDE DEF recent
  <2>5. Recorded(r, now) \in SUBSET recent
    BY <2>4
  <2> QED BY <1>1, <2>2, <2>3, <2>5, Sizes, Facts
<1>2. BaseInv /\ FailuresKept /\ [RNext]_rvars =>
        [\A r \in Request : pc[r] # "proxy" /\ pc'[r] = "proxy" =>
            Cardinality(Recorded(r, now)) < FailLimit]_gvars
  BY <1>1
<1> QED BY <1>2, InitBase, NextBase, InitFailures, NextFailures, PTL
        DEF RSpec, CircuitRespected

-----------------------------------------------------------------------------
(* What is left of the rate limit.                                         *)

\* The stages of a request that was not turned away by the rate limit.
Passed == {"circuit"} \cup Through

\* A request that was added to its set is in it for the window, and so long
\* does the set live, once its pipeline is over.
HitKept(r) ==
    /\ pc[r] \in {"expire"} \cup Passed /\ now - Window < stamp[r]
         => r \in hits[KeyOf[r]]
    /\ pc[r] \in Passed => \/ hitsExpire[KeyOf[r]] = Never
                           \/ stamp[r] + Window <= hitsExpire[KeyOf[r]]

HitsKept == \A r \in Request : HitKept(r)

\* The requests of a key with room in the limit, in the stretch before t: those
\* that counted fewer than Limit, looked at or not.
Granted(k, t) ==
    {r \in Request : /\ KeyOf[r] = k
                     /\ t - (Window - MaxDelay) < stamp[r] /\ stamp[r] <= t
                     /\ \/ pc[r] \in {"add", "expire"} /\ count[r] < Limit
                        \/ pc[r] \in Passed}

FewGranted ==
    \A k \in ApiKey, t \in Nat : Cardinality(Granted(k, t)) < Limit + MaxInFlight

FewInFlight == Cardinality(InFlight) <= MaxInFlight

RateInv == HitsKept /\ FewGranted /\ FewInFlight

LEMMA InitRate == RInit => RateInv
<1> SUFFICES ASSUME RInit PROVE RateInv
  OBVIOUS
<1>1. HitsKept
  BY DEF RInit, GInit, HitsKept, HitKept, Passed, Through, Reporting
<1>2. ASSUME NEW k \in ApiKey, NEW t \in Nat PROVE Granted(k, t) = {}
  BY DEF RInit, GInit, Granted, Passed, Through, Reporting
<1>3. InFlight = {}
  BY DEF RInit, GInit, InFlight, Asking
<1> QED BY <1>1, <1>2, <1>3, FS_EmptySet, GatewayAssumption, RedisAssumption
        DEF RateInv, FewGranted, FewInFlight

\* A step takes from a set only hits that are over, and shortens no life below
\* what a hit needs.
LEMMA OthersHits ==
    ASSUME BaseInv, NEW q \in Request, RServe(q), NEW r \in Request
    PROVE  /\ r \in hits[KeyOf[r]] /\ now - Window < stamp[r] => r \in hits'[KeyOf[r]]
           /\ \/ hitsExpire'[KeyOf[r]] \in {Never, hitsExpire[KeyOf[r]]}
              \/ stamp[r] + Window <= hitsExpire'[KeyOf[r]]
<1>0. /\ KeyOf[r] \in ApiKey /\ stamp[r] \in Int /\ stamp[r] <= now
      /\ now \in Nat /\ Window \in Nat /\ stamp[q] \in Int /\ stamp[q] <= now
  BY Facts DEF BaseInv, Stamped
<1>1. CASE TrimHits(q)
  BY <1>0, <1>1 DEF TrimHits, Younger, BaseInv, RTypeOK
<1>2. CASE AddHit(q)
  BY <1>0, <1>2 DEF AddHit, BaseInv, RTypeOK, ttls
<1>3. CASE ExpireHits(q)
  BY <1>0, <1>3 DEF ExpireHits, BaseInv, RTypeOK, store
<1>4. CASE UNCHANGED <<hits, hitsExpire>>
  BY <1>4
<1> QED BY <1>1, <1>2, <1>3, <1>4, WhoChanges DEF TrimHits, AddHit, ExpireHits, ttls, store

LEMMA StepHits ==
    ASSUME BaseInv, HitsKept, NEW q \in Request, RServe(q), NEW r \in Request
    PROVE  HitKept(r)'
<1>0. HitKept(r) /\ now' = now /\ KeyOf[r] \in ApiKey /\ KeyOf[q] \in ApiKey
  BY WhoChanges, Facts DEF HitsKept
<1>1. CASE q # r
  <2>1. pc'[r] = pc[r] /\ stamp'[r] = stamp[r]
    BY <1>1, OthersStay
  <2> QED BY <1>0, <2>1, OthersHits DEF HitKept
<1>2. CASE q = r /\ pc'[r] \in {"expire"} \cup Passed
  <2>1. stamp'[r] = stamp[r]
    BY <1>2, WhoChanges DEF BeginAllow, GoTo, BaseInv, RTypeOK, Passed, Through, Reporting
  <2>2. CASE pc'[r] = "expire"
    BY <1>0, <1>2, <2>2, WhoArrives
       DEF AddHit, BaseInv, RTypeOK, HitKept, Passed, Through, Reporting
  <2>3. CASE pc'[r] = "circuit"
    <3>1. ExpireHits(r)
      BY <1>2, <2>3, WhoArrives
    <3>2. hitsExpire'[KeyOf[r]] \in {Never, now + Window} /\ hits' = hits /\ pc[r] = "expire"
      BY <1>0, <3>1 DEF ExpireHits, BaseInv, RTypeOK, store
    <3>3. stamp[r] <= now
      BY DEF BaseInv, Stamped
    <3> QED BY <1>0, <2>1, <3>2, <3>3, Facts DEF HitKept
  <2>4. CASE pc'[r] \in Through
    <3>1. pc[r] \in Passed
      BY <1>2, <2>4, WhoArrives DEF CheckCircuit, Passed
    <3> QED BY <1>0, <2>1, <3>1, OthersHits DEF HitKept
  <2> QED BY <1>2, <2>2, <2>3, <2>4 DEF Passed
<1> QED BY <1>1, <1>2 DEF HitKept

LEMMA TickHits ==
    ASSUME BaseInv, HitsKept, Tick PROVE HitsKept'
<1>1. PICK t \in 0..MaxTime : t = now' /\ t = now + 1
  BY TickFacts
<1> SUFFICES ASSUME NEW r \in Request PROVE HitKept(r)'
  BY DEF HitsKept
<1>2. /\ HitKept(r) /\ pc[r] # "expire" /\ KeyOf[r] \in ApiKey
      /\ pc'[r] = pc[r] /\ stamp'[r] = stamp[r]
  BY TickFacts, Facts DEF HitsKept, Started
<1>3. ASSUME pc[r] \in Passed, t - Window < stamp[r]
      PROVE  r \in hits'[KeyOf[r]]
  <2>1. now - Window < stamp[r] /\ now + 1 < stamp[r] + Window
    BY <1>1, <1>3, Facts
  <2>2. hitsExpire[KeyOf[r]] = Never \/ now + 1 < hitsExpire[KeyOf[r]]
    BY <1>2, <1>3, <2>1, Facts DEF HitKept
  <2> QED BY <1>2, <1>3, <2>1, <2>2, TickFacts DEF HitKept
<1>4. hitsExpire'[KeyOf[r]] \in {Never, hitsExpire[KeyOf[r]]}
  BY <1>2, TickFacts
<1> QED BY <1>1, <1>2, <1>3, <1>4 DEF HitKept

\* BeginAllow lets in as many as fit, the other steps let none in.
LEMMA StepInFlight ==
    ASSUME BaseInv, FewInFlight, NEW q \in Request, RServe(q)
    PROVE  FewInFlight'
<1>1. InFlight \in SUBSET Request /\ MaxInFlight \in Nat
  BY Facts DEF InFlight
<1>2. IsFiniteSet(InFlight) /\ Cardinality(InFlight) \in Nat
  BY <1>1, Sizes
<1>3. CASE BeginAllow(q)
  <2>1. InFlight' = InFlight \cup {q}
    BY <1>3 DEF BeginAllow, GoTo, InFlight, Asking, BaseInv, RTypeOK
  <2>2. Cardinality(InFlight \cup {q}) <= Cardinality(InFlight) + 1
    <3>1. Cardinality(InFlight \cup {q}) \in {Cardinality(InFlight), Cardinality(InFlight) + 1}
      BY <1>2, FS_AddElement, Zenon
    <3> QED BY <1>2, <3>1
  <2>3. Cardinality(InFlight) < MaxInFlight
    BY <1>3 DEF BeginAllow
  <2>4. IsFiniteSet(InFlight \cup {q}) /\ Cardinality(InFlight \cup {q}) \in Nat
    BY <1>2, FS_AddElement, FS_CardinalityType
  <2> QED BY <1>1, <1>2, <2>1, <2>2, <2>3, <2>4 DEF FewInFlight
<1>4. CASE ~BeginAllow(q)
  <2>1. pc'[q] \in Asking => pc[q] \in Asking
    BY <1>4, WhoArrives
  <2>2. InFlight' \subseteq InFlight
    BY <2>1, OthersStay DEF InFlight
  <2>3. Cardinality(InFlight') \in Nat /\ Cardinality(InFlight') <= Cardinality(InFlight)
    BY <1>1, <2>2, Sizes
  <2> QED BY <1>1, <1>2, <2>3 DEF FewInFlight
<1> QED BY <1>3, <1>4

\* Two sets have together no more elements than apart.
LEMMA UnionSize ==
    ASSUME NEW S \in SUBSET Request, NEW T \in SUBSET Request
    PROVE  /\ Cardinality(S \cup T) \in Nat
           /\ Cardinality(S \cup T) <= Cardinality(S) + Cardinality(T)
<1>1. /\ IsFiniteSet(S) /\ IsFiniteSet(T)
      /\ Cardinality(S) \in Nat /\ Cardinality(T) \in Nat
  BY Sizes
<1>2. /\ Cardinality(S \cup T) = Cardinality(S) + Cardinality(T) - Cardinality(S \cap T)
  BY <1>1, FS_Union
<1>3. Cardinality(S \cap T) \in Nat /\ Cardinality(S \cup T) \in Nat
  BY Sizes
<1> QED BY <1>1, <1>2, <1>3

\* Only a request that counts gets room, and it found fewer than Limit hits.
LEMMA WhoIsGranted ==
    ASSUME BaseInv, NEW q \in Request, RServe(q), NEW k \in ApiKey, NEW t \in Nat,
           ~(Granted(k, t)' \subseteq Granted(k, t))
    PROVE  /\ CountHits(q) /\ KeyOf[q] = k /\ stamp[q] <= t
           /\ Cardinality(hits[k]) < Limit
           /\ Granted(k, t)' \subseteq Granted(k, t) \cup {q}
<1>1. \A s \in Request : s \in Granted(k, t)' /\ s # q => s \in Granted(k, t)
  BY OthersStay DEF Granted
<1>2. q \in Granted(k, t)' /\ q \notin Granted(k, t)
  BY <1>1 DEF Granted
<1>3. /\ KeyOf[q] = k /\ t - (Window - MaxDelay) < stamp'[q] /\ stamp'[q] <= t
      /\ \/ pc'[q] \in {"add", "expire"} /\ count'[q] < Limit
         \/ pc'[q] \in Passed
  BY <1>2 DEF Granted
<1>4. stamp'[q] = stamp[q]
  BY <1>3, WhoChanges DEF BeginAllow, GoTo, BaseInv, RTypeOK, Passed, Through, Reporting
<1>5. pc'[q] = "add" /\ count'[q] < Limit
  <2>1. pc'[q] # "expire" \/ ~(count'[q] < Limit)
    BY <1>2, <1>3, <1>4, WhoArrives DEF AddHit, Granted
  <2>2. pc'[q] # "circuit"
    BY <1>2, <1>3, <1>4, WhoArrives DEF ExpireHits, Granted
  <2>3. pc'[q] \notin Through
    BY <1>2, <1>3, <1>4, WhoArrives DEF CheckCircuit, Granted, Passed
  <2> QED BY <1>3, <2>1, <2>2, <2>3 DEF Passed
<1>6. CountHits(q) /\ count'[q] = Cardinality(hits[k])
  BY <1>3, <1>5, WhoArrives DEF CountHits, BaseInv, RTypeOK
<1> QED BY <1>1, <1>3, <1>4, <1>5, <1>6 DEF Granted

\* The others that have room are hits of the set it counted, or in flight.
LEMMA StepGranted ==
    ASSUME BaseInv, RateInv, NEW q \in Request, RServe(q) PROVE FewGranted'
<1> SUFFICES ASSUME NEW k \in ApiKey, NEW t \in Nat
             PROVE  Cardinality(Granted(k, t)') < Limit + MaxInFlight
  BY DEF FewGranted, Granted
<1>0. /\ Granted(k, t) \in SUBSET Request /\ Granted(k, t)' \in SUBSET Request
      /\ Cardinality(Granted(k, t)) < Limit + MaxInFlight
      /\ Limit \in Nat /\ MaxInFlight \in Nat
  BY Facts DEF Granted, RateInv, FewGranted
<1>1. CASE Granted(k, t)' \subseteq Granted(k, t)
  <2>1. /\ Cardinality(Granted(k, t)') \in Nat /\ Cardinality(Granted(k, t)) \in Nat
        /\ Cardinality(Granted(k, t)') <= Cardinality(Granted(k, t))
    BY <1>0, <1>1, Sizes
  <2> QED BY <1>0, <2>1
<1>2. CASE ~(Granted(k, t)' \subseteq Granted(k, t))
  <2>1. /\ CountHits(q) /\ stamp[q] <= t /\ Cardinality(hits[k]) < Limit
        /\ Granted(k, t)' \subseteq Granted(k, t) \cup {q}
    BY <1>2, WhoIsGranted
  <2>2. pc[q] = "card" /\ now <= stamp[q] + MaxDelay
    BY <2>1 DEF CountHits, BaseInv, Stamped, Piped
  <2>3. Granted(k, t) \cup {q} \subseteq hits[k] \cup InFlight
    <3>1. q \in InFlight
      BY <2>2 DEF InFlight, Asking
    <3>2. ASSUME NEW s \in Granted(k, t), s \notin InFlight PROVE s \in hits[k]
      <4>1. /\ s \in Request /\ KeyOf[s] = k /\ pc[s] \in Through
            /\ t - (Window - MaxDelay) < stamp[s]
        BY <3>2 DEF Granted, InFlight, Asking, Passed
      <4>2. now - Window < stamp[s]
        BY <2>1, <2>2, <4>1, Facts
      <4> QED BY <4>1, <4>2 DEF RateInv, HitsKept, HitKept, Passed
    <3> QED BY <3>1, <3>2
  <2>4. hits[k] \in SUBSET Request /\ InFlight \in SUBSET Request
    BY DEF BaseInv, RTypeOK, InFlight
  <2>5. /\ Cardinality(hits[k] \cup InFlight) \in Nat
        /\ Cardinality(hits[k] \cup InFlight) <= Cardinality(hits[k]) + Cardinality(InFlight)
    BY <2>4, UnionSize
  <2>6. /\ Cardinality(Granted(k, t)') \in Nat
        /\ Cardinality(Granted(k, t)') <= Cardinality(hits[k] \cup InFlight)
    BY <2>1, <2>3, <2>4, Sizes
  <2>7. Cardinality(InFlight) <= MaxInFlight
    BY DEF RateInv, FewInFlight
  <2>8. Cardinality(hits[k]) \in Nat /\ Cardinality(InFlight) \in Nat
    BY <2>4, Sizes
  <2> QED BY <1>0, <2>1, <2>5, <2>6, <2>7, <2>8
<1> QED BY <1>1, <1>2

LEMMA NextRate ==
    ASSUME BaseInv, RateInv, [RNext]_rvars PROVE RateInv'
<1>1. CASE UNCHANGED rvars
  <2>1. HitsKept'
    BY <1>1 DEF rvars, gvars, handler, store, ttls, RateInv, HitsKept, HitKept
  <2>2. FewGranted'
    BY <1>1 DEF rvars, gvars, handler, RateInv, FewGranted, Granted
  <2>3. FewInFlight'
    BY <1>1 DEF rvars, gvars, handler, RateInv, FewInFlight, InFlight
  <2> QED BY <2>1, <2>2, <2>3 DEF RateInv
<1>2. CASE Tick
  <2>1. UNCHANGED <<pc, stamp, count>>
    BY <1>2, TickFacts
  <2>2. FewGranted'
    BY <2>1 DEF RateInv, FewGranted, Granted
  <2>3. FewInFlight'
    BY <2>1 DEF RateInv, FewInFlight, InFlight
  <2> QED BY <1>2, <2>2, <2>3, TickHits DEF RateInv
<1>3. ASSUME NEW q \in Request, RServe(q) PROVE RateInv'
  BY <1>3, StepHits, StepInFlight, StepGranted DEF RateInv, HitsKept
<1> QED BY <1>1, <1>2, <1>3 DEF RNext

\* The rate limit that Redis keeps, for any number of gateways: in no stretch
\* shorter than the window by the longest delay are more than the Limit and
\* those that may count at a time admitted, one less.
THEOREM OvershootHolds == RSpec => []OvershootBounded
<1>1. BaseInv /\ RateInv => OvershootBounded
  <2> SUFFICES ASSUME BaseInv, RateInv, NEW k \in Allowed, NEW t \in 0..now
               PROVE  Cardinality({r \in Promise!Recent(k, t) :
                                     t - (Window - MaxDelay) < stamp[r]}) < Limit + MaxInFlight
    BY DEF OvershootBounded
  <2> DEFINE few == {r \in Promise!Recent(k, t) : t - (Window - MaxDelay) < stamp[r]}
  <2>1. k \in ApiKey /\ t \in Nat
    BY GatewayAssumption DEF BaseInv, RTypeOK
  <2>2. few \subseteq Granted(k, t)
    BY DEF Promise!Recent, Promise!Never, Never, Admitted, Granted, Passed
  <2>3. Granted(k, t) \in SUBSET Request
    BY DEF Granted
  <2>4. Cardinality(Granted(k, t)) < Limit + MaxInFlight
    BY <2>1 DEF RateInv, FewGranted
  <2> HIDE DEF few
  <2>5. /\ Cardinality(few) \in Nat /\ Cardinality(Granted(k, t)) \in Nat
        /\ Cardinality(few) <= Cardinality(Granted(k, t))
    BY <2>2, <2>3, Sizes
  <2>6. Cardinality(few) < Limit + MaxInFlight
    BY <2>4, <2>5, GatewayAssumption, RedisAssumption
  <2> QED BY <2>6 DEF few
<1> QED BY <1>1, InitBase, NextBase, InitRate, NextRate, PTL DEF RSpec

\* What the finding about the rate needs: where requests come to the limiter one
\* at a time, and none is late, the rate is kept to the letter.
THEOREM SerialRateHolds ==
    ASSUME MaxInFlight = 1, MaxDelay = 0 PROVE RSpec => []RateHolds
<1>1. BaseInv /\ RateInv => RateHolds
  <2> SUFFICES ASSUME BaseInv, RateInv, NEW q \in Request, NEW t \in 0..now
               PROVE  Promise!Cardinality(Promise!Recent(KeyOf[q], t)) <= Limit
    BY DEF RateHolds, Promise!WithinLimit
  <2>1. KeyOf[q] \in ApiKey /\ t \in Nat
    BY GatewayAssumption DEF BaseInv, RTypeOK
  <2>2. Promise!Recent(KeyOf[q], t) \subseteq Granted(KeyOf[q], t)
    BY Facts DEF Promise!Recent, Promise!Never, Never, Admitted, Granted, Passed
  <2>3. Granted(KeyOf[q], t) \in SUBSET Request
    BY DEF Granted
  <2>4. Cardinality(Granted(KeyOf[q], t)) < Limit + 1
    BY <2>1 DEF RateInv, FewGranted
  <2>5. Cardinality(Promise!Recent(KeyOf[q], t)) <= Limit
    BY <2>2, <2>3, <2>4, Sizes, GatewayAssumption
  <2> QED BY <2>5 DEF Promise!Cardinality, Cardinality
<1> QED BY <1>1, InitBase, NextBase, InitRate, NextRate, PTL DEF RSpec
=============================================================================
