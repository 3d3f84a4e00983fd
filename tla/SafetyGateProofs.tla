-------------------------- MODULE SafetyGateProofs --------------------------
(***************************************************************************)
(* What SafetyGate promises, for any requests, balance changes and         *)
(* maximum.  The invariant SInv says of a request that may go out what the *)
(* gate found (Vetted), and of one refused for drain what made it so.      *)
(***************************************************************************)
EXTENDS SafetyGate, TLAPS

\* The gate has let the request r through on the answer it was given.
Vetted(r, a) ==
    /\ Provider \in {"tenderly", "viem"}
    /\ Provider = "viem" => a.changes = {}
    /\ a.result = "success"
    /\ ~GateExceeds(r, a)

\* The gate has not looked before it is reached, nothing has ended before it
\* is done, and there is a request once one has arrived.
Ordered ==
    /\ pc # "done" => outcome = "none"
    /\ pc \in {"idle", "hook", "preflight", "gate"} => seen["gate"] = NoAnswer
    /\ pc = "idle" \/ request # {}

MayGoOut == env.mode = "live" /\ (pc = "send" \/ outcome \in {"submitted", "failed"})

SInv ==
    /\ SafetyTypeOK /\ Ordered /\ DrainForCause
    /\ MayGoOut => \A r \in request : Vetted(r, seen["gate"])

-----------------------------------------------------------------------------
(* The two rules for a drain.                                              *)

\* What the gate lets through the hook would let through, on the same answer
\* and under the same maximum: the gate's rule covers the hook's.
THEOREM GateCoversHook ==
    ASSUME NEW r, NEW a, Provider \in {"tenderly", "viem"},
           Provider = "viem" => a.changes = {},
           ~GateExceeds(r, a)
    PROVE  ~Exceeds(r, HookDrains(a))
<1> SUFFICES ASSUME NEW d \in HookDrains(a), NEW m \in MaxDrain(r), d > m
             PROVE  FALSE
    BY DEF Exceeds
<1>1. 0 \in GateDrains(r, a)
    BY DEF GateDrains
<1>2. d \in GateDrains(r, a)
    <2>1. CASE d = 0
        BY <2>1, <1>1
    <2>2. CASE d # 0
        <3>1. PICK c \in a.changes : Outgoing(c) /\ \E p \in c.dollar : d = Abs(p)
            BY <2>2 DEF HookDrains
        <3>2. d \in Deltas(a)
            BY <3>1 DEF Deltas
        <3>3. Provider = "tenderly"
            BY <3>1
        <3> QED
            BY <3>2, <3>3 DEF GateDrains
    <2> QED
        BY <2>1, <2>2
<1>3. d \in IF GateDrains(r, a) = {0} THEN {0} \cup r.amountIn ELSE GateDrains(r, a)
    BY <1>2
<1> QED
    BY <1>3 DEF GateExceeds, Exceeds

\* Where nothing but the request itself tells what goes out, the gate lets no
\* stated amount beyond the maximum through.
LEMMA GateCoversStated ==
    ASSUME NEW r, NEW a, Provider = "viem", a.changes = {}, ~GateExceeds(r, a)
    PROVE  ~Exceeds(r, r.amountIn)
<1> SUFFICES ASSUME NEW d \in r.amountIn, NEW m \in MaxDrain(r), d > m
             PROVE  FALSE
    BY DEF Exceeds
<1>1. GateDrains(r, a) = {0} \cup Hints(r)
    BY DEF GateDrains
<1>2. GateDrains(r, a) # {0} => d \in GateDrains(r, a)
    BY <1>1 DEF Hints
<1> QED
    BY <1>2 DEF GateExceeds, Exceeds

\* What the hook's rule counts goes out.
LEMMA HookCounts ==
    ASSUME NEW r, NEW a, Exceeds(r, HookDrains(a))
    PROVE  (\E c \in a.changes : Outgoing(c)) \/ Exceeds(r, {0})
BY DEF Exceeds, HookDrains

\* What the gate's rule counts goes out, or is stated.
LEMMA GateCounts ==
    ASSUME NEW r, NEW a, GateExceeds(r, a)
    PROVE  \/ \E c \in a.changes : Outgoing(c)
           \/ Exceeds(r, {0} \cup r.amountIn \cup Hints(r))
<1> SUFFICES ASSUME \A c \in a.changes : ~Outgoing(c)
             PROVE  Exceeds(r, {0} \cup r.amountIn \cup Hints(r))
    OBVIOUS
<1>1. Deltas(a) = {}
    BY DEF Deltas
<1>2. \A c \in a.changes : ~c.out /\ {x \in c.dollar : x < 0} = {}
    BY DEF Outgoing
<1>3. GateDrains(r, a) \subseteq {0} \cup Hints(r)
    BY <1>1, <1>2 DEF GateDrains
<1> QED
    BY <1>3 DEF GateExceeds, Exceeds

-----------------------------------------------------------------------------
(* The invariant.                                                          *)

\* Move keeps the types, when it is given values of them.
LEMMA MoveKeepsTypes ==
    ASSUME SafetyTypeOK, NEW l \in Look, NEW a \in Answer,
           NEW next \in {"gate", "send", "done"}, NEW end \in Outcome,
           Move(l, a, next, end)
    PROVE  SafetyTypeOK'
BY DEF SafetyTypeOK, Move, AtMostOne, Look

\* Every answer of a provider is an answer.
LEMMA AnswersTyped ==
    NoAnswer \in Answer /\ TenderlyAnswer \subseteq Answer /\ ViemAnswer \subseteq Answer
BY DEF NoAnswer, TenderlyAnswer, ViemAnswer, Answer

\* SInv holds at the start.
LEMMA SInitInv == SInit => SInv
BY DEF SInit, SInv, SafetyTypeOK, Ordered, DrainForCause, MayGoOut,
       AtMostOne, Outcome, Look, Answer, NoAnswer

\* A request arrives.
LEMMA ReceiveKeeps == SInv /\ Receive => SInv'
<1> SUFFICES ASSUME SInv, Receive PROVE SInv'
    OBVIOUS
<1>1. PICK r \in Requests :
        /\ request' = {r}
        /\ \/ pc' = FirstLook(r.route) /\ outcome' = outcome
           \/ pc' = "done" /\ outcome' = "denied"
    BY DEF Receive
<1>2. /\ pc' \in Look \cup {"done"} /\ (pc' # "done" => outcome' = "none")
      /\ outcome' \in {"none", "denied"} /\ seen' = seen
    <2>1. r.route \in Route
        BY <1>1, GateAssumption DEF RequestRow
    <2>2. FirstLook(r.route) \in Look
        BY <2>1 DEF FirstLook, Route, Look
    <2> QED
        BY <1>1, <2>2 DEF Look, Receive, SInv, Ordered
<1>3. SafetyTypeOK'
    <2>1. request' \in SUBSET Requests /\ AtMostOne(request')
        BY <1>1 DEF AtMostOne
    <2> QED
        BY <1>2, <2>1 DEF SafetyTypeOK, SInv, Receive, Outcome, Refusal
<1>4. seen'["gate"] = NoAnswer
    BY <1>2 DEF Receive, SInv, Ordered
<1> QED
    BY <1>1, <1>2, <1>3, <1>4 DEF SInv, Ordered, DrainForCause, MayGoOut, Look

\* What the hook makes of an answer.
LEMMA HookMoves ==
    ASSUME SInv, Hook
    PROVE  \E r \in request, a \in Answer, next \in {"gate", "done"}, end \in Outcome :
             /\ Move("hook", a, next, end)
             /\ next = "gate" => end = "none"
             /\ end = "drain" => Exceeds(r, HookDrains(a))
             /\ end = "passed" => r.route = "simulate-only"
             /\ end \notin {"simulated", "submitted", "failed"}
<1>1. outcome = "none" /\ "none" \in Outcome
    BY DEF Hook, SInv, Ordered, Outcome
<1>2. \A r, a : PassHook(r, a) =>
        \/ Move("hook", a, "done", "passed") /\ r.route = "simulate-only"
        \/ Move("hook", a, "done", "denied")
        \/ Move("hook", a, "gate", "none")
    BY <1>1 DEF PassHook
<1>3. CASE Provider = "required"
    BY <1>3, AnswersTyped DEF Hook, Refuse, Outcome, Refusal
<1>4. CASE Provider \in {"mock", "viem"}
    <2>1. PICK r \in request : PassHook(r, NoAnswer)
        BY <1>4 DEF Hook
    <2> QED
        BY <2>1, <1>2, AnswersTyped DEF Outcome, Refusal
<1>5. CASE Provider = "tenderly"
    <2>1. PICK r \in request, a \in TenderlyAnswer :
            \/ Refuse("hook", a, "provider") \/ Refuse("hook", a, "reverted")
            \/ Refuse("hook", a, "drain") /\ Exceeds(r, HookDrains(a))
            \/ PassHook(r, a)
        BY <1>5 DEF Hook
    <2> QED
        BY <2>1, <1>2, AnswersTyped DEF Refuse, Outcome, Refusal
<1> QED
    BY <1>3, <1>4, <1>5 DEF Provider

\* The hook judges its answer.
LEMMA HookKeeps == SInv /\ Hook => SInv'
<1> SUFFICES ASSUME SInv, Hook PROVE SInv'
    OBVIOUS
<1>1. PICK r \in request, a \in Answer, next \in {"gate", "done"}, end \in Outcome :
        /\ Move("hook", a, next, end)
        /\ next = "gate" => end = "none"
        /\ end = "drain" => Exceeds(r, HookDrains(a))
        /\ end \notin {"simulated", "submitted", "failed"}
    BY HookMoves
<1>2. SafetyTypeOK'
    BY <1>1, MoveKeepsTypes DEF SInv, Look
<1>3. seen'["gate"] = NoAnswer /\ seen'["hook"] = a
    BY <1>1 DEF Move, Hook, SInv, Ordered, SafetyTypeOK, Look
<1>4. DrainForCause'
    <2>1. \A q \in request' : q = r
        BY <1>1 DEF Move, SInv, SafetyTypeOK, AtMostOne
    <2>2. end = "drain" => \/ \E c \in a.changes : Outgoing(c)
                           \/ Exceeds(r, {0} \cup r.amountIn \cup Hints(r))
        BY <1>1, HookCounts DEF Exceeds
    <2>3. LastSeen' = a
        BY <1>3 DEF LastSeen, NoAnswer
    <2> QED
        BY <1>1, <2>1, <2>2, <2>3 DEF DrainForCause, Move
<1> QED
    BY <1>1, <1>2, <1>3, <1>4 DEF SInv, Ordered, MayGoOut, Move

\* What the preflight makes of an answer.
LEMMA PreflightMoves ==
    ASSUME SInv, Preflight
    PROVE  \E a \in Answer, next \in {"gate", "done"}, end \in Outcome :
             /\ Move("preflight", a, next, end)
             /\ next = "gate" => end = "none"
             /\ end \notin {"drain", "passed", "simulated", "submitted", "failed"}
BY AnswersTyped DEF Preflight, SInv, Ordered, Refuse, Outcome, Refusal

\* The preflight looks at no balance.
LEMMA PreflightKeeps == SInv /\ Preflight => SInv'
<1> SUFFICES ASSUME SInv, Preflight PROVE SInv'
    OBVIOUS
<1>1. PICK a \in Answer, next \in {"gate", "done"}, end \in Outcome :
        /\ Move("preflight", a, next, end)
        /\ next = "gate" => end = "none"
        /\ end \notin {"drain", "passed", "simulated", "submitted", "failed"}
    BY PreflightMoves
<1>2. SafetyTypeOK'
    BY <1>1, MoveKeepsTypes DEF SInv, Look
<1>3. seen'["gate"] = NoAnswer
    BY <1>1 DEF Move, Preflight, SInv, Ordered, SafetyTypeOK, Look
<1>4. request # {} /\ request' = request
    BY <1>1 DEF Move, Preflight, SInv, Ordered
<1> QED
    BY <1>1, <1>2, <1>3, <1>4 DEF SInv, Ordered, MayGoOut, DrainForCause, Move

\* What the gate makes of an answer: it lets through what it has vetted.
LEMMA GateMoves ==
    ASSUME SInv, Gate
    PROVE  \E r \in request, a \in Answer, next \in {"send", "done"}, end \in Outcome :
             /\ Move("gate", a, next, end)
             /\ next = "send" => end = "none" /\ (env.mode = "live" => Vetted(r, a))
             /\ end = "drain" => a.result = "success" /\ GateExceeds(r, a)
             /\ end \notin {"passed", "simulated", "submitted", "failed"}
<1>1. PICK r \in request :
        CASE Provider = "mock" -> Move("gate", NoAnswer, "send", outcome)
          [] Provider = "required" -> Refuse("gate", NoAnswer, "required")
          [] Provider = "tenderly" -> \E a \in TenderlyAnswer : Enforce(r, a)
          [] Provider = "viem" -> \E a \in ViemAnswer : Enforce(r, a)
    BY DEF Gate
<1>2. outcome = "none" /\ outcome \in Outcome
    BY DEF Gate, SInv, Ordered, SafetyTypeOK
<1>3. CASE Provider = "mock"
    <2>1. env.mode # "live"
        BY <1>3 DEF Provider
    <2>2. Move("gate", NoAnswer, "send", "none")
        BY <1>1, <1>2, <1>3
    <2> QED
        BY <2>1, <2>2, <1>2, AnswersTyped
<1>4. CASE Provider = "required"
    BY <1>1, <1>4, AnswersTyped DEF Refuse, Outcome, Refusal
<1>5. CASE Provider \in {"tenderly", "viem"}
    <2>1. PICK a \in TenderlyAnswer \cup ViemAnswer :
            Enforce(r, a) /\ (Provider = "viem" => a.changes = {})
        BY <1>1, <1>5 DEF ViemAnswer
    <2>2. a \in Answer /\ a.result \in {"error", "reverted", "success"}
        BY AnswersTyped DEF TenderlyAnswer, ViemAnswer
    <2> QED
        BY <2>1, <2>2, <1>2, <1>5
           DEF Enforce, Refuse, Vetted, Outcome, Refusal
<1> QED
    BY <1>3, <1>4, <1>5 DEF Provider

\* The gate judges its answer.
LEMMA GateKeeps == SInv /\ Gate => SInv'
<1> SUFFICES ASSUME SInv, Gate PROVE SInv'
    OBVIOUS
<1>1. PICK r \in request, a \in Answer, next \in {"send", "done"}, end \in Outcome :
        /\ Move("gate", a, next, end)
        /\ next = "send" => end = "none" /\ (env.mode = "live" => Vetted(r, a))
        /\ end = "drain" => a.result = "success" /\ GateExceeds(r, a)
        /\ end \notin {"passed", "simulated", "submitted", "failed"}
    BY GateMoves
<1>2. SafetyTypeOK'
    BY <1>1, MoveKeepsTypes DEF SInv, Look
<1>3. seen'["gate"] = a /\ request' = request /\ env' = env /\ pc' = next /\ outcome' = end
    BY <1>1 DEF Move, SInv, SafetyTypeOK, Look
<1>4. \A q \in request' : q = r
    BY <1>1, <1>3 DEF SInv, SafetyTypeOK, AtMostOne
<1>5. DrainForCause'
    <2>1. end = "drain" => \/ \E c \in a.changes : Outgoing(c)
                           \/ Exceeds(r, {0} \cup r.amountIn \cup Hints(r))
        BY <1>1, GateCounts
    <2>2. end = "drain" => LastSeen' = a
        BY <1>1, <1>3 DEF LastSeen
    <2> QED
        BY <1>3, <1>4, <2>1, <2>2 DEF DrainForCause
<1>6. Vetted(r, a) => Vetted(r, a)'
    BY <1>3 DEF Vetted, Provider, GateExceeds, GateDrains, Exceeds
<1>7. MayGoOut' => \A q \in request' : Vetted(q, seen["gate"])'
    BY <1>1, <1>3, <1>4, <1>6 DEF MayGoOut, SInv, Gate, Ordered
<1> QED
    BY <1>1, <1>2, <1>3, <1>5, <1>7 DEF SInv, Ordered

\* The call is sent, or not.
LEMMA SendKeeps == SInv /\ Send => SInv'
<1> SUFFICES ASSUME SInv, Send PROVE SInv'
    OBVIOUS
<1>1. /\ pc = "send" /\ pc' = "done"
      /\ outcome' \in {"simulated", "submitted", "failed"}
      /\ env' = env /\ request' = request /\ seen' = seen
    BY DEF Send, SInv, SafetyTypeOK, Env
<1>2. SafetyTypeOK'
    BY <1>1 DEF SInv, SafetyTypeOK, Outcome, Look
<1>3. MayGoOut' => \A q \in request' : Vetted(q, seen["gate"])'
    BY <1>1 DEF SInv, MayGoOut, Vetted, Provider, GateExceeds, GateDrains, Exceeds
<1> QED
    BY <1>1, <1>2, <1>3 DEF SInv, Ordered, DrainForCause

\* The request is over.
LEMMA LeaveKeeps == SInv /\ Leave => SInv'
BY DEF Leave, SInv, SafetyTypeOK, Ordered, DrainForCause, MayGoOut,
       AtMostOne, Outcome, Look, Answer, NoAnswer

\* SInv is an invariant.
THEOREM SafetyInvariant == SSpec => []SInv
<1>1. SInv /\ [SNext]_svars => SInv'
    <2> SUFFICES ASSUME SInv, [SNext]_svars PROVE SInv'
        OBVIOUS
    <2>1. CASE UNCHANGED svars
        BY <2>1 DEF svars, SInv, SafetyTypeOK, Ordered, DrainForCause,
                    LastSeen, MayGoOut, Vetted, Provider, GateExceeds, GateDrains, Exceeds
    <2> QED
        BY <2>1, ReceiveKeeps, HookKeeps, PreflightKeeps, GateKeeps, SendKeeps,
           LeaveKeeps DEF SNext
<1> QED
    BY <1>1, SInitInv, PTL DEF SSpec

-----------------------------------------------------------------------------
(* What follows from it.                                                   *)

\* The gate's state keeps its types.
THEOREM SafetyTypeCorrect == SSpec => []SafetyTypeOK
<1>1. SInv => SafetyTypeOK
    BY DEF SInv
<1> QED
    BY <1>1, SafetyInvariant, PTL

\* A call that is sent was simulated by whom the configuration asks for, and
\* successfully.
THEOREM LiveCallsSimulated == SSpec => []LiveOnlySimulated
<1>1. SInv => LiveOnlySimulated
    <2> SUFFICES ASSUME SInv, Sent
                 PROVE  seen["gate"].result = "success" /\ (env.required => env.tenderly)
        BY DEF LiveOnlySimulated
    <2>1. PICK r \in request : Vetted(r, seen["gate"])
        BY DEF SInv, Ordered, Sent, MayGoOut
    <2> QED
        BY <2>1 DEF Vetted, Provider, Sent
<1> QED
    BY <1>1, SafetyInvariant, PTL

\* No call is sent on an answer that the hook would have refused.
THEOREM DrainCapped == SSpec => []NoDrainBeyondMax
<1>1. SInv => NoDrainBeyondMax
    BY GateCoversHook DEF SInv, Sent, MayGoOut, NoDrainBeyondMax, Vetted
<1> QED
    BY <1>1, SafetyInvariant, PTL

\* No call that no provider priced is sent beyond the maximum by what its
\* client states.
THEOREM StatedCapped == SSpec => []StatedAmountWithinMax
<1>1. SInv => StatedAmountWithinMax
    <2> SUFFICES ASSUME SInv, Sent, ~env.tenderly, NEW r \in request
                 PROVE  ~Exceeds(r, r.amountIn)
        BY DEF StatedAmountWithinMax
    <2>1. Vetted(r, seen["gate"])
        BY DEF SInv, Sent, MayGoOut
    <2>2. Provider = "viem"
        BY <2>1 DEF Vetted, Provider
    <2> QED
        BY <2>1, <2>2, GateCoversStated DEF Vetted
<1> QED
    BY <1>1, SafetyInvariant, PTL

\* No request is refused for drain unless something goes out or is stated.
THEOREM DrainRefusalsCaused == SSpec => []DrainForCause
<1>1. SInv => DrainForCause
    BY DEF SInv
<1> QED
    BY <1>1, SafetyInvariant, PTL
=============================================================================
