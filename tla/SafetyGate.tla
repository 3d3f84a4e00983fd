----------------------------- MODULE SafetyGate -----------------------------
(***************************************************************************)
(* What a call has to pass before it is sent: the Tenderly hook in front   *)
(* of the execute routes (src/middleware/simulateHook.ts), the preflight   *)
(* of the WebMCP route, and the gate inside executeUserOperation that all  *)
(* routes share (src/services/tenderly.ts).  Each of the three asks the    *)
(* provider anew and may be told something else, and the hook and the gate *)
(* judge an answer by rules of their own.  A request touches no table on   *)
(* this way, so one request at a time says it all.                         *)
(*                                                                         *)
(* A request is an intent (IntentResolver) with its route and maximum.  A  *)
(* field that may be absent is a set with at most one element.  Amounts    *)
(* are integers in whatever unit the field has: dollarValue and            *)
(* maxAllowedDrainUSD in dollars, the amount of a change in token units.   *)
(***************************************************************************)
EXTENDS IntentResolver

CONSTANTS
    Change,     \* the balance changes an answer may list
    Address,    \* tokens and targets
    Requests,   \* the requests that may arrive
    ConfigMax   \* config.TENDERLY_MAX_DRAIN_USDC

Route == {"intents", "execute", "simulate-only", "webmcp"}

AtMostOne(s) == \A x, y \in s : x = y

ChangeRow == [dollar: SUBSET Int, amount: Nat, out: BOOLEAN]

RequestRow == [route: Route, dryRun: BOOLEAN, max: SUBSET Int,
               kind: Kind, has: SUBSET Field, tokenIn: SUBSET Address,
               target: SUBSET Address, amountIn: SUBSET Nat, amountInWei: SUBSET Nat]

\* Only the intents route takes an intent from its client, with an amount or
\* a kind; the others make a custom one.
ASSUME GateAssumption ==
    /\ \A c \in Change : c \in ChangeRow /\ AtMostOne(c.dollar)
    /\ \A r \in Requests :
        /\ r \in RequestRow
        /\ AtMostOne(r.tokenIn) /\ AtMostOne(r.target)
        /\ AtMostOne(r.max) /\ AtMostOne(r.amountIn) /\ AtMostOne(r.amountInWei)
        /\ Resolvable(r)
        /\ r.route # "intents" => r.kind = "custom" /\ ~StatesAmount(r)
    /\ ConfigMax \in Nat

VARIABLES
    env,        \* what the process was started with
    request,    \* the request in hand, a set of at most one
    pc,         \* where it is
    seen,       \* what the hook, the preflight and the gate were told
    outcome     \* how it ended

svars == <<env, request, pc, seen, outcome>>

Env == [mode: {"live", "simulate", "mock"}, tenderly: BOOLEAN,
        required: BOOLEAN, account: BOOLEAN]

Look == {"hook", "preflight", "gate"}

Answer == [result: {"none", "error", "reverted", "success"}, changes: SUBSET Change]

NoAnswer == [result |-> "none", changes |-> {}]

Refusal == {"denied", "required", "provider", "reverted", "drain", "mismatch"}

Outcome == Refusal \cup {"none", "passed", "simulated", "submitted", "failed"}

SafetyTypeOK ==
    /\ env \in Env
    /\ request \in SUBSET Requests /\ AtMostOne(request)
    /\ pc \in Look \cup {"idle", "send", "done"}
    /\ seen \in [Look -> Answer]
    /\ outcome \in Outcome

SInit ==
    /\ env \in Env /\ request = {} /\ pc = "idle"
    /\ seen = [l \in Look |-> NoAnswer] /\ outcome = "none"

-----------------------------------------------------------------------------
(* The provider.                                                           *)

\* Mutant of TenderlyAnswer: an unfinished simulation is a verdict too.
TenderlyAnswer_pending ==
    [result: {"pending", "reverted", "success"}, changes: SUBSET Change]
        \cup {[result |-> "error", changes |-> {}]}

\* simulateOnTenderly: it throws, or returns a verdict with balance changes.
TenderlyAnswer ==
    [result: {"reverted", "success"}, changes: SUBSET Change]
        \cup {[result |-> "error", changes |-> {}]}

\* simulateCall: estimateGas knows of no balances.
ViemAnswer == [result: {"reverted", "success"}, changes: {{}}]

\* Who is asked before a send.
Provider ==
    CASE env.mode = "mock" -> "mock"
      [] env.mode # "mock" /\ env.tenderly -> "tenderly"
      [] env.mode # "mock" /\ ~env.tenderly /\ env.required -> "required"
      [] OTHER -> "viem"

-----------------------------------------------------------------------------
(* How much a call drains.                                                 *)

Abs(n) == IF n < 0 THEN -n ELSE n

Outgoing(c) == c.out \/ \E d \in c.dollar : d < 0

MaxDrain(r) == IF r.max = {} THEN {ConfigMax} ELSE r.max

Exceeds(r, drains) == \E d \in drains, m \in MaxDrain(r) : d > m

\* estimateDrainUsd: the price of what goes out.
HookDrains(a) ==
    {0} \cup (UNION {{Abs(d) : d \in c.dollar} : c \in {x \in a.changes : Outgoing(x)}})

\* tenderlyToOutcome: the deltas that start with a minus sign.
Deltas(a) ==
    UNION {IF c.dollar = {} THEN {c.amount} ELSE {Abs(d) : d \in c.dollar} :
           c \in {x \in a.changes : Outgoing(x)}}

\* estimateBalanceHints, the same for viem: what the intent itself states.
Hints(r) ==
    IF r.tokenIn = {} THEN {} ELSE IF r.amountIn # {} THEN r.amountIn ELSE r.amountInWei

\* Mutant of GateDrains: what comes in is counted too.
GateDrains_anyDirection(r, a) ==
    {0} \cup (UNION {{Abs(d) : d \in c.dollar} : c \in a.changes})
        \cup {c.amount : c \in a.changes}
        \cup (IF Provider = "tenderly" THEN Deltas(a) ELSE Hints(r))

\* Mutant of GateDrains: only what goes out by its direction.
GateDrains_directionOnly(r, a) ==
    {0} \cup {c.amount : c \in {x \in a.changes : x.out}}
        \cup (IF Provider = "tenderly" THEN {} ELSE Hints(r))

\* estimateUsdDrain, before it falls back: negative prices, amounts of what
\* goes out as they are, and the deltas.
GateDrains(r, a) ==
    {0} \cup (UNION {{-d : d \in {x \in c.dollar : x < 0}} : c \in a.changes})
        \cup {c.amount : c \in {x \in a.changes : x.out}}
        \cup (IF Provider = "tenderly" THEN Deltas(a) ELSE Hints(r))

\* Mutant of GateExceeds: what the intent states is not fallen back to.
GateExceeds_noFallback(r, a) == Exceeds(r, GateDrains(r, a))

\* Where nothing goes out the stated amount counts.
GateExceeds(r, a) ==
    Exceeds(r, IF GateDrains(r, a) = {0} THEN {0} \cup r.amountIn ELSE GateDrains(r, a))

-----------------------------------------------------------------------------
(* The steps of a request.                                                 *)

Move(look, answer, next, end) ==
    /\ seen' = [seen EXCEPT ![look] = answer]
    /\ pc' = next /\ outcome' = end
    /\ UNCHANGED <<env, request>>

Refuse(look, answer, why) == Move(look, answer, "done", why)

FirstLook(route) ==
    CASE route = "intents" -> "gate"
      [] route = "webmcp" -> "preflight"
      [] route \in {"execute", "simulate-only"} -> "hook"

\* On the intents route the guardrails and the session key (IntentPipeline)
\* come first and may deny the call.  The WebMCP route makes a dry run of
\* everything unless the mode is live.
Receive ==
    /\ pc = "idle"
    /\ \E r \in Requests :
        /\ r.route = "webmcp" => r.dryRun = (env.mode # "live")
        /\ request' = {r}
        /\ \/ pc' = FirstLook(r.route) /\ UNCHANGED outcome
           \/ r.route = "intents" /\ pc' = "done" /\ outcome' = "denied"
    /\ UNCHANGED <<env, seen>>

\* The hook lets a request on, to its answer or to the gate.  The execute
\* route asks the session key in between.
PassHook(r, a) ==
    IF r.route = "simulate-only" THEN Move("hook", a, "done", "passed")
    ELSE Move("hook", a, "gate", outcome) \/ Move("hook", a, "done", "denied")

\* verifySimulationHook.
Hook ==
    /\ pc = "hook"
    /\ \E r \in request :
        CASE Provider = "required" -> Refuse("hook", NoAnswer, "required")
          [] Provider \in {"mock", "viem"} -> PassHook(r, NoAnswer)
          [] Provider = "tenderly" ->
               \E a \in TenderlyAnswer :
                   CASE a.result = "error" -> Refuse("hook", a, "provider")
                     [] a.result = "reverted" -> Refuse("hook", a, "reverted")
                     [] a.result = "success" /\ Exceeds(r, HookDrains(a)) ->
                          Refuse("hook", a, "drain")
                     [] OTHER -> PassHook(r, a)

\* simulateTransaction: no balance is looked at, and the mode does not matter.
Preflight ==
    /\ pc = "preflight"
    /\ IF ~env.tenderly
       THEN Move("preflight", NoAnswer, "gate", outcome)
       ELSE \E a \in TenderlyAnswer :
               IF a.result = "success" THEN Move("preflight", a, "gate", outcome)
                                       ELSE Refuse("preflight", a, "reverted")

\* The target of the intent handed on is not the address called.
Mismatched(r) == \E t \in ResolvedTarget(r) : t # CallTo(r)

\* Mutant of Enforce: a provider that fails is taken for one that is missing.
Enforce_failOpen(r, a) ==
    CASE a.result = "reverted" -> Refuse("gate", a, "reverted")
      [] a.result = "success" /\ GateExceeds(r, a) -> Refuse("gate", a, "drain")
      [] a.result = "success" /\ ~GateExceeds(r, a) /\ Mismatched(r) ->
           Refuse("gate", a, "mismatch")
      [] OTHER -> Move("gate", a, "send", outcome)

\* enforceSafetyPolicy.
Enforce(r, a) ==
    CASE a.result \in {"error", "reverted"} -> Refuse("gate", a, "reverted")
      [] a.result = "success" /\ GateExceeds(r, a) -> Refuse("gate", a, "drain")
      [] a.result = "success" /\ ~GateExceeds(r, a) /\ Mismatched(r) ->
           Refuse("gate", a, "mismatch")
      [] OTHER -> Move("gate", a, "send", outcome)

\* runPreExecutionSafety, on every route.
Gate ==
    /\ pc = "gate"
    /\ \E r \in request :
        CASE Provider = "mock" -> Move("gate", NoAnswer, "send", outcome)
          [] Provider = "required" -> Refuse("gate", NoAnswer, "required")
          [] Provider = "tenderly" -> \E a \in TenderlyAnswer : Enforce(r, a)
          [] Provider = "viem" -> \E a \in ViemAnswer : Enforce(r, a)

\* The rest of executeUserOperation.
Send ==
    /\ pc = "send" /\ pc' = "done"
    /\ \E r \in request :
        CASE env.mode = "mock" ->
               outcome' = IF r.dryRun THEN "simulated" ELSE "submitted"
          [] env.mode # "mock" /\ (r.dryRun \/ env.mode = "simulate") ->
               outcome' = "simulated"
          [] OTHER -> \/ env.account /\ outcome' = "submitted"
                      \/ outcome' = "failed"
    /\ UNCHANGED <<env, request, seen>>

\* The request is over: answered, or gone with the process, which starts anew.
Leave ==
    /\ pc # "idle" /\ pc' = "idle"
    /\ request' = {} /\ seen' = [l \in Look |-> NoAnswer] /\ outcome' = "none"
    /\ UNCHANGED env

SNext == Receive \/ Hook \/ Preflight \/ Gate \/ Send \/ Leave

SSpec == SInit /\ [][SNext]_svars

-----------------------------------------------------------------------------
(* Properties.                                                             *)

\* A call may be on chain, or is about to be.
Sent == env.mode = "live" /\ outcome \in {"submitted", "failed"}

\* "Require Tenderly success before live broadcast when credentials are set"
\* (env.ts:26), on every route and in the look taken last before the send:
\* with credentials Tenderly said success, without them the required flag is
\* off and the gas estimate succeeded.
LiveOnlySimulated ==
    Sent => /\ seen["gate"].result = "success"
            /\ env.required => env.tenderly

\* Whatever a route did before, nothing is sent on an answer that the other
\* rule would refuse: in the answer the gate decides on, no price of what goes
\* out exceeds the maximum.  The intents route never passed the hook.
NoDrainBeyondMax ==
    Sent => \A r \in request : ~Exceeds(r, HookDrains(seen["gate"]))

\* Where no provider looks at balances, the amount that a client states takes
\* their place: it is not sent if it exceeds the maximum.
StatedAmountWithinMax ==
    Sent /\ ~env.tenderly => \A r \in request : ~Exceeds(r, r.amountIn)

LastSeen == IF seen["gate"].result = "none" THEN seen["hook"] ELSE seen["gate"]

\* Nobody is refused for tokens coming in: behind a refusal for drain is
\* something that goes out, or a stated amount, or a maximum below zero.
DrainForCause ==
    outcome = "drain" => \A r \in request :
        \/ \E c \in LastSeen.changes : Outgoing(c)
        \/ Exceeds(r, {0} \cup r.amountIn \cup Hints(r))
=============================================================================
