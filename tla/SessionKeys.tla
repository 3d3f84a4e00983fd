---------------------------- MODULE SessionKeys ----------------------------
(***************************************************************************)
(* The decisions src/services/sessionKeys.ts and guardrails.ts take on one *)
(* row read from the store: pure operators, the stores and the order of    *)
(* reads and writes are in IntentPipeline.                                 *)
(*                                                                         *)
(* An intent is a record with                                              *)
(*   agent, session, key   who asks, under which session and key id        *)
(*                         (NoKey: the request names none)                 *)
(*   to, selector          the call, where to is the intent's own target   *)
(*                         as well; NoSelector: under 4 bytes of data      *)
(*   spend                 estimateSpendUsdc of it                         *)
(*   dryRun                                                                *)
(*   route                 the handler that takes it, see IntentPipeline   *)
(* Times and amounts are numbers; an empty allowlist allows everything.    *)
(***************************************************************************)
EXTENDS Integers

CONSTANTS NoKey, NoSelector

Lists(list, x) == list = {} \/ x \in list

\* A session or key row without expiry has an expires no clock reaches.
Expired(row, now) == row.expires < now

\* enforceGuardrails; ok for a session row.
GuardrailsPass(intent, session, now) ==
    /\ session.active
    /\ ~Expired(session, now)
    /\ Lists(session.targets, intent.to)
    /\ session.spent + intent.spend <= session.max

\* Mutant of WindowElapsed: the last instant of the window is outside it.
WindowElapsed_atEnd(scope, now) == now - scope.since >= scope.window

\* The window of a key's row has run out, to be started afresh.
WindowElapsed(scope, now) == now - scope.since > scope.window

FreshWindow(scope, now) == [scope EXCEPT !.spent = 0, !.since = now]

\* The key may be used at all.
KeyUsable(scope, now) == scope.active /\ ~Expired(scope, now)

\* Mutant of CallAllowed: the target allowlist is skipped.
CallAllowed_anyTarget(scope, intent) ==
    intent.selector = NoSelector \/ Lists(scope.selectors, intent.selector)

CallAllowed(scope, intent) ==
    /\ Lists(scope.targets, intent.to)
    /\ intent.selector = NoSelector \/ Lists(scope.selectors, intent.selector)

\* Mutant of WithinCap: only what was spent so far is held against the cap.
WithinCap_before(scope, intent) == scope.spent <= scope.max

WithinCap(scope, intent) == scope.spent + intent.spend <= scope.max

\* Mutant of Charged: the sign is wrong.
Charged_refund(scope, intent) == [scope EXCEPT !.spent = @ - intent.spend]

\* The row recordSessionKeySpend writes: the scope it was handed, charged.
Charged(scope, intent) == [scope EXCEPT !.spent = @ + intent.spend]
=============================================================================
