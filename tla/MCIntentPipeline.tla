-------------------------- MODULE MCIntentPipeline --------------------------
(* Small instances of IntentPipeline for TLC.                              *)
EXTENDS IntentPipeline, TLC

CONSTANTS key, agent, session, good, bad, sel, w1, w2   \* model values

By(route, k, dry) ==
    [agent |-> agent, session |-> session, key |-> k, dryRun |-> dry, route |-> route,
     kind |-> "custom", has |-> {"data"}, tokenIn |-> {}, target |-> {good},
     selector |-> sel, amountIn |-> {}, amountInWei |-> {},
     value |-> 0, inData |-> 0]

\* A transfer of the default token, its amount in one field or the other.
Pay(k, amountIn, amountInWei, dry) ==
    [By("intents", k, dry) EXCEPT !.kind = "transfer", !.has = {"recipient"},
                                  !.target = {}, !.amountIn = amountIn,
                                  !.amountInWei = amountInWei]

\* A call of the client's own, which states no amount, whatever it moves.
Call(route, k, to, inData) ==
    [By(route, k, FALSE) EXCEPT !.target = {to}, !.inData = inData]

\* An exchange that states its amount in both fields and sends value along.
Swap(k, amountIn, amountInWei, value) ==
    [By("intents", k, FALSE) EXCEPT !.kind = "swap", !.has = {"tokenOut"},
                                    !.amountIn = amountIn,
                                    !.amountInWei = amountInWei, !.value = value]

Body(max, active, window, expires) ==
    [id |-> key, agent |-> agent, active |-> active, max |-> max, spent |-> 0,
     window |-> window, since |-> 0, expires |-> expires,
     targets |-> {good}, selectors |-> {}]

Limit(max, active) ==
    [active |-> active, max |-> max, spent |-> 0, expires |-> MaxTime,
     targets |-> {}]

\* A transfer, a larger one that names no key and states it in base units, a
\* dry run, one without its recipient; on the other routes an ordinary call,
\* one to a blocked target, one without a scope.
MCIntents ==
    {Pay(key, {1}, {}, FALSE), Pay(NoKey, {}, {2}, FALSE),
     Pay(key, {1}, {}, TRUE), [Pay(key, {1}, {}, FALSE) EXCEPT !.has = {}],
     Call("execute", key, good, 0), Call("execute", key, bad, 1),
     Call("webmcp", NoKey, bad, 1)}

\* An ordinary key; the same key revoked; with a lower cap and an early expiry.
MCKeyTemplates == {Body(2, TRUE, 1, 2), Body(1, FALSE, 1, 2), Body(1, TRUE, 2, 1)}

MCSessionTemplates == {Limit(1, TRUE), Limit(2, FALSE)}

MCDefaultSession == Limit(2, TRUE)

\* Where time matters, calls of one ordinary key with a window of two ticks.
\* What they carry is booked in full: an amount in one field or the other, one
\* stated in both, a custom call that states what its bytes move, one that
\* moves nothing.  A call without a scope may carry anything.
PlainIntents ==
    {Pay(key, {1}, {}, FALSE), Pay(key, {}, {2}, FALSE), Pay(key, {1}, {}, TRUE),
     Swap(key, {2}, {1}, 1), [Call("intents", key, good, 1) EXCEPT !.amountIn = {1}],
     Call("execute", key, good, 0), Call("webmcp", NoKey, bad, 2)}

\* A custom call under a key of which the client states nothing.
UnbookedIntents == {Call("intents", key, good, 3)}

PlainKeyTemplates == {Body(2, TRUE, 2, MaxTime)}

\* Requests of an agent that was issued no key.
KeylessIntents == {Pay(NoKey, {2}, {}, FALSE)}

NoTemplates == {}

\* Requests are interchangeable.
MCSymmetry == Permutations(Worker)
=============================================================================
