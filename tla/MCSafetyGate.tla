---------------------------- MODULE MCSafetyGate ----------------------------
EXTENDS SafetyGate

\* A maximum of 2 or 4 dollars: a sale above it that is marked by its sign
\* only, a cheap one of many token units, one without a price, a free one,
\* and something that comes in.
MCChange ==
    {[dollar |-> {-3}, amount |-> 0, out |-> FALSE],
     [dollar |-> {3}, amount |-> 1, out |-> TRUE],
     [dollar |-> {1}, amount |-> 9, out |-> TRUE],
     [dollar |-> {}, amount |-> 1, out |-> TRUE],
     [dollar |-> {9}, amount |-> 9, out |-> FALSE]}

MCAddress == {"usdc", "router", "other"}

Rows(route, dryRun, max, kind, tokenIn, target, amountIn, amountInWei) ==
    [route: {route}, dryRun: dryRun, max: max, kind: {kind}, has: {Field},
     tokenIn: tokenIn, target: target, amountIn: amountIn, amountInWei: amountInWei]

\* Intents as clients post them: a transfer of the default token or a named
\* one, an approval that names its spender, a call of their own.
Posted ==
    Rows("intents", BOOLEAN, {{}, {4}, {-1}}, "transfer", {{}, {"usdc"}}, {{}},
         {{}, {0}, {1}, {5}}, {{}, {9}})
    \cup Rows("intents", {FALSE}, {{4}}, "approve", {{}}, {{"other"}}, {{1}}, {{}, {9}})
    \cup Rows("intents", {FALSE}, {{}, {4}}, "custom", {{}, {"usdc"}}, {{"other"}},
              {{}, {5}}, {{}})

Built(route, dryRun, max) ==
    Rows(route, dryRun, max, "custom", {{}}, {{"other"}}, {{}}, {{}})

MCRequests ==
    {r \in Posted : Resolvable(r)}
        \cup Built("webmcp", BOOLEAN, {{}})
        \cup Built("execute", BOOLEAN, {{}, {4}})
        \cup Built("simulate-only", {TRUE}, {{}, {4}})
=============================================================================
