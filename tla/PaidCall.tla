------------------------------ MODULE PaidCall ------------------------------
(***************************************************************************)
(* A client's call, from its first request to what it reports, over a      *)
(* network that loses requests and answers.  The clients are               *)
(*                                                                         *)
(*   interceptor  executeWithInterceptor of website/src/lib/agentexec-sdk: *)
(*                asks for a resource, settles on a 402, asks again        *)
(*   adapter      WebMCPAgentExecAdapter of src/sdk: probes the paid path  *)
(*                of its tool, if it has one, then executes                *)
(*   sdk          AgentExecSDK of src/sdk: one signed WebMCP call          *)
(*   caller       the MCP server's execute_onchain_intent, or anyone who   *)
(*                posts one request to an execute route                    *)
(*   dryCaller    the same for what is never sent: dry_run_simulation, the *)
(*                simulate routes, a dry run                               *)
(*   payer        an agent that answers the paywall's challenge as the     *)
(*                header of x402Paywall.ts describes (no code of this      *)
(*                repository)                                              *)
(*                                                                         *)
(* The server is the paywall in front of a resource, and SafetyGate for    *)
(* everything that executes.  It remembers nothing of a call, so that one  *)
(* call at a time says it all, and a client may call again and again.      *)
(***************************************************************************)
EXTENDS SafetyGate

CONSTANTS
    Authorization,  \* what a payer may present
    MaxTime         \* bound: the clock of a call

Client == {"interceptor", "adapter", "sdk", "caller", "dryCaller", "payer"}

Dry == {"dryCaller"}

\* Where a resource may be: behind the paywall, on a server that has it
\* switched off, or the website's own imitation of it.
Site == {"paywall", "open", "mock"}

\* A header PAYMENT-SIGNATURE, as far as the paywall reads it: whether the
\* fields it needs are all there, whether the value covers the price, whether
\* the recipient is the configured one, and validBefore.
AuthorizationRow ==
    [complete: BOOLEAN, covers: BOOLEAN, toPayee: BOOLEAN, until: SUBSET Nat]

ASSUME PaidAssumption ==
    /\ \A h \in Authorization : h \in AuthorizationRow /\ AtMostOne(h.until)
    /\ MaxTime \in Nat

VARIABLES
    client,     \* who calls, NoClient between calls
    site,       \* where the resource is that it asks for
    step,       \* what it is doing
    wire,       \* the request it waits for: under way, at the server, answered
    status,     \* the answer
    header,     \* the header it presents, a set of at most one
    now,        \* the clock, since the call began
    quoted,     \* history: a request for the resource was answered 402
    sent,       \* history: payments of the last call that the node has
    moved,      \* history: those of them that are on chain
    report      \* what the last call reported

books == <<quoted, sent, moved>>

call == <<client, site, step, wire, status, header, now, books, report>>

cvars == <<svars, call>>

NoClient == "none"

\* 402 and 400 as the paywall and the routes send them; "refused" is any other
\* answer that is not ok; "thrown": no answer, fetch rejects.
Status == {"none", "ok", "402", "400", "refused", "thrown"}

Report == {"none", "success", "unpaid", "error"}

PaidTypeOK ==
    /\ client \in Client \cup {NoClient}
    /\ site \in Site
    /\ step \in {"idle", "ask", "settle", "again"}
    /\ wire \in {"none", "request", "server", "answer"}
    /\ status \in Status
    /\ header \in SUBSET AuthorizationRow /\ AtMostOne(header)
    /\ now \in 0..MaxTime
    /\ quoted \in BOOLEAN
    /\ sent \in {0, 1} /\ moved \in 0..sent
    /\ report \in Report

PaidInit ==
    /\ SInit
    /\ client = NoClient /\ site = "open" /\ step = "idle" /\ wire = "none"
    /\ status = "none" /\ header = {} /\ now = 0 /\ report = "none"
    /\ quoted = FALSE /\ sent = 0 /\ moved = 0

-----------------------------------------------------------------------------
(* The server.                                                             *)

Expired(h) == \E a \in h : \E t \in a.until : t < now

\* The hook registerX402Paywall installs.
Paywall(h) ==
    CASE h = {} -> "402"
      [] \E a \in h : ~a.complete -> "400"
      [] \E a \in h : a.complete /\ ~(a.covers /\ a.toPayee) -> "402"
      [] \E a \in h : a.complete /\ a.covers /\ a.toPayee ->
           IF Expired(h) THEN "402" ELSE "ok"

\* The resource: /v1/paid/market-pulse, or the premium-data mock, which takes
\* any header.
Resource(h) ==
    CASE site = "paywall" -> Paywall(h)
      [] site = "open" -> "ok"
      [] site = "mock" -> IF h = {} THEN "402" ELSE "ok"

\* Mutant of Answered: only what was refused before the send is an error.
Answered_failedToo(r, end) == IF end \in Refusal THEN {"refused"} ELSE {"ok"}

\* The status code of an outcome.  Of the two routes that a dry run of an
\* intent may take, /v1/intents/simulate answers ok to a failed one.
Answered(r, end) ==
    CASE end \in {"passed", "simulated", "submitted"} -> {"ok"}
      [] end = "failed" /\ r.route = "intents" /\ r.dryRun -> {"refused", "ok"}
      [] OTHER -> {"refused"}

\* The answer to the client, or the end of its waiting for one.  Any request
\* may be refused by rate limit, API key or body, or fail with a 500.
Arrive(s) == wire' = "answer" /\ status' \in {s, "refused", "thrown"}

\* A request for the resource changes nothing at the server, so that a lost
\* request is like a lost answer.
Fetch ==
    /\ wire = "request" /\ step \in {"ask", "again"}
    /\ Arrive(Resource(header))
    /\ quoted' = (quoted \/ status' = "402")
    /\ UNCHANGED <<svars, client, site, step, header, now, sent, moved, report>>

\* The WebMCP route refuses an amount of zero or above its cap with a 402.
TurnAway ==
    /\ wire = "request" /\ step = "settle"
    /\ IF client = "sdk" THEN Arrive("402") ELSE Arrive("refused")
    /\ UNCHANGED <<svars, client, site, step, header, now, books, report>>

\* The requests a client sends to an execute route.
RequestsOf(c) ==
    CASE c \in {"interceptor", "adapter"} ->
           {r \in Requests : r.route = "execute" /\ ~r.dryRun /\ r.max # {}}
      [] c = "sdk" -> {r \in Requests : r.route = "webmcp"}
      [] c = "caller" -> {r \in Requests : r.route \in {"execute", "intents"} /\ ~r.dryRun}
      [] c = "dryCaller" ->
           {r \in Requests : r.dryRun /\ r.route \in {"execute", "intents", "simulate-only"}}
      [] c \in {"payer", NoClient} -> {}

Accept ==
    /\ wire = "request" /\ step = "settle"
    /\ Receive /\ request' \subseteq RequestsOf(client)
    /\ wire' = "server"
    /\ UNCHANGED <<client, site, step, status, header, now, books, report>>

\* The request's way through the gate.
Judge ==
    /\ Hook \/ Preflight \/ Gate
    /\ UNCHANGED call

\* A live call is handed to the node or bundler, or fails, after that perhaps.
\* A success says no more: with the wallet and the bundler it is answered when
\* they took the call, with the Safe also when the wait for a receipt was in
\* vain or the receipt tells of a revert, for neither is looked at.
Settle ==
    /\ Send
    /\ sent' \in CASE env.mode = "live" /\ outcome' = "submitted" -> {sent + 1}
                   [] env.mode = "live" /\ outcome' = "failed" /\ env.account ->
                        {sent, sent + 1}
                   [] OTHER -> {sent}
    /\ UNCHANGED <<client, site, step, wire, status, header, now, quoted, moved, report>>

\* What the node has goes on chain, whether anybody waits for it or not.
Land ==
    /\ moved < sent /\ moved' = moved + 1
    /\ UNCHANGED <<svars, client, site, step, wire, status, header, now, quoted, sent, report>>

\* The handler answers, throws, or dies with its process.
Reply ==
    /\ wire = "server" /\ wire' = "answer"
    /\ Leave
    /\ \/ status' \in {"refused", "thrown"}
       \/ pc = "done" /\ \E r \in request : status' \in Answered(r, outcome)
    /\ UNCHANGED <<client, site, step, header, now, books, report>>

-----------------------------------------------------------------------------
(* The clients.                                                            *)

\* The next request of the call.
Request(next, h) ==
    /\ step' = next /\ header' = h /\ wire' = "request" /\ status' = "none"
    /\ UNCHANGED <<svars, client, site, now, books, report>>

\* The call is over.
Finish(result) ==
    /\ client' = NoClient /\ step' = "idle" /\ wire' = "none"
    /\ site' = "open" /\ status' = "none" /\ header' = {} /\ now' = 0
    /\ report' = result
    /\ UNCHANGED <<svars, books>>

Told == CASE status = "ok" -> "success" [] status = "402" -> "unpaid" [] OTHER -> "error"

\* The first request of a client: for a resource, or at once to a route.
FirstStep(c) ==
    CASE c \in {"interceptor", "payer"} -> {"ask"}
      [] c = "adapter" -> {"ask", "settle"}
      [] c \in {"sdk", "caller", "dryCaller"} -> {"settle"}

SitesOf(c) ==
    CASE c = "interceptor" -> Site
      [] c = "adapter" -> {"paywall", "open"}
      [] c = "payer" -> {"paywall"}
      [] c \in {"sdk", "caller", "dryCaller"} -> {"open"}

Call ==
    /\ client = NoClient
    /\ \E c \in Client :
        client' = c /\ site' \in SitesOf(c) /\ step' \in FirstStep(c)
    /\ wire' = "request" /\ report' = "none"
    /\ quoted' = FALSE /\ sent' = 0 /\ moved' = 0
    /\ UNCHANGED <<svars, status, header, now>>

\* The header of executeWithInterceptor: a value and no recipient.
DemoHeader == [complete |-> FALSE, covers |-> TRUE, toPayee |-> FALSE, until |-> {}]

\* Mutant of Intercept: it settles whenever the resource is not served.
Intercept_unasked ==
    /\ client = "interceptor" /\ wire = "answer"
    /\ CASE step = "ask" /\ status # "ok" -> Request("settle", {})
         [] step = "settle" /\ status = "ok" -> Request("again", {DemoHeader})
         [] OTHER -> Finish(IF status = "ok" THEN "success" ELSE "error")

\* Mutant of Intercept: it settles anew when the answer did not come.
Intercept_retry ==
    /\ client = "interceptor" /\ wire = "answer"
    /\ CASE step = "ask" /\ status = "402" -> Request("settle", {})
         [] step = "settle" /\ status = "thrown" -> Request("settle", {})
         [] step = "settle" /\ status = "ok" -> Request("again", {DemoHeader})
         [] OTHER -> Finish(IF status = "ok" THEN "success" ELSE "error")

\* executeWithInterceptor.
Intercept ==
    /\ client = "interceptor" /\ wire = "answer"
    /\ CASE step = "ask" /\ status = "402" -> Request("settle", {})
         [] step = "settle" /\ status = "ok" -> Request("again", {DemoHeader})
         [] OTHER -> Finish(IF status = "ok" THEN "success" ELSE "error")

\* Mutant of Adapt: a probe that found no answer is repeated.
Adapt_probeAgain ==
    /\ client = "adapter" /\ wire = "answer"
    /\ CASE status = "402" -> Finish("unpaid")
         [] step = "ask" /\ status = "thrown" -> Request("ask", {})
         [] step = "ask" /\ status \notin {"402", "thrown"} -> Request("settle", {})
         [] OTHER -> Finish(Told)

\* Mutant of Adapt: it probes after it has executed.
Adapt_probeLast ==
    /\ client = "adapter" /\ wire = "answer"
    /\ CASE status = "402" -> Finish("unpaid")
         [] step = "settle" /\ status = "ok" -> Request("ask", {})
         [] OTHER -> Finish(Told)

\* executeViaAgentExec: it stops at a 402, for it cannot pay one, and executes
\* after any other answer to the probe, or none.
Adapt ==
    /\ client = "adapter" /\ wire = "answer"
    /\ CASE status = "402" -> Finish("unpaid")
         [] step = "ask" /\ status # "402" -> Request("settle", {})
         [] OTHER -> Finish(Told)

\* executeToolCall, execute_onchain_intent and dry_run_simulation: one
\* request, and what it brought is reported.
Single ==
    /\ client \in {"sdk", "caller", "dryCaller"} /\ wire = "answer"
    /\ Finish(Told)

\* A payer takes the challenge up with an authorization of its choice.
PayerGoesOn ==
    /\ client = "payer" /\ wire = "answer"
    /\ IF step = "ask" /\ status = "402"
       THEN \E h \in Authorization : Request("again", {h})
       ELSE Finish(Told)

\* Only an authorization has a time, and only a payer signs one: for the
\* other clients the clock is left alone.
Tick ==
    /\ client = "payer" /\ wire = "request" /\ now < MaxTime
    /\ now' = now + 1
    /\ UNCHANGED <<svars, client, site, step, wire, status, header, books, report>>

Progress ==
    \/ Fetch \/ TurnAway \/ Accept \/ Judge \/ Settle \/ Reply
    \/ Intercept \/ Adapt \/ Single \/ PayerGoesOn

PaidNext == Call \/ Progress \/ Tick \/ Land

\* Handlers run on, and a fetch resolves or rejects: it never waits forever.
\* Nothing makes a transaction land.
PaidSpec == PaidInit /\ [][PaidNext]_cvars /\ WF_cvars(Progress)

-----------------------------------------------------------------------------
(* Properties.                                                             *)

\* A client that is told to pay first has not paid (webmcp-agentexec-adapter
\* .ts:165, webmcp-adapter.ts:100): an answer 402 never follows a transfer
\* handed over in the same call.
UnpaidMeansUnpaid == report = "unpaid" => sent = 0

\* The server has served on an authorization of the full price to the payee,
\* whose term had not passed when it arrived.
Authorized ==
    /\ client = "payer" /\ wire = "answer" /\ status = "ok"
    /\ \E h \in header : /\ h.complete /\ h.covers /\ h.toPayee
                         /\ \A t \in h.until : now <= t

\* The clients whose call is an order to pay: whoever asks for the execution
\* of a transfer owes it before anything is answered.
UnderOrder == {"adapter", "sdk", "caller"}

\* The call has still to pay: its order, in the mode in which money moves; or
\* the price that an answer has told it, until it has handed over a transfer
\* (interceptor), or been served on its authorization (payer).
Owes ==
    \/ env.mode = "live" /\ sent = 0
         /\ (client \in UnderOrder \/ (client = "interceptor" /\ quoted))
    \/ client = "payer" /\ quoted /\ ~Authorized

\* Whatever is lost, refused or fails on the way, a client's call hands over
\* one payment at most, and only if it was ordered to or an answer 402 has told
\* it the price; and it reports success only when it owes nothing.  That is
\* not to say that the payment is on chain: every client implements Purchase,
\* where it may land later or never.
Promise == INSTANCE Purchase
             WITH open <- client # NoClient, owes <- Owes, won <- report = "success"

PurchaseImplemented == Promise!PurchaseSpec

\* A call ends.
CallEnds == client # NoClient ~> client = NoClient
=============================================================================
