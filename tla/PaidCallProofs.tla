--------------------------- MODULE PaidCallProofs ---------------------------
(***************************************************************************)
(* What PaidCall promises, for any requests, balance changes, maximum and  *)
(* authorizations: the clients leave the gate the gate it is, and each     *)
(* implements Purchase.  The invariant CInv says who may be doing what     *)
(* (Turns), how the one payment goes with it (Payments) and who knows of   *)
(* its price (Quotes).                                                     *)
(***************************************************************************)
EXTENDS PaidCall, SafetyGateProofs

\* A request is with the client, the network or the server, and a client goes
\* the way of its kind.
Turns ==
    /\ client = NoClient <=> step = "idle"
    /\ client = NoClient <=> wire = "none"
    /\ wire = "server" <=> pc # "idle"
    /\ wire = "server" => step = "settle"
    /\ wire # "answer" => status = "none"
    /\ step = "settle" => client # "payer"
    /\ step = "ask" => client \in {"interceptor", "adapter", "payer"}
    /\ step = "again" => client \in {"interceptor", "payer"}
    /\ client = "payer" => site = "paywall"
    /\ client # NoClient => report = "none"

\* What is in hand at the server is what the client sends: a dry run, or
\* nothing that a live server would make one of.
Errand ==
    env.mode = "live" /\ pc # "idle" => \A r \in request :
        IF client \in Dry THEN r.dryRun ELSE ~r.dryRun /\ r.route # "simulate-only"

\* Nothing has been handed over before the call is sent, and a live server that
\* says ok has sent it.
Payments ==
    /\ client \in Dry \cup {"payer"} => sent = 0
    /\ step = "ask" => sent = 0
    /\ step = "settle" /\ wire = "request" => sent = 0
    /\ pc \notin {"idle", "done"} => sent = 0
    /\ status = "402" => sent = 0 \/ step = "again"
    /\ env.mode = "live" /\ client \notin Dry =>
        /\ outcome = "submitted" => sent = 1
        /\ outcome \notin {"passed", "simulated"}
        /\ step = "settle" /\ status = "ok" => sent = 1
        /\ step = "again" /\ client = "interceptor" => sent = 1
    /\ client = "payer" /\ status = "ok" => Authorized

\* Who pays or signs for a price has been told it.
Quotes ==
    /\ step = "ask" /\ quoted => status = "402"
    /\ step = "ask" /\ status = "402" => quoted
    /\ client = "interceptor" /\ step # "ask" => quoted
    /\ client = "payer" /\ step = "again" => quoted

CInv == PaidTypeOK /\ Turns /\ Errand /\ Payments /\ Quotes /\ UnpaidMeansUnpaid

-----------------------------------------------------------------------------
(* The gate under its clients.                                             *)

\* What executeWithInterceptor may do next.
LEMMA InterceptCases ==
    ASSUME Intercept
    PROVE  /\ client = "interceptor" /\ wire = "answer"
           /\ \/ step = "ask" /\ status = "402" /\ Request("settle", {})
              \/ step = "settle" /\ status = "ok" /\ Request("again", {DemoHeader})
              \/ step # "settle" /\ status = "ok" /\ Finish("success")
              \/ status # "ok" /\ Finish("error")
BY Zenon DEF Intercept

\* What the adapter may do next.
LEMMA AdaptCases ==
    ASSUME Adapt
    PROVE  /\ client = "adapter" /\ wire = "answer"
           /\ \/ status = "402" /\ Finish("unpaid")
              \/ step = "ask" /\ Request("settle", {})
              \/ step # "ask" /\ status = "ok" /\ Finish("success")
              \/ step # "ask" /\ status \notin {"402", "ok"} /\ Finish("error")
BY Zenon DEF Adapt, Told

\* What a client that sends one request does with its answer.
LEMMA SingleCases ==
    ASSUME Single
    PROVE  /\ client \in {"sdk", "caller", "dryCaller"} /\ wire = "answer"
           /\ \/ status = "402" /\ Finish("unpaid")
              \/ status = "ok" /\ Finish("success")
              \/ status \notin {"402", "ok"} /\ Finish("error")
BY Zenon DEF Single, Told

\* What a payer may do next.
LEMMA PayerCases ==
    ASSUME PayerGoesOn
    PROVE  /\ client = "payer" /\ wire = "answer"
           /\ \/ /\ step = "ask" /\ status = "402"
                 /\ \E h \in Authorization : Request("again", {h})
              \/ status = "402" /\ Finish("unpaid")
              \/ status = "ok" /\ Finish("success")
              \/ status \notin {"402", "ok"} /\ Finish("error")
BY Zenon DEF PayerGoesOn, Told

\* A client that goes on leaves the server alone.
LEMMA ClientLeavesGate ==
    Intercept \/ Adapt \/ Single \/ PayerGoesOn => UNCHANGED svars
BY InterceptCases, AdaptCases, SingleCases, PayerCases DEF Request, Finish

\* Every step of the composed system is a step of the gate or leaves it alone.
LEMMA StepIsGateStep == [PaidNext]_cvars => [SNext]_svars
<1> SUFFICES ASSUME [PaidNext]_cvars PROVE [SNext]_svars
    OBVIOUS
<1>1. CASE UNCHANGED cvars
    BY <1>1 DEF cvars, svars
<1>2. CASE Call \/ Tick \/ Fetch \/ TurnAway \/ Land
    BY <1>2 DEF Call, Tick, Fetch, TurnAway, Land
<1>3. CASE Accept \/ Reply
    BY <1>3 DEF Accept, Reply, SNext
<1>4. CASE Judge
    BY <1>4 DEF Judge, SNext
<1>5. CASE Settle
    <2>1. Send
        BY <1>5, Zenon DEF Settle
    <2> QED
        BY <2>1 DEF SNext
<1>6. CASE Intercept \/ Adapt \/ Single \/ PayerGoesOn
    BY <1>6, ClientLeavesGate
<1> QED
    BY <1>1, <1>2, <1>3, <1>4, <1>5, <1>6 DEF PaidNext, Progress

\* Whatever its clients do, the gate is SafetyGate, and SInv holds.
THEOREM GateUnderClients == PaidSpec => SSpec /\ []SInv
<1>1. PaidInit => SInit
    BY DEF PaidInit
<1> QED
    BY <1>1, StepIsGateStep, SafetyInvariant, PTL DEF PaidSpec, SSpec

-----------------------------------------------------------------------------
(* The invariant.                                                          *)

\* CInv holds at the start.
LEMMA CInitInv == PaidInit => CInv
<1> SUFFICES ASSUME PaidInit PROVE CInv
    OBVIOUS
<1>1. PaidTypeOK
    <2>1. sent \in {0, 1} /\ moved \in 0..sent
        BY DEF PaidInit
    <2>2. quoted \in BOOLEAN
        BY Zenon DEF PaidInit
    <2> QED
        BY <2>1, <2>2, PaidAssumption
           DEF PaidInit, PaidTypeOK, NoClient, Site, Status, Report, AtMostOne
<1> QED
    BY <1>1 DEF PaidInit, SInit, CInv, Turns, Errand, Payments, Quotes,
                UnpaidMeansUnpaid, NoClient, Dry

\* A call begins.
LEMMA CallKeeps == SInv /\ CInv /\ Call => CInv'
<1> SUFFICES ASSUME SInv, CInv, Call PROVE CInv'
    OBVIOUS
<1>1. PICK c \in Client :
        client' = c /\ site' \in SitesOf(c) /\ step' \in FirstStep(c)
    BY DEF Call
<1>2. SitesOf(c) \subseteq Site /\ FirstStep(c) \subseteq {"ask", "settle"}
    BY Zenon DEF Client, SitesOf, Site, FirstStep
<1>3. c = "payer" => SitesOf(c) = {"paywall"} /\ FirstStep(c) = {"ask"}
    BY Zenon DEF SitesOf, FirstStep
<1>4. /\ c = "interceptor" => FirstStep(c) = {"ask"}
      /\ c \in {"sdk", "caller", "dryCaller"} => FirstStep(c) = {"settle"}
    BY Zenon DEF FirstStep
<1>5. /\ wire' = "request" /\ report' = "none" /\ status' = "none"
      /\ quoted' = FALSE /\ sent' = 0 /\ moved' = 0
      /\ header' = header /\ now' = now /\ UNCHANGED svars
      /\ pc = "idle"
    BY DEF Call, CInv, Turns, PaidTypeOK
<1>6. PaidTypeOK'
    <2>1. sent' \in {0, 1} /\ moved' \in 0..sent'
        BY <1>5
    <2>2. quoted' \in BOOLEAN
        BY <1>5, Zenon
    <2> QED
        BY <1>1, <1>2, <1>5, <2>1, <2>2 DEF CInv, PaidTypeOK, Status, Report, AtMostOne
<1>7. Turns'
    BY <1>1, <1>2, <1>3, <1>4, <1>5 DEF Turns, svars, Client, NoClient
<1>8. outcome' = "none" /\ pc' = "idle"
    BY <1>5 DEF svars, SInv, Ordered
<1>9. Payments'
    BY <1>1, <1>2, <1>5, <1>8 DEF Payments
<1>10. Quotes'
    <2>1. ~quoted'
        BY <1>5, Zenon
    <2> QED
        BY <1>1, <1>2, <1>4, <1>5, <2>1 DEF Quotes
<1> QED
    BY <1>1, <1>2, <1>5, <1>6, <1>7, <1>8, <1>9, <1>10 DEF CInv, Errand, UnpaidMeansUnpaid

\* The resource answers: a payer gets an ok from the paywall only for what is
\* authorized.
LEMMA FetchKeeps == SInv /\ CInv /\ Fetch => CInv'
<1> SUFFICES ASSUME SInv, CInv, Fetch PROVE CInv'
    OBVIOUS
<1>1. /\ wire = "request" /\ wire' = "answer" /\ step \in {"ask", "again"}
      /\ status' \in {Resource(header), "refused", "thrown"}
      /\ quoted' = (quoted \/ status' = "402")
      /\ UNCHANGED <<client, site, step, header, now, sent, moved, report>>
      /\ UNCHANGED svars
    BY DEF Fetch, Arrive
<1>2. Paywall(header) \in {"ok", "400", "402"}
    <2>1. header = {} \/ \E a \in header : header = {a} /\ a \in AuthorizationRow
        BY DEF CInv, PaidTypeOK, AtMostOne
    <2>2. CASE header = {}
        BY <2>2, Zenon DEF Paywall
    <2>3. ASSUME NEW a \in header, header = {a}, a \in AuthorizationRow
          PROVE  Paywall(header) \in {"ok", "400", "402"}
        <3>1. CASE ~a.complete
            BY <2>3, <3>1, Zenon DEF Paywall
        <3>2. CASE a.complete /\ ~(a.covers /\ a.toPayee)
            BY <2>3, <3>2, Zenon DEF Paywall
        <3>3. CASE a.complete /\ a.covers /\ a.toPayee
            BY <2>3, <3>3, Zenon DEF Paywall
        <3> QED
            BY <3>1, <3>2, <3>3, <2>3 DEF AuthorizationRow
    <2> QED
        BY <2>1, <2>2, <2>3
<1>3. Resource(header) \in {"ok", "400", "402"}
    <2>1. CASE site = "paywall"
        BY <2>1, <1>2, Zenon DEF Resource
    <2>2. CASE site = "open"
        BY <2>2, Zenon DEF Resource
    <2>3. CASE site = "mock"
        BY <2>3, Zenon DEF Resource
    <2> QED
        BY <2>1, <2>2, <2>3 DEF CInv, PaidTypeOK, Site
<1>4. PaidTypeOK'
    BY <1>1, <1>3 DEF CInv, PaidTypeOK, Status, AtMostOne
<1>5. Turns'
    BY <1>1 DEF CInv, Turns, svars
<1>6. client = "payer" /\ status' = "ok" => Authorized'
    <2> SUFFICES ASSUME client = "payer", status' = "ok" PROVE Authorized'
        OBVIOUS
    <2>1. Paywall(header) = "ok"
        BY <1>1, Zenon DEF Resource, CInv, Turns
    <2>2. header # {}
        <3> SUFFICES ASSUME header = {} PROVE FALSE
            OBVIOUS
        <3>1. Paywall(header) \in {"400", "402"}
            BY Zenon DEF Paywall
        <3> QED
            BY <2>1, <3>1
    <2>3. PICK a \in header : header = {a} /\ a \in AuthorizationRow
        BY <2>2 DEF CInv, PaidTypeOK, AtMostOne
    <2>4. a.complete /\ a.covers /\ a.toPayee
        <3>1. a.complete
            <4> SUFFICES ASSUME ~a.complete PROVE FALSE
                OBVIOUS
            <4>1. Paywall(header) = "400"
                BY <2>3, Zenon DEF Paywall
            <4> QED
                BY <2>1, <4>1
        <3>2. a.covers /\ a.toPayee
            <4> SUFFICES ASSUME ~(a.covers /\ a.toPayee) PROVE FALSE
                OBVIOUS
            <4>1. Paywall(header) = "402"
                BY <2>3, <3>1, Zenon DEF Paywall
            <4> QED
                BY <2>1, <4>1
        <3> QED
            BY <3>1, <3>2
    <2>5. ~Expired(header)
        <3> SUFFICES ASSUME Expired(header) PROVE FALSE
            OBVIOUS
        <3>1. Paywall(header) = "402"
            BY <2>3, <2>4, Zenon DEF Paywall
        <3> QED
            BY <2>1, <3>1
    <2>6. \A t \in a.until : now <= t
        BY <2>3, <2>5 DEF Expired, AuthorizationRow, CInv, PaidTypeOK
    <2> QED
        BY <1>1, <2>3, <2>4, <2>6 DEF Authorized
<1>7. Payments'
    BY <1>1, <1>6 DEF CInv, Turns, Payments, svars
<1>8. Quotes'
    <2>1. quoted' <=> quoted \/ status' = "402"
        BY <1>1, Zenon
    <2> QED
        BY <1>1, <2>1 DEF CInv, Turns, Quotes
<1> QED
    BY <1>1, <1>4, <1>5, <1>7, <1>8 DEF CInv, Errand, UnpaidMeansUnpaid, svars

\* The WebMCP route turns a call away before anything is sent.
LEMMA TurnAwayKeeps == SInv /\ CInv /\ TurnAway => CInv'
<1> SUFFICES ASSUME SInv, CInv, TurnAway PROVE CInv'
    OBVIOUS
<1>1. /\ wire = "request" /\ wire' = "answer" /\ step = "settle"
      /\ status' \in {"402", "refused", "thrown"}
      /\ UNCHANGED <<client, site, step, header, now, quoted, sent, moved, report>>
      /\ UNCHANGED svars
    BY DEF TurnAway, Arrive, books
<1>2. PaidTypeOK'
    BY <1>1 DEF CInv, PaidTypeOK, Status, AtMostOne
<1>3. Turns'
    BY <1>1 DEF CInv, Turns, svars
<1>4. Payments'
    BY <1>1 DEF CInv, Turns, Payments, svars
<1>5. Quotes'
    BY <1>1 DEF CInv, Quotes
<1> QED
    BY <1>1, <1>2, <1>3, <1>4, <1>5 DEF CInv, Errand, UnpaidMeansUnpaid, svars

\* What the clients send, with its dry run.
LEMMA RequestsFit ==
    ASSUME NEW c \in Client, NEW r \in RequestsOf(c)
    PROVE  /\ c # "sdk" => IF c \in Dry THEN r.dryRun
                                        ELSE ~r.dryRun /\ r.route # "simulate-only"
           /\ c = "sdk" => r.route = "webmcp"
<1>1. CASE c \in {"interceptor", "adapter"}
    BY <1>1, Zenon DEF RequestsOf, Dry
<1>2. CASE c = "sdk"
    BY <1>2, Zenon DEF RequestsOf
<1>3. CASE c = "caller"
    BY <1>3, Zenon DEF RequestsOf, Dry
<1>4. CASE c = "dryCaller"
    BY <1>4, Zenon DEF RequestsOf, Dry
<1>5. CASE c = "payer"
    BY <1>5, Zenon DEF RequestsOf
<1> QED
    BY <1>1, <1>2, <1>3, <1>4, <1>5 DEF Client

\* An execute route takes a request in.
LEMMA AcceptKeeps == SInv /\ CInv /\ Accept => CInv'
<1> SUFFICES ASSUME SInv, CInv, Accept PROVE CInv'
    OBVIOUS
<1>1. /\ wire = "request" /\ wire' = "server" /\ step = "settle"
      /\ UNCHANGED <<client, site, step, status, header, now, quoted, sent, moved, report>>
    BY DEF Accept, books
<1>2. PICK r \in Requests :
        /\ r.route = "webmcp" => r.dryRun = (env.mode # "live")
        /\ request' = {r}
        /\ \/ pc' = FirstLook(r.route) /\ outcome' = outcome
           \/ pc' = "done" /\ outcome' = "denied"
    BY DEF Accept, Receive
<1>3. FirstLook(r.route) \in Look
    <2>1. r.route \in Route
        BY GateAssumption DEF RequestRow
    <2> QED
        BY <2>1, Zenon DEF FirstLook, Route, Look
<1>4. /\ pc' \in Look \cup {"done"} /\ outcome' \in {"none", "denied"}
      /\ env' = env
    BY <1>2, <1>3 DEF Accept, Receive, SInv, Ordered
<1>5. PaidTypeOK'
    BY <1>1 DEF CInv, PaidTypeOK, AtMostOne
<1>6. Turns'
    BY <1>1, <1>4 DEF CInv, Turns, Look
<1>7. Errand'
    <2>1. client \in Client
        BY <1>1 DEF CInv, PaidTypeOK, Turns, NoClient
    <2>2. r \in RequestsOf(client)
        BY <1>2 DEF Accept
    <2>3. env.mode = "live" => IF client \in Dry THEN r.dryRun
                                ELSE ~r.dryRun /\ r.route # "simulate-only"
        BY <1>2, <2>1, <2>2, RequestsFit DEF Dry
    <2> QED
        BY <1>1, <1>2, <1>4, <2>3 DEF Errand
<1>8. Payments'
    BY <1>1, <1>4 DEF CInv, Turns, Payments
<1>9. Quotes'
    BY <1>1 DEF CInv, Quotes
<1> QED
    BY <1>1, <1>5, <1>6, <1>7, <1>8, <1>9 DEF CInv, UnpaidMeansUnpaid

\* A look ends a request, or moves it on, and sends nothing.
LEMMA JudgeMoves ==
    ASSUME SInv, Judge
    PROVE  /\ pc \notin {"idle", "done"} /\ pc' # "idle"
           /\ UNCHANGED <<env, request, call>>
           /\ outcome' \notin {"simulated", "submitted"}
           /\ outcome' = "passed" => \E r \in request : r.route = "simulate-only"
<1>1. UNCHANGED call
    BY DEF Judge
<1>2. PICK l, a, next, end :
        /\ pc = l /\ l \in Look /\ Move(l, a, next, end)
        /\ next \in {"gate", "send", "done"} /\ end \notin {"simulated", "submitted"}
        /\ end = "passed" => \E r \in request : r.route = "simulate-only"
    <2>1. CASE Hook
        BY <2>1, HookMoves DEF Hook, Look
    <2>2. CASE Preflight
        BY <2>2, PreflightMoves DEF Preflight, Look
    <2>3. CASE Gate
        BY <2>3, GateMoves DEF Gate, Look
    <2> QED
        BY <2>1, <2>2, <2>3 DEF Judge
<1> QED
    BY <1>1, <1>2 DEF Move, Look

\* The gate judges.
LEMMA JudgeKeeps == SInv /\ CInv /\ Judge => CInv'
<1> SUFFICES ASSUME SInv, CInv, Judge PROVE CInv'
    OBVIOUS
<1>1. /\ pc \notin {"idle", "done"} /\ pc' # "idle"
      /\ UNCHANGED <<env, request, call>>
      /\ outcome' \notin {"simulated", "submitted"}
      /\ outcome' = "passed" => \E r \in request : r.route = "simulate-only"
    BY JudgeMoves
<1>2. PaidTypeOK'
    BY <1>1 DEF CInv, PaidTypeOK, call, books, AtMostOne
<1>3. Turns'
    BY <1>1 DEF CInv, Turns, call, books
<1>4. Errand'
    BY <1>1 DEF CInv, Errand, call, books
<1>5. sent = 0 /\ wire = "server" /\ status = "none"
    BY <1>1 DEF CInv, Turns, Payments
<1>6. env.mode = "live" /\ client \notin Dry => outcome' # "passed"
    BY <1>1 DEF CInv, Errand
<1>7. Payments'
    BY <1>1, <1>5, <1>6 DEF CInv, Turns, Payments, call, books
<1>8. Quotes'
    BY <1>1 DEF CInv, Quotes, call, books
<1> QED
    BY <1>1, <1>2, <1>3, <1>4, <1>7, <1>8 DEF CInv, UnpaidMeansUnpaid, call, books

\* What a send may come to.
LEMMA SettleCases ==
    ASSUME SInv, CInv, Settle
    PROVE  /\ pc = "send" /\ pc' = "done"
           /\ UNCHANGED <<env, request, client, site, step, wire, status, header, now, quoted, moved, report>>
           /\ outcome' \in {"simulated", "submitted", "failed"}
           /\ env.mode # "live" => sent' = sent
           /\ env.mode = "live" =>
                /\ outcome' = "simulated" =>
                      sent' = sent /\ \E r \in request : r.dryRun
                /\ outcome' = "submitted" => sent' = 1 /\ \E r \in request : ~r.dryRun
                /\ outcome' = "failed" => sent' \in {0, 1} /\ \E r \in request : ~r.dryRun
<1>1. /\ pc = "send" /\ pc' = "done"
      /\ UNCHANGED <<env, request, client, site, step, wire, status, header, now, quoted, moved, report>>
    BY Zenon DEF Settle, Send
<1>2. PICK r \in request :
        CASE env.mode = "mock" ->
               outcome' = IF r.dryRun THEN "simulated" ELSE "submitted"
          [] env.mode # "mock" /\ (r.dryRun \/ env.mode = "simulate") ->
               outcome' = "simulated"
          [] OTHER -> \/ env.account /\ outcome' = "submitted"
                      \/ outcome' = "failed"
    BY Zenon DEF Settle, Send
<1>3. env.mode \in {"live", "simulate", "mock"}
    BY DEF SInv, SafetyTypeOK, Env
<1>4. outcome' \in {"simulated", "submitted", "failed"}
    <2>1. CASE env.mode = "mock"
        BY <1>2, <2>1
    <2>2. CASE env.mode = "simulate"
        BY <1>2, <2>2
    <2>3. CASE env.mode = "live" /\ r.dryRun
        BY <1>2, <2>3
    <2>4. CASE env.mode = "live" /\ ~r.dryRun
        BY <1>2, <2>4
    <2> QED
        BY <1>3, <2>1, <2>2, <2>3, <2>4
<1>5. sent = 0
    BY <1>1 DEF CInv, Payments
<1>6. CASE env.mode # "live"
    <2>1. sent' = sent
        BY <1>6, Zenon DEF Settle
    <2> QED
        BY <1>1, <1>4, <1>6, <2>1
<1>7. CASE env.mode = "live"
    <2>1. /\ r.dryRun => outcome' = "simulated"
          /\ ~r.dryRun => outcome' \in {"submitted", "failed"}
        <3>1. CASE r.dryRun
            BY <1>2, <1>7, <3>1
        <3>2. CASE ~r.dryRun
            BY <1>2, <1>7, <3>2
        <3> QED
            BY <3>1, <3>2
    <2>2. outcome' = "simulated" => sent' = sent
        BY <1>7, Zenon DEF Settle
    <2>3. outcome' = "submitted" => sent' = sent + 1
        BY <1>7, Zenon DEF Settle
    <2>4. outcome' = "failed" => sent' \in {sent, sent + 1}
        BY <1>7, Zenon DEF Settle
    <2> QED
        BY <1>1, <1>4, <1>5, <1>7, <2>1, <2>2, <2>3, <2>4
<1> QED
    BY <1>6, <1>7

\* A call is sent.
LEMMA SettleKeeps == SInv /\ CInv /\ Settle => CInv'
<1> SUFFICES ASSUME SInv, CInv, Settle PROVE CInv'
    OBVIOUS
<1>1. /\ pc = "send" /\ pc' = "done"
      /\ UNCHANGED <<env, request, client, site, step, wire, status, header, now, quoted, moved, report>>
      /\ outcome' \in {"simulated", "submitted", "failed"}
      /\ env.mode # "live" => sent' = sent
      /\ env.mode = "live" =>
           /\ outcome' = "simulated" => sent' = sent /\ \E r \in request : r.dryRun
           /\ outcome' = "submitted" => sent' = 1 /\ \E r \in request : ~r.dryRun
           /\ outcome' = "failed" => sent' \in {0, 1} /\ \E r \in request : ~r.dryRun
    BY SettleCases
<1>2. sent = 0 /\ wire = "server" /\ step = "settle" /\ status = "none"
    BY <1>1 DEF CInv, Turns, Payments
<1>3. sent' \in {0, 1}
    BY <1>1, <1>2
<1>4. PaidTypeOK'
    <2>1. moved = 0 /\ moved' \in 0..sent'
        BY <1>1, <1>2, <1>3 DEF CInv, PaidTypeOK
    <2> QED
        BY <1>1, <1>3, <2>1 DEF CInv, PaidTypeOK, AtMostOne
<1>5. Turns'
    BY <1>1 DEF CInv, Turns
<1>6. Errand'
    BY <1>1 DEF CInv, Errand
<1>7. client \in Dry \cup {"payer"} => sent' = 0
    BY <1>1, <1>2 DEF CInv, Turns, Errand
<1>8. env.mode = "live" /\ client \notin Dry => outcome' # "simulated"
    BY <1>1 DEF CInv, Errand
<1>9. Payments'
    BY <1>1, <1>2, <1>7, <1>8 DEF Payments
<1>10. client # NoClient /\ report = "none"
    BY <1>2 DEF CInv, Turns
<1>11. Quotes'
    BY <1>1 DEF CInv, Quotes
<1> QED
    BY <1>1, <1>4, <1>5, <1>6, <1>9, <1>10, <1>11 DEF CInv, UnpaidMeansUnpaid

\* What is answered with ok was carried out, or is a dry run.
LEMMA AnsweredOk ==
    ASSUME NEW r, NEW end, "ok" \in Answered(r, end)
    PROVE  end \in {"passed", "simulated", "submitted"} \/ r.dryRun
<1> SUFFICES ASSUME end \notin {"passed", "simulated", "submitted"}, ~r.dryRun
             PROVE  FALSE
    OBVIOUS
<1>1. Answered(r, end) = {"refused"}
    BY Zenon DEF Answered
<1> QED
    BY <1>1

\* The handler answers, or does not.
LEMMA ReplyKeeps == SInv /\ CInv /\ Reply => CInv'
<1> SUFFICES ASSUME SInv, CInv, Reply PROVE CInv'
    OBVIOUS
<1>1. /\ wire = "server" /\ wire' = "answer" /\ pc' = "idle" /\ outcome' = "none"
      /\ request' = {} /\ env' = env /\ pc # "idle"
      /\ UNCHANGED <<client, site, step, header, now, quoted, sent, moved, report>>
    BY DEF Reply, Leave, books
<1>2. \/ status' \in {"refused", "thrown"}
      \/ pc = "done" /\ \E r \in request : status' \in Answered(r, outcome)
    BY DEF Reply
<1>3. \A r \in request : Answered(r, outcome) \subseteq {"ok", "refused"}
    BY Zenon DEF Answered
<1>4. status' \in {"ok", "refused", "thrown"}
    BY <1>2, <1>3
<1>5. step = "settle"
    BY <1>1 DEF CInv, Turns
<1>6. ASSUME status' = "ok", env.mode = "live", client \notin Dry
      PROVE  sent = 1
    <2>1. PICK r \in request : pc = "done" /\ "ok" \in Answered(r, outcome)
        BY <1>2, <1>6
    <2>2. ~r.dryRun
        BY <1>1, <1>6, <2>1 DEF CInv, Errand
    <2>3. outcome \in {"passed", "simulated", "submitted"}
        BY <2>1, <2>2, AnsweredOk
    <2> QED
        BY <1>6, <2>3 DEF CInv, Payments
<1>7. PaidTypeOK'
    BY <1>1, <1>4 DEF CInv, PaidTypeOK, Status, AtMostOne
<1>8. Turns'
    BY <1>1 DEF CInv, Turns
<1>9. client # "payer"
    BY <1>5 DEF CInv, Turns
<1>10. Payments'
    BY <1>1, <1>4, <1>5, <1>6, <1>9 DEF CInv, Payments
<1>11. Quotes'
    BY <1>1, <1>5 DEF CInv, Quotes
<1> QED
    BY <1>1, <1>7, <1>8, <1>10, <1>11 DEF CInv, Errand, UnpaidMeansUnpaid

\* What was handed over lands.
LEMMA LandKeeps == SInv /\ CInv /\ Land => CInv'
<1> SUFFICES ASSUME SInv, CInv, Land PROVE CInv'
    OBVIOUS
<1>1. /\ UNCHANGED <<client, site, step, wire, status, header, now, quoted, sent, report>>
      /\ UNCHANGED svars /\ moved' \in 0..sent'
    BY DEF Land, CInv, PaidTypeOK
<1>2. PaidTypeOK'
    BY <1>1 DEF CInv, PaidTypeOK, AtMostOne
<1>3. Turns'
    BY <1>1 DEF CInv, Turns, svars
<1>4. Payments'
    BY <1>1 DEF CInv, Payments, svars, Authorized
<1>5. Quotes'
    BY <1>1 DEF CInv, Quotes
<1> QED
    BY <1>1, <1>2, <1>3, <1>4, <1>5 DEF CInv, Errand, UnpaidMeansUnpaid, svars

\* Another request of the call.
LEMMA RequestKeeps ==
    ASSUME SInv, CInv, NEW next \in {"settle", "again"}, NEW h \in SUBSET AuthorizationRow,
           AtMostOne(h), Request(next, h), wire = "answer",
           next = "settle" => client \in {"interceptor", "adapter"} /\ sent = 0,
           client # "adapter" => quoted,
           next = "again" => \/ client = "payer"
                             \/ /\ client = "interceptor"
                                /\ env.mode = "live" => sent = 1
    PROVE  CInv'
<1>1. /\ step' = next /\ header' = h /\ wire' = "request" /\ status' = "none"
      /\ UNCHANGED svars /\ UNCHANGED <<client, site, now, quoted, sent, moved, report>>
    BY DEF Request, books
<1>2. PaidTypeOK'
    BY <1>1 DEF CInv, PaidTypeOK, Status
<1>3. client # NoClient /\ pc = "idle" /\ outcome = "none"
    BY DEF CInv, Turns, SInv, Ordered
<1>4. Turns'
    BY <1>1, <1>3 DEF CInv, Turns, svars
<1>5. Payments'
    BY <1>1, <1>3 DEF CInv, Payments, svars, Dry
<1>6. Quotes'
    BY <1>1 DEF Quotes
<1> QED
    BY <1>1, <1>2, <1>3, <1>4, <1>5, <1>6 DEF CInv, Errand, UnpaidMeansUnpaid, svars

\* A call ends; it reports unpaid only if nothing was paid.
LEMMA FinishKeeps ==
    ASSUME SInv, CInv, NEW result \in {"success", "unpaid", "error"}, Finish(result),
           wire = "answer", result = "unpaid" => sent = 0
    PROVE  CInv'
<1>1. /\ client' = NoClient /\ step' = "idle" /\ wire' = "none"
      /\ site' = "open" /\ status' = "none" /\ header' = {} /\ now' = 0
      /\ report' = result /\ UNCHANGED svars /\ UNCHANGED <<quoted, sent, moved>>
    BY DEF Finish, books
<1>2. PaidTypeOK'
    BY <1>1, PaidAssumption DEF CInv, PaidTypeOK, Status, Site, Report, AtMostOne
<1>3. pc = "idle" /\ outcome = "none"
    BY DEF CInv, Turns, SInv, Ordered
<1>4. Turns'
    BY <1>1, <1>3 DEF Turns, svars, NoClient
<1>5. Payments'
    BY <1>1, <1>3 DEF CInv, Payments, svars, Dry, NoClient
<1>6. Quotes'
    BY <1>1 DEF Quotes, NoClient
<1> QED
    BY <1>1, <1>2, <1>3, <1>4, <1>5, <1>6 DEF CInv, Errand, UnpaidMeansUnpaid, svars

\* The header of the interceptor, like that of a payer, is an authorization.
LEMMA HeadersTyped ==
    /\ {} \in SUBSET AuthorizationRow /\ AtMostOne({})
    /\ {DemoHeader} \in SUBSET AuthorizationRow /\ AtMostOne({DemoHeader})
    /\ \A h \in Authorization : {h} \in SUBSET AuthorizationRow /\ AtMostOne({h})
BY PaidAssumption DEF DemoHeader, AuthorizationRow, AtMostOne

\* The clients go on.
LEMMA ClientKeeps ==
    SInv /\ CInv /\ (Intercept \/ Adapt \/ Single \/ PayerGoesOn) => CInv'
<1> SUFFICES ASSUME SInv, CInv, Intercept \/ Adapt \/ Single \/ PayerGoesOn
             PROVE  CInv'
    OBVIOUS
<1>1. /\ step = "ask" => sent = 0
      /\ status = "402" => sent = 0 \/ step = "again"
      /\ step = "again" => client \in {"interceptor", "payer"}
      /\ client = "payer" => sent = 0
      /\ env.mode = "live" /\ client \notin Dry /\ step = "settle" /\ status = "ok"
            => sent = 1
      /\ step = "ask" /\ status = "402" => quoted
      /\ client = "interceptor" /\ step # "ask" => quoted
    BY DEF CInv, Turns, Payments, Quotes
<1>2. CASE Intercept
    BY <1>1, <1>2, InterceptCases, HeadersTyped, RequestKeeps, FinishKeeps DEF Dry
<1>3. CASE Adapt
    BY <1>1, <1>3, AdaptCases, HeadersTyped, RequestKeeps, FinishKeeps
<1>4. CASE Single
    BY <1>1, <1>4, SingleCases, FinishKeeps
<1>5. CASE PayerGoesOn
    BY <1>1, <1>5, PayerCases, HeadersTyped, RequestKeeps, FinishKeeps
<1> QED
    BY <1>2, <1>3, <1>4, <1>5

\* Time passes while a payer's request is under way.
LEMMA TickKeeps == SInv /\ CInv /\ Tick => CInv'
<1> SUFFICES ASSUME SInv, CInv, Tick PROVE CInv'
    OBVIOUS
<1>1. /\ UNCHANGED <<client, site, step, wire, status, header, quoted, sent, moved, report>>
      /\ UNCHANGED svars /\ wire = "request"
    BY DEF Tick, books
<1>2. PICK t \in 0..MaxTime : now' = t
    BY PaidAssumption DEF Tick, CInv, PaidTypeOK
<1>3. PaidTypeOK'
    BY <1>1, <1>2 DEF CInv, PaidTypeOK, AtMostOne
<1>4. Turns'
    BY <1>1 DEF CInv, Turns, svars
<1>5. Payments'
    BY <1>1 DEF CInv, Turns, Payments, svars
<1>6. Quotes'
    BY <1>1 DEF CInv, Quotes
<1> QED
    BY <1>1, <1>3, <1>4, <1>5, <1>6 DEF CInv, Errand, UnpaidMeansUnpaid, svars

\* CInv is an invariant.
THEOREM PaidInvariant == PaidSpec => []CInv
<1>1. SInv /\ CInv /\ [PaidNext]_cvars => CInv'
    <2> SUFFICES ASSUME SInv, CInv, [PaidNext]_cvars PROVE CInv'
        OBVIOUS
    <2>1. CASE UNCHANGED cvars
        BY <2>1 DEF cvars, svars, call, books, CInv, PaidTypeOK, Turns, Errand, Payments,
                    Quotes, UnpaidMeansUnpaid, Authorized, AtMostOne
    <2> QED
        BY <2>1, CallKeeps, FetchKeeps, TurnAwayKeeps, AcceptKeeps, JudgeKeeps,
           SettleKeeps, ReplyKeeps, ClientKeeps, TickKeeps, LandKeeps DEF PaidNext, Progress
<1> QED
    BY <1>1, CInitInv, GateUnderClients, PTL DEF PaidSpec

-----------------------------------------------------------------------------
(* What follows from it.                                                   *)

\* The clients' state keeps its types.
THEOREM PaidTypeCorrect == PaidSpec => []PaidTypeOK
<1>1. CInv => PaidTypeOK
    BY DEF CInv
<1> QED
    BY <1>1, PaidInvariant, PTL

\* A client that is told to pay first has not paid.
THEOREM UnpaidIsUnpaid == PaidSpec => []UnpaidMeansUnpaid
<1>1. CInv => UnpaidMeansUnpaid
    BY DEF CInv
<1> QED
    BY <1>1, PaidInvariant, PTL

\* What SafetyGateProofs proves of the gate holds under these clients.
THEOREM GateHoldsUnderClients ==
    PaidSpec => [](LiveOnlySimulated /\ NoDrainBeyondMax /\ StatedAmountWithinMax
                   /\ DrainForCause)
<1> QED
    BY GateUnderClients, LiveCallsSimulated, DrainCapped, StatedCapped,
       DrainRefusalsCaused, PTL

-----------------------------------------------------------------------------
(* The clients implement Purchase.                                         *)

\* A client begins, under an order to pay or without one.
LEMMA CallRefines == SInv /\ CInv /\ Call => Promise!Begin
<1> SUFFICES ASSUME SInv, CInv, Call PROVE Promise!Begin
    OBVIOUS
<1>1. /\ client = NoClient /\ client' \in Client /\ sent' = 0 /\ moved' = 0
      /\ report' = "none" /\ Owes' \in BOOLEAN
    BY DEF Call, Owes
<1> QED
    BY <1>1 DEF Promise!Begin, Client, NoClient

\* A step that leaves money and client alone, and the debt.
LEMMA Stutters ==
    ASSUME UNCHANGED <<client, sent, moved, report>>, Owes' = Owes
    PROVE  UNCHANGED Promise!purchase
BY DEF Promise!purchase

\* The resource answers: its price, or, for a payer's good authorization, with
\* what has been paid for.
LEMMA FetchRefines == SInv /\ CInv /\ CInv' /\ Fetch => [Promise!PurchaseNext]_Promise!purchase
<1> SUFFICES ASSUME SInv, CInv, CInv', Fetch
             PROVE  [Promise!PurchaseNext]_Promise!purchase
    OBVIOUS
<1>1. /\ wire = "request" /\ step \in {"ask", "again"}
      /\ UNCHANGED <<client, site, step, header, now, sent, moved, report>> /\ UNCHANGED svars
    BY DEF Fetch
<1>2. client # NoClient /\ (client = "payer" => sent = 0)
    BY <1>1 DEF CInv, Turns, Payments
<1>3. Owes \in BOOLEAN /\ Owes' \in BOOLEAN
    BY DEF Owes
<1>4. CASE Owes' = Owes
    BY <1>1, <1>4, Stutters
<1>5. CASE ~Owes /\ Owes'
    <2>1. sent = 0
        BY <1>1, <1>2, <1>5 DEF Owes
    <2>2. Promise!Quote
        BY <1>1, <1>2, <1>3, <1>5, <2>1 DEF Promise!Quote
    <2> QED
        BY <2>2 DEF Promise!PurchaseNext
<1>6. CASE Owes /\ ~Owes'
    <2>1. quoted => quoted'
        BY Zenon DEF Fetch
    <2>2. client = "payer"
        BY <1>1, <1>6, <2>1 DEF Owes, svars
    <2>3. Promise!Pay
        BY <1>1, <1>2, <1>3, <1>6, <2>2 DEF Promise!Pay
    <2> QED
        BY <2>3 DEF Promise!PurchaseNext
<1> QED
    BY <1>3, <1>4, <1>5, <1>6

\* Neither a judgement nor an answer changes what is owed.
LEMMA ServerStutters ==
    ASSUME SInv, CInv, TurnAway \/ Accept \/ Judge \/ Reply \/ Tick
    PROVE  UNCHANGED Promise!purchase
<1>1. UNCHANGED <<env, client, site, step, header, quoted, sent, moved, report>>
    BY JudgeMoves DEF TurnAway, Accept, Receive, Reply, Leave, Tick, svars, call, books
<1>2. ~Authorized /\ ~Authorized'
    BY JudgeMoves DEF TurnAway, Accept, Reply, Tick, CInv, Turns, call, Authorized
<1>3. Owes' = Owes
    BY <1>1, <1>2 DEF Owes
<1> QED
    BY <1>1, <1>3, Stutters

\* A live send is the payment.
LEMMA SettleRefines == SInv /\ CInv /\ Settle => [Promise!PurchaseNext]_Promise!purchase
<1> SUFFICES ASSUME SInv, CInv, Settle
             PROVE  [Promise!PurchaseNext]_Promise!purchase
    OBVIOUS
<1>1. client # NoClient /\ step = "settle" /\ wire = "server" /\ sent = 0 /\ client # "payer"
    BY SettleCases DEF CInv, Turns, Payments
<1>2. /\ UNCHANGED <<env, client, step, quoted, moved, report>>
      /\ \/ sent' = sent
         \/ env.mode = "live" /\ sent' = 1 /\ \E r \in request : ~r.dryRun
    BY <1>1, SettleCases
<1>3. CASE sent' = sent
    <2>1. Owes' = Owes
        BY <1>1, <1>2, <1>3 DEF Owes
    <2> QED
        BY <1>2, <1>3, <2>1, Stutters
<1>4. CASE env.mode = "live" /\ sent' = 1 /\ \E r \in request : ~r.dryRun
    <2>1. client \in Client \ {"payer", "dryCaller"}
        BY <1>1, <1>4, SettleCases DEF CInv, PaidTypeOK, Errand, Dry
    <2>2. client \in UnderOrder \/ (client = "interceptor" /\ quoted)
        BY <1>1, <2>1 DEF Client, UnderOrder, CInv, Quotes
    <2>3. Owes = TRUE /\ Owes' = FALSE
        BY <1>1, <1>2, <1>4, <2>2 DEF Owes
    <2>4. Promise!Pay
        BY <1>1, <1>2, <1>4, <2>3 DEF Promise!Pay
    <2> QED
        BY <2>4 DEF Promise!PurchaseNext
<1> QED
    BY <1>2, <1>3, <1>4

\* What was handed over lands.
LEMMA LandRefines == Land => Promise!Land
<1> SUFFICES ASSUME Land PROVE Promise!Land
    OBVIOUS
<1>1. /\ moved < sent /\ moved' = moved + 1
      /\ UNCHANGED <<client, wire, status, header, now, quoted, sent, report>>
      /\ UNCHANGED env
    BY DEF Land, svars
<1>2. Owes' = Owes
    BY <1>1 DEF Owes, Authorized
<1> QED
    BY <1>1, <1>2 DEF Promise!Land

\* An end of a call: a success owes nothing.
LEMMA FinishRefines ==
    ASSUME CInv, client # NoClient, NEW result, Finish(result),
           result \in {"unpaid", "error"} \/ (result = "success" /\ ~Owes)
    PROVE  Promise!PurchaseNext
<1>1. /\ client' = NoClient /\ step' = "idle" /\ report' = result
      /\ sent' = sent /\ moved' = moved
    BY DEF Finish, books
<1>2. ~Owes'
    BY <1>1 DEF Owes, NoClient, UnderOrder
<1>3. report = "none" /\ Owes \in BOOLEAN
    BY DEF CInv, Turns, Owes
<1>4. CASE result \in {"unpaid", "error"}
    <2>1. Owes' = FALSE
        BY <1>2 DEF Owes
    <2> QED
        BY <1>1, <1>3, <1>4, <2>1 DEF Promise!PurchaseNext, Promise!Fail
<1>5. CASE result = "success" /\ ~Owes
    <2>1. Owes' = Owes
        BY <1>2, <1>5 DEF Owes
    <2>2. Promise!Succeed
        BY <1>1, <1>5, <2>1 DEF Promise!Succeed, NoClient
    <2> QED
        BY <2>2 DEF Promise!PurchaseNext
<1> QED
    BY <1>4, <1>5

\* Another request settles no debt and makes none.
LEMMA RequestStutters ==
    ASSUME CInv, NEW next, NEW h, Request(next, h), client = "payer" => status # "ok"
    PROVE  UNCHANGED Promise!purchase
<1>1. UNCHANGED <<env, client, quoted, sent, moved, report>> /\ wire' = "request"
    BY DEF Request, svars, books
<1>2. client = "payer" => ~Authorized /\ ~Authorized'
    BY <1>1 DEF Authorized
<1>3. Owes' = Owes
    BY <1>1, <1>2 DEF Owes
<1> QED
    BY <1>1, <1>3, Stutters

\* The clients go on.
LEMMA ClientRefines ==
    ASSUME SInv, CInv, Intercept \/ Adapt \/ Single \/ PayerGoesOn
    PROVE  [Promise!PurchaseNext]_Promise!purchase
<1>1. wire = "answer" /\ client # NoClient
    BY InterceptCases, AdaptCases, SingleCases, PayerCases DEF NoClient
<1>2. client = "payer" /\ status = "ok" => ~Owes
    BY DEF CInv, Payments, Owes, UnderOrder
<1>3. client # "payer" /\ step = "settle" /\ status = "ok" => ~Owes
    BY DEF CInv, Payments, Owes, UnderOrder, Dry
<1>4. client = "interceptor" /\ status = "ok" => ~Owes
    BY <1>1, <1>3 DEF CInv, Turns, Payments, Quotes, PaidTypeOK, Owes, UnderOrder, Dry, NoClient
<1>5. ASSUME NEW next, NEW h, Request(next, h), client = "payer" => status # "ok"
      PROVE  [Promise!PurchaseNext]_Promise!purchase
    BY <1>5, RequestStutters
<1>6. ASSUME NEW result, Finish(result), \/ result \in {"unpaid", "error"}
                                         \/ result = "success" /\ ~Owes
      PROVE  [Promise!PurchaseNext]_Promise!purchase
    <2>1. Promise!PurchaseNext
        BY <1>1, <1>6, FinishRefines, Zenon
    <2> QED
        BY <2>1
<1>7. CASE Intercept
    BY <1>4, <1>5, <1>6, <1>7, InterceptCases
<1>8. step = "again" => client \in {"interceptor", "payer"}
    BY DEF CInv, Turns
<1>9. step \in {"ask", "settle", "again"}
    BY <1>1 DEF CInv, Turns, PaidTypeOK
<1>10. CASE Adapt
    BY <1>3, <1>5, <1>6, <1>8, <1>9, <1>10, AdaptCases
<1>11. CASE Single
    <2>1. step = "settle"
        BY <1>8, <1>9, <1>11, SingleCases DEF CInv, Turns
    <2> QED
        BY <1>3, <1>6, <1>11, <2>1, SingleCases
<1>12. CASE PayerGoesOn
    BY <1>2, <1>5, <1>6, <1>12, PayerCases
<1> QED
    BY <1>7, <1>10, <1>11, <1>12

\* Every client, against any server, network and configuration, implements
\* Purchase: it hands over one payment at most, and only after an order or a
\* quote, and reports success only when it owes nothing.  What it has handed
\* over may still never land.
THEOREM ClientsKeepPromise == PaidSpec => PurchaseImplemented
<1>1. PaidInit => Promise!PurchaseInit
    <2> SUFFICES ASSUME PaidInit PROVE Promise!PurchaseInit
        OBVIOUS
    <2>1. Owes = FALSE
        BY DEF PaidInit, Owes, NoClient, UnderOrder
    <2> QED
        BY <2>1 DEF PaidInit, Promise!PurchaseInit
<1>2. SInv /\ CInv /\ CInv' /\ [PaidNext]_cvars => [Promise!PurchaseNext]_Promise!purchase
    <2> SUFFICES ASSUME SInv, CInv, CInv', [PaidNext]_cvars
                 PROVE  [Promise!PurchaseNext]_Promise!purchase
        OBVIOUS
    <2>1. CASE UNCHANGED cvars
        <3>1. UNCHANGED <<env, client, wire, status, header, now, quoted, sent, moved, report>>
            BY <2>1 DEF cvars, svars, call, books
        <3>2. Owes' = Owes
            BY <3>1 DEF Owes, Authorized
        <3> QED
            BY <3>1, <3>2, Stutters
    <2>2. CASE Call
        BY <2>2, CallRefines DEF Promise!PurchaseNext
    <2>3. CASE TurnAway \/ Accept \/ Judge \/ Reply \/ Tick
        BY <2>3, ServerStutters
    <2>4. CASE Fetch
        BY <2>4, FetchRefines
    <2>5. CASE Settle
        BY <2>5, SettleRefines
    <2>6. CASE Land
        BY <2>6, LandRefines DEF Promise!PurchaseNext
    <2>7. CASE Intercept \/ Adapt \/ Single \/ PayerGoesOn
        BY <2>7, ClientRefines
    <2> QED
        BY <2>1, <2>2, <2>3, <2>4, <2>5, <2>6, <2>7 DEF PaidNext, Progress
<1> QED
    BY <1>1, <1>2, PaidInvariant, GateUnderClients, PTL
       DEF PaidSpec, PurchaseImplemented, Promise!PurchaseSpec
=============================================================================
