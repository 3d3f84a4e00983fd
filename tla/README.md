# Verification of agentexec

TLA+ models of the parts of this repository that move money or decide who may:
the paymaster vault contract and its keeper daemon, the intent pipeline with
its session keys and spend caps, the simulation a call has to pass before it is sent, the
x402 paywall with the clients that pay, and the rate-limiting gateway. TLC checks the
models on small instances; TLAPS proves the main results for every value of the
constants. Paths below are relative to the repository root.

    tlc -workers 2 -config MCKeeperVault.cfg MCKeeperVault.tla     # one run
    tlapm KeeperVaultProofs.tla                                    # one proof module

`PROJECT.json` lists the runs, the source lines each definition models, the
hazards, the findings, and for every checked property a plausible bug ("mutant")
that makes its run fail.

## 1. The system

An agent sends an *intent*. The Go gateway authenticates and rate-limits it; the
Fastify service behind it applies session limits and session-key scopes, simulates
the call, sends it as a sponsored ERC-4337 operation, and books the spend. Some
resources have a price: a client that meets a 402 pays by such an intent, or by an
authorization, and asks again. The sponsorship is paid from a paymaster balance, which a vault contract refills when
a keeper daemon asks it to.

| Component | Source | State | Operations |
|---|---|---|---|
| Paymaster vault | `contracts/src/PaymasterAutoTopUp.sol` | roles, threshold, amount, two counters, pause flag, its token balance | `deposit`, `withdraw`, `executeTopUp`, six setters, `Ownable` |
| Keeper daemon | `gateway/cmd/keeper/main.go` | none between polls; a nonce within one | poll: three reads, nonce, send |
| Rate-limit gateway | `gateway/main.go`, `gateway/middleware/ratelimit.go` | per key: times of hits and of failures, in memory or in two Redis sorted sets | `Allow`, proxy, `RecordFailure` |
| Session keys, guardrails | `src/services/sessionKeys.ts`, `guardrails.ts` | rows of `session_keys`, `sessions` | check, reset a window, charge |
| Intent resolver | `src/services/intentResolver.ts` | none | from an intent to a call |
| Intent pipeline | `src/services/pipeline.ts`, `userOp.ts`, `safeAccount.ts`, `src/db/repository.ts` | locals of each request; `transactions` | `processIntent` |
| Session key issuance | `src/services/sessionKey.ts`, `src/routes/api.ts` | writes `session_keys` | issue, replace, revoke |
| Pre-execution safety gate | `src/services/tenderly.ts`, `simulator.ts`, `src/middleware/simulateHook.ts` | what each look of a request was told | hook, preflight, gate |
| Execution routes | `src/routes/intentRoute.ts` | those of the pipeline | `/v1/intent/execute`, `/v1/intent/simulate-only`, `/v1/intent` |
| x402 paywall | `src/middleware/x402Paywall.ts` | none kept | challenge, verify |
| Client SDKs | `src/sdk/`, `website/src/lib/agentexec-sdk.ts` | the attempt of one call | ask, settle, ask again |
| MCP server | `src/mcp/server.ts` | none | one request per tool |
| Demo purchase | `website/src/app/demo/page.tsx`, `app/api/v1/premium-data/route.ts` | none of protocol interest | one interceptor call of a mock resource |
| configuration, health, the rest of the website, scripts, monitoring | `src/config/`, `website/`, `scripts/`, `monitoring/` | none of protocol interest | |

How they interact, and what is hard about it:

- **keeper -> vault**: a view is read by `eth_call`, acted on by a transaction mined
  later. The daemon waits for no receipt and remembers nothing, so duplicates,
  nonce gaps, stale decisions and restarts are its normal life. Correct: whatever the
  daemons do amounts to legal vault calls, and a shortage is served in the end.
- **vault -> token**: the owner, the paymaster and strangers transact in between.
  Correct: tokens are conserved and leave only by the two documented ways.
- **request -> Postgres**: each row is read, decided on and written back whole, with
  an `await` between, and no transaction or row version. Correct: caps hold; records
  agree with the chain. Partly not so: see *Findings*.
- **request -> chain**: sending may fail after the call landed; the process may die
  between sending and recording.
- **request -> simulation provider**: up to twice per request, by two rules, with a
  provider that may fail, be missing, or change its mind. Correct: nothing is sent that the
  last look did not approve, on any route and in any configuration.
- **client -> paywall, routes**: up to three requests per call, any of which or whose answer
  may be lost; the server remembers none of them. Correct: a call hands over one payment at most, and
  only under an order to pay or after a 402; one that says "pay first" has paid nothing; one that reports
  success owes nothing; and it ends. A success is no receipt: the transfer may land later, or never.
- **gateway -> limiter**: handlers run concurrently. The memory limiter has one mutex,
  the Redis limiter a pipeline that is not a transaction, shared by gateways.
  Correct: a key gets no more than its rate, is cut off by failures, and is served if
  it keeps to its rate.

The `hazards` of `PROJECT.json` say at which line each of these bites.

## 2. Modules

| Module | Role |
|---|---|
| `PaymasterVault` | the contract and the token balances; also the abstract specification of the keeper system |
| `KeeperVault` | EXTENDS it by daemons, mempool and nonces; implements it |
| `IntentResolver` | what an intent makes of target and amount, as pure operators; `IntentPipeline` and `SafetyGate` EXTEND it |
| `SessionKeys` | the decisions on one row, as pure operators |
| `SpendLedger` | abstract: check, spend and book in one step, in windows that follow one another |
| `IntentPipeline` | `processIntent` and the execution routes await by await, on `SessionKeys`; implements `SpendLedger` when nothing runs concurrently and every call is booked in full |
| `SafetyGate` | hook, preflight and gate of one request, in every configuration: what `IntentPipeline` leaves as a choice of outcomes |
| `Purchase` | abstract: a call that was ordered or told to hands over one payment, and succeeds only when it owes nothing |
| `PaidCall` | EXTENDS `SafetyGate` by the network, the paywall and the clients; implements `Purchase` |
| `SlidingWindow` | abstract: look and admit in one step |
| `Gateway` | the HTTP handler, what both limiters share |
| `MemoryGateway`, `RedisGateway` | EXTEND it by one limiter each |
| `MC*` | instances for TLC |
| `*Proofs` | theorems (section 5) |

**Vault.** A revert leaves the chain as it was, so every revert condition is a
conjunct of the action and the action is the successful call. `executeTopUp`,
`deposit`, ... keep the contract's names; `CanTopUp(caller)` is the conjunction of the
modifiers and the checked addition. `topUpCount` is incremented modulo 2^256
(`MaxUint + 1`), since the code says `unchecked`. `funded`, `withdrawn`, `selfTopUps` and
`streak` are history variables. `Donate` and `TokenTransfer` are token moves that
pass the contract by.

**Keeper.** `Start`, `Tick`, `Read`, `GetNonce`, `Send` are the places where
`main.go` waits; `Fail` is any error return or the 15 s timeout, `Crash` the end
of the process. Of the three values `readVaultState` fetches only `needsTopUp` is
decided on, so `Read` is that call. `pool` holds nonces relative to the account's,
which keeps the state finite without losing collisions, gaps or overtaken nonces.
`Mine` includes the lowest transaction against the vault as it is *then*: a
top-up or a revert. A replacement of a pending transaction at a higher fee and the
key's ether balance are left out, and so is `EstimateGas`, whose failure the code ignores.

**Pipeline.** A worker is one request in flight; its `pc` names the await it stands at:
`session` -> (`newSession`) -> `key` -> (`reset`) -> `execute` -> `record` -> (`charge`).
`FirstStage` says where a route starts: `intents` at `session`; `execute`, which has no session,
at `key`; `webmcp`, which has no scope at all, at `execute`. What is refused by the key is recorded
only on the first (`Refuse`), and only the first charges (`ToCharge`). The other two build custom
intents without an amount, of which nothing would be charged. `scope` is the row in the request's hands, as it was read. `Upsert` writes a whole
row except the agent, as `onConflictDoUpdate` does. `Execute` chooses one of the
outcomes of `executeUserOperation`: rejected by the safety check, simulated,
submitted, failed, or failed *and landed*. `Faults` switches the environment: admin
writes, thrown errors, a crash, late landings. `broadcasts` is a history variable: what
reached the chain, with the row it was checked against.

Requests come with raw intents; `Resolve` translates one by `IntentResolver`, with
the spend that will be booked (`EstimateSpend`, `guardrails.ts`) next to what the call
carries (`Carried`, `intentResolver.ts`), and the properties speak of the latter. A transfer or an approval carries
the amount that is encoded, a swap that and its `valueWei`, a custom call its `valueWei` and whatever its bytes make
move, `inData`, which no code reads. `Lookup` by agent may miss an active row behind twenty others (`ListLimit`).

**Safety gate.** `Hook`, `Preflight` and `Gate` each ask the provider anew and keep the answer in
`seen`. `Provider` is the cascade of mode, credentials and required flag. `HookDrains` and
`GateDrains` are the two estimates; a maximum of several numbers is exceeded if one of them
does, so they are sets, and the fields a record may lack are sets of at most one element. The
process configuration is chosen in `SInit`. A request that guardrails or key refuse, before the gate on
`intents` and after the hook on `execute`, ends as `denied`. One request at a time suffices, for requests
share nothing here; `Leave` is the end of one, or of its process.

**Paid call.** A client's call is at a `step` (`ask` for a resource, `settle` at an execute route, `again` with
a payment header), and its request is on the `wire`: under way, at the server, answered. `Call` starts any of six
kinds of client; `Intercept`, `Adapt`, `Single`, `PayerGoesOn` are what each does with an answer, `Request` and
`Finish` all it can do. The status of an answer is what the handler sends, or "refused" (rate limit, API key, body,
500) or "thrown" (fetch rejects), whatever became of the request at the server: this is how requests and answers are
lost. `Accept` is `Receive` of `SafetyGate` for a request this client would send, `Judge` its hook, preflight and gate, `Settle` its
`Send` together with what the node was given: a live call that is answered as submitted or confirmed was handed over, a failed one
perhaps. `Land` is its inclusion, at any time or never: the wallet and the bundler path answer when the node has taken the call, and the Safe path
drops a failed wait for the receipt and does not look at the receipt's status. `Reply` is `Leave` of `SafetyGate`; `Answered` the status code of each route.
`Paywall` is the hook of `x402Paywall.ts` on a header, of which it reads four facts. `quoted`, `sent` and `moved` are history variables: a 402 has
come for the resource, payments were handed over, payments landed. `owes` of `Purchase` is the definition `Owes`: in live mode, until something was sent,
whoever asks for the execution of a transfer owes it from the start (`UnderOrder`: the adapter, whatever its probe brings but a 402, the SDK, the MCP tool),
and the interceptor once it is `quoted`; a payer once it is quoted, until it is served on a valid authorization. A `dryCaller` never owes.

**Gateway.** A request goes `new` -> `allow` -> `proxy` -> (`failed`) -> final. A list of
times is a set of requests with a `stamp` each, so equal times stay apart. In
`MemoryGateway` `Allow` and `RecordFailure` are one action each, for the mutex
covers the clock too. In `RedisGateway` each command of the pipeline is an action:
`trim`, `card`, `add`, `expire`, then the separate `ZCOUNT`. `Fail` may strike
before any of them and undoes nothing. An emptied set vanishes with its expiry, and `Tick`
drops expired sets. A request counts as `Admitted` from the time it is let through,
also while its failure is being reported.

## 3. Runs

| Run | Configuration | Question | Answer |
|---|---|---|---|
| `vault` | any calls by 3 callers, amounts 0..2, 256 bits shrunk to 0..4 | conserved, leaves properly, counter cannot wrap, lone keeper bounded | holds |
| `keeper` | 2 daemons, 2 mempool slots, 1 token, fairness | implements the vault; a shortage is served | holds |
| `pipeline` | 2 requests in flight, every fault | rows within cap, only issued calls, truthful records | holds |
| `sequential` | 4 requests one by one, 5 ticks, no faults, calls booked in full | implements `SpendLedger`; a charge only adds to the row | holds |
| `memory_gateway` | 5 requests, 4 ticks, restarts | implements `SlidingWindow`; circuit; quiet client | holds |
| `redis_gateway` | 4 requests, 2 in flight, delay 1 | bounded overshoot; circuit; quiet client | holds |
| `paid` | 6 clients, 24 configurations, 4 routes, answers with up to 5 changes, 6 authorizations, anything lost | implements `Purchase`; 402 means unpaid; nothing sent unsimulated or beyond the maximum; refused for cause; a call ends | holds |
| `concurrent_cap` | 2 requests at a time | does the cap hold? | **violated** |
| `unbooked` | 1 custom call that states no amount | does the cap hold? | **violated** |
| `session_limit` | 2 requests, one by one | is the session limit enforced? | **violated** |
| `charge_race` | 1 request and an admin | does a charge only increment? | **violated** |
| `redis_rate` | 2 requests at a time | is the rate kept with Redis? | **violated** |

Deadlock is checked in `paid` only: elsewhere clocks and request numbers are bounded, so every bounded
system stops; and a vault may run out of tokens.

**Bounds, and why they are enough.** *Vault*: with amounts up to 2 and totals up
to 4 the run reaches several top-ups of different size, refusal by the checked addition,
an exact balance, a vault that is its own paymaster and a renounced ownership. `MaxFunded`
bounds the tokens that ever enter; there is no reason for the size of an amount to matter
beyond that, and the theorems have no such limit besides the bound itself. *Keeper*: two
slots make a nonce collision, a gap behind a dropped transaction and a stale nonce
reachable; two daemons make both read one nonce and send for one shortage. One token serves one shortage, which is all that the collision
needs; with more, the search for unfair loops outgrows the time for a run, and safety for any amounts is `KeeperRefinesVault`. *Pipeline*: two requests are what a
race needs; seven intents cover a transfer in tokens, a larger one in base units that names no key, a dry run and
one that cannot be resolved, a call and one to a disallowed target on the execute route, and one without any scope; three key bodies an ordinary key, its revocation, and a lowered cap with a short
life; two ticks let a window elapse and a key expire. `sequential` has four requests and
five ticks: two windows, a full cap and a refused request. Its calls are booked in full: an amount in one field or the other, in both with a `valueWei` on top,
a custom call that states what its bytes move, one on the execute route that moves nothing, one without a scope. `unbooked` has the custom call that states nothing. *Gateway*: the memory run has
windows of 2 and 3 ticks in a clock of 4, so requests and failures age out, and
limits of 2, so that one hit is not already all. The Redis run has a limit of 1
with a window of 3 and two in flight. `MaxInFlight` caps the requests within `Allow`
at a time; `OvershootBounded` is stated in it. `MaxDelay` caps the time from
reading the clock to the first command, and `Tick` waits while a pipeline is under way: a
pipeline's commands run within one unit of time. Without that a pipeline could straddle the
expiry of its own set. `IntentPipeline` is bounded by `MaxRequests` and `MaxTime`. *Safety gate*: the five changes are a sale
marked by its sign only, one by its direction, a cheap one of many token units, one without a price, and
something that comes in; every set of them may be an answer. Amounts in a request lie
below, at and above the maxima, are zero, absent, or in the other field; an approval names its spender. *Paid call*: one call at a
time, since the server keeps nothing of it, and then another; authorizations are good, with a term that passes on the way or not, too
low, misdirected or incomplete. `MaxTime` is the longest a payer's request takes to arrive, in ticks; a term of 0, 1 and none are all
there is to tell apart.

**Fairness.** `PaidCall`: weak for `Progress`, all that server and client do once a request is on its way. A handler
runs on without anyone's help (its calls time out or throw), and a `fetch` resolves or rejects. None for `Call`,
`Tick` and `Land`: nothing makes a transaction land. `KeeperVault!Fairness` (`keeper`): weak for `Start`: `render.yaml:84`
runs the daemon as a worker, which the platform restarts. Weak for `Tick` and `Fail`: the
ticker and the 15 s timeout of the poll do not depend on anyone. Strong for `Read`, `GetNonce`,
`Send`: an endpoint that is asked again and again answers some time; a weak condition would not
do, since every failed poll interrupts the wait. Strong for `Mine`: a chain that is offered executable
transactions again and again takes one. No fairness for `Crash`, `Drop` or anyone else. The
property says that a shortage the keeper may end does not persist: it is ended by a
top-up or by a change that leaves nothing to do.

## 4. Findings

Each is a run that expects a violation; the counterexample is short in all of them.

1. **`concurrent_cap`**: `enforceSessionKeyScope` reads a row, `recordSessionKeySpend` writes
   that same object back with the spend added, after the call was sent
   (`sessionKeys.ts:98-109`). Two requests pass the same check, and one charge is lost.
   `docs/ARCHITECTURE.md:50`: session keys "enforce spend caps". What does hold is
   `SpentWithinCap`: the *stored* row never exceeds its cap, so the table does not show it.
2. **`charge_race`**: the same write restores cap, allowlists and the active flag as
   they were read. A revocation in between is undone. The comment at `sessionKeys.ts:98` says
   "Increment spent amount".
3. **`session_limit`**: nothing adds to `session.spentUsdc`; the check at `guardrails.ts:40`
   compares with what an admin last wrote. `guardrails.ts:9`: "Enforce session spending limits".
4. **`unbooked`**: the spend of an intent is what its amount fields state (`estimateSpendUsdc`, `guardrails.ts:53`). A custom
   intent brings its own `data` and `valueWei` (`intentResolver.ts:136`) and need state no amount; everything on the execute route is such an
   intent (`intentRoute.ts:244`) and that route charges nothing besides. One call of the token that the key allows moves more than the cap, with nothing
   booked. `docs/ARCHITECTURE.md:50` as in 1.
5. **`redis_rate`**: the pipeline at `ratelimit.go:107` is no transaction; two requests may both
   run `ZCARD` before either runs `ZADD`. `OvershootBounded` is what holds instead.

Met while modelling, without a run of their own. *Amounts and safety*: an intent that states both amounts is booked
and checked by `amountIn` (`guardrails.ts:54`, `tenderly.ts:414`) and carries `amountInWei`
(`intentResolver.ts:153`), a swap its `valueWei` on top, so that both may exceed the cap as a custom call does; a transfer of the default token that states base units only is held against no
maximum when there is no Tenderly (`simulator.ts:41`, `tenderly.ts:414`); `estimateUsdDrain` (`tenderly.ts:403`) takes the raw token
amount of what goes out for dollars, where `env.ts:35` says "Max absolute USDC-equivalent drain", so that a
transfer of one USDC is refused as a drain of a million (the hook, `simulateHook.ts:179`, counts prices only,
and by `GateCoversHook` the difference errs on the safe side); the window of a key is restarted when it
has elapsed (`sessionKeys.ts:53`), so that two spends on both sides of a restart exceed the cap within one
window's length, where the comment at line 18 calls it rolling; both drain estimates take the largest
change and not the sum; an `amountInWei` without `tokenIn` is checked against nothing, and
with it is compared with dollars (`simulator.ts:48`); the WebMCP preflight asks Tenderly even in
mock mode (`tenderly.ts:61`); the execute route answers with the simulation of the hook, not with the one the
send was decided on (`intentRoute.ts:326`); `/v1/intent` looks at no session key row; `contracts/README.md:51` says
`totalToppedUp == topUpCount * topUpAmount`, which `setTopUpAmount` ends; the equation of line 50 fails
for a vault that is its own paymaster (`Conservation` is the exact form); an operation
that landed although sending failed is recorded `failed` and not charged
(`userOp.ts:103`, `pipeline.ts:92`; the fault "landed"); revoking an agent's last key lets a
request that names none go on unscoped (`repository.ts:209`), where the comment at `sessionKeys.ts:36`
says "No issued key yet", and so may an agent with an active key behind twenty rows (`repository.ts:206`); the gate's comparison of the call's target
with the intent's (`tenderly.ts:372`) never bites, for each branch of the resolver hands on the target it calls
(`ResolvedTarget`, `Mismatched`); a refused request still takes room in the Redis window, so
a client steadily above its rate is refused altogether.

*Clients and paywall*: the header of `executeWithInterceptor` has no `to` (`agentexec-sdk.ts:158`), so the paywall
of this repository answers 400 (`x402Paywall.ts:119`) to a client that has just paid; the mock it is used with takes any
header, where `premium-data/route.ts:5` says "Mirrors AgentExec x402 behaviour". In `paid` such a call ends as an error, paid,
which `Purchase` allows. The adapter never answers a challenge; it gives up. `execute_onchain_intent` says
"Transaction Executed Successfully!" (`server.ts:188`) of any 200, of a dry run or a simulation as well. Of a live send too a 200 is no more
than that the node has the call: `userOp.ts:119-145` answers before inclusion, and `safeAccount.ts:112-118` says "confirmed" of a reverted receipt and
"submitted" of one that never came; `Purchase` promises no more than this. An authorization is neither
settled nor remembered, and serves again until its `validBefore` (`x402Paywall.ts:112`). A caller who repeats an
execute request that was answered late has made a second purchase: no route knows an idempotency key.

## 5. Proofs

| Theorem | Establishes |
|---|---|
| `PaymasterVaultProofs`: `TypeCorrect`, `TokensConserved`, `UncheckedIncrementSafe`, `KeeperReachBounded` | the vault's four invariants |
| `OutflowProper` | `FundsLeaveOnlyProperly` |
| `KeeperVaultProofs`: `KeeperRefinesVault` | `KSpec => Spec` |
| `DuplicatesHarmless` | hence the vault's results, of the whole system |
| `KTypeCorrect` | the types of daemons and mempool |
| `IntentPipelineProofs`: `StoredSpendWithinCap`, `SentOnlyAsIssued`, `AuditTruthful`, `PipelineTyped` | the pipeline's four invariants, for any number of requests at a time, and every fault |
| `LoneChargeIncrements` | without a second request and an admin, a charge only adds: finding 2 turned round |
| `LedgerKept`, `SequentialCapHolds` | one request at a time, no faults, no call that carries more than is booked for it: `PSpec => LedgerImplemented`, and the cap holds: findings 1 and 4 turned round |
| `SafetyGateProofs`: `GateCoversHook` | the gate's drain rule covers the hook's |
| `LiveCallsSimulated`, `DrainCapped`, `StatedCapped`, `DrainRefusalsCaused`, `SafetyTypeCorrect` | the gate's five invariants |
| `PaidCallProofs`: `GateUnderClients`, `GateHoldsUnderClients` | the clients leave the gate what it is: `PaidSpec => SSpec`, with its invariants |
| `PaidTypeCorrect`, `UnpaidIsUnpaid` | one payment handed over per call at most; 402 means none was |
| `ClientsKeepPromise` | `PaidSpec => PurchaseImplemented`: every client implements `Purchase` |
| `SlidingWindowProofs`: `WindowBound` | the abstract window keeps every stretch of its length within the limit |
| `GatewayProofs`: `MemoryLimiterRefines`, `RateKept` | the memory gateway implements the abstract window, and so keeps its rate |
| `CircuitHolds`, `DenialsDeserved`, `ListsBounded` | the run's other three properties |
| `RedisGatewayProofs`: `OvershootHolds`, `CircuitHolds`, `DenialsDeserved`, `RedisTyped` | the Redis gateway's four properties, for any interleaving, delay and failure of commands |
| `SerialRateHolds` | one request in the limiter at a time, and none late: the rate holds; finding 5 turned round |

They assume the named `ASSUME`s of the modules, which TLC evaluates in the runs, and nothing
else (`WindowBound` takes its assumptions as hypotheses, those that `GatewayAssumption` gives it), except
for the theorems that turn a finding round: theirs is a statement about deployments in which the
finding cannot happen, and says by its hypotheses what the finding needs. `Alone`: one request
at a time, no admin writes. `Sequential`: moreover no fault, and `AllBooked`: no call under a key carries more, by amount, bytes and value, than its route
books, which on the execute route is nothing. That is a condition on what clients send; nothing in the code enforces it, and without it finding 4 stands. `sequential` is an instance
of both. `SerialRateHolds`: `MaxInFlight = 1`, `MaxDelay = 0`.

*Vault.* The invariants are not inductive: `LoneKeeperBounded` says nothing of the balance that a
top-up adds to. `IInv` adds `StreakHeld`: tokens moved by an uninterrupted series of top-ups sit at the
paymaster, which is not the vault. A further top-up then needs a balance, and so a streak,
below the threshold. `NoWrap` draws from the checked addition and
`UncheckedCountSafe` that the modulus never bites. `OutflowProper` uses `IInv` to tell apart whose balance moved.

*Keeper.* A step of a daemon or of the mempool leaves the vault's variables alone, and `Mine` and `Others`
are steps of `Transaction` or stutters; since `vars` are part of the state the refinement mapping is the identity.

*Pipeline.* `SpentWithinCap` depends on what requests hold in their hands while the table changes.
`PIInv` says so: a `scope` held at `execute`, `record` or `charge` has room for the request's
spend *under the cap it carries along*; at `reset` nothing is spent. A charge writes spend and cap
together, hence the row stays within the cap it shows, and this is also why
the property survives the race of finding 2. `IssuedInv` follows the rows instead of the sums: every row
stored or held says what some template says but for agent, sum and window (`FromIssue`), and
a scope held is active and, at `execute`, allows the call. A charge that brings back a
replaced row then brings back an older issue, which is why `BroadcastWithinIssued` speaks of *some* issue. `AuditInv` ties a
request's id to its progress: it is its own among the requests under way (`Accounted`), unrecorded until `charge`, unsent
before its call, and at `record` its status says what became of it. `MoveKeeps` is the one argument for all
steps: a request that moves to a label with an id and a status, adding its own record or call.

*Ledger.* `AloneInv` adds that the scope in hand is still the row in the store (`InHand`), which
is what a second request or an admin breaks; so a charge is an addition. `LedgerInv` adds the sums: what was sent in
a key's window is at most what its row shows spent, or the one request between its call and
its charge owes the difference (`Booked`, `Owing`); calls were sent under this window or an
earlier one (`Windowed`), so a new one begins with nothing; a fresh window in hand was due (`Due`), and a call without a row is not counted (`Scopeless`). Then a broadcast under a key is `Spend`, `ResetWindow` is `NewWindow`,
all else a stutter. `CarriedBy` folds a set in the order of `CHOOSE`. The section *Sums* shows
what the proof needs of it, that the order does not matter and one more call adds its amount (`CarriedAdds`). Induction
is had from `WFMin`, the least element of a set of numbers, which takes a set and not an operator.

*Safety gate.* What is sent is described by its last look, so `SInv` keeps the gate's verdict (`Vetted`) with
the answer for as long as the request may go out, and `Ordered` says that before the gate nothing was seen
there and nothing has ended. `DrainCapped` is then `GateCoversHook`: a price that the hook counts is one
of the deltas the gate counts.

*Paid call.* What a client does is a stutter of the gate and what the server does is a step of it, hence
`GateUnderClients`, and the gate's `SInv` may be used. `CInv` adds who may be where (`Turns`), that a live
server is given no dry run by those who pay (`Errand`), where the one payment can be (`Payments`):
nowhere before `Settle`, at `again` for certain, and who was told its price (`Quotes`). It leans on `SInv`, by which an outcome is known only at
the end. In `ClientsKeepPromise` `Settle` is `Pay` where the node was given something, which by `Quotes` and `Errand` only those do that are
`UnderOrder` or quoted; `Fetch` is `Quote` on a 402 and `Pay`, by one that someone else settles, on a valid authorization; `Land` is `Land`,
`Finish` is `Succeed` or `Fail`, and another request of a client is a stutter.

*Gateway.* `Remembered`: an admitted request younger than the window is in its key's list. Then the list bounds
what the abstract window counts, and `Allow` maps to `Admit`, `Tick` to `Advance`, `Restart` to `Forget`,
every other step to a stutter. `RateKept` is `WindowBound` through this refinement. `LInv` says of both lists that they hold requests of
their own key at the time of their stamp, and every recorded failure younger than its window: the circuit sees no fewer
failures than were recorded, and the refusals no more than there were.

*Redis.* `BaseInv` types the state and says what a stage implies of the stamps. `CountsFair`: what `ZCARD` found
were requests of the key that came within the window, other than the one that counts, hence
a 429 is deserved. `FailuresKept`: a recorded failure younger than its window is in the set, and the set does not expire before it does,
whoever trims or extends it. `RateInv` is the overshoot: an admitted request is in the set for its window (`HitsKept`);
those with room in the limit, looked at or not, in a stretch shorter than the window by `MaxDelay`
are fewer than `Limit + MaxInFlight` (`FewGranted`), since one that counts fewer than `Limit` misses at most the others in flight
(`FewInFlight`). With one in flight and no delay this is the limit itself.

**Only model-checked**: `ShortageServed` and `CallEnds`: liveness under fairness is beyond the prover. Every other
property of a passing run is stated by a theorem. The five findings are runs; no theorem says that something
*is* violated.

## 6. Not modelled

- The signature of a payment: a request of `/v1/intent` is turned away, or not (`TurnAway`). The paywall checks none.
- Paywall prefixes that cover the execute routes (`X402_PATH_PREFIXES`, by default `/v1/paid`): a client would meet a 402 when it settles.
- The provider itself: an answer is any set of changes with any verdict.
- Gas, fees, ether balances; confirmations and reorganizations. "confirmed" is merged with "submitted". `IntentPipeline` counts a submitted call
  as carried out, for it is about what may leave under a key; that it may never land is in `PaidCall`.
- `SESSION_KEY_MODE` off; the in-memory store used without a database (same operations, no awaits);
  the encoding of call data (the function called is the intent's kind, or a custom intent's own; what a custom call moves is a number of the intent); decimals, a token is taken for one of six as in the code.
- go-redis repeating a pipeline by itself; two members of one nanosecond; start-up and `/health`.
- Configuration, health, the website's pages, scripts, monitoring: no protocol state. `scripts/executeSponsoredTx.ts` is an
  example that sends one operation past every check, without a table or a decision of its own.

## 7. Plan

Written in the order of what matters most: vault, keeper, pipeline with session keys, gateway, the
execution routes, safety gate, then resolver, paywall and clients. Still to come:

1. `SafetyGate` against `IntentPipeline`: the outcomes of `executeUserOperation` in a module that both use, and a
   theorem that the gate ends in no other.
2. What a gateway admits across restarts, each of which forgets the window: a bound on `RateKept` in their number.
3. `LedgerKept` where requests run concurrently but never two of one key.
