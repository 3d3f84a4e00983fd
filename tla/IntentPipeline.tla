--------------------------- MODULE IntentPipeline ---------------------------
(***************************************************************************)
(* The three routes by which an intent reaches the chain, as requests run  *)
(* them concurrently: between two awaits a request is alone, at every      *)
(* await any other request, an admin call or a failure may come first.  A  *)
(* worker is one request in flight.  The stores are the Postgres tables of *)
(* src/db/repository.ts, read and written a row at a time.                 *)
(*                                                                         *)
(*   intents   processIntent of src/services/pipeline.ts, in full          *)
(*   execute   POST /v1/intent/execute: no session, no charge, and a       *)
(*             refusal by the key is not recorded                          *)
(*   webmcp    POST /v1/intent: a signed payment and no scope at all       *)
(*                                                                         *)
(* A request names an intent; what goes on is the resolved one             *)
(* (IntentResolver), with the amount that its call carries and the spend   *)
(* that is booked for it.                                                  *)
(*                                                                         *)
(* broadcasts is a history variable: what reached the chain, under which   *)
(* row as the request had read it.                                         *)
(***************************************************************************)
EXTENDS SessionKeys, IntentResolver, FiniteSetsExt

CONSTANTS
    Worker,             \* requests in flight at a time
    Key, Session, Agent,
    RawIntents,         \* the intents requests come with
    KeyTemplates,       \* bodies of POST /v1/session-keys
    SessionTemplates,   \* bodies of POST /v1/sessions
    DefaultSession,     \* defaultSession: config's limits, nothing spent
    Mode,               \* config.EXECUTION_MODE
    Faults,             \* what may happen besides: a subset of AllFaults
    None,               \* no row, no intent
    MaxRequests,        \* bound: requests received
    MaxTime             \* bound: the clock

AllFaults == {"admin", "throw", "crash", "landed"}

Route == {"intents", "execute", "webmcp"}

\* resolveIntent, for what the tables and the chain are told: the function
\* called is the kind's own, or the one a custom intent brings along.
Resolve(i) ==
    [agent |-> i.agent, session |-> i.session, key |-> i.key, route |-> i.route,
     dryRun |-> i.dryRun, to |-> CallTo(i),
     selector |-> IF i.kind = "custom" THEN i.selector ELSE i.kind,
     spend |-> EstimateSpend(i), carried |-> Carried(i)]

\* An intent that cannot be resolved is answered at once and leaves no trace.
Intents == {Resolve(i) : i \in {r \in RawIntents : Resolvable(r)}}

KeyRow == [id: Key, agent: Agent, active: BOOLEAN, max: Nat, spent: Nat,
           window: Nat, since: Nat, expires: Nat,
           targets: SUBSET {i.to : i \in Intents},
           selectors: SUBSET {i.selector : i \in Intents}]

SessionRow == [active: BOOLEAN, max: Nat, spent: Nat, expires: Nat,
               targets: SUBSET {i.to : i \in Intents}]

\* A fresh row of a body: nothing spent, the window starts now.
Issued(template, now) == [template EXCEPT !.spent = 0, !.since = now]

ASSUME PipelineAssumption ==
    /\ NoKey \notin Key
    /\ \A i \in RawIntents :
        /\ i.agent \in Agent /\ i.session \in Session /\ i.key \in Key \cup {NoKey}
        /\ i.route \in Route /\ i.kind \in Kind
        /\ i.amountIn \subseteq Nat /\ i.amountInWei \subseteq Nat
        /\ i.value \in Nat /\ i.inData \in Nat
        /\ i.route # "intents" => i.kind = "custom" /\ ~StatesAmount(i)
    /\ None \notin Intents \cup KeyRow \cup SessionRow
    /\ KeyTemplates \subseteq KeyRow
    /\ SessionTemplates \cup {DefaultSession} \subseteq SessionRow
    /\ Mode \in {"live", "simulate", "mock"}
    /\ Faults \subseteq AllFaults
    /\ MaxRequests \in Nat /\ MaxTime \in Nat

VARIABLES
    keys, sessions, records,    \* session_keys, sessions, transactions
    pc, intent, id, scope, status,  \* the locals of each request
    now, requests, broadcasts

tables == <<keys, sessions, records>>
locals == <<pc, intent, id, scope, status>>
world  == <<now, requests, broadcasts>>
pvars  == <<tables, locals, world>>

Location == {"idle", "session", "newSession", "key", "reset", "execute",
             "record", "charge"}
Status == {"none", "rejected", "simulated", "submitted", "failed"}

PTypeOK ==
    /\ keys \in [Key -> KeyRow \cup {None}]
    /\ sessions \in [Session -> SessionRow \cup {None}]
    /\ records \subseteq [id: 1..MaxRequests, status: Status]
    /\ pc \in [Worker -> Location]
    /\ intent \in [Worker -> Intents \cup {None}]
    /\ id \in [Worker -> 0..MaxRequests]
    /\ scope \in [Worker -> KeyRow \cup {None}]
    /\ status \in [Worker -> Status]
    /\ now \in 0..MaxTime /\ requests \in 0..MaxRequests
    /\ broadcasts \subseteq [id: 1..MaxRequests, intent: Intents,
                             at: 0..MaxTime, scope: KeyRow \cup {None}]

PInit ==
    /\ keys \in [Key -> {Issued(t, 0) : t \in KeyTemplates} \cup {None}]
    /\ \A k \in Key : keys[k] # None => keys[k].id = k
    /\ sessions = [s \in Session |-> None]
    /\ records = {}
    /\ pc = [w \in Worker |-> "idle"] /\ intent = [w \in Worker |-> None]
    /\ id = [w \in Worker |-> 0] /\ scope = [w \in Worker |-> None]
    /\ status = [w \in Worker |-> "none"]
    /\ now = 0 /\ requests = 0 /\ broadcasts = {}

-----------------------------------------------------------------------------
(* One request, from await to await.                                       *)

GoTo(w, label) == pc' = [pc EXCEPT ![w] = label]

\* The request is answered, or lost: its locals are gone.
Finish(w) ==
    /\ GoTo(w, "idle")
    /\ intent' = [intent EXCEPT ![w] = None] /\ id' = [id EXCEPT ![w] = 0]
    /\ scope' = [scope EXCEPT ![w] = None]
    /\ status' = [status EXCEPT ![w] = "none"]

Reject(w) ==
    /\ GoTo(w, "record")
    /\ status' = [status EXCEPT ![w] = "rejected"]

\* The key refuses: processIntent records that, the execute route answers 422.
Refuse(w) ==
    IF intent[w].route = "intents"
    THEN /\ Reject(w)
         /\ scope' = [scope EXCEPT ![w] = None] /\ UNCHANGED <<intent, id>>
    ELSE Finish(w)

\* Where a route first looks at a table, or sends.
FirstStage(route) ==
    CASE route = "intents" -> "session"
      [] route = "execute" -> "key"
      [] route = "webmcp" -> "execute"

\* An intent arrives and passes what its route asks of the request alone
\* (resolution, payment, the simulation up front); one that does not leaves
\* no trace.
Receive(w) ==
    /\ pc[w] = "idle" /\ requests < MaxRequests
    /\ requests' = requests + 1
    /\ \E i \in Intents : /\ intent' = [intent EXCEPT ![w] = i]
                          /\ GoTo(w, FirstStage(i.route))
    /\ id' = [id EXCEPT ![w] = requests']
    /\ UNCHANGED <<tables, scope, status, now, broadcasts>>

\* enforceGuardrails runs on the row in hand.
Guard(w, row) ==
    IF GuardrailsPass(intent[w], row, now)
    THEN GoTo(w, "key") /\ UNCHANGED status
    ELSE Reject(w)

ReadSession(w) ==
    /\ pc[w] = "session"
    /\ LET row == sessions[intent[w].session]
       IN IF row = None THEN GoTo(w, "newSession") /\ UNCHANGED status
                        ELSE Guard(w, row)
    /\ UNCHANGED <<tables, intent, id, scope, world>>

\* The default is written even over a session created meanwhile.
CreateSession(w) ==
    /\ pc[w] = "newSession"
    /\ sessions' = [sessions EXCEPT ![intent[w].session] = DefaultSession]
    /\ Guard(w, DefaultSession)
    /\ UNCHANGED <<keys, records, intent, id, scope, world>>

\* A lookup by agent reads this many of its rows, in no order.
ListLimit == 20

\* The rows the lookup may return: by id, else any active one of the agent,
\* or none where the rows read may all be inactive.
Lookup(i) ==
    IF i.key # NoKey THEN {keys[i.key]}
    ELSE LET own == {k \in Key : keys[k] # None /\ keys[k].agent = i.agent}
             live == {k \in own : keys[k].active}
         IN {keys[k] : k \in live} \cup
            IF live = {} \/ Cardinality(own \ live) >= ListLimit THEN {None} ELSE {}

\* The allowlists and the cap, on the scope the request goes on with.
Check(w, row) ==
    IF CallAllowed(row, intent[w]) /\ WithinCap(row, intent[w])
    THEN /\ scope' = [scope EXCEPT ![w] = row]
         /\ GoTo(w, "execute") /\ UNCHANGED <<intent, id, status>>
    ELSE Refuse(w)

ReadKey(w) ==
    /\ pc[w] = "key"
    /\ \E row \in Lookup(intent[w]) :
        CASE row = None ->
               GoTo(w, "execute") /\ UNCHANGED <<intent, id, scope, status>>
          [] row # None /\ ~KeyUsable(row, now) -> Refuse(w)
          [] row # None /\ KeyUsable(row, now) /\ WindowElapsed(row, now) ->
               /\ scope' = [scope EXCEPT ![w] = FreshWindow(row, now)]
               /\ GoTo(w, "reset") /\ UNCHANGED <<intent, id, status>>
          [] OTHER -> Check(w, row)
    /\ UNCHANGED <<tables, world>>

\* upsertSessionKeyScope: the whole row but the agent is replaced.
Upsert(row) ==
    keys' = [keys EXCEPT ![row.id] =
                IF keys[row.id] = None THEN row
                ELSE [row EXCEPT !.agent = keys[row.id].agent]]

\* Mutant of ResetWindow: the fresh window is not stored.
ResetWindow_unsaved(w) ==
    /\ pc[w] = "reset"
    /\ Check(w, scope[w])
    /\ UNCHANGED <<tables, world>>

ResetWindow(w) ==
    /\ pc[w] = "reset"
    /\ Upsert(scope[w])
    /\ Check(w, scope[w])
    /\ UNCHANGED <<sessions, records, world>>

Broadcast(w) ==
    broadcasts' = broadcasts \cup
        {[id |-> id[w], intent |-> intent[w], at |-> now, scope |-> scope[w]]}

\* Mutant of Stays: the request's dryRun is not looked at.
Stays_modeOnly(i) == Mode # "live"

Stays(i) == i.dryRun \/ Mode # "live"

\* The statuses executeUserOperation may end with, and whether the call is
\* then on chain.  submitted stands for confirmed too.
Outcomes(i) ==
    {<<"rejected", FALSE>>} \cup
    IF Stays(i)
    THEN {<<IF Mode = "mock" /\ ~i.dryRun THEN "submitted" ELSE "simulated", FALSE>>}
    ELSE {<<"submitted", TRUE>>, <<"failed", FALSE>>} \cup
         IF "landed" \in Faults THEN {<<"failed", TRUE>>} ELSE {}

Execute(w) ==
    /\ pc[w] = "execute"
    /\ \E o \in Outcomes(intent[w]) :
        /\ status' = [status EXCEPT ![w] = o[1]]
        /\ IF o[2] THEN Broadcast(w) ELSE UNCHANGED broadcasts
    /\ GoTo(w, "record")
    /\ UNCHANGED <<tables, intent, id, scope, now, requests>>

\* Mutant of Record: only simulated requests are charged.
Record_chargeSimulated(w) ==
    /\ pc[w] = "record"
    /\ records' = records \cup {[id |-> id[w], status |-> status[w]]}
    /\ IF scope[w] # None /\ status[w] = "simulated"
       THEN GoTo(w, "charge") /\ UNCHANGED <<intent, id, scope, status>>
       ELSE Finish(w)
    /\ UNCHANGED <<keys, sessions, world>>

\* processIntent charges the scope of a call that was sent or simulated.
ToCharge(w) ==
    /\ intent[w].route = "intents" /\ scope[w] # None
    /\ status[w] \in {"submitted", "simulated"}

\* recordTransaction, then the decision whether to charge.
Record(w) ==
    /\ pc[w] = "record"
    /\ records' = records \cup {[id |-> id[w], status |-> status[w]]}
    /\ IF ToCharge(w)
       THEN GoTo(w, "charge") /\ UNCHANGED <<intent, id, scope, status>>
       ELSE Finish(w)
    /\ UNCHANGED <<keys, sessions, world>>

\* recordSessionKeySpend: on the row as it was read, long ago perhaps.
Charge(w) ==
    /\ pc[w] = "charge"
    /\ IF intent[w].spend = 0 THEN UNCHANGED keys
                              ELSE Upsert(Charged(scope[w], intent[w]))
    /\ Finish(w)
    /\ UNCHANGED <<sessions, records, world>>

-----------------------------------------------------------------------------
(* What happens around a request.                                          *)

\* A rejected promise (database, bundler, wallet) ends the request with a
\* 500, after the call was sent perhaps.
Throw(w) ==
    /\ "throw" \in Faults /\ pc[w] # "idle"
    /\ Finish(w)
    /\ \/ UNCHANGED broadcasts
       \/ /\ pc[w] = "execute" /\ ~Stays(intent[w]) /\ "landed" \in Faults
          /\ Broadcast(w)
    /\ UNCHANGED <<tables, now, requests>>

\* The process dies; the tables survive.
Crash ==
    /\ "crash" \in Faults /\ \E w \in Worker : pc[w] # "idle"
    /\ pc' = [w \in Worker |-> "idle"] /\ intent' = [w \in Worker |-> None]
    /\ id' = [w \in Worker |-> 0] /\ scope' = [w \in Worker |-> None]
    /\ status' = [w \in Worker |-> "none"]
    /\ UNCHANGED <<tables, world>>

\* POST /v1/session-keys, and the generated key of /v1/session-keys/issue.
IssueKey ==
    /\ "admin" \in Faults
    /\ \E t \in KeyTemplates : Upsert(Issued(t, now))
    /\ UNCHANGED <<sessions, records, locals, world>>

\* POST /v1/sessions.
PutSession ==
    /\ "admin" \in Faults
    /\ \E s \in Session, t \in SessionTemplates :
           sessions' = [sessions EXCEPT ![s] = t]
    /\ UNCHANGED <<keys, records, locals, world>>

Tick ==
    /\ now < MaxTime /\ now' = now + 1
    /\ UNCHANGED <<tables, locals, requests, broadcasts>>

Step(w) ==
    \/ Receive(w) \/ ReadSession(w) \/ CreateSession(w) \/ ReadKey(w)
    \/ ResetWindow(w) \/ Execute(w) \/ Record(w) \/ Charge(w) \/ Throw(w)

PNext == (\E w \in Worker : Step(w)) \/ Crash \/ IssueKey \/ PutSession \/ Tick

PSpec == PInit /\ [][PNext]_pvars

-----------------------------------------------------------------------------
(* Properties.                                                             *)

\* No stored row ever shows more spent than its cap, whatever requests,
\* admin calls and failures interleave: a charge writes back the cap it was
\* checked against together with the sum.
SpentWithinCap ==
    \A k \in Key : keys[k] # None => keys[k].spent <= keys[k].max

\* A call broadcast under a key is one that some issue of this key allowed:
\* an active one, with this target and selector and a cap not below the spend.
BroadcastWithinIssued ==
    \A b \in broadcasts : b.scope # None =>
        \E t \in KeyTemplates :
            /\ t.id = b.scope.id /\ t.active /\ b.intent.spend <= t.max
            /\ Lists(t.targets, b.intent.to)
            /\ b.intent.selector = NoSelector
                  \/ Lists(t.selectors, b.intent.selector)

\* The audit trail does not contradict the chain: in live mode a transaction
\* recorded as submitted was broadcast, one recorded as rejected or simulated
\* was not, and a dry run never is.
RecordsTruthful ==
    LET sent == {b.id : b \in broadcasts}
    IN /\ \A r \in records :
            /\ Mode = "live" /\ r.status = "submitted" => r.id \in sent
            /\ r.status \in {"rejected", "simulated"} => r.id \notin sent
       /\ \A b \in broadcasts : ~b.intent.dryRun

CarriedBy(bs) == MapThenSumSet(LAMBDA b : b.intent.carried, bs)

Under(k) == {b \in broadcasts : b.scope # None /\ b.scope.id = k}

\* What was sent under a key in the window its row is in, and its cap.
UsedInWindow(k) ==
    IF keys[k] = None THEN 0
    ELSE CarriedBy({b \in Under(k) : b.scope.since = keys[k].since})

CapOf(k) == IF keys[k] = None THEN 0 ELSE keys[k].max

OpenedAt(k) == IF keys[k] = None THEN 0 ELSE keys[k].since

LengthOf(k) == IF keys[k] = None THEN 0 ELSE keys[k].window

\* One request at a time, without failures and with calls that carry no more
\* than the route books for them, the pipeline keeps the promise of a session
\* key: it implements SpendLedger for the amounts the calls carry.  A custom
\* call, one with a valueWei and one that states its amount twice may carry
\* more than is booked.
Ledger == INSTANCE SpendLedger WITH
    Amounts <- {i.carried : i \in Intents},
    used <- [k \in Key |-> UsedInWindow(k)],
    cap <- [k \in Key |-> CapOf(k)],
    opened <- [k \in Key |-> OpenedAt(k)],
    length <- [k \in Key |-> LengthOf(k)],
    time <- now

LedgerImplemented == Ledger!LSpec

\* "Session keys enforce spend caps" (docs/ARCHITECTURE.md:50).
CapHolds == \A k \in Key : UsedInWindow(k) <= CapOf(k)

\* "Enforce session spending limits" (guardrails.ts:9): what was broadcast
\* under a session stays within its limit.
SessionLimitHolds ==
    \A s \in Session : sessions[s] # None =>
        CarriedBy({b \in broadcasts : b.intent.session = s}) <= sessions[s].max

\* "Increment spent amount" (sessionKeys.ts:98): a charge adds to the stored
\* amount and leaves the rest of the row as it is.
ChargeOnlyIncrements ==
    [][\A w \in Worker : Charge(w) /\ intent[w].spend > 0 =>
          LET k == scope[w].id
          IN keys' = [keys EXCEPT ![k] = Charged(keys[k], intent[w])]]_pvars
=============================================================================
