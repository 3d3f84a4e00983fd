------------------------ MODULE IntentPipelineProofs ------------------------
(***************************************************************************)
(* Proofs about IntentPipeline, for any number of concurrent requests,     *)
(* keys and templates, and whatever fails: stored rows keep their caps,    *)
(* calls go out as some issue of their key allows, and the records do not  *)
(* contradict the chain.  The last parts are about requests that come one  *)
(* at a time: a charge adds to the row, and the pipeline implements        *)
(* SpendLedger.                                                            *)
(***************************************************************************)
EXTENDS IntentPipeline, FiniteSetTheorems, WellFoundedInduction, TLAPS

\* The stored rows: each under its own id, none above its cap.
KeysOK ==
    /\ keys \in [Key -> KeyRow \cup {None}]
    /\ \A k \in Key : keys[k] # None =>
          keys[k].id = k /\ keys[k].spent <= keys[k].max

LocalsTyped ==
    /\ pc \in [Worker -> Location]
    /\ intent \in [Worker -> Intents \cup {None}]
    /\ scope \in [Worker -> KeyRow \cup {None}]

\* What a request holds while it waits: the scope it will charge was checked
\* to have room for its spend, and one to be reset has nothing spent.
HoldsRoom(w) ==
    /\ pc[w] # "idle" => intent[w] \in Intents
    /\ pc[w] \in {"idle", "session", "newSession", "key"} => scope[w] = None
    /\ pc[w] \in {"reset", "charge"} => scope[w] # None
    /\ pc[w] = "reset" => scope[w].spent = 0
    /\ pc[w] \in {"execute", "record", "charge"} /\ scope[w] # None =>
          WithinCap(scope[w], intent[w])

PIInv == KeysOK /\ LocalsTyped /\ now \in Nat /\ \A w \in Worker : HoldsRoom(w)

-----------------------------------------------------------------------------

\* What an amount field holds, or its default.
LEMMA GivenFacts ==
    ASSUME NEW field, NEW default
    PROVE  Given(field, default) \in field \cup {default}
<1>1. CASE field = {}
  BY <1>1 DEF Given
<1>2. CASE field # {}
  <2>1. \E x \in field : TRUE
    BY <1>2
  <2>2. (CHOOSE x \in field : TRUE) \in field
    BY <2>1, Zenon
  <2> QED BY <1>2, <2>2 DEF Given
<1> QED BY <1>1, <1>2

\* What is booked for an intent, and what its call carries, are amounts.
LEMMA AmountFacts ==
    ASSUME NEW i, i.amountIn \subseteq Nat, i.amountInWei \subseteq Nat,
           i.kind \in Kind, i.value \in Nat, i.inData \in Nat
    PROVE  EstimateSpend(i) \in Nat /\ Carried(i) \in Nat
<1>1. Given(i.amountIn, 0) \in Nat /\ Given(i.amountInWei, 0) \in Nat
  BY GivenFacts
<1>2. /\ Given(i.amountIn, Given(i.amountInWei, 0)) \in Nat
      /\ Given(i.amountInWei, Given(i.amountIn, 0)) \in Nat
  BY <1>1, GivenFacts
<1>3. PICK amount \in Nat, value \in Nat, inData \in Nat :
         amount = AmountWei(i) /\ value = i.value /\ inData = i.inData
  BY <1>2 DEF AmountWei
<1>4. Carried(i) \in {amount, amount + value, inData + value}
  BY <1>3 DEF Carried, Kind
<1> QED BY <1>2, <1>3, <1>4 DEF EstimateSpend

\* What the assumptions say of intents, rows and None.
LEMMA RowAssumptions ==
    /\ None \notin KeyRow /\ None \notin Intents
    /\ \A i \in Intents : i.spend \in Nat /\ i.route \in Route
    /\ KeyTemplates \subseteq KeyRow
    /\ MaxTime \in Nat
<1>1. ASSUME NEW i \in Intents PROVE i.spend \in Nat /\ i.route \in Route
  <2>1. PICK r \in RawIntents : i = Resolve(r)
    BY DEF Intents
  <2>2. i.spend = EstimateSpend(r) /\ i.route = r.route
    BY <2>1 DEF Resolve
  <2> QED BY <2>2, AmountFacts, PipelineAssumption
<1> QED BY <1>1, PipelineAssumption

\* A row freshly issued has nothing spent.
LEMMA IssuedFacts ==
    ASSUME NEW row \in KeyRow, NEW t \in Nat
    PROVE  /\ Issued(row, t) \in KeyRow
           /\ Issued(row, t).spent = 0 /\ Issued(row, t).max \in Nat
BY DEF KeyRow, Issued

\* A row charged is a row, with the sum of both amounts and the same cap.
LEMMA ChargedFacts ==
    ASSUME NEW row \in KeyRow, NEW i \in Intents
    PROVE  /\ Charged(row, i) \in KeyRow
           /\ Charged(row, i).spent = row.spent + i.spend
           /\ Charged(row, i).max = row.max
<1>1. row.spent \in Nat /\ i.spend \in Nat
  BY RowAssumptions DEF KeyRow
<1>2. Charged(row, i) \in KeyRow
  BY <1>1 DEF KeyRow, Charged
<1> QED BY <1>2 DEF KeyRow, Charged

\* Writing a row that is within its cap keeps the store in order.
LEMMA UpsertKeysOK ==
    ASSUME KeysOK, NEW row \in KeyRow, row.spent <= row.max, Upsert(row)
    PROVE  KeysOK'
<1> DEFINE new == IF keys[row.id] = None THEN row
                  ELSE [row EXCEPT !.agent = keys[row.id].agent]
<1>1. row.id \in Key /\ keys' = [keys EXCEPT ![row.id] = new]
  BY DEF Upsert, KeyRow
<1>2. new \in KeyRow /\ new.id = row.id /\ new.spent = row.spent /\ new.max = row.max
  <2>1. CASE keys[row.id] = None
    BY <2>1
  <2>2. CASE keys[row.id] # None
    <3>1. keys[row.id].agent \in Agent
      BY <1>1, <2>2 DEF KeysOK, KeyRow
    <3> HIDE DEF new
    <3>2. new = [row EXCEPT !.agent = keys[row.id].agent]
      BY <2>2 DEF new
    <3> QED BY <3>1, <3>2 DEF KeyRow
  <2> QED BY <2>1, <2>2
<1> HIDE DEF new
<1>3. keys' \in [Key -> KeyRow \cup {None}]
  BY <1>1, <1>2 DEF KeysOK
<1>4. ASSUME NEW k \in Key, keys'[k] # None
      PROVE  keys'[k].id = k /\ keys'[k].spent <= keys'[k].max
  <2>1. CASE k = row.id
    <3>1. keys'[k] = new
      BY <1>1, <2>1 DEF KeysOK
    <3> QED BY <1>2, <2>1, <3>1
  <2>2. CASE k # row.id
    <3>1. keys'[k] = keys[k]
      BY <1>1, <2>2 DEF KeysOK
    <3> QED BY <1>4, <3>1 DEF KeysOK
  <2> QED BY <2>1, <2>2
<1> QED BY <1>3, <1>4 DEF KeysOK

\* A step of one request leaves what the others hold as it was.
LEMMA OneWorkerMoves ==
    ASSUME PIInv, NEW w \in Worker, NEW label \in Location,
           NEW i \in Intents \cup {None}, NEW row \in KeyRow \cup {None},
           pc' = [pc EXCEPT ![w] = label],
           intent' = [intent EXCEPT ![w] = i],
           scope' = [scope EXCEPT ![w] = row],
           KeysOK', UNCHANGED now,
           label # "idle" => i \in Intents,
           label \in {"idle", "session", "newSession", "key"} => row = None,
           label \in {"reset", "charge"} => row # None,
           label = "reset" => row.spent = 0,
           label \in {"execute", "record", "charge"} /\ row # None =>
              WithinCap(row, i)
    PROVE  PIInv'
<1>1. LocalsTyped'
  BY DEF PIInv, LocalsTyped
<1>2. HoldsRoom(w)'
  <2>1. pc'[w] = label /\ intent'[w] = i /\ scope'[w] = row
    BY DEF PIInv, LocalsTyped
  <2> QED BY <2>1 DEF HoldsRoom
<1>3. ASSUME NEW v \in Worker, v # w PROVE HoldsRoom(v)'
  <2>1. pc'[v] = pc[v] /\ intent'[v] = intent[v] /\ scope'[v] = scope[v]
    BY <1>3 DEF PIInv, LocalsTyped
  <2>2. HoldsRoom(v)
    BY DEF PIInv
  <2> QED BY <2>1, <2>2 DEF HoldsRoom
<1> QED BY <1>1, <1>2, <1>3 DEF PIInv

\* The request ends.
LEMMA FinishKeeps ==
    ASSUME PIInv, KeysOK', UNCHANGED now, NEW w \in Worker, Finish(w)
    PROVE  PIInv'
BY OneWorkerMoves DEF Finish, GoTo, Location

\* A refused request goes on to its record without a scope, or ends.
LEMMA RefuseKeeps ==
    ASSUME PIInv, KeysOK', UNCHANGED now, NEW w \in Worker,
           intent[w] \in Intents, Refuse(w)
    PROVE  PIInv'
<1>1. CASE intent[w].route = "intents"
  <2>1. intent' = [intent EXCEPT ![w] = intent[w]]
    BY <1>1 DEF Refuse, PIInv, LocalsTyped
  <2> QED BY <1>1, <2>1, OneWorkerMoves DEF Refuse, Reject, GoTo, Location
<1>2. CASE intent[w].route # "intents"
  BY <1>2, FinishKeeps DEF Refuse
<1> QED BY <1>1, <1>2

\* A row handed to Check with the request's intent: it goes on with room for
\* its spend, or is refused.
LEMMA CheckKeeps ==
    ASSUME PIInv, KeysOK', UNCHANGED now, NEW w \in Worker,
           NEW row \in KeyRow, intent[w] \in Intents, Check(w, row)
    PROVE  PIInv'
<1>1. CASE CallAllowed(row, intent[w]) /\ WithinCap(row, intent[w])
  <2>1. intent' = [intent EXCEPT ![w] = intent[w]]
    BY <1>1 DEF Check, PIInv, LocalsTyped
  <2> QED BY <1>1, <2>1, OneWorkerMoves DEF Check, GoTo, Location
<1>2. CASE ~(CallAllowed(row, intent[w]) /\ WithinCap(row, intent[w]))
  BY <1>2, RefuseKeeps DEF Check
<1> QED BY <1>1, <1>2

\* Store and clock untouched.
LEMMA KeysFrame == KeysOK /\ UNCHANGED keys => KeysOK'
BY DEF KeysOK

\* A step that changes at most where the request waits.
LEMMA LabelMoves ==
    ASSUME PIInv, KeysOK', UNCHANGED <<now, intent, scope>>, NEW w \in Worker,
           NEW label \in Location, pc' = [pc EXCEPT ![w] = label],
           pc[w] # "idle", label \notin {"idle", "reset"},
           label \in {"newSession", "key"} => scope[w] = None,
           label # "session",
           label = "charge" => scope[w] # None,
           scope[w] # None => WithinCap(scope[w], intent[w])
    PROVE  PIInv'
<1>1. /\ intent' = [intent EXCEPT ![w] = intent[w]]
      /\ scope' = [scope EXCEPT ![w] = scope[w]]
      /\ scope[w] \in KeyRow \cup {None}
      /\ intent[w] \in Intents
  BY DEF PIInv, LocalsTyped, HoldsRoom
<1>2. label \in {"idle", "session", "newSession", "key"} => scope[w] = None
  OBVIOUS
<1>3. /\ label \in {"reset", "charge"} => scope[w] # None
      /\ label = "reset" => scope[w].spent = 0
      /\ label \in {"execute", "record", "charge"} /\ scope[w] # None =>
            WithinCap(scope[w], intent[w])
  OBVIOUS
<1>4. PICK row \in KeyRow \cup {None} : row = scope[w]
  BY <1>1
<1>5. PICK i \in Intents : i = intent[w]
  BY <1>1
<1>6. UNCHANGED now
  OBVIOUS
<1>7. /\ intent' = [intent EXCEPT ![w] = i] /\ scope' = [scope EXCEPT ![w] = row]
      /\ label \in {"idle", "session", "newSession", "key"} => row = None
      /\ label \in {"reset", "charge"} => row # None
      /\ label = "reset" => row.spent = 0
      /\ label \in {"execute", "record", "charge"} /\ row # None => WithinCap(row, i)
      /\ label # "idle" => i \in Intents
      /\ i \in Intents \cup {None}
  BY <1>1, <1>2, <1>3, <1>4, <1>5
<1> QED BY <1>6, <1>7, OneWorkerMoves, Zenon

-----------------------------------------------------------------------------

\* Before anything arrives every request is idle and every row is fresh.
LEMMA InitPIInv == PInit => PIInv
<1> SUFFICES ASSUME PInit PROVE PIInv
  OBVIOUS
<1>1. \A k \in Key : keys[k] # None =>
         keys[k] \in KeyRow /\ keys[k].spent = 0 /\ keys[k].max \in Nat
  <2> SUFFICES ASSUME NEW k \in Key, keys[k] # None
               PROVE keys[k] \in KeyRow /\ keys[k].spent = 0 /\ keys[k].max \in Nat
    OBVIOUS
  <2>1. PICK t \in KeyTemplates : keys[k] = Issued(t, 0)
    BY DEF PInit
  <2>2. t \in KeyRow
    BY RowAssumptions
  <2> QED BY <2>1, <2>2, IssuedFacts
<1>2. KeysOK
  <2>1. keys \in [Key -> KeyRow \cup {None}]
    BY <1>1 DEF PInit
  <2>2. \A k \in Key : keys[k] # None => keys[k].id = k
    BY DEF PInit
  <2> QED BY <1>1, <2>1, <2>2 DEF KeysOK
<1>3. LocalsTyped /\ \A w \in Worker : HoldsRoom(w)
  BY DEF PInit, LocalsTyped, HoldsRoom, Location
<1> QED BY <1>2, <1>3 DEF PIInv, PInit

\* A request arrives.
LEMMA ReceiveKeeps ==
    ASSUME PIInv, NEW w \in Worker, Receive(w) PROVE PIInv'
<1>1. PICK i \in Intents : /\ intent' = [intent EXCEPT ![w] = i]
                           /\ GoTo(w, FirstStage(i.route))
  BY DEF Receive
<1>2. PICK label \in {"session", "key", "execute"} : label = FirstStage(i.route)
  BY RowAssumptions DEF FirstStage, Route
<1>3. /\ pc' = [pc EXCEPT ![w] = label] /\ scope' = [scope EXCEPT ![w] = None]
      /\ UNCHANGED now
  BY <1>1, <1>2 DEF Receive, GoTo, PIInv, LocalsTyped, HoldsRoom
<1>4. KeysOK'
  BY KeysFrame DEF Receive, tables, PIInv
<1> QED BY <1>1, <1>3, <1>4, OneWorkerMoves DEF Location

\* Steps up to the key lookup, and those after the call, only move on.
LEMMA SessionKeeps ==
    ASSUME PIInv, NEW w \in Worker, ReadSession(w) \/ CreateSession(w)
    PROVE  PIInv'
<1>1. /\ pc[w] \in {"session", "newSession"} /\ scope[w] = None
      /\ UNCHANGED <<now, intent, scope>>
  BY DEF ReadSession, CreateSession, world, PIInv, HoldsRoom
<1>2. KeysOK'
  BY KeysFrame DEF ReadSession, CreateSession, tables, PIInv
<1>3. PICK label \in {"newSession", "key", "record"} : pc' = [pc EXCEPT ![w] = label]
  BY DEF ReadSession, CreateSession, Guard, Reject, GoTo
<1> QED BY <1>1, <1>2, <1>3, LabelMoves DEF Location

\* The key lookup: without a scope, rejected, with a fresh window to write, or
\* checked.
LEMMA ReadKeyKeeps ==
    ASSUME PIInv, NEW w \in Worker, ReadKey(w) PROVE PIInv'
<1>1. /\ pc[w] = "key" /\ scope[w] = None /\ intent[w] \in Intents
      /\ UNCHANGED <<now, keys>> /\ now \in Nat
  BY DEF ReadKey, tables, world, PIInv, HoldsRoom, LocalsTyped
<1>2. KeysOK'
  BY <1>1, KeysFrame DEF PIInv
<1>3. PICK row \in Lookup(intent[w]) :
        CASE row = None ->
               GoTo(w, "execute") /\ UNCHANGED <<intent, id, scope, status>>
          [] row # None /\ ~KeyUsable(row, now) -> Refuse(w)
          [] row # None /\ KeyUsable(row, now) /\ WindowElapsed(row, now) ->
               /\ scope' = [scope EXCEPT ![w] = FreshWindow(row, now)]
               /\ GoTo(w, "reset") /\ UNCHANGED <<intent, id, status>>
          [] OTHER -> Check(w, row)
  BY DEF ReadKey
<1>4. row \in KeyRow \cup {None}
  <2>1. intent[w].key \in Key \cup {NoKey}
    <3>1. PICK r \in RawIntents : intent[w] = Resolve(r)
      BY <1>1 DEF Intents
    <3> QED BY <3>1, PipelineAssumption DEF Resolve
  <2> QED BY <2>1 DEF Lookup, PIInv, KeysOK
<1>5. CASE row = None
  <2>1. UNCHANGED <<intent, scope>> /\ GoTo(w, "execute")
    BY <1>3, <1>5
  <2> QED BY <1>1, <1>2, <2>1, LabelMoves DEF GoTo, Location
<1>6. CASE row # None /\ ~KeyUsable(row, now)
  BY <1>1, <1>2, <1>3, <1>6, RefuseKeeps
<1>7. CASE row # None /\ KeyUsable(row, now) /\ WindowElapsed(row, now)
  <2>1. /\ scope' = [scope EXCEPT ![w] = FreshWindow(row, now)]
        /\ pc' = [pc EXCEPT ![w] = "reset"]
        /\ intent' = [intent EXCEPT ![w] = intent[w]]
    BY <1>3, <1>7 DEF GoTo, PIInv, LocalsTyped
  <2>2. FreshWindow(row, now) \in KeyRow /\ FreshWindow(row, now).spent = 0
    BY <1>1, <1>4, <1>7 DEF KeyRow, FreshWindow
  <2> QED BY <1>1, <1>2, <2>1, <2>2, RowAssumptions, OneWorkerMoves DEF Location
<1>8. CASE row # None /\ KeyUsable(row, now) /\ ~WindowElapsed(row, now)
  <2>1. Check(w, row)
    BY <1>3, <1>8
  <2> QED BY <1>1, <1>2, <1>4, <1>8, <2>1, CheckKeeps
<1> QED BY <1>5, <1>6, <1>7, <1>8

\* The fresh window is stored, and the request checked on it.
LEMMA ResetKeeps ==
    ASSUME PIInv, NEW w \in Worker, ResetWindow(w) PROVE PIInv'
<1>1. /\ pc[w] = "reset" /\ intent[w] \in Intents /\ UNCHANGED now
      /\ Upsert(scope[w]) /\ Check(w, scope[w])
  BY DEF ResetWindow, world, PIInv, HoldsRoom
<1>2. PICK row \in KeyRow : row = scope[w] /\ row.spent = 0 /\ row.max \in Nat
  BY <1>1 DEF PIInv, HoldsRoom, LocalsTyped, KeyRow
<1>3. KeysOK'
  BY <1>1, <1>2, UpsertKeysOK DEF PIInv
<1> QED BY <1>1, <1>2, <1>3, CheckKeeps

\* The call leaves the store alone; the room that was checked is kept.
LEMMA ExecuteKeeps ==
    ASSUME PIInv, NEW w \in Worker, Execute(w) PROVE PIInv'
<1>1. /\ pc[w] = "execute" /\ UNCHANGED <<now, intent, scope>>
      /\ pc' = [pc EXCEPT ![w] = "record"]
      /\ scope[w] # None => WithinCap(scope[w], intent[w])
  BY DEF Execute, GoTo, PIInv, HoldsRoom
<1>2. KeysOK'
  BY KeysFrame DEF Execute, tables, PIInv
<1> QED BY <1>1, <1>2, LabelMoves DEF Location

\* The record: the request is charged next, with its room, or ends.
LEMMA RecordKeeps ==
    ASSUME PIInv, NEW w \in Worker, Record(w) PROVE PIInv'
<1>1. pc[w] = "record" /\ UNCHANGED now
  BY DEF Record, world
<1>2. KeysOK'
  BY KeysFrame DEF Record, PIInv
<1>3. CASE ToCharge(w)
  <2>1. /\ pc' = [pc EXCEPT ![w] = "charge"] /\ UNCHANGED <<intent, scope>>
        /\ scope[w] # None /\ WithinCap(scope[w], intent[w])
    BY <1>1, <1>3 DEF Record, ToCharge, GoTo, PIInv, HoldsRoom
  <2> QED BY <1>1, <1>2, <1>3, <2>1, LabelMoves DEF Location
<1>4. CASE ~ToCharge(w)
  BY <1>1, <1>2, <1>4, FinishKeeps DEF Record
<1> QED BY <1>3, <1>4

\* The charge: the sum that is written was checked against the cap that is
\* written with it.
LEMMA ChargeKeeps ==
    ASSUME PIInv, NEW w \in Worker, Charge(w) PROVE PIInv'
<1>1. /\ pc[w] = "charge" /\ Finish(w) /\ UNCHANGED now
  BY DEF Charge, world
<1>2. /\ scope[w] \in KeyRow /\ intent[w] \in Intents
      /\ WithinCap(scope[w], intent[w])
  BY <1>1 DEF PIInv, HoldsRoom, LocalsTyped
<1>3. KeysOK'
  <2>1. CASE intent[w].spend = 0
    BY <2>1, KeysFrame DEF Charge, PIInv
  <2>2. CASE intent[w].spend # 0
    <3>1. PICK row \in KeyRow : row = Charged(scope[w], intent[w])
      BY <1>2, ChargedFacts
    <3>2. row.spent = scope[w].spent + intent[w].spend /\ row.max = scope[w].max
      BY <1>2, <3>1, ChargedFacts
    <3>3. row.spent <= row.max
      BY <1>2, <3>2 DEF WithinCap
    <3>4. Upsert(row)
      BY <2>2, <3>1 DEF Charge
    <3> QED BY <3>3, <3>4, UpsertKeysOK DEF PIInv
  <2> QED BY <2>1, <2>2
<1> QED BY <1>1, <1>3, FinishKeeps

\* What happens around requests.
LEMMA AroundKeeps ==
    ASSUME PIInv, Crash \/ IssueKey \/ PutSession \/ Tick PROVE PIInv'
<1>1. CASE Crash
  <2>1. KeysOK' /\ UNCHANGED now
    BY <1>1, KeysFrame DEF Crash, tables, world, PIInv
  <2>2. LocalsTyped' /\ \A w \in Worker : HoldsRoom(w)'
    BY <1>1 DEF Crash, LocalsTyped, HoldsRoom, Location
  <2> QED BY <2>1, <2>2 DEF PIInv
<1>2. CASE IssueKey
  <2>1. PICK t \in KeyTemplates : Upsert(Issued(t, now))
    BY <1>2 DEF IssueKey
  <2>2. PICK row \in KeyRow : row = Issued(t, now) /\ row.spent = 0 /\ row.max \in Nat
    BY RowAssumptions, IssuedFacts DEF PIInv
  <2>3. KeysOK'
    BY <2>1, <2>2, UpsertKeysOK DEF PIInv
  <2> QED BY <1>2, <2>3 DEF IssueKey, locals, world, PIInv, LocalsTyped, HoldsRoom
<1>3. CASE PutSession
  <2>1. KeysOK'
    BY <1>3, KeysFrame DEF PutSession, PIInv
  <2> QED BY <1>3, <2>1 DEF PutSession, locals, world, PIInv, LocalsTyped, HoldsRoom
<1>4. CASE Tick
  <2>1. KeysOK'
    BY <1>4, KeysFrame DEF Tick, tables, PIInv
  <2>2. now' \in Nat
    BY <1>4 DEF Tick, PIInv
  <2> QED BY <1>4, <2>1, <2>2 DEF Tick, locals, PIInv, LocalsTyped, HoldsRoom
<1> QED BY <1>1, <1>2, <1>3, <1>4

\* The invariant is inductive.
LEMMA NextPIInv == PIInv /\ [PNext]_pvars => PIInv'
<1> SUFFICES ASSUME PIInv, [PNext]_pvars PROVE PIInv'
  OBVIOUS
<1>1. CASE UNCHANGED pvars
  BY <1>1 DEF pvars, tables, locals, world, PIInv, KeysOK, LocalsTyped, HoldsRoom
<1>2. ASSUME NEW w \in Worker, Step(w) PROVE PIInv'
  <2>1. CASE Throw(w)
    <3>1. KeysOK' /\ UNCHANGED now /\ Finish(w)
      BY <2>1, KeysFrame DEF Throw, tables, PIInv
    <3> QED BY <3>1, FinishKeeps
  <2> QED BY <1>2, <2>1, ReceiveKeeps, SessionKeeps, ReadKeyKeeps, ResetKeeps,
             ExecuteKeeps, RecordKeeps, ChargeKeeps DEF Step
<1>3. CASE Crash \/ IssueKey \/ PutSession \/ Tick
  BY <1>3, AroundKeeps
<1> QED BY <1>1, <1>2, <1>3 DEF PNext

\* No stored row ever shows more spent than its cap, for any number of
\* concurrent requests, admin calls, thrown errors and crashes.
THEOREM StoredSpendWithinCap == PSpec => []SpentWithinCap
<1>1. PIInv => SpentWithinCap
  BY DEF PIInv, KeysOK, SpentWithinCap
<1> QED BY <1>1, InitPIInv, NextPIInv, PTL DEF PSpec

-----------------------------------------------------------------------------
(* Calls go out only as some issue of their key allows.  An admin may issue *)
(* the key anew, or revoke it, between the check and the call; a charge    *)
(* may bring a replaced row back: all of them are issues, with other sums. *)

\* A row says what template t says, but for its agent, its sum and its window.
SameIssue(t, row) ==
    /\ t.id = row.id /\ t.active = row.active /\ t.max = row.max
    /\ t.targets = row.targets /\ t.selectors = row.selectors

FromIssue(row) == \E t \in KeyTemplates : SameIssue(t, row)

StoredIssued == \A k \in Key : keys[k] # None => FromIssue(keys[k])

\* The scope a request goes on with was issued, active, and allows the call.
HoldsIssued(w) ==
    scope[w] # None =>
        /\ FromIssue(scope[w]) /\ scope[w].active
        /\ pc[w] = "execute" => CallAllowed(scope[w], intent[w])

IssuedInv ==
    /\ PIInv
    /\ StoredIssued
    /\ \A w \in Worker : HoldsIssued(w)
    /\ BroadcastWithinIssued

\* Sums, windows and agents do not matter to what was issued.
Variant(new, row) ==
    /\ new.id = row.id /\ new.active = row.active /\ new.max = row.max
    /\ new.targets = row.targets /\ new.selectors = row.selectors

LEMMA VariantIssued ==
    ASSUME NEW row, NEW new, FromIssue(row), Variant(new, row)
    PROVE  FromIssue(new)
BY DEF FromIssue, SameIssue, Variant

\* Writing an issued row leaves only issued rows in the store.
LEMMA UpsertIssued ==
    ASSUME KeysOK, StoredIssued, NEW row \in KeyRow, FromIssue(row), Upsert(row)
    PROVE  StoredIssued'
<1>1. PICK new : keys' = [keys EXCEPT ![row.id] = new] /\ FromIssue(new)
  <2>1. row.id \in Key
    BY DEF KeyRow
  <2>2. CASE keys[row.id] = None
    BY <2>2 DEF Upsert
  <2>3. CASE keys[row.id] # None
    <3>1. PICK agent \in Agent : agent = keys[row.id].agent
      BY <2>1, <2>3 DEF KeysOK, KeyRow
    <3>2. Variant([row EXCEPT !.agent = agent], row)
      BY DEF KeyRow, Variant
    <3>3. FromIssue([row EXCEPT !.agent = agent])
      BY <3>2, VariantIssued
    <3> QED BY <2>3, <3>1, <3>3 DEF Upsert
  <2> QED BY <2>2, <2>3
<1> QED BY <1>1 DEF KeysOK, StoredIssued

\* A step of one request leaves what the others hold as it was.
LEMMA OneHolderMoves ==
    ASSUME IssuedInv, NEW w \in Worker, NEW label, NEW i, NEW row,
           pc' = [pc EXCEPT ![w] = label],
           intent' = [intent EXCEPT ![w] = i],
           scope' = [scope EXCEPT ![w] = row],
           row # None => FromIssue(row) /\ row.active
                           /\ (label = "execute" => CallAllowed(row, i))
    PROVE  \A v \in Worker : HoldsIssued(v)'
<1>1. HoldsIssued(w)'
  <2>1. pc'[w] = label /\ intent'[w] = i /\ scope'[w] = row
    BY DEF IssuedInv, PIInv, LocalsTyped
  <2> QED BY <2>1 DEF HoldsIssued
<1>2. ASSUME NEW v \in Worker, v # w PROVE HoldsIssued(v)'
  <2>1. pc'[v] = pc[v] /\ intent'[v] = intent[v] /\ scope'[v] = scope[v]
    BY <1>2 DEF IssuedInv, PIInv, LocalsTyped
  <2>2. HoldsIssued(v)
    BY DEF IssuedInv
  <2> QED BY <2>1, <2>2 DEF HoldsIssued
<1> QED BY <1>1, <1>2

LEMMA FinishHolds ==
    ASSUME IssuedInv, NEW w \in Worker, Finish(w)
    PROVE  \A v \in Worker : HoldsIssued(v)'
BY OneHolderMoves DEF Finish, GoTo

\* What a request holds when it is not about to send does not depend on where
\* it waits.
LEMMA WaiterHolds ==
    ASSUME IssuedInv, NEW w \in Worker, NEW label,
           pc' = [pc EXCEPT ![w] = label], UNCHANGED <<intent, scope>>,
           label = "execute" => scope[w] = None
    PROVE  \A v \in Worker : HoldsIssued(v)'
<1>1. ASSUME NEW v \in Worker PROVE HoldsIssued(v)'
  <2>1. HoldsIssued(v) /\ (pc'[v] = "execute" => pc[v] = "execute" \/ scope[v] = None)
    BY DEF IssuedInv, PIInv, LocalsTyped
  <2> QED BY <2>1 DEF HoldsIssued
<1> QED BY <1>1

\* A refused request has no scope to go on with.
LEMMA RefuseHolds ==
    ASSUME IssuedInv, NEW w \in Worker, Refuse(w)
    PROVE  \A v \in Worker : HoldsIssued(v)'
<1>1. CASE intent[w].route = "intents"
  <2>1. /\ pc' = [pc EXCEPT ![w] = "record"]
        /\ intent' = [intent EXCEPT ![w] = intent[w]]
        /\ scope' = [scope EXCEPT ![w] = None]
    BY <1>1 DEF Refuse, Reject, GoTo, IssuedInv, PIInv, LocalsTyped
  <2> QED BY <2>1, OneHolderMoves
<1>2. CASE intent[w].route # "intents"
  BY <1>2, FinishHolds DEF Refuse
<1> QED BY <1>1, <1>2

\* Check lets the request go on only with a row that allows its call.
LEMMA CheckHolds ==
    ASSUME IssuedInv, NEW w \in Worker, NEW row, FromIssue(row), row.active,
           Check(w, row)
    PROVE  \A v \in Worker : HoldsIssued(v)'
<1>1. CASE CallAllowed(row, intent[w]) /\ WithinCap(row, intent[w])
  <2>1. /\ pc' = [pc EXCEPT ![w] = "execute"]
        /\ intent' = [intent EXCEPT ![w] = intent[w]]
        /\ scope' = [scope EXCEPT ![w] = row]
    BY <1>1 DEF Check, GoTo, IssuedInv, PIInv, LocalsTyped
  <2> QED BY <1>1, <2>1, OneHolderMoves
<1>2. CASE ~(CallAllowed(row, intent[w]) /\ WithinCap(row, intent[w]))
  BY <1>2, RefuseHolds DEF Check
<1> QED BY <1>1, <1>2

\* A call that goes out was allowed by an issue of its key, with room for it.
LEMMA BroadcastIssued ==
    ASSUME IssuedInv, NEW w \in Worker, pc[w] = "execute",
           UNCHANGED broadcasts \/ Broadcast(w)
    PROVE  BroadcastWithinIssued'
<1>1. CASE UNCHANGED broadcasts
  BY <1>1 DEF IssuedInv, BroadcastWithinIssued
<1>2. CASE Broadcast(w)
  <2>1. PICK sent : /\ sent.intent = intent[w] /\ sent.scope = scope[w]
                    /\ broadcasts' = broadcasts \cup {sent}
    BY <1>2 DEF Broadcast
  <2>2. ASSUME sent.scope # None
        PROVE  \E t \in KeyTemplates :
                 /\ t.id = sent.scope.id /\ t.active /\ sent.intent.spend <= t.max
                 /\ Lists(t.targets, sent.intent.to)
                 /\ sent.intent.selector = NoSelector
                       \/ Lists(t.selectors, sent.intent.selector)
    <3>1. /\ scope[w] \in KeyRow /\ intent[w] \in Intents /\ scope[w].active
          /\ CallAllowed(scope[w], intent[w]) /\ WithinCap(scope[w], intent[w])
          /\ FromIssue(scope[w])
      BY <2>1, <2>2 DEF IssuedInv, PIInv, LocalsTyped, HoldsRoom, HoldsIssued
    <3>2. PICK t \in KeyTemplates : SameIssue(t, scope[w])
      BY <3>1 DEF FromIssue
    <3>3. intent[w].spend <= scope[w].max
      BY <3>1, RowAssumptions DEF WithinCap, KeyRow
    <3> QED BY <2>1, <3>1, <3>2, <3>3 DEF SameIssue, CallAllowed
  <2> QED BY <2>1, <2>2 DEF IssuedInv, BroadcastWithinIssued
<1> QED BY <1>1, <1>2

\* No request, admin call or failure makes the store or a request hold a row
\* that was not issued, or sends a call that no issue allowed.
LEMMA ReceiveHolds ==
    ASSUME IssuedInv, NEW w \in Worker, Receive(w)
    PROVE  \A v \in Worker : HoldsIssued(v)'
<1>1. PICK i, label : /\ intent' = [intent EXCEPT ![w] = i]
                      /\ pc' = [pc EXCEPT ![w] = label]
  BY DEF Receive, GoTo
<1>2. scope' = [scope EXCEPT ![w] = None]
  BY DEF Receive, IssuedInv, PIInv, LocalsTyped, HoldsRoom
<1> QED BY <1>1, <1>2, OneHolderMoves

\* The row looked up is one of the store's, or none.
LEMMA LookupFacts ==
    ASSUME IssuedInv, NEW i \in Intents, NEW row \in Lookup(i), row # None
    PROVE  row \in KeyRow /\ FromIssue(row)
<1>1. i.key \in Key \cup {NoKey}
  <2>1. PICK r \in RawIntents : i = Resolve(r)
    BY DEF Intents
  <2> QED BY <2>1, PipelineAssumption DEF Resolve
<1>2. PICK k \in Key : row = keys[k]
  BY <1>1 DEF Lookup
<1> QED BY <1>2 DEF IssuedInv, PIInv, KeysOK, StoredIssued

LEMMA ReadKeyHolds ==
    ASSUME IssuedInv, NEW w \in Worker, ReadKey(w)
    PROVE  \A v \in Worker : HoldsIssued(v)'
<1>1. pc[w] = "key" /\ scope[w] = None /\ intent[w] \in Intents /\ now \in Nat
  BY DEF ReadKey, IssuedInv, PIInv, HoldsRoom
<1>2. PICK row \in Lookup(intent[w]) :
        CASE row = None ->
               GoTo(w, "execute") /\ UNCHANGED <<intent, id, scope, status>>
          [] row # None /\ ~KeyUsable(row, now) -> Refuse(w)
          [] row # None /\ KeyUsable(row, now) /\ WindowElapsed(row, now) ->
               /\ scope' = [scope EXCEPT ![w] = FreshWindow(row, now)]
               /\ GoTo(w, "reset") /\ UNCHANGED <<intent, id, status>>
          [] OTHER -> Check(w, row)
  BY DEF ReadKey
<1>3. row # None => row \in KeyRow /\ FromIssue(row)
  BY <1>1, LookupFacts
<1>4. CASE row = None
  <2>1. UNCHANGED <<intent, scope>> /\ GoTo(w, "execute")
    BY <1>2, <1>4
  <2> QED BY <1>1, <2>1, WaiterHolds DEF GoTo
<1>5. CASE row # None /\ ~KeyUsable(row, now)
  BY <1>2, <1>5, RefuseHolds
<1>6. CASE row # None /\ KeyUsable(row, now) /\ WindowElapsed(row, now)
  <2>1. PICK fresh : fresh = FreshWindow(row, now)
    OBVIOUS
  <2>2. /\ scope' = [scope EXCEPT ![w] = fresh]
        /\ pc' = [pc EXCEPT ![w] = "reset"]
        /\ intent' = [intent EXCEPT ![w] = intent[w]]
    BY <1>2, <1>6, <2>1 DEF GoTo, IssuedInv, PIInv, LocalsTyped
  <2>3. Variant(fresh, row) /\ row.active
    BY <1>1, <1>3, <1>6, <2>1 DEF KeyUsable, KeyRow, FreshWindow, Variant
  <2>4. FromIssue(fresh) /\ fresh.active
    BY <1>3, <1>6, <2>3, VariantIssued DEF Variant
  <2> QED BY <2>2, <2>4, OneHolderMoves
<1>7. CASE row # None /\ KeyUsable(row, now) /\ ~WindowElapsed(row, now)
  <2>1. Check(w, row)
    BY <1>2, <1>7
  <2> QED BY <1>3, <1>7, <2>1, CheckHolds DEF KeyUsable
<1> QED BY <1>4, <1>5, <1>6, <1>7

\* The steps that leave store and chain alone.
LEMMA QuietKeeps ==
    ASSUME IssuedInv, PIInv', UNCHANGED <<keys, broadcasts>>,
           \A v \in Worker : HoldsIssued(v)'
    PROVE  IssuedInv'
BY DEF IssuedInv, StoredIssued, BroadcastWithinIssued

\* The step that resets a window writes and checks the row it holds.
LEMMA ResetIssued ==
    ASSUME IssuedInv, PIInv', NEW w \in Worker, ResetWindow(w) PROVE IssuedInv'
<1>1. /\ scope[w] \in KeyRow /\ FromIssue(scope[w]) /\ scope[w].active
      /\ Upsert(scope[w]) /\ Check(w, scope[w]) /\ UNCHANGED broadcasts
  BY DEF ResetWindow, world, IssuedInv, PIInv, LocalsTyped, HoldsRoom, HoldsIssued
<1>2. StoredIssued'
  BY <1>1, UpsertIssued DEF IssuedInv, PIInv
<1>3. \A v \in Worker : HoldsIssued(v)'
  BY <1>1, CheckHolds
<1> QED BY <1>1, <1>2, <1>3 DEF IssuedInv, BroadcastWithinIssued

\* The step that charges writes the row it holds, or nothing.
LEMMA ChargeIssued ==
    ASSUME IssuedInv, PIInv', NEW w \in Worker, Charge(w) PROVE IssuedInv'
<1>1. /\ scope[w] \in KeyRow /\ intent[w] \in Intents /\ FromIssue(scope[w])
      /\ Finish(w) /\ UNCHANGED broadcasts
  BY DEF Charge, world, IssuedInv, PIInv, LocalsTyped, HoldsRoom, HoldsIssued
<1>2. StoredIssued'
  <2>1. CASE intent[w].spend = 0
    BY <2>1 DEF Charge, IssuedInv, StoredIssued
  <2>2. CASE intent[w].spend # 0
    <3>1. PICK row \in KeyRow : row = Charged(scope[w], intent[w])
      BY <1>1, ChargedFacts
    <3>2. Variant(row, scope[w])
      BY <1>1, <3>1 DEF KeyRow, Charged, Variant
    <3>3. Upsert(row) /\ FromIssue(row)
      BY <1>1, <2>2, <3>1, <3>2, VariantIssued DEF Charge
    <3> QED BY <3>3, UpsertIssued DEF IssuedInv, PIInv
  <2> QED BY <2>1, <2>2
<1> QED BY <1>1, <1>2, FinishHolds DEF IssuedInv, BroadcastWithinIssued

\* A key issued is one of the templates, with a new start.
LEMMA IssueIssued ==
    ASSUME IssuedInv, PIInv', IssueKey PROVE IssuedInv'
<1>1. PICK t \in KeyTemplates : Upsert(Issued(t, now))
  BY DEF IssueKey
<1>2. Issued(t, now) \in KeyRow /\ Variant(Issued(t, now), t)
  BY RowAssumptions DEF IssuedInv, PIInv, KeyRow, Issued, Variant
<1>3. FromIssue(Issued(t, now))
  BY <1>2 DEF FromIssue, SameIssue, Variant
<1>4. StoredIssued'
  BY <1>1, <1>2, <1>3, UpsertIssued DEF IssuedInv, PIInv
<1>5. UNCHANGED <<pc, intent, scope, broadcasts>>
  BY DEF IssueKey, locals, world
<1> QED BY <1>4, <1>5 DEF IssuedInv, HoldsIssued, BroadcastWithinIssued

LEMMA StepIssued ==
    ASSUME IssuedInv, PIInv', NEW w \in Worker, Step(w) PROVE IssuedInv'
<1>1. CASE Receive(w)
  BY <1>1, ReceiveHolds, QuietKeeps DEF Receive, tables
<1>2. CASE ReadSession(w) \/ CreateSession(w)
  <2>1. UNCHANGED <<keys, broadcasts, intent, scope>>
    BY <1>2 DEF ReadSession, CreateSession, tables, world
  <2>2. PICK label \in {"newSession", "key", "record"} : pc' = [pc EXCEPT ![w] = label]
    BY <1>2 DEF ReadSession, CreateSession, Guard, Reject, GoTo
  <2>3. label # "execute"
    BY <2>2
  <2> QED BY <2>1, <2>2, <2>3, WaiterHolds, QuietKeeps
<1>3. CASE ReadKey(w)
  BY <1>3, ReadKeyHolds, QuietKeeps DEF ReadKey, tables, world
<1>4. CASE Execute(w)
  <2>1. /\ pc[w] = "execute" /\ UNCHANGED <<keys, intent, scope>>
        /\ pc' = [pc EXCEPT ![w] = "record"]
        /\ UNCHANGED broadcasts \/ Broadcast(w)
    BY <1>4 DEF Execute, GoTo, tables
  <2> QED BY <2>1, WaiterHolds, BroadcastIssued DEF IssuedInv, StoredIssued
<1>5. CASE Record(w)
  <2>1. UNCHANGED <<keys, broadcasts>>
    BY <1>5 DEF Record, world
  <2>2. CASE ToCharge(w)
    <3>1. pc' = [pc EXCEPT ![w] = "charge"] /\ UNCHANGED <<intent, scope>>
      BY <1>5, <2>2 DEF Record, GoTo
    <3> QED BY <2>1, <3>1, WaiterHolds, QuietKeeps
  <2>3. CASE ~ToCharge(w)
    BY <1>5, <2>1, <2>3, FinishHolds, QuietKeeps DEF Record
  <2> QED BY <2>2, <2>3
<1>6. CASE Throw(w)
  <2>1. Finish(w) /\ UNCHANGED keys
    BY <1>6 DEF Throw, tables
  <2>2. BroadcastWithinIssued'
    <3>1. CASE UNCHANGED broadcasts
      BY <3>1 DEF IssuedInv, BroadcastWithinIssued
    <3>2. CASE pc[w] = "execute" /\ Broadcast(w)
      BY <3>2, BroadcastIssued
    <3> QED BY <1>6, <3>1, <3>2 DEF Throw
  <2> QED BY <2>1, <2>2, FinishHolds DEF IssuedInv, StoredIssued
<1> QED BY <1>1, <1>2, <1>3, <1>4, <1>5, <1>6, ResetIssued, ChargeIssued DEF Step

LEMMA NextIssuedInv == IssuedInv /\ [PNext]_pvars => IssuedInv'
<1> SUFFICES ASSUME IssuedInv, [PNext]_pvars PROVE IssuedInv'
  OBVIOUS
<1>0. PIInv'
  BY NextPIInv DEF IssuedInv
<1>1. CASE UNCHANGED pvars
  BY <1>0, <1>1
     DEF pvars, tables, locals, world, IssuedInv, StoredIssued, HoldsIssued,
         BroadcastWithinIssued
<1>2. CASE Crash
  <2>1. UNCHANGED <<keys, broadcasts>> /\ scope' = [w \in Worker |-> None]
    BY <1>2 DEF Crash, tables, world
  <2>2. \A w \in Worker : HoldsIssued(w)'
    BY <2>1 DEF HoldsIssued
  <2> QED BY <1>0, <2>1, <2>2, QuietKeeps
<1>3. CASE PutSession \/ Tick
  <2>1. UNCHANGED <<keys, broadcasts, pc, intent, scope>>
    BY <1>3 DEF PutSession, Tick, tables, locals, world
  <2>2. \A w \in Worker : HoldsIssued(w)'
    BY <2>1 DEF IssuedInv, HoldsIssued
  <2> QED BY <1>0, <2>1, <2>2, QuietKeeps
<1> QED BY <1>0, <1>1, <1>2, <1>3, StepIssued, IssueIssued DEF PNext

\* At first every row is a fresh issue, and nobody holds one.
LEMMA InitIssuedInv == PInit => IssuedInv
<1> SUFFICES ASSUME PInit PROVE IssuedInv
  OBVIOUS
<1>1. ASSUME NEW k \in Key, keys[k] # None PROVE FromIssue(keys[k])
  <2>1. PICK t \in KeyTemplates : keys[k] = Issued(t, 0)
    BY <1>1 DEF PInit
  <2>2. Variant(Issued(t, 0), t)
    BY RowAssumptions DEF KeyRow, Issued, Variant
  <2> QED BY <2>1, <2>2 DEF FromIssue, SameIssue, Variant
<1> QED BY <1>1, InitPIInv
      DEF PInit, IssuedInv, StoredIssued, HoldsIssued, BroadcastWithinIssued

\* A call broadcast under a key is one that some issue of this key allowed, for
\* any interleaving of requests with reissues, revocations, resets, charges of
\* rows read long ago, thrown errors and crashes.
THEOREM SentOnlyAsIssued == PSpec => []BroadcastWithinIssued
<1>1. IssuedInv => BroadcastWithinIssued
  BY DEF IssuedInv
<1> QED BY <1>1, InitIssuedInv, NextIssuedInv, PTL DEF PSpec

-----------------------------------------------------------------------------
(* The audit trail.  A request's id is its own for good, and what its status *)
(* says at the record is what became of its call.                          *)

\* Before its call is decided on, a request has left nothing on chain.
Before == {"session", "newSession", "key", "reset", "execute"}

\* Every id that was written or sent is one of a request received.
Numbered ==
    /\ \A r \in records : r.id \in 1..requests
    /\ \A b \in broadcasts : b.id \in 1..requests

Sent(n) == \E b \in broadcasts : b.id = n

\* What the tables and the chain know of a request under way.
Accounted(w) ==
    pc[w] # "idle" =>
        /\ id[w] \in 1..requests
        /\ \A v \in Worker : v # w /\ pc[v] # "idle" => id[v] # id[w]
        /\ pc[w] # "charge" => \A r \in records : r.id # id[w]
        /\ pc[w] \in Before => ~Sent(id[w])
        /\ pc[w] = "record" /\ status[w] \in {"rejected", "simulated"} => ~Sent(id[w])
        /\ pc[w] = "record" /\ status[w] = "submitted" /\ Mode = "live" => Sent(id[w])

AuditInv ==
    /\ PIInv /\ PTypeOK
    /\ Numbered /\ RecordsTruthful
    /\ \A w \in Worker : Accounted(w)

\* One request moves to label with id n and status st; records R and
\* broadcasts B, both its own, are added.
Moves(w, label, n, st, R, B) ==
    /\ pc' = [pc EXCEPT ![w] = label] /\ id' = [id EXCEPT ![w] = n]
    /\ status' = [status EXCEPT ![w] = st]
    /\ records' = records \cup R /\ broadcasts' = broadcasts \cup B
    /\ label \in Location /\ n \in 0..MaxRequests /\ st \in Status
    /\ requests' \in requests..MaxRequests
    /\ \A r \in R : /\ r \in [id: 1..MaxRequests, status: Status]
                     /\ r.id = id[w] /\ r.status = status[w]
                     /\ pc[w] = "record" /\ label \in {"idle", "charge"}
    /\ \A b \in B : /\ b \in [id: 1..MaxRequests, intent: Intents,
                                at: 0..MaxTime, scope: KeyRow \cup {None}]
                     /\ b.id = id[w] /\ ~b.intent.dryRun
                     /\ pc[w] = "execute" /\ label \in {"idle", "record"}

\* Its id is new or the one it has, or it ends; its call is decided on before
\* it is recorded.
Proper(w, label, n, st, B) ==
    /\ \/ label = "idle"
       \/ pc[w] # "idle" /\ n = id[w]
       \/ pc[w] = "idle" /\ n = requests + 1 /\ n <= requests' /\ label \in Before
    /\ label \in Before => pc[w] \in Before \cup {"idle"}
    /\ label = "charge" => pc[w] = "record"
    /\ label = "record" =>
          /\ pc[w] \in Before
          /\ st \in {"rejected", "simulated"} => B = {}
          /\ st = "submitted" /\ Mode = "live" => B # {}

\* The records stay truthful: a request is recorded once, after its call.
LEMMA MoveTruthful ==
    ASSUME AuditInv, NEW w \in Worker, NEW label, NEW n, NEW st, NEW R, NEW B,
           Moves(w, label, n, st, R, B)
    PROVE  RecordsTruthful'
<1>1. ASSUME NEW r \in records', r.status \in {"rejected", "simulated"},
             NEW b \in broadcasts'
      PROVE  r.id # b.id
  <2>1. CASE r \in records /\ b \in broadcasts
    BY <1>1, <2>1 DEF AuditInv, RecordsTruthful
  <2>2. CASE r \in R /\ b \in broadcasts
    BY <1>1, <2>2 DEF Moves, AuditInv, Accounted, Sent
  <2>3. CASE b \in B
    <3>1. b.id = id[w] /\ pc[w] = "execute"
      BY <2>3 DEF Moves
    <3>2. r \in records
      BY <1>1, <3>1 DEF Moves
    <3> QED BY <3>1, <3>2 DEF AuditInv, Accounted
  <2> QED BY <1>1, <2>1, <2>2, <2>3 DEF Moves
<1>2. ASSUME NEW r \in records', Mode = "live", r.status = "submitted"
      PROVE  \E b \in broadcasts' : b.id = r.id
  <2>1. CASE r \in records
    BY <1>2, <2>1 DEF Moves, AuditInv, RecordsTruthful
  <2>2. CASE r \in R
    BY <1>2, <2>2 DEF Moves, AuditInv, Accounted, Sent
  <2> QED BY <1>2, <2>1, <2>2 DEF Moves
<1>3. \A b \in broadcasts' : ~b.intent.dryRun
  BY DEF Moves, AuditInv, RecordsTruthful
<1> QED BY <1>1, <1>2, <1>3 DEF RecordsTruthful

\* Ids stay within what was received, and everyone's account stays right.
LEMMA MoveAccounted ==
    ASSUME AuditInv, NEW w \in Worker, NEW label, NEW n, NEW st, NEW R, NEW B,
           Moves(w, label, n, st, R, B), Proper(w, label, n, st, B)
    PROVE  Numbered' /\ \A v \in Worker : Accounted(v)'
<1>0. /\ pc'[w] = label /\ id'[w] = n /\ status'[w] = st
      /\ \A v \in Worker : v # w =>
            pc'[v] = pc[v] /\ id'[v] = id[v] /\ status'[v] = status[v]
      /\ requests \in Nat /\ requests' \in Nat /\ requests <= requests'
      /\ n \in Nat /\ id \in [Worker -> Nat]
      /\ records' = records \cup R /\ broadcasts' = broadcasts \cup B
      /\ \A x \in R \cup B : x.id = id[w] /\ pc[w] \in {"record", "execute"}
  BY PipelineAssumption DEF Moves, AuditInv, PTypeOK
<1>1. Numbered'
  BY <1>0 DEF AuditInv, Numbered, Accounted
<1>2. ASSUME NEW v \in Worker, pc'[v] # "idle"
      PROVE  /\ id'[v] \in 1..requests'
             /\ \A u \in Worker : u # v /\ pc'[u] # "idle" => id'[u] # id'[v]
  <2>1. \A u \in Worker \ {w} : pc[u] # "idle" => id[u] \in 1..requests
    BY DEF AuditInv, Accounted
  <2>2. \A u, x \in Worker :
          u # x /\ pc[u] # "idle" /\ pc[x] # "idle" => id[u] # id[x]
    BY DEF AuditInv, Accounted
  <2>3. pc[w] # "idle" => id[w] \in 1..requests
    BY DEF AuditInv, Accounted
  <2> QED BY <1>0, <1>2, <2>1, <2>2, <2>3 DEF Proper
<1>3. ASSUME NEW v \in Worker, v # w, pc[v] # "idle"
      PROVE  /\ pc[v] # "charge" => \A r \in records' : r.id # id[v]
             /\ (\E b \in broadcasts' : b.id = id[v]) <=> Sent(id[v])
  BY <1>0, <1>3 DEF AuditInv, Accounted, Sent
<1>4. ASSUME label \notin {"idle", "charge"}
      PROVE  \A r \in records' : r.id # n
  <2>1. R = {}
    BY <1>4 DEF Moves
  <2>2. \/ pc[w] \in Before /\ n = id[w]
        \/ n = requests + 1
    BY <1>4 DEF Moves, Proper, Location, Before
  <2> QED BY <1>0, <2>1, <2>2 DEF AuditInv, Accounted, Numbered, Before
<1>5. ASSUME label \in Before
      PROVE  \A b \in broadcasts' : b.id # n
  <2>1. B = {}
    BY <1>5 DEF Moves, Before
  <2> QED BY <1>0, <1>5, <2>1 DEF Proper, AuditInv, Accounted, Numbered, Sent, Before
<1>6. ASSUME label = "record"
      PROVE  /\ st \in {"rejected", "simulated"} => \A b \in broadcasts' : b.id # n
             /\ st = "submitted" /\ Mode = "live" => \E b \in broadcasts' : b.id = n
  <2>1. n = id[w] /\ pc[w] \in Before /\ ~Sent(n)
    BY <1>6 DEF Proper, AuditInv, Accounted, Before
  <2> QED BY <1>0, <1>6, <2>1 DEF Proper, Sent
<1>7. ASSUME NEW v \in Worker, v # w PROVE Accounted(v)'
  <2>1. pc[v] # "idle" => Accounted(v)
    BY DEF AuditInv
  <2> QED BY <1>0, <1>2, <1>3, <1>7, <2>1 DEF Accounted, Sent
<1>8. Accounted(w)'
  BY <1>0, <1>2, <1>4, <1>5, <1>6 DEF Accounted, Sent, Before
<1> QED BY <1>1, <1>7, <1>8

LEMMA MoveKeeps ==
    ASSUME AuditInv, PIInv', UNCHANGED now,
           sessions' \in [Session -> SessionRow \cup {None}],
           NEW w \in Worker, NEW label, NEW n, NEW st, NEW R, NEW B,
           Moves(w, label, n, st, R, B), Proper(w, label, n, st, B)
    PROVE  AuditInv'
<1>1. /\ keys' \in [Key -> KeyRow \cup {None}]
      /\ pc' \in [Worker -> Location]
      /\ intent' \in [Worker -> Intents \cup {None}]
      /\ scope' \in [Worker -> KeyRow \cup {None}]
  BY DEF PIInv, KeysOK, LocalsTyped
<1>2. /\ records' \subseteq [id: 1..MaxRequests, status: Status]
      /\ broadcasts' \subseteq [id: 1..MaxRequests, intent: Intents,
                                at: 0..MaxTime, scope: KeyRow \cup {None}]
  BY DEF Moves, AuditInv, PTypeOK
<1>3. id' \in [Worker -> 0..MaxRequests] /\ status' \in [Worker -> Status]
  BY DEF Moves, AuditInv, PTypeOK
<1>4. now' \in 0..MaxTime /\ requests' \in 0..MaxRequests
  BY PipelineAssumption DEF Moves, AuditInv, PTypeOK
<1>5. PTypeOK'
  BY <1>1, <1>2, <1>3, <1>4 DEF PTypeOK
<1> QED BY <1>5, MoveTruthful, MoveAccounted DEF AuditInv

\* An answered request gives its id up.
LEMMA FinishMoves ==
    ASSUME AuditInv, NEW w \in Worker, Finish(w), UNCHANGED requests,
           NEW R, NEW B, records' = records \cup R, broadcasts' = broadcasts \cup B,
           R = {} \/ (pc[w] = "record" /\ R = {[id |-> id[w], status |-> status[w]]}),
           B = {} \/ (pc[w] = "execute" /\ ~intent[w].dryRun /\ B =
              {[id |-> id[w], intent |-> intent[w], at |-> now, scope |-> scope[w]]})
    PROVE  /\ Moves(w, "idle", 0, "none", R, B)
           /\ Proper(w, "idle", 0, "none", B)
<1>1. /\ pc' = [pc EXCEPT ![w] = "idle"] /\ id' = [id EXCEPT ![w] = 0]
      /\ status' = [status EXCEPT ![w] = "none"]
      /\ requests' \in requests..MaxRequests /\ 0 \in 0..MaxRequests
  BY PipelineAssumption DEF Finish, GoTo, AuditInv, PTypeOK
<1>2. \A r \in R : /\ r \in [id: 1..MaxRequests, status: Status]
                   /\ r.id = id[w] /\ r.status = status[w] /\ pc[w] = "record"
  BY DEF AuditInv, PTypeOK, Accounted
<1>3. \A b \in B : /\ b \in [id: 1..MaxRequests, intent: Intents,
                              at: 0..MaxTime, scope: KeyRow \cup {None}]
                   /\ b.id = id[w] /\ ~b.intent.dryRun /\ pc[w] = "execute"
  <2>1. pc[w] = "execute" =>
          /\ id[w] \in 1..MaxRequests /\ intent[w] \in Intents /\ now \in 0..MaxTime
          /\ scope[w] \in KeyRow \cup {None}
    BY DEF AuditInv, PIInv, HoldsRoom, PTypeOK, Accounted
  <2> QED BY <2>1
<1> QED BY <1>1, <1>2, <1>3 DEF Moves, Proper, Location, Status, Before

\* On the way to its call a request keeps its id and leaves nothing behind.
LEMMA WaitMoves ==
    ASSUME AuditInv, NEW w \in Worker, pc[w] \in Before, NEW label, NEW st,
           UNCHANGED <<id, records, broadcasts, requests>>,
           pc' = [pc EXCEPT ![w] = label], status' = [status EXCEPT ![w] = st],
           \/ label \in Before /\ st = status[w]
           \/ label = "record" /\ st = "rejected"
    PROVE  Moves(w, label, id[w], st, {}, {}) /\ Proper(w, label, id[w], st, {})
<1>1. /\ id' = [id EXCEPT ![w] = id[w]] /\ id[w] \in 0..MaxRequests
      /\ st \in Status /\ label \in Location
      /\ requests' \in requests..MaxRequests
  BY PipelineAssumption DEF AuditInv, PTypeOK, Status, Location, Before
<1> QED BY <1>1 DEF Moves, Proper, Before

\* A step that adds no record and sends nothing, on the way to the call.
OnTheWay(w) ==
    /\ pc[w] \in Before
    /\ UNCHANGED <<records, broadcasts, requests>>

LEMMA LabelKeepsAudit ==
    ASSUME AuditInv, PIInv', UNCHANGED now,
           sessions' \in [Session -> SessionRow \cup {None}],
           NEW w \in Worker, OnTheWay(w), UNCHANGED id, NEW label, GoTo(w, label),
           \/ label \in Before /\ UNCHANGED status
           \/ label = "record" /\ Reject(w)
    PROVE  AuditInv'
<1>1. CASE label \in Before /\ UNCHANGED status
  <2>1. status' = [status EXCEPT ![w] = status[w]]
    BY <1>1 DEF AuditInv, PTypeOK
  <2>2. /\ Moves(w, label, id[w], status[w], {}, {})
        /\ Proper(w, label, id[w], status[w], {})
    BY <1>1, <2>1, WaitMoves DEF OnTheWay, GoTo
  <2> QED BY <2>2, MoveKeeps
<1>2. CASE label = "record" /\ Reject(w)
  <2>1. /\ Moves(w, label, id[w], "rejected", {}, {})
        /\ Proper(w, label, id[w], "rejected", {})
    BY <1>2, WaitMoves DEF OnTheWay, GoTo, Reject
  <2> QED BY <2>1, MoveKeeps
<1> QED BY <1>1, <1>2

\* The request is answered, with or without a record, its call sent or not.
LEMMA FinishKeepsAudit ==
    ASSUME AuditInv, PIInv', UNCHANGED <<now, sessions, requests>>,
           NEW w \in Worker, Finish(w),
           \/ UNCHANGED records
           \/ /\ pc[w] = "record"
              /\ records' = records \cup {[id |-> id[w], status |-> status[w]]},
           UNCHANGED broadcasts
              \/ (pc[w] = "execute" /\ ~intent[w].dryRun /\ Broadcast(w))
    PROVE  AuditInv'
<1>1. PICK R : /\ records' = records \cup R
               /\ \/ R = {}
                  \/ pc[w] = "record" /\ R = {[id |-> id[w], status |-> status[w]]}
  OBVIOUS
<1>2. PICK B :
        /\ broadcasts' = broadcasts \cup B
        /\ \/ B = {}
           \/ /\ pc[w] = "execute" /\ ~intent[w].dryRun
              /\ B = {[id |-> id[w], intent |-> intent[w], at |-> now,
                       scope |-> scope[w]]}
  BY DEF Broadcast
<1>3. Moves(w, "idle", 0, "none", R, B) /\ Proper(w, "idle", 0, "none", B)
  BY <1>1, <1>2, FinishMoves
<1>4. sessions' \in [Session -> SessionRow \cup {None}]
  BY DEF AuditInv, PTypeOK
<1> QED BY <1>3, <1>4, MoveKeeps

LEMMA RefuseKeepsAudit ==
    ASSUME AuditInv, PIInv', UNCHANGED <<now, sessions>>,
           NEW w \in Worker, OnTheWay(w), Refuse(w)
    PROVE  AuditInv'
<1>1. CASE intent[w].route = "intents"
  <2>1. Reject(w) /\ UNCHANGED id
    BY <1>1 DEF Refuse
  <2>2. sessions' \in [Session -> SessionRow \cup {None}]
    BY DEF AuditInv, PTypeOK
  <2> QED BY <2>1, <2>2, LabelKeepsAudit DEF Reject
<1>2. CASE intent[w].route # "intents"
  BY <1>2, FinishKeepsAudit DEF Refuse, OnTheWay
<1> QED BY <1>1, <1>2

LEMMA CheckKeepsAudit ==
    ASSUME AuditInv, PIInv', UNCHANGED <<now, sessions>>,
           NEW w \in Worker, OnTheWay(w), NEW row, Check(w, row)
    PROVE  AuditInv'
<1>1. CASE CallAllowed(row, intent[w]) /\ WithinCap(row, intent[w])
  <2>1. GoTo(w, "execute") /\ UNCHANGED <<id, status>>
    BY <1>1 DEF Check
  <2>2. sessions' \in [Session -> SessionRow \cup {None}]
    BY DEF AuditInv, PTypeOK
  <2> QED BY <2>1, <2>2, LabelKeepsAudit DEF Before
<1>2. CASE ~(CallAllowed(row, intent[w]) /\ WithinCap(row, intent[w]))
  BY <1>2, RefuseKeepsAudit DEF Check
<1> QED BY <1>1, <1>2

\* A request that arrives is given an id nothing bears yet.
LEMMA ReceiveAudit ==
    ASSUME AuditInv, PIInv', NEW w \in Worker, Receive(w) PROVE AuditInv'
<1>1. PICK n \in Nat : n = requests + 1 /\ n = requests' /\ n \in 1..MaxRequests
  BY PipelineAssumption DEF Receive, AuditInv, PTypeOK
<1>2. PICK label \in {"session", "key", "execute"} : pc' = [pc EXCEPT ![w] = label]
  <2>1. PICK i \in Intents : GoTo(w, FirstStage(i.route))
    BY DEF Receive
  <2>2. FirstStage(i.route) \in {"session", "key", "execute"}
    BY RowAssumptions DEF FirstStage, Route
  <2> QED BY <2>1, <2>2 DEF GoTo
<1>3. /\ pc[w] = "idle" /\ UNCHANGED <<sessions, records, broadcasts, now>>
      /\ id' = [id EXCEPT ![w] = n] /\ status' = [status EXCEPT ![w] = status[w]]
  BY <1>1 DEF Receive, tables, AuditInv, PTypeOK
<1>4. Moves(w, label, n, status[w], {}, {})
  <2>1. n \in 0..MaxRequests /\ requests' \in requests..MaxRequests
    BY <1>1, PipelineAssumption DEF AuditInv, PTypeOK
  <2>2. label \in Location /\ status[w] \in Status
    BY DEF Location, AuditInv, PTypeOK
  <2> QED BY <1>2, <1>3, <2>1, <2>2 DEF Moves
<1>5. Proper(w, label, n, status[w], {})
  BY <1>1, <1>3 DEF Proper, Before
<1>6. sessions' \in [Session -> SessionRow \cup {None}]
  BY <1>3 DEF AuditInv, PTypeOK
<1> QED BY <1>3, <1>4, <1>5, <1>6, MoveKeeps

LEMMA SessionAudit ==
    ASSUME AuditInv, PIInv', NEW w \in Worker, ReadSession(w) \/ CreateSession(w)
    PROVE  AuditInv'
<1>1. OnTheWay(w) /\ UNCHANGED <<id, now>>
  BY DEF ReadSession, CreateSession, tables, world, OnTheWay, Before
<1>2. sessions' \in [Session -> SessionRow \cup {None}]
  BY PipelineAssumption DEF ReadSession, CreateSession, tables, AuditInv, PTypeOK
<1>3. PICK label \in {"newSession", "key", "record"} :
        /\ GoTo(w, label)
        /\ \/ label \in {"newSession", "key"} /\ UNCHANGED status
           \/ label = "record" /\ Reject(w)
  BY DEF ReadSession, CreateSession, Guard, Reject, GoTo
<1>4. label \in Before \/ label = "record"
  BY DEF Before
<1> QED BY <1>1, <1>2, <1>3, <1>4, LabelKeepsAudit

LEMMA KeyAudit ==
    ASSUME AuditInv, PIInv', NEW w \in Worker, ReadKey(w) \/ ResetWindow(w)
    PROVE  AuditInv'
<1>1. OnTheWay(w) /\ UNCHANGED <<sessions, now>>
  BY DEF ReadKey, ResetWindow, tables, world, OnTheWay, Before
<1>2. CASE ResetWindow(w)
  BY <1>1, <1>2, CheckKeepsAudit DEF ResetWindow
<1>3. CASE ReadKey(w)
  <2>1. PICK row \in Lookup(intent[w]) :
          CASE row = None ->
                 GoTo(w, "execute") /\ UNCHANGED <<intent, id, scope, status>>
            [] row # None /\ ~KeyUsable(row, now) -> Refuse(w)
            [] row # None /\ KeyUsable(row, now) /\ WindowElapsed(row, now) ->
                 /\ scope' = [scope EXCEPT ![w] = FreshWindow(row, now)]
                 /\ GoTo(w, "reset") /\ UNCHANGED <<intent, id, status>>
            [] OTHER -> Check(w, row)
    BY <1>3 DEF ReadKey
  <2>2. sessions' \in [Session -> SessionRow \cup {None}]
    BY <1>1 DEF AuditInv, PTypeOK
  <2>3. CASE row = None
    <3>1. GoTo(w, "execute") /\ UNCHANGED <<id, status>>
      BY <2>1, <2>3
    <3> QED BY <1>1, <2>2, <3>1, LabelKeepsAudit DEF Before
  <2>4. CASE row # None /\ ~KeyUsable(row, now)
    BY <1>1, <2>1, <2>4, RefuseKeepsAudit
  <2>5. CASE row # None /\ KeyUsable(row, now) /\ WindowElapsed(row, now)
    <3>1. GoTo(w, "reset") /\ UNCHANGED <<id, status>>
      BY <2>1, <2>5
    <3> QED BY <1>1, <2>2, <3>1, LabelKeepsAudit DEF Before
  <2>6. CASE row # None /\ KeyUsable(row, now) /\ ~WindowElapsed(row, now)
    <3>1. Check(w, row)
      BY <2>1, <2>6
    <3> QED BY <1>1, <3>1, CheckKeepsAudit
  <2> QED BY <2>3, <2>4, <2>5, <2>6
<1> QED BY <1>2, <1>3

\* What a call may end with: in live mode submitted means sent, and neither a
\* rejection nor a simulation does.
LEMMA OutcomeFacts ==
    ASSUME NEW w \in Worker,
           \E o \in Outcomes(intent[w]) :
              /\ status' = [status EXCEPT ![w] = o[1]]
              /\ IF o[2] THEN Broadcast(w) ELSE UNCHANGED broadcasts
    PROVE  \E st \in Status :
              /\ status' = [status EXCEPT ![w] = st]
              /\ \/ /\ UNCHANGED broadcasts
                    /\ ~(st = "submitted" /\ Mode = "live")
                 \/ /\ Broadcast(w) /\ ~intent[w].dryRun
                    /\ st \notin {"rejected", "simulated"}
                    /\ st = "submitted" \/ "landed" \in Faults
<1>1. PICK o \in Outcomes(intent[w]) :
        /\ status' = [status EXCEPT ![w] = o[1]]
        /\ IF o[2] THEN Broadcast(w) ELSE UNCHANGED broadcasts
  OBVIOUS
<1> DEFINE Ends(st) ==
      /\ status' = [status EXCEPT ![w] = st]
      /\ \/ /\ UNCHANGED broadcasts
            /\ ~(st = "submitted" /\ Mode = "live")
         \/ /\ Broadcast(w) /\ ~intent[w].dryRun
            /\ st \notin {"rejected", "simulated"}
            /\ st = "submitted" \/ "landed" \in Faults
<1>2. ASSUME NEW st \in {"submitted", "failed"}, o = <<st, TRUE>>, ~Stays(intent[w]),
             st = "submitted" \/ "landed" \in Faults
      PROVE  Ends(st)
  <2>1. o[1] = st /\ o[2] = TRUE
    BY <1>2
  <2>2. Broadcast(w) /\ ~intent[w].dryRun
    BY <1>1, <1>2, <2>1, Zenon DEF Stays
  <2> QED BY <1>1, <1>2, <2>1, <2>2
<1>3. ASSUME NEW st, o = <<st, FALSE>>, ~(st = "submitted" /\ Mode = "live")
      PROVE  Ends(st)
  <2>1. o[1] = st /\ o[2] = FALSE
    BY <1>3
  <2>2. UNCHANGED broadcasts
    BY <1>1, <2>1, Zenon
  <2> QED BY <1>1, <1>3, <2>1, <2>2
<1>4. \/ o = <<"submitted", TRUE>> /\ ~Stays(intent[w])
      \/ o = <<"failed", TRUE>> /\ ~Stays(intent[w]) /\ "landed" \in Faults
      \/ o = <<"rejected", FALSE>> \/ o = <<"simulated", FALSE>>
      \/ o = <<"failed", FALSE>>
      \/ o = <<"submitted", FALSE>> /\ Mode = "mock"
  BY Zenon DEF Outcomes
<1> HIDE DEF Ends
<1>5. Ends("submitted") \/ Ends("failed") \/ Ends("rejected") \/ Ends("simulated")
  BY <1>2, <1>3, <1>4
<1> QED BY <1>5 DEF Ends, Status

LEMMA ExecuteAudit ==
    ASSUME AuditInv, PIInv', NEW w \in Worker, Execute(w) PROVE AuditInv'
<1>1. /\ pc[w] = "execute" /\ pc' = [pc EXCEPT ![w] = "record"]
      /\ id' = [id EXCEPT ![w] = id[w]] /\ requests' = requests
      /\ UNCHANGED <<records, sessions, now>>
  BY DEF Execute, GoTo, tables, AuditInv, PTypeOK
<1>2. PICK st \in Status :
        /\ status' = [status EXCEPT ![w] = st]
        /\ \/ /\ UNCHANGED broadcasts
              /\ ~(st = "submitted" /\ Mode = "live")
           \/ /\ Broadcast(w) /\ ~intent[w].dryRun
              /\ st \notin {"rejected", "simulated"}
  BY OutcomeFacts DEF Execute
<1>3. PICK B :
        /\ broadcasts' = broadcasts \cup B
        /\ \/ B = {} /\ ~(st = "submitted" /\ Mode = "live")
           \/ /\ ~intent[w].dryRun /\ st \notin {"rejected", "simulated"}
              /\ B = {[id |-> id[w], intent |-> intent[w], at |-> now,
                       scope |-> scope[w]]}
  BY <1>2 DEF Broadcast
<1>4. /\ id[w] \in 1..MaxRequests /\ intent[w] \in Intents /\ now \in 0..MaxTime
      /\ scope[w] \in KeyRow \cup {None} /\ requests' \in requests..MaxRequests
  BY <1>1, PipelineAssumption
     DEF AuditInv, PIInv, HoldsRoom, PTypeOK, Accounted
<1>5. \A b \in B : /\ b \in [id: 1..MaxRequests, intent: Intents,
                              at: 0..MaxTime, scope: KeyRow \cup {None}]
                   /\ b.id = id[w] /\ ~b.intent.dryRun
  BY <1>3, <1>4
<1>6. Moves(w, "record", id[w], st, {}, B)
  BY <1>1, <1>2, <1>3, <1>4, <1>5 DEF Moves, Location
<1>7. Proper(w, "record", id[w], st, B)
  BY <1>1, <1>3 DEF Proper, Before
<1>8. sessions' \in [Session -> SessionRow \cup {None}]
  BY <1>1 DEF AuditInv, PTypeOK
<1> QED BY <1>1, <1>6, <1>7, <1>8, MoveKeeps

\* The record is written with the status the request has; a charge follows
\* under the same id, and changes nothing that is recorded.
LEMMA RecordAudit ==
    ASSUME AuditInv, PIInv', NEW w \in Worker, Record(w) PROVE AuditInv'
<1> DEFINE own == {[id |-> id[w], status |-> status[w]]}
<1>1. /\ pc[w] = "record" /\ records' = records \cup own
      /\ UNCHANGED <<sessions, now, requests, broadcasts>>
  BY DEF Record, world
<1>2. CASE ToCharge(w)
  <2>1. /\ pc' = [pc EXCEPT ![w] = "charge"] /\ id' = [id EXCEPT ![w] = id[w]]
        /\ status' = [status EXCEPT ![w] = status[w]]
    BY <1>2 DEF Record, GoTo, AuditInv, PTypeOK
  <2>2. /\ id[w] \in 1..MaxRequests /\ status[w] \in Status
        /\ requests' \in requests..MaxRequests
    BY <1>1, PipelineAssumption DEF AuditInv, PTypeOK, Accounted
  <2>3. Moves(w, "charge", id[w], status[w], own, {})
    BY <1>1, <2>1, <2>2 DEF Moves, Location
  <2>4. Proper(w, "charge", id[w], status[w], {})
    BY <1>1 DEF Proper, Before
  <2>5. sessions' \in [Session -> SessionRow \cup {None}]
    BY <1>1 DEF AuditInv, PTypeOK
  <2> HIDE DEF own
  <2> QED BY <1>1, <2>3, <2>4, <2>5, MoveKeeps
<1>3. CASE ~ToCharge(w)
  BY <1>1, <1>3, FinishKeepsAudit DEF Record
<1> QED BY <1>2, <1>3

\* What happens around requests adds nothing to the trail; a crash takes the
\* ids of what was under way with it.
LEMMA AroundAudit ==
    ASSUME AuditInv, PIInv', Crash \/ IssueKey \/ PutSession \/ Tick PROVE AuditInv'
<1>1. PTypeOK'
  <2>1. /\ keys' \in [Key -> KeyRow \cup {None}]
        /\ pc' \in [Worker -> Location]
        /\ intent' \in [Worker -> Intents \cup {None}]
        /\ scope' \in [Worker -> KeyRow \cup {None}]
    BY DEF PIInv, KeysOK, LocalsTyped
  <2>2. UNCHANGED <<records, broadcasts, requests>>
    BY DEF Crash, IssueKey, PutSession, Tick, tables, world
  <2>3. id' \in [Worker -> 0..MaxRequests] /\ status' \in [Worker -> Status]
    BY PipelineAssumption
       DEF Crash, IssueKey, PutSession, Tick, locals, AuditInv, PTypeOK, Status
  <2>4. sessions' \in [Session -> SessionRow \cup {None}]
    BY PipelineAssumption
       DEF Crash, IssueKey, PutSession, Tick, tables, AuditInv, PTypeOK
  <2>5. now' \in 0..MaxTime
    <3>1. PICK t \in Int : t = now
      BY DEF AuditInv, PTypeOK
    <3> QED BY PipelineAssumption
          DEF Crash, IssueKey, PutSession, Tick, world, AuditInv, PTypeOK
  <2> QED BY <2>1, <2>2, <2>3, <2>4, <2>5 DEF AuditInv, PTypeOK
<1>2. UNCHANGED <<records, broadcasts, requests>>
  BY DEF Crash, IssueKey, PutSession, Tick, tables, world
<1>3. \A w \in Worker : Accounted(w)'
  <2>1. CASE Crash
    BY <2>1 DEF Crash, Accounted
  <2>2. CASE IssueKey \/ PutSession \/ Tick
    BY <1>2, <2>2 DEF IssueKey, PutSession, Tick, locals, AuditInv, Accounted, Sent
  <2> QED BY <2>1, <2>2
<1> QED BY <1>1, <1>2, <1>3 DEF AuditInv, Numbered, RecordsTruthful

LEMMA StepAudit ==
    ASSUME AuditInv, PIInv', NEW w \in Worker, Step(w) PROVE AuditInv'
<1>1. CASE Charge(w)
  BY <1>1, FinishKeepsAudit DEF Charge, world
<1>2. CASE Throw(w)
  <2>1. /\ Finish(w) /\ UNCHANGED <<sessions, records, now, requests>>
        /\ \/ UNCHANGED broadcasts
           \/ pc[w] = "execute" /\ ~intent[w].dryRun /\ Broadcast(w)
    BY <1>2 DEF Throw, tables, Stays
  <2> QED BY <2>1, FinishKeepsAudit
<1> QED BY <1>1, <1>2, ReceiveAudit, SessionAudit, KeyAudit, ExecuteAudit, RecordAudit
        DEF Step

LEMMA NextAuditInv == AuditInv /\ [PNext]_pvars => AuditInv'
<1> SUFFICES ASSUME AuditInv, [PNext]_pvars PROVE AuditInv'
  OBVIOUS
<1>0. PIInv'
  BY NextPIInv DEF AuditInv
<1>1. CASE UNCHANGED pvars
  BY <1>0, <1>1
     DEF pvars, tables, locals, world, AuditInv, PTypeOK, Numbered, RecordsTruthful,
         Accounted, Sent
<1> QED BY <1>0, <1>1, StepAudit, AroundAudit DEF PNext

\* At first no id is given out.
LEMMA InitAuditInv == PInit => AuditInv
<1> SUFFICES ASSUME PInit PROVE AuditInv
  OBVIOUS
<1>1. PIInv
  BY InitPIInv
<1>2. PTypeOK
  BY <1>1, PipelineAssumption DEF PInit, PIInv, KeysOK, LocalsTyped, PTypeOK, Status
<1>3. Numbered /\ RecordsTruthful /\ \A w \in Worker : Accounted(w)
  BY DEF PInit, Numbered, RecordsTruthful, Accounted
<1> QED BY <1>1, <1>2, <1>3 DEF AuditInv

\* The state has its types; in particular an id is that of a request received.
THEOREM PipelineTyped == PSpec => []PTypeOK
<1>1. AuditInv => PTypeOK
  BY DEF AuditInv
<1> QED BY <1>1, InitAuditInv, NextAuditInv, PTL DEF PSpec

\* What the transactions table says does not contradict the chain, whatever
\* requests run at a time, throw or die: in live mode a row that says submitted
\* was broadcast, one that says rejected or simulated was not, and no dry run
\* ever is.
THEOREM AuditTruthful == PSpec => []RecordsTruthful
<1>1. AuditInv => RecordsTruthful
  BY DEF AuditInv
<1> QED BY <1>1, InitAuditInv, NextAuditInv, PTL DEF PSpec

-----------------------------------------------------------------------------
(* One request at a time, and no admin: what remains of the promise that a  *)
(* charge only adds to what is stored.                                     *)

Alone == "admin" \notin Faults /\ \A v, w \in Worker : v = w

\* The scope a request goes on with is still the stored row; the one whose
\* window is being reset differs from it in the window only.
InHand(w) ==
    /\ pc[w] = "reset" => /\ keys[scope[w].id] # None
                          /\ keys[scope[w].id].agent = scope[w].agent
                          /\ keys[scope[w].id].max = scope[w].max
                          /\ keys[scope[w].id].since < scope[w].since
    /\ pc[w] \in {"execute", "record", "charge"} /\ scope[w] # None
          => keys[scope[w].id] = scope[w]

AloneInv == PIInv /\ \A w \in Worker : InHand(w)

\* A row that is stored over one of its own agent is stored as it is.
LEMMA StoredAsIs ==
    ASSUME KeysOK, NEW row \in KeyRow, Upsert(row),
           keys[row.id] # None, keys[row.id].agent = row.agent
    PROVE  keys' = [keys EXCEPT ![row.id] = row]
<1>1. [row EXCEPT !.agent = keys[row.id].agent] = row
  BY DEF KeyRow
<1> QED BY <1>1 DEF Upsert

\* A request that has no scope, or the row as it is stored, is in order.
LEMMA HandMoves ==
    ASSUME AloneInv, Alone, NEW w \in Worker, NEW label, NEW row \in KeyRow \cup {None},
           pc' = [pc EXCEPT ![w] = label], scope' = [scope EXCEPT ![w] = row],
           label # "reset", row # None => keys'[row.id] = row
    PROVE  \A v \in Worker : InHand(v)'
<1>1. pc'[w] = label /\ scope'[w] = row
  BY DEF AloneInv, PIInv, LocalsTyped
<1> QED BY <1>1 DEF Alone, InHand

LEMMA FinishHand ==
    ASSUME AloneInv, Alone, NEW w \in Worker, Finish(w)
    PROVE  \A v \in Worker : InHand(v)'
BY HandMoves DEF Finish, GoTo

LEMMA RefuseHand ==
    ASSUME AloneInv, Alone, NEW w \in Worker, Refuse(w)
    PROVE  \A v \in Worker : InHand(v)'
BY HandMoves, FinishHand DEF Refuse, Reject, GoTo

LEMMA CheckHand ==
    ASSUME AloneInv, Alone, NEW w \in Worker, NEW row \in KeyRow, Check(w, row),
           keys'[row.id] = row
    PROVE  \A v \in Worker : InHand(v)'
BY HandMoves, RefuseHand DEF Check, GoTo

\* A request that goes on with the scope it has, or before it has one.
LEMMA GoesOnHand ==
    ASSUME AloneInv, Alone, NEW w \in Worker, NEW label,
           pc' = [pc EXCEPT ![w] = label], label # "reset", UNCHANGED <<keys, scope>>,
           scope[w] = None \/ pc[w] \in {"execute", "record"}
    PROVE  \A v \in Worker : InHand(v)'
<1>1. scope' = [scope EXCEPT ![w] = scope[w]] /\ scope[w] \in KeyRow \cup {None}
  BY DEF AloneInv, PIInv, LocalsTyped
<1>2. scope[w] # None => keys'[scope[w].id] = scope[w]
  BY DEF AloneInv, InHand
<1> QED BY <1>1, <1>2, HandMoves

LEMMA ReadKeyHand ==
    ASSUME AloneInv, Alone, NEW w \in Worker, ReadKey(w)
    PROVE  \A v \in Worker : InHand(v)'
<1>1. /\ pc[w] = "key" /\ scope[w] = None /\ intent[w] \in Intents /\ keys' = keys
  BY DEF ReadKey, tables, AloneInv, PIInv, HoldsRoom
<1>2. PICK row \in Lookup(intent[w]) :
        CASE row = None ->
               GoTo(w, "execute") /\ UNCHANGED <<intent, id, scope, status>>
          [] row # None /\ ~KeyUsable(row, now) -> Refuse(w)
          [] row # None /\ KeyUsable(row, now) /\ WindowElapsed(row, now) ->
               /\ scope' = [scope EXCEPT ![w] = FreshWindow(row, now)]
               /\ GoTo(w, "reset") /\ UNCHANGED <<intent, id, status>>
          [] OTHER -> Check(w, row)
  BY DEF ReadKey
<1>3. row # None => row \in KeyRow /\ row.id \in Key /\ keys[row.id] = row
  <2>1. intent[w].key \in Key \cup {NoKey}
    <3>1. PICK r \in RawIntents : intent[w] = Resolve(r)
      BY <1>1 DEF Intents
    <3> QED BY <3>1, PipelineAssumption DEF Resolve
  <2>2. row # None => \E k \in Key : row = keys[k]
    BY <2>1 DEF Lookup
  <2> QED BY <2>2 DEF AloneInv, PIInv, KeysOK
<1>4. CASE row = None
  <2>1. UNCHANGED scope /\ pc' = [pc EXCEPT ![w] = "execute"]
    BY <1>2, <1>4 DEF GoTo
  <2> QED BY <1>1, <2>1, GoesOnHand
<1>5. CASE row # None /\ ~KeyUsable(row, now)
  BY <1>2, <1>5, RefuseHand
<1>6. CASE row # None /\ KeyUsable(row, now) /\ WindowElapsed(row, now)
  <2>1. PICK fresh : fresh = FreshWindow(row, now)
    OBVIOUS
  <2>2. scope' = [scope EXCEPT ![w] = fresh] /\ pc' = [pc EXCEPT ![w] = "reset"]
    BY <1>2, <1>6, <2>1 DEF GoTo
  <2>3. /\ fresh.id = row.id /\ fresh.agent = row.agent /\ fresh.max = row.max
        /\ row.since < fresh.since
    <3>1. now \in Nat /\ row.since \in Nat /\ row.window \in Nat
      BY <1>3, <1>6 DEF AloneInv, PIInv, KeyRow
    <3>2. row.since < now
      BY <1>6, <3>1 DEF WindowElapsed
    <3> QED BY <1>3, <1>6, <2>1, <3>2 DEF FreshWindow, KeyRow
  <2>4. pc'[w] = "reset" /\ scope'[w] = fresh
    BY <2>2 DEF AloneInv, PIInv, LocalsTyped
  <2> QED BY <1>1, <1>3, <1>6, <2>3, <2>4 DEF Alone, InHand
<1>7. CASE row # None /\ KeyUsable(row, now) /\ ~WindowElapsed(row, now)
  <2>1. Check(w, row)
    BY <1>2, <1>7
  <2> QED BY <1>1, <1>3, <1>7, <2>1, CheckHand
<1> QED BY <1>4, <1>5, <1>6, <1>7

\* The reset stores what the request holds, but for the agent, which is the same.
LEMMA ResetHand ==
    ASSUME AloneInv, Alone, NEW w \in Worker, ResetWindow(w)
    PROVE  \A v \in Worker : InHand(v)'
<1>1. pc[w] = "reset" /\ Upsert(scope[w]) /\ Check(w, scope[w])
  BY DEF ResetWindow
<1>2. /\ scope[w] \in KeyRow /\ scope[w].id \in Key /\ KeysOK
      /\ keys[scope[w].id] # None /\ keys[scope[w].id].agent = scope[w].agent
  BY <1>1 DEF AloneInv, PIInv, LocalsTyped, HoldsRoom, InHand, KeyRow
<1>3. keys' = [keys EXCEPT ![scope[w].id] = scope[w]]
  BY <1>1, <1>2, StoredAsIs
<1>4. keys'[scope[w].id] = scope[w]
  BY <1>2, <1>3 DEF KeysOK
<1> QED BY <1>1, <1>2, <1>4, CheckHand

LEMMA StepHand ==
    ASSUME AloneInv, Alone, NEW w \in Worker, Step(w)
    PROVE  \A v \in Worker : InHand(v)'
<1>0. HoldsRoom(w)
  BY DEF AloneInv, PIInv
<1>1. CASE Receive(w)
  <2>1. scope[w] = None /\ UNCHANGED <<keys, scope>>
    BY <1>0, <1>1 DEF Receive, HoldsRoom, tables
  <2>2. PICK i \in Intents : GoTo(w, FirstStage(i.route))
    BY <1>1 DEF Receive
  <2>3. FirstStage(i.route) # "reset"
    BY <2>2, RowAssumptions DEF FirstStage, Route
  <2> QED BY <2>1, <2>2, <2>3, GoesOnHand DEF GoTo
<1>2. CASE ReadSession(w) \/ CreateSession(w)
  <2>1. scope[w] = None /\ UNCHANGED <<keys, scope>>
    BY <1>0, <1>2 DEF ReadSession, CreateSession, HoldsRoom, tables
  <2>2. PICK label \in {"newSession", "key", "record"} : pc' = [pc EXCEPT ![w] = label]
    BY <1>2 DEF ReadSession, CreateSession, Guard, Reject, GoTo
  <2> QED BY <2>1, <2>2, GoesOnHand
<1>3. CASE ReadKey(w)
  BY <1>3, ReadKeyHand
<1>4. CASE ResetWindow(w)
  BY <1>4, ResetHand
<1>5. CASE Execute(w)
  BY <1>5, GoesOnHand DEF Execute, GoTo, tables
<1>6. CASE Record(w)
  BY <1>6, GoesOnHand, FinishHand DEF Record, GoTo
<1>7. CASE Charge(w) \/ Throw(w)
  BY <1>7, FinishHand DEF Charge, Throw
<1> QED BY <1>1, <1>2, <1>3, <1>4, <1>5, <1>6, <1>7 DEF Step

LEMMA NextAloneInv == ASSUME Alone PROVE AloneInv /\ [PNext]_pvars => AloneInv'
<1> SUFFICES ASSUME AloneInv, [PNext]_pvars PROVE \A w \in Worker : InHand(w)'
  BY NextPIInv DEF AloneInv
<1>1. CASE UNCHANGED <<keys, pc, scope>>
  BY <1>1 DEF AloneInv, InHand
<1>2. CASE Crash
  BY <1>2 DEF Crash, InHand
<1>3. ~IssueKey
  BY DEF Alone, IssueKey
<1>4. PutSession \/ Tick \/ UNCHANGED pvars => UNCHANGED <<keys, pc, scope>>
  BY DEF PutSession, Tick, pvars, tables, locals
<1> QED BY <1>1, <1>2, <1>3, <1>4, StepHand DEF PNext

\* A charge adds its spend to the stored row.
LEMMA ChargeAdds ==
    ASSUME AloneInv, NEW w \in Worker, Charge(w), intent[w].spend > 0
    PROVE  keys' = [keys EXCEPT ![scope[w].id] = Charged(keys[scope[w].id], intent[w])]
<1> DEFINE k == scope[w].id
<1>1. /\ KeysOK /\ intent[w] \in Intents /\ scope[w] \in KeyRow
      /\ k \in Key /\ keys[k] = scope[w] /\ scope[w] # None
  BY DEF Charge, AloneInv, PIInv, LocalsTyped, HoldsRoom, InHand, KeyRow
<1>2. PICK row : row = Charged(scope[w], intent[w])
  OBVIOUS
<1>3. row \in KeyRow /\ row.id = k /\ row.agent = scope[w].agent
  BY <1>1, <1>2, ChargedFacts DEF Charged, KeyRow
<1>4. Upsert(row)
  BY <1>1, <1>2, RowAssumptions DEF Charge
<1>5. keys' = [keys EXCEPT ![k] = row]
  BY <1>1, <1>3, <1>4, StoredAsIs
<1> QED BY <1>1, <1>2, <1>5

LEMMA InitAlone == PInit => AloneInv
BY InitPIInv DEF PInit, AloneInv, InHand

\* Where requests come one at a time and no admin replaces a key, the finding
\* about charges cannot happen: a charge adds its spend to the stored row.
THEOREM LoneChargeIncrements == ASSUME Alone PROVE PSpec => ChargeOnlyIncrements
<1>1. AloneInv /\ [PNext]_pvars =>
        [\A w \in Worker : Charge(w) /\ intent[w].spend > 0 =>
            LET k == scope[w].id
            IN keys' = [keys EXCEPT ![k] = Charged(keys[k], intent[w])]]_pvars
  BY ChargeAdds
<1> QED BY <1>1, InitAlone, NextAloneInv, PTL DEF PSpec, ChargeOnlyIncrements

-----------------------------------------------------------------------------
(* Sums.  CarriedBy adds up a set in the order CHOOSE takes its elements;   *)
(* any order gives the same sum.                                           *)

LEMMA LeastNumber ==
    ASSUME NEW T \in SUBSET Nat, T # {}
    PROVE  \E m \in T : \A n \in T : m <= n
<1>1. PICK m \in T : \A n \in T : ~(<<n, m>> \in OpToRel(<, Nat))
  BY NatLessThanWellFounded, WFMin, Zenon
<1>2. ASSUME NEW n \in T PROVE m <= n
  <2>1. ~(n < m)
    BY <1>1 DEF OpToRel
  <2> QED BY <2>1
<1> QED BY <1>2

LEMMA Induction ==
    ASSUME NEW T \in SUBSET Nat, 0 \in T, \A n \in T : n + 1 \in T
    PROVE  \A n \in Nat : n \in T
<1> SUFFICES ASSUME Nat \ T # {} PROVE FALSE
  OBVIOUS
<1>1. PICK m \in Nat \ T : \A n \in Nat \ T : m <= n
  BY LeastNumber
<1>2. m - 1 \in Nat /\ m - 1 \notin Nat \ T
  BY <1>1
<1> QED BY <1>1, <1>2

\* A finite set of calls, each of which carries an amount.
Priced(V) == IsFiniteSet(V) /\ \A b \in V : b.intent.carried \in Nat

First(s) == CHOOSE b \in s : TRUE

Total(F, s) == IF s = {} THEN 0 ELSE First(s).intent.carried + F[s \ {First(s)}]

SumOn(V) == CHOOSE F : F = [s \in SUBSET V |-> Total(F, s)]

LEMMA CarriedIsSum == \A V : CarriedBy(V) = SumOn(V)[V]
BY DEF CarriedBy, MapThenSumSet, MapThenFoldSet, SumOn, Total, First

LEMMA FirstIn == ASSUME NEW s, s # {} PROVE First(s) \in s
<1>1. \E b \in s : TRUE
  OBVIOUS
<1> QED BY <1>1, Zenon DEF First

\* A part of a priced set, and what is left of it without an element.
LEMMA Less ==
    ASSUME NEW V, Priced(V), NEW s \in SUBSET V
    PROVE  /\ IsFiniteSet(s) /\ Cardinality(s) \in Nat
           /\ Cardinality(s) <= Cardinality(V) /\ Cardinality(V) \in Nat
           /\ Cardinality(s) = 0 => s = {}
           /\ \A x \in s : /\ x.intent.carried \in Nat /\ s \ {x} \in SUBSET V
                           /\ Cardinality(s \ {x}) = Cardinality(s) - 1
<1>1. IsFiniteSet(V)
  BY DEF Priced
<1>2. IsFiniteSet(s) /\ Cardinality(s) <= Cardinality(V)
  BY <1>1, FS_Subset
<1>3. ASSUME NEW x \in s PROVE Cardinality(s \ {x}) = Cardinality(s) - 1
  BY <1>2, FS_RemoveElement
<1> QED BY <1>1, <1>2, <1>3, FS_CardinalityType, FS_EmptySet DEF Priced

\* The sum of a priced set is defined, and an amount.
LEMMA SumDefined ==
    ASSUME NEW V, Priced(V)
    PROVE  \A s \in SUBSET V : SumOn(V)[s] = Total(SumOn(V), s) /\ SumOn(V)[s] \in Nat
<1> DEFINE Level(n) == {s \in SUBSET V : Cardinality(s) <= n}
           Defined == {n \in Nat : \E f : f = [s \in Level(n) |-> Total(f, s)]}
           G == SumOn(V)
<1>1. 0 \in Defined
  <2> DEFINE f == [s \in Level(0) |-> 0]
  <2>1. \A s \in Level(0) : s = {}
    BY Less
  <2>2. f = [s \in Level(0) |-> Total(f, s)]
    BY <2>1 DEF Total
  <2> QED BY <2>2
<1>2. ASSUME NEW n \in Defined PROVE n + 1 \in Defined
  <2>1. PICK f : f = [s \in Level(n) |-> Total(f, s)]
    OBVIOUS
  <2> DEFINE g == [s \in Level(n + 1) |-> Total(f, s)]
  <2>2. ASSUME NEW s \in Level(n + 1) PROVE Total(f, s) = Total(g, s)
    <3>1. CASE s = {}
      BY <3>1 DEF Total
    <3>2. CASE s # {}
      <4> DEFINE rest == s \ {First(s)}
      <4>1. rest \in Level(n) /\ rest \in Level(n + 1)
        BY <3>2, FirstIn, Less
      <4>2. f[rest] = Total(f, rest) /\ g[rest] = Total(f, rest)
        BY <2>1, <4>1
      <4> QED BY <4>2 DEF Total
    <3> QED BY <3>1, <3>2
  <2>3. g = [s \in Level(n + 1) |-> Total(g, s)]
    BY <2>2
  <2> HIDE DEF g
  <2>4. \E h : h = [s \in Level(n + 1) |-> Total(h, s)]
    BY <2>3, Zenon
  <2>5. n + 1 \in Nat
    OBVIOUS
  <2> HIDE DEF Level
  <2> QED BY <2>4, <2>5, Zenon
<1>3. Cardinality(V) \in Defined
  <2>1. Cardinality(V) \in Nat
    BY Less
  <2>2. Defined \in SUBSET Nat
    OBVIOUS
  <2> HIDE DEF Defined
  <2> QED BY <1>1, <1>2, <2>1, <2>2, Induction
<1>4. Level(Cardinality(V)) = SUBSET V
  BY Less
<1>5. \E f : f = [s \in SUBSET V |-> Total(f, s)]
  BY <1>3, <1>4
<1>6. G = [s \in SUBSET V |-> Total(G, s)]
  BY <1>5 DEF SumOn
<1> HIDE DEF G
<1> DEFINE Amount == {n \in Nat : \A s \in Level(n) : G[s] \in Nat}
<1>7. 0 \in Amount
  <2>1. \A s \in Level(0) : s = {}
    BY Less
  <2> QED BY <1>6, <2>1 DEF Total
<1>8. ASSUME NEW n \in Amount PROVE n + 1 \in Amount
  <2>1. ASSUME NEW s \in Level(n + 1) PROVE G[s] \in Nat
    <3>1. CASE s = {}
      BY <1>6, <3>1 DEF Total
    <3>2. CASE s # {}
      <4>1. s \ {First(s)} \in Level(n) /\ First(s).intent.carried \in Nat
        BY <3>2, FirstIn, Less
      <4>2. G[s \ {First(s)}] \in Nat
        BY <4>1
      <4>3. G[s] = First(s).intent.carried + G[s \ {First(s)}]
        BY <1>6, <3>2 DEF Total
      <4> QED BY <4>1, <4>2, <4>3
    <3> QED BY <3>1, <3>2
  <2> QED BY <2>1
<1>9. Cardinality(V) \in Amount
  <2>1. Cardinality(V) \in Nat
    BY Less
  <2>2. Amount \in SUBSET Nat
    OBVIOUS
  <2> HIDE DEF Amount
  <2> QED BY <1>7, <1>8, <2>1, <2>2, Induction
<1> QED BY <1>4, <1>6, <1>9 DEF G

\* Any element may be taken first.
LEMMA SumOrder ==
    ASSUME NEW V, Priced(V)
    PROVE  \A s \in SUBSET V : \A x \in s :
              SumOn(V)[s] = x.intent.carried + SumOn(V)[s \ {x}]
<1> DEFINE Level(n) == {s \in SUBSET V : Cardinality(s) <= n}
           G == SumOn(V)
           Free == {n \in Nat : \A s \in Level(n) : \A x \in s :
                                   G[s] = x.intent.carried + G[s \ {x}]}
<1>0. \A s \in SUBSET V : G[s] = Total(G, s) /\ G[s] \in Nat
  BY SumDefined
<1> HIDE DEF G
<1>1. 0 \in Free
  <2>1. \A s \in Level(0) : s = {}
    BY Less
  <2> QED BY <2>1
<1>2. ASSUME NEW n \in Free PROVE n + 1 \in Free
  <2>1. ASSUME NEW s \in Level(n + 1), NEW x \in s
        PROVE  G[s] = x.intent.carried + G[s \ {x}]
    <3> DEFINE y == First(s)
    <3>1. y \in s /\ G[s] = y.intent.carried + G[s \ {y}]
      BY <1>0, FirstIn DEF Total
    <3> HIDE DEF y
    <3>2. CASE x = y
      BY <3>1, <3>2
    <3>3. CASE x # y
      <4>1. /\ s \ {x} \in Level(n) /\ s \ {y} \in Level(n)
            /\ x \in s \ {y} /\ y \in s \ {x}
            /\ x.intent.carried \in Nat /\ y.intent.carried \in Nat
        BY <3>1, <3>3, Less
      <4>2. /\ G[s \ {y}] = x.intent.carried + G[(s \ {y}) \ {x}]
            /\ G[s \ {x}] = y.intent.carried + G[(s \ {x}) \ {y}]
        BY <4>1
      <4>3. (s \ {y}) \ {x} = (s \ {x}) \ {y} /\ (s \ {x}) \ {y} \in SUBSET V
        OBVIOUS
      <4>4. G[(s \ {x}) \ {y}] \in Nat
        BY <1>0, <4>3
      <4>5. PICK m \in Nat : m = G[(s \ {x}) \ {y}]
        BY <4>4
      <4>6. G[s \ {y}] = x.intent.carried + m
        BY <4>2, <4>3, <4>5
      <4>7. G[s \ {x}] = y.intent.carried + m
        BY <4>2, <4>5
      <4> QED BY <3>1, <4>1, <4>6, <4>7
    <3> QED BY <3>2, <3>3
  <2> QED BY <2>1
<1>3. Cardinality(V) \in Free
  <2>1. Cardinality(V) \in Nat
    BY Less
  <2>2. Free \in SUBSET Nat
    OBVIOUS
  <2> HIDE DEF Free
  <2> QED BY <1>1, <1>2, <2>1, <2>2, Induction
<1>4. Level(Cardinality(V)) = SUBSET V
  BY Less
<1> QED BY <1>3, <1>4 DEF G

\* The sum of a part is the same, whatever it is a part of.
LEMMA SumAgrees ==
    ASSUME NEW V, Priced(V), NEW W \in SUBSET V
    PROVE  SumOn(W)[W] = SumOn(V)[W]
<1> DEFINE Level(n) == {s \in SUBSET W : Cardinality(s) <= n}
           G == SumOn(V)
           H == SumOn(W)
           Same == {n \in Nat : \A s \in Level(n) : H[s] = G[s]}
<1>0. Priced(W)
  BY Less DEF Priced
<1>1. \A s \in SUBSET W : G[s] = Total(G, s) /\ H[s] = Total(H, s)
  <2>1. \A s \in SUBSET V : G[s] = Total(G, s)
    BY SumDefined
  <2>2. \A s \in SUBSET W : H[s] = Total(H, s)
    BY <1>0, SumDefined
  <2> QED BY <2>1, <2>2
<1> HIDE DEF G, H
<1>2. 0 \in Same
  <2>1. \A s \in Level(0) : s = {}
    BY <1>0, Less
  <2> QED BY <1>1, <2>1 DEF Total
<1>3. ASSUME NEW n \in Same PROVE n + 1 \in Same
  <2>1. ASSUME NEW s \in Level(n + 1) PROVE H[s] = G[s]
    <3>1. CASE s = {}
      BY <1>1, <3>1 DEF Total
    <3>2. CASE s # {}
      <4>1. s \ {First(s)} \in Level(n)
        BY <1>0, <3>2, FirstIn, Less
      <4>2. H[s \ {First(s)}] = G[s \ {First(s)}]
        BY <4>1
      <4> QED BY <1>1, <3>2, <4>2 DEF Total
    <3> QED BY <3>1, <3>2
  <2> QED BY <2>1
<1>4. Cardinality(W) \in Same
  <2>1. Cardinality(W) \in Nat
    BY <1>0, Less
  <2>2. Same \in SUBSET Nat
    OBVIOUS
  <2> HIDE DEF Same
  <2> QED BY <1>2, <1>3, <2>1, <2>2, Induction
<1>5. W \in Level(Cardinality(W))
  BY <1>0, Less
<1> QED BY <1>4, <1>5 DEF G, H

\* What a set of calls carries, and what one more adds.
LEMMA CarriedAdds ==
    ASSUME NEW V, Priced(V)
    PROVE  /\ CarriedBy(V) \in Nat
           /\ V = {} => CarriedBy(V) = 0
           /\ \A b : b \notin V /\ b.intent.carried \in Nat =>
                CarriedBy(V \cup {b}) = CarriedBy(V) + b.intent.carried
<1>1. CarriedBy(V) = SumOn(V)[V] /\ SumOn(V)[V] \in Nat /\ SumOn(V)[V] = Total(SumOn(V), V)
  BY CarriedIsSum, SumDefined
<1>2. ASSUME NEW b, b \notin V, b.intent.carried \in Nat
      PROVE  CarriedBy(V \cup {b}) = CarriedBy(V) + b.intent.carried
  <2> DEFINE U == V \cup {b}
  <2>1. Priced(U)
    <3>1. IsFiniteSet(U)
      BY FS_AddElement DEF Priced
    <3> QED BY <1>2, <3>1 DEF Priced
  <2>2. V \in SUBSET U /\ b \in U /\ U \ {b} = V
    BY <1>2
  <2> HIDE DEF U
  <2>3. SumOn(U)[U] = b.intent.carried + SumOn(U)[V]
    BY <2>1, <2>2, SumOrder
  <2>4. SumOn(V)[V] = SumOn(U)[V]
    BY <2>1, <2>2, SumAgrees
  <2>5. CarriedBy(U) = SumOn(U)[U]
    BY CarriedIsSum
  <2>6. CarriedBy(U) = CarriedBy(V) + b.intent.carried
    BY <1>1, <1>2, <2>3, <2>4, <2>5
  <2> QED BY <2>6 DEF U
<1> QED BY <1>1, <1>2 DEF Total

-----------------------------------------------------------------------------
(* The ledger.  With one request at a time and no faults, what was sent in a *)
(* key's window is booked in its row, or about to be.                      *)

\* No call that may go out under a key carries more than its route books for
\* it: the WebMCP route uses no key, the execute route books nothing.  This is
\* a condition on what clients send, which nothing in the code enforces.
AllBooked ==
    \A i \in Intents : i.route # "webmcp" =>
        i.carried <= IF i.route = "intents" THEN i.spend ELSE 0

Sequential == Alone /\ Faults = {} /\ AllBooked

\* The calls that count for a key: those of the window its row is in.
WindowOf(k) == {b \in Under(k) : b.scope.since = keys[k].since}

\* A call was sent under a row that is stored still, in its window or later.
Windowed ==
    \A b \in broadcasts : b.scope # None =>
        keys[b.scope.id] # None /\ b.scope.since <= keys[b.scope.id].since

Owing(w, k) ==
    /\ pc[w] \in {"record", "charge"} /\ ToCharge(w) /\ scope[w].id = k
    /\ UsedInWindow(k) <= keys[k].spent + intent[w].spend

Booked(k) ==
    keys[k] # None => \/ UsedInWindow(k) <= keys[k].spent
                      \/ \E w \in Worker : Owing(w, k)

\* A WebMCP request never has a scope.
Scopeless(w) ==
    pc[w] # "idle" /\ intent[w].route = "webmcp" =>
        scope[w] = None /\ pc[w] \in {"execute", "record"}

\* A window that is being reset had run out when the row was read.
Due(w) ==
    pc[w] = "reset" =>
        /\ scope[w].since <= now
        /\ scope[w].window = keys[scope[w].id].window
        /\ keys[scope[w].id].since + keys[scope[w].id].window < scope[w].since

LedgerInv ==
    /\ AuditInv /\ AloneInv
    /\ \A w \in Worker : Scopeless(w) /\ Due(w)
    /\ IsFiniteSet(broadcasts) /\ Windowed
    /\ \A k \in Key : Booked(k)

\* The types of an intent, a row and a call.
LEMMA LedgerFacts ==
    ASSUME LedgerInv
    PROVE  /\ \A i \in Intents : i.carried \in Nat /\ i.spend \in Nat
           /\ \A k \in Key : keys[k] # None =>
                /\ keys[k] \in KeyRow /\ keys[k].id = k /\ keys[k].since \in Nat
                /\ keys[k].spent \in Nat /\ keys[k].max \in Nat
                /\ keys[k].spent <= keys[k].max /\ keys[k].window \in Nat
           /\ \A b \in broadcasts :
                /\ b.intent \in Intents
                /\ b.scope # None => b.scope.id \in Key /\ b.scope.since \in Nat
<1>1. ASSUME NEW i \in Intents PROVE i.carried \in Nat /\ i.spend \in Nat
  <2>1. PICK r \in RawIntents : i = Resolve(r)
    BY DEF Intents
  <2>2. i.carried = Carried(r)
    BY <2>1 DEF Resolve
  <2> QED BY <2>1, <2>2, AmountFacts, RowAssumptions, PipelineAssumption
<1>2. ASSUME NEW k \in Key, keys[k] # None
      PROVE  /\ keys[k] \in KeyRow /\ keys[k].id = k /\ keys[k].since \in Nat
             /\ keys[k].spent \in Nat /\ keys[k].max \in Nat
             /\ keys[k].spent <= keys[k].max /\ keys[k].window \in Nat
  BY <1>2 DEF LedgerInv, AloneInv, PIInv, KeysOK, KeyRow
<1>3. ASSUME NEW b \in broadcasts
      PROVE  /\ b.intent \in Intents
             /\ b.scope # None => b.scope.id \in Key /\ b.scope.since \in Nat
  BY DEF LedgerInv, AuditInv, PTypeOK, KeyRow
<1> QED BY <1>1, <1>2, <1>3

\* What a step of a request makes of its own locals, as far as they matter
\* here.
LEMMA StepScopeless ==
    ASSUME PIInv, NEW w \in Worker, Scopeless(w), Step(w)
    PROVE  Scopeless(w)'
<1>1. HoldsRoom(w) /\ LocalsTyped
  BY DEF PIInv
<1>2. CASE Receive(w)
  <2>1. PICK i \in Intents : intent' = [intent EXCEPT ![w] = i] /\ GoTo(w, FirstStage(i.route))
    BY <1>2 DEF Receive
  <2>2. intent'[w] = i /\ pc'[w] = FirstStage(i.route) /\ scope'[w] = None
    BY <1>1, <1>2, <2>1 DEF Receive, GoTo, LocalsTyped, HoldsRoom
  <2> QED BY <2>2 DEF Scopeless, FirstStage
<1>3. CASE ReadSession(w) \/ CreateSession(w) \/ ReadKey(w) \/ ResetWindow(w)
  <2>1. intent[w].route # "webmcp"
    BY <1>3 DEF ReadSession, CreateSession, ReadKey, ResetWindow, Scopeless
  <2>2. intent'[w] = intent[w] \/ pc'[w] = "idle"
    BY <1>1, <1>3
       DEF ReadSession, CreateSession, ReadKey, ResetWindow, Check, Refuse, Reject,
           Finish, GoTo, LocalsTyped
  <2> QED BY <2>1, <2>2 DEF Scopeless
<1>4. CASE Execute(w)
  BY <1>1, <1>4 DEF Execute, GoTo, LocalsTyped, Scopeless
<1>5. CASE Record(w)
  <2>1. CASE ToCharge(w)
    BY <1>5, <2>1 DEF Record, ToCharge, Scopeless
  <2>2. CASE ~ToCharge(w)
    BY <1>1, <1>5, <2>2 DEF Record, Finish, GoTo, LocalsTyped, Scopeless
  <2> QED BY <2>1, <2>2
<1>6. CASE Charge(w) \/ Throw(w)
  BY <1>1, <1>6 DEF Charge, Throw, Finish, GoTo, LocalsTyped, Scopeless
<1> QED BY <1>2, <1>3, <1>4, <1>5, <1>6 DEF Step

\* Only the read of a row makes a request wait for a reset.
LEMMA StepDue ==
    ASSUME PIInv, NEW w \in Worker, Step(w)
    PROVE  Due(w)'
<1>1. HoldsRoom(w) /\ LocalsTyped /\ now \in Nat
  BY DEF PIInv
<1>2. CASE ReadKey(w)
  <2>1. /\ keys' = keys /\ now' = now
        /\ intent[w] \in Intents
    BY <1>1, <1>2 DEF ReadKey, tables, world, HoldsRoom
  <2>2. PICK row \in Lookup(intent[w]) :
          CASE row = None ->
                 GoTo(w, "execute") /\ UNCHANGED <<intent, id, scope, status>>
            [] row # None /\ ~KeyUsable(row, now) -> Refuse(w)
            [] row # None /\ KeyUsable(row, now) /\ WindowElapsed(row, now) ->
                 /\ scope' = [scope EXCEPT ![w] = FreshWindow(row, now)]
                 /\ GoTo(w, "reset") /\ UNCHANGED <<intent, id, status>>
            [] OTHER -> Check(w, row)
    BY <1>2 DEF ReadKey
  <2>3. CASE row # None /\ KeyUsable(row, now) /\ WindowElapsed(row, now)
    <3>1. row \in KeyRow /\ row.id \in Key /\ keys[row.id] = row
      <4>1. intent[w].key \in Key \cup {NoKey}
        <5>1. PICK r \in RawIntents : intent[w] = Resolve(r)
          BY <2>1 DEF Intents
        <5> QED BY <5>1, PipelineAssumption DEF Resolve
      <4>2. \E k \in Key : row = keys[k]
        BY <2>3, <4>1 DEF Lookup
      <4> QED BY <2>3, <4>2 DEF PIInv, KeysOK
    <3>2. PICK fresh : fresh = FreshWindow(row, now)
      OBVIOUS
    <3>3. scope'[w] = fresh
      BY <1>1, <2>2, <2>3, <3>2 DEF LocalsTyped
    <3>4. fresh.id = row.id /\ fresh.window = row.window /\ fresh.since = now
      BY <3>1, <3>2 DEF FreshWindow, KeyRow
    <3>5. row.since + row.window < now
      <4>1. PICK s \in Nat, l \in Nat : s = row.since /\ l = row.window
        BY <3>1 DEF KeyRow
      <4>2. now - s > l
        BY <2>3, <4>1 DEF WindowElapsed
      <4> QED BY <1>1, <4>1, <4>2
    <3> QED BY <1>1, <2>1, <3>1, <3>3, <3>4, <3>5 DEF Due
  <2>4. CASE ~(row # None /\ KeyUsable(row, now) /\ WindowElapsed(row, now))
    <3>1. pc'[w] \in {"execute", "record", "idle"}
      BY <1>1, <2>2, <2>4 DEF GoTo, Refuse, Reject, Finish, Check, LocalsTyped
    <3> QED BY <3>1 DEF Due
  <2> QED BY <2>3, <2>4
<1>3. CASE Receive(w)
  <2>1. PICK i \in Intents : pc'[w] = FirstStage(i.route)
    BY <1>1, <1>3 DEF Receive, GoTo, LocalsTyped
  <2>2. FirstStage(i.route) # "reset"
    BY <2>1, RowAssumptions DEF FirstStage, Route
  <2> QED BY <2>1, <2>2 DEF Due
<1>4. CASE ReadSession(w) \/ CreateSession(w) \/ ResetWindow(w)
  <2>1. pc'[w] # "reset"
    BY <1>1, <1>4
       DEF ReadSession, CreateSession, ResetWindow, Guard, Check, Refuse, Reject,
           Finish, GoTo, LocalsTyped
  <2> QED BY <2>1 DEF Due
<1>5. CASE Execute(w) \/ Record(w) \/ Charge(w) \/ Throw(w)
  <2>1. pc'[w] # "reset"
    BY <1>1, <1>5
       DEF Execute, Record, Charge, Throw, Finish, GoTo, LocalsTyped
  <2> QED BY <2>1 DEF Due
<1> QED BY <1>2, <1>3, <1>4, <1>5 DEF Step

\* Of one request at a time, that is all there is to it.
LEMMA NextWaiting ==
    ASSUME PIInv, Alone, [PNext]_pvars, \A w \in Worker : Scopeless(w) /\ Due(w)
    PROVE  \A w \in Worker : (Scopeless(w) /\ Due(w))'
<1>1. ASSUME NEW v \in Worker, Step(v)
      PROVE  \A w \in Worker : (Scopeless(w) /\ Due(w))'
  BY <1>1, StepScopeless, StepDue DEF Alone
<1>2. CASE Crash
  BY <1>2 DEF Crash, Scopeless, Due
<1>3. ~IssueKey
  BY DEF Alone, IssueKey
<1>4. CASE PutSession \/ Tick \/ UNCHANGED pvars
  <2>1. UNCHANGED <<keys, pc, intent, scope>>
    BY <1>4 DEF PutSession, Tick, pvars, tables, locals
  <2>2. PICK t \in Nat : now = t /\ (now' = t \/ now' = t + 1)
    BY <1>4 DEF PutSession, Tick, pvars, world, PIInv
  <2>3. ASSUME NEW w \in Worker PROVE Due(w)'
    <3>1. CASE pc[w] = "reset"
      <4>1. PICK s \in Nat : s = scope[w].since
        BY <3>1 DEF PIInv, LocalsTyped, HoldsRoom, KeyRow
      <4>2. s <= t
        BY <2>2, <3>1, <4>1 DEF Due
      <4>3. s <= now'
        BY <2>2, <4>2
      <4> QED BY <2>1, <3>1, <4>1, <4>3 DEF Due
    <3>2. CASE pc[w] # "reset"
      BY <2>1, <3>2 DEF Due
    <3> QED BY <3>1, <3>2
  <2>4. \A w \in Worker : Scopeless(w)'
    BY <2>1 DEF Scopeless
  <2> QED BY <2>3, <2>4
<1> QED BY <1>1, <1>2, <1>3, <1>4 DEF PNext

\* What counts for a key is a finite sum, and so is what is used of it.
LEMMA Usage ==
    ASSUME LedgerInv, NEW k \in Key
    PROVE  /\ Priced(WindowOf(k)) /\ CarriedBy(WindowOf(k)) \in Nat
           /\ UsedInWindow(k) = IF keys[k] = None THEN 0 ELSE CarriedBy(WindowOf(k))
           /\ UsedInWindow(k) \in Nat /\ CapOf(k) \in Nat
<1>1. WindowOf(k) \subseteq broadcasts
  BY DEF WindowOf, Under
<1>2. IsFiniteSet(WindowOf(k))
  BY <1>1, FS_Subset DEF LedgerInv
<1>3. Priced(WindowOf(k))
  BY <1>1, <1>2, LedgerFacts DEF Priced
<1>4. CarriedBy(WindowOf(k)) \in Nat
  BY <1>3, CarriedAdds
<1>5. UsedInWindow(k) = IF keys[k] = None THEN 0 ELSE CarriedBy(WindowOf(k))
  BY DEF UsedInWindow, WindowOf
<1> QED BY <1>3, <1>4, <1>5, LedgerFacts DEF CapOf

\* Where the row's window and the calls stay, so does what is used.
LEMMA UsageStays ==
    ASSUME NEW k \in Key, UNCHANGED broadcasts, keys[k] = None <=> keys'[k] = None,
           keys[k] # None => /\ keys'[k].since = keys[k].since
                             /\ keys'[k].max = keys[k].max
                             /\ keys'[k].window = keys[k].window
    PROVE  /\ UsedInWindow(k)' = UsedInWindow(k) /\ CapOf(k)' = CapOf(k)
           /\ OpenedAt(k)' = OpenedAt(k) /\ LengthOf(k)' = LengthOf(k)
<1>1. CASE keys[k] = None
  BY <1>1 DEF UsedInWindow, CapOf, OpenedAt, LengthOf
<1>2. CASE keys[k] # None
  <2>1. WindowOf(k)' = WindowOf(k)
    BY <1>2 DEF WindowOf, Under
  <2> QED BY <1>2, <2>1 DEF UsedInWindow, WindowOf, CapOf, OpenedAt, LengthOf
<1> QED BY <1>1, <1>2

\* Steps that leave a key's windows, caps and calls alone do not show in the
\* ledger, but for the clock.
LEMMA LedgerStays ==
    ASSUME LedgerInv, UNCHANGED broadcasts,
           \A k \in Key : /\ keys[k] = None <=> keys'[k] = None
                          /\ keys[k] # None => /\ keys'[k].since = keys[k].since
                                               /\ keys'[k].max = keys[k].max
                                               /\ keys'[k].window = keys[k].window
    PROVE  /\ IsFiniteSet(broadcasts)' /\ Windowed'
           /\ now' = now => UNCHANGED Ledger!ledger
           /\ now' = now + 1 => Ledger!Advance
           /\ \A k \in Key : UsedInWindow(k)' = UsedInWindow(k)
<1>1. \A k \in Key : /\ UsedInWindow(k)' = UsedInWindow(k) /\ CapOf(k)' = CapOf(k)
                     /\ OpenedAt(k)' = OpenedAt(k) /\ LengthOf(k)' = LengthOf(k)
  BY UsageStays
<1>2. /\ now' = now => UNCHANGED Ledger!ledger
      /\ now' = now + 1 => Ledger!Advance
  BY <1>1 DEF Ledger!ledger, Ledger!Advance
<1>3. ASSUME NEW b \in broadcasts, b.scope # None
      PROVE  keys'[b.scope.id] # None /\ b.scope.since <= keys'[b.scope.id].since
  <2>1. PICK k \in Key : k = b.scope.id
    BY <1>3, LedgerFacts
  <2>2. keys[k] # None /\ b.scope.since <= keys[k].since
    BY <1>3, <2>1 DEF LedgerInv, Windowed
  <2> QED BY <2>1, <2>2
<1>4. IsFiniteSet(broadcasts)' /\ Windowed'
  BY <1>3 DEF LedgerInv, Windowed
<1> QED BY <1>1, <1>2, <1>4

\* Unless the request is between its call and the end of its charge, what was
\* sent is booked.
LEMMA Settled ==
    ASSUME LedgerInv, Alone, NEW w \in Worker, pc[w] \notin {"record", "charge"}
    PROVE  \A k \in Key : keys[k] # None => UsedInWindow(k) <= keys[k].spent
BY DEF LedgerInv, Booked, Owing, Alone

\* What a step has to show, besides the invariants it is known to keep.
LedgerStep ==
    /\ IsFiniteSet(broadcasts)' /\ Windowed'
    /\ \A k \in Key : Booked(k)'
    /\ [Ledger!LNext]_(Ledger!ledger)

\* A step of a request that has nothing to book and sends nothing.
LEMMA QuietLedger ==
    ASSUME LedgerInv, Alone, UNCHANGED <<keys, broadcasts, now>>,
           NEW w \in Worker, pc[w] \notin {"record", "charge"}
    PROVE  LedgerStep
<1>1. /\ IsFiniteSet(broadcasts)' /\ Windowed' /\ UNCHANGED Ledger!ledger
      /\ \A k \in Key : UsedInWindow(k)' = UsedInWindow(k)
  BY LedgerStays
<1>2. \A k \in Key : Booked(k)'
  BY <1>1, Settled DEF Booked
<1> QED BY <1>1, <1>2 DEF LedgerStep

\* The record: the request still owes what it owed, or has nothing to book.
LEMMA RecordLedger ==
    ASSUME LedgerInv, Alone, NEW w \in Worker, Record(w)
    PROVE  LedgerStep
<1>1. UNCHANGED <<keys, broadcasts, now>> /\ pc[w] = "record"
  BY DEF Record, world
<1>2. /\ IsFiniteSet(broadcasts)' /\ Windowed' /\ UNCHANGED Ledger!ledger
      /\ \A k \in Key : UsedInWindow(k)' = UsedInWindow(k)
  BY <1>1, LedgerStays
<1>3. ASSUME NEW k \in Key PROVE Booked(k)'
  <2>1. CASE ToCharge(w)
    <3>1. pc'[w] = "charge" /\ UNCHANGED <<intent, scope, status>>
      BY <2>1 DEF Record, GoTo, LedgerInv, AloneInv, PIInv, LocalsTyped
    <3>2. Owing(w, k) => Owing(w, k)'
      BY <1>1, <1>2, <3>1 DEF Owing, ToCharge
    <3> QED BY <1>1, <1>2, <3>2 DEF LedgerInv, Booked, Alone
  <2>2. CASE ~ToCharge(w)
    <3>1. \A v \in Worker : ~Owing(v, k)
      BY <2>2 DEF Owing, Alone
    <3> QED BY <1>1, <1>2, <3>1 DEF LedgerInv, Booked
  <2> QED BY <2>1, <2>2
<1> QED BY <1>2, <1>3 DEF LedgerStep

\* The charge: what the request owed is now in the row.
LEMMA ChargeLedger ==
    ASSUME LedgerInv, Alone, NEW w \in Worker, Charge(w)
    PROVE  LedgerStep
<1>1. /\ UNCHANGED <<broadcasts, now>> /\ intent[w] \in Intents
      /\ scope[w] \in KeyRow
      /\ scope[w].id \in Key /\ keys[scope[w].id] = scope[w] /\ scope[w] # None
  BY DEF Charge, world, LedgerInv, AloneInv, PIInv, LocalsTyped, HoldsRoom, InHand,
         KeyRow
<1>2. PICK k0 \in Key : k0 = scope[w].id
  BY <1>1
<1>3. PICK spend \in Nat : spend = intent[w].spend
  BY <1>1, LedgerFacts
<1>4. /\ \A k \in Key : k # k0 => keys'[k] = keys[k]
      /\ keys'[k0] # None /\ keys'[k0].since = keys[k0].since
      /\ keys'[k0].window = keys[k0].window
      /\ keys'[k0].max = keys[k0].max /\ keys'[k0].spent = keys[k0].spent + spend
  <2>1. keys[k0] \in KeyRow /\ keys[k0].spent \in Nat
    BY <1>1, <1>2, LedgerFacts
  <2>2. CASE spend = 0
    <3>1. keys' = keys
      BY <1>3, <2>2 DEF Charge
    <3> QED BY <1>1, <1>2, <2>1, <2>2, <3>1
  <2>3. CASE spend > 0
    <3>1. PICK row : row = Charged(keys[k0], intent[w])
      OBVIOUS
    <3>2. keys' = [keys EXCEPT ![k0] = row]
      BY <1>2, <1>3, <2>3, <3>1, ChargeAdds DEF LedgerInv
    <3>3. /\ row \in KeyRow /\ row.spent = keys[k0].spent + spend
          /\ row.max = keys[k0].max /\ row.since = keys[k0].since
          /\ row.window = keys[k0].window
      BY <1>1, <1>3, <2>1, <3>1, ChargedFacts DEF Charged, KeyRow
    <3>4. keys \in [Key -> KeyRow \cup {None}]
      BY DEF LedgerInv, AloneInv, PIInv, KeysOK
    <3> QED BY <3>2, <3>3, <3>4, RowAssumptions
  <2> QED BY <1>3, <2>2, <2>3
<1>5. /\ IsFiniteSet(broadcasts)' /\ Windowed' /\ UNCHANGED Ledger!ledger
      /\ \A k \in Key : UsedInWindow(k)' = UsedInWindow(k)
  <2>1. \A k \in Key : /\ keys[k] = None <=> keys'[k] = None
                       /\ keys[k] # None => /\ keys'[k].since = keys[k].since
                                            /\ keys'[k].max = keys[k].max
                                            /\ keys'[k].window = keys[k].window
    BY <1>1, <1>2, <1>4
  <2> QED BY <1>1, <2>1, LedgerStays
<1>6. ASSUME NEW k \in Key, keys'[k] # None PROVE UsedInWindow(k)' <= keys'[k].spent
  <2>1. CASE k = k0
    <3>1. PICK u \in Nat : u = UsedInWindow(k0)
      BY Usage
    <3>2. PICK s \in Nat : s = keys[k0].spent
      BY <1>1, <1>2, LedgerFacts
    <3>3. u <= s + spend
      BY <1>1, <1>2, <1>3, <3>1, <3>2 DEF LedgerInv, Booked, Owing, Alone
    <3> QED BY <1>4, <1>5, <2>1, <3>1, <3>2, <3>3
  <2>2. CASE k # k0
    <3>1. keys'[k] = keys[k] /\ \A v \in Worker : ~Owing(v, k)
      BY <1>2, <1>4, <2>2 DEF Owing, Alone
    <3> QED BY <1>5, <1>6, <3>1 DEF LedgerInv, Booked
  <2> QED BY <2>1, <2>2
<1> QED BY <1>5, <1>6 DEF LedgerStep, Booked

\* The reset of a window: nothing was sent in the one that starts.
LEMMA ResetLedger ==
    ASSUME LedgerInv, Alone, NEW w \in Worker, ResetWindow(w)
    PROVE  LedgerStep
<1>1. /\ scope[w] \in KeyRow /\ scope[w].id \in Key /\ scope[w] # None
      /\ KeysOK /\ Upsert(scope[w]) /\ keys[scope[w].id] # None
      /\ keys[scope[w].id].agent = scope[w].agent
      /\ keys[scope[w].id].max = scope[w].max
      /\ keys[scope[w].id].since < scope[w].since
      /\ keys[scope[w].id].since + keys[scope[w].id].window < scope[w].since
      /\ keys[scope[w].id].window = scope[w].window
      /\ scope[w].since <= now
  BY DEF ResetWindow, LedgerInv, Due, AloneInv, PIInv, LocalsTyped, HoldsRoom, InHand, KeyRow
<1>2. /\ pc[w] = "reset" /\ UNCHANGED <<broadcasts, now>> /\ now \in Nat
  BY DEF ResetWindow, world, LedgerInv, AloneInv, PIInv
<1>3. PICK row \in KeyRow, k0 \in Key : row = scope[w] /\ k0 = scope[w].id
  BY <1>1
<1>4. /\ keys' = [keys EXCEPT ![k0] = row] /\ row # None
      /\ row.since \in Nat /\ row.spent \in Nat
  BY <1>1, <1>3, StoredAsIs DEF KeyRow
<1>5. keys'[k0] = row /\ \A k \in Key : k # k0 => keys'[k] = keys[k]
  BY <1>1, <1>4 DEF KeysOK
<1>6. \A k \in Key : k # k0 => /\ UsedInWindow(k)' = UsedInWindow(k)
                               /\ OpenedAt(k)' = OpenedAt(k)
  BY <1>2, <1>5, UsageStays
<1>7. \A k \in Key : CapOf(k)' = CapOf(k) /\ LengthOf(k)' = LengthOf(k)
  BY <1>1, <1>3, <1>4, <1>5 DEF CapOf, LengthOf
<1>8. ASSUME NEW b \in broadcasts, b.scope # None
      PROVE  /\ keys'[b.scope.id] # None /\ b.scope.since <= keys'[b.scope.id].since
             /\ b.scope.id = k0 => b.scope.since # row.since
  <2>1. PICK k \in Key, since \in Nat : k = b.scope.id /\ since = b.scope.since
    BY <1>8, LedgerFacts
  <2>2. keys[k] # None /\ since <= keys[k].since /\ keys[k].since \in Nat
    BY <1>8, <2>1, LedgerFacts DEF LedgerInv, Windowed
  <2>3. CASE k = k0
    <3>1. since < row.since
      BY <1>1, <1>3, <1>4, <2>2, <2>3
    <3> QED BY <1>4, <1>5, <2>1, <2>3, <3>1
  <2>4. CASE k # k0
    BY <1>5, <2>1, <2>2, <2>4
  <2> QED BY <2>3, <2>4
<1>9. UsedInWindow(k0)' = 0
  <2>1. WindowOf(k0)' = {}
    BY <1>2, <1>5, <1>8 DEF WindowOf, Under
  <2>2. CarriedBy({}) = 0
    BY CarriedAdds, FS_EmptySet DEF Priced
  <2> QED BY <1>4, <1>5, <2>1, <2>2 DEF UsedInWindow, WindowOf
<1>10. Ledger!NewWindow(k0)
  <2> DEFINE opened == [k \in Key |-> OpenedAt(k)]
             length == [k \in Key |-> LengthOf(k)]
             used == [k \in Key |-> UsedInWindow(k)]
  <2>1. row.since \in 0..now
    BY <1>1, <1>2, <1>3, <1>4
  <2>2. opened[k0] + length[k0] < row.since
    BY <1>1, <1>3 DEF OpenedAt, LengthOf
  <2>3. opened' = [opened EXCEPT ![k0] = row.since]
    <3>1. OpenedAt(k0)' = row.since
      BY <1>4, <1>5 DEF OpenedAt
    <3> QED BY <1>6, <3>1
  <2>4. used' = [used EXCEPT ![k0] = 0]
    BY <1>6, <1>9
  <2>5. UNCHANGED <<[k \in Key |-> CapOf(k)], length, now>>
    BY <1>2, <1>7
  <2>6. \E t \in 0..now : opened[k0] + length[k0] < t /\ opened' = [opened EXCEPT ![k0] = t]
    BY <2>1, <2>2, <2>3
  <2> QED BY <2>4, <2>5, <2>6 DEF Ledger!NewWindow
<1>11. ASSUME NEW k \in Key, keys'[k] # None PROVE UsedInWindow(k)' <= keys'[k].spent
  <2>1. CASE k = k0
    BY <1>4, <1>5, <1>9, <2>1
  <2>2. CASE k # k0
    BY <1>2, <1>5, <1>6, <1>11, <2>2, Settled
  <2> QED BY <2>1, <2>2
<1>12. IsFiniteSet(broadcasts)' /\ Windowed'
  BY <1>2, <1>8 DEF LedgerInv, Windowed
<1> QED BY <1>10, <1>11, <1>12 DEF LedgerStep, Ledger!LNext, Booked

\* A call sent under a key: it costs no more than the room that was checked,
\* and is what the request owes.
LEMMA SendLedger ==
    ASSUME LedgerInv, Sequential, NEW w \in Worker, Execute(w), Broadcast(w),
           status'[w] = "submitted"
    PROVE  LedgerStep
<1>1. /\ pc[w] = "execute" /\ keys' = keys /\ intent[w] \in Intents
      /\ UNCHANGED <<intent, scope, now>> /\ pc'[w] = "record"
      /\ scope[w] \in KeyRow \cup {None}
      /\ scope[w] # None => /\ keys[scope[w].id] = scope[w] /\ scope[w].id \in Key
                            /\ WithinCap(scope[w], intent[w])
  BY DEF Execute, GoTo, tables, LedgerInv, AloneInv, PIInv, LocalsTyped, HoldsRoom,
         InHand, KeyRow
<1>2. PICK sent : /\ sent.id = id[w] /\ sent.intent = intent[w] /\ sent.scope = scope[w]
                  /\ broadcasts' = broadcasts \cup {sent}
  BY DEF Broadcast
<1>3. sent \notin broadcasts
  BY <1>1, <1>2 DEF LedgerInv, AuditInv, Accounted, Before, Sent
<1>4. \A k \in Key : keys[k] # None => UsedInWindow(k) <= keys[k].spent
  BY <1>1, Settled DEF Sequential
<1>5. IsFiniteSet(broadcasts)'
  BY <1>2, FS_AddElement DEF LedgerInv
<1>6. Windowed'
  <2>1. ASSUME scope[w] # None
        PROVE  /\ keys[scope[w].id] # None
               /\ scope[w].since <= keys[scope[w].id].since
    BY <1>1, <2>1 DEF KeyRow
  <2> QED BY <1>1, <1>2, <2>1 DEF LedgerInv, Windowed
<1>7. \A k \in Key : /\ CapOf(k)' = CapOf(k) /\ OpenedAt(k)' = OpenedAt(k)
                     /\ LengthOf(k)' = LengthOf(k)
  BY <1>1 DEF CapOf, OpenedAt, LengthOf
<1>8. ASSUME NEW k \in Key, scope[w] = None \/ scope[w].id # k
      PROVE  UsedInWindow(k)' = UsedInWindow(k)
  <2>1. WindowOf(k)' = WindowOf(k)
    BY <1>1, <1>2, <1>8 DEF WindowOf, Under
  <2> QED BY <1>1, <2>1 DEF UsedInWindow, WindowOf
<1>9. CASE scope[w] = None
  <2>1. \A k \in Key : UsedInWindow(k)' = UsedInWindow(k)
    BY <1>8, <1>9
  <2>2. UNCHANGED Ledger!ledger
    BY <1>1, <1>7, <2>1 DEF Ledger!ledger
  <2>3. \A k \in Key : Booked(k)'
    BY <1>1, <1>4, <2>1 DEF Booked
  <2> QED BY <1>5, <1>6, <2>2, <2>3 DEF LedgerStep
<1>10. CASE scope[w] # None
  <2>1. PICK k0 \in Key : k0 = scope[w].id
    BY <1>1, <1>10
  <2>2. PICK carried \in Nat, spend \in Nat :
           carried = intent[w].carried /\ spend = intent[w].spend
    BY <1>1, LedgerFacts
  <2>3. carried <= IF intent[w].route = "intents" THEN spend ELSE 0
    <3>1. intent[w].route # "webmcp"
      BY <1>1, <1>10 DEF LedgerInv, Scopeless
    <3> QED BY <1>1, <2>2, <3>1 DEF Sequential, AllBooked
  <2>4. PICK u \in Nat, s \in Nat, m \in Nat :
           u = UsedInWindow(k0) /\ s = keys[k0].spent /\ m = keys[k0].max
    BY <1>1, <1>10, <2>1, LedgerFacts, Usage
  <2>5. u <= s /\ s + spend <= m /\ CapOf(k0) = m
    BY <1>1, <1>4, <1>10, <2>1, <2>2, <2>4 DEF WithinCap, CapOf
  <2>6. UsedInWindow(k0)' = u + carried
    <3>1. WindowOf(k0)' = WindowOf(k0) \cup {sent}
      BY <1>1, <1>2, <1>10, <2>1 DEF WindowOf, Under
    <3>2. sent \notin WindowOf(k0) /\ sent.intent.carried = carried
      BY <1>2, <1>3, <2>2 DEF WindowOf, Under
    <3>3. CarriedBy(WindowOf(k0) \cup {sent}) = CarriedBy(WindowOf(k0)) + carried
      BY <2>2, <3>2, Usage, CarriedAdds
    <3>4. u = CarriedBy(WindowOf(k0))
      BY <1>1, <1>10, <2>1, <2>4, Usage
    <3>5. UsedInWindow(k0)' = CarriedBy(WindowOf(k0)')
      BY <1>1, <1>10, <2>1 DEF UsedInWindow, WindowOf
    <3> QED BY <3>1, <3>3, <3>4, <3>5
  <2>7. \A k \in Key : k # k0 => UsedInWindow(k)' = UsedInWindow(k)
    BY <1>8, <2>1
  <2>8. Ledger!Spend(k0, carried)
    <3> DEFINE used == [k \in Key |-> UsedInWindow(k)]
    <3>1. u + carried <= m
      BY <2>3, <2>4, <2>5
    <3>2. UsedInWindow(k0) = u /\ UsedInWindow(k0) + carried <= CapOf(k0)
      BY <2>4, <2>5, <3>1
    <3>3. used' = [used EXCEPT ![k0] = @ + carried]
      BY <2>6, <2>7, <3>2
    <3>4. UNCHANGED <<[k \in Key |-> CapOf(k)], [k \in Key |-> OpenedAt(k)],
                      [k \in Key |-> LengthOf(k)], now>>
      BY <1>1, <1>7
    <3> QED BY <3>2, <3>3, <3>4 DEF Ledger!Spend
  <2>9. carried \in {i.carried : i \in Intents}
    BY <1>1, <2>2
  <2>10. ASSUME NEW k \in Key, keys[k] # None
         PROVE  UsedInWindow(k)' <= keys[k].spent \/ Owing(w, k)'
    <3>1. CASE k # k0
      BY <1>4, <2>7, <2>10, <3>1
    <3>2. CASE k = k0 /\ intent[w].route = "intents"
      BY <1>1, <1>10, <2>1, <2>2, <2>3, <2>4, <2>5, <2>6, <3>2 DEF Owing, ToCharge
    <3>3. CASE k = k0 /\ intent[w].route # "intents"
      BY <2>3, <2>4, <2>5, <2>6, <3>3
    <3> QED BY <3>1, <3>2, <3>3
  <2>11. \A k \in Key : Booked(k)'
    BY <1>1, <2>10 DEF Booked
  <2> QED BY <1>5, <1>6, <2>8, <2>9, <2>11 DEF LedgerStep, Ledger!LNext
<1> QED BY <1>9, <1>10

LEMMA ExecuteLedger ==
    ASSUME LedgerInv, Sequential, NEW w \in Worker, Execute(w)
    PROVE  LedgerStep
<1>1. pc[w] = "execute" /\ keys' = keys /\ now' = now
  BY DEF Execute, tables
<1>2. UNCHANGED broadcasts \/ (Broadcast(w) /\ status' = [status EXCEPT ![w] = "submitted"])
  BY OutcomeFacts DEF Execute, Sequential
<1>3. CASE UNCHANGED broadcasts
  BY <1>1, <1>3, QuietLedger DEF Sequential
<1>4. CASE Broadcast(w) /\ status' = [status EXCEPT ![w] = "submitted"]
  <2>1. status'[w] = "submitted"
    BY <1>4 DEF LedgerInv, AuditInv, PTypeOK
  <2> QED BY <1>4, <2>1, SendLedger
<1> QED BY <1>2, <1>3, <1>4

LEMMA NextLedger ==
    ASSUME LedgerInv, Sequential, [PNext]_pvars
    PROVE  LedgerStep
<1>1. ASSUME NEW w \in Worker, Step(w) PROVE LedgerStep
  <2>1. ~Throw(w)
    BY DEF Sequential, Throw
  <2>2. CASE Receive(w) \/ ReadSession(w) \/ CreateSession(w) \/ ReadKey(w)
    <3>1. UNCHANGED <<keys, broadcasts, now>> /\ pc[w] \notin {"record", "charge"}
      BY <2>2 DEF Receive, ReadSession, CreateSession, ReadKey, tables, world
    <3> QED BY <3>1, QuietLedger DEF Sequential
  <2> QED BY <1>1, <2>1, <2>2, ResetLedger, ExecuteLedger, RecordLedger, ChargeLedger
          DEF Step, Sequential
<1>2. ~Crash /\ ~IssueKey /\ ~PutSession
  BY DEF Sequential, Crash, IssueKey, PutSession
<1>3. CASE Tick \/ UNCHANGED pvars
  <2>1. /\ UNCHANGED <<keys, broadcasts, pc, intent, scope, status>>
        /\ now' = now \/ now' = now + 1
    BY <1>3 DEF Tick, pvars, tables, locals, world
  <2>2. /\ IsFiniteSet(broadcasts)' /\ Windowed' /\ [Ledger!Advance]_(Ledger!ledger)
        /\ \A k \in Key : UsedInWindow(k)' = UsedInWindow(k)
    BY <2>1, LedgerStays
  <2>3. \A k \in Key : Booked(k)'
    BY <2>1, <2>2 DEF LedgerInv, Booked, Owing, ToCharge
  <2> QED BY <2>2, <2>3 DEF LedgerStep, Ledger!LNext
<1> QED BY <1>1, <1>2, <1>3 DEF PNext

LEMMA NextLedgerInv ==
    ASSUME Sequential
    PROVE  LedgerInv /\ [PNext]_pvars => LedgerInv' /\ [Ledger!LNext]_(Ledger!ledger)
<1> SUFFICES ASSUME LedgerInv, [PNext]_pvars
             PROVE  LedgerInv' /\ [Ledger!LNext]_(Ledger!ledger)
  OBVIOUS
<1>1. AuditInv' /\ AloneInv' /\ \A w \in Worker : (Scopeless(w) /\ Due(w))'
  BY NextAuditInv, NextAloneInv, NextWaiting DEF LedgerInv, AloneInv, Sequential
<1>2. LedgerStep
  BY NextLedger
<1> QED BY <1>1, <1>2 DEF LedgerInv, LedgerStep

\* At first nothing is sent.
LEMMA InitLedger == PInit => LedgerInv /\ Ledger!LInit
<1> SUFFICES ASSUME PInit PROVE LedgerInv /\ Ledger!LInit
  OBVIOUS
<1>1. AuditInv /\ AloneInv /\ broadcasts = {}
  BY InitAuditInv, InitAlone DEF PInit
<1>2. ASSUME NEW k \in Key PROVE UsedInWindow(k) = 0
  <2>1. WindowOf(k) = {}
    BY <1>1 DEF WindowOf, Under
  <2>2. CarriedBy({}) = 0
    BY CarriedAdds, FS_EmptySet DEF Priced
  <2> QED BY <2>1, <2>2 DEF UsedInWindow, WindowOf
<1>3. \A k \in Key : keys[k] # None => /\ keys[k].spent \in Nat /\ keys[k].max \in Nat
                                        /\ keys[k].window \in Nat
  BY <1>1 DEF AloneInv, PIInv, KeysOK, KeyRow
<1>4. LedgerInv
  <2>1. \A w \in Worker : Scopeless(w) /\ Due(w)
    BY DEF PInit, Scopeless, Due
  <2> QED BY <1>1, <1>2, <1>3, <2>1, FS_EmptySet DEF LedgerInv, Windowed, Booked
<1>5. \A k \in Key : CapOf(k) \in Nat /\ LengthOf(k) \in Nat
  BY <1>3 DEF CapOf, LengthOf
<1>6. \A k \in Key : OpenedAt(k) = 0
  <2>1. ASSUME NEW k \in Key, keys[k] # None PROVE keys[k].since = 0
    <3>1. PICK t \in KeyTemplates : keys[k] = Issued(t, 0)
      BY <2>1 DEF PInit
    <3> QED BY <3>1, RowAssumptions DEF Issued, KeyRow
  <2> QED BY <2>1 DEF OpenedAt
<1>7. now = 0
  BY DEF PInit
<1> QED BY <1>2, <1>4, <1>5, <1>6, <1>7 DEF Ledger!LInit

\* With one request at a time, nothing failing and no call that carries more
\* than is booked for it, the pipeline keeps the promise of a session key: its
\* check of the cap, its call and its charge, three steps with the store between
\* them, implement one step of SpendLedger.
THEOREM LedgerKept == ASSUME Sequential PROVE PSpec => LedgerImplemented
BY InitLedger, NextLedgerInv, PTL DEF PSpec, LedgerImplemented, Ledger!LSpec

\* What is sent under a key within its window stays within its cap, then; of
\* requests that run concurrently this is a finding.
THEOREM SequentialCapHolds == ASSUME Sequential PROVE PSpec => []CapHolds
<1>1. LedgerInv => CapHolds
  <2> SUFFICES ASSUME LedgerInv, NEW k \in Key PROVE UsedInWindow(k) <= CapOf(k)
    BY DEF CapHolds
  <2>1. CASE keys[k] = None
    BY <2>1, Usage DEF UsedInWindow, CapOf
  <2>2. CASE keys[k] # None
    <3>1. PICK u \in Nat, s \in Nat, m \in Nat :
             u = UsedInWindow(k) /\ s = keys[k].spent /\ m = keys[k].max
      BY <2>2, LedgerFacts, Usage
    <3>2. s <= m /\ CapOf(k) = m
      BY <2>2, <3>1, LedgerFacts DEF CapOf
    <3>3. CASE u <= s
      BY <3>1, <3>2, <3>3
    <3>4. ASSUME NEW w \in Worker, Owing(w, k) PROVE u <= m
      <4>1. /\ scope[w] # None /\ scope[w].id = k /\ intent[w] \in Intents
            /\ keys[k] = scope[w] /\ WithinCap(scope[w], intent[w])
        BY <3>4 DEF Owing, ToCharge, LedgerInv, AloneInv, PIInv, HoldsRoom, InHand
      <4>2. PICK spend \in Nat : spend = intent[w].spend
        BY <4>1, LedgerFacts
      <4>3. u <= s + spend /\ s + spend <= m
        BY <3>1, <3>4, <4>1, <4>2 DEF Owing, WithinCap
      <4> QED BY <4>3
    <3> QED BY <2>2, <3>1, <3>2, <3>3, <3>4 DEF LedgerInv, Booked
  <2> QED BY <2>1, <2>2
<1> QED BY <1>1, InitLedger, NextLedgerInv, PTL DEF PSpec
=============================================================================
