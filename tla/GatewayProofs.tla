--------------------------- MODULE GatewayProofs ---------------------------
(***************************************************************************)
(* The gateway with the memory limiter, for any requests, keys, limits and *)
(* windows: it implements the sliding window, so it keeps the rate; its    *)
(* lists stay bounded; its circuit opens when it should, and it turns away *)
(* nobody without reason.                                                  *)
(***************************************************************************)
EXTENDS MemoryGateway, FiniteSetTheorems, TLAPS

\* The state has its types.
MTypes ==
    /\ pc \in [Request -> Stage]
    /\ stamp \in [Request -> Nat \cup {Never}]
    /\ hits \in [ApiKey -> SUBSET Request]
    /\ now \in Nat

\* The limiter remembers every admission that is younger than the window.
Remembered ==
    \A r \in Admitted :
        /\ stamp[r] # Never
        /\ now - Window < stamp[r] => r \in hits[KeyOf[r]]

MInv == MTypes /\ Remembered

-----------------------------------------------------------------------------

\* Nothing is admitted at first.
LEMMA InitMInv == GInit => MInv
<1> SUFFICES ASSUME GInit PROVE MInv
  OBVIOUS
<1>1. MTypes
  BY DEF GInit, MTypes, Stage, Final
<1>2. Admitted = {}
  BY DEF GInit, Admitted, Through, Reporting
<1> QED BY <1>1, <1>2 DEF MInv, Remembered

\* A step of a handler that is not its Allow: nobody is admitted, no hit
\* forgotten.
LEMMA HandlerKeeps ==
    ASSUME MInv, NEW r \in Request, Authenticate(r) \/ Proxy(r) \/ RecordFailure(r)
    PROVE  MInv' /\ Admitted' = Admitted /\ UNCHANGED <<stamp, hits, now>>
<1>1. UNCHANGED <<stamp, hits, now>>
  BY DEF Authenticate, Proxy, RecordFailure, store
<1>2. PICK stage \in Stage :
        /\ pc' = [pc EXCEPT ![r] = stage]
        /\ stage \in Through <=> pc[r] \in Through
  BY DEF Authenticate, Proxy, RecordFailure, GoTo, Stage, Final, Through, Reporting
<1>3. Admitted' = Admitted
  BY <1>2 DEF Admitted, MInv, MTypes
<1>4. MTypes'
  BY <1>1, <1>2 DEF MInv, MTypes
<1> QED BY <1>1, <1>3, <1>4 DEF MInv, Remembered

\* What Allow does to the requests that are admitted.
LEMMA AllowFacts ==
    ASSUME MInv, NEW r \in Request, Allow(r)
    PROVE  /\ r \notin Admitted
           /\ stamp' = [stamp EXCEPT ![r] = now] /\ now' = now
           /\ Admitted' = Admitted \/ (Admitted' = Admitted \cup {r} /\ ~Limited(r))
<1>1. /\ pc[r] = "allow" /\ now' = now /\ stamp' = [stamp EXCEPT ![r] = now]
      /\ \/ pc' = [pc EXCEPT ![r] = "denied"]
         \/ pc' = [pc EXCEPT ![r] = "proxy"] /\ ~Limited(r)
  BY DEF Allow, GoTo
<1> QED BY <1>1 DEF MInv, MTypes, Admitted, Through, Reporting

\* Allow keeps the young hits, and an admitted request becomes one.
LEMMA AllowKeeps ==
    ASSUME MInv, NEW r \in Request, Allow(r) PROVE MInv'
<1>1. /\ r \notin Admitted /\ now' = now /\ now \in Nat
      /\ stamp' = [stamp EXCEPT ![r] = now]
      /\ Admitted' = Admitted \/ (Admitted' = Admitted \cup {r} /\ ~Limited(r))
  BY AllowFacts DEF MInv, MTypes
<1>2. PICK list \in SUBSET Request :
        /\ hits' = [hits EXCEPT ![KeyOf[r]] = list]
        /\ Kept(r) \subseteq list
        /\ ~Limited(r) => r \in list
  <2>1. KeyOf[r] \in ApiKey /\ Kept(r) \subseteq Request
    BY GatewayAssumption DEF Kept, Younger, MInv, MTypes
  <2> QED BY <2>1 DEF Allow
<1>3. MTypes'
  <2>1. pc' \in [Request -> Stage]
    BY DEF Allow, GoTo, MInv, MTypes, Stage, Final
  <2>2. stamp' \in [Request -> Nat \cup {Never}]
    BY <1>1 DEF MInv, MTypes
  <2>3. hits' \in [ApiKey -> SUBSET Request]
    BY <1>2 DEF MInv, MTypes
  <2> QED BY <1>1, <2>1, <2>2, <2>3 DEF MTypes
<1>4. ASSUME NEW s \in Admitted'
      PROVE  /\ stamp'[s] # Never
             /\ now' - Window < stamp'[s] => s \in hits'[KeyOf[s]]
  <2>1. s \in Request /\ KeyOf[s] \in ApiKey
    BY GatewayAssumption DEF Admitted
  <2>2. CASE s = r
    <3>1. stamp'[s] = now /\ now # Never
      BY <1>1, <2>1, <2>2 DEF MInv, MTypes, Never
    <3>2. s \in hits'[KeyOf[s]]
      BY <1>1, <1>2, <1>4, <2>1, <2>2 DEF MInv, MTypes
    <3> QED BY <3>1, <3>2
  <2>3. CASE s # r
    <3>1. s \in Admitted /\ stamp'[s] = stamp[s]
      BY <1>1, <1>4, <2>1, <2>3 DEF MInv, MTypes
    <3>2. stamp[s] # Never /\ (now - Window < stamp[s] => s \in hits[KeyOf[s]])
      BY <3>1 DEF MInv, Remembered
    <3>3. ASSUME now - Window < stamp[s] PROVE s \in hits'[KeyOf[s]]
      <4>1. CASE KeyOf[s] = KeyOf[r]
        <5>1. s \in Kept(r)
          BY <3>2, <3>3, <4>1 DEF Kept, Younger
        <5> QED BY <1>2, <2>1, <4>1, <5>1 DEF MInv, MTypes
      <4>2. CASE KeyOf[s] # KeyOf[r]
        BY <1>2, <2>1, <3>2, <3>3, <4>2 DEF MInv, MTypes
      <4> QED BY <4>1, <4>2
    <3> QED BY <1>1, <3>1, <3>2, <3>3
  <2> QED BY <2>2, <2>3
<1> QED BY <1>3, <1>4 DEF MInv, Remembered

\* A restart forgets everything, admissions too.
LEMMA RestartKeeps ==
    ASSUME MInv, Restart PROVE MInv' /\ Admitted' = {}
<1>1. Admitted' = {}
  BY DEF Restart, Admitted, Through, Reporting, MInv, MTypes
<1>2. MTypes'
  BY DEF Restart, MInv, MTypes, Stage, Final
<1> QED BY <1>1, <1>2 DEF MInv, Remembered

\* A hit that is young later is young now.
LEMMA TickKeeps ==
    ASSUME MInv, Tick PROVE MInv' /\ Admitted' = Admitted /\ UNCHANGED stamp
<1>0. PICK t \in Nat : t = now' /\ t = now + 1
  BY DEF Tick, MInv, MTypes
<1>1. UNCHANGED <<pc, stamp, hits>> /\ Admitted' = Admitted
  BY DEF Tick, handler, store, Admitted
<1>2. MTypes'
  BY <1>0, <1>1 DEF MInv, MTypes
<1>3. ASSUME NEW s \in Admitted, t - Window < stamp[s] PROVE now - Window < stamp[s]
  <2>1. stamp[s] \in Int /\ now \in Nat /\ Window \in Nat
    BY GatewayAssumption DEF Admitted, MInv, MTypes, Never
  <2> QED BY <1>0, <1>3, <2>1
<1> QED BY <1>0, <1>1, <1>2, <1>3 DEF MInv, Remembered

\* The invariant is inductive.
LEMMA NextMInv == MInv /\ [MNext]_gvars => MInv'
<1> SUFFICES ASSUME MInv, [MNext]_gvars PROVE MInv'
  OBVIOUS
<1>1. CASE UNCHANGED gvars
  BY <1>1 DEF gvars, handler, store, MInv, MTypes, Remembered, Admitted
<1>2. ASSUME NEW r \in Request, Serve(r) PROVE MInv'
  BY <1>2, HandlerKeeps, AllowKeeps DEF Serve
<1> QED BY <1>1, <1>2, RestartKeeps, TickKeeps DEF MNext

-----------------------------------------------------------------------------
(* The refinement.                                                         *)

AdmittedAt == [r \in Request |-> IF r \in Admitted THEN stamp[r] ELSE Never]

\* Both modules count alike.
LEMMA SameCardinality == \A S : Promise!Cardinality(S) = Cardinality(S)
BY DEF Promise!Cardinality, Cardinality

\* Where the limiter sees room, the window has room.
LEMMA RoomInWindow ==
    ASSUME MInv, NEW r \in Request, ~Limited(r)
    PROVE  Promise!Cardinality(Promise!Recent(KeyOf[r], now)) < Limit
<1> DEFINE recent == Promise!Recent(KeyOf[r], now)
<1>1. recent \subseteq Kept(r)
  <2> SUFFICES ASSUME NEW s \in recent PROVE s \in Kept(r)
    OBVIOUS
  <2>1. /\ s \in Request /\ KeyOf[s] = KeyOf[r] /\ s \in Admitted
        /\ now - Window < stamp[s]
    BY DEF Promise!Recent, Promise!Never, Never
  <2> QED BY <2>1 DEF MInv, Remembered, Kept, Younger
<1>2. Kept(r) \subseteq Request
  BY GatewayAssumption DEF Kept, Younger, MInv, MTypes
<1>3. /\ IsFiniteSet(Kept(r)) /\ Cardinality(Kept(r)) \in Nat
      /\ Cardinality(recent) \in Nat
      /\ Cardinality(recent) <= Cardinality(Kept(r))
  BY <1>1, <1>2, FS_Subset, FS_CardinalityType, GatewayAssumption
<1>4. Cardinality(recent) < Limit
  BY <1>3, GatewayAssumption DEF Limited
<1> QED BY <1>4, SameCardinality

\* The memory limiter is a sliding window: its steps are admissions where the
\* window has room, the passing of time, restarts, or invisible.
THEOREM MemoryLimiterRefines == MSpec => WindowImplemented
<1>1. GInit => Promise!WInit
  BY DEF GInit, Admitted, Through, Reporting, Promise!WInit, Promise!Never, Never
<1>2. MInv /\ [MNext]_gvars => [Promise!WNext]_(Promise!window)
  <2> SUFFICES ASSUME MInv, [MNext]_gvars PROVE [Promise!WNext]_(Promise!window)
    OBVIOUS
  <2>1. ASSUME Admitted' = Admitted, UNCHANGED <<stamp, now>>
        PROVE  UNCHANGED Promise!window
    BY <2>1 DEF Promise!window
  <2>2. CASE UNCHANGED gvars
    BY <2>1, <2>2 DEF gvars, handler, Admitted
  <2>3. ASSUME NEW r \in Request, Authenticate(r) \/ Proxy(r) \/ RecordFailure(r)
        PROVE  UNCHANGED Promise!window
    BY <2>1, <2>3, HandlerKeeps
  <2>4. ASSUME NEW r \in Request, Allow(r)
        PROVE  Promise!Admit(r) \/ UNCHANGED Promise!window
    <3>1. /\ r \notin Admitted /\ now' = now /\ stamp' = [stamp EXCEPT ![r] = now]
          /\ Admitted' = Admitted \/ (Admitted' = Admitted \cup {r} /\ ~Limited(r))
      BY <2>4, AllowFacts
    <3>2. CASE Admitted' = Admitted
      <4>1. AdmittedAt' = AdmittedAt
        BY <3>1, <3>2 DEF AdmittedAt, MInv, MTypes
      <4> QED BY <3>1, <4>1 DEF AdmittedAt, Promise!window
    <3>3. CASE Admitted' = Admitted \cup {r} /\ ~Limited(r)
      <4>1. AdmittedAt' = [AdmittedAt EXCEPT ![r] = now]
        BY <3>1, <3>3 DEF AdmittedAt, MInv, MTypes
      <4>2. AdmittedAt[r] = Never
        BY <3>1 DEF AdmittedAt
      <4> QED BY <3>1, <3>3, <4>1, <4>2, RoomInWindow
            DEF AdmittedAt, Promise!Admit, Promise!Never, Never
    <3> QED BY <3>1, <3>2, <3>3
  <2>5. CASE Restart
    <3>1. Admitted' = {} /\ now' = now
      BY <2>5, RestartKeeps DEF Restart
    <3> QED BY <3>1 DEF Promise!WNext, Promise!Forget, Promise!Never, Never
  <2>6. CASE Tick
    <3>1. Admitted' = Admitted /\ stamp' = stamp
      BY <2>6, TickKeeps
    <3>2. PICK t \in Nat : t = now' /\ t > now
      BY <2>6 DEF Tick, MInv, MTypes
    <3> QED BY <3>1, <3>2 DEF Promise!WNext, Promise!Advance
  <2> QED BY <2>2, <2>3, <2>4, <2>5, <2>6 DEF MNext, Serve, Promise!WNext
<1> QED BY <1>1, <1>2, InitMInv, NextMInv, PTL
        DEF MSpec, WindowImplemented, Promise!WSpec

-----------------------------------------------------------------------------
(* What the lists of the limiter hold.                                     *)

\* Every list is of its own key's requests, and each entry has its time.
OwnEntries ==
    \A k \in ApiKey :
        /\ \A r \in hits[k] : KeyOf[r] = k /\ stamp[r] # Never
        /\ \A r \in fails[k] : KeyOf[r] = k /\ failStamp[r] # Never

\* A request is stamped by its Allow, and again by its RecordFailure.
Stamped ==
    \A r \in Request :
        /\ pc[r] \in {"new", "allow"} => stamp[r] = Never
        /\ failStamp[r] # Never => pc[r] = "served"

\* No failure younger than the window is forgotten.
FailuresKept ==
    \A r \in Request :
        failStamp[r] # Never /\ now - FailWindow < failStamp[r]
            => r \in fails[KeyOf[r]]

LInv == GTypeOK /\ OwnEntries /\ Stamped /\ FailuresKept

\* The parts of LInv for one request and one key.
LEMMA LFacts ==
    ASSUME LInv, NEW r \in Request
    PROVE  /\ KeyOf[r] \in ApiKey
           /\ pc[r] \in Stage /\ now \in 0..MaxTime /\ now \in Nat /\ now # Never
           /\ stamp[r] \in Int /\ failStamp[r] \in Int
           /\ hits[KeyOf[r]] \subseteq Request /\ fails[KeyOf[r]] \subseteq Request
BY GatewayAssumption DEF LInv, GTypeOK, Never

\* A list of the limiter is finite.
LEMMA Sizes ==
    ASSUME NEW S \in SUBSET Request, NEW T \in SUBSET S
    PROVE  /\ IsFiniteSet(S) /\ Cardinality(S) \in Nat
           /\ Cardinality(T) \in Nat /\ Cardinality(T) <= Cardinality(S)
<1>1. IsFiniteSet(S)
  BY FS_Subset, GatewayAssumption
<1> QED BY <1>1, FS_Subset, FS_CardinalityType

\* The limiter starts with nothing, and so it does anew.
LEMMA EmptyLists ==
    ASSUME hits = [k \in ApiKey |-> {}], fails = [k \in ApiKey |-> {}],
           stamp = [r \in Request |-> Never], failStamp = [r \in Request |-> Never],
           pc \in [Request -> Stage], now \in 0..MaxTime
    PROVE  LInv
<1>1. \A k \in ApiKey : Cardinality(hits[k]) <= Limit
  BY FS_EmptySet, GatewayAssumption
<1> QED BY <1>1 DEF LInv, GTypeOK, OwnEntries, Stamped, FailuresKept, Never

LEMMA InitLInv == GInit => LInv
<1> SUFFICES ASSUME GInit PROVE LInv
  OBVIOUS
<1>1. pc \in [Request -> Stage] /\ now \in 0..MaxTime
  BY GatewayAssumption DEF GInit, Stage, Final
<1> QED BY <1>1, EmptyLists DEF GInit

\* The key is looked up, the answer passed on: no list changes, and no stamp.
LEMMA PassKeepsLists ==
    ASSUME LInv, NEW r \in Request, Authenticate(r) \/ Proxy(r) PROVE LInv'
<1>1. UNCHANGED <<stamp, failStamp, hits, fails, now>>
  BY DEF Authenticate, Proxy, store
<1>2. PICK stage \in Stage :
        /\ pc' = [pc EXCEPT ![r] = stage]
        /\ stage \in {"new", "allow"} => pc[r] = "new"
        /\ pc[r] # "served"
  BY DEF Authenticate, Proxy, GoTo, Stage, Final
<1>3. pc' \in [Request -> Stage]
  BY <1>2 DEF LInv, GTypeOK
<1>4. GTypeOK'
  BY <1>1, <1>3 DEF LInv, GTypeOK
<1>5. OwnEntries' /\ FailuresKept'
  BY <1>1 DEF LInv, OwnEntries, FailuresKept
<1>6. ASSUME NEW s \in Request
      PROVE  /\ pc'[s] \in {"new", "allow"} => stamp[s] = Never
             /\ failStamp[s] # Never => pc'[s] = "served"
  BY <1>2 DEF LInv, GTypeOK, Stamped
<1> QED BY <1>1, <1>4, <1>5, <1>6 DEF LInv, Stamped

\* A list that is pruned and has room for one more stays within the limit.
LEMMA RoomForOne ==
    ASSUME LInv, NEW r \in Request
    PROVE  /\ Kept(r) \subseteq hits[KeyOf[r]] /\ Cardinality(Kept(r)) <= Limit
           /\ ~Limited(r) => Cardinality(Kept(r) \cup {r}) <= Limit
<1>1. Kept(r) \subseteq hits[KeyOf[r]] /\ hits[KeyOf[r]] \in SUBSET Request
  BY LFacts DEF Kept, Younger
<1>2. /\ Cardinality(hits[KeyOf[r]]) \in Nat /\ Cardinality(Kept(r)) \in Nat
      /\ Cardinality(Kept(r)) <= Cardinality(hits[KeyOf[r]])
      /\ IsFiniteSet(Kept(r))
  BY <1>1, Sizes
<1>3. Cardinality(hits[KeyOf[r]]) <= Limit
  BY LFacts DEF LInv, GTypeOK
<1>4. Cardinality(Kept(r) \cup {r}) =
        IF r \in Kept(r) THEN Cardinality(Kept(r)) ELSE Cardinality(Kept(r)) + 1
  BY <1>2, FS_AddElement
<1> QED BY <1>1, <1>2, <1>3, <1>4, GatewayAssumption DEF Limited

\* Allow enters the request under its key, and only where there is room.
LEMMA AllowKeepsLists ==
    ASSUME LInv, NEW r \in Request, Allow(r) PROVE LInv'
<1> USE LFacts
<1>1. /\ pc[r] = "allow" /\ UNCHANGED <<failStamp, now>>
      /\ stamp' = [stamp EXCEPT ![r] = now]
  BY DEF Allow
<1>2. PICK stage \in {"denied", "proxy"} : pc' = [pc EXCEPT ![r] = stage]
  BY DEF Allow, GoTo
<1>3. PICK list \in SUBSET Request :
        /\ hits' = [hits EXCEPT ![KeyOf[r]] = list] /\ Cardinality(list) <= Limit
        /\ list \subseteq hits[KeyOf[r]] \cup {r}
  <2>1. CASE Limited(r)
    BY <2>1, RoomForOne DEF Allow
  <2>2. CASE ~Limited(r)
    <3>1. hits' = [hits EXCEPT ![KeyOf[r]] = Kept(r) \cup {r}]
      BY <2>2 DEF Allow
    <3>2. /\ Kept(r) \cup {r} \in SUBSET Request
          /\ Kept(r) \cup {r} \subseteq hits[KeyOf[r]] \cup {r}
          /\ Cardinality(Kept(r) \cup {r}) <= Limit
      BY <2>2, RoomForOne
    <3> QED BY <3>1, <3>2
  <2> QED BY <2>1, <2>2
<1>4. PICK others \in SUBSET Request :
        /\ fails' = [fails EXCEPT ![KeyOf[r]] = others]
        /\ others \subseteq fails[KeyOf[r]] /\ KeptFails(r) \subseteq others
  BY DEF Allow, KeptFails, Younger
<1>5. GTypeOK'
  <2>1. /\ pc' \in [Request -> Stage] /\ now' \in 0..MaxTime
        /\ stamp' \in [Request -> 0..MaxTime \cup {Never}]
        /\ failStamp' \in [Request -> 0..MaxTime \cup {Never}]
        /\ hits' \in [ApiKey -> SUBSET Request] /\ fails' \in [ApiKey -> SUBSET Request]
    BY <1>1, <1>2, <1>3, <1>4 DEF LInv, GTypeOK, Stage, Final
  <2>2. ASSUME NEW k \in ApiKey
        PROVE  /\ Cardinality(hits'[k]) <= Limit
               /\ \A s \in hits'[k] : stamp'[s] # Never
               /\ \A s \in fails'[k] : failStamp'[s] # Never
    BY <1>1, <1>3, <1>4 DEF LInv, GTypeOK
  <2> QED BY <2>1, <2>2 DEF GTypeOK
<1>6. OwnEntries'
  BY <1>1, <1>3, <1>4 DEF LInv, GTypeOK, OwnEntries
<1>7. Stamped'
  BY <1>1, <1>2 DEF LInv, GTypeOK, Stamped
<1>8. FailuresKept'
  <2> SUFFICES ASSUME NEW s \in Request, failStamp[s] # Never,
                      now - FailWindow < failStamp[s]
               PROVE  s \in fails'[KeyOf[s]]
    BY <1>1 DEF FailuresKept
  <2>1. s \in fails[KeyOf[s]]
    BY DEF LInv, FailuresKept
  <2>2. KeyOf[s] = KeyOf[r] => s \in KeptFails(r)
    BY <2>1 DEF KeptFails, Younger
  <2> QED BY <1>4, <2>1, <2>2 DEF LInv, GTypeOK
<1> QED BY <1>5, <1>6, <1>7, <1>8 DEF LInv

\* RecordFailure drops only failures that are over.
LEMMA RecordKeepsLists ==
    ASSUME LInv, NEW r \in Request, RecordFailure(r) PROVE LInv'
<1> USE LFacts
<1>1. /\ pc[r] = "failed" /\ UNCHANGED <<stamp, hits, now>>
      /\ pc' = [pc EXCEPT ![r] = "served"]
      /\ failStamp' = [failStamp EXCEPT ![r] = now]
      /\ fails' = [fails EXCEPT ![KeyOf[r]] = KeptFails(r) \cup {r}]
  BY DEF RecordFailure, GoTo
<1>2. KeptFails(r) \subseteq fails[KeyOf[r]]
  BY DEF KeptFails, Younger
<1>3. GTypeOK' /\ OwnEntries'
  BY <1>1, <1>2 DEF LInv, GTypeOK, OwnEntries, Stage, Final
<1>4. Stamped'
  BY <1>1 DEF LInv, GTypeOK, Stamped
<1>5. FailuresKept'
  <2> SUFFICES ASSUME NEW s \in Request, failStamp'[s] # Never,
                      now - FailWindow < failStamp'[s]
               PROVE  s \in fails'[KeyOf[s]]
    BY <1>1 DEF FailuresKept
  <2>1. CASE s = r
    BY <1>1, <2>1 DEF LInv, GTypeOK
  <2>2. CASE s # r
    <3>1. /\ failStamp[s] # Never /\ now - FailWindow < failStamp[s]
          /\ s \in fails[KeyOf[s]]
      BY <1>1, <2>2 DEF LInv, GTypeOK, FailuresKept
    <3>2. KeyOf[s] = KeyOf[r] => s \in KeptFails(r)
      BY <3>1 DEF KeptFails, Younger
    <3> QED BY <1>1, <3>1, <3>2 DEF LInv, GTypeOK
  <2> QED BY <2>1, <2>2
<1> QED BY <1>3, <1>4, <1>5 DEF LInv

\* A restart empties the lists, and nobody's failure is left to remember.
LEMMA RestartKeepsLists ==
    ASSUME LInv, Restart PROVE LInv'
<1>1. pc' \in [Request -> Stage] /\ now' \in 0..MaxTime
  BY DEF Restart, LInv, GTypeOK, Stage, Final
<1>2. \A k \in ApiKey : Cardinality(hits'[k]) <= Limit
  BY FS_EmptySet, GatewayAssumption DEF Restart
<1> QED BY <1>1, <1>2
      DEF Restart, LInv, GTypeOK, OwnEntries, Stamped, FailuresKept, Never

\* A failure that is young later is young now.
LEMMA TickKeepsLists ==
    ASSUME LInv, Tick PROVE LInv'
<1>0. PICK t \in 0..MaxTime : t = now' /\ t = now + 1 /\ now \in Nat
  BY GatewayAssumption DEF Tick, LInv, GTypeOK
<1>1. UNCHANGED <<pc, stamp, failStamp, hits, fails>>
  BY DEF Tick, handler, store
<1>2. GTypeOK' /\ OwnEntries' /\ Stamped'
  BY <1>0, <1>1 DEF LInv, GTypeOK, OwnEntries, Stamped
<1>3. FailuresKept'
  <2> SUFFICES ASSUME NEW s \in Request, failStamp[s] # Never,
                      t - FailWindow < failStamp[s]
               PROVE  s \in fails[KeyOf[s]]
    BY <1>0, <1>1 DEF FailuresKept
  <2>1. now - FailWindow < failStamp[s]
    BY <1>0, LFacts, GatewayAssumption
  <2> QED BY <2>1 DEF LInv, FailuresKept
<1> QED BY <1>2, <1>3 DEF LInv

LEMMA NextLInv == LInv /\ [MNext]_gvars => LInv'
<1> SUFFICES ASSUME LInv, [MNext]_gvars PROVE LInv'
  OBVIOUS
<1>1. CASE UNCHANGED gvars
  BY <1>1 DEF gvars, handler, store, LInv, GTypeOK, OwnEntries, Stamped, FailuresKept
<1>2. ASSUME NEW r \in Request, Serve(r) PROVE LInv'
  BY <1>2, PassKeepsLists, AllowKeepsLists, RecordKeepsLists DEF Serve
<1> QED BY <1>1, <1>2, RestartKeepsLists, TickKeepsLists DEF MNext

\* It is its Allow that admits or denies a request.
LEMMA OnlyAllowAdmits ==
    ASSUME LInv, [MNext]_gvars, NEW r \in Request,
           NEW stage \in {"proxy", "denied"}, pc[r] # stage, pc'[r] = stage
    PROVE  Allow(r)
<1>1. ~UNCHANGED gvars /\ ~Tick
  BY DEF gvars, handler, Tick
<1>2. ~Restart
  BY DEF Restart
<1>3. ASSUME NEW s \in Request, Authenticate(s) \/ Proxy(s) \/ RecordFailure(s)
      PROVE  FALSE
  <2>1. PICK next : pc' = [pc EXCEPT ![s] = next] /\ next \notin {"proxy", "denied"}
    BY <1>3 DEF Authenticate, Proxy, RecordFailure, GoTo
  <2> QED BY <2>1 DEF LInv, GTypeOK
<1>4. ASSUME NEW s \in Request, Allow(s) PROVE s = r
  BY <1>4 DEF Allow, GoTo, LInv, GTypeOK
<1> QED BY <1>1, <1>2, <1>3, <1>4 DEF MNext, Serve

\* The lists are bounded by the limit, and hold only what has a time.
THEOREM ListsBounded == MSpec => []GTypeOK
<1>1. LInv => GTypeOK
  BY DEF LInv
<1> QED BY <1>1, InitLInv, NextLInv, PTL DEF MSpec

\* No request is admitted at a time when FailLimit recorded failures of its key
\* are inside the window: RecordFailure reports under the lock, and the list it
\* leaves is the one the next Allow looks at.
THEOREM CircuitHolds == MSpec => CircuitRespected
<1>1. ASSUME LInv, [MNext]_gvars, NEW r \in Request, pc[r] # "proxy", pc'[r] = "proxy"
      PROVE  Cardinality(Recorded(r, now)) < FailLimit
  <2>1. Allow(r)
    BY <1>1, OnlyAllowAdmits
  <2>2. Recorded(r, now) \subseteq KeptFails(r)
    BY <1>1 DEF Recorded, Failures, KeptFails, Younger, LInv, FailuresKept
  <2>3. KeptFails(r) \in SUBSET Request
    BY <1>1, LFacts DEF KeptFails, Younger
  <2>4. ~CircuitOpen(r)
    BY <1>1, <2>1 DEF Allow, GoTo, LInv, GTypeOK
  <2> QED BY <2>2, <2>3, <2>4, Sizes, GatewayAssumption DEF CircuitOpen
<1>2. LInv /\ [MNext]_gvars =>
        [\A r \in Request : pc[r] # "proxy" /\ pc'[r] = "proxy" =>
            Cardinality(Recorded(r, now)) < FailLimit]_gvars
  BY <1>1
<1> QED BY <1>2, InitLInv, NextLInv, PTL DEF MSpec, CircuitRespected

\* A 429 is deserved: what the limiter counts against a request are Limit
\* other requests of the key that came within the window, or FailLimit of its
\* failures.
THEOREM DenialsDeserved == MSpec => QuietClientServed
<1>1. ASSUME LInv, [MNext]_gvars, NEW r \in Request, pc[r] # "denied", pc'[r] = "denied"
      PROVE  \/ Cardinality(Asked(r, stamp'[r])) >= Limit
             \/ Cardinality(Failures(r, stamp'[r])) >= FailLimit
  <2>1. Allow(r)
    BY <1>1, OnlyAllowAdmits
  <2>2. stamp'[r] = now /\ pc[r] = "allow" /\ (Limited(r) \/ CircuitOpen(r))
    BY <1>1, <2>1 DEF Allow, GoTo, LInv, GTypeOK
  <2>3. Kept(r) \subseteq Asked(r, now)
    BY <1>1, <2>2, LFacts DEF Kept, Younger, Asked, LInv, OwnEntries, Stamped
  <2>4. KeptFails(r) \subseteq Failures(r, now)
    BY <1>1, LFacts, GatewayAssumption
       DEF KeptFails, Younger, Failures, LInv, OwnEntries
  <2>5. Asked(r, now) \in SUBSET Request /\ Failures(r, now) \in SUBSET Request
    BY DEF Asked, Failures
  <2>6. CASE Limited(r)
    BY <2>2, <2>3, <2>5, <2>6, Sizes, GatewayAssumption DEF Limited
  <2>7. CASE CircuitOpen(r)
    BY <2>2, <2>4, <2>5, <2>7, Sizes, GatewayAssumption DEF CircuitOpen
  <2> QED BY <2>2, <2>6, <2>7
<1>2. LInv /\ [MNext]_gvars =>
        [\A r \in Request : pc[r] # "denied" /\ pc'[r] = "denied" =>
            \/ Cardinality(Asked(r, stamp'[r])) >= Limit
            \/ Cardinality(Failures(r, stamp'[r])) >= FailLimit]_gvars
  BY <1>1
<1> QED BY <1>2, InitLInv, NextLInv, PTL DEF MSpec, QuietClientServed

-----------------------------------------------------------------------------
(* What follows from the refinement: the bound that the abstract window     *)
(* keeps.                                                                  *)

Bounded == INSTANCE SlidingWindowProofs WITH
    at <- [r \in Request |-> IF r \in Admitted THEN stamp[r] ELSE Never]

\* The window that is bounded is the one that is implemented.
LEMMA SameRecent ==
    \A k, t : /\ Bounded!Recent(k, t) = Promise!Recent(k, t)
              /\ Bounded!Cardinality(Bounded!Recent(k, t))
                    = Promise!Cardinality(Promise!Recent(k, t))
BY DEF Bounded!Recent, Promise!Recent, Bounded!Never, Promise!Never,
       Bounded!Cardinality, Promise!Cardinality

\* No stretch of time as long as the window sees more than Limit requests of
\* one key admitted by one process, however many handlers call its Allow (what
\* an earlier process admitted is forgotten).
THEOREM RateKept == MSpec => []Promise!WithinLimit
<1>1. Bounded!WSpec => []Bounded!WithinLimit
  <2>1. Bounded!Parameters
    BY GatewayAssumption DEF Bounded!Parameters, IsFiniteSet, Bounded!IsFiniteSet
  <2> QED BY <2>1, Bounded!WindowBound
<1>2. Promise!WInit => Bounded!WInit
  BY DEF Promise!WInit, Bounded!WInit, Promise!Never, Bounded!Never
<1>3. [Promise!WNext]_(Promise!window) => [Bounded!WNext]_(Bounded!window)
  <2>1. ASSUME NEW r \in Request, Promise!Admit(r) PROVE Bounded!Admit(r)
    BY <2>1, SameRecent, Zenon
       DEF Promise!Admit, Bounded!Admit, Promise!Never, Bounded!Never
  <2>2. Promise!Advance => Bounded!Advance
    BY DEF Promise!Advance, Bounded!Advance
  <2>3. Promise!Forget => Bounded!Forget
    BY DEF Promise!Forget, Bounded!Forget, Promise!Never, Bounded!Never
  <2>4. UNCHANGED Promise!window => UNCHANGED Bounded!window
    BY DEF Promise!window, Bounded!window
  <2> QED BY <2>1, <2>2, <2>3, <2>4, Zenon DEF Promise!WNext, Bounded!WNext
<1>4. Bounded!WithinLimit => Promise!WithinLimit
  BY SameRecent DEF Promise!WithinLimit, Bounded!WithinLimit
<1> QED BY <1>1, <1>2, <1>3, <1>4, MemoryLimiterRefines, PTL
        DEF WindowImplemented, Promise!WSpec, Bounded!WSpec
=============================================================================
