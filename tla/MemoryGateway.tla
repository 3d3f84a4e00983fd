--------------------------- MODULE MemoryGateway ---------------------------
(***************************************************************************)
(* A gateway with the MemoryLimiter of middleware/ratelimit.go.  Allow and *)
(* RecordFailure hold the mutex from the reading of the clock to their     *)
(* return, so each is one action.                                          *)
(***************************************************************************)
EXTENDS Gateway

\* No list of hits outgrows the limit, and every entry has its time.
GTypeOK ==
    /\ pc \in [Request -> Stage]
    /\ stamp \in [Request -> 0..MaxTime \cup {Never}]
    /\ failStamp \in [Request -> 0..MaxTime \cup {Never}]
    /\ hits \in [ApiKey -> SUBSET Request] /\ fails \in [ApiKey -> SUBSET Request]
    /\ now \in 0..MaxTime
    /\ \A k \in ApiKey :
        /\ Cardinality(hits[k]) <= Limit
        /\ \A r \in hits[k] : stamp[r] # Never
        /\ \A r \in fails[k] : failStamp[r] # Never

-----------------------------------------------------------------------------
(* The limiter.                                                            *)

\* The lists of r's key as prune leaves them.
Kept(r) == Younger(hits[KeyOf[r]], stamp, now, Window)

KeptFails(r) == Younger(fails[KeyOf[r]], failStamp, now, FailWindow)

\* Mutant of Limited: one too many.
Limited_late(r) == Cardinality(Kept(r)) > Limit

Limited(r) == Cardinality(Kept(r)) >= Limit

\* Mutant of CircuitOpen: the list is looked at before it is pruned.
CircuitOpen_stale(r) == Cardinality(fails[KeyOf[r]]) >= FailLimit

CircuitOpen(r) == Cardinality(KeptFails(r)) >= FailLimit

\* A denied request is a hit all the same if it is the circuit that denies it.
Allow(r) ==
    LET k == KeyOf[r]
    IN /\ pc[r] = "allow"
       /\ stamp' = [stamp EXCEPT ![r] = now]
       /\ hits' = [hits EXCEPT ![k] =
                      IF Limited(r) THEN Kept(r) ELSE Kept(r) \cup {r}]
       /\ fails' = [fails EXCEPT ![k] = IF Limited(r) THEN @ ELSE KeptFails(r)]
       /\ GoTo(r, IF Limited(r) \/ CircuitOpen(r) THEN "denied" ELSE "proxy")
       /\ UNCHANGED <<failStamp, now>>

\* Mutant of RecordFailure: the list is cut off with the other window.
RecordFailure_otherWindow(r) ==
    LET k == KeyOf[r]
    IN /\ pc[r] = "failed"
       /\ failStamp' = [failStamp EXCEPT ![r] = now]
       /\ fails' = [fails EXCEPT ![k] =
                      Younger(@, failStamp, now, Window) \cup {r}]
       /\ GoTo(r, "served")
       /\ UNCHANGED <<stamp, hits, now>>

RecordFailure(r) ==
    LET k == KeyOf[r]
    IN /\ pc[r] = "failed"
       /\ failStamp' = [failStamp EXCEPT ![r] = now]
       /\ fails' = [fails EXCEPT ![k] = KeptFails(r) \cup {r}]
       /\ GoTo(r, "served")
       /\ UNCHANGED <<stamp, hits, now>>

\* The process is replaced: the lists are gone, and with them the requests
\* it had begun.
Restart ==
    /\ pc' = [r \in Request |-> IF pc[r] = "new" THEN "new" ELSE "unserved"]
    /\ stamp' = [r \in Request |-> Never] /\ failStamp' = [r \in Request |-> Never]
    /\ hits' = [k \in ApiKey |-> {}] /\ fails' = [k \in ApiKey |-> {}]
    /\ UNCHANGED now

Tick ==
    /\ now < MaxTime /\ now' = now + 1
    /\ UNCHANGED <<handler, store>>

Serve(r) == Authenticate(r) \/ Allow(r) \/ Proxy(r) \/ RecordFailure(r)

MNext == (\E r \in Request : Serve(r)) \/ Restart \/ Tick

MSpec == GInit /\ [][MNext]_gvars

-----------------------------------------------------------------------------
(* Properties, besides those of Gateway.                                   *)

\* While the process lives, the memory limiter is a sliding window: it admits
\* only where the abstract one may, and a restart forgets.
WindowImplemented == Promise!WSpec
=============================================================================
