--------------------------- MODULE SlidingWindow ---------------------------
(***************************************************************************)
(* What a sliding-window rate limit promises: a request is admitted only   *)
(* while fewer than Limit requests of its key were admitted during the     *)
(* last Window.  Looking and admitting are one step here.                  *)
(***************************************************************************)
EXTENDS Integers, FiniteSets

CONSTANTS
    Request, KeyOf,     \* the requests there will be, and the key of each
    Limit, Window

VARIABLES
    at,     \* when each request was admitted, or Never
    now

window == <<at, now>>

Never == -1

\* Admitted requests of key k no older than Window at time t.
Recent(k, t) ==
    {r \in Request : KeyOf[r] = k /\ at[r] # Never /\ t - Window < at[r] /\ at[r] <= t}

WInit == at = [r \in Request |-> Never] /\ now = 0

Admit(r) ==
    /\ at[r] = Never /\ Cardinality(Recent(KeyOf[r], now)) < Limit
    /\ at' = [at EXCEPT ![r] = now]
    /\ UNCHANGED now

\* Time passes, or a limiter that keeps its window in memory starts anew.
Advance == now' \in Nat /\ now' > now /\ UNCHANGED at

Forget == at' = [r \in Request |-> Never] /\ UNCHANGED now

WNext == (\E r \in Request : Admit(r)) \/ Advance \/ Forget

WSpec == WInit /\ [][WNext]_window

\* No stretch of time as long as the window sees more than Limit admitted
\* requests of one key.
WithinLimit ==
    \A k \in {KeyOf[r] : r \in Request}, t \in 0..now :
        Cardinality(Recent(k, t)) <= Limit
=============================================================================
