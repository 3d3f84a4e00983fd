---------------------------- MODULE SpendLedger ----------------------------
(***************************************************************************)
(* What a session key promises its owner: within one spend window the      *)
(* calls broadcast under the key cost no more than its cap, and the next   *)
(* window opens only when this one has run out.  Checking the cap,         *)
(* spending and booking the spend are one step here; the pipeline takes    *)
(* several.                                                                *)
(***************************************************************************)
EXTENDS Integers

CONSTANTS Key, Amounts

VARIABLES
    used,   \* what was broadcast under each key in its current window
    cap,    \* the key's cap, 0 for a key not issued
    opened, \* when its current window opened
    length, \* and how long it lasts at least
    time

ledger == <<used, cap, opened, length, time>>

LInit ==
    /\ used = [k \in Key |-> 0] /\ opened = [k \in Key |-> 0] /\ time = 0
    /\ cap \in [Key -> Nat] /\ length \in [Key -> Nat]

Spend(k, amount) ==
    /\ used[k] + amount <= cap[k]
    /\ used' = [used EXCEPT ![k] = @ + amount]
    /\ UNCHANGED <<cap, opened, length, time>>

\* A window opens at some instant after the one before has run out, perhaps a
\* little before this is seen.
NewWindow(k) ==
    /\ \E t \in 0..time : /\ opened[k] + length[k] < t
                          /\ opened' = [opened EXCEPT ![k] = t]
    /\ used' = [used EXCEPT ![k] = 0]
    /\ UNCHANGED <<cap, length, time>>

Advance == time' = time + 1 /\ UNCHANGED <<used, cap, opened, length>>

LNext ==
    \/ Advance
    \/ \E k \in Key : NewWindow(k) \/ \E amount \in Amounts : Spend(k, amount)

LSpec == LInit /\ [][LNext]_ledger
=============================================================================
