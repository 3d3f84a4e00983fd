------------------------------ MODULE Purchase ------------------------------
(***************************************************************************)
(* What a client's call promises the one who pays: it hands over one       *)
(* payment at most, and only where it owes one, because it was ordered to  *)
(* from the start or was told that the thing has a price; it succeeds only *)
(* when it owes nothing; and it may fail at any time, paid or not.         *)
(*                                                                         *)
(* No more is promised: what was handed over lands later, after the call's *)
(* end perhaps, or never.                                                  *)
(***************************************************************************)
EXTENDS Integers

VARIABLES
    open,   \* a call is under way
    owes,   \* it has still to pay before it may succeed
    sent,   \* the payments of the last call that were handed over
    moved,  \* those of them that are on chain
    won     \* the last call succeeded

purchase == <<open, owes, sent, moved, won>>

PurchaseInit ==
    open = FALSE /\ owes = FALSE /\ sent = 0 /\ moved = 0 /\ won = FALSE

\* With an order to pay, or without one.
Begin ==
    /\ ~open /\ open' = TRUE /\ owes' \in BOOLEAN
    /\ sent' = 0 /\ moved' = 0 /\ won' = FALSE

\* The client is told that the thing has to be paid.
Quote == open /\ sent = 0 /\ owes' = TRUE /\ UNCHANGED <<open, sent, moved, won>>

\* By a transfer, or by an authorization that someone else settles.
Pay ==
    /\ open /\ owes /\ sent = 0 /\ owes' = FALSE /\ sent' \in {0, 1}
    /\ UNCHANGED <<open, moved, won>>

Land == moved < sent /\ moved' = moved + 1 /\ UNCHANGED <<open, owes, sent, won>>

Succeed == open /\ ~owes /\ open' = FALSE /\ won' = TRUE /\ UNCHANGED <<owes, sent, moved>>

Fail == open /\ open' = FALSE /\ owes' = FALSE /\ UNCHANGED <<sent, moved, won>>

PurchaseNext == Begin \/ Quote \/ Pay \/ Land \/ Succeed \/ Fail

PurchaseSpec == PurchaseInit /\ [][PurchaseNext]_purchase
=============================================================================
