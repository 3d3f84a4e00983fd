--------------------------- MODULE IntentResolver ---------------------------
(***************************************************************************)
(* What src/services/intentResolver.ts makes of an intent: where the call  *)
(* goes and how much it carries; and what guardrails.ts books for it.  The *)
(* two read the same two amount fields, in opposite order.                 *)
(*                                                                         *)
(* An intent has                                                           *)
(*   kind                                                                  *)
(*   has                     which of recipient, tokenOut, data it names   *)
(*   tokenIn, target         an address, a set of at most one              *)
(*   amountIn, amountInWei   a number, a set of at most one                *)
(*   value                   valueWei, 0 where it is absent                *)
(*   inData                  what its own bytes move, for a custom call    *)
(* An amount in whole tokens, one in base units, the worth of valueWei and *)
(* of what the bytes move are here in one unit; the code takes every token *)
(* for one of six decimals.                                                *)
(***************************************************************************)
EXTENDS Integers

CONSTANTS Usdc, Router      \* BASE_USDC and UNISWAP_V3_ROUTER

Kind == {"transfer", "approve", "swap", "custom"}

Field == {"recipient", "tokenOut", "data"}

Given(field, default) == IF field = {} THEN default ELSE CHOOSE x \in field : TRUE

StatesAmount(i) == i.amountIn \cup i.amountInWei # {}

\* resolveIntent throws for any other.
Resolvable(i) ==
    CASE i.kind = "transfer" -> "recipient" \in i.has /\ StatesAmount(i)
      [] i.kind = "approve" -> StatesAmount(i)
      [] i.kind = "swap" -> "tokenOut" \in i.has /\ StatesAmount(i)
      [] i.kind = "custom" -> "data" \in i.has /\ i.target # {}

\* The address called.
CallTo(i) ==
    CASE i.kind \in {"transfer", "approve"} -> Given(i.tokenIn, Usdc)
      [] i.kind \in {"swap", "custom"} -> Given(i.target, Router)

\* The target of the intent that resolveIntent hands on: a transfer and an
\* approval name their token there, whatever was named before, a swap its
\* router; a custom intent goes on as it is.
ResolvedTarget(i) ==
    CASE i.kind \in {"transfer", "approve"} -> {Given(i.tokenIn, Usdc)}
      [] i.kind = "swap" -> {Given(i.target, Router)}
      [] i.kind = "custom" -> i.target

\* resolveAmountWei.
AmountWei(i) == Given(i.amountInWei, Given(i.amountIn, 0))

\* What the call moves: the amount that is encoded, the native value that is
\* sent along, and what the bytes of a custom call make move, which the code
\* does not read.
Carried(i) ==
    CASE i.kind \in {"transfer", "approve"} -> AmountWei(i)
      [] i.kind = "swap" -> AmountWei(i) + i.value
      [] i.kind = "custom" -> i.inData + i.value

\* Mutant of EstimateSpend: an amount in base units is not seen.
EstimateSpend_amountOnly(i) == Given(i.amountIn, 0)

\* estimateSpendUsdc: what is held against the limits.
EstimateSpend(i) == Given(i.amountIn, Given(i.amountInWei, 0))
=============================================================================
