--------------------------- MODULE PaymasterVault ---------------------------
(***************************************************************************)
(* The vault contract contracts/src/PaymasterAutoTopUp.sol together with   *)
(* the ERC-20 balances it moves.  A call that reverts leaves the chain as  *)
(* it was, so a revert condition is a conjunct of the action: the action   *)
(* is the successful call.  The EVM runs one call at a time and the token  *)
(* (USDC) calls nobody back, so one action per external function is the    *)
(* grain of the code; nonReentrant has nothing left to exclude.            *)
(*                                                                         *)
(* funded, withdrawn, selfTopUps and streak are history variables: the     *)
(* contract does not store them, and no guard but the bound on funded      *)
(* reads them.                                                             *)
(***************************************************************************)
EXTENDS Integers

CONSTANTS
    Account,        \* the addresses, Zero and Vault among them
    Zero,           \* address(0)
    Vault,          \* address(this)
    MaxUint,        \* type(uint256).max
    Amount,         \* the amounts callers pass, 0 among them
    InitBalances,   \* the token balances there may be at deployment
    MaxFunded       \* bound: tokens that ever enter the vault

ASSUME VaultAssumption ==
    /\ {Zero, Vault} \subseteq Account /\ Zero # Vault
    /\ MaxUint \in Nat /\ MaxFunded \in Nat
    /\ Amount \subseteq 0..MaxUint
    /\ InitBalances \subseteq [Account -> 0..MaxUint]

VARIABLES
    bal,            \* token.balanceOf
    owner, keeper, paymaster,
    threshold, topUpAmount,
    totalToppedUp, topUpCount,
    paused,
    funded,         \* tokens that entered the vault since deployment
    withdrawn,      \* tokens the owner took out
    selfTopUps,     \* the part of totalToppedUp the vault sent to itself
    streak          \* tokens topped up since anything else last happened

roles    == <<owner, keeper, paymaster>>
config   == <<threshold, topUpAmount>>
counters == <<totalToppedUp, topUpCount>>
flows    == <<funded, withdrawn, selfTopUps>>
vars     == <<bal, roles, config, counters, paused, flows, streak>>

\* Who can be msg.sender: the vault makes no call to itself.
Caller == Account \ {Zero, Vault}

TypeOK ==
    /\ bal \in [Account -> Nat]
    /\ owner \in Account /\ keeper \in Account
    /\ paymaster \in Account \ {Zero}
    /\ threshold \in Amount \ {0} /\ topUpAmount \in Amount \ {0}
    /\ totalToppedUp \in 0..MaxUint /\ topUpCount \in 0..MaxUint
    /\ paused \in BOOLEAN
    /\ funded \in Nat /\ withdrawn \in Nat /\ selfTopUps \in Nat
    /\ streak \in Nat

-----------------------------------------------------------------------------
(* The token.                                                              *)

\* Balances after a transfer; a transfer to oneself changes nothing.
Move(from, to, amount) ==
    IF from = to THEN bal
    ELSE [bal EXCEPT ![from] = @ - amount, ![to] = @ + amount]

\* Tokens move between outsiders: the paymaster spends, anyone pays anyone.
TokenTransfer(from, to, amount) ==
    /\ from # Vault /\ to \notin {Zero, Vault} /\ amount > 0
    /\ amount <= bal[from]
    /\ bal' = Move(from, to, amount)
    /\ streak' = 0
    /\ UNCHANGED <<roles, config, counters, paused, flows>>

\* Tokens sent to the vault's address without calling deposit.
Donate(from, amount) ==
    /\ from # Vault /\ amount > 0 /\ amount <= bal[from]
    /\ funded + amount <= MaxFunded
    /\ bal' = Move(from, Vault, amount)
    /\ funded' = funded + amount
    /\ streak' = 0
    /\ UNCHANGED <<roles, config, counters, paused, withdrawn, selfTopUps>>

-----------------------------------------------------------------------------
(* The contract's external functions.                                      *)

vaultBalance == bal[Vault]

paymasterBalance == bal[paymaster]

\* The view the keeper polls; it does not look at paused.
needsTopUp == paymasterBalance < threshold /\ vaultBalance >= topUpAmount

deposit(caller, amount) ==
    /\ ~paused
    /\ amount # 0 /\ amount <= bal[caller]
    /\ funded + amount <= MaxFunded
    /\ bal' = Move(caller, Vault, amount)
    /\ funded' = funded + amount
    /\ streak' = 0
    /\ UNCHANGED <<roles, config, counters, paused, withdrawn, selfTopUps>>

\* Mutant of withdraw: onlyOwner forgotten, paid to msg.sender.
withdraw_anyone(caller, amount) ==
    /\ amount # 0 /\ amount <= vaultBalance
    /\ bal' = Move(Vault, caller, amount)
    /\ withdrawn' = withdrawn + amount
    /\ streak' = 0
    /\ UNCHANGED <<roles, config, counters, paused, funded, selfTopUps>>

withdraw(caller, amount) ==
    /\ caller = owner
    /\ amount # 0 /\ amount <= vaultBalance
    /\ bal' = Move(Vault, owner, amount)
    /\ withdrawn' = withdrawn + amount
    /\ streak' = 0
    /\ UNCHANGED <<roles, config, counters, paused, funded, selfTopUps>>

\* Mutant of CanTopUp: the threshold itself counts as too low.
CanTopUp_atThreshold(caller) ==
    /\ caller \in {owner, keeper} /\ ~paused
    /\ paymasterBalance <= threshold /\ vaultBalance >= topUpAmount
    /\ totalToppedUp + topUpAmount <= MaxUint

\* executeTopUp goes through: every modifier and every revert condition,
\* the checked addition to totalToppedUp included.
CanTopUp(caller) ==
    /\ caller \in {owner, keeper}
    /\ ~paused
    /\ needsTopUp
    /\ totalToppedUp + topUpAmount <= MaxUint

\* Mutant of executeTopUp: fills up to the threshold, counts topUpAmount.
executeTopUp_fillUp(caller) ==
    /\ CanTopUp(caller)
    /\ totalToppedUp' = totalToppedUp + topUpAmount
    /\ topUpCount' = (topUpCount + 1) % (MaxUint + 1)
    /\ bal[Vault] >= threshold - bal[paymaster]
    /\ bal' = Move(Vault, paymaster, threshold - bal[paymaster])
    /\ IF paymaster = Vault
       THEN selfTopUps' = selfTopUps + topUpAmount /\ UNCHANGED streak
       ELSE streak' = streak + topUpAmount /\ UNCHANGED selfTopUps
    /\ UNCHANGED <<roles, config, paused, funded, withdrawn>>

executeTopUp(caller) ==
    /\ CanTopUp(caller)
    /\ totalToppedUp' = totalToppedUp + topUpAmount
    /\ topUpCount' = (topUpCount + 1) % (MaxUint + 1)
    /\ bal' = Move(Vault, paymaster, topUpAmount)
    /\ IF paymaster = Vault
       THEN selfTopUps' = selfTopUps + topUpAmount /\ UNCHANGED streak
       ELSE streak' = streak + topUpAmount /\ UNCHANGED selfTopUps
    /\ UNCHANGED <<roles, config, paused, funded, withdrawn>>

\* What the owner's setters leave alone.
AdminFrame == streak' = 0 /\ UNCHANGED <<bal, counters, flows>>

setKeeper(caller, newKeeper) ==
    /\ caller = owner
    /\ keeper' = newKeeper
    /\ AdminFrame /\ UNCHANGED <<owner, paymaster, config, paused>>

\* Mutant of setPaymaster: address(0) accepted.
setPaymaster_zero(caller, newPaymaster) ==
    /\ caller = owner
    /\ paymaster' = newPaymaster
    /\ AdminFrame /\ UNCHANGED <<owner, keeper, config, paused>>

setPaymaster(caller, newPaymaster) ==
    /\ caller = owner
    /\ newPaymaster # Zero
    /\ paymaster' = newPaymaster
    /\ AdminFrame /\ UNCHANGED <<owner, keeper, config, paused>>

setThreshold(caller, newThreshold) ==
    /\ caller = owner
    /\ newThreshold # 0
    /\ threshold' = newThreshold
    /\ AdminFrame /\ UNCHANGED <<roles, topUpAmount, paused>>

\* Mutant of setTopUpAmount: zero accepted.
setTopUpAmount_zero(caller, newAmount) ==
    /\ caller = owner
    /\ topUpAmount' = newAmount
    /\ AdminFrame /\ UNCHANGED <<roles, threshold, paused>>

setTopUpAmount(caller, newAmount) ==
    /\ caller = owner
    /\ newAmount # 0
    /\ topUpAmount' = newAmount
    /\ AdminFrame /\ UNCHANGED <<roles, threshold, paused>>

pause(caller) ==
    /\ caller = owner
    /\ ~paused /\ paused' = TRUE
    /\ AdminFrame /\ UNCHANGED <<roles, config>>

unpause(caller) ==
    /\ caller = owner
    /\ paused /\ paused' = FALSE
    /\ AdminFrame /\ UNCHANGED <<roles, config>>

\* Ownable: hand the contract over, or give it up (owner becomes Zero).
transferOwnership(caller, newOwner) ==
    /\ caller = owner
    /\ newOwner # Zero
    /\ owner' = newOwner
    /\ AdminFrame /\ UNCHANGED <<keeper, paymaster, config, paused>>

renounceOwnership(caller) ==
    /\ caller = owner
    /\ owner' = Zero
    /\ AdminFrame /\ UNCHANGED <<keeper, paymaster, config, paused>>

-----------------------------------------------------------------------------

\* The constructor, called by the deployer.
Init ==
    /\ bal \in InitBalances
    /\ owner \in Caller /\ keeper \in Account /\ paymaster \in Account \ {Zero}
    /\ threshold \in Amount \ {0} /\ topUpAmount \in Amount \ {0}
    /\ totalToppedUp = 0 /\ topUpCount = 0
    /\ paused = FALSE
    /\ funded = bal[Vault] /\ withdrawn = 0 /\ selfTopUps = 0 /\ streak = 0

OwnerCall(caller) ==
    \/ \E a \in Account : \/ setKeeper(caller, a)
                          \/ setPaymaster(caller, a)
                          \/ transferOwnership(caller, a)
    \/ \E n \in Amount : \/ withdraw(caller, n)
                         \/ setThreshold(caller, n)
                         \/ setTopUpAmount(caller, n)
    \/ pause(caller) \/ unpause(caller) \/ renounceOwnership(caller)

TokenMove(from) ==
    \E n \in Amount : \/ Donate(from, n)
                      \/ \E to \in Account : TokenTransfer(from, to, n)

\* One transaction of an account, to the vault or to the token.
Transaction(caller) ==
    \/ OwnerCall(caller)
    \/ executeTopUp(caller)
    \/ \E n \in Amount : deposit(caller, n)
    \/ TokenMove(caller)

Next == \E caller \in Caller : Transaction(caller)

Spec == Init /\ [][Next]_vars

-----------------------------------------------------------------------------
(* Properties.                                                             *)

\* Every token that entered the vault is still there, was withdrawn by the
\* owner, or was topped up to a paymaster: what contracts/README.md calls the
\* accounting invariant, made exact for direct token transfers to the vault
\* and for a vault that is configured as its own paymaster.
Conservation ==
    funded = bal[Vault] + withdrawn + (totalToppedUp - selfTopUps)

\* The unchecked increment of topUpCount (sol:136) cannot wrap: each top-up
\* adds at least one unit to totalToppedUp, whose own addition is checked.
UncheckedCountSafe == topUpCount <= totalToppedUp

\* A keeper key on its own, however often it calls executeTopUp, moves less
\* than threshold + topUpAmount out of the vault before somebody else acts
\* (the paymaster spends, the owner reconfigures): the reach of a keeper.
LoneKeeperBounded == streak < threshold + topUpAmount

OwnerTakes(amount) ==
    /\ bal' = Move(Vault, owner, amount)
    /\ withdrawn' = withdrawn + amount
    /\ UNCHANGED <<roles, counters>>

PaymasterGetsTopUp ==
    /\ ~paused /\ bal[paymaster] < threshold
    /\ bal' = Move(Vault, paymaster, topUpAmount)
    /\ totalToppedUp' = totalToppedUp + topUpAmount
    /\ topUpCount' = topUpCount + 1
    /\ UNCHANGED <<roles, config>>

ProperOutflow ==
    bal'[Vault] < bal[Vault] => \/ OwnerTakes(bal[Vault] - bal'[Vault])
                                \/ PaymasterGetsTopUp

\* "Vault funds can only leave via top-up to the configured paymaster or an
\* owner-initiated withdraw" (sol:14): whatever lowers the vault's balance
\* pays the owner, or pays exactly topUpAmount to a paymaster that was below
\* the threshold of an unpaused vault, and is then counted.
FundsLeaveOnlyProperly == [][ProperOutflow]_vars
=============================================================================
