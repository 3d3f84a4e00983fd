------------------------ MODULE PaymasterVaultProofs ------------------------
(***************************************************************************)
(* Proofs about PaymasterVault, for every set of addresses, every supply   *)
(* and every width of the integers.                                        *)
(***************************************************************************)
EXTENDS PaymasterVault, TLAPS

\* The inductive invariant.  LoneKeeperBounded is not inductive alone: after
\* a streak of top-ups the paymaster must still hold all of them, so that the
\* next one, which finds it below the threshold, finds a short streak too.
StreakHeld == streak > 0 => paymaster # Vault /\ streak <= bal[paymaster]

IInv == /\ TypeOK /\ Conservation /\ UncheckedCountSafe
        /\ LoneKeeperBounded /\ StreakHeld

\* A number below the modulus is its own remainder: the increment of
\* topUpCount does not wrap below the width of the counter.
LEMMA NoWrap ==
    ASSUME NEW n \in Nat, NEW m \in Nat, n <= m
    PROVE  n % (m + 1) = n
BY SMT

\* What a transfer the token accepts does to the balances.
LEMMA MoveFacts ==
    ASSUME NEW from \in Account, NEW to \in Account, NEW amount \in Nat,
           bal \in [Account -> Nat], amount <= bal[from]
    PROVE  /\ Move(from, to, amount) \in [Account -> Nat]
           /\ from # to => /\ Move(from, to, amount)[from] = bal[from] - amount
                           /\ Move(from, to, amount)[to] = bal[to] + amount
           /\ from = to => Move(from, to, amount) = bal
           /\ \A a \in Account \ {from, to} :
                 Move(from, to, amount)[a] = bal[a]
BY DEF Move

\* What the assumptions say of the addresses and amounts.
LEMMA ConstantFacts ==
    /\ Zero \in Account /\ Vault \in Account /\ Zero # Vault
    /\ Amount \subseteq Nat
    /\ InitBalances \subseteq [Account -> Nat]
BY VaultAssumption

\* The constructor establishes the invariant.
LEMMA InitIInv == Init => IInv
<1> SUFFICES ASSUME Init PROVE IInv
  OBVIOUS
<1>1. bal \in [Account -> Nat] /\ bal[Vault] \in Nat
  BY ConstantFacts DEF Init
<1>2. TypeOK
  <2>1. paused \in BOOLEAN
    BY DEF Init
  <2>2. owner \in Account
    BY DEF Init, Caller
  <2>3. /\ totalToppedUp \in 0..MaxUint /\ topUpCount \in 0..MaxUint
        /\ funded \in Nat /\ withdrawn \in Nat /\ selfTopUps \in Nat
        /\ streak \in Nat
    BY <1>1, VaultAssumption DEF Init
  <2> QED BY <1>1, <2>1, <2>2, <2>3 DEF Init, TypeOK
<1>3. Conservation
  BY <1>1 DEF Init, Conservation
<1>4. UncheckedCountSafe /\ StreakHeld
  BY DEF Init, UncheckedCountSafe, StreakHeld
<1>5. LoneKeeperBounded
  BY ConstantFacts DEF Init, LoneKeeperBounded
<1> QED BY <1>2, <1>3, <1>4, <1>5 DEF IInv

\* The owner's setters touch neither balances nor books.
LEMMA OwnerSettersIInv ==
    ASSUME IInv, NEW caller \in Caller, OwnerCall(caller),
           ~ \E n \in Amount : withdraw(caller, n)
    PROVE  IInv'
<1> USE ConstantFacts DEF AdminFrame, roles, config, counters, flows, Caller
<1>1. /\ AdminFrame
      /\ paused' \in BOOLEAN /\ owner' \in Account /\ keeper' \in Account
      /\ paymaster' \in Account \ {Zero}
      /\ threshold' \in Amount \ {0} /\ topUpAmount' \in Amount \ {0}
  BY DEF OwnerCall, setKeeper, setPaymaster, setThreshold, setTopUpAmount,
     pause, unpause, transferOwnership, renounceOwnership, IInv, TypeOK
<1>2. TypeOK'
  BY <1>1 DEF IInv, TypeOK
<1>3. Conservation' /\ UncheckedCountSafe'
  BY <1>1 DEF IInv, Conservation, UncheckedCountSafe
<1>4. LoneKeeperBounded' /\ StreakHeld'
  <2>1. PICK t \in Nat \ {0}, n \in Nat : threshold' = t /\ topUpAmount' = n
    BY <1>1
  <2>2. streak' = 0
    BY <1>1
  <2> QED BY <2>1, <2>2 DEF LoneKeeperBounded, StreakHeld
<1> QED BY <1>2, <1>3, <1>4 DEF IInv

\* Tokens coming in, through deposit or past it.
LEMMA FundingIInv ==
    ASSUME IInv, NEW from \in Caller, NEW n \in Amount,
           deposit(from, n) \/ Donate(from, n)
    PROVE  IInv'
<1> USE ConstantFacts
<1> DEFINE b == Move(from, Vault, n)
<1>1. /\ bal' = b /\ funded' = funded + n /\ streak' = 0
      /\ UNCHANGED <<owner, keeper, paymaster, threshold, topUpAmount,
                     totalToppedUp, topUpCount, paused, withdrawn, selfTopUps>>
      /\ n <= bal[from]
  BY DEF deposit, Donate, roles, config, counters
<1>2. n \in Nat /\ from \in Account /\ from # Vault /\ bal \in [Account -> Nat]
  BY DEF Caller, IInv, TypeOK
<1>3. b \in [Account -> Nat] /\ b[Vault] = bal[Vault] + n
  BY <1>1, <1>2, MoveFacts
<1>4. TypeOK'
  BY <1>1, <1>2, <1>3 DEF IInv, TypeOK
<1>5. Conservation'
  BY <1>1, <1>2, <1>3 DEF IInv, TypeOK, Conservation
<1>6. UncheckedCountSafe' /\ LoneKeeperBounded' /\ StreakHeld'
  BY <1>1 DEF IInv, TypeOK, UncheckedCountSafe, LoneKeeperBounded, StreakHeld
<1> QED BY <1>4, <1>5, <1>6 DEF IInv

\* The owner takes tokens out.
LEMMA WithdrawIInv ==
    ASSUME IInv, NEW caller \in Caller, NEW n \in Amount, withdraw(caller, n)
    PROVE  IInv'
<1> USE ConstantFacts
<1> DEFINE b == Move(Vault, owner, n)
<1>1. /\ bal' = b /\ withdrawn' = withdrawn + n /\ streak' = 0
      /\ UNCHANGED <<owner, keeper, paymaster, threshold, topUpAmount,
                     totalToppedUp, topUpCount, paused, funded, selfTopUps>>
      /\ n <= bal[Vault]
  BY DEF withdraw, vaultBalance, roles, config, counters
<1>2. n \in Nat /\ owner \in Account /\ owner # Vault /\ bal \in [Account -> Nat]
  BY DEF withdraw, Caller, IInv, TypeOK
<1>3. b \in [Account -> Nat] /\ b[Vault] = bal[Vault] - n
  BY <1>1, <1>2, MoveFacts
<1>4. TypeOK'
  BY <1>1, <1>2, <1>3 DEF IInv, TypeOK
<1>5. Conservation'
  BY <1>1, <1>2, <1>3 DEF IInv, TypeOK, Conservation
<1>6. UncheckedCountSafe' /\ LoneKeeperBounded' /\ StreakHeld'
  BY <1>1 DEF IInv, TypeOK, UncheckedCountSafe, LoneKeeperBounded, StreakHeld
<1> QED BY <1>4, <1>5, <1>6 DEF IInv

\* Tokens move between outsiders.
LEMMA TransferIInv ==
    ASSUME IInv, NEW from \in Caller, NEW to \in Account, NEW n \in Amount,
           TokenTransfer(from, to, n)
    PROVE  IInv'
<1> USE ConstantFacts
<1> DEFINE b == Move(from, to, n)
<1>1. /\ bal' = b /\ streak' = 0
      /\ UNCHANGED <<owner, keeper, paymaster, threshold, topUpAmount, paused,
                     totalToppedUp, topUpCount, funded, withdrawn, selfTopUps>>
      /\ n <= bal[from] /\ to # Vault
  BY DEF TokenTransfer, roles, config, counters, flows
<1>2. n \in Nat /\ from \in Account /\ from # Vault /\ bal \in [Account -> Nat]
  BY DEF Caller, IInv, TypeOK
<1>3. b \in [Account -> Nat] /\ b[Vault] = bal[Vault]
  BY <1>1, <1>2, MoveFacts
<1>4. TypeOK'
  BY <1>1, <1>2, <1>3 DEF IInv, TypeOK
<1>5. Conservation'
  BY <1>1, <1>2, <1>3 DEF IInv, TypeOK, Conservation
<1>6. UncheckedCountSafe' /\ LoneKeeperBounded' /\ StreakHeld'
  BY <1>1 DEF IInv, TypeOK, UncheckedCountSafe, LoneKeeperBounded, StreakHeld
<1> QED BY <1>4, <1>5, <1>6 DEF IInv

\* The modular increment of topUpCount is an exact one.
LEMMA TopUpCounts ==
    ASSUME IInv, NEW caller \in Caller, executeTopUp(caller)
    PROVE  /\ topUpCount + 1 <= totalToppedUp + topUpAmount
           /\ topUpCount' = topUpCount + 1
<1>1. /\ topUpAmount \in Nat /\ topUpAmount > 0
      /\ totalToppedUp \in Nat /\ topUpCount \in Nat /\ MaxUint \in Nat
  BY ConstantFacts, VaultAssumption DEF IInv, TypeOK
<1>2. topUpCount + 1 <= totalToppedUp + topUpAmount
  BY <1>1 DEF IInv, UncheckedCountSafe
<1>3. topUpCount + 1 \in Nat /\ topUpCount + 1 <= MaxUint
  BY <1>1, <1>2 DEF executeTopUp, CanTopUp
<1>4. (topUpCount + 1) % (MaxUint + 1) = topUpCount + 1
  BY <1>1, <1>3, NoWrap
<1> QED BY <1>2, <1>4 DEF executeTopUp

\* A top-up: the only action that moves the counters, and the only one that
\* lengthens the streak.
LEMMA TopUpIInv ==
    ASSUME IInv, NEW caller \in Caller, executeTopUp(caller)
    PROVE  IInv'
<1> USE ConstantFacts
<1> DEFINE b == Move(Vault, paymaster, topUpAmount)
<1>1. /\ bal \in [Account -> Nat] /\ paymaster \in Account
      /\ threshold \in Nat /\ topUpAmount \in Nat /\ topUpAmount > 0
      /\ totalToppedUp \in Nat /\ topUpCount \in Nat /\ MaxUint \in Nat
      /\ streak \in Nat /\ funded \in Nat /\ withdrawn \in Nat /\ selfTopUps \in Nat
  BY VaultAssumption DEF IInv, TypeOK
<1>2. /\ bal[paymaster] < threshold /\ topUpAmount <= bal[Vault]
      /\ totalToppedUp + topUpAmount <= MaxUint
  BY DEF executeTopUp, CanTopUp, needsTopUp, paymasterBalance, vaultBalance
<1>3. /\ bal' = b /\ totalToppedUp' = totalToppedUp + topUpAmount
      /\ UNCHANGED <<owner, keeper, paymaster, threshold, topUpAmount, paused,
                     funded, withdrawn>>
  BY DEF executeTopUp, roles, config
<1>4. topUpCount + 1 <= totalToppedUp + topUpAmount
  BY TopUpCounts
<1>5. topUpCount' = topUpCount + 1
  BY TopUpCounts
<1>6. UncheckedCountSafe'
  BY <1>3, <1>4, <1>5 DEF UncheckedCountSafe
<1>7. CASE paymaster = Vault
  <2>1. b = bal /\ selfTopUps' = selfTopUps + topUpAmount /\ streak' = streak
    BY <1>1, <1>2, <1>7, MoveFacts DEF executeTopUp
  <2>2. TypeOK'
    BY <1>1, <1>2, <1>3, <1>4, <1>5, <2>1 DEF IInv, TypeOK
  <2>3. Conservation'
    BY <1>1, <1>3, <2>1 DEF IInv, Conservation
  <2>4. LoneKeeperBounded' /\ StreakHeld'
    BY <1>3, <2>1 DEF IInv, LoneKeeperBounded, StreakHeld
  <2> QED BY <1>6, <2>2, <2>3, <2>4 DEF IInv
<1>8. CASE paymaster # Vault
  <2>1. UNCHANGED selfTopUps /\ streak' = streak + topUpAmount
    BY <1>8 DEF executeTopUp
  <2>2. /\ b \in [Account -> Nat]
        /\ b[Vault] = bal[Vault] - topUpAmount
        /\ b[paymaster] = bal[paymaster] + topUpAmount
    BY <1>1, <1>2, <1>8, MoveFacts
  <2>3. TypeOK'
    BY <1>1, <1>2, <1>3, <1>4, <1>5, <2>1, <2>2 DEF IInv, TypeOK
  <2>4. Conservation'
    BY <1>1, <1>3, <2>1, <2>2 DEF IInv, Conservation
  <2>5. streak <= bal[paymaster]
    BY <1>1 DEF IInv, StreakHeld
  <2>6. LoneKeeperBounded'
    BY <1>1, <1>2, <1>3, <2>1, <2>5 DEF LoneKeeperBounded
  <2>7. StreakHeld'
    BY <1>1, <1>3, <1>8, <2>1, <2>2, <2>5 DEF StreakHeld
  <2> QED BY <1>6, <2>3, <2>4, <2>6, <2>7 DEF IInv
<1> QED BY <1>7, <1>8

\* Every step of anybody preserves the invariant.
LEMMA NextIInv == IInv /\ [Next]_vars => IInv'
<1> SUFFICES ASSUME IInv, [Next]_vars PROVE IInv'
  OBVIOUS
<1>1. CASE UNCHANGED vars
  BY <1>1 DEF vars, roles, config, counters, flows, IInv, TypeOK, Conservation,
     UncheckedCountSafe, LoneKeeperBounded, StreakHeld
<1>2. CASE Next
  <2>1. PICK caller \in Caller :
           \/ OwnerCall(caller)
           \/ executeTopUp(caller)
           \/ \E n \in Amount : deposit(caller, n)
           \/ TokenMove(caller)
    BY <1>2 DEF Next, Transaction
  <2>2. CASE OwnerCall(caller)
    BY <2>2, OwnerSettersIInv, WithdrawIInv
  <2>3. CASE executeTopUp(caller)
    BY <2>3, TopUpIInv
  <2>4. CASE \E n \in Amount : deposit(caller, n)
    BY <2>4, FundingIInv
  <2>5. CASE TokenMove(caller)
    BY <2>5, FundingIInv, TransferIInv DEF TokenMove
  <2> QED BY <2>1, <2>2, <2>3, <2>4, <2>5
<1> QED BY <1>1, <1>2

\* Every reachable state satisfies the inductive invariant.
THEOREM InductiveInvariant == Spec => []IInv
BY InitIInv, NextIInv, PTL DEF Spec

\* The variables keep their types: balances never go negative, the counters
\* stay within the width of the EVM's integers.
THEOREM TypeCorrect == Spec => []TypeOK
BY InductiveInvariant, PTL DEF IInv

\* Conservation holds whatever the owner, the keeper and outsiders do.
THEOREM TokensConserved == Spec => []Conservation
BY InductiveInvariant, PTL DEF IInv

\* The unchecked increment of topUpCount is safe for every integer width.
THEOREM UncheckedIncrementSafe == Spec => []UncheckedCountSafe
BY InductiveInvariant, PTL DEF IInv

\* A keeper acting alone moves less than threshold + topUpAmount.
THEOREM KeeperReachBounded == Spec => []LoneKeeperBounded
BY InductiveInvariant, PTL DEF IInv

\* A step that lowers the vault's balance is a withdrawal or a top-up.
LEMMA NextProperOutflow == IInv /\ [Next]_vars => [ProperOutflow]_vars
<1> SUFFICES ASSUME IInv, Next, bal'[Vault] < bal[Vault]
             PROVE  \/ OwnerTakes(bal[Vault] - bal'[Vault])
                    \/ PaymasterGetsTopUp
  BY DEF ProperOutflow
<1> USE ConstantFacts
<1>1. bal \in [Account -> Nat] /\ owner \in Account /\ paymaster \in Account
  BY DEF IInv, TypeOK
<1>2. PICK caller \in Caller :
         \/ OwnerCall(caller)
         \/ executeTopUp(caller)
         \/ \E n \in Amount : deposit(caller, n) \/ Donate(caller, n)
         \/ \E n \in Amount, to \in Account : TokenTransfer(caller, to, n)
  BY DEF Next, Transaction, TokenMove
<1>3. caller \in Account /\ caller # Vault
  BY DEF Caller
<1>4. CASE OwnerCall(caller)
  <2>1. bal' # bal
    BY <1>1
  <2>2. PICK n \in Amount : withdraw(caller, n)
    BY <1>4, <2>1 DEF OwnerCall, AdminFrame, setKeeper, setPaymaster,
       setThreshold, setTopUpAmount, pause, unpause, transferOwnership,
       renounceOwnership
  <2>3. /\ n \in Nat /\ n <= bal[Vault] /\ owner # Vault
        /\ bal' = Move(Vault, owner, n) /\ withdrawn' = withdrawn + n
        /\ UNCHANGED <<roles, counters>>
    BY <1>3, <2>2 DEF withdraw, vaultBalance
  <2>4. bal'[Vault] = bal[Vault] - n
    BY <1>1, <2>3, MoveFacts
  <2>5. bal[Vault] - bal'[Vault] = n
    BY <1>1, <2>3, <2>4
  <2> QED BY <2>3, <2>5 DEF OwnerTakes
<1>5. CASE executeTopUp(caller)
  <2>1. topUpCount' = topUpCount + 1
    BY <1>5, TopUpCounts
  <2> QED
    BY <1>5, <2>1 DEF PaymasterGetsTopUp, executeTopUp, CanTopUp, needsTopUp,
       paymasterBalance
<1>6. CASE \E n \in Amount : deposit(caller, n) \/ Donate(caller, n)
  <2>1. PICK n \in Amount : n <= bal[caller] /\ bal' = Move(caller, Vault, n)
    BY <1>6 DEF deposit, Donate
  <2>2. n \in Nat /\ bal'[Vault] = bal[Vault] + n
    BY <1>1, <1>3, <2>1, MoveFacts
  <2> QED BY <1>1, <2>2
<1>7. CASE \E n \in Amount, to \in Account : TokenTransfer(caller, to, n)
  <2>1. PICK n \in Amount, to \in Account :
           n <= bal[caller] /\ to # Vault /\ bal' = Move(caller, to, n)
    BY <1>7 DEF TokenTransfer
  <2>2. n \in Nat /\ bal'[Vault] = bal[Vault]
    BY <1>1, <1>3, <2>1, MoveFacts
  <2> QED BY <1>1, <2>2
<1> QED BY <1>2, <1>4, <1>5, <1>6, <1>7

\* Nothing but a counted top-up and an owner's withdrawal lowers the vault's
\* balance, in any behaviour.
THEOREM OutflowProper == Spec => FundsLeaveOnlyProperly
BY InductiveInvariant, NextProperOutflow, PTL DEF Spec, FundsLeaveOnlyProperly

=============================================================================
