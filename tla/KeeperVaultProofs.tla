------------------------- MODULE KeeperVaultProofs -------------------------
(***************************************************************************)
(* The keeper and its mempool, for any number of daemons and pool slots,   *)
(* leave the vault a vault: KeeperVault implements PaymasterVault, and     *)
(* inherits what PaymasterVaultProofs proves about it.                     *)
(***************************************************************************)
EXTENDS KeeperVault, PaymasterVaultProofs

\* Every step of the composed system is a transaction of some caller or
\* leaves the vault and the token alone.
LEMMA StepIsVaultStep == [KNext]_kvars => [Next]_vars
<1> SUFFICES ASSUME [KNext]_kvars PROVE [Next]_vars
  OBVIOUS
<1>1. CASE UNCHANGED kvars
  BY <1>1 DEF kvars
<1>2. CASE \E d \in Daemon : DaemonStep(d)
  BY <1>2 DEF DaemonStep, Start, Tick, Read, GetNonce, Send, Fail, Crash
<1>3. CASE Mine
  <2>1. KeeperAddr \in Caller
    BY KeeperAssumption DEF Caller
  <2> QED BY <1>3, <2>1 DEF Mine, Included, Next, Transaction
<1>4. CASE Drop
  BY <1>4 DEF Drop
<1>5. CASE Others
  BY <1>5 DEF Others, Next
<1> QED BY <1>1, <1>2, <1>3, <1>4, <1>5 DEF KNext

\* The composed system implements the vault's specification.
THEOREM KeeperRefinesVault == KSpec => VaultImplemented
<1>1. KInit => Init
  BY DEF KInit
<1> QED BY <1>1, StepIsVaultStep, PTL DEF KSpec, Spec, VaultImplemented

\* Duplicated, late and dropped transactions of any number of daemons never
\* carry more out of the vault than one caller of executeTopUp could.
THEOREM DuplicatesHarmless == KSpec => /\ []Conservation
                                       /\ []LoneKeeperBounded
                                       /\ FundsLeaveOnlyProperly
<1> QED BY KeeperRefinesVault, TokensConserved, KeeperReachBounded,
           OutflowProper, PTL DEF VaultImplemented

\* Every step of the composed system keeps the daemons' variables typed.
LEMMA StepKTypeOK == KTypeOK /\ [KNext]_kvars => KTypeOK'
<1> SUFFICES ASSUME KTypeOK, [KNext]_kvars PROVE KTypeOK'
  OBVIOUS
<1> USE KeeperAssumption DEF KTypeOK, Nonce, Stale
<1>1. CASE UNCHANGED kvars
  BY <1>1 DEF kvars
<1>2. ASSUME NEW d \in Daemon, DaemonStep(d) PROVE KTypeOK'
  <2>1. CASE GetNonce(d)
    <3>1. PICK n \in 0..PoolSlots : nonce' = [nonce EXCEPT ![d] = n]
      BY <2>1 DEF GetNonce
    <3> QED BY <2>1, <3>1 DEF GetNonce, Location
  <2>2. ASSUME NEW label \in Location, GoTo(d, label)
        PROVE  pc' \in [Daemon -> Location] /\ nonce' \in [Daemon -> Nonce]
    BY <2>2 DEF GoTo
  <2>3. CASE Send(d)
    <3>1. pc' \in [Daemon -> Location] /\ nonce' \in [Daemon -> Nonce]
      BY <2>2, <2>3 DEF Send, Location
    <3>2. pool' \subseteq 0..(PoolSlots - 1)
      BY <2>3 DEF Send
    <3> QED BY <3>1, <3>2
  <2>4. CASE Start(d) \/ Tick(d) \/ Read(d) \/ Fail(d) \/ Crash(d)
    <3>1. pc' \in [Daemon -> Location] /\ nonce' \in [Daemon -> Nonce]
      BY <2>2, <2>4 DEF Start, Tick, Read, Fail, Crash, Location
    <3>2. UNCHANGED pool
      BY <2>4 DEF Start, Tick, Read, Fail, Crash
    <3> QED BY <3>1, <3>2
  <2> QED BY <1>2, <2>1, <2>3, <2>4 DEF DaemonStep
<1>3. CASE Mine
  <2>1. pool' \subseteq 0..(PoolSlots - 1)
    <3>1. \A n \in pool \ {0} : n - 1 \in 0..(PoolSlots - 1)
      OBVIOUS
    <3>2. pool' = {n - 1 : n \in pool \ {0}}
      BY <1>3 DEF Mine
    <3> QED BY <3>1, <3>2
  <2>2. \A m \in Stale..PoolSlots : Shift(m) \in Stale..PoolSlots
    BY DEF Shift
  <2> QED BY <1>3, <2>1, <2>2 DEF Mine
<1>4. CASE Drop \/ Others
  BY <1>4 DEF Drop, Others, daemonVars
<1> QED BY <1>1, <1>2, <1>3, <1>4 DEF KNext

\* The daemons' variables and the mempool keep their types.
THEOREM KTypeCorrect == KSpec => []KTypeOK
<1>1. KInit => KTypeOK
  BY KeeperAssumption DEF KInit, KTypeOK, Nonce, Stale, Location
<1> QED BY <1>1, StepKTypeOK, PTL DEF KSpec

=============================================================================
