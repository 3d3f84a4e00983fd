---------------------------- MODULE KeeperVault ----------------------------
(***************************************************************************)
(* The keeper daemon gateway/cmd/keeper/main.go, the mempool its           *)
(* transactions wait in, and the vault contract they call, while the       *)
(* owner, the paymaster and depositors go on transacting.                  *)
(*                                                                         *)
(* The daemon decides on a view it read some time ago, waits for no        *)
(* receipt and remembers nothing between two polls: the next poll sends a  *)
(* second executeTopUp while the first is pending, a restart forgets both, *)
(* and two daemons may run on one key during a redeployment.               *)
(*                                                                         *)
(* A nonce is kept relative to the key's next nonce on chain, so that the  *)
(* state stays finite: 0 is the nonce the chain takes next, and a nonce    *)
(* that was overtaken is Stale.                                            *)
(***************************************************************************)
EXTENDS PaymasterVault

CONSTANTS
    Daemon,         \* keeper processes that hold the key
    KeeperAddr,     \* crypto.PubkeyToAddress of that key
    PoolSlots       \* bound: pending transactions a node keeps per account

ASSUME KeeperAssumption ==
    KeeperAddr \in Account \ {Zero, Vault} /\ PoolSlots \in Nat \ {0}

VARIABLES
    pc,     \* where each daemon is in its loop
    nonce,  \* the local variable nonce of executeTopUp
    pool    \* nonces of the pending executeTopUp transactions

daemonVars == <<pc, nonce>>
kvars == <<vars, pc, nonce, pool>>

Stale == -1
Nonce == Stale..PoolSlots

Location == {"down", "waiting", "reading", "deciding", "sending"}

KTypeOK ==
    /\ pc \in [Daemon -> Location]
    /\ nonce \in [Daemon -> Nonce]
    /\ pool \subseteq 0..(PoolSlots - 1)

KInit ==
    /\ Init
    /\ pc = [d \in Daemon |-> "down"] /\ nonce = [d \in Daemon |-> Stale]
    /\ pool = {}

-----------------------------------------------------------------------------
(* The daemon.                                                             *)

GoTo(d, label) ==
    /\ pc' = [pc EXCEPT ![d] = label]
    /\ nonce' = [nonce EXCEPT ![d] = Stale]

\* main up to its first runPoll.
Start(d) ==
    /\ pc[d] = "down"
    /\ GoTo(d, "reading")
    /\ UNCHANGED <<vars, pool>>

\* Mutant of Tick: no poll while a transaction is pending.
Tick_nothingPending(d) ==
    /\ pc[d] = "waiting" /\ pool = {}
    /\ GoTo(d, "reading")
    /\ UNCHANGED <<vars, pool>>

\* The ticker fires; a tick during a poll stays in its channel.
Tick(d) ==
    /\ pc[d] = "waiting"
    /\ GoTo(d, "reading")
    /\ UNCHANGED <<vars, pool>>

\* The third call of readVaultState, the one runPoll decides on.
Read(d) ==
    /\ pc[d] = "reading"
    /\ GoTo(d, IF needsTopUp THEN "deciding" ELSE "waiting")
    /\ UNCHANGED <<vars, pool>>

\* PendingNonceAt: the first nonce neither mined nor pending.
IsPendingNonce(n) == n \notin pool /\ 0..(n - 1) \subseteq pool

GetNonce(d) ==
    /\ pc[d] = "deciding"
    /\ pc' = [pc EXCEPT ![d] = "sending"]
    /\ \E n \in 0..PoolSlots :
          IsPendingNonce(n) /\ nonce' = [nonce EXCEPT ![d] = n]
    /\ UNCHANGED <<vars, pool>>

\* Mutant of Send: the nonce is not looked at.
Send_anyNonce(d) ==
    /\ pc[d] = "sending"
    /\ pool' = pool \cup {nonce[d]}
    /\ GoTo(d, "waiting")
    /\ UNCHANGED vars

\* SendTransaction, whatever EstimateGas said.  The node refuses a nonce that
\* is used, that another pending transaction has, or that finds no slot.
Send(d) ==
    /\ pc[d] = "sending"
    /\ nonce[d] \in 0..(PoolSlots - 1) \ pool
    /\ pool' = pool \cup {nonce[d]}
    /\ GoTo(d, "waiting")
    /\ UNCHANGED vars

\* A call fails or the 15 s of the poll are over: runPoll returns.  Where it
\* is SendTransaction whose answer is lost, Send has happened.
Fail(d) ==
    /\ pc[d] \in {"reading", "deciding", "sending"}
    /\ GoTo(d, "waiting")
    /\ UNCHANGED <<vars, pool>>

\* A signal or a crash: the process keeps nothing.
Crash(d) ==
    /\ pc[d] # "down"
    /\ GoTo(d, "down")
    /\ UNCHANGED <<vars, pool>>

-----------------------------------------------------------------------------
(* The chain.                                                              *)

Shift(n) == IF n = Stale THEN Stale ELSE n - 1

\* Mutant of Included: what the daemon decided is carried out as decided.
Included_asDecided ==
    IF vaultBalance >= topUpAmount /\ totalToppedUp + topUpAmount <= MaxUint
    THEN /\ bal' = Move(Vault, paymaster, topUpAmount)
         /\ totalToppedUp' = totalToppedUp + topUpAmount
         /\ topUpCount' = topUpCount + 1
         /\ IF paymaster = Vault
            THEN selfTopUps' = selfTopUps + topUpAmount /\ UNCHANGED streak
            ELSE streak' = streak + topUpAmount /\ UNCHANGED selfTopUps
         /\ UNCHANGED <<roles, config, paused, funded, withdrawn>>
    ELSE UNCHANGED vars

\* What a mined executeTopUp of the keeper does: it succeeds or it reverts.
Included ==
    IF CanTopUp(KeeperAddr) THEN executeTopUp(KeeperAddr) ELSE UNCHANGED vars

\* The pending transaction that is next by nonce enters a block.
Mine ==
    /\ 0 \in pool
    /\ pool' = {n - 1 : n \in pool \ {0}}
    /\ nonce' = [d \in Daemon |-> Shift(nonce[d])]
    /\ UNCHANGED pc
    /\ Included

\* The node forgets a pending transaction; later ones wait for the gap.
Drop == \E n \in pool :
    /\ pool' = pool \ {n}
    /\ UNCHANGED <<vars, daemonVars>>

\* Everyone else; the keeper's key is used by its daemons only.
Others ==
    /\ \E caller \in Caller \ {KeeperAddr} : Transaction(caller)
    /\ UNCHANGED <<daemonVars, pool>>

-----------------------------------------------------------------------------

DaemonStep(d) ==
    \/ Start(d) \/ Tick(d) \/ Read(d) \/ GetNonce(d) \/ Send(d)
    \/ Fail(d) \/ Crash(d)

KNext == (\E d \in Daemon : DaemonStep(d)) \/ Mine \/ Drop \/ Others

\* A supervised daemon is restarted, its ticker ticks and the 15 s of a poll
\* run out; an RPC endpoint that is asked again and again answers some time; a
\* chain that is offered executable transactions again and again mines one.
Fairness ==
    /\ \A d \in Daemon : /\ WF_kvars(Start(d)) /\ WF_kvars(Tick(d))
                         /\ WF_kvars(Fail(d))
                         /\ SF_kvars(Read(d)) /\ SF_kvars(GetNonce(d))
                         /\ SF_kvars(Send(d))
    /\ SF_kvars(Mine)

KSpec == KInit /\ [][KNext]_kvars

FairKSpec == KSpec /\ Fairness

-----------------------------------------------------------------------------
(* Properties.                                                             *)

\* Late, duplicated and dropped transactions of the daemons are for the vault
\* no more than what a caller of executeTopUp may do: the system implements
\* the vault's specification, and with it everything proved about the vault.
VaultImplemented == Spec

\* "Continuously monitors and refills paymaster gas reserves": a shortage the
\* keeper may end is ended, by a top-up of anyone or by a change that leaves
\* nothing to do, despite failing calls, crashes and dropped transactions.
ShortageServed ==
    \A n \in 0..MaxUint :
        (CanTopUp(KeeperAddr) /\ topUpCount = n)
            ~> (~CanTopUp(KeeperAddr) \/ topUpCount # n)
=============================================================================
