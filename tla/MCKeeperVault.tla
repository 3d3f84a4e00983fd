--------------------------- MODULE MCKeeperVault ---------------------------
(* Small instances of KeeperVault for TLC.                                 *)
EXTENDS KeeperVault

CONSTANTS zero, vault, own, kp   \* the addresses, as model values

MCAccount == {zero, vault, own, kp}

\* The owner, the only other caller, also plays the paymaster and depositors.
MCInitBalances ==
    { [a \in MCAccount |-> IF a = own THEN MaxFunded ELSE 0] }
=============================================================================
