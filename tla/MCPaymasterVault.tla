-------------------------- MODULE MCPaymasterVault --------------------------
(* Small instances of PaymasterVault for TLC.                              *)
EXTENDS PaymasterVault

CONSTANTS zero, vault, own, kp, pm   \* the addresses, as model values

MCAccount == {zero, vault, own, kp, pm}

\* The whole supply is in the owner's hands, or a unit of it already sits at
\* the address the vault is deployed to.
MCInitBalances ==
    { [a \in MCAccount |-> IF a = own THEN MaxFunded ELSE 0],
      [a \in MCAccount |-> CASE a = own -> MaxFunded - 1 [] a = vault -> 1
                             [] OTHER -> 0] }
=============================================================================
