\* Every function of the vault, in any order, by any caller.
SPECIFICATION Spec
CONSTANTS
    zero = zero
    vault = vault
    own = own
    kp = kp
    pm = pm
    Account <- MCAccount
    Zero = zero
    Vault = vault
    MaxUint = 4
    Amount = {0, 1, 2}
    InitBalances <- MCInitBalances
    MaxFunded = 4
INVARIANTS TypeOK Conservation UncheckedCountSafe LoneKeeperBounded
PROPERTY FundsLeaveOnlyProperly
CHECK_DEADLOCK FALSE
