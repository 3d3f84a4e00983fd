\* Two daemons on one key, as during a redeployment: what they may never do,
\* and that a shortage is served in the end.
SPECIFICATION FairKSpec
CONSTANTS
    zero = zero
    vault = vault
    own = own
    kp = kp
    Account <- MCAccount
    Zero = zero
    Vault = vault
    MaxUint = 1
    Amount = {0, 1}
    InitBalances <- MCInitBalances
    MaxFunded = 1
    Daemon = {1, 2}
    KeeperAddr = kp
    PoolSlots = 2
INVARIANT KTypeOK
PROPERTIES VaultImplemented ShortageServed
CHECK_DEADLOCK FALSE
