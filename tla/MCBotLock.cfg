\* Three coroutines contend for two symbols; any body may outlive its watchdog.
CONSTANTS
  Symbols = {eur, btc}
  Tasks = {t1, t2, t3}
  Tokens = {k1, k2, k3}
  None = None
  LockTimeout = 2
  MaxDropped = 1
SPECIFICATION FairLockSpec
INVARIANTS TypeOK LockInv LeaseExclusive
PROPERTIES OnlyHolderFrees ImplementsLeaseLock LockIsFreed
