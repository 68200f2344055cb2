SPECIFICATION Spec
CONSTANTS
  Delegators = {"d", "e"}
  Validators = {"sound", "repeating"}
  Repeating = {"repeating"}
  Trader = "e"
  LockPeriod = 1
  First = 3
  Cleanup = 4
  Cutoff = 5
  InitialLiquid <- MCLiquid
  InitialShard1 = 1
  InitialStake <- MCStake
  BookedUnder = {"cross_shard", "hip30", "max_rate", "rounding"}
  MaxEvents = 2
INVARIANTS
  MintExact
  ClaimsDiffExact
  DerivedExact
  ChangeBlindToShard1
  CrossShardPinned
CHECK_DEADLOCK FALSE
