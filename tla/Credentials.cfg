CONSTANTS
  Requests = {r1}
  Configs <- MCConfigs
  Platforms <- MCTurns
  Life = 3
  RenewOffsets = {2}
  Margin = 1
  MaxNow = 3
  MaxCrashes = 1
  MaxStops = 1
  MaxChanges = 1
  MaxFaults = 1
SPECIFICATION FairSpec
INVARIANTS
  RetryIsFresh
PROPERTIES
  PinnedNeverDowngrades
  RenewalKeepsUp
