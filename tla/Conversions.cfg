CONSTANTS
  Waiters = {w1}
  Configs <- MCConfigs
  Manifests <- MCManifests
  Legacy <- MCLegacy
  MaxPeriod = 7
  MaxDuration = 15
  MaxAttempt = 3
  MaxRecoveries = 2
SPECIFICATION ConversionSpec
INVARIANTS
  TimingInForceIsUsable
  DelayWithinLimits
  OutcomeIsFaithful
  ResultCoversEvents
  DialectsKeepMeaning
  

  
CHECK_DEADLOCK FALSE
