CONSTANTS
  LeaseTicks = 2
  MaxLease = 6
  Failures = TRUE
  Devices <- MCDevices
  TxUser = 1
  Applications <- MCApplications
  Prebuffer = 2
  MaxReferences = 3
SPECIFICATION FairSpec
INVARIANTS
  OwnersCounted
PROPERTIES
  BeliefResolved
  KeyingEnds
