CONSTANTS
  Timeouts <- MCTimeouts
  DefaultTimeout = 3
  LoopMs = 2
  Requested <- MCRequested
  TxSettings <- MCTxSettings
  DefaultTx = 100
SPECIFICATION PolicySpec
INVARIANTS
  NoSilentCarrier
  NeverKeyedTwice
  KeyTimeBounded
  MicrophoneHeld
  EmissionAllowed
  OnAirAsReported
  PolicyNeverFaults
PROPERTY FaultLatched
