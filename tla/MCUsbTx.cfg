CONSTANTS
  Freqs <- MCFreqs
  PaFilter <- MCPaFilter
  RxFilter <- MCRxFilter
  Gains <- MCGains
  DefaultGain = 20
SPECIFICATION Spec
INVARIANTS
  KeyAlwaysAnswered
  AmplifierOffAtClose
PROPERTIES
  CarrierOnlyWhenReady
  NoHotSwitch
  StopRestoresReceive
  RecoveryRestores
  KeepsContract
