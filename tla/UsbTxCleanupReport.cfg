CONSTANTS
  Freqs <- MCFreqs
  PaFilter <- MCPaFilter
  RxFilter <- MCRxFilter
  Gains <- MCGains
  DefaultGain = 20
SPECIFICATION Spec
INVARIANT CleanupFailureExposed
