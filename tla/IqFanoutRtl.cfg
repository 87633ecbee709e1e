CONSTANTS
  Clients <- MCClients
  Bytes = 2
  FrameSamples = 2
  Capacity = 2
  MaxSample = 4
SPECIFICATION Spec
PROPERTY RtlUninterrupted
