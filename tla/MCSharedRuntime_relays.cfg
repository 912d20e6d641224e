SPECIFICATION FairSpec
CONSTANTS
  r1 = r1
  r2 = r2
  None = None
  Relays = {r1, r2}
  Brokers <- MCTwoBrokers
  MaxCalls = 1
INVARIANTS
  BoundRelayKeepsItsBroker
  NoCallIsCutOff
PROPERTIES
  ImplementsTenancy
  IdleBrokerStops
CHECK_DEADLOCK FALSE
