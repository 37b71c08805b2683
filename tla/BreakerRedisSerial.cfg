SPECIFICATION Spec
CONSTANTS
  FailureThreshold = 2
  Cooldown = 2
  wA = wA
  wB = wB
  a1 = a1
  a2 = a2
  b1 = b1
  NoEntry = NoEntry
  Workers <- MCWorkers
  Home <- MCHome
  Tasks = {a1, b1}
  MaxInFlight = 1
  MaxFaults = 0
PROPERTY SharedContract
