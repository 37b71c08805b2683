SPECIFICATION Spec
CONSTANTS
  Jobs = {j1}
  r1 = r1
  r2 = r2
  a = a
  b = b
  Releases = {r1, r2}
  Trips = {a, b}
  NotAZip = NotAZip
  NoTime = NoTime
  NoPlace = NoPlace
  StopTimes <- MCStopTimes
  Places <- MCPlaces
  Day = 5
  Delays <- MCDelays
  TTL = 1
INVARIANT No500
