SPECIFICATION Spec
CONSTANTS
  h1 = h1
  h2 = h2
  h3 = h3
  h4 = h4
  d1 = d1
  d2 = d2
  Homes = {h1}
  Devices = {d1}
  NoHome = NoHome
  HomeOf <- InOne
  WithRooms = {h1}
  FirstHomes <- OneHome
  FirstStates <- FirstValues
  Paired = {TRUE}
  Buffer = 2
  MaxCalls = 1
  MaxVersion = 2
  MaxFaults = 0
INVARIANT ShowsCurrent
