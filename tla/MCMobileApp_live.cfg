SPECIFICATION Spec
CONSTANTS
  h1 = h1
  h2 = h2
  h3 = h3
  h4 = h4
  d1 = d1
  d2 = d2
  Homes = {h1, h2, h3}
  Devices = {d1, d2}
  NoHome = NoHome
  HomeOf <- OneInEach
  WithRooms = {h1, h2}
  FirstHomes <- TwoHomes
  FirstStates <- FirstValues
  Paired = {TRUE}
  Buffer = 1
  MaxCalls = 2
  MaxVersion = 3
  MaxFaults = 1
INVARIANT CurrentUnlessRaced
