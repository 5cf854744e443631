SPECIFICATION Spec
CONSTANTS
  h1 = h1
  h2 = h2
  h3 = h3
  h4 = h4
  d1 = d1
  d2 = d2
  Homes = {h1}
  Devices = {d1}
  NoHome = NoHome
  HomeOf <- InOne
  WithRooms = {}
  FirstHomes <- NoHomes
  FirstStates <- NoStates
  Paired = {FALSE}
  Buffer = 2
  MaxCalls = 1
  MaxVersion = 1
  MaxFaults = 0
INVARIANT PairingHolds
