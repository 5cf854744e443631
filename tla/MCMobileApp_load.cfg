SPECIFICATION FairSpec
CONSTANTS
  h1 = h1
  h2 = h2
  h3 = h3
  h4 = h4
  d1 = d1
  d2 = d2
  Homes = {h1, h2, h3, h4}
  Devices = {d1, d2}
  NoHome = NoHome
  HomeOf <- OneInEach
  WithRooms = {h1, h2}
  FirstHomes <- TwoHomesOrNone
  FirstStates <- OnlyFirst
  Paired = {TRUE, FALSE}
  Buffer = 2
  MaxCalls = 2
  MaxVersion = 1
  MaxFaults = 2
INVARIANTS TypeOK OneByOneShowsHome PairingHoldsWithHomes
PROPERTY Settles
