SPECIFICATION FairSpec
CONSTANTS
  good = good
  homeless = homeless
  wifi = wifi
  guest = guest
  Requests = {good, homeless, r3}
  Invalid = {r3}
  BadHome = {homeless}
  Network <- MCNetwork
  NoNetwork = NoNetwork
  Nodes = {n1, n2}
  NoNode = NoNode
INVARIANTS TypeOK CreatedIsReal FailureLeavesNothing NoDeadDevice JoinsItsNetwork
PROPERTY Answered
CHECK_DEADLOCK FALSE
