SPECIFICATION PublisherSpec
CONSTANTS
  c1 = c1
  c2 = c2
  Clients = {c1, c2}
  NoClient = NoClient
  Buffer <- MCBuffer
  MaxEvents = 6
INVARIANTS TypeOK NewestKept EmptyMeansCurrent
PROPERTIES PublishReturns ImplementsFeed
