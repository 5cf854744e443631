SPECIFICATION FairSpec
CONSTANTS
  Requests = {r1, r2, r3}
  Kinds <- AllKinds
  None = None
INVARIANTS TypeOK ReferencesHoldUndisturbed AnswersTrue PairingLasts GracefulStop
PROPERTY Stops
