SPECIFICATION Spec
CONSTANTS
  Requests = {r1, r2, r3}
  Kinds <- KeyKinds
  None = None
INVARIANT ReferencesHold
