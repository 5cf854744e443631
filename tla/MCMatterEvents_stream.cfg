SPECIFICATION FairSpec
CONSTANTS
  onOff = onOff
  Nodes = {n1, n2}
  Attrs = {onOff}
  Ignored <- MCIgnored
  Imported = {n1}
  MaxVersion = 3
  MaxStream = 1
  MaxFaults = 2
INVARIANTS TypeOK AnnouncedIsDurable Synced
PROPERTY ImplementsMirror
