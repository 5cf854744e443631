SPECIFICATION ReadingSpec
CONSTANTS
  onOff = onOff
  Nodes = {n1, n2}
  Attrs = {onOff}
  Ignored <- MCIgnored
  Imported = {n1}
  MaxVersion = 1
  MaxStream = 0
  MaxFaults = 0
PROPERTY RegisteredConverges
CHECK_DEADLOCK FALSE
