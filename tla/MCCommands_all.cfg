SPECIFICATION Spec
CONSTANTS
  r1 = r1
  r2 = r2
  dimmer = dimmer
  gangs = gangs
  sensor = sensor
  spare = spare
  Requests = {r1, r2}
  Devices = {dimmer, gangs, sensor, spare}
  ProductOf <- MCProductOf
  Commissioned = {dimmer, gangs, sensor}
  Inputs <- MCInputs
  NoInput = NoInput
  MaxTouches = 1
INVARIANTS TypeOK OnlyOffered ShowsExecuted AwaitedWins
SYMMETRY Sym
CHECK_DEADLOCK FALSE
