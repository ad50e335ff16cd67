SPECIFICATION Spec
CONSTANTS
  s1 = s1
  m1 = m1
  f1 = f1
  NONE = NONE
  Obj = {s1, m1, f1}
  Sock = {s1}
  Fd = {f1}
  Polled <- PolledTwo
  MaxPins = 2
INVARIANTS TypeOK Backed YieldsLiveObjects ArrayExact
CHECK_DEADLOCK FALSE
