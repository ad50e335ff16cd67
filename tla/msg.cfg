SPECIFICATION Spec
CONSTANTS
  Object = {m1, m2, m3}
  Content = {b1, b2}
  Value = {v1, v2}
  MaxUsers = 3
INVARIANTS RefsExact
PROPERTIES KeepsValues
CHECK_DEADLOCK FALSE
