SPECIFICATION Spec
CONSTANTS
  c1 = c1
  c2 = c2
  c3 = c3
  NONE = NONE
  Call = {c1, c2, c3}
  Length <- Lengths
INVARIANTS TypeOK WholeUnlessTroubled DamageBounded
PROPERTIES UndisturbedSendsWhole
CHECK_DEADLOCK FALSE
