SPECIFICATION Spec
CONSTANTS
  Client = {c1, c2}
  NONE = NONE
CHECK_DEADLOCK FALSE
PROPERTIES TemporaryErrorSent
