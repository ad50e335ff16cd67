SPECIFICATION FairSpec
CONSTANTS
  Client = {c1, c2, c3}
  NONE = NONE
CHECK_DEADLOCK FALSE
INVARIANTS TypeOK GrantedIsAuthenticated OneAnswer SilenceExplained OneVictimEach
PROPERTIES EveryoneHears
