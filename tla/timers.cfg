SPECIFICATION FairSpec
CONSTANTS
  Timer = {t1, t2}
  NONE = NONE
  MaxEntries = 2
INVARIANTS TypeOK CallbacksBacked HashIsArmed RunsOnce
PROPERTIES DueTimersRun
CHECK_DEADLOCK FALSE
