\* Two processes at once, each authority rotated twice, three crashes.
SPECIFICATION FairSpec
CONSTANTS
  Process = {p1, p2}
  Nobody = Nobody
  Absent = Absent
  MaxCA = 3
  MaxCrashes = 3
\* With a leader and no rotation or crash left nothing is left to do.
CHECK_DEADLOCK FALSE
INVARIANTS TypeOK LeaderHasBundle RestartRefreshes
PROPERTIES EventuallyLed
