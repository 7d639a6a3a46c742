\* Two DeviceConfigs, one node, two labels: events alone keep every list up to date.
SPECIFICATION FairSpec
CONSTANTS
  Node = {n1}
  DeviceConfig = {d1, d2}
  Label = {a, b}
  Absent = Absent
  Malformed = Malformed
  Asked = {{}, {a, b}, Malformed}
  Nobody = Nobody
  MaxChanges = 2
\* With no changes left and every event handled nothing is left to do.
CHECK_DEADLOCK FALSE
INVARIANTS TypeOK NothingMissed
PROPERTIES EventuallySeen
