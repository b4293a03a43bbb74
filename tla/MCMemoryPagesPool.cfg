\* Three threads, a pool of two pages; thresholds chosen so that the states
\* "high" (one page used) and "empty" (none used) are both reached.
CONSTANTS
  Threads = {t1, t2, t3}
  NumberOfPages = 2
  Stages = {"InEquipment"}
  ChildSlots = 1
  HighPct = 40
  OkPct = 30
SPECIFICATION Spec
SYMMETRY ThreadSymmetry
INVARIANTS
  PageConservation
  ReleaseNeverRejected
  StatesAgree
