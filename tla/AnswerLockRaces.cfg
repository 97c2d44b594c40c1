SPECIFICATION FairSpec
CONSTANTS
  q14 = q14
  q14d = q14d
  fac = fac
  v1 = v1
  v2 = v2
  Respondents <- MCAlone
  Facilitator = fac
  Questions <- MCNoteOnly
  Q14 = q14
  Q14D = q14d
  Values <- MCValues
  Absent = Absent
  NoOne = NoOne
  Reqs = {a, b}
  MaxSnapshots = 2
  MaxNudges = 1
INVARIANTS
  TypeOK
  LockedHasBaseline
  DraftMatchesSnapshot
  NoteTravelsWithQ14
PROPERTIES
  DrainedLockHolds
  RequestsEnd
  ImplementsBook
CHECK_DEADLOCK FALSE
