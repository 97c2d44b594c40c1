SPECIFICATION Spec
CONSTANTS
  t1 = t1
  t2 = t2
  Texts <- MCTexts
  Good = Good
  Unsure = Unsure
  Blank = Blank
  MaxNudges = 2
  MaxVisits = 2
  MaxEdits = 3
CHECK_DEADLOCK FALSE
INVARIANTS
  NeverGates
  NudgesPerVisit
  ExamplesCounted
  RetiredIsSilent
