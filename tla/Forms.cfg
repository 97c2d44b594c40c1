SPECIFICATION FormsSpec
CONSTANTS
  Questions <- AllQuestions
  Apps = {"pedmd", "parentup"}
  Roles <- MCRoles
  Functions = {"qa", "hiring", "support"}
  MaxChips = 2
  Degrees = {"set"}
  MaxVisits = 2
CHECK_DEADLOCK FALSE
INVARIANTS
  PassedIsStored
  StoredIsCanonical
  LookingIsHarmless
