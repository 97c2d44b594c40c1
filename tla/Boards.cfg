SPECIFICATION BoardsSpec
CONSTANTS
  Members <- MCMembers
  Lead = 3
  Values <- MCValues
  Levels = {"L0", "L2"}
  Posts = {p, q}
  MaxEdits = 2
  MaxPosts = 3
  MaxLoads = 2
CONSTRAINT MCAnalyses
SYMMETRY MCSymmetry
INVARIANTS
  BadgeMatchesCards
  NamesNeedConsent
  AuditNeverLowersAgreement
PROPERTIES
  PanelKeepsRuns
CHECK_DEADLOCK FALSE
