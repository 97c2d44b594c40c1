SPECIFICATION Spec
CONSTANTS
  x = x
  y = y
  a = a
  b = b
  d = d
  p = p
  q = q
  Cells <- MCOneCell
  Cards <- MCThreeCards
  AnswerOf <- MCAnswerOf
  Wanted <- MCOnOne
  NoCard = NoCard
  Reqs <- MCOneReq
  MaxRows = 6
INVARIANTS
  CreditsWhoFedIt
CHECK_DEADLOCK FALSE
