SPECIFICATION Spec
CONSTANTS
  x = x
  y = y
  a = a
  b = b
  d = d
  p = p
  q = q
  Cells <- MCTwoCells
  Cards <- MCTwoCards
  AnswerOf <- MCAnswerOf
  Wanted <- MCOnTwo
  NoCard = NoCard
  Reqs <- MCTwoReqs
  MaxRows = 6
SYMMETRY MCSymmetry
INVARIANTS
  StatementsCleared
  PublishedWasOffered
  ClashesBounded
PROPERTIES
  ImplementsHistory
CHECK_DEADLOCK FALSE
