\* A room and its clients, message by message: clients 0 and 1 have slow connections,
\* one player leaves once, between tricks, and games may end.
SPECIFICATION Spec
CONSTANTS
  Clients = {0, 1, 2}
  Deck <- SixCards
  HandSize = 1
  Shuffles <- OneOrder
  PointsWinningCap = 100
  NoTaxCap = 800
  Bids = {100, 110}
  Leaves = 1
  LeaveIn <- BetweenTricks
  Slow = {0, 1}
CHECK_DEADLOCK FALSE
INVARIANTS
  TypeOK
  CardsAgree
  AnswersFit
  OneQuestion
PROPERTIES
  ImplementsTable
