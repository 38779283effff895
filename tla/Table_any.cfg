\* Players leave in the middle of a trick, and others take their seats.  A table
\* where handling a card has failed waits.
SPECIFICATION Spec
CONSTANTS
  Clients = {0, 1, 2, 3}
  Deck <- SixCards
  HandSize = 1
  Shuffles <- OneOrder
  PointsWinningCap = 1000
  NoTaxCap = 800
  Bids = {100, 110}
  LeaveIn <- MidTrick
  JoinFullIn = {}
CHECK_DEADLOCK FALSE
INVARIANTS
  AuctionInv
PROPERTIES
  ImplementsAuction
