\* Totals between rounds, against the comments on the resets.
SPECIFICATION FairSpec
CONSTANTS
  Clients = {0, 1, 2}
  Deck <- SixCards
  HandSize = 1
  Shuffles <- SixOrders
  PointsWinningCap = 1000
  NoTaxCap = 800
  Bids = {100, 110}
  LeaveIn = {}
  JoinFullIn = {}
PROPERTY ScoresAccumulate
