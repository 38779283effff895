\* A player may leave at any time, in the middle of a trick too.
SPECIFICATION FairSpec
CONSTANTS
  Clients = {0, 1, 2}
  Deck <- SixCards
  HandSize = 1
  Shuffles <- SixOrders
  PointsWinningCap = 1000
  NoTaxCap = 800
  Bids = {100, 110}
  LeaveIn <- Always
  JoinFullIn = {}
INVARIANT TableCleared
