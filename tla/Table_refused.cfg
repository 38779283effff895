\* A full room may be asked for a seat at any time, before a game too.
SPECIFICATION FairSpec
CONSTANTS
  Clients = {0, 1, 2, 3}
  Deck <- SixCards
  HandSize = 1
  Shuffles <- SixOrders
  PointsWinningCap = 1000
  NoTaxCap = 800
  Bids = {100, 110}
  LeaveIn = {}
  JoinFullIn <- Always
INVARIANT NoEmptyLookup
