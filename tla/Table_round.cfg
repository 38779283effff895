\* Rounds at a table whose three players stay.
SPECIFICATION FairSpec
CONSTANTS
  Clients = {0, 1, 2}
  Deck <- NineCards
  HandSize = 2
  Shuffles <- NineOrders
  PointsWinningCap = 1000
  NoTaxCap = 800
  Bids = {100, 110, 160}
  LeaveIn = {}
  JoinFullIn = {}
INVARIANTS
  TypeOK
  AuctionOrder
  OneContract
  FinalBidPossible
  CardsConserved
  HandsLevel
  PointsConserved
PROPERTIES
  TrickToBestCard
  CompulsoryRotates
