\* What the answers of the players bring about.  They leave between tricks and others
\* take their seats, games end (the cap is scaled down to what one round can score),
\* and a full room is asked for a seat: while its players get ready, too.
SPECIFICATION FairSpec
CONSTANTS
  Clients = {0, 1, 2, 3}
  Deck <- SixCards
  HandSize = 1
  Shuffles <- OneOrder
  PointsWinningCap = 100
  NoTaxCap = 800
  Bids = {100, 110}
  LeaveIn <- BetweenTricks
  JoinFullIn <- NowAndThen
INVARIANTS
  CleanTable
  CardsConserved
PROPERTIES
  GameStarts
  AuctionEnds
  RoundEnds
