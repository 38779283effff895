\* Every order of three cards of a 12-card deck, under every trump, and every hand of
\* one to three cards that answers one or two of them.
SPECIFICATION Spec
CONSTANTS
  Deck <- ThreeSuitDeck
  HandSizes = {1, 2, 3}
INVARIANTS
  SuperiorCardWins
  OffersAreUniform
  LosingOffersFollowSuit
