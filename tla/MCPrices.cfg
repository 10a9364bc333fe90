\* Two items with two prices, and three changes of the catalogue or imports.
SPECIFICATION PricesFairSpec
CONSTANTS
  Skus = {hat, pin}
  Cents <- TwoPrices
  None = None
  MaxChanges = 3
INVARIANTS
  StampNamesLastWrite
PROPERTIES
  KeepsRows
  PricesCatchUp
