\* A taxable item and one that is not, on two lines of one or two pieces.
SPECIFICATION Spec
CONSTANTS
  Skus = {hat, pin}
  Taxable = {hat}
  Cents <- TwoPrices
  None = None
  Bins = {b1, b2}
  Panes = {scan, bookmark}
  Lines = {l1, l2}
  MaxQty = 2
SYMMETRY Symmetry
INVARIANTS
  ScannedIsPayable
  ChargedAsShown
