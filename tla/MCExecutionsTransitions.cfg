\* Two orders of one user, two handlers at a time.
CONSTANTS
  o1 = o1
  o2 = o2
  w1 = w1
  w2 = w2
  OrderIds = {o1, o2}
  Sides <- MCSides
  Quantity <- MCQuantity
  MaxAmount <- MCMaxAmount
  Lines <- MCLines
  Cash = 5
  Shares = 3
  Workers = {w1, w2}
  MaxStarts = 5
SPECIFICATION Spec
SYMMETRY MCSymmetry
PROPERTY TransitionsAreValid
\* Once the bounded handlers are served the system rests.
CHECK_DEADLOCK FALSE
