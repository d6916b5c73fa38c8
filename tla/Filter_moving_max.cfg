SPECIFICATION Spec
CONSTANTS
  Size = 3
  Scale = 3
  Gains = {0, 1, 3}
  Inputs = {0, 1, 5}
INVARIANT MaxOfWindow
