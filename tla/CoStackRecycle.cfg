SPECIFICATION StackSpec
CONSTANTS
  Co = {c1, c2}
  Main = Main
  NoCo = NoCo
  count = 2
  UIntSize = 3
  StackMax = 4
  Disciplined = FALSE
SYMMETRY Symmetry
INVARIANT OwnFrames
