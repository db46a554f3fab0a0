SPECIFICATION RedBlackSpec
CONSTANTS
  Keys = {1, 2, 3, 4}
  MaxFreq = 1
  MaxHeight = 4
  None = None
INVARIANT SameBlacks
