SPECIFICATION Spec
CONSTANTS
  Images = {a, b, c}
  Limits = {1, 2}
  Overrides = {3}
  MaxUpserts = 1
  Scale = 60
INVARIANTS NobodyIsLost FirstDenseHitIsShown DominanceIsKept ScoresAreExplained
SYMMETRY Symmetry
CHECK_DEADLOCK FALSE
