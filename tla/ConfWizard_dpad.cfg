SPECIFICATION Spec
CONSTANTS
  Buttons = {0}
  Axes = {0}
  DpadAxes = {0}
  Hats = {0}
  HatValues = {1, 4}
  Tracked = {0, 1, 2, 3, 15, 16, 17, 18, 19, 20, 21, 22}
  Threshold = 0
  Build = "O0"
INVARIANT TypeOK
INVARIANT IteratorsFitTheDpad
INVARIANT UniformDpadAsGiven
