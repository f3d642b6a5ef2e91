SPECIFICATION Spec
CONSTANTS
  Buttons = {0}
  Axes = {0, 1, 2, 3}
  DpadAxes = {}
  Hats = {}
  HatValues = {}
  Tracked = {15, 16, 17, 18, 19, 20, 21, 22}
  Threshold = 1
  Build = "O2"
INVARIANT CountsBelongToAnAxis
INVARIANT AxesAreDistinct
PROPERTY SticksFromTheirOwnTwirl
PROPERTY ImplementsQuestionnaire
