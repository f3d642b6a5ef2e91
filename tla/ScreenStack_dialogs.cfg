SPECIFICATION FairSpec
CONSTANT MaxInputs = 2
INVARIANT TypeOK
INVARIANT EveryScreenKeepsAFocus
INVARIANT PointersGoDown
PROPERTY EscapedDialogsLeave
PROPERTY QuitIsCarriedOut
