\* Both slots, a list of at most two games, searches and screens nested in the event loop.
CONSTANTS
  Slots = {0, 1}
  MaxArguments = 1
  MaxGames = 2
  MaxCalls = 4
SPECIFICATION Spec
INVARIANT TypeOK
INVARIANT NoGameOutsideTheList
INVARIANT MenuOffersWhatThereIs
INVARIANT SetupPagesAreOpen
INVARIANT TextInputHasAField
\* Marley ends.
CHECK_DEADLOCK FALSE
