SPECIFICATION Spec
CONSTANTS
  x = x
  y = y
  Nothing = Nothing
  Line <- Lines
  MaxBase = 1
  Triggers = 3
  Scopes <- AllScopes
  MaxUpsets = 1
SYMMETRY Symmetric
INVARIANTS TypeOK EveryLineIsRead NothingUpstreamIsShown NumbersMeanOneThing
CHECK_DEADLOCK FALSE
