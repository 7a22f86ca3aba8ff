CONSTANTS
  Before <- BeforeFidecs
  After <- AfterFidecs
  Routes <- RoutePrefixes
  Codes <- AllCodes
  Halts = {100, 403}
SPECIFICATION Spec
INVARIANT HaltStopsPipeline
CHECK_DEADLOCK FALSE
