CONSTANTS
  Before <- BeforeFidecs
  After <- AfterFidecs
  Routes <- RoutePrefixes
  Codes <- AllCodes
  Halts = {100, 403}
SPECIFICATION Spec
INVARIANTS AnsweredOnce  
CHECK_DEADLOCK FALSE
