SPECIFICATION Spec
CONSTANTS
  Values <- MCValues
  Spaces <- MCSpaces
  Texts <- MCTexts
  Bytes4 <- MCBytes4
  Datas <- MCDatas
  Dates <- MCDates
  Multiparts <- MCMultiparts
  Queries <- MCQueries
  Nodes = {1, 2, 3, 4}
  Patterns <- MCPatterns
  Paths <- MCPaths
  Methods = {"GET", "POST"}
  MaxRoutes = 3
INVARIANTS  Accepts TreeSound RouteFound FormsArrive
CHECK_DEADLOCK FALSE
