SPECIFICATION Spec
CONSTANTS
  MaxSaves = 2
  Tabs = {tab1}
  Contents = {0, 1, 2}
  Routing <- MCRouting
  RouteText <- MCRouteText
  CleanBoards = {0, 2}
  CleanSheets = {0, 1}
  Parts = {1, 2}
  Boms <- MCBoms
  Builders = {build1}
  MaxSnapshots = 2
  Titles = {1, 2, 3}
  Limit = 8
  Others = 2
INVARIANTS
  StalePageFailsCheck
CHECK_DEADLOCK FALSE
