SPECIFICATION NavigationSpec
CONSTANTS
  Visitors <- MCVisitors
PROPERTY PickedBusinessOpensPos
CHECK_DEADLOCK FALSE
