SPECIFICATION MCSpec
CONSTANTS
  Tabs = {t1}
  Slots = {x}
  Pairs = {p1, p2}
  None = None
PROPERTY NeverRotatesBack
CHECK_DEADLOCK FALSE
