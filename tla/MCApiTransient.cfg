SPECIFICATION MCSpec
CONSTANTS
  Tabs = {t1}
  Slots = {x}
  Pairs = {p1, p2}
  None = None
PROPERTY TransientKeepsSession
CHECK_DEADLOCK FALSE
