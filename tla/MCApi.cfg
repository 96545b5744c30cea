SPECIFICATION MCSpec
CONSTANTS
  Tabs = {t1, t2}
  Slots = {x, y}
  Pairs = {p1, p2, p3}
  None = None
SYMMETRY Symmetry
INVARIANTS
  StoredIsHonoured
  NoSelfEviction
  LogoutSticks
CHECK_DEADLOCK FALSE
