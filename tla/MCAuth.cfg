SPECIFICATION MCSpec
CONSTANTS
  Reqs = {r1, r2}
  Emails = {ana}
  Accounts = {ana}
  Orphaned = {}
  Passwords = {p1, p2}
  Tokens = {t1, t2}
  ResetTokens = {k1}
  None = None
  Ops = {"login", "refresh", "logout", "reset", "admin"}
  MAX_LOGIN_ATTEMPTS = 2
  LOCKOUT_DURATION = 1
  LOGIN_ATTEMPTS_TTL = 1
  REFRESH_TOKEN_TTL = 0
  REFRESH_TOKEN_TTL_REMEMBER = 1
  PASSWORD_RESET_TTL = 0
  Horizon = 1
  MaxFaults = 1
SYMMETRY Symmetry
INVARIANTS
  GuessBudget
  SessionInherits
  OnlyInFlightOutlivesReset
  FreshTokenIsLive
  BurntLinkChangedPassword
PROPERTIES
  KeepsSessions
CHECK_DEADLOCK FALSE
