SPECIFICATION Spec
CONSTANTS
  Sockets = {s1, s2, s3}
  Channels = {c1}
  None = None
  MAX_RECONNECT_ATTEMPTS = 2
  MaxConnects = 3
INVARIANT NoDanglingSocket
