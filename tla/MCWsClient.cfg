SPECIFICATION FairSpec
CONSTANTS
  Sockets = {s1, s2, s3}
  Channels = {c1, c2}
  None = None
  MAX_RECONNECT_ATTEMPTS = 2
  MaxConnects = 3
INVARIANTS
  Resubscribed
  OneChainPerConnect
PROPERTIES
  AttemptsEnd
  DisconnectDrains
