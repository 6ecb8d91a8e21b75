CONSTANTS
  PEER_HANDSHAKE_RATE_LIMIT = 2
  RESET_PERIOD = 1
  N_SESSIONS = 2
  INDEXES = 4
  MAX_QUEUE_DEPTH = 1
  REKEY_AFTER_TIME = 3
  REJECT_AFTER_TIME = 6
  REKEY_ATTEMPT_TIME = 2
  REKEY_TIMEOUT = 1
  KEEPALIVE_TIMEOUT = 1
  COOKIE_EXPIRATION_TIME = 3
  PERSISTENT_KEEPALIVE = 0
  Packets = {p1}
  MaxEph = 2
  MaxTime = 1
  MaxRestarts = 1
SPECIFICATION Spec
INVARIANTS
  SessionsAgree
  DeliveredOnce
  
  
  HandshakesLimited
CHECK_DEADLOCK FALSE
