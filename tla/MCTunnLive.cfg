CONSTANTS
  PEER_HANDSHAKE_RATE_LIMIT = 2
  RESET_PERIOD = 1
  N_SESSIONS = 2
  INDEXES = 2
  MAX_QUEUE_DEPTH = 1
  REKEY_AFTER_TIME = 2
  REJECT_AFTER_TIME = 3
  REKEY_ATTEMPT_TIME = 2
  REKEY_TIMEOUT = 1
  KEEPALIVE_TIMEOUT = 1
  COOKIE_EXPIRATION_TIME = 2
  PERSISTENT_KEEPALIVE = 1
  MaxActs = 0
SPECIFICATION FairSpec
PROPERTIES
  NoPacketWaits
  ComesBack
