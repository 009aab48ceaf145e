SPECIFICATION Spec
CONSTANTS
  AUTH_TIMEOUT = 3
  IDLE = 2
  TLS = TRUE
  RCVBUF = 4
  SNDBUF = 1
INVARIANTS AuthCap IdleBound KeepaliveEnough
CHECK_DEADLOCK FALSE
