\* A clean session: after a failed write the old Client's processor reads a
\* stale Puback that completes the future of a new request with the same id.
CONSTANTS
  r1 = r1  r2 = r2  r3 = r3  NoCmd = NoCmd
  Cmds <- MCCmds3
  Kind <- MCKindTwoPub1
  QueueCap = 2
  MaxConns = 2
  MaxId = 2
  CleanSession = TRUE
  KeepAlive = FALSE
SPECIFICATION Spec
PROPERTY RequestsRefined
\* After the last attempt the reconnector may wait for ever in its backoff.
CHECK_DEADLOCK FALSE
