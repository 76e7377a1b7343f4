\* A request acknowledged by the broker after a cleanup canceled its future.
CONSTANTS
  r1 = r1  r2 = r2  r3 = r3  NoCmd = NoCmd
  Cmds <- MCCmds2
  Kind <- MCKind2
  QueueCap = 2
  MaxConns = 2
  MaxId = 2
  CleanSession = FALSE
  KeepAlive = FALSE
SPECIFICATION Spec
INVARIANT AckedRequestCompleted
\* After the last attempt the reconnector may wait for ever in its backoff.
CHECK_DEADLOCK FALSE
