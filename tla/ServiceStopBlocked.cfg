\* Queues of capacity 1 and a broker out of reach: a request blocks in its
\* queue send holding the mutex, and Stop never gets it.
CONSTANTS
  r1 = r1  r2 = r2  r3 = r3  NoCmd = NoCmd
  Cmds <- MCCmds2
  Kind <- MCKindPubs
  QueueCap = 1
  MaxConns = 1
  MaxId = 2
  CleanSession = FALSE
  KeepAlive = FALSE
SPECIFICATION Spec
PROPERTY StopReturns
\* After the last attempt the reconnector may wait for ever in its backoff.
CHECK_DEADLOCK FALSE
