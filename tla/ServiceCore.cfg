\* Two attempts of a persistent session: a QoS 1 and a QoS 0 publish, with
\* room in the queue for both. Stop returns and lost connections are
\* noticed.
CONSTANTS
  r1 = r1  r2 = r2  r3 = r3  NoCmd = NoCmd
  Cmds <- MCCmds2
  Kind <- MCKindPubs
  QueueCap = 2
  MaxConns = 2
  MaxId = 2
  CleanSession = FALSE
  KeepAlive = FALSE
SPECIFICATION Spec
INVARIANT TypeOK
PROPERTY StopReturns ConnectionLossNoticed
\* After the last attempt the reconnector may wait for ever in its backoff.
CHECK_DEADLOCK FALSE
