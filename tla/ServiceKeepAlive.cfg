\* One attempt of a clean session with the pinger running (Pingreq written,
\* Pingresp read, MissingPong, failed Pingreq): Stop still returns, which
\* needs the pinger to leave on the dying tomb, and a lost connection is
\* still noticed.
CONSTANTS
  r1 = r1  r2 = r2  r3 = r3  NoCmd = NoCmd
  Cmds <- MCCmds2
  Kind <- MCKindPubs
  QueueCap = 2
  MaxConns = 1
  MaxId = 2
  CleanSession = TRUE
  KeepAlive = TRUE
SPECIFICATION Spec
PROPERTY StopReturns ConnectionLossNoticed
\* After the last attempt the reconnector may wait for ever in its backoff.
CHECK_DEADLOCK FALSE
