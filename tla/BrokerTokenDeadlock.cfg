\* Two connections of a persistent session: the acks of the packets resent
\* at reconnect return dequeue tokens that were never taken.
CONSTANTS
  p1 = p1
  p2 = p2
  b1 = b1
  b2 = b2
  NoMsg = NoMsg
  PeerMsgs <- MCNoPeerMsgs
  PeerQos <- MCPeerQos
  PeerId <- MCPeerId
  BrokerMsgs <- MCBrokerMsgs
  BrokerQos <- MCBrokerQos
  MaxId = 2
  ParallelPublishes = 1
  ParallelDequeues = 1
  MaxConns = 2
  CleanChoices = {FALSE}
  WillChoices = {FALSE, TRUE}
  f1 = f1
  Filters <- MCNoFilters
  CtlRequests <- MCNoCtlRequests
  CtlId = 3
  Faults = FALSE
SPECIFICATION Spec
PROPERTY ClosedLeadsToCleanup
\* After the connection is torn down nothing is left to do.
CHECK_DEADLOCK FALSE
