\* A QoS 2 publish whose Pubcomp is lost with the connection: the Pubrel
\* resent after the reconnect publishes the message to the backend again.
CONSTANTS
  p1 = p1
  p2 = p2
  b1 = b1
  b2 = b2
  NoMsg = NoMsg
  PeerMsgs <- MCPeerMsgs
  PeerQos <- MCPeerQos
  PeerId <- MCPeerId
  BrokerMsgs <- MCNoBrokerMsgs
  BrokerQos <- MCBrokerQos
  MaxId = 2
  ParallelPublishes = 1
  ParallelDequeues = 1
  MaxConns = 2
  CleanChoices = {FALSE}
  WillChoices = {FALSE, TRUE}
  f1 = f1
  Filters <- MCNoFilters
  CtlRequests <- MCNoCtlRequests
  CtlId = 3
  Faults = FALSE
SPECIFICATION Spec
INVARIANT Qos2PublishedOnce
\* After the last connection is torn down nothing is left to do.
CHECK_DEADLOCK FALSE
