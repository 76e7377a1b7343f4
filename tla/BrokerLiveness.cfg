\* Two connections with one QoS 0 message each way and a remote client
\* that subscribes, unsubscribes and pings: every goroutine returns and the
\* cleanup runs once a connection is closed on either side, and the
\* subscriptions it was acknowledged are live again on the second connection.
CONSTANTS
  p1 = p1
  p2 = p2
  b1 = b1
  b2 = b2
  NoMsg = NoMsg
  PeerMsgs <- MCPeerQos0Only
  PeerQos <- MCPeerQos0
  PeerId <- MCPeerId
  BrokerMsgs <- MCBrokerQos0Only
  BrokerQos <- MCBrokerQos0
  MaxId = 2
  ParallelPublishes = 1
  ParallelDequeues = 1
  MaxConns = 2
  CleanChoices = {FALSE}
  WillChoices = {FALSE}
  f1 = f1
  Filters <- MCFilters
  CtlRequests <- MCCtlRequests
  CtlId = 3
  Faults = TRUE
SPECIFICATION Spec
INVARIANT SubscriptionsHeld
PROPERTY ClosedLeadsToCleanup
\* After the last connection is torn down nothing is left to do.
CHECK_DEADLOCK FALSE
