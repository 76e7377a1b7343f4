\* Two successive connections of one persistent session: the outbound
\* delivery guarantees across reconnects and the bound on inbound flows.
CONSTANTS
  p1 = p1
  p2 = p2
  b1 = b1
  b2 = b2
  NoMsg = NoMsg
  PeerMsgs <- MCPeerMsgs
  PeerQos <- MCPeerQos
  PeerId <- MCPeerId
  BrokerMsgs <- MCBrokerMsgs
  BrokerQos <- MCBrokerQos
  MaxId = 2
  ParallelPublishes = 1
  ParallelDequeues = 1
  MaxConns = 2
  CleanChoices = {FALSE}
  WillChoices = {FALSE}
  f1 = f1
  Filters <- MCNoFilters
  CtlRequests <- MCNoCtlRequests
  CtlId = 3
  Faults = TRUE
SPECIFICATION Spec
INVARIANT TypeOK
INVARIANT InboundFlowsBounded
PROPERTY DeliveryRefined
\* After the last connection is torn down nothing is left to do.
CHECK_DEADLOCK FALSE
