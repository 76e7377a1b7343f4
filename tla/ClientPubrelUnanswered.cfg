\* The broker's QoS 2 delivery: a Pubcomp written by the client just before the
\* connection fails leaves the Pubrel the broker resends unanswered.
CONSTANTS
  p1 = p1
  p2 = p2
  b1 = b1
  b2 = b2
  NoMsg = NoMsg
  PeerMsgs <- MCNoPeerMsgs
  PeerQos <- MCPeerQos
  PeerId <- MCPeerId
  BrokerMsgs <- MCBrokerMsgs
  BrokerQos <- MCBrokerQos
  MaxId = 2
  ParallelPublishes = 1
  ParallelDequeues = 1
  MaxConns = 2
  CleanChoices = {FALSE}
  WillChoices = {FALSE, TRUE}
  f1 = f1
  Filters <- MCNoFilters
  CtlRequests <- MCNoCtlRequests
  CtlId = 3
  Faults = FALSE
SPECIFICATION Spec
INVARIANT OutboundPubrelAnswerable
\* After the last connection is torn down nothing is left to do.
CHECK_DEADLOCK FALSE
