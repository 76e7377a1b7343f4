--------------------------- MODULE MCBrokerClient ---------------------------
(* Instantiates BrokerClient for TLC: two messages in each direction, one  *)
(* at QoS 1 and one at QoS 2, so both acknowledgement flows run at once.   *)
EXTENDS BrokerClient

CONSTANTS p1, p2, b1, b2, f1

MCPeerMsgs == {p1, p2}
MCPeerQos == (p1 :> 1) @@ (p2 :> 2)
MCPeerId == (p1 :> 1) @@ (p2 :> 2)
MCBrokerMsgs == {b1, b2}
MCBrokerQos == (b1 :> 1) @@ (b2 :> 2)

(* Runs about outbound flows only: the remote client publishes nothing.    *)
MCNoPeerMsgs == {}
(* One QoS 0 publish of the remote client (with MCPeerQos0).               *)
MCPeerQos0Only == {p1}
(* One QoS 0 message queued by the backend (with MCBrokerQos0).            *)
MCBrokerQos0Only == {b1}
(* Runs about inbound flows only: the backend queues nothing.             *)
MCNoBrokerMsgs == {}
(* QoS 0 in both directions next to QoS 2.                               *)
MCPeerQos0 == (p1 :> 0) @@ (p2 :> 2)
MCBrokerQos0 == (b1 :> 0) @@ (b2 :> 2)

(* One topic filter, subscribed, unsubscribed and pinged about; or none.  *)
MCFilters == {f1}
MCCtlRequests == {"subscribe", "unsubscribe", "pingreq"}
MCNoFilters == {}
MCNoCtlRequests == {}
=============================================================================
