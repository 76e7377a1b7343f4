------------------------------- MODULE Delivery -------------------------------
(***************************************************************************)
(* What the broker promises a subscriber about the messages the backend    *)
(* has queued for it (MQTT 4.3; spec 4.6.7 and 4.7): each message is owed    *)
(* until it is handed to the subscribing application. A QoS 0 message is   *)
(* delivered at most once and may be dropped; a QoS 1 message is delivered  *)
(* at least once, never dropped, and may be delivered again; a QoS 2        *)
(* message is delivered exactly once: never dropped, never twice. Nothing  *)
(* forces a delivery: the network may stay down.                           *)
(***************************************************************************)
EXTENDS Naturals

CONSTANTS
  Msgs,   \* the messages queued for the subscriber
  Qos     \* [Msgs -> 0..2]

VARIABLES
  pending,  \* messages still owed to the subscriber
  count     \* Msgs -> times handed to the application

vars == <<pending, count>>

Init == pending = Msgs /\ count = [m \in Msgs |-> 0]

(* A first delivery settles what is owed; QoS 1 may repeat it.            *)
Deliver(m) ==
  /\ m \in pending \/ (Qos[m] = 1 /\ count[m] > 0)
  /\ count' = [count EXCEPT ![m] = @ + 1]
  /\ pending' = pending \ {m}

(* Only QoS 0 messages may be lost; a broken connection loses all of them *)
(* at once.                                                                *)
Drop(S) ==
  /\ S # {} /\ S \subseteq pending
  /\ \A m \in S : Qos[m] = 0
  /\ pending' = pending \ S
  /\ UNCHANGED count

Next ==
  \/ \E m \in Msgs : Deliver(m)
  \/ \E S \in SUBSET Msgs : Drop(S)

Spec == Init /\ [][Next]_vars
=============================================================================
