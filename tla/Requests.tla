------------------------------- MODULE Requests -------------------------------
(***************************************************************************)
(* What the Service of src/service.go promises an application about the    *)
(* futures its Publish, Subscribe and Unsubscribe calls return (spec 4.4,  *)
(* 4.7, 4.9): a future is created pending and is settled at most once,     *)
(* either canceled or completed; a future is completed only once the       *)
(* broker has received the request, except a QoS 0 publish, whose future   *)
(* completes when it is written. Nothing forces a future to settle.        *)
(***************************************************************************)
CONSTANTS
  Cmds,     \* the requests the application makes
  Kind      \* [Cmds -> {"pub0", "pub1", "sub", "unsub"}]

VARIABLES
  status,     \* Cmds -> "none", "pending", "completed" or "canceled"
  delivered   \* requests the broker has received

vars == <<status, delivered>>

Init == status = [c \in Cmds |-> "none"] /\ delivered = {}

Issue(c) ==
  /\ status[c] = "none"
  /\ status' = [status EXCEPT ![c] = "pending"]
  /\ UNCHANGED delivered

Deliver(c) ==
  /\ status[c] # "none"
  /\ delivered' = delivered \cup {c}
  /\ UNCHANGED status

Complete(c) ==
  /\ status[c] = "pending"
  /\ c \in delivered \/ Kind[c] = "pub0"
  /\ status' = [status EXCEPT ![c] = "completed"]
  /\ UNCHANGED delivered

(* Cleanup cancels every outstanding future at once.                      *)
Cancel(S) ==
  /\ S # {}
  /\ \A c \in S : status[c] = "pending"
  /\ status' = [c \in Cmds |-> IF c \in S THEN "canceled" ELSE status[c]]
  /\ UNCHANGED delivered

Next ==
  \/ \E c \in Cmds : Issue(c) \/ Deliver(c) \/ Complete(c)
  \/ \E S \in SUBSET Cmds : Cancel(S)

Spec == Init /\ [][Next]_vars
=============================================================================
