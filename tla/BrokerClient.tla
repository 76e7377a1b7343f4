---------------------------- MODULE BrokerClient ----------------------------
(***************************************************************************)
(* The broker-side connection engine of gomqtt (src/broker/client.go): one *)
(* Client per accepted connection, with its three goroutines (processor,   *)
(* dequeuer, sender) joined by a tomb, the publish and dequeue token pools, *)
(* the bounded outgoing channel, the backend's asynchronous Ack callbacks  *)
(* and the cleanup that publishes the will and calls Terminate.            *)
(*                                                                         *)
(* The session is persisted by the backend across connections, so the     *)
(* module runs up to MaxConns successive connections of one client id.     *)
(* The remote MQTT client on the other end of the connection is the        *)
(* application-side engine of src/client.go, reduced to its packet         *)
(* handlers and its own session (pOut, pIn).                               *)
(***************************************************************************)
EXTENDS Naturals, Sequences, FiniteSets, Functions, TLC

CONSTANTS
  PeerMsgs,           \* messages the remote client publishes
  PeerQos,            \* [PeerMsgs -> 0..2]
  PeerId,             \* [PeerMsgs -> Nat]: the packet id the client gives each
  BrokerMsgs,         \* messages the backend has queued for this client
  BrokerQos,          \* [BrokerMsgs -> 0..2]
  MaxId,              \* outbound packet ids of the broker session are 1..MaxId
  ParallelPublishes,  \* Client.ParallelPublishes
  ParallelDequeues,   \* Client.ParallelDequeues
  MaxConns,           \* bound on the number of successive connections
  CleanChoices,       \* clean-session flags the remote client may request
  WillChoices,        \* whether its ConnectPackets may or may not carry a will
  Filters,            \* topic filters the remote client subscribes to
  CtlRequests,        \* which of Subscribe, Unsubscribe and Pingreq it makes
  CtlId,              \* the packet id of its Subscribe and Unsubscribe
  Faults,             \* Dequeue and the session's SavePacket may return an error
  NoMsg               \* a model value: no message

ASSUME /\ ParallelPublishes \in Nat \ {0}
       /\ ParallelDequeues \in Nat \ {0}
       /\ MaxId \in Nat \ {0}
       /\ MaxConns \in Nat \ {0}
       /\ CleanChoices \subseteq BOOLEAN /\ Faults \in BOOLEAN
       /\ WillChoices \subseteq BOOLEAN
       /\ CtlRequests \subseteq {"subscribe", "unsubscribe", "pingreq"}

VARIABLES
  \* one broker Client (per connection)
  conn,          \* number of the current connection, 0 before the first
  state,         \* c.state: "connecting", "connected" or "disconnected"
  proc,          \* processor goroutine: "connect", "loop", "returnToken", "exited"
  deq,           \* dequeuer goroutine: "off", "acquire", "dequeue", "enqueue", "exited"
  deqMsg,        \* the message the dequeuer holds
  snd,           \* sender goroutine: "off", "loop", "returnToken", "exited"
  dying,         \* the tomb is dying
  closed,        \* c.conn has been closed by the broker
  cleaned,       \* cleanup() has run and Closed() fired
  assigned,      \* c.session != nil
  pubTokens,     \* tokens in c.publishTokens
  deqTokens,     \* tokens in c.dequeueTokens
  outq,          \* c.outgoing: the channel the sender drains
  pendingAcks,   \* Ack callbacks handed to backend.Publish, not yet called
  connClean,     \* CleanSession of the current ConnectPacket
  connWill,      \* the current ConnectPacket carries a will
  \* the connection
  inbox,         \* packets from the remote client, in order
  wire,          \* packets to the remote client, in order
  peerGone,      \* the remote end has closed or the network failed
  \* the broker session, kept by the backend across connections
  sessionExists, \* the backend stores a session for the client id
  sOut,          \* session Outgoing packets: id -> entry
  sIn,           \* session Incoming packets: id -> message (QoS 2 awaiting Pubrel)
  sWill,         \* the stored will: number of the connection that sent it, 0 for none
  lastId,        \* the session's id counter
  sSubs,         \* the session's stored subscriptions (SaveSubscription)
  \* the backend
  bq,            \* messages queued for the client and not yet dequeued
  inflight,      \* messages Dequeue returned whose Ack is not called yet, kept by the backend
  pubCount,      \* PeerMsgs -> number of backend.Publish calls with it
  willsOut,      \* wills published: <<connection that ended, connection that sent the will>>
  bSubs,         \* the filters the backend has this client subscribed to
  \* the remote client (src/client.go)
  peerUp,        \* a ConnackPacket accepting the connection has been received
  pOut,          \* its session Outgoing packets: id -> entry
  pIn,           \* its session Incoming packets: id -> message
  pSent,         \* PeerMsgs published at least once
  got,           \* BrokerMsgs -> times handed to the client's Callback
  pPing,         \* its tracker: a Pingreq is awaiting its Pingresp
  pSubs          \* filters it got a Suback for and has not asked to unsubscribe

clientVars == <<conn, state, proc, deq, deqMsg, snd, dying, closed, cleaned,
                assigned, pubTokens, deqTokens, outq, pendingAcks, connClean, connWill>>
netVars == <<inbox, wire, peerGone>>
sessionVars == <<sessionExists, sOut, sIn, sWill, lastId, sSubs>>
backendVars == <<bq, inflight, pubCount, willsOut, bSubs>>
peerVars == <<peerUp, pOut, pIn, pSent, got, pPing, pSubs>>
vars == <<clientVars, netVars, sessionVars, backendVars, peerVars>>

-----------------------------------------------------------------------------
(* Packets carry only what the handlers look at: kind, id, message, qos.   *)
Pkt(t, id) == [type |-> t, id |-> id, msg |-> NoMsg, qos |-> 0]
PublishPkt(m, id, q) == [type |-> "publish", id |-> id, msg |-> m, qos |-> q]

Ids == 1..MaxId
OutCap == ParallelPublishes + ParallelDequeues   \* capacity of c.outgoing

Put(f, k, v) == (k :> v) @@ f          \* SavePacket: overwrite silently
Del(f, k) == Restrict(f, DOMAIN f \ {k})  \* DeletePacket: idempotent

(* The packet a stored session entry is resent as: a publish, or a Pubrel, *)
(* Subscribe or Unsubscribe of the remote client.                          *)
EntryPkt(e, id) == IF e.type = "publish" THEN PublishPkt(e.msg, id, e.qos)
                                        ELSE [Pkt(e.type, id) EXCEPT !.msg = e.msg]

(* AllPackets(Outgoing) resent in order, here in ascending id order.       *)
RECURSIVE ReplaySeq(_, _)
ReplaySeq(f, S) ==
  IF S = {} THEN <<>>
  ELSE LET id == CHOOSE i \in S : \A j \in S : i <= j
       IN <<EntryPkt(f[id], id)>> \o ReplaySeq(f, S \ {id})
Replay(f) == ReplaySeq(f, DOMAIN f)

(* NextID of the session: the next id after last, cyclically, skipping    *)
(* ids held by an outgoing packet; the interface cannot report exhaustion, *)
(* so when every id is held the next one is returned anyway.              *)
Cand(last, k) == ((last + k - 1) % MaxId) + 1
NextIdStale(last, held) == IF last = 0 THEN 1 ELSE last
NextId(last, held) ==
  LET free == {k \in 1..MaxId : Cand(last, k) \notin held}
  IN IF free = {} THEN Cand(last, 1)
     ELSE Cand(last, CHOOSE k \in free : \A j \in free : k <= j)

(* die: close the connection; the goroutine then returns the error, which *)
(* kills the tomb.                                                        *)
Die == closed' = TRUE /\ dying' = TRUE

-----------------------------------------------------------------------------
Init ==
  /\ conn = 0 /\ state = "connecting" /\ proc = "exited" /\ deq = "off"
  /\ deqMsg = NoMsg /\ snd = "off" /\ dying = TRUE /\ closed = TRUE
  /\ cleaned = TRUE /\ assigned = FALSE /\ pubTokens = 0 /\ deqTokens = 0
  /\ outq = <<>> /\ pendingAcks = {} /\ connClean = FALSE /\ connWill = FALSE
  /\ inbox = <<>> /\ wire = <<>> /\ peerGone = TRUE
  /\ sessionExists = FALSE /\ sOut = <<>> /\ sIn = <<>> /\ sWill = 0 /\ lastId = 0
  /\ sSubs = {}
  /\ bq = BrokerMsgs /\ inflight = {} /\ pubCount = [m \in PeerMsgs |-> 0]
  /\ willsOut = <<>> /\ bSubs = {}
  /\ peerUp = FALSE /\ pOut = <<>> /\ pIn = <<>> /\ pSent = {}
  /\ got = [m \in BrokerMsgs |-> 0] /\ pPing = FALSE /\ pSubs = {}

(* Backend.Setup, as backendSetupTest (src/backend_spec.go) fixes it: the *)
(* session of a client id that has one is resumed, also when a clean       *)
(* session is requested; a new id, or an empty one, gets a fresh session.  *)
SetupResumed == sessionExists

-----------------------------------------------------------------------------
(* The remote client dials and sends its ConnectPacket (client.Connect).   *)
(* A clean session resets its own session store, here and at the cleanup  *)
(* of a clean connection. The broker accepts the connection with a fresh  *)
(* Client (NewClient) and starts its processor.                           *)
PeerConnect(clean, will) ==
  /\ conn < MaxConns /\ cleaned
  /\ conn' = conn + 1 /\ state' = "connecting" /\ proc' = "connect"
  /\ deq' = "off" /\ deqMsg' = NoMsg /\ snd' = "off" /\ dying' = FALSE
  /\ closed' = FALSE /\ cleaned' = FALSE /\ assigned' = FALSE
  /\ pubTokens' = 0 /\ deqTokens' = 0 /\ outq' = <<>> /\ pendingAcks' = {}
  /\ connClean' = clean /\ connWill' = will
  /\ inbox' = <<Pkt("connect", 0)>> /\ wire' = <<>> /\ peerGone' = FALSE
  /\ peerUp' = FALSE
  /\ pOut' = IF clean \/ connClean THEN <<>> ELSE pOut
  /\ pIn' = IF clean \/ connClean THEN <<>> ELSE pIn
  /\ pSubs' = IF clean \/ connClean THEN {} ELSE pSubs
  /\ pPing' = FALSE
  /\ UNCHANGED <<sessionVars, bq, inflight, pubCount, willsOut, bSubs, pSent, got>>

(* The end of processConnect: AllSubscriptions of the session and         *)
(* backend.Subscribe(c, subs, true) subscribe the client again.            *)
ResubscribeSkipped(subs) == UNCHANGED bSubs
Resubscribe(subs) == bSubs' = subs

(* processConnect, run by the processor on the first packet: authenticate, *)
(* set connected, Setup the session, save the will, allocate the token     *)
(* pools and the outgoing channel, send the Connack, resend every stored    *)
(* outgoing packet, resubscribe, Restored, and start dequeuer and sender.  *)
(* A rejected login sends a denying Connack and dies.                      *)
ProcessConnect(ok) ==
  /\ proc = "connect" /\ ~closed /\ inbox # <<>>
  /\ Head(inbox).type = "connect"
  /\ inbox' = Tail(inbox)
  /\ IF ~ok
     THEN /\ wire' = Append(wire, Pkt("connack_denied", 0))
          /\ Die /\ proc' = "exited"
          /\ UNCHANGED <<state, deq, snd, assigned, pubTokens, deqTokens,
                         sessionVars, bSubs>>
     ELSE LET fresh == connClean \/ ~SetupResumed
              out == IF fresh THEN <<>> ELSE sOut
              present == ~connClean /\ SetupResumed
          IN /\ state' = "connected" /\ assigned' = TRUE
             /\ sessionExists' = TRUE
             /\ sOut' = out
             /\ sIn' = IF fresh THEN <<>> ELSE sIn
             /\ lastId' = IF fresh THEN 0 ELSE lastId
             /\ sWill' = IF connWill THEN conn ELSE IF fresh THEN 0 ELSE sWill
             /\ sSubs' = IF fresh THEN {} ELSE sSubs
             /\ Resubscribe(sSubs')
             /\ pubTokens' = ParallelPublishes /\ deqTokens' = ParallelDequeues
             /\ wire' = Append(wire, [Pkt("connack", 0) EXCEPT !.qos = IF present THEN 1 ELSE 0])
                        \o Replay(out)
             /\ proc' = "loop" /\ deq' = "acquire" /\ snd' = "loop"
             /\ UNCHANGED <<closed, dying>>
  /\ UNCHANGED <<conn, deqMsg, cleaned, outq, pendingAcks, connClean, connWill,
                 peerGone, bq, inflight, pubCount, willsOut, peerVars>>

(* The processor's loop reads the next packet and runs its handler         *)
(* (processPacket). It needs the tomb alive and an open connection; what   *)
(* the remote client sent before it closed is still read.                 *)
Receiving == proc = "loop" /\ ~dying /\ ~closed /\ inbox # <<>>

ProcUnchanged == UNCHANGED <<conn, state, deq, deqMsg, snd, dying, closed, cleaned,
                             assigned, deqTokens, outq, connClean, connWill,
                             peerGone, lastId, sWill, sessionExists, bq, inflight,
                             willsOut, peerVars, sSubs, bSubs>>

(* processPublish, QoS 0: backend.Publish without an Ack.                  *)
ProcessPublishQos0 ==
  LET p == Head(inbox) IN
  /\ Receiving /\ p.type = "publish" /\ p.qos = 0
  /\ inbox' = Tail(inbox)
  /\ pubCount' = [pubCount EXCEPT ![p.msg] = @ + 1]
  /\ UNCHANGED <<proc, pubTokens, pendingAcks, wire, sOut, sIn>>
  /\ ProcUnchanged

(* processPublish, QoS 1: acquire a publish token (blocking), then         *)
(* backend.Publish with an Ack that queues the Puback.                     *)
ProcessPublishQos1 ==
  LET p == Head(inbox) IN
  /\ Receiving /\ p.type = "publish" /\ p.qos = 1
  /\ pubTokens > 0
  /\ inbox' = Tail(inbox)
  /\ pubTokens' = pubTokens - 1
  /\ pubCount' = [pubCount EXCEPT ![p.msg] = @ + 1]
  /\ pendingAcks' = pendingAcks \cup {Pkt("puback", p.id)}
  /\ UNCHANGED <<proc, wire, sOut, sIn>>
  /\ ProcUnchanged

(* processPublish, QoS 2: SavePacket(Incoming), overwriting a stale entry  *)
(* with the same id, and send the Pubrec.                                  *)
ProcessPublishQos2 ==
  LET p == Head(inbox) IN
  /\ Receiving /\ p.type = "publish" /\ p.qos = 2
  /\ inbox' = Tail(inbox)
  /\ sIn' = Put(sIn, p.id, p.msg)
  /\ wire' = Append(wire, Pkt("pubrec", p.id))
  /\ UNCHANGED <<proc, pubTokens, pendingAcks, pubCount, sOut>>
  /\ ProcUnchanged

(* processPubrel: look the publish up in the session; an unknown id is      *)
(* ignored. Otherwise acquire a publish token and backend.Publish with an  *)
(* Ack that queues the Pubcomp; the Incoming entry stays until the sender  *)
(* has written the Pubcomp.                                                *)
ProcessPubrelNoToken ==
  LET p == Head(inbox) IN
  /\ Receiving /\ p.type = "pubrel"
  /\ inbox' = Tail(inbox)
  /\ IF p.id \notin DOMAIN sIn
     THEN UNCHANGED <<pubTokens, pubCount, pendingAcks>>
     ELSE /\ pubCount' = [pubCount EXCEPT ![sIn[p.id]] = @ + 1]
          /\ pendingAcks' = pendingAcks \cup {Pkt("pubcomp", p.id)}
          /\ UNCHANGED pubTokens
  /\ UNCHANGED <<proc, wire, sOut, sIn>>
  /\ ProcUnchanged

ProcessPubrel ==
  LET p == Head(inbox) IN
  /\ Receiving /\ p.type = "pubrel"
  /\ inbox' = Tail(inbox)
  /\ IF p.id \notin DOMAIN sIn
     THEN UNCHANGED <<pubTokens, pubCount, pendingAcks>>
     ELSE /\ pubTokens > 0
          /\ pubTokens' = pubTokens - 1
          /\ pubCount' = [pubCount EXCEPT ![sIn[p.id]] = @ + 1]
          /\ pendingAcks' = pendingAcks \cup {Pkt("pubcomp", p.id)}
  /\ UNCHANGED <<proc, wire, sOut, sIn>>
  /\ ProcUnchanged

(* processPubackAndPubcomp: DeletePacket(Outgoing), then put a dequeue      *)
(* token back with a plain channel send (next action).                      *)
ProcessPubackAndPubcomp ==
  LET p == Head(inbox) IN
  /\ Receiving /\ p.type \in {"puback", "pubcomp"}
  /\ inbox' = Tail(inbox)
  /\ sOut' = Del(sOut, p.id)
  /\ proc' = "returnToken"
  /\ UNCHANGED <<pubTokens, pubCount, pendingAcks, wire, sIn>>
  /\ ProcUnchanged

ReturnDequeueTokenUnbounded ==
  /\ proc = "returnToken"
  /\ deqTokens' = deqTokens + 1
  /\ proc' = "loop"
  /\ UNCHANGED <<conn, state, deq, deqMsg, snd, dying, closed, cleaned, assigned,
                 pubTokens, outq, pendingAcks, connClean, connWill, netVars,
                 sessionVars, backendVars, peerVars>>

(* c.dequeueTokens <- struct{}{}: blocks while the pool is full and does   *)
(* not watch the tomb.                                                     *)
ReturnDequeueToken ==
  /\ proc = "returnToken"
  /\ deqTokens < ParallelDequeues
  /\ deqTokens' = deqTokens + 1
  /\ proc' = "loop"
  /\ UNCHANGED <<conn, state, deq, deqMsg, snd, dying, closed, cleaned, assigned,
                 pubTokens, outq, pendingAcks, connClean, connWill, netVars,
                 sessionVars, backendVars, peerVars>>

(* processPubrec: overwrite the stored publish with a Pubrel and send it.  *)
ProcessPubrec ==
  LET p == Head(inbox) IN
  /\ Receiving /\ p.type = "pubrec"
  /\ inbox' = Tail(inbox)
  /\ sOut' = Put(sOut, p.id, [type |-> "pubrel", msg |-> NoMsg, qos |-> 0])
  /\ wire' = Append(wire, Pkt("pubrel", p.id))
  /\ UNCHANGED <<proc, pubTokens, pubCount, pendingAcks, sIn>>
  /\ ProcUnchanged

(* The control handlers leave the token pools, the publish flows and the  *)
(* remote client alone.                                                    *)
CtlUnchanged == UNCHANGED <<conn, state, proc, deq, deqMsg, snd, dying, closed,
                            cleaned, assigned, pubTokens, deqTokens, outq,
                            pendingAcks, connClean, connWill, peerGone,
                            sessionExists, sOut, sIn, sWill, lastId, bq, inflight,
                            pubCount, willsOut, peerVars>>

(* processSubscribe: SaveSubscription, backend.Subscribe, send the Suback. *)
ProcessSubscribe ==
  LET p == Head(inbox) IN
  /\ Receiving /\ p.type = "subscribe"
  /\ inbox' = Tail(inbox)
  /\ sSubs' = sSubs \cup {p.msg}
  /\ bSubs' = bSubs \cup {p.msg}
  /\ wire' = Append(wire, Pkt("suback", p.id))
  /\ CtlUnchanged

(* processUnsubscribe: backend.Unsubscribe, DeleteSubscription, send the   *)
(* Unsuback.                                                               *)
ProcessUnsubscribe ==
  LET p == Head(inbox) IN
  /\ Receiving /\ p.type = "unsubscribe"
  /\ inbox' = Tail(inbox)
  /\ bSubs' = bSubs \ {p.msg}
  /\ sSubs' = sSubs \ {p.msg}
  /\ wire' = Append(wire, Pkt("unsuback", p.id))
  /\ CtlUnchanged

(* processPingreq: send the Pingresp.                                      *)
ProcessPingreq ==
  /\ Receiving /\ Head(inbox).type = "pingreq"
  /\ inbox' = Tail(inbox)
  /\ wire' = Append(wire, Pkt("pingresp", 0))
  /\ UNCHANGED <<sSubs, bSubs>> /\ CtlUnchanged

(* processDisconnect: ClearWill, mark the client disconnected, close the   *)
(* connection and return ErrClientDisconnected, which kills the tomb.      *)
ProcessDisconnect ==
  /\ Receiving /\ Head(inbox).type = "disconnect"
  /\ inbox' = Tail(inbox)
  /\ sWill' = 0
  /\ state' = "disconnected"
  /\ closed' = TRUE /\ dying' = TRUE /\ proc' = "exited"
  /\ UNCHANGED <<conn, deq, deqMsg, snd, cleaned, assigned, pubTokens, deqTokens,
                 outq, pendingAcks, connClean, connWill, wire, peerGone,
                 sessionExists, sOut, sIn, lastId, sSubs, backendVars, peerVars>>

(* The processor returns: Receive fails on a closed connection or after    *)
(* the remote end closed and everything it sent was read (die closes the   *)
(* connection), the tomb is no longer alive at the top of the loop, or a   *)
(* token acquisition sees the tomb dying.                                  *)
ProcessorStop ==
  /\ proc \in {"connect", "loop"}
  /\ \/ closed
     \/ peerGone /\ inbox = <<>>
     \/ dying /\ proc = "loop"
  /\ proc' = "exited" /\ closed' = TRUE /\ dying' = TRUE
  /\ UNCHANGED <<conn, state, deq, deqMsg, snd, cleaned, assigned, pubTokens,
                 deqTokens, outq, pendingAcks, connClean, connWill, netVars,
                 sessionVars, backendVars, peerVars>>


-----------------------------------------------------------------------------
(* The dequeuer: acquire a dequeue token, backend.Dequeue, queue the       *)
(* message on c.outgoing. Every wait also watches the tomb; Dequeue returns *)
(* no message once the client is closing.                                  *)
DeqRest == UNCHANGED <<conn, state, proc, snd, cleaned, assigned,
                       pubTokens, pendingAcks, connClean, connWill, netVars,
                       sessionVars, pubCount, willsOut, bSubs, peerVars>>
DeqUnchanged == UNCHANGED <<dying, closed>> /\ DeqRest

DequeuerAcquire ==
  /\ deq = "acquire" /\ deqTokens > 0
  /\ deqTokens' = deqTokens - 1 /\ deq' = "dequeue"
  /\ UNCHANGED <<deqMsg, outq, bq, inflight>> /\ DeqUnchanged

(* backend.Dequeue returns the next message, held by the backend until   *)
(* its Ack.                                                                *)
DequeuerDequeue ==
  /\ deq = "dequeue"
  /\ \E m \in bq : bq' = bq \ {m} /\ inflight' = inflight \cup {m} /\ deqMsg' = m
  /\ deq' = "enqueue"
  /\ UNCHANGED <<deqTokens, outq>> /\ DeqUnchanged

(* backend.Dequeue returns an error: the dequeuer dies. Nothing forces a   *)
(* backend to fail, so this step has no fairness.                         *)
DequeuerDequeueFails ==
  /\ deq = "dequeue" /\ Faults
  /\ Die /\ deq' = "exited"
  /\ UNCHANGED <<deqMsg, deqTokens, outq, bq, inflight>> /\ DeqRest

DequeuerEnqueue ==
  /\ deq = "enqueue" /\ Len(outq) < OutCap
  /\ outq' = Append(outq, [kind |-> "msg", pkt |-> deqMsg])
  /\ deq' = "acquire" /\ deqMsg' = NoMsg
  /\ UNCHANGED <<deqTokens, bq, inflight>> /\ DeqUnchanged

DequeuerStopNotInDequeue ==
  /\ deq \in {"acquire", "enqueue"} /\ dying
  /\ deq' = "exited"
  /\ UNCHANGED <<deqMsg, deqTokens, outq, bq, inflight>> /\ DeqUnchanged

DequeuerStop ==
  /\ deq \in {"acquire", "dequeue", "enqueue"} /\ dying
  /\ deq' = "exited"
  /\ UNCHANGED <<deqMsg, deqTokens, outq, bq, inflight>> /\ DeqUnchanged

-----------------------------------------------------------------------------
(* The Ack callback of backend.Publish, called by the backend during or    *)
(* after Publish: queue the Puback or Pubcomp, or drop it once the tomb    *)
(* is dying.                                                               *)
BackendAck ==
  \E a \in pendingAcks :
    /\ pendingAcks' = pendingAcks \ {a}
    /\ \/ /\ Len(outq) < OutCap
          /\ outq' = Append(outq, [kind |-> "ack", pkt |-> a])
       \/ /\ dying
          /\ UNCHANGED outq
    /\ UNCHANGED <<conn, state, proc, deq, deqMsg, snd, dying, closed, cleaned,
                   assigned, pubTokens, deqTokens, connClean, connWill, netVars,
                   sessionVars, backendVars, peerVars>>

-----------------------------------------------------------------------------
(* The sender takes the next entry of c.outgoing.                          *)
SndUnchanged == UNCHANGED <<conn, state, proc, deq, deqMsg, cleaned, assigned,
                            pendingAcks, connClean, connWill, inbox, peerGone,
                            sessionExists, sSubs, bq, pubCount, willsOut, bSubs,
                            peerVars>>

(* A write fails on a closed connection and may fail once the remote end   *)
(* is gone; the sender then returns the error and the tomb dies.           *)
CanFail == closed \/ peerGone

(* sendAck: send the Puback or Pubcomp; after a Pubcomp delete the          *)
(* Incoming entry; put the publish token back.                             *)
SendAck ==
  LET a == Head(outq).pkt IN
  /\ snd = "loop" /\ outq # <<>> /\ Head(outq).kind = "ack"
  /\ outq' = Tail(outq)
  /\ \/ /\ ~closed /\ pubTokens < ParallelPublishes
        /\ wire' = Append(wire, a)
        /\ sIn' = IF a.type = "pubcomp" THEN Del(sIn, a.id) ELSE sIn
        /\ pubTokens' = pubTokens + 1
        /\ UNCHANGED <<snd, dying, closed>>
     \/ /\ CanFail
        /\ snd' = "exited" /\ dying' = TRUE
        /\ UNCHANGED <<wire, sIn, pubTokens, closed>>
  /\ UNCHANGED <<deqTokens, sOut, lastId, sWill, inflight>> /\ SndUnchanged

(* sendMessage: cap nothing (no stored subscription matches), take a       *)
(* NextID and SavePacket(Outgoing) for QoS > 0, call the Ack, send, and for *)
(* QoS 0 put the dequeue token back (next action). A failed send dies, *)
(* and so does a failed SavePacket, before the Ack.                        *)
SendMessage ==
  LET m == Head(outq).pkt
      q == BrokerQos[m]
      id == IF q > 0 THEN NextId(lastId, DOMAIN sOut) ELSE 0
  IN
  /\ snd = "loop" /\ outq # <<>> /\ Head(outq).kind = "msg"
  /\ outq' = Tail(outq)
  /\ lastId' = IF q > 0 THEN id ELSE lastId
  /\ \/ /\ sOut' = IF q > 0 THEN Put(sOut, id, [type |-> "publish", msg |-> m, qos |-> q])
                         ELSE sOut
        /\ inflight' = inflight \ {m}
        /\ \/ /\ ~closed
              /\ wire' = Append(wire, PublishPkt(m, id, q))
              /\ snd' = IF q = 0 THEN "returnToken" ELSE "loop"
              /\ UNCHANGED <<dying, closed>>
           \/ /\ CanFail
              /\ Die /\ snd' = "exited"
              /\ UNCHANGED wire
     \/ /\ Faults /\ q > 0          \* SavePacket fails: die before the Ack
        /\ Die /\ snd' = "exited"
        /\ UNCHANGED <<sOut, inflight, wire>>
  /\ UNCHANGED <<pubTokens, deqTokens, sIn, sWill>> /\ SndUnchanged

(* c.dequeueTokens <- struct{}{} for a QoS 0 message: a plain channel send. *)
SenderReturnToken ==
  /\ snd = "returnToken" /\ deqTokens < ParallelDequeues
  /\ deqTokens' = deqTokens + 1 /\ snd' = "loop"
  /\ UNCHANGED <<outq, wire, dying, closed, pubTokens, sOut, sIn, lastId, sWill,
                 inflight>> /\ SndUnchanged

SenderStop ==
  /\ snd = "loop" /\ dying
  /\ snd' = "exited"
  /\ UNCHANGED <<outq, wire, dying, closed, pubTokens, deqTokens, sOut, sIn,
                 lastId, sWill, inflight>> /\ SndUnchanged

-----------------------------------------------------------------------------
(* The cleanup goroutine, once every goroutine of the tomb has returned:   *)
(* publish the stored will if the client is still connected, Terminate if  *)
(* it got connected (the backend unsubscribes the client and drops a clean *)
(* session there), and close Closed().                                     *)
Cleanup ==
  /\ ~cleaned /\ proc = "exited"
  /\ deq \in {"off", "exited"} /\ snd \in {"off", "exited"}
  /\ willsOut' = IF assigned /\ state = "connected" /\ sWill # 0
                 THEN Append(willsOut, <<conn, sWill>>) ELSE willsOut
  /\ sessionExists' = IF state # "connecting" /\ connClean THEN FALSE ELSE sessionExists
  /\ bSubs' = IF state # "connecting" THEN {} ELSE bSubs
  /\ bq' = IF state # "connecting" THEN bq \cup inflight ELSE bq
  /\ inflight' = IF state # "connecting" THEN {} ELSE inflight
  /\ cleaned' = TRUE
  /\ UNCHANGED <<conn, state, proc, deq, deqMsg, snd, dying, closed, assigned,
                 pubTokens, deqTokens, outq, pendingAcks, connClean, connWill,
                 netVars, sOut, sIn, sWill, lastId, sSubs, pubCount,
                 peerVars>>

(* Client.Close, called by the backend or the broker: kill the tomb and    *)
(* close the connection.                                                   *)
Close ==
  /\ ~closed
  /\ closed' = TRUE /\ dying' = TRUE
  /\ UNCHANGED <<conn, state, proc, deq, deqMsg, snd, cleaned, assigned, pubTokens,
                 deqTokens, outq, pendingAcks, connClean, connWill, netVars,
                 sessionVars, backendVars, peerVars>>


-----------------------------------------------------------------------------
(* The remote client (src/client.go). Its processor reads the packets the  *)
(* broker wrote, in order, and answers them at once.                       *)
PeerSideUnchanged == UNCHANGED <<clientVars, sessionVars, backendVars, pSent>>
PeerUnchanged == PeerSideUnchanged /\ UNCHANGED <<pPing, pSubs>>

PeerReading(t) == ~peerGone /\ wire # <<>> /\ Head(wire).type \in t

(* processConnack: accepted, so resend every stored outgoing packet.       *)
PeerConnack ==
  /\ PeerReading({"connack"}) /\ ~peerUp
  /\ wire' = Tail(wire) /\ peerUp' = TRUE
  /\ inbox' = inbox \o Replay(pOut)
  /\ UNCHANGED <<peerGone, pOut, pIn, got>> /\ PeerUnchanged

(* processConnack: denied, so the client dies and closes the connection.   *)
PeerConnackDenied ==
  /\ PeerReading({"connack_denied"})
  /\ wire' = Tail(wire) /\ peerGone' = TRUE
  /\ UNCHANGED <<inbox, peerUp, pOut, pIn, got>> /\ PeerUnchanged

(* processPublish: QoS 0 forward; QoS 1 send the Puback, then forward;     *)
(* QoS 2 SavePacket(Incoming) and send the Pubrec.                         *)
PeerPublishReceived ==
  LET p == Head(wire) IN
  /\ PeerReading({"publish"})
  /\ wire' = Tail(wire)
  /\ inbox' = CASE p.qos = 1 -> Append(inbox, Pkt("puback", p.id))
                [] p.qos = 2 -> Append(inbox, Pkt("pubrec", p.id))
                [] OTHER -> inbox
  /\ pIn' = IF p.qos = 2 THEN Put(pIn, p.id, p.msg) ELSE pIn
  /\ got' = IF p.qos <= 1 THEN [got EXCEPT ![p.msg] = @ + 1] ELSE got
  /\ UNCHANGED <<peerGone, peerUp, pOut>> /\ PeerUnchanged

PeerPubrelReceivedKeepsIncoming ==
  LET id == Head(wire).id IN
  /\ PeerReading({"pubrel"})
  /\ wire' = Tail(wire)
  /\ IF id \notin DOMAIN pIn
     THEN UNCHANGED <<inbox, pIn, got>>
     ELSE /\ inbox' = Append(inbox, Pkt("pubcomp", id))
          /\ got' = [got EXCEPT ![pIn[id]] = @ + 1]
          /\ UNCHANGED pIn
  /\ UNCHANGED <<peerGone, peerUp, pOut>> /\ PeerUnchanged

(* processPubrel: an id with no stored publish is ignored; otherwise send  *)
(* the Pubcomp, DeletePacket(Incoming) and forward.                        *)
PeerPubrelReceived ==
  LET id == Head(wire).id IN
  /\ PeerReading({"pubrel"})
  /\ wire' = Tail(wire)
  /\ IF id \notin DOMAIN pIn
     THEN UNCHANGED <<inbox, pIn, got>>
     ELSE /\ inbox' = Append(inbox, Pkt("pubcomp", id))
          /\ pIn' = Del(pIn, id)
          /\ got' = [got EXCEPT ![pIn[id]] = @ + 1]
  /\ UNCHANGED <<peerGone, peerUp, pOut>> /\ PeerUnchanged

(* processPubackAndPubcomp: DeletePacket(Outgoing) and complete the future. *)
PeerAckReceived ==
  /\ PeerReading({"puback", "pubcomp"})
  /\ wire' = Tail(wire)
  /\ pOut' = Del(pOut, Head(wire).id)
  /\ UNCHANGED <<inbox, peerGone, peerUp, pIn, got>> /\ PeerUnchanged

(* processPubrec: send the Pubrel, storing it over the publish.            *)
PeerPubrecReceived ==
  LET id == Head(wire).id IN
  /\ PeerReading({"pubrec"})
  /\ wire' = Tail(wire)
  /\ pOut' = Put(pOut, id, [type |-> "pubrel", msg |-> NoMsg, qos |-> 0])
  /\ inbox' = Append(inbox, Pkt("pubrel", id))
  /\ UNCHANGED <<peerGone, peerUp, pIn, got>> /\ PeerUnchanged

(* client.Publish: send the publish, storing it first for QoS >= 1.        *)
PeerPublish(m) ==
  /\ peerUp /\ ~peerGone /\ m \notin pSent
  /\ inbox' = Append(inbox, PublishPkt(m, PeerId[m], PeerQos[m]))
  /\ pOut' = IF PeerQos[m] > 0
             THEN Put(pOut, PeerId[m], [type |-> "publish", msg |-> m, qos |-> PeerQos[m]])
             ELSE pOut
  /\ pSent' = pSent \cup {m}
  /\ UNCHANGED <<clientVars, sessionVars, backendVars, wire, peerGone, peerUp, pIn, got,
                 pPing, pSubs>>

(* processSuback and processUnsuback: DeletePacket(Outgoing) and complete  *)
(* the future; a Suback tells the client its subscription is in place.     *)
PeerCtlAckReceived ==
  LET id == Head(wire).id IN
  /\ PeerReading({"suback", "unsuback"})
  /\ wire' = Tail(wire)
  /\ pOut' = Del(pOut, id)
  /\ pSubs' = IF id \in DOMAIN pOut /\ pOut[id].type = "subscribe"
              THEN pSubs \cup {pOut[id].msg} ELSE pSubs
  /\ UNCHANGED <<inbox, peerGone, peerUp, pIn, got, pPing>> /\ PeerSideUnchanged

(* The tracker's pong: a Pingresp clears the pending ping.                 *)
PeerPingresp ==
  /\ PeerReading({"pingresp"})
  /\ wire' = Tail(wire) /\ pPing' = FALSE
  /\ UNCHANGED <<inbox, peerGone, peerUp, pOut, pIn, got, pSubs>> /\ PeerSideUnchanged

(* client.SubscribeMultiple and UnsubscribeMultiple: store the request in  *)
(* the session and send it. The remote client asking to unsubscribe no     *)
(* longer counts on the subscription. One request is in flight at a time.  *)
PeerRequest(t, f) ==
  /\ peerUp /\ ~peerGone /\ t \in CtlRequests /\ CtlId \notin DOMAIN pOut
  /\ inbox' = Append(inbox, [Pkt(t, CtlId) EXCEPT !.msg = f])
  /\ pOut' = Put(pOut, CtlId, [type |-> t, msg |-> f, qos |-> 0])
  /\ pSubs' = IF t = "unsubscribe" THEN pSubs \ {f} ELSE pSubs
  /\ UNCHANGED <<wire, peerGone, peerUp, pIn, got, pPing>> /\ PeerSideUnchanged

(* The pinger, once the keep-alive window has passed: with a ping still    *)
(* pending the client dies and closes the connection (ErrClientMissingPong), *)
(* otherwise it sends a Pingreq, not stored, and marks it pending.         *)
PeerPinger ==
  /\ peerUp /\ ~peerGone /\ "pingreq" \in CtlRequests
  /\ IF pPing
     THEN /\ peerGone' = TRUE
          /\ UNCHANGED <<inbox, pPing>>
     ELSE /\ inbox' = Append(inbox, Pkt("pingreq", 0))
          /\ pPing' = TRUE
          /\ UNCHANGED peerGone
  /\ UNCHANGED <<wire, peerUp, pOut, pIn, got, pSubs>> /\ PeerSideUnchanged

(* client.Disconnect: send the DisconnectPacket and close the connection.  *)
PeerDisconnect ==
  /\ peerUp /\ ~peerGone
  /\ inbox' = Append(inbox, Pkt("disconnect", 0)) /\ peerGone' = TRUE
  /\ UNCHANGED <<wire, peerVars>> /\ PeerUnchanged

(* The network fails, the remote client closes, or the broker's read       *)
(* deadline (1.5 x keep-alive) expires: what was in flight is lost.        *)
ConnectionLost ==
  /\ ~peerGone
  /\ peerGone' = TRUE /\ inbox' = <<>>
  /\ UNCHANGED <<wire, peerVars>> /\ PeerUnchanged

-----------------------------------------------------------------------------
ProcessPacket ==
  \/ ProcessPublishQos0 \/ ProcessPublishQos1 \/ ProcessPublishQos2
  \/ ProcessPubrel \/ ProcessPubackAndPubcomp \/ ProcessPubrec
  \/ ProcessSubscribe \/ ProcessUnsubscribe \/ ProcessPingreq
  \/ ProcessDisconnect

Broker ==
  \/ \E ok \in BOOLEAN : ProcessConnect(ok)
  \/ ProcessPacket \/ ReturnDequeueToken \/ ProcessorStop
  \/ DequeuerAcquire \/ DequeuerDequeue \/ DequeuerDequeueFails \/ DequeuerEnqueue \/ DequeuerStop
  \/ BackendAck
  \/ SendAck \/ SendMessage \/ SenderReturnToken \/ SenderStop
  \/ Cleanup \/ Close

Peer ==
  \/ \E c \in CleanChoices, w \in WillChoices : PeerConnect(c, w)
  \/ PeerConnack \/ PeerConnackDenied \/ PeerPublishReceived
  \/ PeerPubrelReceived \/ PeerAckReceived \/ PeerPubrecReceived
  \/ \E m \in PeerMsgs : PeerPublish(m)
  \/ PeerCtlAckReceived \/ PeerPingresp \/ PeerPinger
  \/ \E t \in {"subscribe", "unsubscribe"}, f \in Filters : PeerRequest(t, f)
  \/ PeerDisconnect \/ ConnectionLost

Next == Broker \/ Peer

(* The goroutines of the broker Client are scheduled by the Go runtime and *)
(* the backend calls every Ack it is given: each keeps running while it    *)
(* can. The remote client and the network get no fairness.                *)
Fairness ==
  /\ WF_vars(\E ok \in BOOLEAN : ProcessConnect(ok))
  /\ WF_vars(ProcessPacket) /\ WF_vars(ReturnDequeueToken) /\ WF_vars(ProcessorStop)
  /\ WF_vars(DequeuerAcquire) /\ WF_vars(DequeuerDequeue)
  /\ WF_vars(DequeuerEnqueue) /\ WF_vars(DequeuerStop)
  /\ WF_vars(BackendAck)
  /\ WF_vars(SendAck) /\ WF_vars(SendMessage) /\ WF_vars(SenderReturnToken)
  /\ WF_vars(SenderStop) /\ WF_vars(Cleanup)

Spec == Init /\ [][Next]_vars /\ Fairness

-----------------------------------------------------------------------------
Payload == BrokerMsgs \cup PeerMsgs \cup Filters \cup {NoMsg}
Entry == [type : {"publish", "pubrel", "subscribe", "unsubscribe"}, msg : Payload,
          qos : 0..2]
Packet == [type : {"connect", "connack", "connack_denied", "publish", "puback",
                   "pubrec", "pubrel", "pubcomp", "subscribe", "suback",
                   "unsubscribe", "unsuback", "pingreq", "pingresp", "disconnect"},
           id : Nat, msg : Payload, qos : 0..2]
IsMap(f, D, R) == DOMAIN f \subseteq D /\ \A k \in DOMAIN f : f[k] \in R

TypeOK ==
  /\ conn \in 0..MaxConns
  /\ state \in {"connecting", "connected", "disconnected"}
  /\ proc \in {"connect", "loop", "returnToken", "exited"}
  /\ deq \in {"off", "acquire", "dequeue", "enqueue", "exited"}
  /\ snd \in {"off", "loop", "returnToken", "exited"}
  /\ deqMsg \in BrokerMsgs \cup {NoMsg}
  /\ pubTokens \in 0..ParallelPublishes /\ deqTokens \in 0..ParallelDequeues
  /\ \A i \in DOMAIN outq : outq[i].kind \in {"ack", "msg"}
  /\ Len(outq) <= OutCap
  /\ pendingAcks \subseteq Packet
  /\ \A i \in DOMAIN inbox : inbox[i] \in Packet
  /\ \A i \in DOMAIN wire : wire[i] \in Packet
  /\ IsMap(sOut, Ids, Entry) /\ IsMap(pOut, Nat, Entry)
  /\ IsMap(sIn, Nat, PeerMsgs) /\ IsMap(pIn, Ids, BrokerMsgs)
  /\ sWill \in 0..MaxConns /\ lastId \in 0..MaxId
  /\ bq \subseteq BrokerMsgs /\ inflight \subseteq BrokerMsgs
  /\ pSent \subseteq PeerMsgs
  /\ sSubs \subseteq Filters /\ bSubs \subseteq Filters /\ pSubs \subseteq Filters
  /\ pPing \in BOOLEAN

(* The outbound flows implement Delivery (dequeuer and sendMessage,        *)
(* src/broker/client.go:332 and :835; the remote client's processPublish   *)
(* and processPubrel, src/client.go). A message is owed while it has not   *)
(* reached the remote client's Callback and is still on its way: in the    *)
(* backend (queued, or dequeued and not yet acked, so Terminate hands it   *)
(* back), in the session's outgoing store once sendMessage has called the  *)
(* Ack, in the remote client's Incoming store awaiting the Pubrel, or, for *)
(* QoS 0, as a publish on the wire: a QoS 1 or 2 publish on the wire that  *)
(* the session no longer holds dies with the connection, so that copy      *)
(* alone does not count. Leaving the path undelivered is a drop, allowed   *)
(* for QoS 0 only, across lost connections and reconnects of a persistent  *)
(* session; a second delivery is allowed for QoS 1 only. A message is lost *)
(* if the client acks before storing, or hands out a packet id still in    *)
(* flight again and overwrites its entry; a QoS 2 message is delivered     *)
(* twice if the remote client keeps its Incoming entry after the Pubrel.   *)
HeldByBackend(m) == m \in bq \cup inflight
HeldByBroker(m) == \E i \in DOMAIN sOut : sOut[i].msg = m
OnTheWire(m) == \E i \in DOMAIN wire : wire[i].type = "publish" /\ wire[i].msg = m
Owed == {m \in BrokerMsgs : got[m] = 0 /\ (HeldByBackend(m) \/ HeldByBroker(m)
                                          \/ (BrokerQos[m] = 0 /\ OnTheWire(m))
                                          \/ m \in Range(pIn))}
Outbound == INSTANCE Delivery WITH Msgs <- BrokerMsgs, Qos <- BrokerQos,
                                   pending <- Owed, count <- got

(* Outbound!Spec, with the steps that leave the mapped state alone tested *)
(* before Outbound!Next: most steps of the broker do not touch it.         *)
DeliveryRefined ==
  Outbound!Init /\ [][UNCHANGED <<Owed, got>> \/ Outbound!Next]_<<Owed, got>>

(* Inbound flows are bounded by ParallelPublishes (processPublish and      *)
(* processPubrel take a publish token, sendAck returns it): the QoS 1 and  *)
(* 2 publishes handed to the backend whose Puback or Pubcomp has not been  *)
(* written yet never exceed the pool, whatever the backend's ack timing.   *)
UnwrittenAcks == Cardinality(pendingAcks)
                 + Cardinality({i \in DOMAIN outq : outq[i].kind = "ack"})
InboundFlowsBounded == UnwrittenAcks <= ParallelPublishes

(* Every connection is torn down: once it is closed on either side, the    *)
(* client eventually runs its cleanup (will, Terminate) and Closed fires;  *)
(* no goroutine stays blocked on a token pool or a channel.                *)
ClosedLeadsToCleanup == (closed \/ peerGone) ~> cleaned

(* Subscriptions outlive the connection (MQTT 3.1.2.4; spec 4.6.3): the   *)
(* cleanup's Terminate unsubscribes the client from the backend, and the   *)
(* next processConnect of the persistent session resubscribes what the     *)
(* session stored (src/broker/client.go:500). So while a connection is up, *)
(* the backend holds every filter the remote client got a Suback for and   *)
(* has not asked to unsubscribe, whichever connection carried the request. *)
SubscriptionsHeld ==
  (assigned /\ ~cleaned /\ state = "connected") => pSubs \subseteq bSubs

(* The will belongs to a connection (MQTT 3.1.1, 3.1.2.5; spec 4.6.8): the *)
(* cleanup (src/broker/client.go:919) only publishes the will of the       *)
(* connection that ends. processConnect saves a will when the Connect has  *)
(* one but never clears the one a resumed session still holds.            *)
OnlyOwnWillPublished ==
  \A i \in DOMAIN willsOut : willsOut[i][1] = willsOut[i][2]

(* QoS 2 is exactly once (spec 3 and scenario 4): the message of a QoS 2    *)
(* publish is handed to backend.Publish at most once (processPubrel,        *)
(* src/broker/client.go:732), even when the remote client resends its      *)
(* Pubrel after a reconnect.                                               *)
Qos2PublishedOnce ==
  \A m \in PeerMsgs : PeerQos[m] = 2 => pubCount[m] <= 1

(* The broker's own QoS 2 deliveries can always complete: once both ends *)
(* of a connection are gone and both sessions persist, every Pubrel the    *)
(* broker will resend at reconnect still has its Incoming entry at the     *)
(* remote client, whose processPubrel (src/client.go:594) ignores an       *)
(* unknown id without a Pubcomp.                                           *)
OutboundPubrelAnswerable ==
  (cleaned /\ peerGone /\ sessionExists) =>
    \A id \in DOMAIN sOut : sOut[id].type = "pubrel" => id \in DOMAIN pIn

=============================================================================
