------------------------------- MODULE Service -------------------------------
(***************************************************************************)
(* The application side of gomqtt: the Service supervisor of               *)
(* src/service.go composed with the Client engines (src/client.go) it      *)
(* creates, one per connection attempt, against a broker reduced to its    *)
(* replies.                                                                *)
(*                                                                         *)
(* The Service queues Publish, Subscribe and Unsubscribe requests in three *)
(* bounded channels; its reconnector goroutine creates a Client per        *)
(* attempt, waits for the Connack with a timeout and then runs the         *)
(* dispatcher, which hands each queued request to the Client and binds the *)
(* application's future to the Client's. Every Client shares the          *)
(* Service's Session and future store. A Client runs a processor and a     *)
(* pinger goroutine; die (once, from a goroutine) and end (from Close and  *)
(* Disconnect) both run cleanup, which cancels every future in the store.  *)
(*                                                                         *)
(* QoS 2 flows are left to BrokerClient; requests here are QoS 0 and 1     *)
(* publishes, subscribes and unsubscribes. Incoming publishes only reach   *)
(* the Message callback and are left out.                                  *)
(***************************************************************************)
EXTENDS Naturals, Sequences, SequencesExt

CONSTANTS
  Cmds,          \* the requests the application makes, one call each
  Kind,          \* [Cmds -> {"pub0", "pub1", "sub", "unsub"}]
  QueueCap,      \* capacity of each command queue (100 in NewService)
  MaxConns,      \* bound on the number of connection attempts (Clients)
  MaxId,         \* packet ids of the shared session are 1..MaxId
  CleanSession,  \* Options.CleanSession
  KeepAlive,     \* Options.KeepAlive > 0: a pinger runs
  NoCmd          \* a model value: a packet of no request

ASSUME /\ QueueCap \in Nat \ {0} /\ MaxConns \in Nat \ {0} /\ MaxId \in Nat \ {0}
       /\ CleanSession \in BOOLEAN /\ KeepAlive \in BOOLEAN

Conns == 1..MaxConns
Queues == {"publish", "subscribe", "unsubscribe"}

VARIABLES
  \* the Service
  started,     \* s.started
  svcDying,    \* s.tomb is dying (Stop was called)
  mutex,       \* holder of s.mutex: "free", "stop" or the request being queued
  call,        \* Cmds -> "idle", "enqueue" (holds the mutex), "done"
  queues,      \* Queues -> the requests in the channel, oldest first
  stopPc,      \* the Stop call: "idle", "lock", "wait", "done"
  rc,          \* the reconnector goroutine
  cur,         \* the Client of the current attempt, 0 before the first
  calling,     \* the request the dispatcher is handing to the Client, past its state check
  \* the Clients, one per attempt
  cst,         \* Conns -> c.state
  connFut,     \* Conns -> c.connectFuture: "none", "pending", "accepted", "denied", "canceled"
  proc,        \* Conns -> the processor goroutine runs
  connack,     \* Conns -> processConnack past its state check: "idle", "accepted", "refused"
  ping,        \* Conns -> the pinger goroutine runs
  pingPending, \* Conns -> the tracker awaits a Pingresp
  dying,       \* Conns -> c.tomb is dying
  finished,    \* Conns -> c.finish has run (die's cleanup happened)
  fail,        \* Conns -> the fail channel of the attempt is closed
  link,        \* Conns -> "none", "up", "eof" (broken or closed by the broker), "down" (closed by the client)
  toBroker,    \* Conns -> packets written and not yet read by the broker
  toClient,    \* Conns -> packets from the broker not yet read by the client
  \* state shared by all Clients
  sOut,        \* the Session's Outgoing packets: id -> request
  lastId,      \* the Session's packet id counter
  fs,          \* the futureStore: packet id -> request of the Client future stored
  cfut,        \* Cmds -> the Client future of the request: "none", "pending", "completed", "canceled"
  bound,       \* Cmds -> the application's future has been bound to the Client future
  \* observations of the broker
  delivered,   \* requests the broker has received
  ackedC,      \* requests whose acknowledgement a later Client's processor has handled
  sentBy       \* Cmds -> the Client that last wrote the request (0: none)

svcVars == <<started, svcDying, mutex, call, queues, stopPc, rc, cur, calling>>
connVars == <<cst, connFut, proc, connack, ping, pingPending, dying, finished, fail, link,
              toBroker, toClient>>
storeVars == <<sOut, lastId, fs, cfut, bound>>
vars == <<svcVars, connVars, storeVars, delivered, ackedC, sentBy>>

-----------------------------------------------------------------------------
States == <<"initial", "connecting", "connacked", "connected", "disconnecting",
            "disconnected">>
Rank(s) == CHOOSE k \in 1..Len(States) : States[k] = s   \* the order of c.state

QueueOf(c) == CASE Kind[c] \in {"pub0", "pub1"} -> "publish"
                [] Kind[c] = "sub" -> "subscribe"
                [] Kind[c] = "unsub" -> "unsubscribe"
AckOf(c) == CASE Kind[c] \in {"pub0", "pub1"} -> "puback"
              [] Kind[c] = "sub" -> "suback"
              [] Kind[c] = "unsub" -> "unsuback"
StoredQos0(c) == TRUE
Stored(c) == Kind[c] # "pub0"      \* send(pkt, store): QoS >= 1, subscribe, unsubscribe

Pkt(t, id, c) == [type |-> t, id |-> id, cmd |-> c, ok |-> TRUE]
Connack(ok) == [type |-> "connack", id |-> 0, cmd |-> NoCmd, ok |-> ok]
ReqPkt(c, id) == Pkt(Kind[c], id, c)

Put(f, k, v) == (k :> v) @@ f
Del(f, k) == Restrict(f, DOMAIN f \ {k})

(* AllPackets(Outgoing) in id order, resent by processConnack.            *)
Replay(out) == LET ids == SetToSortSeq(DOMAIN out, <)
               IN [k \in 1..Len(ids) |-> ReqPkt(out[ids[k]], ids[k])]

(* Session.PacketID: the next id after last, cyclically, skipping ids     *)
(* held by an outgoing packet (spec 3, "Packet identifier").               *)
Cand(last, k) == ((last + k - 1) % MaxId) + 1
PacketID(last, held) ==
  LET free == {k \in 1..MaxId : Cand(last, k) \notin held}
  IN IF free = {} THEN Cand(last, 1)
     ELSE Cand(last, CHOOSE k \in free : \A j \in free : k <= j)

(* What conn.Send can do: a write on a broken link may still be accepted  *)
(* by the kernel and lost; a write on a closed connection fails.           *)
SendOutcomes(i) == CASE link[i] = "up" -> {"ok"}
                     [] link[i] = "eof" -> {"lost", "error"}
                     [] OTHER -> {"error"}
Write(i, pkts, out) ==
  toBroker' = IF out = "ok" THEN [toBroker EXCEPT ![i] = @ \o pkts] ELSE toBroker

(* Publish completes and removes a QoS 0 future as soon as it is written. *)
CompletesOnWrite(c) == Kind[c] = "pub0"

(* The application's view of a request's future.                          *)
UserStatus(c) == IF bound[c] THEN cfut[c]
                 ELSE IF call[c] = "idle" THEN "none" ELSE "pending"

-----------------------------------------------------------------------------
(* Client.cleanup(err, close) of Client i, entered in state st: cancel the *)
(* connect future before a Connack, set the state, close the connection,   *)
(* reset the session of a clean client and cancel every future of the      *)
(* store, including those of requests of earlier Clients.                  *)
CancelAll(store, fut) ==
  /\ cfut' = [c \in Cmds |-> IF c \in Range(store) /\ fut[c] = "pending"
                             THEN "canceled" ELSE fut[c]]
CancelConnect(i, st, cf) ==
  connFut' = [connFut EXCEPT ![i] = IF Rank(st) < Rank("connacked") /\ cf = "pending"
                                    THEN "canceled" ELSE cf]
ResetSession == IF CleanSession THEN sOut' = <<>> /\ lastId' = 0
                ELSE UNCHANGED <<sOut, lastId>>
Cleanup(i, close) ==
  /\ cst' = [cst EXCEPT ![i] = "disconnected"]
  /\ link' = IF close THEN [link EXCEPT ![i] = "down"] ELSE link
  /\ ResetSession
  /\ CancelAll(fs, cfut)

(* Client.die: cleanup and the Callback (which closes the attempt's fail   *)
(* channel) run once per Client; the goroutine then returns the error,     *)
(* which kills the tomb.                                                   *)
DieNoCallback(i, close, st, cf) ==
  /\ dying' = [dying EXCEPT ![i] = TRUE]
  /\ IF finished[i]
     THEN /\ connFut' = [connFut EXCEPT ![i] = cf]
          /\ UNCHANGED <<cst, link, sOut, lastId, cfut, fs, finished, fail>>
     ELSE /\ Cleanup(i, close) /\ CancelConnect(i, st, cf) /\ UNCHANGED <<fs, fail>>
          /\ finished' = [finished EXCEPT ![i] = TRUE]

Die(i, close, st, cf) ==
  /\ dying' = [dying EXCEPT ![i] = TRUE]
  /\ IF finished[i]
     THEN /\ connFut' = [connFut EXCEPT ![i] = cf]
          /\ UNCHANGED <<cst, link, sOut, lastId, cfut, fs, finished, fail>>
     ELSE /\ Cleanup(i, close) /\ CancelConnect(i, st, cf) /\ UNCHANGED fs
          /\ finished' = [finished EXCEPT ![i] = TRUE]
          /\ fail' = [fail EXCEPT ![i] = TRUE]

-----------------------------------------------------------------------------
Init ==
  /\ started = FALSE /\ svcDying = FALSE /\ mutex = "free"
  /\ call = [c \in Cmds |-> "idle"] /\ queues = [q \in Queues |-> <<>>]
  /\ stopPc = "idle" /\ rc = "off" /\ cur = 0 /\ calling = NoCmd
  /\ cst = [i \in Conns |-> "initial"] /\ connFut = [i \in Conns |-> "none"]
  /\ proc = [i \in Conns |-> FALSE] /\ connack = [i \in Conns |-> "idle"] /\ ping = [i \in Conns |-> FALSE]
  /\ pingPending = [i \in Conns |-> FALSE] /\ dying = [i \in Conns |-> FALSE]
  /\ finished = [i \in Conns |-> FALSE] /\ fail = [i \in Conns |-> FALSE]
  /\ link = [i \in Conns |-> "none"]
  /\ toBroker = [i \in Conns |-> <<>>] /\ toClient = [i \in Conns |-> <<>>]
  /\ sOut = <<>> /\ lastId = 0 /\ fs = <<>>
  /\ cfut = [c \in Cmds |-> "none"] /\ bound = [c \in Cmds |-> FALSE]
  /\ delivered = {} /\ ackedC = {} /\ sentBy = [c \in Cmds |-> 0]

(* Service.Start: the reconnector's first attempt is made without delay.   *)
Start ==
  /\ rc = "off" /\ mutex = "free" /\ stopPc = "idle"
  /\ started' = TRUE /\ rc' = "dial"
  /\ UNCHANGED <<svcDying, mutex, call, queues, stopPc, cur, calling, connVars, storeVars,
                 delivered, ackedC, sentBy>>

(* Publish, SubscribeMultiple, UnsubscribeMultiple: take the mutex, create *)
(* the future, then send the request on its queue, blocking while the      *)
(* queue is full, and only then release the mutex.                         *)
UserCall(c) ==
  /\ call[c] = "idle" /\ mutex = "free" /\ stopPc # "done"
  /\ mutex' = c /\ call' = [call EXCEPT ![c] = "enqueue"]
  /\ UNCHANGED <<started, svcDying, queues, stopPc, rc, cur, calling, connVars, storeVars,
                 delivered, ackedC, sentBy>>

UserEnqueue(c) ==
  /\ call[c] = "enqueue"
  /\ Len(queues[QueueOf(c)]) < QueueCap
  /\ queues' = [queues EXCEPT ![QueueOf(c)] = Append(@, c)]
  /\ mutex' = "free" /\ call' = [call EXCEPT ![c] = "done"]
  /\ UNCHANGED <<started, svcDying, stopPc, rc, cur, calling, connVars, storeVars,
                 delivered, ackedC, sentBy>>

(* Service.Stop: under the mutex, kill the tomb and wait for the           *)
(* reconnector to return.                                                  *)
StopCall ==
  /\ stopPc = "idle" /\ started
  /\ stopPc' = "lock"
  /\ UNCHANGED <<started, svcDying, mutex, call, queues, rc, cur, calling, connVars,
                 storeVars, delivered, ackedC, sentBy>>

StopLock ==
  /\ stopPc = "lock" /\ mutex = "free"
  /\ mutex' = "stop" /\ started' = FALSE /\ svcDying' = TRUE /\ stopPc' = "wait"
  /\ UNCHANGED <<call, queues, rc, cur, calling, connVars, storeVars, delivered, ackedC, sentBy>>

StopReturn ==
  /\ stopPc = "wait" /\ rc = "exited"
  /\ stopPc' = "done" /\ mutex' = "free"
  /\ UNCHANGED <<started, svcDying, call, queues, rc, cur, calling, connVars, storeVars,
                 delivered, ackedC, sentBy>>

-----------------------------------------------------------------------------
(* The reconnector (service.go reconnector, getClient, dispatcher).        *)
svcRest == <<started, svcDying, mutex, call, queues, stopPc, calling>>

RcDelayNoDying ==
  /\ rc = "delay" /\ cur < MaxConns /\ rc' = "dial"
  /\ UNCHANGED <<svcRest, cur, connVars, storeVars, delivered, ackedC, sentBy>>

(* Sleep the backoff delay, or return once the tomb is dying.             *)
RcDelay ==
  /\ rc = "delay"
  /\ \/ cur < MaxConns /\ rc' = "dial"
     \/ svcDying /\ rc' = "exited"
  /\ UNCHANGED <<svcRest, cur, connVars, storeVars, delivered, ackedC, sentBy>>

(* getClient up to future.Wait: a new Client sharing the Session and the   *)
(* future store calls Connect: Dial may fail; otherwise the state becomes  *)
(* connecting, a clean client resets the session, and the ConnectPacket is *)
(* written, or its write fails and Connect returns cleanup(err, false).    *)
GetClient ==
  LET i == cur + 1 IN
  /\ rc = "dial" /\ cur < MaxConns
  /\ cur' = i
  /\ \/ /\ rc' = "delay"
        /\ UNCHANGED <<connVars, storeVars>>
     \/ /\ rc' = "await"
        /\ cst' = [cst EXCEPT ![i] = "connecting"]
        /\ connFut' = [connFut EXCEPT ![i] = "pending"]
        /\ link' = [link EXCEPT ![i] = "up"]
        /\ toBroker' = [toBroker EXCEPT ![i] = <<Pkt("connect", 0, NoCmd)>>]
        /\ proc' = [proc EXCEPT ![i] = TRUE]
        /\ ping' = [ping EXCEPT ![i] = KeepAlive]
        /\ ResetSession
        /\ UNCHANGED <<connack, pingPending, dying, finished, fail, toClient, fs, cfut, bound>>
     \/ /\ rc' = "delay"
        /\ link' = [link EXCEPT ![i] = "eof"]
        /\ cst' = [cst EXCEPT ![i] = "disconnected"]
        /\ connFut' = [connFut EXCEPT ![i] = "canceled"]
        /\ ResetSession
        /\ CancelAll(fs, cfut)
        /\ UNCHANGED <<proc, connack, ping, pingPending, dying, finished, fail, toBroker, toClient,
                       fs, bound>>
  /\ UNCHANGED <<svcRest, delivered, ackedC, sentBy>>

(* Client.end: cleanup(err, true), kill the tomb; the wait for the         *)
(* goroutines is RcJoin.                                                   *)
End(i) ==
  /\ Cleanup(i, TRUE) /\ CancelConnect(i, cst[i], connFut[i])
  /\ dying' = [dying EXCEPT ![i] = TRUE]
  /\ UNCHANGED fs

(* future.Wait(ConnectTimeout) returns: canceled (the Client died), timed  *)
(* out while pending, or completed; a timeout or a refused connection is   *)
(* followed by client.Close().                                             *)
GetClientWait ==
  LET i == cur IN
  /\ rc = "await"
  /\ \/ /\ connFut[i] = "canceled" /\ rc' = "delay"
        /\ UNCHANGED <<connVars, storeVars>>
     \/ /\ connFut[i] = "accepted" /\ rc' = "dispatch"
        /\ UNCHANGED <<connVars, storeVars>>
     \/ /\ connFut[i] \in {"pending", "denied"} /\ rc' = "closing"
        /\ End(i)
        /\ UNCHANGED <<proc, connack, ping, pingPending, finished, fail, toBroker, toClient, bound>>
  /\ UNCHANGED <<svcRest, cur, delivered, ackedC, sentBy>>

(* tomb.Wait in end: both goroutines of the Client have returned.         *)
RcJoin ==
  /\ rc \in {"closing", "ending"} /\ ~proc[cur] /\ ~ping[cur]
  /\ rc' = IF rc = "closing" THEN "delay" ELSE "exited"
  /\ UNCHANGED <<svcRest, cur, connVars, storeVars, delivered, ackedC, sentBy>>

(* Client.Publish, SubscribeMultiple and UnsubscribeMultiple of Client i   *)
(* for request c past the state check, with write outcome o: a packet id   *)
(* is drawn (QoS > 0), the future stored, the packet saved (QoS > 0) and   *)
(* written; a QoS 0 future completes at once. A failed write returns       *)
(* cleanup(err, false): no close, no die and no Callback. Nothing here     *)
(* holds off die, whose cleanup takes no client mutex.                     *)
Request(i, c, o) ==
  LET id == IF Kind[c] = "pub0" THEN 0 ELSE PacketID(lastId, DOMAIN sOut)
      last == IF Kind[c] = "pub0" THEN lastId ELSE id
      out == IF Stored(c) THEN Put(sOut, id, c) ELSE sOut
  IN
  /\ Write(i, <<ReqPkt(c, id)>>, o)
  /\ sentBy' = [sentBy EXCEPT ![c] = i]
  /\ IF o # "error"
     THEN /\ sOut' = out /\ lastId' = last
          /\ fs' = IF CompletesOnWrite(c) THEN fs ELSE Put(fs, id, c)
          /\ cfut' = [cfut EXCEPT ![c] = IF CompletesOnWrite(c) THEN "completed"
                                                             ELSE "pending"]
          /\ UNCHANGED <<cst, link>>
     ELSE /\ fs' = Put(fs, id, c)
          /\ cst' = [cst EXCEPT ![i] = "disconnected"]
          /\ IF CleanSession THEN sOut' = <<>> /\ lastId' = 0
             ELSE sOut' = out /\ lastId' = last
          /\ CancelAll(fs', [cfut EXCEPT ![c] = "pending"])
          /\ UNCHANGED link
  /\ UNCHANGED <<connFut, proc, connack, ping, pingPending, dying, finished, fail, toClient>>

(* The dispatcher takes a request from queue q and calls the Client, which *)
(* locks its mutex and checks c.state: ErrClientNotConnected drops the     *)
(* request and the dispatcher returns to reconnect.                        *)
DispatchRequest(q) ==
  /\ rc = "dispatch" /\ queues[q] # <<>>
  /\ queues' = [queues EXCEPT ![q] = Tail(@)]
  /\ IF cst[cur] = "connected"
     THEN rc' = "call" /\ calling' = Head(queues[q])
     ELSE rc' = "delay" /\ UNCHANGED calling
  /\ UNCHANGED <<started, svcDying, mutex, call, stopPc, cur, connVars, storeVars,
                 delivered, ackedC, sentBy>>

(* The rest of the Client call; a returned future is bound to the          *)
(* application's, an error drops the request and the dispatcher returns   *)
(* to reconnect.                                                           *)
DispatchCall ==
  /\ rc = "call"
  /\ calling' = NoCmd
  /\ \E o \in SendOutcomes(cur) :
       /\ Request(cur, calling, o)
       /\ IF o # "error" THEN bound' = [bound EXCEPT ![calling] = TRUE] /\ rc' = "dispatch"
          ELSE rc' = "delay" /\ UNCHANGED bound
  /\ UNCHANGED <<started, svcDying, mutex, call, queues, stopPc, cur, delivered, ackedC>>

(* Client.Disconnect: ErrClientNotConnected unless connected; otherwise    *)
(* futureStore.await (bounded by the timeout, so a delay only), state      *)
(* disconnecting, write the DisconnectPacket, then end.                    *)
Disconnect(i) ==
  /\ cst[i] = "connected"
  /\ \E o \in SendOutcomes(i) : Write(i, <<Pkt("disconnect", 0, NoCmd)>>, o)
  /\ End(i)
  /\ UNCHANGED <<proc, connack, ping, pingPending, finished, fail, toClient, bound>>

(* On Stop the dispatcher calls Disconnect and returns.                    *)
DispatchStop ==
  /\ rc = "dispatch" /\ svcDying
  /\ \/ /\ cst[cur] # "connected" /\ rc' = "exited"
        /\ UNCHANGED <<connVars, storeVars>>
     \/ Disconnect(cur) /\ rc' = "ending"
  /\ UNCHANGED <<svcRest, cur, delivered, ackedC, sentBy>>

(* The fail channel was closed by the Client's Callback: reconnect.       *)
DispatchFail ==
  /\ rc = "dispatch" /\ fail[cur]
  /\ rc' = "delay"
  /\ UNCHANGED <<svcRest, cur, connVars, storeVars, delivered, ackedC, sentBy>>

-----------------------------------------------------------------------------
(* The processor goroutine of Client i (client.go processor).             *)
Reading(i) == proc[i] /\ connack[i] = "idle" /\ link[i] \in {"up", "eof"} /\ toClient[i] # <<>>

(* Receive fails once the connection is closed, or broken and drained: the *)
(* error is ignored from state disconnecting on, otherwise the processor   *)
(* dies with it.                                                           *)
ProcReceiveError(i) ==
  /\ proc[i] /\ connack[i] = "idle"
  /\ \/ link[i] = "down"
     \/ link[i] = "eof" /\ toClient[i] = <<>>
  /\ proc' = [proc EXCEPT ![i] = FALSE]
  /\ IF Rank(cst[i]) >= Rank("disconnecting")
     THEN UNCHANGED <<cst, connFut, dying, finished, fail, link, sOut, lastId, fs, cfut>>
     ELSE Die(i, FALSE, cst[i], connFut[i])
  /\ UNCHANGED <<connack, ping, pingPending, toBroker, toClient, bound, svcVars, delivered, ackedC, sentBy>>

(* processConnack reads c.state without the client mutex: a Connack seen *)
(* while connecting is acted on in a later step (ProcConnackDone), and a  *)
(* connect timeout's Close (End) may run in between.                       *)
ProcConnack(i) ==
  LET p == Head(toClient[i]) IN
  /\ Reading(i) /\ p.type = "connack"
  /\ toClient' = [toClient EXCEPT ![i] = Tail(@)]
  /\ connack' = IF cst[i] = "connecting"
                THEN [connack EXCEPT ![i] = IF p.ok THEN "accepted" ELSE "refused"]
                ELSE connack
  /\ UNCHANGED <<cst, connFut, proc, ping, pingPending, dying, finished, fail, link,
                 toBroker, storeVars, svcVars, delivered, ackedC, sentBy>>

(* The rest of processConnack, whatever c.state has become meanwhile.     *)
(* Accepted: connected, the connect future completed (a no-op once it was *)
(* canceled), the stored packets resent (a failed write dies). Refused:   *)
(* connacked, die(ErrClientConnectionDenied, true), then the future       *)
(* completed with the return code.                                        *)
Completed(cf, outcome) == IF cf = "pending" THEN outcome ELSE cf
ProcConnackDone(i) ==
  /\ connack[i] # "idle"
  /\ connack' = [connack EXCEPT ![i] = "idle"]
  /\ \/ /\ connack[i] = "accepted"
        /\ \E o \in IF DOMAIN sOut = {} THEN {"ok"} ELSE SendOutcomes(i) :
             IF o # "error"
             THEN /\ cst' = [cst EXCEPT ![i] = "connected"]
                  /\ connFut' = [connFut EXCEPT ![i] = Completed(@, "accepted")]
                  /\ Write(i, Replay(sOut), o)
                  /\ UNCHANGED <<proc, dying, finished, fail, link, sOut, lastId, fs,
                                 cfut>>
             ELSE /\ proc' = [proc EXCEPT ![i] = FALSE]
                  /\ Die(i, FALSE, "connected", Completed(connFut[i], "accepted"))
                  /\ UNCHANGED toBroker
     \/ /\ connack[i] = "refused"
        /\ proc' = [proc EXCEPT ![i] = FALSE]
        /\ Die(i, TRUE, "connacked", Completed(connFut[i], "denied"))
        /\ UNCHANGED toBroker
  /\ UNCHANGED <<ping, pingPending, toClient, bound, svcVars, delivered, ackedC, sentBy>>

(* processSuback, processUnsuback, processPubackAndPubcomp: delete the     *)
(* stored packet, then complete and remove the future stored under the id *)
(* if it has the right type, else ignore the acknowledgement.              *)
ProcAck(i) ==
  LET p == Head(toClient[i]) IN
  /\ Reading(i) /\ p.type \in {"puback", "suback", "unsuback"}
  /\ toClient' = [toClient EXCEPT ![i] = Tail(@)]
  /\ sOut' = Del(sOut, p.id)
  /\ ackedC' = IF p.cmd \in Cmds /\ sentBy[p.cmd] < i THEN ackedC \cup {p.cmd} ELSE ackedC
  /\ IF p.id \in DOMAIN fs /\ AckOf(fs[p.id]) = p.type
     THEN LET c == fs[p.id] IN
          /\ cfut' = [cfut EXCEPT ![c] = IF @ = "pending" THEN "completed" ELSE @]
          /\ fs' = Del(fs, p.id)
     ELSE UNCHANGED <<cfut, fs>>
  /\ UNCHANGED <<cst, connFut, proc, connack, ping, pingPending, dying, finished, fail, link,
                 toBroker, lastId, bound, svcVars, delivered, sentBy>>

(* A PingrespPacket: tracker.pong.                                         *)
ProcPingresp(i) ==
  /\ Reading(i) /\ Head(toClient[i]).type = "pingresp"
  /\ toClient' = [toClient EXCEPT ![i] = Tail(@)]
  /\ pingPending' = [pingPending EXCEPT ![i] = FALSE]
  /\ UNCHANGED <<cst, connFut, proc, connack, ping, dying, finished, fail, link, toBroker,
                 storeVars, svcVars, delivered, ackedC, sentBy>>

(* The pinger of Client i: when the keep-alive window has passed, die with *)
(* ErrClientMissingPong if a Pingreq is unanswered, else write a Pingreq;  *)
(* it returns when the tomb is dying.                                      *)
PingerTick(i) ==
  /\ ping[i]
  /\ \/ /\ pingPending[i]
        /\ ping' = [ping EXCEPT ![i] = FALSE]
        /\ Die(i, TRUE, cst[i], connFut[i])
        /\ UNCHANGED <<pingPending, toBroker>>
     \/ /\ ~pingPending[i]
        /\ \E o \in SendOutcomes(i) :
             IF o # "error"
             THEN /\ Write(i, <<Pkt("pingreq", 0, NoCmd)>>, o)
                  /\ pingPending' = [pingPending EXCEPT ![i] = TRUE]
                  /\ UNCHANGED <<ping, cst, connFut, dying, finished, fail, link, sOut,
                                 lastId, fs, cfut>>
             ELSE /\ ping' = [ping EXCEPT ![i] = FALSE]
                  /\ Die(i, FALSE, cst[i], connFut[i])
                  /\ UNCHANGED <<pingPending, toBroker>>
  /\ UNCHANGED <<proc, connack, toClient, bound, svcVars, delivered, ackedC, sentBy>>

PingerExitSkipped(i) == FALSE

PingerExit(i) ==
  /\ ping[i] /\ dying[i]
  /\ ping' = [ping EXCEPT ![i] = FALSE]
  /\ UNCHANGED <<cst, connFut, proc, connack, pingPending, dying, finished, fail, link, toBroker,
                 toClient, storeVars, svcVars, delivered, ackedC, sentBy>>

-----------------------------------------------------------------------------
(* The broker reads the next packet of connection i (data written before   *)
(* the client closed still arrives) and answers while the connection is    *)
(* up: a Connack accepting or refusing (then closing), an acknowledgement  *)
(* per request, a Pingresp; it closes on a DisconnectPacket.               *)
Answer(t) == CASE t = "pub1" -> "puback" [] t = "sub" -> "suback"
               [] t = "unsub" -> "unsuback" [] t = "pingreq" -> "pingresp"
BrokerRead(i) ==
  LET p == Head(toBroker[i])
      up == link[i] = "up"
  IN
  /\ toBroker[i] # <<>> /\ link[i] \in {"up", "down"}
  /\ toBroker' = [toBroker EXCEPT ![i] = Tail(@)]
  /\ delivered' = IF p.cmd = NoCmd THEN delivered ELSE delivered \cup {p.cmd}
  /\ \/ /\ p.type = "connect"
        /\ \E ok \in BOOLEAN :
             /\ toClient' = IF up THEN [toClient EXCEPT ![i] = Append(@, Connack(ok))]
                                 ELSE toClient
             /\ link' = IF up /\ ~ok THEN [link EXCEPT ![i] = "eof"] ELSE link
     \/ /\ p.type \in {"pub1", "sub", "unsub", "pingreq"}
        /\ toClient' = IF up THEN [toClient EXCEPT ![i] = Append(@, Pkt(Answer(p.type), p.id, p.cmd))]
                            ELSE toClient
        /\ UNCHANGED link
     \/ /\ p.type = "pub0"
        /\ UNCHANGED <<toClient, link>>
     \/ /\ p.type = "disconnect"
        /\ link' = IF up THEN [link EXCEPT ![i] = "eof"] ELSE link
        /\ UNCHANGED toClient
  /\ UNCHANGED <<cst, connFut, proc, connack, ping, pingPending, dying, finished, fail,
                 storeVars, svcVars, ackedC, sentBy>>

(* The network fails, or the broker drops the connection.                 *)
LinkBreak(i) ==
  /\ link[i] = "up"
  /\ link' = [link EXCEPT ![i] = "eof"]
  /\ UNCHANGED <<cst, connFut, proc, connack, ping, pingPending, dying, finished, fail, toBroker,
                 toClient, storeVars, svcVars, delivered, ackedC, sentBy>>

-----------------------------------------------------------------------------
Client(i) ==
  \/ ProcReceiveError(i) \/ ProcConnack(i) \/ ProcConnackDone(i) \/ ProcAck(i) \/ ProcPingresp(i)
  \/ PingerTick(i) \/ PingerExit(i)
Reconnector ==
  \/ RcDelay \/ GetClient \/ GetClientWait \/ RcJoin
  \/ \E q \in Queues : DispatchRequest(q)
  \/ DispatchCall
  \/ DispatchStop \/ DispatchFail
Application ==
  \/ Start \/ StopCall \/ StopLock \/ StopReturn
  \/ \E c \in Cmds : UserCall(c) \/ UserEnqueue(c)

Next ==
  \/ Application \/ Reconnector
  \/ \E i \in Conns : Client(i) \/ BrokerRead(i) \/ LinkBreak(i)

(* Goroutines are scheduled fairly and timers fire: the user goroutine     *)
(* blocked in a queue send, Stop, the reconnector (whose backoff and       *)
(* connect timeout always expire), the dispatcher's select, and the        *)
(* Clients' processors and pingers once their tomb dies. The broker reads  *)
(* and answers what reaches it. Nothing is assumed of the application's    *)
(* calls or the network, which may break a connection at any time.         *)
Fairness ==
  /\ \A c \in Cmds : WF_vars(UserEnqueue(c))
  /\ WF_vars(StopLock) /\ WF_vars(StopReturn)
  /\ WF_vars(RcDelay) /\ WF_vars(GetClient) /\ WF_vars(GetClientWait) /\ WF_vars(RcJoin)
  /\ \A q \in Queues : WF_vars(DispatchRequest(q))
  /\ WF_vars(DispatchCall)
  /\ WF_vars(DispatchStop) /\ WF_vars(DispatchFail)
  /\ \A i \in Conns : /\ WF_vars(ProcReceiveError(i)) /\ WF_vars(ProcConnack(i))
                      /\ WF_vars(ProcConnackDone(i))
                      /\ WF_vars(ProcAck(i)) /\ WF_vars(ProcPingresp(i))
                      /\ WF_vars(PingerExit(i)) /\ WF_vars(BrokerRead(i))

Spec == Init /\ [][Next]_vars /\ Fairness

-----------------------------------------------------------------------------
Packet == [type : {"connect", "connack", "pub0", "pub1", "sub", "unsub", "puback",
                   "suback", "unsuback", "pingreq", "pingresp", "disconnect"},
           id : 0..MaxId, cmd : Cmds \cup {NoCmd}, ok : BOOLEAN]
IsMap(f, D, R) == DOMAIN f \subseteq D /\ \A k \in DOMAIN f : f[k] \in R

TypeOK ==
  /\ started \in BOOLEAN /\ svcDying \in BOOLEAN
  /\ mutex \in {"free", "stop"} \cup Cmds
  /\ call \in [Cmds -> {"idle", "enqueue", "done"}]
  /\ \A q \in Queues : Len(queues[q]) <= QueueCap /\ Range(queues[q]) \subseteq Cmds
  /\ stopPc \in {"idle", "lock", "wait", "done"}
  /\ rc \in {"off", "delay", "dial", "await", "closing", "dispatch", "call", "ending", "exited"}
  /\ calling \in Cmds \cup {NoCmd} /\ (rc = "call") = (calling # NoCmd)
  /\ cur \in 0..MaxConns
  /\ cst \in [Conns -> Range(States)]
  /\ connFut \in [Conns -> {"none", "pending", "accepted", "denied", "canceled"}]
  /\ connack \in [Conns -> {"idle", "accepted", "refused"}]
  /\ link \in [Conns -> {"none", "up", "eof", "down"}]
  /\ \A i \in Conns : Range(toBroker[i]) \cup Range(toClient[i]) \subseteq Packet
  /\ IsMap(sOut, 1..MaxId, Cmds) /\ IsMap(fs, 0..MaxId, Cmds) /\ lastId \in 0..MaxId
  /\ cfut \in [Cmds -> {"none", "pending", "completed", "canceled"}]
  /\ bound \in [Cmds -> BOOLEAN]
  /\ delivered \subseteq Cmds /\ ackedC \subseteq Cmds /\ sentBy \in [Cmds -> 0..MaxConns]

(* The application's futures behave as Requests promises (spec 4.4, 4.7):  *)
(* created pending by Publish/Subscribe/Unsubscribe, settled once, and      *)
(* completed only after the broker received the request (QoS 0: on write). *)
(* Breaks if an acknowledgement read by a processor completes a future      *)
(* stored under a reused packet id, or a bound future changes its outcome.  *)
R == INSTANCE Requests WITH status <- [c \in Cmds |-> UserStatus(c)]
RequestsRefined == R!Spec

(* Stop returns: the reconnector leaves its backoff, its connect wait and  *)
(* the dispatcher once the tomb dies, and end's tomb.Wait is reached, so   *)
(* the Stop caller is released (service.go Stop, reconnector).             *)
StopReturns == stopPc = "lock" ~> stopPc = "done"

(* A lost connection is noticed: while the dispatcher serves a Client      *)
(* whose connection is closed or broken, its processor's die closes the    *)
(* fail channel and the dispatcher returns to reconnect (or exits).        *)
ConnectionLossNoticed ==
  \A i \in Conns : (rc = "dispatch" /\ cur = i /\ link[i] # "up") ~> rc \notin {"dispatch", "call"}

(* Service's documentation: "Once the services is stopped all waiting     *)
(* futures get canceled" (service.go:84). Stop only kills the tomb, so     *)
(* requests still queued keep their futures pending; so does a request    *)
(* whose Client stored its future after die's cleanup had canceled the     *)
(* store (client.go:228 after :725, no common mutex).                      *)
StoppedRequestsSettled ==
  stopPc = "done" => \A c \in Cmds : UserStatus(c) # "pending"

(* spec 4.9: the future store survives reconnects "so in-flight user      *)
(* futures complete on the next connection if the broker acknowledges     *)
(* them". A request whose acknowledgement a later Client's processor reads *)
(* has been canceled by the earlier Client's cleanup (service.go:371).     *)
AckedRequestCompleted ==
  \A c \in Cmds : c \in ackedC /\ bound[c] => UserStatus(c) = "completed"
=============================================================================
