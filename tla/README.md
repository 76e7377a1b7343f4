# TLA+ models of gomqtt

This directory holds TLA+ models of the gomqtt MQTT library (`src/`), the
TLC configurations that check them, and `PROJECT.json`. That file records the
components, the runs, the mutants, which source lines each definition models,
the findings and the hazards.

## The system

| Part | Source | Role |
|---|---|---|
| Broker connection engine | `src/broker/client.go` | One `Client` per accepted connection. Three goroutines run under one tomb: `processor` (reads packets and runs the handlers), `dequeuer` (takes messages from the backend) and `sender` (writes acks and messages). When all three have returned, `cleanup` publishes the will and calls `Terminate`. |
| Session store | interface in `src/broker/client.go:17-60` | Stores the outgoing and incoming packets of unfinished QoS 1/2 flows by packet id. Also holds `NextID`, the will, and the subscriptions. There is no implementation under `src/`. |
| Backend | interface `src/broker/client.go:68-142`, tests `src/backend_spec.go` | `Setup` returns a session and `resumed`. `Dequeue` returns the next message with an asynchronous `Ack`, before which the backend keeps it. `Publish` takes an `Ack` callback. `Terminate` drops a clean session. |
| Client connection engine | `src/client.go` | The remote end. `Connect`, `Publish`, `Disconnect` and `Close`, one processor goroutine running the packet handlers, a future per request, and a pinger. |
| Service supervisor | `src/service.go` | Reconnects the client with backoff. Dispatches queued Publish/Subscribe/Unsubscribe commands. Shares one session and one future store across clients. |
| Future | `src/future_test.go` | A one-shot result with completion, cancellation and timeout. Only its tests are under `src/`. |
| Packet codec, transport | `src/packet`, `src/server_test.go` | Byte encoding and network I/O. |

How the parts interact:

- The broker `Client` and the remote `client.go` exchange packets over one connection.
- Packet ids and the stored packets of each side let a persistent session resume an unfinished QoS 1/2 flow when the client reconnects. At reconnect each side resends its stored packets in id order.
- The backend calls its acks from its own goroutines. The broker therefore bounds the number of flows in progress:
  - `publishTokens` (ParallelPublishes) bounds inbound flows awaiting a backend ack.
  - `dequeueTokens` (ParallelDequeues) bounds outbound flows awaiting the client.
  - `outgoing` has capacity PP+PD.

## Modules

### `BrokerClient.tla`: broker engine, session, backend and remote client

State:

- **Broker goroutines.** `proc`, `deq` and `snd` are the program points of the three goroutines, and `deqMsg` is the message the dequeuer holds. `dying` is the tomb's Dying signal. `closed` means the connection was closed by the broker. `cleaned` means `cleanup` has run.
- **Pools and queues.** `pubTokens` and `deqTokens` are the two channels used as token pools, kept as counters. `outq` is the `outgoing` channel. `pendingAcks` holds the acks whose backend `Ack` callback has not run yet.
- **Connection.** `state` is the client state. `conn`, `connClean` and `connWill` are the connection number, its clean-session flag and whether its Connect carried a will.
- **Network.** `inbox` is the packets on the way to the broker and `wire` the packets on the way to the client. `peerGone` means the client side closed or lost the connection.
- **Session store.** `sessionExists`, `sOut` and `sIn` (id ↦ entry), `sWill` (the connection that stored the will), `lastId` (the `NextID` cursor) and `sSubs` (the stored subscriptions).
- **Backend.** `bq` is the backend's queue for this client. `inflight` is the set of messages `Dequeue` returned whose `Ack` has not been called; the backend keeps them, and `Terminate` hands them back to the queue. `pubCount` counts calls to `backend.Publish` per message. `willsOut` records the wills published. `bSubs` is the set of filters the backend has the client subscribed to.
- **Remote client.** `peerUp`, `pOut`, `pIn`, `pSent` and `got` are the remote `client.go`'s connection flag, session store and delivery record. `pPing` is its tracker's pending ping. `pSubs` (ghost) is the set of filters it got a Suback for and has not asked to unsubscribe since.

Actions. Each action models one handler or one step of a goroutine, with all of its effects; `PROJECT.json` maps each to its lines.

- `ProcessConnect` is `processConnect`. It covers the rejection path, session `Setup` (fresh or resumed), saving the will, filling the token pools, the Connack, the replay of the stored outgoing packets and the resubscription of the stored subscriptions (`Resubscribe`).
- `ProcessPublishQos0/1/2`, `ProcessPubrel`, `ProcessPubackAndPubcomp` followed by `ReturnDequeueToken`, `ProcessPubrec`, `ProcessSubscribe`, `ProcessUnsubscribe`, `ProcessPingreq` and `ProcessDisconnect` are the processor's handlers. `ProcessorStop` is the loop's exits.
- `DequeuerAcquire/Dequeue/Enqueue/Stop` are the dequeuer's loop. With `Faults`, `Dequeue` may return an error (`DequeuerDequeueFails`), and `SendMessage`'s `SavePacket` may fail before the Ack is called; both `Die` (close the connection and kill the tomb). `BackendAck` is the ack closures that `processPublish` and `processPubrel` hand to the backend. `SendAck` and `SendMessage` (with `SenderReturnToken`) and `SenderStop` are the sender's loop.
- `Cleanup` runs once every goroutine has exited. Its `Terminate` unsubscribes the client from the backend. `Close` is `Client.Close`.
- `Peer*` actions are the remote client's `Connect`, `Publish`, `SubscribeMultiple`/`UnsubscribeMultiple` (`PeerRequest`, one at a time under a fixed packet id `CtlId`), pinger, `Disconnect` and packet handlers. `ConnectionLost` is a read error or timeout on either side.

Connections of one client id follow one another: a new `PeerConnect` is enabled only after the previous broker `Client` has been cleaned up. Two live `Client`s of one id (take-over) are not modelled; see the end of this file.

A short list of spec-modelled parts, for code that is not in the repository:

- `NextId` follows the spec's session store. It is cyclic from the last id and skips ids still held. The interface cannot report exhaustion.
- Backend `Setup` follows `backend_spec.go`. A session that exists is resumed, and a clean request then starts it empty.
- The backend's queue follows the `Backend` interface comments (`src/broker/client.go:120-141`). `Dequeue` hands out a message that stays the backend's until its `Ack` says it is "safe to be deleted from the queue". `Terminate` puts back what was not acked. No backend implementation is in the repository.

`MCBrokerClient.tla` fixes the messages as model values. The remote client publishes `p1` (QoS 1) and `p2` (QoS 2), and the backend queue holds `b1` (QoS 1) and `b2` (QoS 2). It also defines QoS 0 variants, empty sets, and one topic filter `f1` with the three control requests.

### `Delivery.tla`: what the broker promises a subscriber

`Delivery` is the abstract specification of the outbound QoS flows (spec 4.6.7 and 4.7). `pending` is the set of messages still owed to the subscriber and `count` the number of times each was handed to the application. `Deliver(m)` settles a pending message, and may repeat it for QoS 1 only. `Drop(S)` loses pending messages at once, QoS 0 only. So a QoS 1 message arrives at least once, a QoS 2 message exactly once, and a QoS 0 message at most once.

`BrokerClient` implements it (`DeliveryRefined`), with `count` mapped to the remote client's `got` and `pending` to `Owed`. A message is owed while `got` is 0 and it is still on its way:

- in the backend's queue or `inflight`;
- in the session's `sOut`;
- in the remote client's Incoming store `pIn`;
- for QoS 0 only, as a publish on the wire.

A QoS 1/2 publish on the wire that the session no longer holds is not counted, because it is lost with the connection and nothing resends it.

### `Service.tla`: the Service, its Clients and their futures

`Service.tla` composes `service.go` with the `client.go` engine of each connection attempt, the shared session and future store, and a small broker at the far end of each connection.

State:

- **Service.** `started` and `svcDying` (the tomb's Dying) are the Service's flags. `mutex` is who holds the Service mutex, `call` is each application request's progress through Publish/SubscribeMultiple/UnsubscribeMultiple, `queues` is the three command channels, and `stopPc` is the Stop caller's program point. `rc` is the reconnector's program point (delay, dial, await, dispatch, call, closing, ending, exited), `cur` is the connection attempt in progress, and `calling` is the request the dispatcher is handing to the Client.
- **Clients, one per attempt `i`.** `cst` is `c.state` and `connFut` the connect future. `proc` and `ping` are the processor and pinger goroutines, and `pingPending` is the tracker's unanswered ping. `dying` is the Client tomb, `finished` the `sync.Once` of `die`, and `fail` the attempt's fail channel. `link` is the connection (up, eof after a break or a broker close, down after the client closed it). `toBroker` and `toClient` are its two directions.
- **Shared store.** `sOut` and `lastId` are the outgoing session and its packet id cursor. `fs` is the future store (id ↦ request). `cfut` is the Client future of each request and `bound` whether the dispatcher bound the application's future to it.
- **Ghosts.** `delivered` is the requests the broker has received. `sentBy` is the Client whose call stored each request's future. `ackedC` is the requests whose acknowledgement was read by the processor of a later Client than that one.

Actions:

- `Start`, `UserCall`/`UserEnqueue` (the mutex is taken, then the blocking send on a queue of capacity `QueueCap`, then the mutex is released), and `StopCall`/`StopLock`/`StopReturn` are the application's calls.
- `RcDelay`, `GetClient` (Connect: dial fails, the connect packet is written, or that write fails), `GetClientWait` (future.Wait: canceled, accepted, timeout or refused, then Close), `RcJoin` (end's tomb.Wait), `DispatchRequest`, `DispatchCall`, `DispatchStop` and `DispatchFail` are the reconnector, `getClient` and the dispatcher. The dispatcher's call to the Client is two steps. `DispatchRequest` takes a request from its queue and makes the Client's state check, which runs under `c.mutex`. `DispatchCall` runs the rest of the call (`Request`) and binds the returned future. `die` takes no client mutex, so a processor or pinger can die and cancel the store between the two steps.
- `Request` is Client.Publish/SubscribeMultiple/UnsubscribeMultiple, and `Disconnect` is Client.Disconnect. `End`, `Cleanup`, `CancelAll` and `Die` are end, cleanup and die, with die's cleanup and Callback run once per Client.
- `ProcReceiveError`, `ProcConnack`, `ProcConnackDone`, `ProcAck` and `ProcPingresp` are the processor, and `PingerTick`/`PingerExit` the pinger. `processConnack` reads `c.state` without the client mutex, so it is two steps: `ProcConnack` checks that the state is connecting, and `ProcConnackDone` sets it and completes the connect future. A connect timeout's `Close` (`End`) can run in between. The closed Client is then set connected again, and its replay on the closed connection dies. A future that is already canceled stays canceled (`Completed`). A refusal's `die` and the completion of the connect future are one step. In between, `getClient` could only time out and `Close`, which it also does on the denied future.
- `BrokerRead` and `LinkBreak` are the environment. The broker answers each packet while the connection is up, and it may refuse a connection. The network may break at any time, and a write on a broken connection may be accepted and lost or may fail.

### `Requests.tla`: what the futures promise

`Requests` is the abstract specification of the application's futures. A request is issued pending. It is completed only after the broker has received it, except a QoS 0 publish, which completes when written. A cleanup cancels any set of pending futures at once, and a settled future never changes. `Service` instantiates it with each request's status taken from the Service (`UserStatus`: the bound Client future, or pending while queued). `RequestsRefined == R!Spec` is checked where two requests can share a packet id across Clients (`service_stale_ack`), and it fails there.

`MCService.tla` fixes the requests as model values `r1`, `r2` and `r3` and defines their kinds.

## Runs

| Run | cfg | Expect | What it shows |
|---|---|---|---|
| broker_core | `BrokerCore.cfg` | pass | Covers two connections of a persistent session, every QoS 1/2 flow in both directions, lost connections and reconnect replay. The outbound path implements `Delivery` (`DeliveryRefined`). A QoS 1/2 message is never lost while the backend (queued or unacked), the session or the client holds it, across lost connections, and when `Dequeue` or `SavePacket` fails. A QoS 2 message reaches the Callback at most once. Inbound flows never exceed ParallelPublishes (`InboundFlowsBounded`). About 1.34 M states, about a minute. |
| broker_liveness | `BrokerLiveness.cfg` | pass | Two connections of a persistent session, with a QoS 0 message in each direction and a remote client that subscribes to and unsubscribes from `f1` and pings. Once either side closes, or `Dequeue` fails, all three goroutines return and cleanup runs (`ClosedLeadsToCleanup`). While a connection is up, the backend holds every subscription the client was acknowledged, although `Terminate` dropped it when the previous connection ended (`SubscriptionsHeld`). About 128 k states, under a minute. |
| broker_token_deadlock | `BrokerTokenDeadlock.cfg` | violation | Finding. After a resume, a Puback for a resent message returns a dequeue token that was never taken. The processor then blocks on the full pool and cleanup never runs. |
| broker_stale_will | `BrokerStaleWill.cfg` | violation | Finding. A resumed session keeps an earlier connection's will and publishes it when a later connection without a will ends abnormally. |
| broker_qos2_redelivery | `BrokerQos2Redelivery.cfg` | violation | Finding. A resent Pubrel hands a QoS 2 message to the backend a second time. |
| client_pubrel_unanswered | `ClientPubrelUnanswered.cfg` | violation | Finding. After a lost Pubcomp, the client ignores the broker's resent Pubrel (no stored publish, so no Pubcomp), and the broker's QoS 2 flow never completes. Spec 4.7 says the client answers a Pubrel with a Pubcomp. The broker side does the same, but there the spec itself says to ignore it. |
| service_core | `ServiceCore.cfg` | pass | Two connection attempts of a persistent session, with a QoS 1 publish and a QoS 0 publish. `Stop` always returns (`StopReturns`). A dispatcher whose Client lost its connection always goes back to reconnecting (`ConnectionLossNoticed`). Both hold also when a connect timeout's `Close` runs in the middle of `processConnack`, and when the Client dies in the middle of a call. About 39 k states, under a minute. |
| service_keepalive | `ServiceKeepAlive.cfg` | pass | One attempt of a clean session with the pinger running (Pingreq, Pingresp, MissingPong, failed Pingreq), and the two publishes of `service_core`. `StopReturns` and `ConnectionLossNoticed` hold here too. `end`'s tomb.Wait now also needs the pinger to leave on the dying tomb, and the pinger's MissingPong die is a second way a lost connection is noticed. About 19 k states. |
| service_stop_pending | `ServiceStopPending.cfg` | violation | Finding. `Stop` returns while a queued request's future is still pending. The Service documentation says all waiting futures get canceled. The model also reaches a second way to the same state: a Client dies between its state check and `futureStore.put`, and the request's bound future escapes every cancel (`src/client.go:228`). TLC reports the shorter, queued case. |
| service_ack_after_cancel | `ServiceAckAfterCancel.cfg` | violation | Finding. The broker acknowledges a request, and the next Client's processor reads the acknowledgement, but the failing Client's cleanup had already canceled its future. Spec 4.9 says such futures complete. Later cleanups cancel the same futures again, because they stay in the shared store. |
| service_stop_blocked | `ServiceStopBlocked.cfg` | violation | Finding. While offline, a Publish blocks on a full queue holding the Service mutex, and `Stop` never returns. |
| service_stale_ack | `ServiceStaleAck.cfg` | violation | Finding. A Publish whose write failed only runs `cleanup(err, false)`, so the old Client's connection and processor stay alive. With a clean session, a later request on the next Client reuses packet id 1. A stale Puback read by the old processor then deletes its stored packet and completes its future, although the broker never received it. |

Each passing property has a mutant in `PROJECT.json`: a plausible bug in one mapped definition that TLC catches under the run's cfg.

- `NextIdStale` hands out a held id. After the reconnect replay the old message is left only on the wire, and it is lost with the next connection.
- `PeerPubrelReceivedKeepsIncoming` makes the remote client keep the Incoming entry after a Pubrel, so a resent Pubrel delivers a QoS 2 message twice.
- `ProcessPubrelNoToken` lets a Pubrel skip the publish token.
- `DequeuerStopNotInDequeue` makes the dequeuer ignore Dying while it waits.
- `ReturnDequeueTokenUnbounded` puts a token back without the pool's capacity.
- `StoredQos0` stores a QoS 0 publish (id 0) in the session, an off-by-one in `qos >= 1`.
- `RcDelayNoDying` makes the backoff sleep ignore Dying.
- `DieNoCallback` makes `die` skip the Callback that closes `fail` (in both Service runs).
- `PingerExitSkipped` makes the pinger's select ignore Dying, so `end`'s tomb.Wait never returns.
- `ResubscribeSkipped` makes `processConnect` skip the resubscription of the stored subscriptions.

### Bounds

- **ParallelPublishes = ParallelDequeues = 1.** The pools can then be full or empty, and the blocking on a full pool (the deadlock) is reached.
- **MaxId = 2.** This is enough ids for both broker messages to be in flight, and it makes the `NextID` wrap-around reachable. Id exhaustion is not reached.
- **MaxConns = 2.** The second connection resumes the session of the first, which is where replay, stale wills and redelivery happen. The liveness run also uses two connections, so that subscriptions must survive a `Terminate` and a resume. Its messages are QoS 0: a QoS 1/2 message resent at the reconnect leads to the token surplus of the deadlock run, and more messages take it past five minutes.
- **Two messages per direction, QoS 1 and QoS 2.** The two messages can be in different phases of their flows.
- **CleanChoices = {FALSE}.** Clean sessions only remove state. Persistent sessions are where the hazards are.
- **Faults = TRUE** in `broker_core` and `broker_liveness`, and FALSE in the violation runs, whose counterexamples need no failing call.
- **WillChoices = {FALSE}** in `broker_core` and `broker_liveness`. A will changes none of the message flows those runs check, and it multiplies their states about four times. `broker_stale_will` runs with wills.
- **One filter, one control request at a time.** Subscribe, unsubscribe and resubscribe of one filter is all `SubscriptionsHeld` distinguishes; the filters of different requests do not interact in these handlers.

For `Service`:

- **QueueCap = 2** stands for the capacity of 100. There is room for every request of the run, except in `service_stop_blocked`, where QueueCap = 1 with two publishes makes the queue full.
- **MaxConns = 2.** Two attempts are enough for a request to be in flight across a reconnect, which is where shared futures, stale acks and replay matter. After the last attempt the broker counts as unreachable.
- **Two publishes, QoS 1 and QoS 0,** in `service_core`. The two publish paths differ in when the future completes and whether the session stores the packet. Subscribe and unsubscribe requests follow the QoS 1 path through the same `Request`/`ProcAck` actions; the violation runs use them. The pinger multiplies the states: with two attempts it passes half a million states with one request, and the liveness check then takes minutes. `service_keepalive` therefore runs one attempt. The reconnect paths are covered by `service_core`.

### Fairness

- Weak fairness is assumed for every broker goroutine step, the backend's `Ack` calls and `Cleanup`. Each is a goroutine the Go scheduler keeps running, and the backend contract requires the ack to be called.
- A failing `Dequeue` (`DequeuerDequeueFails`) has no fairness, since nothing forces a backend to fail. The failing `SavePacket` is a disjunct of `SendMessage`, whose fairness never forces it: the successful send is enabled whenever the failure is.
- There is no fairness for the remote client, which may stop sending at any time, or for the network, which may lose the connection. `ClosedLeadsToCleanup` therefore asks only that the broker finish once a close has happened.
- In `Service`, weak fairness is assumed for the goroutines that the code runs to completion: the blocked queue send, Stop, the reconnector (its backoff and connect timeout always expire), the dispatcher's select, and the Clients' processors and pinger exits. The stub broker reads and answers what reaches it (`BrokerRead`); without that no Connack ever arrives and no attempt gets past its connect timeout. Nothing is assumed of the application's calls, the network or the keep-alive timer.
- Deadlock checking is off. After the last allowed connection has been torn down, the system rightly has nothing left to do, and the Service's reconnector waits in its backoff.

## Not modelled

Seen while modelling, and not a run:

- The dispatcher drops a request whose Client call fails, so its future stays pending (`service.go:340`). The code marks this as "TODO: requeue".
- The broker ignores a resent Pubrel whose Incoming entry is gone, as spec 4.6.6 says.

Not modelled:

1. **Other broker error paths.** The errors of `Authenticate`, `Setup`, `SaveWill`, `AllPackets`, `Subscribe`, `Restored`, `Publish`, `LookupSubscription` and `DeletePacket` each `die` at one point of a handler. Each is one more point where the tomb dies and the connection closes, like the modelled `Dequeue` failure that `ClosedLeadsToCleanup` checks. Together they would multiply the states of `broker_core` past its time budget. The two modelled failures are the ones that sit between two steps of a message's custody. The `ExpectedConnect` check (`src/broker/client.go:284`) cannot be reached from the remote `client.go`, which always sends its Connect first.
2. **Take-over.** Two `Client`s of one id, where `Setup` closes the old one while its cleanup still runs. Whether the old cleanup can still read the shared session's will, or its sender save a packet after the new replay, depends on whether `Setup` waits for the old client's `Closed()`. That is up to a backend, and there is none in the repository, so a model would have to choose the answer.
3. **Incoming publishes in `Service`.** `processPublish`, `processPubrec` and `processPubrel` are modelled as `BrokerClient`'s remote end, where `DeliveryRefined` checks them across reconnects of a persistent session. In `Service` they would only reach the Message callback, which keeps no state.
4. **The subscription's QoS cap in `sendMessage`.** `LookupSubscription` may lower a message's QoS. The model sends every message at its own QoS, as when no stored subscription matches.

Out of reach:

- The packet codec and the transport are byte encoding and I/O. In the models, packets are records, and the network is two ordered sequences plus a loss action.
- `backend_spec.go` is a test suite for backends. Its `Setup` contract is used in `BrokerClient`.
- `future.go`, the session implementation and the keep-alive tracker are not in the repository and are modelled from the spec.
