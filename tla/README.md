# wrpc-go: specifications, model checking and proofs

wrpc-go is an RPC library in Go. A client draws a request id, writes a framed
packet on a pooled TCP connection and waits on a channel; a server splits the
stream into packets, runs a dispatcher per packet and writes the answer back;
an app starts servers and keeps them registered in etcd, where the clients
discover them. The repository has no tests and next to no comments, so the code
itself (`src/`) is the only reference: each definition here was written from it.

The module is `go 1.16` (`go.mod`): the variable of a `range` statement is one
for all iterations. That matters in `app.go`.

## 1. The system

```
 Client.Invoke ──► reqMap / respChan            tcpConn.invoke ──► dispatcher
      │  (ClientCall, RpcCall)   ▲                     ▲   (ServerInvoke)
      ▼                          │                     │
 sendRequest ─► connector ─► clientConn ══ TCP ══► tcpConn.handle ◄─ accept loop
      ▲         (Connector)     recv  (Framing)                    (TcpServer)
      │ (Lookup)                                                       ▲
 initConnect ─► connectors ◄─ EtcdDiscover ◄─ etcd ◄─ EtcdRegister ◄─ App.Run
                (Endpoints)                                 (App)

 Rpc (with RemoteCall): Client.Invoke and tcpConn.invoke together
 Exchange: the metadata map, the encoder and the error of a call, over both
```

| component | state | operations | what is hard | what makes it correct |
|---|---|---|---|---|
| Call table (`client.go` 21-27, 249-352, 531-544) | `requestId`, `reqMap`, one `respChan` per call, `rwLock` | `nextRequestId`, `Invoke`, `sendRequest`, `clientConn.invoke` | ids wrap in two atomic steps; a reader sends on a channel while it holds the mutex; the deadline races with the answer; an answer may overtake the return of `sendRequest`; retries | own response only, nothing lost, no panic and no block, no leaked entry, transmitted at most once |
| Connector (`client.go` 355-553) | `conns`, `idx`, `nextId`, and `running`, `rw` of every clientConn | `getConn`, `send`, `reconnect`, `recv`, `close`, `removeConn`, `connector.close` | a clientConn outlives its sockets: readers of an old and a new socket share `running` and `rw`; `close` is three steps | a usable connection is read; no socket without a reader; the pool is bounded; sockets close for a cause |
| Endpoint table (`client.go` 113-184, `internal/discovery`) | `connectors`, the watch channel shared by all clients of a process | `initConnect` and its goroutine, `updateConnector`, `Find`, `Watch` | stale and foreign lists; a failed `Find` looks like an empty list | fixed addresses stay; the table converges to the registry |
| Lookup (`client.go` 186-247, 309-353, generated `Broadcast` methods) | `connectors`, `idx`, `hasher`; the local `findType` and `key` | `nextConnector`, `findConnector`, `consistentHashConnector`, `GetAllEndpoints`, the attempts of `sendRequest` | `idx` outlives the list it counts; ring and table are asked in two sections; a broadcast works on an old list | turns are fair; `ErrConnectNotFound` is true; a broadcast answers for every address |
| Error codes, encoders, metadata (`util/uerror`, `encoder.go`, `meta.go`, `GetResponse`, the generated dispatcher and stubs) | the map of a context, `encMap`, the response | `ParseError`, `NewError`, `Meta.Set`, `GetEncoder` | contexts, and so maps, are shared by calls and handed on by service methods; errors change form at every hop | errors keep their code; bodies are decoded as they were encoded |
| Request handling (`server_tcp.go` 240-314) | `tick` (the slots), `respChan`, the context | `tcpConn.invoke`, its dispatcher goroutine | timeout against result; send on a closed channel; panics; a write without a deadline | slots are conserved; the reply is settled; requests end |
| Framing (`protocol.go`, `readBody`, the two read loops) | the read buffer | packing, splitting | packets cut and joined by `Read`; malformed headers | messages come whole, once, in order, without waiting for more traffic |
| TCP server (`server_tcp.go` 37-160) | `listen`, `running`, `doneChan`, `conns` | `Start` with its accept loop, `Stop` | `Start` listens before it locks; the loop reads `srv.listen` unlocked; `doneChan` is never renewed | no leaked listener; `Stop` is not an error; a running server is served |
| App (`app.go`, `internal/register`) | the goroutines of `Run`, the lease | `Run`, `loop`, `Register`, `KeepAlive` | shared range variable; dropped errors; lease expiry; death of the process | all servers are up or the process ends; registered servers stay registered; the dead leave |

How they interact: `sendRequest` asks the endpoint table for a connector and the
connector for a clientConn; the `recv` goroutine of a clientConn splits packets
and calls `clientConn.invoke`, which meets the waiting `Invoke` in `reqMap`. The
accept loop starts `handle`, which splits packets and starts `invoke` for each.
`App.Run` calls `Start` and `Register`; registration reaches clients through
etcd only. Every module below states at its top what it abstracts of its
neighbours: what one attempt of `sendRequest` may come to (ClientCall), that
data arrive or the peer breaks a socket (Connector), that a full frame is there
(ServerInvoke), that etcd changes or fails (Endpoints, App), that a list comes
and an attempt fails (Lookup). `Rpc` puts the table of the client and the
request handling of the server in each other's place.

`PROJECT.json` lists the hazards of the code line by line with the properties
that cover them.

## 2. Modules

| module | models | checked through | proofs |
|---|---|---|---|
| `RpcCall` | the abstract promise of `Invoke` | refinement | |
| `ClientCall` | the call table | `MCClientCall`, `MCRpc` | `ClientCallProof` |
| `RemoteCall` | the abstract promise of client and server together | refinement | |
| `Rpc` | ClientCall and ServerInvoke composed | `MCRpc` | `RpcProof` |
| `Connector` | one connector and its pool | `MCConnector` | `ConnectorProof` |
| `ServerInvoke` | request handling | `MCServerInvoke`, `MCRpc` | `RpcProof` |
| `Exchange` | error codes, encoder names and the metadata maps that carry them | `MCExchange` | `ExchangeProof` |
| `Framing` | one direction of one connection | `MCFraming` | `ConnectorProof` |
| `Endpoints` | endpoint tables and the etcd discoverer | `MCEndpoints` | `EndpointsProof` |
| `Lookup` | the choice of connectors, attempts and broadcasts | `MCLookup` | `LookupProof` |
| `TcpServer` | Start, Stop, accept loops | `MCTcpServer` | `TcpServerProof` |
| `App` | Run, loop and the etcd register | `MCApp` | `AppProof` |

A section of code under one mutex is one action; code outside is cut wherever
another goroutine can tell the difference. Some details:

* **ClientCall.** A member of `Calls` is one execution of `Invoke`, and its
  `respChan` is named by it. `Register`, `Withdraw` (the delete-and-close of the
  two early exits) and the look-up of the reader are sections under `rwLock`.
  The reader's section is two actions, `LookUpKnown` and `Deliver`, since it
  sends on a channel in between. `Deliver` is enabled only when the send
  neither blocks nor panics; `ChannelSafe` says that this is always so, so
  nothing is hidden by the guard. `WriteFails` on the last attempt goes on to
  wait, as the code does: it keeps `cerr`, which is nil, in place of `serr`.
  `draws`, `drawNo`, `writes` and `answers` are history variables.
* **Connector.** Sockets are numbered by dial; `owner` is the clientConn a
  socket was dialled for, `rw` the socket a clientConn has now. `reader` walks
  through `recv` and its two deferred closes. Idle expiry is a choice whenever
  `reconnect` looks: the default `MaxIdleTime` of 7200000 is in nanoseconds, so
  that nearly every send finds its connection expired.
* **ServerInvoke.** `hasTimeout` is chosen once. No option of the library sets
  `invokeTimeout`, so FALSE is what a server built from this code has, and TRUE
  what the code is written for; the properties say which they are about. The
  response is written in a step of its own, for `conn.rw.Write` has no deadline:
  `stalled` are the requests whose peer reads no more while they are in it
  (`PeerStops`), and those stay there, timeout or not.
* **Rpc.** The state of both sides side by side. A request may arrive once it was
  written, a response once it was written, in any order and perhaps never, and
  several requests compete for the slots. Nothing else is shared: that is the
  network as the code uses it, since every `Write` is one packet. `RemoteCall`
  is what remains when ids, table and slots are hidden: what a caller was told,
  and whether, and with what result, its method was executed.
* **Exchange.** A map is a reference: `meta` gives the encode type that each map
  holds, a context names one, and the map of a request is passed on to the calls
  its method makes, which may use it as theirs. Such a call may come from a
  goroutine of the method: it may begin or end after the method returned and the
  request was answered. `Prepare` (the map is written) and `Send` (the map is
  read by `PacketRequest`) are two steps of `Invoke`, and `overwritten` records
  who wrote a map in between. An
  error is nil, plain, or a code; a response keeps besides its code the error
  that was the cause, as history. Ids, slots and panics are abstracted.
* **Framing.** A byte is a packet and a place in it; the four header bytes
  matter by the size they declare. Reads return any number of bytes.
* **Endpoints.** `Find` yields the list or nil, which the ticker applies like an
  empty list. One watch, of the first name asked for, serves all clients.
* **Lookup.** The list is a sequence of addresses, in which one may occur twice
  (`updateConnector` does not look for duplicates). Which node the ring gives
  for a key is a choice among those it holds. A lookup by turn or by address is
  one action, by hash two: the ring and the list are asked under the mutex one
  after the other. `recent`, `tables`, `told` and `listed` are history.
* **TcpServer.** A listener is named by the `Start` that opened it.
  `conns` is in the model and stays empty, as nobody calls `addConn`.
* **App.** Time is counted in ticks of the ten-second ticker, the lease is three.
  `CallStart` and `Panic` each read the shared range variable. A second Start of
  a server fails, on its address or on `running`, but for an HttpServer on port 0
  (`AnyPort`), which listens and serves a second time.

Definitions whose comment begins with `Variant` are deliberately faulty
versions of the definition next to them (a forgotten delete, a dropped guard,
an off-by-one). Nothing uses them in the specifications. Put in place of the
real definition each one makes TLC report the property it is meant to break,
which shows that the property can tell the difference.

## 3. Runs

The types of the variables are part of the inductive invariants that TLAPS proves
(section 5), so the runs spend nothing on them.

| run | instance | what it shows | states, time |
|---|---|---|---|
| `call_wrap` | 3 calls, 2 readers, `MaxInt32` = 2, 2 attempts, symmetry | safety of the table with ids that collide | 288 k, 15 s |
| `rpc` | 2 calls (one may expire), 1 reader, 2 ids, 1 attempt, 1 slot, panics | slots, dispatchers and replies of the server; the table implements `RpcCall`, client and server implement `RemoteCall`; calls return, although peers of the server may stop reading | 445 k, 166 s |
| `connector_expiry` | 2 senders, pool of 2, 3 dials, expiry, symmetry | no unread connection, no leaked socket, bounded pool, nothing closed and left in the pool | 3.9 M, 90 s |
| `connector_release` | 1 sender, pool of 2, 2 dials | broken sockets are released, closed connections leave | 17 k, 11 s |
| `invoke` | 2 requests, 1 slot, panics, peers that stop reading | requests and dispatcher goroutines end | 6.9 k, 4 s |
| `framing` | 3 packets with bodies of 1, 2 or 6 bytes, reads of up to 6, headers that declare 0 or 4 | splitting is exact and prompt | 184 k, 22 s |
| `endpoints` | 2 clients, 2 services, 2 addresses, 3 changes, 1 failure | tables follow the registry | 1.1 M, 117 s |
| `lookup` | 2 calls or broadcasts, 2 attempts, 3 lists of up to 3 of 2 addresses, symmetry | turns, `ErrConnectNotFound`, broadcasts | 801 k, 17 s |
| `exchange` | 3 calls, one shared context and one whose map is nil, 2 encoder names of which 1 is registered, symmetry | errors over two hops, encoder names | 4.7 M, 110 s |
| `server` | 3 Starts, 2 Stops, 1 connection, 2 failures of Accept | listeners, results, accept loops | 290 k, 28 s |
| `app` | 3 servers, one an HttpServer on port 0, lease of 3 ticks, 1 failed renewal in a row | start, registration, lease | 285 k, 55 s |
| `app_panic` | 2 servers | **violated**: see section 6 | |

Why the bounds are enough:

* Three calls over two ids make an id come round while its first holder waits,
  with a third call between; two readers are the least that contend for
  `rwLock`. All calls may expire, and a call whose deadline has not come is one
  without. `rpc` has no more calls than ids, which the refinement of `RpcCall`
  needs; one slot for two calls makes one of them wait, be refused, or wait for
  ever behind a panic or a write that does not end.
* Three dials let a clientConn be reconnected twice, or a second clientConn be
  added and one of the two be reconnected, so that three generations of readers
  meet. Two senders suffice for a race between `getConn` or `reconnect` and
  another `reconnect` on the same connection.
* Two requests over one slot: one waits while the other runs, which may panic, or
  write to a peer that stops reading, and leave the server wedged. What the numbers of requests and slots might change
  is proved for all of them.
* A body of six bytes needs two reads, bodies of one byte and two let a read end
  inside a header, at a packet's end and beyond it. Three packets put a whole
  packet, a rest and a successor in one buffer. A declared size of 0 or 4 is the
  lowest and the highest that `readBody` refuses.
* The name of one service is a prefix of the other's, one address is fixed and
  may be listed as well. The registry starts in any state; three changes give a
  stale list behind a fresh one, and one behind that.
* Lists of up to three connectors shrink and grow under `idx`, two callers take
  turns, and two attempts leave one for another kind of lookup. Three lists are
  an old one, one without the address, and one with it again.
* Three calls are the longest chain of nested calls that has a hop in its middle,
  and two calls with one context inside the method of a third. The codes 0 and
  500 are one that `Invoke` takes for a success and one that it does not.
* Three Starts: one that ends, one that follows it after a Stop, and one that
  overlaps. Two failures of Accept allow a temporary one before a final one.
* A lease of three ticks and one missed renewal are the code's thirty seconds
  and ten; three servers let two goroutines start one server while another is
  skipped. One of them on port 0 shows the single
  way in which that goes unnoticed.

`CHECK_DEADLOCK FALSE` is given where a system may rightly come to rest: all
calls have returned (or wait for ever, without a deadline), the bounds on dials,
packets or starts are used up, a process has died.

### Fairness

* ClientCall: weak fairness of each `Invoke` and each reader. Goroutines that
  can run do, dials and writes end, timers fire. Nothing is assumed of the peer.
* Rpc: that of ClientCall, and nothing of the server or of what is under way
  between the two. A call with a deadline returns all the same, and one without
  returns once its response is at a reader.
* Lookup and Exchange: none, for they have safety properties only.
* Connector: weak fairness of the readers and the goroutine of
  `connector.close`; none of senders or peers. A `Read` that has nothing to
  return is not enabled.
* ServerInvoke: strong fairness of the request goroutines, since Go serves the
  waiting senders of a channel in order, so that a goroutine that finds `tick`
  full again and again gets its turn; weak fairness of dispatchers (service
  methods return or panic) and of deadlines. A write ends unless its peer stops
  reading; `PeerStops` has no fairness, so that a peer may stop at any write or
  none.
* Framing: weak fairness of the reader, and bytes arrive.
* Endpoints: weak fairness of the goroutine of each client; its ticker fires
  again and again. The watch and etcd get none: convergence rests
  on the ticker alone. Failures are bounded, so requests succeed in the end.
* TcpServer: weak fairness of the goroutine of each Start; nobody has to call
  Start or Stop, to connect or to finish.
* App: weak fairness of the goroutines of Run, of Run itself and of time.

## 4. What the checks show, in words

* The ids of two calls that overlap differ unless `MaxInt32` draws lie between
  them, although the wrap is a compare-and-swap followed by an add. When they do
  collide a call may get the other's answer or lose its entry, yet no channel is
  sent on after it was closed, none is closed twice, and no entry leaks.
* A response that arrives always finds its call, even before `sendRequest` has
  returned or as the deadline passes. With a deadline every `Invoke` returns.
  Without one, the failed last write noted above makes it wait for ever; only
  calls whose answer arrived are promised to return (`CallsReturn`).
* A caller is never misled about an execution (`KeepsService`): told that the
  request was not sent, or that the encoder is unknown, it can send it elsewhere
  without the risk of a second execution; told a result, it is that of its own
  and only execution. A timeout, on either side, says nothing: the method may
  run before, after or not at all. In particular `ErrRequestFull` does not
  mean that the request was refused: it is also the answer of a request whose
  dispatcher was too slow.
* While the list of connectors stays as it is, any number of picks in a row up to
  its length takes different positions, whoever picks and wherever an update
  has left `idx` (`NextIsFair`). `ErrConnectNotFound` ends a call with attempts
  left, and is true of some moment of the call (`NotFoundIsTrue`); by hash it
  needs an update between the two sections.
* An error crosses any number of hops with its code, a plain one becomes 502 at
  the first hop and stays so. What is lost is a code of 200, or of 0 or less:
  `Invoke` takes it for a success (`OutcomeTravels`).
* A request names the encoder of its body unless another `Invoke` with the same
  context wrote the map between the two steps; then it names the encoder of that
  one (`DecodedAsEncoded`). The exception is real: calls that run at once must
  not share a context with metadata, and a context handed to a service method
  has metadata, which goroutines of the method may go on using after it
  returned. The map that is packed into a response may be written at the same
  time; no property forbids it, for nothing in the code prevents it, and the
  client does not look at that map.
* A clientConn that is marked running has a reader on its present socket, and
  no socket is abandoned, through every interleaving of reconnects with the
  closes of earlier readers. A reconnected clientConn is closed by the end of an
  earlier socket (`ClosedForCause` is stated per clientConn for that reason).
* Two things keep a request, and its slot, for good: a peer that stops reading
  while the response is written, for that write has no deadline, and, without an
  invoke timeout, a panic of its dispatcher. `FinishedUnlessWedged` says that
  nothing else does: with a timeout a request that waits for a slot is finished
  unless its own write is stuck, and without one unless it is stuck itself or
  stuck ones hold every slot.
* Run starts every server or the process ends (`AllUpOrDead`), although its
  goroutines may start one server twice and another never. The exception is an
  HttpServer on port 0, which serves twice while the other stays down.
* A connection is accepted, reset by `Stop`, or left by a listener that the code
  abandons: the one of a Start that returned `ErrServerIsRunning`, or one whose
  loop gave up after a failure, which after any earlier `Stop` means any failure.
* Registered servers stay registered as long as the renewals that fail in a row
  leave one tick of the lease. Beyond that nothing registers them again.

## 5. Proofs

All theorems are about a specification of section 2 for every value of its
constants that satisfies the named assumption of the module, and are checked by
TLAPS to the last leaf.

* **ClientCallProof** proves `CallTableInv` inductive and derives
  `WrittenAtMostOnce`, `IdsFarApart`, `ChannelSafe`, `EntriesAreLive`,
  `OwnResponse` and `Reachable`. The parts: `WritesInv` ties the number of
  writes to the place in `sendRequest`. `IdsInv` is about the lag, draws minus
  counter: it is constant along a lap and grows by at least `MaxInt32` when the
  counter wraps, so equal ids of different draws lie at least that far apart;
  the step between the compare-and-swap and the add needs no case of its own,
  because an add keeps the lag whatever the counter is. `TableInv` says where a
  channel is open, that an entry leads to a call that is still in `Invoke` with
  an empty channel, that the reader with the lock owns a channel that is out of
  the table, and that what is handed over carries the id of the call that gets
  it. `Reachable` is then inductive relative to it, with the case of a shared id
  as its only exception; a collision, once there, stays.

  Its last section proves that the table implements `RpcCall` (`KeepsPromise`)
  for finitely many calls of which there are at most `MaxInt32`. `CountInv`
  counts the draws by the calls that have an id, so that no two calls are
  `MaxInt32` draws apart and, by `IdsFarApart`, none collide; then each action
  is a step of `RpcCall` or leaves its variables alone.
* **RpcProof** first proves `SlotsConserved`, `DispatchersBounded` and
  `SettledReply` of the server alone, whoever calls it, from `ServerInv` in four
  parts:
  types; `tick` is the number of requests that hold a slot; which slot, response
  and dispatcher a request has at each stage; and that a dispatcher ends once,
  and a response agrees with it. Then it composes. Every step of Rpc is a step of
  ClientCall, of ServerInvoke, or a stutter of either (`ClientKeepsSpec`,
  `ServerKeepsSpec`), so that both invariants hold of the composition. Between
  the two lies `LinkInv`: only a request that was written is handled, and only a
  response that was written is at a reader, in a channel or returned. Since no
  ids collide, the response an `Invoke` has got is its own, the server wrote it,
  and by `SettledReply` it agrees with what the dispatcher did, then and later.
  With that each step is one of `RemoteCall`: `TellStep` maps the returns of
  `Invoke`, `ExecuteStep` the ends of dispatchers. Hence `RpcKeepsService`, for
  any number of slots, readers and attempts, and finitely many calls up to
  `MaxInt32`, which is where ids begin to repeat.
* **ConnectorProof** proves the connector correct for any number of senders and
  dials and any limit of the pool. `ConnectorInv` is what the interleavings of
  readers of old and new sockets leave true: `SocketsInv` (a dialled socket has
  an owner and a reader, and a reader that exited has closed its socket),
  `ConnsInv` (`rw` of a clientConn is a socket of its own, and while it is
  `running` the reader of *that* socket has not reached its close), `UsersInv`
  (senders and the closing goroutine hold connections that exist), and `CauseInv`
  (whatever closes, or is marked as not running, has a cause that will not go
  away). `running` is shared by all readers a clientConn ever had; `ConnsInv` is
  inductive because every one of them clears it before it goes on, and only
  `reconnect`, which installs a new reader with it, sets it.
  `PoolWithinLimit` rests on what the loop of `removeConn` computes: no
  new element, no duplicate, not the connection it removes, and no longer list.
  So does `ClosedConnIsLeaving`: of the goroutines that close a clientConn, the
  one that found it running goes on to `removeConn`, and lets go of it there
  only.

  Its last section is about Framing, the stream on a socket, for any sizes of
  packets and reads. (The names of Framing's specification have its prefix so
  that both can be read together.)
  `StreamInv`: the bytes not yet handed over, `buf` followed by `wire`, form a
  chain, in which each byte is the next of its packet or, after the last one, the
  first of the next packet; the chain begins where the last message ended and,
  unless the connection was cut, ends with the last byte written. Writing
  appends, cutting takes a prefix, reading moves the boundary and splitting
  drops the head. That the bytes up to the declared size are exactly one packet
  (`HeadPacket`) follows along the chain. Hence `InvokedInOrder`.
* **ExchangeProof** proves `OutcomeTravels` and `DecodedAsEncoded` for any number of calls and hops. `ErrorsInv`: a result
  says the cause or what one hop makes of it, a response what one hop makes of
  it; that one hop more changes nothing is what makes it inductive.
  `StagesInv` ties the stages of the two sides.
  `MapsInv` says that the map of a call that is packing holds, if anything, its
  name or that of a call that overwrote it, and that what a packed request
  carries is one of those.
* **EndpointsProof** proves `TypeOK` and, with it, `FixedKept`.
* **LookupProof** proves `NextIsFair` from `RoundInv`: of two picks `d` turns
  apart the later position is the earlier plus `d`, or that less the length of
  the list, and `idx` is one beyond the last; a position is below the length and
  at most as many picks are kept, so two of them differ. `NotFoundIsTrue` is
  proved from `KnownInv`: the list as it is now is among those its calls have
  seen, and the node a call looks for was in one of them. `BroadcastComplete` is
  proved from `BroadcastInv`: a broadcast that is at the n-th address has told
  the outcomes of those before it, one each.
* **TcpServerProof** proves `ServerInv` inductive: `ListenInv` (whose listener
  is open), `DoneInv` (only `Stop` closes a listener, and it closes `doneChan`
  in the same section) and `LoopInv` (the loop of the running server's listener
  goes on or gave up). From it `OpenListenerOwned`, `StopIsNoError` and
  `RunningIsServed`. `StopIsNoError` is not inductive alone: it needs `DoneInv`.
* **AppProof** proves `AppInv`: a goroutine reads the range variable only after
  it was assigned, and while the process lives the lease has `LeaseTicks -
  missed` ticks left (`LeaseInv`); hence `StaysRegistered`.

Two of these arguments go by induction along a sequence (the loop of
`removeConn`, the chain of bytes). The provers cannot instantiate the library's
induction theorems, which take a predicate; `NatSetInduction` states induction
for a set of naturals instead, and is proved from the well-foundedness of finite
sets.

Every invariant the passing runs check is a theorem. Model-checked only: the liveness
properties, since fairness and ENABLED are beyond the proof system, so that
`CallsReturn`, `Converges` and the rest of the temporal properties hold of the
instances of section 3. Likewise the half of `KeepsPromise` that runs beyond
`MaxInt32` calls: there ids collide, and the promise does not hold.

## 6. Findings

`app_panic`: `App.Run` panics with "start server %s failed" and `server.Name()`
(`src/app.go:67`), and `server` is the variable of the range statement, shared
by all goroutines. If the range moves on between `server.Start()` and the panic,
the message names a server whose Start did not fail. The trace TLC finds does
that with two servers.

## 7. Not modelled

* Nothing closes or writes `stopChan`, so the branch of `App.loop` that would
  unregister is left out with `UnRegister`.
* `connector.close` reads `c.conns` without its lock. The old array seen with
  the new, shorter length is in the model; the new array with the old length, a
  read beyond its end, is not.
* Connections of a connector that a sender still holds after discovery removed
  it, or of a server that stopped, stay open until they fail. The models have
  them; no property forbids them, for nothing in the code closes them.
* Concurrent writes of one metadata map, also while a response is packed from it,
  are steps like others in Exchange; the Go runtime may end the process when it
  notices them.
* `Write` and `Dial` without a deadline: the fairness of ClientCall assumes that
  they end, so `CallsReturn` does not cover a server that stops reading. The
  server's `Write` may block in ServerInvoke (`PeerStops`), and with it the
  request; that other writes to the same connection block with it is a matter of
  the same choice, made for each request.
* The error paths of marshalling. A generated message always marshals; a packet
  that does not unmarshal is dropped by both ends, which for the models is a lost
  packet.
* The HTTP server is a wrapper of net/http, whose state is in that library; that
  `Serve` returns an error after `Shutdown`, on which `App.Run` panics, is listed
  as a hazard. The configuration is read once and its values are the constants.
  Of the code generator, what the code it prints does is in Exchange and
  Lookup, and how it prints is not. Logging is output, the messages are
  generated code over protobuf, and the example uses the library with one
  server: none has state of its own to model.

## 8. Plan

Order: the call table, on which every call depends; the connections below it;
the server's side; framing; endpoints; the life of servers and app; then the
choice of connectors, errors and metadata, and client and server composed. Those
are done. Next:

1. More of the steps behind the liveness properties as theorems, as
   `ClosedConnIsLeaving` is one behind `ClosedConnLeavesPool`: that a wedged
   server is one whose slots were all lost to panics, that a request or reader
   which waits has a step to take once its partner moved.
2. Connector composed with Lookup: a connector that is replaced while a
   sender holds it.
