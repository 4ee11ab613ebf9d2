# A verification development for chezmoi-net

chezmoi-net lets programs behind web sockets or KCP (reliable UDP) sessions
call each other's Go services through a hub: one client hosts a session, others
join it, and `Service.Method` calls are relayed to one member or to all of them.
This directory holds TLA+ modules translated from the Go source, TLC
configurations that check them on small instances and TLAPS proofs that hold for
every value of the constants.

## 1. Inventory

| part | state | operations | interacts with |
|---|---|---|---|
| `hub.Hub` (`hub/hub.go`) | `Clients`, `IdClients`, channels `Register`, `Unregister` | `Run` (one goroutine), `Handle` (one goroutine per request) | is called by the readers of all connections through the channels; calls clients through their `rpcClient` |
| `hub.SessionManager` (`hub/hub-session.go`) | `Sessions`, `Session.Host`, `Session.Participants` | `Host`, `Join`, `Members` (goroutine per request), `LeaveSession`, `CloseSession` (inside `Run`) | writes `Client.Session/Name/Ready`; tells members in goroutines, or synchronously in `CloseSession` |
| hub side of a connection (`hub/hub-client.go`, `hub-web-socket.go`, `hub-kcp-socket.go`) | `Client`, `Socket`/`KcpSocket`, write wrappers | reader goroutine, close handler, `startJsonRPC`, ping | emits every message on the signal of its channel; reports a disconnect on `Unregister` |
| `NetConn` over signals (`net/hub-netconn.go`) | `Incomming` channel, listener key, `terminated` | `Read`, `Write`, `Close`, the KILL listener | turns signals into the `io.ReadWriteCloser` of a codec |
| JSON-RPC codecs (`jsonrpc/`) | `pending`, `pendingChannel`, `seq` | `WriteRequest`, `ReadResponseHeader`, `ReadRequestHeader`, `WriteResponse` | under `net/rpc` clients and servers |
| `client.Client` (`client/client.go`) | own id, session, signals, dispatchers, RPC clients | `StartHosting`, `JoinSession`, `SessionMembers`, callbacks, `RegisterService`, `Handle`, `clean`, `Close` | relays service calls through `Hub.Handle` |
| client sockets (`net/web-socket.go`, `net/kcp-socket.go`) | `isConnected`, `sendMu` | `Connect`, event loop, `SendBinary`, `Close` | call the client's handlers, from whichever goroutine meets the error |
| `utils.Queue` | ring buffer, head, tail, count | `Add`, `Remove`, `Get`, `Peek`, resize | nothing uses it in this repository |
| `ggtimer` | a channel | timer and ticker goroutines, `Close` | nothing uses it in this repository |
| chat client (`chatclient/`) | `participants` | `onReady`, `onSessionChange`, `OnMessage` | example of the client API |
| commands (`cmd/`) | channel `interrupt` | `app` | read `Interrupt` once, close the client, exit |

What makes this code hard: the maps of the hub and the fields of a `hub.Client`
are shared by `Run`, by one goroutine per request and by the goroutines that
notify members, and no lock covers them (`Hub.mutex` is only taken by `Run`);
a connection has a reader goroutine and a set-up goroutine that are not ordered
by anything but the unbuffered channels; `CloseSession` calls remote programs
from inside `Run`; connections are lost at any moment, and a lost connection may be
reported once or twice. `PROJECT.json` lists the hazards one by one, at the line
where they bite.

What makes each part correct:

* hub and session manager: a client is torn down at most once and its loss is
  always handled; a session ends with the loss of its host, or the exceptions are
  known; members are told of joins and of the end of their session; no goroutine
  panics while every connection is up.
* relay: a message reaches the right members, its sender not; a private call is
  answered by its target.
* dispatch and codecs: a response goes to the call that waits for it.
* connections: what several goroutines write arrives as whole messages, and a loss is
  reported to `Run`.
* client life: whoever finds out that the connection is over, calls end and the
  program exits.
* queue: a ring buffer is a FIFO sequence, at every size.

## 2. Plan

1. `Hub`: the hub, the session manager and the connections that feed them, with
   its proofs (`HubProofs`). Abstract specification: `Membership`, what the hub
   promises about who is in which session. **Done.**
2. `Relay`, on top of `Membership`: `Hub.Handle`'s snapshot of candidates, its
   sequential calls, participants that left, the host that joined its own session,
   with proofs (`RelayProofs`). **Done.**
3. `Dispatch`: `handleMessage`, the waiters of one response signal and the workers,
   with proofs (`DispatchProofs`). **Done.**
4. `Codec`: the client's and the server's tables, the connection between them and the
   responses the codec refuses, with proofs (`CodecProofs`). **Done.**
5. `HubLink`: who may write to one connection of the hub at a time, pings, the loss
   found under `sendMu`, with proofs (`HubLinkProofs`). **Done.**
6. `Queue`: the ring buffer, refining the sequence of `Fifo`, with proofs
   (`QueueProofs`). **Done.**
7. `ChatClient`: the participants map of the example, with the hub's notices and
   the members replies in any order, with proofs (`ChatClientProofs`). **Done.**
8. `ClientLife`: `OnConnected`, `Registered`, `clean`, `Close` and `OnDisconnected`
   of the client library, the KILL they emit and the `Interrupt` they send, with proofs
   (`ClientLifeProofs`). **Done.**

Every invariant and action property the runs check is a theorem, and so is what each
liveness property rests on (section 8). What is left is the step from there to the
liveness properties themselves, which needs fairness and stays with TLC.

## 3. Module `Hub`

`Hub.tla` has these actors; each is a goroutine of the server or a remote.

| actor | variables | actions | code |
|---|---|---|---|
| reader of connection c | `conn`, `reader` | `Connect`, `Vanish`, `ReadError`, `CloseFrame`, `ReadRequest` | `Socket.Connect`, `KcpSocket.Connect`, `OnBinaryMessage`, `OnDisconnected` |
| `startJsonRPC` of c | `starter` | `Register` (with Run), `Setup` | `hub-client.go:52-64` |
| `Hub.Run` | `at`, `cl`, `cs`, `todo`, `visited`, `clients`, `idClients`, `killed` | `Register`, `Unregister`, `Check`, `DecideMissing`, `Decide`, `Unlisted`, `CloseSession`, `LeaveSession`, `NotifySkip`, `NotifyCall`, `NotifyMissing`, `NotifyDone`, `Close` | `hub.go:90-127`, `CloseSession`, `LeaveSession` |
| request handler of c | `op`, `arg`, `pc`, `made`, and the store `sessions`, `host`, `participants`, `session` | `HostLookup`, `HostFill`, `HostPublish`, `JoinLookup`, `JoinAdd`, `JoinFill` | `Host`, `Join` |
| notifying goroutines | `fans`, `notices` | `FanOut`, `Deliver` | the `go func` of `Join` and `LeaveSession`, `rpcClient.Call` |
| remote client c | `known`, `seen`, `minted` | `StartHosting`, `JoinSession`, `Deliver` | `client.go:263-304` |

A handler is one action wherever no other goroutine can tell the difference and
several where it can: between the look-up of its client and the assignment of
its fields, and between those and the publication of the session (`Host`); between
the look-up, the new participant and its fields (`Join`). `Run`'s teardown reads the
client's session three times and is cut between the reads: whether it names a listed
session (`hub.go:112`, `Check`), whether that session's host is the client (113,
`DecideMissing` and `Decide`), and which session is then ended or left (114 and 116,
`CloseSession`, `LeaveSession`, or `Unlisted`, which finds none). A nil dereference in
any goroutine sets `crashed`, after which nothing happens: `net/rpc` does not
recover the panic of a method. `WriteToNil` is one that no handler shows: the
disconnect handler of a KCP client sets `wrapper.conn` to nil
(`hub-client.go:216`), and a call or an answer written to that client afterwards
dereferences it. So losing a KCP client at a bad moment ends the server; the
model lets this happen to any connection.

Abstractions. A client and its uuid are one value. `Name` is assigned with
`Session`. `Ready`, which comes after it, is read by `Handle` only and is a variable of
`Relay`. A request and its answer are not separate messages: the
remote's call returns when its handler ends (a client of this repository makes one
session request at a time). The order in which two notices reach one remote is
left open, since each is sent by a goroutine of its own. `killed` stands for the
KILL signal: the first `NetConn` of a connection is the `rpcClient`'s, and it is
the only one whose KILL listener is kept, because the signals library refuses a
second listener under the same key. `Socket.Close` in `CloseSession` changes
nothing, because `isConnected` of a hub socket is never set.

History variables: `departs` (teardowns of a client), `late` (sessions published
after their host's teardown), `abandoned` (sessions whose host went on to another).
They guard nothing.

### Properties

| property | says |
|---|---|
| `TypeOK` | types; with the inductive part, no event is addressed to a nil host |
| `DepartOnce` | a client is torn down at most once, although a close frame makes the reader report its disconnect twice, and it is out of `Clients` afterwards for good |
| `NoPanicWhileConnected` | no nil dereference while every accepted connection is up |
| `OrphansExplained` | a listed session has a registered host, except one its host abandoned or one published after its host's teardown |
| `ClosedNoticeTrue` | a client that made one session request is never told that a session closed which the hub still lists |
| `SessionsEndWithHost` | only the teardown of a lost client that is in it removes a session; the client is its host, or hosts another one and moved to this one by a later request |
| `CloseTellsAll` | `CloseSession` returns only when every participant its loop began with was told or is lost |
| `EveryLossHandled` | the reader's last report of a lost connection is taken, and from some moment on its client is outside `Clients` for good, except where `Register` came after that report |
| `MembersToldOfClose` | a member that stays connected is told when its host is lost |
| `JoinAnnounced` | whoever is in a session when a join completes is told of it |
| `RequestsAnswered` | a request of a client that stays connected is answered; only a first one may be lost, if it comes before `Setup` and nobody listens to it, never one that follows an answer |
| `MembersKnown` | whoever's `Session` names a published session is its host or in its `Participants`, so iterating over them misses nobody |
| `ImplementsMembership` | the hub implements `Membership` (below) |

The exceptions in `NoPanicWhileConnected`, `OrphansExplained`, `ClosedNoticeTrue`,
`SessionsEndWithHost` and `EveryLossHandled` are what the code needs: without them TLC
finds the races that `hazards` describes. Three of these races are worth a sentence here.
The reader starts before `startJsonRPC` sends on `Register`, so its `Unregister` may be
handled first and find nothing; the `Register` that follows then adds a client whose
reader has ended, and it stays in `Clients` for good, although `hub.go:10` speaks of the
active clients (`Overtaken`). A client that hosts one session and is lost while its `Join` of
another is under way may have `client.Session` assigned after `Run` has found it to
be a host (`hub.go:113`) and before `CloseSession` is given the session (114): `Run` then
ends the other session, whose host is alive, tells its participants so, and leaves the
lost client's own session listed. And the serve routines outlive `Close`: a request read
before it starts its handler afterwards, where `Host` or `Join` finds no client.

## 4. Modules `Membership` and `Relay`

`Membership.tla` is the session store seen from outside: which clients are lost
(`gone`), which sessions are listed, their hosts, all who ever joined them, and the
session each client is in. It has no goroutines, requests or messages. A client
enters a session it is about to publish or has been added to; a session id is
published once and ended only when a client in it is lost that is its host, or that
hosts another session too (`Ends`, the race of section 3). `Hub` instantiates it as
`Store`, with `gone` standing for the connections in state `"gone"` and the other
variables under their own names.

`Relay.tla` adds `Hub.Handle` to `Membership`, which stands for the hub: whatever
the hub does between two steps of a `Handle` is a step of `Membership`, by the
refinement. One message is one goroutine.

| actions | code |
|---|---|
| `Send` | the outgoing listener of `RegisterService` calls `Hub.Handle`; its session and its target are whatever the remote says |
| `HubStep`, `GetReady` | the hub's own steps; `Ready` is set after `Session` and, by `Host`, before the session is published |
| `NotFound`, `Choose` | the look-up of the session; the participants that are `Ready` and whose `Session` is the message's, then the host |
| `Skip`, `Call`, `CallFails` | one iteration of the loop: not addressed, called, or called in vain |
| `Execute`, `Answer`, `Abort` | the remote runs `Client.Handle` and its answer arrives, or KILL fails the call |
| `Return` | the loop is over |
| `Kill` | `client.Close` of a lost client, by `Run` |

`Choose` is one step although its loop is not: every candidate is tested once,
no step of the loop waits, and the properties relate each client to
that test only. `inside` is history: who was in the session and `Ready`, asked from the
clients' side, when the candidates were taken. A client between `hub-session.go:45` and 46,
whose first join has assigned its `Session` and not yet `Ready`, is in the session and no
candidate: it misses a broadcast, and a private message to it has no answer. What a message says,
and which service it is for, is left out.

| property | says |
|---|---|
| `OnceUnlessHostJoined` | a message is executed at most once by a client, except by a host that joined its own session, which is a candidate twice |
| `BroadcastComplete` | when `Handle` returns, everyone who was in the session and `Ready` when the candidates were taken, and its host, executed a broadcast or is lost, whatever happened to the others; this needs `MembersKnown` |
| `PrivateAnswered` | a private message is executed by its target only, and a target that was in the session and `Ready`, or is its host, and is not lost has answered the sender |
| `OnlyMembersExecute` | who went to another session, and is still in `Participants`, or is joining and not `Ready`, does not execute what comes meanwhile |
| `HandleReturns` | every `Handle` returns |

## 5. Modules `ChatClient`, `Dispatch`, `Codec`, `Queue`

`ChatClient.tla` is one chat client, `Me`, on top of `Membership` like `Relay`.

| variables | actions | code |
|---|---|---|
| the store, `departed`, `fans`, `notices` | `HubStep`, `HubEnter`, `Depart`, `FanOut` | `Host`, `Join`, the teardown, the notifying goroutines |
| `main`, `mine` | `Request`, `Entered` | `onReady` |
| `asking`, `fetched` | `Receive`, `Ask`, `Fetch` | the event handlers, `SessionMembers`, `Members` |
| `roster` (`participants` in the code), `closed` | `Apply` | `onSessionChange` |
| `shown`, `panicked` | `PrintName`, `FindNil` | `OnMessage`, `findParticipantFromName` |

`Depart` is the whole teardown of a lost client: its session is gone, or it ends (`Ends`), or
the others are told of its leaving; `Run` may have decided which by the session the client
was in before (section 3). `Audience` is whom the goroutine, or `CloseSession`'s loop, then
tells.

The RPC server runs every notice in a goroutine, so that refreshes overlap and their
answers may replace each other in any order. An entry of the map is absent, named,
or has a nil name, which `Members` returns for a participant that `Join` has added and
not named yet. `shown` stands for all the goroutines that have found a name in the map
and are about to read the map again: there may always be one. The history variable
`overlapped` tells whether two refreshes were ever under way at once, `settled`
collects who was known at a moment when none was.

| property | says |
|---|---|
| `Converged` | without overlaps, whenever nothing is under way, the map names everybody in the session, however joins, the own join and their announcements interleave |
| `KnownForGood` | with any overlaps, who was known at a quiet moment stays known while the session lasts |
| `PanicExplained` | while the session lasts, a nil name is only dereferenced after an overlap or for a participant that is not named yet |
| `EndCloses` | who hears of the end of its session closes |

What the exceptions say is worth knowing: with an overlap a participant may be missing
until the next event, and the messages it sends meanwhile are dropped; a name typed
while somebody is joining may end the client.

`Dispatch.tla` is what happens to a relayed request at the client that executes it.
`work` is the goroutine of `handleMessage` (`Arrive`, `Refuse`, `Listen`, `Emit`,
`Take`, `Reply`), `served` the RPC server behind the service's signals (`Execute`,
`Send`, `Sent`). All workers listen on the same response signal. An emission starts
with the listeners it finds (`due`) and lasts until each has taken the response; the
server's mutex lets one emission run at a time. The queue of a hundred requests is
not bounded in the model, since a caller waits for its answer either way. What the
model shows is that this only works for requests that do not overlap: `OwnReplySerial`
and `AnsweredSerial` hold, by `overlapped`, a history variable, until two workers are
busy at once. Afterwards a worker may take another's response (`DispatchMixed`), and a
worker that has taken one and has not removed its listener yet blocks the next
emission for ever. What always holds is `NoMissedReply`.

`Codec.tla` is one `rpc.Client` with its codec, a connection that keeps order, and the
codec of the serve routine at the other end. `pending` is the client codec's table,
`kept` the server codec's two tables, which are always written together; `running`
and `id` belong to `net/rpc`. The `rpc.Client` of a service is answered by the outgoing
listener of `RegisterService` instead; when the hub's call fails with an error of
package `rpc`, the listener encodes it as `{}` (`HubFails`), the reading codec calls it
an invalid error and its `rpc.Client` ends (`ReadInvalid`), as it does with KILL. `OwnAnswer`
says that ids and numbers lead each response back to its call, `NoLeftovers` that the
tables hold what is under way and nothing else, except what `WriteFails` leaves in the
client's table, and `CallsReturn` that nobody waits for ever, whatever becomes of the
call beside it. Whether a service's own error reaches its caller is not a question
here: the listener passes on only the `Result` of what the remote answered
(`client.go:424-429`), so that such a call returns without one.

`Queue.tla` is `utils.Queue` with the masking the code does (`&`, digit by digit, as the
recursive function `And`), the two copies of `resize` and the quarter-full test. `RefinesFifo`
shows it to be the sequence of `Fifo.tla`, `OnlyLiveSlots` that slots out of use are
nil, `NotTooLarge` that a buffer above the smallest length is more than a quarter full.

## 6. Modules `ClientLife` and `HubLink`

`ClientLife.tla` is one client process, with the command and the chat client on top,
from `Connect` to the exit of `main`, over either transport (`kind`).

| variables | actions | code |
|---|---|---|
| `wire`, `connected`, `loop` | `Connect`, `Break`, `ReadError`, `WriteFails`, `CloseSocket` | `Connect`, `eventLoop`, `SendBinary` and `Close` of the sockets |
| `session`, `listening`, `server` | `Registered`, `Ready`, `RegisterService` | `OnConnected` and its goroutine, `Registered`, `RegisterService` |
| `stage` | `Ask`, `Answer`, `Taken`, `CallFails`, `Notice`, `Told` | the calls of the session manager by `onReady` and by `onSessionChange` |
| `cleaning` | `Begin` (in the actions that start a clean), `Kill`, `Rest`, `Signal` | `clean`, and `OnDisconnected` around it |
| `main`, `forwarded` | `Interrupted`, `Exit` | `app` of both client commands |

Six goroutines may clean (`Cleaners`): the event loop, whoever holds `sendMu` when a
write fails, the chat client, `main`, and the two `go client.ws.Close()`. A clean blocks at
its KILL until the reader of the session manager's `rpc.Client` takes it: only the
first `NetConn` of a client has a KILL listener, as in the hub. The event loop is
busy (`loop` is a caller) from the moment it has read an answer until that reader has
taken it from the unbuffered `Incomming`. What differs between the transports is in the code: a
KCP socket is a pointer with an `isConnected`, a WebSocket is a value whose copy in
the `Client` was made before it had a connection, so that its `Close` closes nothing and
reports all the same; its event loop reports only a `CloseError`.

| property | says |
|---|---|
| `LifeTypeOK` | types; a KCP socket that is connected was not closed on this side; `rpcServer` is there as long as the listeners are |
| `CleanEndsCalls` | nobody gets past the KILL of a clean before the session manager's `rpc.Client` has ended, so that no call is left waiting for the connection |
| `MainExits` | whoever begins to clean, the program exits |

`MainExits` has an exception, `clash`: a clean that emits KILL before `Ready` has made the
`rpc.Client` that would read it, or while another clean has not removed the listener
yet, may wait for ever, since nobody takes a second KILL. So an interrupt or a loss
before the registration, or an interrupt at the moment of a loss, can leave the
program hanging. `RegisterService` may panic: `clean` sets `rpcServer` to nil.

`HubLink.tla` is the hub's end of one connection: the goroutines that write to it
(`Run` in `CloseSession`, a serve routine that replies, the ticker, and the reader that
answers a "hello"), `sendMu`, and the report of a loss.

| variables | actions | code |
|---|---|---|
| `at` | `Call`, `Reply`, `Tick`, `Hello`, `Answered` | `CloseSession`, `WriteResponse`, `setupPing`, `OnBinaryMessage` |
| `sendMu`, `holds`, `wrapper` | `Enter`, `Lock`, `WritePanics`, `WriteFails` | `Write` of the two wrappers, `SendBinary` |
| `written`, `partial` | `Write` | `SendUDP`, `ReceiveUDP` at the remote |
| `isConnected`, `taken` | `ReadError`, `Unregister`, `Reported` | the reader and `OnDisconnected` |

A frame is a number of chunks, the first of which carries its length; `partial` is what
the remote has of a frame that is not complete. The wrappers have value receivers, so a
`Write` works on the `conn` it found when it was called (`holds`). The two serve
routines of a client are one writer, `reply`: they never hold more than one place in the
queue of `sendMu` each, and the invariants do not depend on how many wait there.

| property | says |
|---|---|
| `LinkTypeOK` | types, and over KCP whoever writes owns `sendMu` |
| `FramesWhole` | what a remote reads as one message are the chunks of one frame, in their order |
| `LossReported` | a broken connection is reported to `Run`, unless `Run` is in a call to this client |
| `NoConcurrentWrite` | no two goroutines write at once through the wrapper: a finding (`LinkWs`) for web sockets |

The exceptions of `LossReported` are two ways for `Run` to stop for ever: it waits for
an answer of the client that is lost (`HubStuck`), or for `sendMu`, which `SendBinary` keeps
while it reports a failed answer to a "hello", and which it gives back only when `Run` has
taken the report. `Hub` has no mutex: its calls are written in one step.

## 7. Runs

| run | instance | shows |
|---|---|---|
| `HubSafety` | 2 clients, 2 sessions, 2 requests each, a peer may vanish during a call; symmetry | the safety and action properties and the refinement of `Membership`, over hosting twice, hosting and joining, joining the own session, and a teardown whose client moves to another session under it |
| `HubLive` | 2 clients, 1 session, 2 requests for one (`Busy`) and 1 for the other, `LossSilent = FALSE`, no symmetry | the liveness properties, among others for a second request |
| `RelayAll` | 3 clients, 1 session, 1 message, no symmetry | the safety properties of `Relay` with a host and two participants, and `HandleReturns`; a participant is in `Participants` before its session says so and before it is `Ready`, and a client that goes to a second session is covered by the proofs |
| `DispatchAll` | 3 requests, 3 workers, no symmetry | the safety properties of `Dispatch` and `AnsweredSerial`: two workers can have a request open and a third come in between |
| `CodecAll` | 4 calls, no symmetry | `OwnAnswer`, `NoLeftovers`, with handlers returning in any order, responses the codec refuses and KILL at any moment, and `CallsReturn` |
| `ChatAll` | 3 clients, 1 session, `MaxHandlers = 2`, no symmetry | the properties of `ChatClient` with a host and two participants, one of which is `Me` in any role |
| `QueueFifo` | smallest length 4 (the code: 16; the proofs: any power of two above 1), up to 9 elements of two kinds; symmetry | lengths 4, 8 and 16, growing and shrinking from any position of the head |
| `DispatchMixed` | 2 requests, 2 workers | finding: a request is answered with the response to another |
| `HubStuck` | as `HubLive` with 1 request each and `LossSilent = TRUE` | finding: `Run` waits for ever for a vanished participant |
| `LifeAll` | one process, both transports, no bound | the properties of `ClientLife`, with up to six goroutines cleaning |
| `LinkAll` | one connection of either kind, frames of 3 chunks | the properties of `HubLink`, with up to four writers |
| `LinkWs` | as `LinkAll`, without fairness | finding: two goroutines write to one web socket at once |

Deadlock is not checked: the system rests when every connection is gone and
every goroutine has ended or waits for a remote.

Bounds. `MaxRequests` bounds the session requests of each connection, the only
counter that grows; two are enough for a client to abandon a session, to move on during
its own teardown, and to ask again after an answer. The clients in `Busy`
have two, the others one. Two sessions let a client have somewhere to go; `HubLive`, with one,
sees no session abandoned. Two clients give a host and a member; the loops over
several members are covered by the proofs, which do not depend on the instance, and by
`RelayAll` and `ChatAll`, which have three. Actions never relate more than a client, its host and one
other member, and one session at a time, plus the one a client leaves.

Fairness (`FairSpec`). Goroutines that can run do run: weak fairness of `Run`'s own
steps, of `Setup`, of each client's handler, of the notifying goroutines and of a
reader that meets a broken connection. Strong fairness of `Register` and
`Unregister`: the sender waits in the FIFO queue of an unbuffered channel and `Run`
comes back to a select that chooses at random among ready cases, so it cannot be
passed over for ever. A connected remote receives and answers what it is sent
(`Deliver`), which the client library does without the application's help. Nothing is
assumed of applications: no fairness of `Connect`, `Vanish`, `StartHosting`,
`JoinSession`. `LossSilent = FALSE` is an assumption about remotes and not about the
hub: a participant answers a pending `SessionClosed` before its connection is lost.
`HubStuck` shows that liveness needs it. It takes no crash of a participant: the chat
client closes its socket in a goroutine it starts while it handles `SessionClosed`
(`client.go:227`), which may happen before its answer is written.

`MaxHandlers` of `ChatClient` bounds the notices of `Me` that are handled at once, to two;
with the refresh of `onReady` this makes three answers that overtake each other. A
client joins a session once in `ChatClient`: a second `Join` only repeats its
announcement. `ChatFairSpec` assumes that `Me`'s goroutines run and that a call over a
live connection returns; of the hub nothing, so a notice may come at any time or never.

`Dispatch` needs two workers for an overlap and a third to come in between (the code
has ten); `Codec` needs two calls for an order and has four. `FairSpec` of `Dispatch`
is strong fairness of each worker and of the service, whose queue and mutex are
first come, first served; that of `Codec` is weak fairness of the read loops and of
the handlers.

`ClientLife` has no constants and no counter: every goroutine is a value of a state
function, so `LifeAll` is complete. Three chunks in `HubLink` make a first, a middle and a
last one. `LifeFairness` says that goroutines which can run do run; it does not say
that the read or the write of a broken connection fails, that a caller calls or that
the hub answers, so `MainExits` starts where somebody has noticed the loss. `LinkFairness`
adds that a broken connection is read, and strong fairness of `Lock` and `Unregister`, whose
waiters are served first come, first served. That a broken connection is noticed
holds for a web socket, and for KCP only if its session ends with an error: KCP has no
end of stream, so the silence of a remote is no error, and the check that is there for
it closes nothing (`hub-kcp-socket.go:39-43`, `66-69`). The liveness properties of `Hub`
and `HubLink` speak of connections whose loss is an error.

One message is enough for `Relay`: two `Handle` goroutines share nothing but the
store, which any of its steps may change between theirs. `RelayFairSpec` assumes
that the goroutine of a message runs, that a connected remote answers, and
that `Run` kills a lost client, which is `EveryLossHandled` of `Hub` (and fails where
`HubStuck` shows). `Relay` follows a process that does not panic: a panic stops
every `Handle`, which no safety property can notice.

## 8. Proofs

`HubProofs`, for every number of clients, sessions and requests, from `HubAssumption`
(the nil value is neither a client nor a session; `MaxRequests` gives every client a
natural number):

| theorem | property |
|---|---|
| `TypeCorrect` | `TypeOK` |
| `TornDownOnce` | `DepartOnce` |
| `NoPanicBeforeLoss` | `NoPanicWhileConnected` |
| `OnlyExplainedOrphans` | `OrphansExplained` |
| `ClosedNoticesTrue` | `ClosedNoticeTrue` |
| `OnlyHostEndsSession` | `SessionsEndWithHost` |
| `NobodyPassedOver` | `CloseTellsAll` |
| `NobodyUnlisted` | `MembersKnown` |
| `HubImplementsMembership` | `ImplementsMembership` |

None of the properties is inductive. The invariant `Inv` is a conjunction of layers,
each preserved given the ones before it (one lemma per layer, one step per
action):

* `TypeInv`: types, and where nil cannot be: `Run` past its select has a client, a
  request under way names a session, a listed session and one that is about to be
  notified have a host; a pending `SessionClosed` is unique and `Run` waits for it.
* `ConnInv`: `Run` only handles clients that are gone; a remote knows its id only
  while `IdClients` has it, or after it is gone.
* `DepartInv`: a client is in `Clients` from its only registration to the end of its
  only teardown.
* `OrphanInv`: a listed session is its host's current one, or abandoned, or late; once `Run`
  has ended a session or is to leave one, whatever its client hosts is one of the latter.
* `ClosedInv`: a session id is published once, by the one client that drew it; so
  what was closed stays closed.
* `TellInv`: whom `CloseSession`'s loop has passed was told, is lost, is the host, or
  is being waited for.
* `StoreInv`: a join that is about to assign its client's fields has already made it
  a participant; a client whose session has no host yet is about to publish it;
  and `MembersKnown` itself.

`OnlyHostEndsSession` needs one more invariant: when `Run` has found its client to be the
host (`at = "end"`), the client hosts the session it is in, or has since abandoned one it
hosts, which takes a second request (`LastHosted`).

`HubImplementsMembership` maps every action to a step of `Membership` or to a
stutter; it needs `ClosedInv` (a session is published once), `ConnInv` (only a lost client is
torn down) and `LastHosted` (only one that hosts a session ends one). `EndedIdsStayEnded`
carries a promise of `Membership` over to the hub: the id of a session that has ended is never listed again (`EndedForGood`).

`DispatchProofs`, for every number of requests and workers, proves `TypeOK`,
`NoMissedReply` and `OwnReplySerial` of `Dispatch` (`TypeCorrect`, `NobodyMissesReply`,
`SerialRepliesOwn`). Its invariant relates the two sides of a request (`InStep`), says
that a response on its way is still due to its own request or came too late
(`StillDue`), and that without an overlap a worker and its request are alone (`Alone`).

`ChatClientProofs`, for any number of clients, sessions and refreshes at once:

| theorem | property |
|---|---|
| `TypeCorrect` | `ChatTypeOK` |
| `NobodyForgotten` | `KnownForGood` |
| `EverybodyKnown` | `Converged` |
| `PanicsAreExplained` | `PanicExplained` |

Its invariant says that only those the hub lists and has a name for are ever known
(`KnownInv`); hence a later answer of the live session names them again
(`SettledInv`, and `SerialInv` for those that were only shown). `AwaitInv` is the
reason for `Converged`: whoever is in the session is in the roster, or in an answer
on its way, or is announced by a notice or by a goroutine that will find `Me` among
those it tells. That last step is `MembersKnown`, which is part of `StoreInv`.
`MaxHandlers` plays no part in the proofs.

`RelayProofs`, for any number of clients, sessions and messages: `TypesCorrect`
(`RelayTypeOK`), `CalledOnce` (`OnceUnlessHostJoined`), `BroadcastReaches`
(`BroadcastComplete`), `PrivateReaches` (`PrivateAnswered`) and `MembersExecute`
(`OnlyMembersExecute`). `LeftInv` counts, for every client, how often it has executed the
message, is still a candidate and is being called: together at most once, or twice for a
host in its own `Participants`. `ReachInv` says that whom a broadcast has to reach has
executed it, is lost, or is still to be called; it holds when the candidates are taken
because of `MembersKnown`, which is part of `StoreInv`. `TargetInv` is the same for the
target of a private message and its answer.

`CodecProofs`, for every finite set of calls (`CodecAssumption`): `AnswersMatch`
(`OwnAnswer`) and `TablesMatch` (`NoLeftovers`). The invariant follows a call around: its
number is its own (`IdInv`), and what is on its way up, under a handler and on its way
down belongs to a call whose request was written (`UpInv`, `RunInv`, `DownInv`), so that a
response always finds its method in the table (`PendingInv`).

`ClientLifeProofs`: `TypesCorrect` (`LifeTypeOK`) and `CleanAfterCalls`
(`CleanEndsCalls`). The reason is `Unheard`: the KILL listener is only ever removed behind a
KILL that was taken, so a clean that finds no listener comes after the end of the
`rpc.Client`; the rest excludes cleans before there is a connection.

`HubLinkProofs`, for frames of any number of chunks (`LinkAssumption`): `TypesCorrect`
(`LinkTypeOK`) and `FramesStayWhole` (`FramesWhole`). `FrameInv` says that over a live KCP
connection the remote has exactly what the owner of `sendMu` has written of its frame, and
nothing when nobody owns it.

`QueueProofs`, for every smallest length that is a power of two above 1 and any elements
(`QueueAssumption`):

| theorem | property |
|---|---|
| `TypeCorrect` | `TypeOK` |
| `StaysSmall` | `NotTooLarge` |
| `LiveSlots` | `OnlyLiveSlots` |
| `Refinement` | `RefinesFifo` |

The library's induction theorems take an operator and cannot be cited, so the module
starts from the least member of a nonempty set of naturals (`Least`), which gives
induction stated of a set (`Induct`), and from it the equations of `Pow2` and `And`. From these
follows the mask lemma: for a power of two `n` and any `i`, `And[i][n - 1]` is `i % n`, which is
the comment at `minQueueLen`. The ring invariant places `tail` `count` slots after `head`,
cyclically, and keeps nil out of the slots between them and anything else out of the
others. `Refinement` then follows from what each operation does to `Items`: `resize` copies
them in order whether or not they wrap, as `count` is never 0 when it is called with `tail`
at `head`, and adding or removing changes one end.

### What the liveness properties rest on

A liveness property needs a step that can be taken in every state on the way, and
steps that do not lead back. The parts of this that the code makes hard are safety and are
proved, for every value of the constants; that the steps are taken needs the fairness of
section 7, and that they add up to the property is checked by TLC:

| theorem | of | for | what it says |
|---|---|---|---|
| `RunNeverStuck` | `HubProofs` | `EveryLossHandled`, `MembersToldOfClose` | `CloseSession` waits for a notice that is pending, and its loop finds somebody to go on with until all were visited |
| `NothingDropped` | `HubProofs` | `JoinAnnounced` | who is told by a goroutine or a notice is told, or gone, when it ends; nobody drops out of `Members` in between |
| `LaterRequestsHeard` | `HubProofs` | `RequestsAnswered` | only a client's first request is lost for want of a listener (`hub-client.go:52-64`) |
| `HandleNeverStuck`, `HandleOnlyAdvances` | `RelayProofs` | `HandleReturns` | the next candidate is a client that can be called or fails; no step adds a candidate |
| `SerialNeverStuck` | `DispatchProofs` | `AnsweredSerial` | without an overlap a step towards the answer can be taken, and a worker is free when none has a request |
| `CallsInOnePlace` | `CodecProofs` | `CallsReturn` | a call that waits is in one place, once, until `KILL` |
| `NoNoticeDropped` | `ChatClientProofs` | `EndCloses` | a notice becomes a refresh, that gets an answer, and the answer to the end of the session closes the client |
| `ExitsReachable` | `ClientLifeProofs` | `MainExits` | who has begun to clean, or `main`, can go on, unless two cleans clash |
| `LossesReportable` | `HubLinkProofs` | `LossReported` | somebody can go on towards the report, but in the two cases the property names |

`RunNeverStuck` says of a `Run` that waits that the remote it waits for is connected only
where a loss ends the call (`LossSilent = FALSE`): with silent losses that part is false, which
is what `HubStuck` finds. `SerialNeverStuck` needs its hypothesis too: once requests have
overlapped, an emission may wait for ever for a listener whose worker has its answer.

The long proofs of `HubProofs` about one variable cite `Touches`, which says of each variable
which actions can change it, instead of going through all actions again.

The inductive invariants were checked by TLC before they were proved. Only
model-checked: the liveness properties, which TLAPS does not support under fairness
(`EveryLossHandled`, `MembersToldOfClose`, `JoinAnnounced`, `RequestsAnswered`,
`HandleReturns`, `AnsweredSerial`, `CallsReturn`, `EndCloses`, `MainExits`,
`LossReported`), and the findings.

## 9. Not modelled

* `HubSessions` and the start of the server: they change no state the hub relies on.
* `ggtimer`: no other package imports it.
* Dialling, encryption, encoding and the terminal: pure input and output. A message is
  its id, and a name is only known to be there or not.
* The partial reads of `NetConn.Read` and its `Close`, which removes a listener or closes a
  wrapper; the worker pool of the outgoing dispatcher; messages to a service that are not
  requests, which no client of this library sends.
* Concurrent map access, which the Go runtime may answer with an abort at any step on a
  shared map: listed as a hazard, not an action.
* The assertion `socket.(*Socket)` in `ServeWs` (`hub-client.go:148`, `157`): it never
  holds, as the handlers are given a value, so a ping or a "hello" over a web socket
  ends the server. No client of this library sends either, because `IsConnected` of its
  web socket is always false when the ticker looks.
* A KCP client that falls silent, which nothing notices (above).
* Jobs given to a dispatcher that `clean` has stopped are dropped, and `Handle` then waits in
  a program that is about to exit.
