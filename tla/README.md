# Formal models of Travelers Netcode (TRA)

TLA+ specifications of the TRA netcode, the TLC runs that check them on small
instances, and proofs, checked by TLAPS, of what holds for every instance.
Every definition is translated from the C++ source; `PROJECT.json` gives, for
each, the file and the lines.

## 1. The system

| component | state it keeps | operations | talks to |
|---|---|---|---|
| `Server`, `Client` (singletons) | the engine behind them | Start/Stop, ConnectTo/Disconnect, beginUpdate, endUpdate, sendTcpMessage, getTcpMessages | `NetworkEngine`, each call guarded by a tag of the engine's own entity (`ListeningComponentTag`, `ConnectedComponentTag`) |
| `NetworkEngine` | its ECS, the id of its own ("self") entity, a UDP socket | start/stop of listening, connecting and UDP, updates, entities, queueing a message | `NetworkEcs`, sockets |
| `NetworkEcs` | live entities, next id, one component store per component type, two ordered lists of systems | create, destroy (deferred), add, get, has, remove, query, beginUpdate, endUpdate with the sweep of destroyed entities | the systems |
| `SparseSet` | a dense vector and an index | insert, swap-remove, get | |
| `DisconnectSystem`, `PendingDisconnectSystem`, `AcceptConnectionSystem` | none: everything is in components | one `update` per beginUpdate, in the registrar's order | sockets, entities |
| `ReceiveTcpMessageSystem`, `SendTcpMessageSystem` | a receive buffer and decoded messages, queued messages and a partial-send offset, in components | last system of beginUpdate, only system of endUpdate | sockets, serializer |
| `MessageSerializer`, `MessageFactory`, message macros | the static registries of message types and fields | frame, unframe, serialize, deserialize (throws on an unknown type) | |
| `TcpSocket`, `UdpSocket` | a descriptor, a port, a mutex | bind, listen, accept, connect, send, receive, shutdown, close | the kernel |
| `WSAInitializer` | none: Winsock counts (Windows) | Init, CleanUp | engine starts and stops |

The engine is single-threaded and polled. Between two calls of the application,
and between any two steps of a system, the kernel and the peers act: a
connection completes its handshake and joins the listener's queue, a peer
closes, a connection is reset, a send buffer fills. All the state that carries a
connection from one system to the next is a set of tags on its entity:

    accept  -> Root Socket Receive Send New Connected     "new" for one update
-> ... without New                            connected     receive or send sees
the end -> + Pending     PendingDisconnect -> Root Disconnected
"disconnected" for one update     Disconnect        -> Root Destroy
leaving     endUpdate's sweep -> nothing, id never reused         gone

### What is hard here

* **Order.** The protocol above is carried by the order in which the registrar
  lists the systems and by tags left for the next tick. A tag forgotten or left
  over is met by a query many calls later.
* **The self entity** carries a client's connection and a server's listener. It
  is never swept, so nothing ever cleans it up wholesale: whatever one
  connection leaves on it meets the next.
* **Partial failure.** Several components are added or removed one by one, with
  an error path after each; exceptions cross the update loop.
* **Limits.** 32 accepts and 32 messages per tick, 2^32 ids.
* **Peers.** End of stream, reset and "no data yet" come out of the same call.

What makes each component correct, in words: sockets are owned by exactly one
component and none leaks; entities move through their stages whole; ids are
never reused; waiting connections are served; dead peers are noticed and freed,
live ones that keep up kept; a message is delivered at most once and in order; a
component store is a map. `PROJECT.json` lists the hazards at their lines.

## 2. Modules

| module | models |
|---|---|
| `NetworkEngine` | the engine, its ECS, all five systems and the kernel; safety properties and the inductive invariant |
| `EngineResources` | the engine with its UDP socket and, for Windows, its start-ups of Winsock, on every path of every call |
| `Server`, `Client` | the engine behind the guarded calls of a server and of a client |
| `ConnectionLifecycle` | abstract: what a server's application is promised about a connection |
| `ServerContract` | `Server` with a record of what its application saw, refining `ConnectionLifecycle`; fairness and liveness of a server |
| `Session` | a server and a client on one network: two engines that are each other's peers |
| `MessageChannel` | abstract: messages come out in order, whole, at most once |
| `TcpMessageStream` | one direction of a connection: queue, frames, partial sends, receive buffer, parse loop; refines `MessageChannel` |
| `MCTcpMessageStream` | two payloads for its runs |
| `MessageRegistry` | static initialization of message types in two programs, and the payloads they make and read |
| `MCMessageRegistry` | five types for its run |
| `AssociativeStore` | abstract: a map from entities to components |
| `SparseSet` | one component store: vector, index, swap-remove; refines `AssociativeStore` |
| `TcpSocket` | one socket object: descriptor, remembered mode, mutex, threads |
| `UdpSocket` | a socket object of either class |
| `ByteEncoding` | 32-bit numbers as bytes, for headers and payloads |
| `NetworkEngineProofs`, `EngineResourcesProofs`, `FacadeProofs`, `SparseSetProofs`, `TcpSocketProofs`, `MessageRegistryProofs`, `TcpMessageStreamProofs` | theorems |
| `ByteEncodingProofs` | lemmas on bytes and sequences that the last two rest on |

### NetworkEngine

State: `entities` and `nextEntityId` are the ECS's; `comps[e]` is the set of
component types whose store holds `e` (the stores, read by entity); `sock[e]`
is the connection behind an entity's socket component, `queued[e]` the number of
messages waiting in its send component. `handle`, `peer` and `backlog` are the
kernel: this process's side of each connection, the remote side, and the
listener's queue. `phase` is the system about to run ("App": the application
has control), `todo` what remains of the running system's query result and
`accepted` the accept loop's counter.

One action per call of `NetworkEngine` and per system; the accept loop and the
receive and send loops are one action per iteration, so that peers act between
iterations and entities are visited in any order (`m_entities` is an unordered
set). The two disconnect systems and the sweep touch no socket of another
entity and call nothing that waits, so they are one action each. The order of
the systems is the record `After`, from the registrar.

Abstractions: message contents and bytes (an entity has a number of messages to
send; a receive either sees data, an end or an error); error codes and logs;
what can fail without having changed anything (bind, an invalid address, an
allocation). `StartTcpConnect` keeps the code's order of additions, and gives up
at the first component already present, because that does happen.
`PeerConnect`, `PeerClose`, `PeerReset` and `BacklogClosed` stand for the
kernel and are marked external.

### EngineResources

The engine of `NetworkEngine`, unchanged, with two variables beside it: the UDP
socket, and how many start-ups of Winsock have not been cleaned up. Each call
that starts or stops something is the engine's action together with the `Init`
and `CleanUp` it makes. The failing paths differ: a bind that fails calls
`stopTcpListen`, which finds no component and returns before `CleanUp`; a connect
that fails returns without one; a connect that fails on a component calls
`stopTcpListen`, which cleans up for the *listener* if there is one; a UDP start
that fails undoes everything. A lost client connection is never cleaned up for.
All but one of these err on the side of a start-up too many;
`WinsockCoversSockets` says that none errs on the other, including the one that
gives the listener's away. Nothing calls the engine's UDP functions (the calls in
`server.cpp` and `client.cpp` are commented out), but they share the count, so
they are in. A failed `Init` changes nothing and is left out.

### Server, Client

Each call is the engine's with the facade's guard. A server neither connects out
nor creates or destroys entities; a client does not listen. Neither facade
offers `destroyEntity`.

### ConnectionLifecycle and ServerContract

`ConnectionLifecycle` knows six stages, told by public tags, and says which
stages one beginUpdate and one endUpdate may take an entity to. `ServerContract`
adds two history variables (what the application saw when control last came
back to it; a bit that flips on each return of beginUpdate) and instantiates the
abstract module with them. A connection that skips "new" or "disconnected", or
shows it for two updates, or an id that comes back, breaks the refinement.

### Session

`Session` extends `Server`, instantiates `Client` with variables of its own
(`c_...`) and puts a network between them. What each takes for its peer is now
the other program:
`PeerConnect` on the server is a `ConnectTo` of the client, and a connection the
one has closed is told to the other's kernel some time later, as an end of
stream or, if something was left unread, a reset. A connection in `Fragile` may
also break by itself. The client has one entity, its own, and uses its
connections in turn.

### MessageChannel and TcpMessageStream

`NetworkEngine` counts messages; `TcpMessageStream` follows the bytes of one
direction of one connection. On the sending side are the queue that
`sendTcpMessage` appends to, the frames that the send system makes of it, and
the offset `m_lastMessageByteSent`; on the receiving side the buffer, the
messages decoded in the last update and the counter of the parse loop; `wire` is
what the kernels hold. A header is the four bytes of a `uint32_t`
(`ByteEncoding`, which `MessageRegistry` uses too). The send and
the parse loop are one action per iteration, so the two sides interleave, and a
receive returns any prefix of what is on its way, so a frame is cut anywhere.
`partials` bounds how often the kernel takes a part of what it is offered, or
nothing. An offset beyond the end of a frame gives `sendData` a size that wraps
round `size_t` and is refused: `SendFails` covers it. Each side goes from "up"
to "pending" (tagged, still holding its components) to "down". Payloads are
opaque: those of `Payload` deserialize, any other throws out of the tick.

`disturbed` is a history variable: it records that the offset has been used
on a frame it does not belong to, or counted from the wrong byte, which is the
bug of section 6. `StreamIntact`, `ImplementsChannel` and `IntactMessagesArrive`
claim nothing beyond that; `EveryMessageArrives` does, and fails.

### MessageRegistry

What `DECLARE_MESSAGE_BEGIN`, `FIELD` and `DECLARE_MESSAGE_END` expand to is a
set of static members whose constructors run before `main`: the id, one registrar
per field, and the registrar of the creator. Those of one type run in the order
of the declaration, those of two types in any order, and each program has its
own; so there is one action for each kind of member, and `Next` interleaves the
types of both programs. Once both are in `main`, the properties quantify over
all messages of a program: `Serialize` and `CreateFromBytes` are the code's
loops over the registered fields, down to the bytes, with every subscript
followed. An `int` and a `float` are both four bytes that are copied, so both
are given by those bytes.

### AssociativeStore and SparseSet

`SparseSet` keeps the code's two structures and the removal that moves the last
component into the hole and looks through the index for the entry that must
follow it. The abstract store has only a map. Insertion carries the guard of its
only caller, `addComponentToEntity`.

### TcpSocket

The engine uses each socket from one thread, but the class guards every function
with a mutex, so the model has any number of threads. A call takes the mutex,
makes its system calls one step at a time, and gives the mutex back where it
returns. `connectTo` and `bindSocket` share their loop over addresses and hence
their actions. `accepted` are the descriptors handed out in new `TcpSocket`
objects. Every system call may fail; `kernel` and `nonBlocking` say what the
kernel knows of a descriptor. What `listenSocket` does when listen fails, lock a
`std::mutex` its own thread holds, is undefined: the model takes both outcomes
that builds have, waiting for ever and an exception.

### UdpSocket

The two classes share no code but are made alike, so `UdpSocket` extends
`TcpSocket`, with a variable `class` that never changes: an object of class
"TcpSocket" takes the steps of that module, one of class "UdpSocket" takes those
that the two do in the same way and its own. Its own are the reading of the port
after a successful bind, whose failure closes the descriptor again, a
`setBlocking` that remembers nothing, and `sendto` and `recvfrom`, which on a
descriptor that blocks return only when something arrives (`UdpWaited`, to which
no fairness is given).

## 3. Runs

| run | instance | shows |
|---|---|---|
| `engine` | `EngineResources`: 2 connections, 3 ids, accept limit 1, back pressure, one peer with an unknown message type, 3 start-ups | the seven invariants of the engine over every order of calls, and `WinsockCoversSockets`; 1,928,996 states |
| `server_contract` | 2 connections, 3 ids, accept limit 1, no back pressure | no live connection is closed under the server; refinement of `ConnectionLifecycle`; waiting connections are served, dead peers noticed, entities freed; 26,260 states |
| `session` | a server with 3 ids and a client with 2 connections in turn, the second fragile, no back pressure | the server hangs up on no client that is still there; a connected client is served; each side notices that the other has gone; 139,484 states |
| `registry` | 2 programs, 5 types, 2 of them under one id, 2 words, 3 strings | layouts are whole and agree; messages survive the way over; no read leaves the payload; unknown types are refused; 32,500 states |
| `stream` | 3 messages of 1 or 2 bytes, 1 partial send, failed sends, 1 message per tick | byte accounting of the stream; refinement of `MessageChannel`; every message arrives unless a side closes; 62,100 states |
| `sparse_set` | 4 entities, 2 components | index and vector agree; refinement of `AssociativeStore`; 633 states |
| `socket` | either class, 2 threads, 2 descriptors, 2 addresses, every function | no descriptor leaks, is owned twice or stays half-open; the mutex is given back; 198,623 states |
| `server_unknown_type`, `client_reconnect`, `client_stale_tag`, `stream_resume`, `socket_listen` | as above | disagreements of the code with its own text, section 6 |

Why the bounds suffice: an accept limit of 1 with two connections waiting makes
the limit bind; two connections and three ids give every pair of stages at once,
and the self entity in every stage beside them; ids are not reused, so an
instance's life is finite and each run explores all of it. Queued messages are
bounded by `MaxQueued`: what the systems tell apart is none and some. In the
stream, payloads of one and two bytes tell frames apart by content and length;
one partial send suffices, because the next frame already meets the stale offset
and a second one ends what the properties claim; a limit of one message per tick
with three queued leaves messages in the buffer for two later ticks.
`BackPressure` is whether the kernel may find a send buffer full. It is on in
`engine` and off in `server_contract` and `session`: with it, a server that has
something to send drops a healthy peer that is slow to read (section 6), and
`HealthyConnectionKept` and `ClientsAreKept` are false. What these two runs and
the theorems say of healthy connections is said of connections whose send buffer
never fills. Three start-ups are one each for a listener, a connection and a UDP
socket; a leak uses one up, so every mixture of leaks and sockets that fits is
reached. In the session, of two connections in turn the second meets what the
first left behind, and having only one of them fragile keeps an end by the peers
alone among the behaviours. There only the client queues messages
(`ClientQueued` is 1, the server's `MaxQueued` 0); that a server which sends,
too, hangs up on nobody is a theorem, for any two bounds. The registry's types
have no field, one, and two of each pair of kinds; two types share an id, one id
is another's with a byte added, and the strings are empty, one byte and two.
Four entities give a removal from the first, a middle and the last position with
an entry to move that is neither. Two descriptors let one be accepted or refused
while another is open; two addresses give a first, a last and no attempt. Where
`CHECK_DEADLOCK FALSE` stands, both sides of the stream have closed, static
initialization is over, the client of a `violation` run has used up its
connections, or a thread waits for itself in `listenSocket`, and nothing more
happens.

Fairness. `Systems` is weakly fair: update loops run to their end. The calls of
beginUpdate and endUpdate are strongly fair, because the application's loop
(TestServer and TestClient `main.cpp`) calls them for as long as the server runs
or the client is connected, whatever else it calls between. `AcceptConnection`
is strongly fair: accept and setBlocking do not fail for ever. Nothing is
assumed of peers. In `Session` the update loops of both programs and the
server's accept are fair in the same way, but of the calls only the two of
beginUpdate are (strongly, the client's as long as it is connected): no property
there needs an endUpdate. What one kernel has to tell the other arrives (weak
fairness of `ServerIsTold` and `ClientIsTold`); no connect, disconnect, start,
stop or break is fair. In `TcpSocket` a thread that holds the mutex is
scheduled, and nothing is assumed of which waiting thread gets it next:
`LockReleased` is about the holder, and exempts a thread that waits for itself,
which is `ListenReturns`' business. In the stream, `Sending` and `Parsing`
(loops that run to their end), `SendUpdate` and an update of the receiver are
weakly fair for the same reason, and bytes on their way are received eventually
(strong fairness of a receive that returns some). No fairness is given to either
close, nor to `SendTcpMessage`.

## 4. Proofs

`NetworkEngineProofs` proves `Spec => []IInv` for any set of connections, any
largest id, any limits, with and without back pressure and unknown types. None
of the properties is inductive alone. `IInv` is their conjunction, and each
part needs the others: that a socket has one owner (`OneOwner`) needs that a
connection in the backlog is queued and not yet open (`QueuedInBacklog`) and that
the backlog has no repetition; that a fresh entity starts with no component
needs `FreshIds`; that the sweep closes exactly the sockets of what it removes
needs `SocketHasConnection`; that a receive step never tags an entity whose
socket is gone needs `VisitsAreValid`, and that in turn needs that no entity is
left with both `Pending` and a socket once PendingDisconnectSystem has run.
The proof has one lemma per part; under each, one step per action, with the
actions that touch none of the part's variables dispatched by footprint lemmas
(`CompsChangedBy` and the like, which say which actions change a variable).

`FacadeProofs` shows that each step of a server or a client is a step of the
engine, so everything above holds of both, and that a server never closes a
healthy connection: with an extra invariant of servers (the self entity has no
socket, `Pending` on a connection with no back pressure means its peer is gone,
`Disconnected` and `Destroy` mean its socket is too), `HealthyConnectionKept`
follows for every server. The corresponding statement is false of clients
(section 6), and so is the same of servers with back pressure.

It also proves, for every server, the refinement that the run `server_contract`
checks on two connections. The invariant (`ContractInv`) says, for each phase of
an update, how far the systems that have run may have taken an entity from the
stage the application last saw it in: nowhere while the application has control
or messages are sent, from "disconnected" to "leaving" after the first system,
and after the last no further than the abstract step allows. It rests on `IInv`,
on the server's invariant and on the order of the systems.

Of a session it proves that each half takes the steps of its own module
(`SessionIsServerAndClient`), so that every theorem about servers holds of the
server in it, and that the server hangs up on no client that is still there
(`ServerHangsUpOnNobody`). The latter needs one more invariant, `EndsAreReal`:
an end the server's kernel reports is one that the client has made, which rests
on a client's closed connection never opening again (`ClosedForGood`). With the
server's invariant, nothing else makes it close what it accepted.

`EngineResourcesProofs` shows that the engine with its resources takes the
engine's steps, and that Winsock is never cleaned up once too often. What it
rests on is that nothing but the calls attaches a listener or a socket to the
engine's own entity: an accepted connection gets a fresh id, which is never the
engine's own (`FreshIds`), and a connect that gives up half-way takes a listener
away exactly when it cleans up for one.

`SparseSetProofs` proves, for any entities and components, that the index is
one-to-one onto the positions (`StoreInvariant`) and that a store implements a
map (`StoreIsMap`). The invariant is what the second rests on: the search by
value in the removal finds the one entry that has to move only because no two
entries point at the last position and some entry does.

`TcpSocketProofs` proves, for any threads, descriptors and number of addresses
and whatever fails, that no descriptor leaks or has two owners
(`DescriptorsAreOwned`) and that one still being tried is seen by its own call
only (`NoneIsHalfOpen`). Each is inductive with the types; the second is where
the mutex is needed, since any step of another function would need it too.
`SocketsOfBothClasses` is the same for objects of either class.

`ByteEncodingProofs` holds what the two modules below keep needing. A theorem of
the library that quantifies over predicates cannot be used here, so induction is
stated with a set: that a nonempty set of numbers has a least one
(`WFMin` of the library) gives `NumberInduction`, which gives
`SequenceInduction`, and with it what `FlattenSeq` makes of the empty, the longer
and the joined sequence. The others say where a cut falls in a concatenation,
and that a 32-bit number is read back from its bytes (`Uint32RoundTrip`).

`TcpMessageStreamProofs` proves, for any payloads and limits, the types of the
stream, its byte accounting (`StreamStaysIntact`) and the refinement of
`MessageChannel` (`StreamImplementsChannel`). `StreamIntact` says nothing once a
side has closed, and nothing of where the first undelivered frame begins, so it
is not inductive. `StreamInv` says instead that what was queued is what was
delivered and some `rest`, of which the bytes in the receiver's buffer and on
their way are the beginning; while the sender is not down, what is left over of
those bytes is what it has still to send. A receive moves bytes from one part to
the other, a send from the last to the second, a close cuts the last off. The
step that needs the rest is the parse: a buffer that has a whole frame, by its
own header, begins with the frame of the first message of `rest`, because the
buffer begins where that frame does; so what is cut out is that message, and no
frame is found that is not there. `OffsetInFrame` keeps the offset inside the
frame it is used on. `disturbed` guards all of this, since the code does break it
(section 6, 4); a loop that runs while its side is pending would break the
rest, which is why the invariant also says that loops run only while it is up.
The same case split gives the refinement: a parse delivers the next message, a
`sendTcpMessage` queues one, and no other step shows.

`MessageRegistryProofs` proves, for any programs, types, fields and hash
function and any order of initialization, that a type with an id of its own has
exactly its own fields in the order of its declaration (`TypesStayWhole`), and
that two programs lay out what they share in the same way (`ProgramsAgree`). The
invariant adds to `TypesAreWhole` that a type's id is set from its first step on
and is not touched by others, and that a creator is found only under the hash of
its type. The latter is why a type the reader lacks is refused
(`UnknownTypesAreThrown`). For the values, `ReadSoFar` says of the reader's fold
over the fields that after k of them the first k values are read and the offset
is where field k + 1 begins, that every byte read lies inside the payload and
that each value was found at a subscript of the payload, or at the one just past
the end if it is the last and an empty string; it is carried from field to field
by induction, and gives `SharedMessagesSurvive` and `ReadingStaysInside` when
all are read. The exception is exact: for a message that ends in an empty
string, every other subscript is still inside. The folds are those of the model:
their recursive functions are unfolded in the proof.

Assumptions: the named ASSUMEs of the modules, and `~BackPressure` where stated.

* `NetworkEngine`: `NoConn` is no connection, limits are positive.
  `EngineResources`: so is the number of start-ups. `TcpSocket`: no owner is no
  thread, the invalid descriptor is none.
* `TcpMessageStream`: payloads are bytes, fewer than 2^32 of them
  (`PayloadAssumption`). `serializeForNetwork` casts the size to `uint32_t` and
  would cut a larger one, but such a frame is not sent:
  `sendData` refuses what is larger than an `int` (`tcpSocket.cpp:223`).
* `MessageRegistry`: fields have kinds; hashes are `uint32_t`s (`HashAssumption`),
  as `hashTypeName` returns; an int or a float is four bytes (`WordAssumption`),
  which `deserializeField` takes them for; a string has fewer than 2^32 bytes
  (`StringAssumption`), since its size is cast like a payload's. Nothing is assumed
  of collisions: the properties name the types they hold of.

Only model-checked: the liveness properties (`LockReleased`, those of the stream,
the server and the session, and the fair half of the disagreements in section
6), which are arguments from fairness and ENABLED, out of the prover's reach.
Every invariant, action property and refinement of a passing run is a theorem.

## 5. Not modelled

* Two message types with one id: what they do to each other reads an object
  through the field offsets of another type, which is undefined. The model has
  both in the registry and claims something of the others only.
* `getTcpMessages`, the queries, `isOpen`, `isBlocking` and `getSelfEntityId` only
  read. `createSockAddr`, `netUtils.cpp` and most of `socketUtils.cpp` are
  checks and conversions without state, `CommonInclude` logs and error codes.
* What a failed call of the engine returns, where no state depends on it.
* Destructors of the singletons and the engine never run before the process
  ends. `isEntityValid` is inverted in the code (`networkEcs.cpp:20`) and nothing
  calls it. `TestServer` does not compile against `server.hpp` as it stands.
* Datagrams: no code sends or receives any. `UdpSocket` has the calls.
* The end of the process on SIGPIPE, and ids that wrap after 2^32 connections.

## 6. Where code and text disagree

1. **A client cannot reconnect** (`client_reconnect`). A lost connection leaves
   `NetworkRootComponentTag`; the next connect attaches its socket, fails on the
   tag, and returns with the socket in place.
2. **A disconnect can cost the next connection** (`client_stale_tag`). The tag
   of a connection about to be ended survives `Disconnect`.
3. **One unknown message ends the tick** (`server_unknown_type`): `deserialize`
   throws where its caller expects null.
4. **A partial send silences a connection** (`stream_resume`). The offset of the
   frame that was sent in part stays when the frame is done; the next frame
   goes out without its first bytes, and the receiver never finds a whole frame
   again. After a second partial send of one frame the offset is that call's
   count, not the position in the frame.
5. **A failed listen locks its own mutex** (`socket_listen`).

Four more that no text of the repository contradicts outright.

* A full send buffer makes the server drop a healthy peer that is only slow:
  `send` fails with EWOULDBLOCK, `sendData` reports it like any other failure
  (`tcpSocket.cpp:234`), and the send system tags the connection. The models have
  it (`BackPressure`) and no property catches it: those about healthy connections
  are checked and proved without it, and are false with it.
* An empty string at the end of a message is read through a subscript one past
  the end of its payload (`message.cpp:90`), which a standard library with checks
  stops at. `ReadsStayInside` allows that subscript and no other.
* `Server::Stop` closes the listening socket only: accepted connections stay
  open, and no update runs any more to end them.
* `bindSocket` reads the port where the descriptor is invalid and never where it
  is not, so a bind that fails on every address returns `SocketGetPortFailed`
  instead of `SocketBindFailed`, and one that succeeds leaves `m_port` at 0.

## 7. Plan

The modules of section 2 cover every component that keeps state. What could
still be added, where it would pay:

1. The liveness properties, whose safety parts are proved: what is left of each
   is an argument from fairness, for a prover that has one.
2. `Session` with several clients and with messages: its state is the product
   of two engines, so it needs an abstraction of the server first, for which
   `ConnectionLifecycle` is the candidate.
3. What an application sees that catches an exception out of `beginUpdate` and
   goes on: the messages of the entities not reached are still those of the last
   update (`messageSystem.cpp:108`).
