# A verification development for Malamute

Malamute is a message broker: clients talk to it over ZeroMQ sockets with the
Malamute protocol, and it carries three kinds of traffic. *Streams* copy each
message to every reader whose pattern matches its subject. *Mailboxes* hold
messages for one address. *Services* give each request to one of the workers
that offered to take such requests. This directory holds TLA+ models of the
broker, the TLC configurations that check them, and proofs for TLAPS.

Paths are relative to the repository; `mlm_server.c` means `src/mlm_server.c`.

## 1. The system

### Components

| Component | Files | State | Operations |
|---|---|---|---|
| Server thread | `mlm_server.c`, `mlm_server_engine.inc` | contexts by routing id, registry of addresses, offers and queues of services, table of zombies | one handler per protocol command, expiry of a silent client, traffic from stream engines, the end |
| Actor API | `mlm_server_engine.inc`, `mlm_server.c` | configuration tree, settings in force, port | LOAD, SET, SAVE, BIND, PORT, the monitor of the file |
| Stream engine, one thread per stream | `mlm_stream_simple.c` | selectors: patterns, each with the clients that asked for it | COMPILE, CANCEL, relay of a message |
| Mailbox actor, one thread | `mlm_mailbox_bounded.c` | a queue per address | STORE, QUERY, CONFIGURE |
| Message queue | `mlm_msgq.c` | list, running total of sizes, soft and hard limit, cursor | enqueue, dequeue, dequeue at the cursor, first, next, configure |
| Message | `mlm_msg.c` | fields, atomic reference count | new, link, unlink, copy to a protocol object |
| Client actor | `mlm_client.c`, `mlm_client_engine.inc` | state of its machine, replay list, two timers | API calls, heartbeat, expiry, reconnection, replay |
| Protocol codec | `mlm_proto.c` | one message object per socket, used again and again | send, receive, dup, to and from ZPL |
| Bit arrays | `zbits.c` | octets, how many are in use, cursor | set operations, searches, files; not part of any build target |
| Programs | `malamute.c`, `mshell.c`, `mlm_tutorial.c`, `mlm_perftest.c` | - | start-up, examples |

### How they interact

* The server thread is a reactor (zloop). A handler runs to its end before the
  next event is taken, so that a handler is atomic, unless it blocks in a send.
  One handler may raise an event on *another* client (`engine_send_event`): mail
  and requests are delivered this way, and an address is taken over this way.
* Server and stream engine share two pipes: commands one way, messages both
  ways. Commands and messages are not ordered with respect to each other. Client
  contexts and messages cross the pipes **as pointers**. Reference counts keep
  them alive: a context that is dropped while engines know it becomes a
  *zombie* until every CANCEL sent for it has been acknowledged.
* Server and mailbox actor share one pipe that only the server uses; QUERY
  and CONFIGURE wait for their reply.
* The server thread sends the mailbox actor its configuration as a pointer to the
  tree, and waits until the actor has read it.
* A caller of the client API waits for a reply of the client actor, which
  carries no mark of the call it answers; nor does an OK of the broker. The actor and the broker share a
  connection that the socket renews by itself; the broker takes the
  renewed one for a new peer.
* All that the broker receives and sends goes through one message object, and
  all that a client sends and receives through another.
* Nothing is persisted. A restart of the broker begins with empty tables; the
  client replays its commands.

### What is hard

Commands of several clients inside one handler (takeover, delivery, dispatch);
removal from lists that are being walked; a running total that stands for a sum;
limits that change at run time; pointers in pipes, freed memory that is used
again, messages and a configuration shared by two threads; blocking sends in both directions; a
client that times out, reconnects and replays while late answers arrive; fields
of a message object that are left from the message before; the order of
destruction while engines run; settings that are copies of a tree which may be
replaced. `PROJECT.json` lists these hazards, each at the line where it bites and
with the properties about it.

### What makes each component correct

* Connections: the registry of addresses is exactly the connected clients that
  have one, and a dropped client leaves nothing behind, nor does a stop.
* Mailboxes: mail to an address reaches its owners in order; none waits for an
  owner who is there; each mail is in one place; the actor behind its pipe is
  not noticed.
* Services: no request waits beside an offer that matches; requests with one
  subject keep their order; they go round the workers; the loop ends.
* Streams: a context is freed exactly when no engine knows it; a message
  lives exactly as long as a thread holds it; readers get what they asked for,
  all of it, in order.
* Queues: a bounded queue, whatever the configuration does.
* Client: there is one reply per call, and a call that is told of success can rely
  on its command; a reconnection renews all that was set up; a dead broker is noticed; mail keeps its order.
* Codec: what is received is what was sent and nothing else changes; a frame is
  as large as what is written into it; letters arrive as they were written.
* Configuration: what the file says is in force; all queues follow one file,
  although two threads read it.
* Bit arrays: a bitmap is a set of bits.

## 2. The modules

`Broker`, `Streams`, `MsgQueue` with `Mailbox`, `Session`, `Codec` with
`Letters`, `Control` and `Zbits` are the components. `Shutdown` extends
`Streams`, `Mailbox` extends `MsgQueue`, `Letters` extends `Codec`: they compose
several components, and each refers to the others for what it leaves out.
`BoundedQueue` and `BitSet` are abstract specifications. `MC...` modules hold
the instances for TLC and `...Proofs` modules the proofs: `StreamsProofs` those
about `Streams` and `Shutdown`, `MsgQueueProofs` those about `MsgQueue` and
`Mailbox`, `LettersProofs` those about `Codec` and `Letters`. `Lemmas` holds what
several of them need: least and greatest elements, a form of induction over
`0 .. k`, the existence of functions defined by recursion, and what appending to a
list or removal from it leaves.

### `Broker`: the server thread

| Model | Code |
|---|---|
| `state[p]`, `address[p]` | the context of routing id `p`: `s_client_t.state`, `client_t.address` (`NoAddress` is NULL) |
| `clients` | `server_t.clients`, the registry by address |
| `mailbox` | the queues of the mailbox actor |
| `offers`, `queue` | `service_t.offers`, `service_t.queue` |
| `dispatching`, `cursor` | the loop in `s_service_dispatch` and its list cursor |
| `sent`, `delivered`, `discarded` | history: what was accepted, sent out, dropped |

Each action is a command in a state of the machine in `mlm_server_engine.inc`,
with all that the handler does: `ConnectionOpen` expires an older owner of the
address, takes the entry and drains the mailbox. `MailboxSend` delivers to the
owner, or stores. `ServiceOffer` leaves the server in the dispatch loop, which
runs one request per step (`DispatchRequest`, `DispatchDone`) while no other
event is taken. `CommandRefused` stands for all commands that end in
`deregister the client, terminate`. `CloseInStart` is the one that goes wrong.
`Stop` and `Restart` lose everything that was not delivered.

Left out: OK, ERROR and PONG replies, PING and CREDIT, which change no state;
contents of messages (all messages have the size of one unit here; sizes
are the subject of `MsgQueue`); regular expressions (a pattern is the set of the
subjects it matches).

### `Streams`: contexts, engines and pipes

| Model | Code |
|---|---|
| `state[c]`, `peer[c]`, `refcount[c]`, `readers[c]`, `writer[c]` | what is at memory address `c`: free, or an `s_client_t` with its `client_t` |
| `zombies` | `s_server_t.zombies` by routing id |
| `cmdpipe[s]`, `topipe[s]`, `frompipe[s]` | the pipes of stream `s` |
| `selectors[s]`, `relaying[s]` | the engine: its selectors, and the sends it is in the middle of |
| `links` | the reference counts of messages |
| `blocked` | a STREAM SEND that waits for room in the pipe |
| `fault` | the server looked through a pointer to freed memory; nothing is said of what follows |
| `life`, `opens`, `cancels`, `log`, `asked`, `expected`, `delivered` | history |

Memory addresses and clients are different things here: `Open` takes any free
address, so that a new client may come to lie where an old one was, and `life`
tells the two apart. An engine is a thread of its own, with a step for a
command, one for taking a message, one for *each* copy it relays, and one for
dropping its reference; the server may run between any two of them. The order
of the selectors is not kept: copies of a message leave in any order. The pipes for
messages are limited (`PipeLimit`), the pipes for commands are not. Registration is
in `Broker`; a takeover is a `Drop` followed by an `Open` here.

### `Shutdown`: the end of the server thread

Extends `Streams` with the registry of one address and with what
`s_server_destroy` and `server_terminate` take apart, in their order.

| Model | Code |
|---|---|
| `phase` | how far `s_server_destroy` has come: contexts, zombies, then `server_terminate` with the engines, then the registry |
| `registry`, `address[c]` | the entry of `server_t.clients`, and `client_t.address`, which the entry's destructor sets to NULL |
| `alive`, `stopping` | engines that run, and the one that `zactor_destroy` waits for |
| `displaced` | history: routing ids that came back while their zombie lived |

The reactor has ended when the contexts go: nobody reads what the engines send,
and no CANCEL is acknowledged. `DestroyClient` is `s_client_destroy` without
deregistration, so that `ClientTerminate` has to look after the registry;
`StopEngine`, `EngineEnds` and `EngineGone` are the two halves of
`zactor_destroy`, with all steps of the engine between them.

### `MsgQueue`, `Mailbox` and `BoundedQueue`

`BoundedQueue` says what a queue promises: order, and that a message is dropped
exactly if it would bring the *sum* of sizes over the limit. `MsgQueue` is
`mlm_msgq.c` with its running total, its soft limit and its cursor; the
refinement `Queue == INSTANCE BoundedQueue WITH limit <- size_limit` is checked
as the property `IsBoundedQueue`. A queue belongs to a mailbox, which takes from
the front, or to a service, which walks through it.

`Mailbox` puts the queue of one address behind the pipe of the mailbox actor:
STORE is sent and forgotten, QUERY and CONFIGURE wait. `ActorIsTransparent` is a
second refinement of `BoundedQueue`: the contents are those the mailbox will
have when all STOREs under way have been handled (`AsSeen`). This is why `Broker`
may take a mailbox for a variable of the server.

### `Session`: a client, its caller and its broker

| Model | Code |
|---|---|
| `state`, `stopped` | `s_client_t.state`, `fsm_stopped` |
| `heartbeat`, `expiry`, `pinged` | the heartbeat timer; the expiry timer and what it is set to; whether a heartbeat has passed since the last input |
| `connected` | what `mlm_client_connected` reports |
| `replays`, `cursor` | `client_t.replays` and its list cursor |
| `held` | the name fields in `self->message` |
| `call`, `replies` | the method the caller waits in; the pipe back to it |
| `toserver`, `toclient` | the connection |
| `up`, `owner`, `known`, `stored` | of the broker: whether it runs, whether this client is registered (`gone`: under a routing id it no longer has), what it set up, mails for it |
| `app`, `lost`, `gaveup` | history |

`ReceiveOK`, `ReceiveError`, `ReceivePong`, `ReceiveDeliver`, `Heartbeat`, `Expired`
and the calls are the events of the machine in `mlm_client_engine.inc`; each
consists of one action per group of states in which the machine does the same
(`OKConnecting`, `OKReconnecting`, ...), the discarding of what a state does not
expect among them. `Replay` is the chain of
replay events, which the machine runs without waiting for anything. `Serve...`
are the broker's answers. `Crash`, `Break` and `ServerExpires` are what may go
wrong: the connection is cut at any two points of what is under way in both
directions. Timeouts come when all is silent, or, `MaxLate` times, when an
answer is on its way.

A command of the caller and its handling by the actor are one step. The timers are not
clocks: the expiry timer (four heartbeats) fires after at least one heartbeat
without an input.

### `Codec` and `Letters`

`Codec` is `mlm_proto.c`: `Frames` is what `mlm_proto_send` writes for each of the
18 messages, octet by octet (numbers in network order, strings of at most 255
octets, long strings, content as frames), `FrameSize` the size it allocates
before, `Receive` what `mlm_proto_recv` leaves in an object that may hold any
earlier message, `Dup`, `Zpl` and `FromZpl` the copies. Strings are sequences of
octets; in the run they are of length 0, 1 and 255 for the most part.

`Letters` sends letters through it: from the application into the object of a
client, as frames to the object of the broker, into an `mlm_msg` in a mailbox, the
queue of a service or the pipe of an engine, into the object of the broker
again (`SetProto`, `mlm_msg_set_proto`), as frames to the object of the receiver.
Routing, limits and failures are those of the other modules.

### `Control`: configuration and actor API

| Model | Code |
|---|---|
| `disk`, `version` | the files, and how often each was written |
| `tree` | `s_server_t.config`: which tree it is, what it was loaded from and when |
| `seen` | which tree `server_t.config` points to |
| `timeout`, `limits`, `bound`, `port` | settings in force; the limits of mailboxes are those of the mailbox actor |
| `pipe`, `answers`, `waiting` | CONFIGUREs on their way to the mailbox actor, each the address (here the number) of a tree; its answers; whether the server thread waits for one |
| `applied` | history: the values that were applied last |
| `loading` | the LOAD that `malamute.c` sends at its start |

`Load`, `Set`, `Save` and `BindTo` are the branches of `s_server_handle_pipe`,
`Watch` is `s_watch_server_config`, `Edit` whoever edits a file. A reload by the
monitor applies everything; SET applies the timeout.

A configuration is applied in three steps of two threads. `Apply` is
`s_server_config_service` and `server_configuration` up to the receive it waits in: it
sets the limits of services and sends the address of the tree. `MailboxConfigures` is
the mailbox actor, which reads what is at that address *then* (`Readable`: anything, if
the tree was freed). `TakeAnswer` lets the server thread go on. In between a file may
be edited and the broker started again.

`Start` is the main program with the default file it writes. A broker in the
background changes to its working directory before the name of the file goes to the
actor, so that a relative name may denote another file there (`Elsewhere`), or none:
`zsys_daemonize` comes before the LOAD in `malamute.c`. A main program that fails
before it starts the actor changes nothing and has no step.

### `Zbits` and `BitSet`

`BitSet` says that bitmaps are sets of bits. `Zbits` is `zbits.c` with its words of
64 bits, the number of octets in use, which all operations rely on, and the
cursor. All bitmaps of a behaviour have one size (`size`, chosen among `Sizes`).
`IsBitSet` is the refinement. The octet behind the array, which three
searches may read, holds anything. Files are written and read at the sizes in
`FileSizes`, of which only 64 is possible: `zbits_fput` writes as many octets of the
array as a *pointer* to it has.

## 3. What TLC checks

| Run | Shows | Bounds, and why they do |
|---|---|---|
| `broker` | `TypeOK`, `RegistryExact`, `MailboxDrained`, `MailInOrder`, `Accounted`, `OffersLive`, `NoIdleWorker`, `RequestsInOrder`, `FairTurn`, `DispatchEnds`, `DeliveredToRightClient` | Two peers (an owner and one who takes over or sends), one address and the anonymous one, one service, two patterns of which one contains the other, so that the dispatch loop skips some requests and removes others; three messages, a mailbox and a queue for two, so that both overflow; two offers |
| `streams_refs` | `NoDangling`, `RefsExact`, `ZombiesReaped` | Memory for two contexts and three lives, so that memory is used again; two streams, two READs per client, on one or on both |
| `streams_traffic` | `DeliveredAsAsked`, `NoneMissed`, `StreamInOrder`, `LinksExact` | Two clients that read and write one stream with two subjects, one of which is asked for; pipes for two messages, so that sends block on both sides; three messages; one STREAM CANCEL |
| `shutdown` | `TablesExact`, `FreedAtEnd`, `ShutdownEnds` | Three lives in the memory of two, so that memory is used again, with the address or without; one stream and one message under way; the stop at any moment |
| `msgq` | `WalkComplete`, `IsBoundedQueue`, `WarnedOnce`, `ActorIsTransparent`, `ServerGoesOn` | Four messages of sizes 0, 1, 2 and limits 0, 2, 3 or none, so that a limit is met, hit exactly and exceeded; two reconfigurations at any time; any number of STOREs in the pipe |
| `session` | `SuccessHolds`, `SubscriptionsKept`, `MailsInOrder`, `LostOnlyInTrouble`, `NoticesDeath`, `ConfirmationEnds` | One client, two commands to set up, three calls or messages, two mails; one crash, broken connection or expiry and one early timeout, which may fall into any state, the replay included; one PING or its answer under way |
| `letters` | `RoundTrip`, `ExactFit`, `LetterKept` | Two clients, four set-up commands in any order, two letters: a subject of 255 octets and content of two frames, one of them empty; an empty subject and content of no frame |
| `control` | `OneConfiguration`, `FileApplied` | Two files of three contents or missing, one of which has the other's name in the working directory; three commands of the owner, two edits, at any time between the steps of the two threads |
| `zbits` | `UsedCovers`, `AnswersExact`, `IsBitSet` | Two bitmaps of one word, with files, or of two; bits 7 and 127 at the ends of the first and of the last octet, the rest by complement; two searches, so that a search starts from where another ended; two contents of the octet behind the array |

STREAM CANCEL is enabled only in `streams_traffic`: `NoDangling`, and what follows
from it, is false with it (below). The properties of `streams_traffic` hold
nevertheless, up to the moment when freed memory is touched. The
pipes for messages are long enough never to fill in `streams_refs` and `shutdown`
(`malamute.c` removes their limits) and short in `streams_traffic`.

Deadlock is checked in `Broker` only. In the others the bounds on the history
end every behaviour, and `Shutdown` is meant to end. `streams_traffic` takes the
permutations of clients and of memory addresses for symmetric; it checks no
liveness.

### Disagreements

Each of these runs checks one statement of the repository, and TLC finds a
behaviour of the code that contradicts it.

| Run | The code | The statement |
|---|---|---|
| `streams_cancel` | STREAM CANCEL sends a CANCEL to the engine of a stream the client need not read, so that no READ took a reference for it, and detaches the *first* stream of the list of readers, whichever that is (`mlm_server.c:1232`). In the run a client cancels a stream it never read and is dropped: the count is zero, the context is freed, and the engine still has the CANCEL that it will answer through the pointer | `mlm_server.c:428`: terminated "after all stream engine's references are dropped" |
| `session_stall` | a STREAM CANCEL in the replay list has no event: the client stays in `reconnecting` (`mlm_client.c:79`) | `mlm_client_engine.inc:1688`, "will automatically re-connect" |
| `letters_tracker` | `mlm_msg_set_proto` does not set the tracker: a letter that waited carries one the object of the broker received last (`mlm_msg.c:113`) | `mlm_proto.h:94`, the field of MAILBOX_DELIVER |

Modelled as the code does it, and found on the way, but without a run of their own:

* A CONNECTION CLOSE before any CONNECTION OPEN reads `*self->address`, which is
  NULL (`mlm_server.c:717`; `CloseInStart`, `ServeCloseOfUnknown`).
* Two matching patterns of one client bring it two copies
  (`mlm_stream_simple.c:205`, against "at most once" in `mlm_proto.xml:87`), so
  that `NoneMissed` asks for one at least.
* With limited pipes the server may block in a send to an engine that blocks in
  a send to the server (`mlm_server.c:539`), and at the end wait for an engine
  that blocks (`mlm_server.c:152`), though `MALAMUTE.md:174` says "never crash, nor
  block". The `malamute` program removes the limits at its start, `mlm_server`
  used as an actor does not.
* A second zombie of one routing id does not get into the table
  (`mlm_server_engine.inc:514`), and is not among "any zombie clients" that a
  shutdown destroys (`mlm_server_engine.inc:1379`): the exception in `FreedAtEnd`.
* An OK that comes after a reconnection timed out is discarded, and the next
  PONG makes the client `connected` without a replay
  (`mlm_client_engine.inc:1170`, against `mlm_client.xml:172`): an exception in
  `SubscriptionsKept`.
* After a CONNECT that timed out, the next one is refused as a second OPEN, and
  the client recovers without ever signalling its caller
  (`mlm_client_engine.inc:636`); nor does a set-up call that arrives during a
  replay return (`mlm_client_engine.inc:999`). So `ConfirmationEnds` is about the
  commands that went out.
* The client takes any OK in `confirming` for that to its call. With a PING and a
  set-up command on their way, a timeout that comes early gives FAILURE and
  `disconnected`, the PONG `connected`; the next set-up call enters `confirming`, and
  the late OK to the *first* command is signalled as the SUCCESS of the second
  (`mlm_client_engine.inc:843`); in the same way the OKs to replayed commands
  count for calls after a reconnection. `SuccessHolds` therefore does not say
  that a call gets the OK to its own command. It says what a caller told of SUCCESS can
  rely on: the command is the last of the replay list; until something
  broke or a timeout came early, the broker has carried it out; and after that it has,
  or the command is on its way, or the broker will refuse what comes next, so that the
  client connects again and replays it. Its exceptions are those of
  `SubscriptionsKept`. (Should the broker refuse the second command after all, the
  caller was told otherwise: the ERROR then ends the client.)
* SET of a limit changes the tree and no queue (`mlm_server_engine.inc:1508`); a
  reload binds the endpoints again, which fails, and PORT then returns -1
  (`mlm_server_engine.inc:1414`).
* A LOAD that fails leaves `server_t.config` at a tree that was destroyed
  (`mlm_server_engine.inc:1497`): the exception in `OneConfiguration`. Any SET after
  it sets the client timeout to sixty seconds.
* A field that does not fit its frame ends `mlm_proto_recv` at `malformed` with a
  return value of 0 (`mlm_proto.c:1226`), as if the message were whole (`Get` of
  `Codec`). Frames that programs of this library send always fit.
* `malamute.c:79` takes a file with a syntax error for a missing one and writes
  the default over it (`Start`).
* `zbits_last` finds the last bit and returns 0 (`zbits.c:319`); a full bitmap is
  searched one octet beyond its end (`zbits.c:341`); `zbits_next_zero` and
  `zbits_prev_zero` may return the place they start from (`zbits.c:407`,
  `zbits.c:435`): what `AnswersExact` leaves out. Files hold eight octets of a bitmap
  (`zbits.c:477`).

### Fairness

* `Broker`: the dispatch loop, a `while` loop that waits for nothing.
* `Streams`: each engine (a thread that polls), forwarding from each
  engine (the reactor serves every socket) and a blocked send once there is
  room. No client is assumed to send anything. `ZombiesReaped` needs pipes that do
  not fill up, as in the `malamute` program.
* `Shutdown`: each engine, and the server thread, which runs straight through.
  That a stop begins is not assumed.
* `Mailbox`: the actor, and the server's taking of a reply.
* `Session`: the reactor of the client actor (messages, the heartbeat, and the
  expiry timer when nothing is on its way), the broker while it runs, and a
  caller that takes the reply it waits for. No call, message, trouble or
  restart is assumed, nor that anything arrives early or late.
* `Control`: a LOAD that was sent is taken, and the monitor runs every second, when the
  server thread does not wait; the mailbox actor reads its pipe, and the server thread
  takes the answer it waits for.

## 4. What is proved

The theorems hold for every value of the constants that satisfies the assumptions
named in the modules, and without other bounds than those of the specification
(`MaxSends` and the like may be any number). Nothing else is assumed.

| Module | Theorem | Statement |
|---|---|---|
| `BrokerProofs` | `TypeCorrect` | `Spec => []TypeOK` |
| | `RegistryCorrect` | `Spec => []RegistryExact` |
| | `OffersCorrect` | `Spec => []OffersLive` |
| | `MailboxCorrect` | `Spec => []MailboxDrained` |
| | `NoIdleWorkerCorrect` | `Spec => []NoIdleWorker` |
| | `MailInOrderHolds` | `Spec => []MailInOrder` |
| | `RequestsInOrderHolds` | `Spec => []RequestsInOrder` |
| | `AccountedHolds` | `Spec => []Accounted` |
| | `FairTurnHolds` | `Spec => []FairTurn` |
| | `DeliveredRight` | `Spec => DeliveredToRightClient` |
| `StreamsProofs` | `LinksExactHolds` | `Spec => []LinksExact` |
| | `StreamInOrderHolds` | `Spec => []StreamInOrder` |
| | `NoDanglingHolds` | `Spec => [](cancels = 0 => NoDangling)` |
| | `RefsExactHolds` | `Spec => [](cancels = 0 => RefsExact)` |
| | `DeliveredAsAskedHolds` | `Spec => []DeliveredAsAsked` |
| | `NoneMissedHolds` | `Spec => []NoneMissed` |
| | `TablesExactHolds` | `ShutdownSpec => []TablesExact` |
| | `FreedAtEndHolds` | `ShutdownSpec => []FreedAtEnd` |
| `MsgQueueProofs` | `WalkIsComplete` | `Spec => []WalkComplete` |
| | `ReportedOnce` | `Spec => WarnedOnce` |
| | `ImplementsBoundedQueue` | `Spec => IsBoundedQueue` |
| | `LinkHolds` | `MailboxSpec => [](Inv /\ LinkInv)` |
| | `ActorUsesQueue` | `MailboxSpec => Spec` |
| | `MailboxIsQueue` | `MailboxSpec => ActorIsTransparent` |
| `ControlProofs` | `OneConfigurationHolds` | `Spec => []OneConfiguration` |
| `SessionProofs` | `SuccessHoldsAlways` | `Spec => []SuccessHolds` |
| | `MailsInOrderHolds` | `Spec => []MailsInOrder` |
| | `LostOnlyInTroubleHolds` | `Spec => []LostOnlyInTrouble` |
| | `SubscriptionsKeptHolds` | `Spec => []SubscriptionsKept` |
| `ZbitsProofs` | `TypesHold` | `Spec => []TypeOK` |
| | `UsedCoversHolds` | `Spec => []UsedCovers` |
| | `AnswersHold` | `Spec => []AnswersExact` |
| | `RefinesBitSet` | `Spec => IsBitSet` |
| `LettersProofs` | `LettersHold` | `Spec => []LettersInv` |
| | `RoundTripAlways` | `Spec => []RoundTrip` |
| | `ExactFitAlways` | `Spec => []ExactFit` |
| | `LetterKeptAlways` | `Spec => []LetterKept` |

### `BrokerProofs`: registry, mailboxes and offers

`TypeOK` is inductive on its own and comes first (`TypeInit`, `TypeStep`). The
others need each other, and two facts more, and together form `Inv`:

* `ConnectedHasAddress`: deregistration skips its cleanup for a context without
  an address, so no connected context may lack one, or its offers would
  outlive it;
* `WaitingUnmatched`: *during* a dispatch, the requests the cursor has
  passed match no offer. `NoIdleWorker` follows when the loop ends. Offers that go
  do no harm (`FewerOffers`), a queued request matched no offer when it came,
  and an offer moved to the end of its list still matches what it matched.

`InvStep` has a step per action. It rests on lemmas about lists: `WithoutLemma`
(what the removal of a client's offers leaves; by least counterexample, since
the function is defined by recursion), `RemoveAtLemma`, `MovedToEndLemma` and
`TakerLemma`.

### `BrokerProofs`: where messages go, and in which order

`StepMoves` reduces every step of the broker to one of nine movements of messages
(`MailStored`, `RequestDispatched`, ...). This is where the invariant of
the registry does its work: a new mail may go past a mailbox because
`MailboxDrained` says that the mailbox is empty, and a new request past a
queue because `WaitingUnmatched` says that none like it waits there.
`OrderInv` consists of that invariant and of what is proved once per movement:

* `AnonymousFree`: nobody owns the empty address;
* `Addressed`: what lies in a mailbox or queue is addressed to it and is numbered
  as it was sent;
* `AllInOrder`: among messages of one kind, what waits is later than what was
  delivered, and each list is in order;
* `AllPlaced`: each number that was given out is in exactly one place. It is stated
  with "one list and one place in it" and not with a count, since a sum over all
  mailboxes and queues could not be reasoned about step by step;
  `OnePlaceCounts` leads from it to `Accounted`;
* `AllInTurn`, which is `FairTurn` for all services: when an offer is passed over,
  the one that is taken stands before it (`TakerIsFirst`).

`DeliveredToRightClient` is an action property: `StepIsRight` shows it for a step from
`OrderInv`.

### `StreamsProofs`: contexts, messages and engines

As above, `StepMoves` reduces every step to one of nine movements in the pipes of
one stream. There are five inductive invariants, each on top of the ones before:

* `MessagesInv`: types; `InPlace`, every place of a stream holds messages of that
  stream; `AllLinedUp`, the messages of a stream stand in the order they
  were published, from the clients over the server's pipe, the engine and the
  engine's pipe back to the send that blocks; `LinksExact`. Order needs all the
  places at once: what is delivered is not newer than what is
  relayed, which is older than what is in the pipe, and so on.
* `RefsInv`, while `cancels = 0`: `Counted`, the reference count of a context is
  the length of its readers list and the number of CANCELs and ACKs on their way;
  and `AllCovered`, *behind* whatever an engine knows of a client (a selector, a COMPILE in
  the pipe, a copy it is sending, an item for the server) there is
  something that still holds a reference: the READ, a CANCEL, or the ACK of one,
  *later in the same pipe*. Without the order in the pipes it would not be inductive:
  an ACK that overtook a copy would free the context under it. A held context
  is thus counted, and a counted one is not free: `NoDangling`. References of all
  streams are summed up as the cardinality of a set of pairs (`AllPending`),
  which the lemmas `PairsMore`, `PairsLess` and `PairsList` follow.
* `LivesInv`: no two contexts have one number (`life`), and whatever is on
  its way under the address of its publisher would not return to it, also when the
  memory was used again in between (`NoEcho`).
* `AskedInv`, while `cancels = 0`: whatever an engine knows or sends of a client, the
  client *that is now at this address* asked for. Here `NoDangling` is needed:
  a context that an engine holds keeps its life (`HeldLives`).
* `KnownInv`: a subscription of a connected client is among the selectors with no
  CANCEL to come, or in the command pipe with none behind it
  (`SubscriptionsKnown`), and every delivery that is due has been made or
  is in one of four places (`NoneForgotten`). When a stream is drained, these
  places are empty: `NoneMissed`.

The hypothesis `cancels = 0` is not a weakness of the proof. STREAM CANCEL breaks the
counts, as the run `streams_cancel` shows (section 3); the other invariants hold with it.
`PatternAssumption` and `TaskAssumption` are the assumptions that the proofs use: patterns
are sets of subjects, and `NoTask`, which stands for NULL, is no task.

### `StreamsProofs`: the tables, and the end

`ServesStreams`: as long as the broker serves, a step of `Shutdown` is a step of
`Streams`, so that `NextTyped` applies (`ServingInv`). After that
the engines find a `$TERM` in their pipes, but nothing they send is read any more,
and only the tables matter. `StepMovesTables` reduces every step to one of four
movements: a context is created, freed with its entries, turned into a
zombie, or none changes. `TablesInv` holds through all of them. To `TablesExact` it
adds what the end needs: a peer has one context that serves it (`OnePerPeer`); one that
is served while a zombie of it lives has come back (`CameBack`); a zombie is in the
table or its peer came back (`ListedOrDisplaced`), also when the last
reference to *another* zombie takes the entry away; and how far
`s_server_destroy` has come (`Progress`). Nothing of this rests on reference counts
being right, and STREAM CANCEL does not occur in `Shutdown`.

### `MsgQueueProofs`: the queue

`Inv` has the running total equal to the sum it stands for (`TotalExact`), numbers in the
order of arrival, and `PassedSeen`: a walk has seen all that is left up to its
cursor, although messages are taken out under it. `IsBoundedQueue` follows, with
`TotalExact`, step by step: the decisions of the code, made on the total, are those
that `BoundedQueue` makes on the sum. The sum is a recursive *function*; that
appending and removing change it by one size is proved from the existence
of partial sums (`TotalIsLast`, `NatRecursion` of `Lemmas`) and `UpTo`, induction over
the places of a list. `ReportedOnce` needs `SilentRelieved`: a limit that may be
reported has been low since the last report.

### `MsgQueueProofs`: the actor behind its pipe

A step of `Mailbox` is a step of the queue or leaves it alone (`ActorUsesQueue`), so
that `Inv` holds behind the pipe too. `LinkInv` is about the pipe: a command whose
reply is awaited is the last (`AskedIsLast`), the mails on their way have the
numbers that they will have in the queue (`Numbered`), there is one reply at most
and then no command (`OneReply`), and the queue of a service has no actor (`NoActor`).

`MailboxIsQueue` shows that the server cannot tell the actor from a queue of its
own. What it sees (`AsSeen`) is the queue after all commands in the pipe, a
recursive function of the pipe. Two lemmas carry it along: a command that is sent is
handled last (`AfterAppend`), the command that is taken was handled first
(`AfterFirst`). So the actor's handling of a STORE changes nothing for the server,
and the sending of it is the `Enqueue` of `BoundedQueue`, the decision on the limit
included. QUERY and CONFIGURE take effect when the actor handles them; as nothing is
behind them and the server waits, this is a step of `BoundedQueue` also as seen.

### `SessionProofs`: a client, its caller and its broker

Six inductive invariants, each on top of some of the others.

* `CallsInv`: the machine owes a reply only while a call waits for one and none is
  in the pipe (`Owing`), so that there is one reply at most (`OneReply`). The states
  that answer are entered by a call only, and left with the answer; the state in
  which an error has ended the machine is the exception that `SuccessHolds` names.
* `MailsInv`: what the application has is older than what is in the connection, and
  that is older than what waits at the broker (`Placed`); nothing waits while the
  broker knows the client. So a CONNECTION OPEN, which passes on what waits, puts it
  behind everything else, and no cut of the connection changes the order of
  what it leaves.
* `CalmInv`: as long as nothing broke, no timeout came early and the client
  did not end (`Calm`), the broker is up, no mail is lost, and in each state the
  connection holds what belongs there (`Orderly`): the one CONNECTION OPEN or its
  answer while the client connects, then no error but the one that ends the
  client, and a PING or its answer whenever a heartbeat has passed without input
  (`Pulse`), so that the expiry timer has no cause to fire. `MaxPings` must be at
  least one here: without PINGs silence would look like the end.
* `ForceInv`: each command in force (`InForce`) is `Secured`: it is on its way, with no
  CONNECTION OPEN and nothing that overrides it behind it; or the broker has
  carried it out, and nothing on its way undoes that; or the broker does not know
  the client and no CONNECTION OPEN is on its way, so that it will refuse whatever
  comes next, and the client will connect again. The last is what saves a command
  that was cut off: the broker took the renewed connection for a new peer. In the
  states of connecting nothing is claimed, since the replay sends everything
  behind its CONNECTION OPEN (`SecuredReplay`).
* `TellInv`: the state in which a reply is due belongs to the call that waits, and a
  set-up call in `confirming`, or told of success, has its command at the end of the
  replay list (`Listed`).
* `PromiseInv`, while `Calm`: there is one set-up command at a time on its way
  (`Promised`). In `connected` there is neither a command nor an OK; in `confirming`
  there is the command of the call or, once the broker has carried it out, its one
  OK. This is what makes the OK that is taken the one to that command; an early timeout
  breaks it, since it leads out of `confirming` with the OK yet to come.

`SuccessHolds` puts them together: counted replies from `CallsInv`, the command in the
list from `TellInv`, what the broker did without trouble from `PromiseInv`, and with
trouble from `ForceInv`, of which the last command of the list is always in force.

`SubscriptionsKept` has two conditions, each for a behaviour of the code: `~gaveup` (a
reconnection that timed out, section 3) and `NeverCancelled`. A STREAM CANCEL stops
the replay, as `session_stall` shows; the next call sets it going again with what
`self->message` holds by then, and commands may come to the broker under a wrong
name. The second condition was found with the invariant: the list of the run
`session` has no STREAM CANCEL in it.

### `ControlProofs`: the configuration

The invariant names the three stages of the talk between the threads. `Idle`: nothing is
on its way and the limits of both follow what was applied. `Asked`: the server thread
waits, the address of the tree *that is there now* is in the pipe, the tree holds what
was applied, and the services follow it. `Answered`: the mailboxes do too, and the answer
is on its way. Whatever replaces or changes the tree (LOAD, SET, the monitor) is done by
the server thread, which in the last two stages waits; SAVE and BIND leave the values
alone; a new start begins with new pipes. Hence what the mailbox actor reads at the
address is what was applied (`MailboxKeeps`). The pointer of the server (`PointerExact`)
is separate. Of the assumptions about files and contents none is used.

### `ZbitsProofs`: bit arrays

The assumptions used are that sizes are multiples of 64 and that files are of bitmaps
of 64 bits. The invariant is `TypeOK`, `UsedCovers` and `FileCovered`: what is in the
file is a bitmap of one word, all of it, with a number of octets in use that covers
it. Without the last a bitmap that is read could have bits in octets not in use.
Every operation but searches goes through `OnlyKeeps`: new contents, all in the
octets that come with them. `AnswersExact` follows from the invariant alone:
`NextOneIs` and `NextZeroIs` say that a search from any place finds the nearest bit,
since what is nearest lies before the end of the octet behind those in use, and the
octet behind the array comes after all that is in it. The refinement uses that words
in use hold all bits of both bitmaps (`CombinedFacts`) and that `zbits_insert` finds
the first bit that is not set (`FirstZeroIs`).

### `LettersProofs`: the codec

`Object` is the set of all message objects, whatever was received into them before:
texts of at most 255 octets, numbers as wide as their fields. `RoundTripHolds` and
`ExactFitHolds` are about every object and every one of the 18 messages. The code has
three lists of fields for each message: what is measured (`FrameSize`), what is
written (`Fields`) and what is read (`Layout`). `Spelt` says that they agree; it is
shown message by message. Each field alone can be read again: a number of two or
four octets (`TwoOctets`, `FourOctets`), a string behind its length. Reading is a
recursive function of the list (`GetAll`); that after `n` fields the object has
these fields from the message, and the others as before, while the octets of the
later fields are left, is an induction over `0 .. k` (`GetAllIsWritten`).

### `LettersProofs`: the letters

The proof is by the history `sent`. For the letters sent so far there are sets of what
may be under way: frames from a client (`Ups`) and to one (`Downs`), mails in the
mailbox, queue or pipe (`Mails`), and what an application may have received (`Arrived`).
They grow with `sent` (`AllGrow`), so that an action that sends nothing has only its own
step to account for. `LettersInv` says that every place holds what its set allows, that
a client is registered under its own address, and that the broker's object is *any*
object: nothing is claimed of what it holds between two messages, which is why a
field that is left over from the message before cannot help a letter through.

A channel holds frames, and a message is several. `Cut` says that the frames are
a row of whole messages; a sender adds one at the end (`CutAppend`) and a
receiver takes one from the front (`CutHead`). There `ReceivedIs` says which fields
come out. A handler of the broker that says several things in a row is a chain of
such steps (`Speeches`). There is a lemma for every action. `LetterKept` is then what
`Arrived` says: a letter that arrived has the subject, content and sender that were
written, and came to a client that may have it. The tracker is missing from
it, as the run `letters_tracker` says.

The assumptions used are those that `Codec` and `Letters` name: clients have different
addresses, names and subjects are texts, a timeout fits its 32 bits, and NULL is
neither a text nor a content.

### Only model-checked

* Liveness: `DispatchEnds`, `ZombiesReaped`, `ShutdownEnds`, `ServerGoesOn`,
  `NoticesDeath`, `ConfirmationEnds`, `FileApplied`. Fairness is stated with `ENABLED`,
  which the provers cannot handle.
* That the three statements of the repository under "Disagreements" are false: a proof
  shows what always holds, a behaviour of TLC's that something does not.

No safety property of a passing run is left to TLC alone.

## 5. Not modelled

* Of the server: VERBOSE, CLIENTLIST, STREAMLIST and SLOW_TEST_MODE, which change
  nothing of the broker's state or only print; the sections `echo` and
  `security` of the configuration; SET of `server/animate`.
* Of the client: `mlm_client_set_plain_auth`, `mlm_client_set_verbose`; two
  threads that share one client, which the API forbids; of a session the tickets
  with timeout 0.
* Of the codec: `mlm_proto_print`, the getters, and frames that no `mlm_proto_send`
  wrote: the peers are programs of this library.
* Of `zbits`: file operations that fail, files of bitmaps of more than one word,
  operations on two bitmaps of different sizes.
* `mshell.c`, `mlm_tutorial.c`, `mlm_perftest.c` and the self tests are users of the
  API without state of their own. Authentication is a library's (`zauth`); bindings,
  API models and packaging hold no logic of the broker.
* The wire formats and threads of ZeroMQ: pipes and connections are lists, as
  long as they live.

## 6. Plan

Every safety invariant, action property and refinement that a passing run checks is
proved. What is left is an abstract specification of a stream, a log with a
position per reader, and `Streams` shown to implement it when no client reads with two
patterns; and of the behaviours in section 3 that have no run of their own,
those that deserve one.
