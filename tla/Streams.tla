------------------------------ MODULE Streams ------------------------------
(***************************************************************************)
(* Streams of the Malamute broker: the server thread, one engine thread    *)
(* per stream (mlm_stream_simple), and the pipes between them.             *)
(*                                                                         *)
(* The threads share client contexts by address: an engine keeps the       *)
(* pointer of each subscriber and hands it back with each message, and the *)
(* server looks through the pointer without any table.  A context that an  *)
(* engine still knows is therefore not freed but turned into a zombie,     *)
(* until the reference count says that the engines are done with it.       *)
(*                                                                         *)
(* The pipes for messages hold PipeLimit items, after which a send blocks; *)
(* the pipes for commands are not limited.                                 *)
(*                                                                         *)
(* Registration, mailboxes and services are those of module Broker.  Here  *)
(* a context appears when its peer opens, and is dropped by one of the     *)
(* commands and events that deregister a client.                           *)
(***************************************************************************)
EXTENDS Integers, SequencesExt, FiniteSets

CONSTANTS
  Peer,       \* routing ids
  Ptr,        \* memory that can hold a client context, allocated or free
  Stream,     \* stream names
  Subject,    \* message subjects
  Pattern,    \* what readers ask for: each pattern a set of subjects
  NoPeer, NoPtr, NoStream, NoTask,
  Commands,   \* the commands the peers issue
  PipeLimit,  \* high-water mark of the message pipes
  MaxOpens,   \* bound on the contexts created in a behaviour
  MaxReads,   \* bound on the subscriptions of a client
  MaxCancels, \* bound on the STREAM CANCEL commands of a behaviour
  MaxSends    \* bound on the messages published in a behaviour

ASSUME NamesAssumption ==
  /\ NoPeer \notin Peer
  /\ NoPtr \notin Ptr
  /\ NoStream \notin Stream
ASSUME PatternAssumption == Pattern \subseteq SUBSET Subject
ASSUME BoundsAssumption ==
  /\ PipeLimit \in Nat \ {0}
  /\ {MaxOpens, MaxReads, MaxCancels, MaxSends} \subseteq Nat

\* What the engines are told, hand over and are busy with.
Selector == (SUBSET Subject) \X Ptr
Command == [method : {"COMPILE", "CANCEL"}, client : Ptr, pattern : SUBSET Subject]
Posted == [sender : Ptr, msg : Nat]
Relayed == [client : Ptr, msg : Nat]
Waiting == [stream : Stream, item : Posted]
Task == [msg : Nat, todo : SUBSET Selector]

ASSUME TaskAssumption == NoTask \notin Waiting \cup Task

VARIABLES
  state,      \* of the context at an address: "free", "connected", "zombie"
  peer,       \* its routing id (hashkey), NoPeer when it is free
  refcount,   \* its reference count; -1 is the largest size_t
  readers,    \* the list of streams it reads, one entry per STREAM READ
  writer,     \* the stream it writes to, or NoStream
  zombies,    \* the server's table of zombies by routing id
  cmdpipe,    \* commands for the engine of a stream
  topipe,     \* messages for the engine of a stream
  frompipe,   \* what the engine of a stream sends to the server
  selectors,  \* <<pattern, client>> pairs the engine of a stream knows
  relaying,   \* what an engine is sending to the server, and for whom
  links,      \* reference count of each message
  blocked,    \* a STREAM SEND that waits for room in topipe, or NoTask
  fault,      \* the server looked through a pointer to freed memory
  life,       \* history: number of the context at an address, 0 when it is free
  opens,      \* history: how many contexts were created
  cancels,    \* history: how many STREAM CANCELs were handled
  log,        \* history: the messages published, by number
  asked,      \* history: the subscriptions confirmed to readers
  expected,   \* history: the deliveries that are due
  delivered   \* history: every STREAM DELIVER sent, in order

contexts == <<state, peer, refcount, readers, writer, zombies>>
pipes == <<cmdpipe, topipe, frompipe>>
engines == <<selectors, relaying>>
counters == <<life, opens, cancels>>
history == <<log, asked, expected, delivered>>
vars == <<contexts, pipes, engines, links, blocked, fault, counters, history>>

ACK == 0  \* MLM_STREAM_ACK_CANCEL; messages are numbered from 1

Init ==
  /\ state = [c \in Ptr |-> "free"]
  /\ peer = [c \in Ptr |-> NoPeer]
  /\ refcount = [c \in Ptr |-> 0]
  /\ readers = [c \in Ptr |-> <<>>]
  /\ writer = [c \in Ptr |-> NoStream]
  /\ zombies = [p \in Peer |-> NoPtr]
  /\ cmdpipe = [s \in Stream |-> <<>>]
  /\ topipe = [s \in Stream |-> <<>>]
  /\ frompipe = [s \in Stream |-> <<>>]
  /\ selectors = [s \in Stream |-> {}]
  /\ relaying = [s \in Stream |-> NoTask]
  /\ links = <<>>
  /\ blocked = NoTask
  /\ fault = FALSE
  /\ life = [c \in Ptr |-> 0]
  /\ opens = 0
  /\ cancels = 0
  /\ log = <<>>
  /\ asked = {}
  /\ expected = {}
  /\ delivered = <<>>

-----------------------------------------------------------------------------
\* Helpers

\* The server thread is in its reactor, not stuck in a send and not crashed.
Reactor == blocked = NoTask /\ ~fault

Connected(c) == state[c] = "connected"

\* How many entries of a list are in the set T.
Count(list, T) == Cardinality({i \in DOMAIN list : list[i] \in T})

\* free: nothing of the context at c is left.
Free(c) ==
  /\ state' = [state EXCEPT ![c] = "free"]
  /\ peer' = [peer EXCEPT ![c] = NoPeer]
  /\ refcount' = [refcount EXCEPT ![c] = 0]
  /\ writer' = [writer EXCEPT ![c] = NoStream]
  /\ life' = [life EXCEPT ![c] = 0]

\* Mutant: a context is freed at once.
DestroyAtOnce(c) == Free(c) /\ UNCHANGED zombies

\* Mutant: the zombie is in no table.
ZombieUnlisted(c) ==
  IF refcount[c] = 0
  THEN Free(c) /\ UNCHANGED zombies
  ELSE /\ state' = [state EXCEPT ![c] = "zombie"]
       /\ UNCHANGED <<zombies, peer, refcount, writer, life>>

\* s_client_destroy: a context that is still referred to becomes a zombie;
\* zhash_insert does nothing when the table has the routing id already.
DestroyContext(c) ==
  IF refcount[c] = 0
  THEN Free(c) /\ UNCHANGED zombies
  ELSE /\ state' = [state EXCEPT ![c] = "zombie"]
       /\ zombies' = [zombies EXCEPT ![peer[c]] = IF @ = NoPtr THEN c ELSE @]
       /\ UNCHANGED <<peer, refcount, writer, life>>

\* Mutant: the reference is dropped and the zombie stays.
PutOnly(c) ==
  /\ refcount' = [refcount EXCEPT ![c] = @ - 1]
  /\ UNCHANGED <<state, peer, writer, life, zombies>>

\* Mutant: the zombie is freed and stays in the table.
PutAndKeepEntry(c) ==
  IF refcount[c] = 1 /\ state[c] = "zombie"
  THEN Free(c) /\ UNCHANGED zombies
  ELSE /\ refcount' = [refcount EXCEPT ![c] = @ - 1]
       /\ UNCHANGED <<state, peer, writer, life, zombies>>

\* engine_client_put: the last reference to a zombie frees it, and takes what
\* is stored under its routing id out of the table.
PutClient(c) ==
  IF refcount[c] = 1 /\ state[c] = "zombie"
  THEN Free(c) /\ zombies' = [zombies EXCEPT ![peer[c]] = NoPtr]
  ELSE /\ refcount' = [refcount EXCEPT ![c] = @ - 1]
       /\ UNCHANGED <<state, peer, writer, life, zombies>>

\* Mutant: every pattern matches.
AnySubject(s, sender, subject) == {sel \in selectors[s] : sel[2] # sender}

\* The selectors of s that match, without those of the sender.
Matching(s, sender, subject) ==
  {sel \in selectors[s] : subject \in sel[1] /\ sel[2] # sender}

\* Mutant: the relayed message is not linked.
Unlinked(id) == links

\* mlm_msg_link, mlm_msg_unlink
Link(id) == IF id = ACK THEN links ELSE [links EXCEPT ![id] = @ + 1]
Unlink(id) == IF id = ACK THEN links ELSE [links EXCEPT ![id] = @ - 1]

-----------------------------------------------------------------------------
\* The server thread

\* CONNECTION OPEN of a peer without a context.  A zombie that had the same
\* routing id may still be around.
Open(p, c) ==
  /\ Reactor /\ "CONNECTION_OPEN" \in Commands
  /\ opens < MaxOpens
  /\ state[c] = "free"
  /\ ~\E d \in Ptr : Connected(d) /\ peer[d] = p
  /\ state' = [state EXCEPT ![c] = "connected"]
  /\ peer' = [peer EXCEPT ![c] = p]
  /\ opens' = opens + 1
  /\ life' = [life EXCEPT ![c] = opens + 1]
  /\ UNCHANGED <<refcount, readers, writer, zombies, pipes, engines, links, blocked,
                 fault, cancels, history>>

\* STREAM WRITE: store stream writer.
StreamWrite(c, s) ==
  /\ Reactor /\ Connected(c) /\ "STREAM_WRITE" \in Commands
  /\ writer' = [writer EXCEPT ![c] = s]
  /\ UNCHANGED <<state, peer, refcount, readers, zombies, pipes, engines, links,
                 blocked, fault, counters, history>>

\* STREAM READ: store stream reader.  OK is sent before the engine compiles.
StreamRead(c, s, pattern) ==
  /\ Reactor /\ Connected(c) /\ "STREAM_READ" \in Commands
  /\ Len(readers[c]) < MaxReads
  /\ readers' = [readers EXCEPT ![c] = Append(@, s)]
  /\ cmdpipe' = [cmdpipe EXCEPT ![s] =
       Append(@, [method |-> "COMPILE", client |-> c, pattern |-> pattern])]
  /\ refcount' = [refcount EXCEPT ![c] = @ + 1]
  /\ asked' = asked \cup {[to |-> life[c], stream |-> s, pattern |-> pattern]}
  /\ UNCHANGED <<state, peer, writer, zombies, topipe, frompipe, engines, links,
                 blocked, fault, counters, log, expected, delivered>>

Cancel(c) == [method |-> "CANCEL", client |-> c, pattern |-> {}]

\* STREAM CANCEL: cancel stream reader.  The engine of stream s is told, and
\* the first entry of the readers list is dropped, whatever stream it names.
StreamCancel(c, s) ==
  /\ Reactor /\ Connected(c) /\ "STREAM_CANCEL" \in Commands
  /\ cancels < MaxCancels
  /\ cmdpipe' = [cmdpipe EXCEPT ![s] = Append(@, Cancel(c))]
  /\ readers' = [readers EXCEPT ![c] = SubSeq(@, 2, Len(@))]
  /\ cancels' = cancels + 1
  /\ asked' = {sub \in asked : sub.to # life[c] \/ sub.stream # s}
  /\ expected' = {due \in expected : due.to # life[c] \/ log[due.msg].stream # s}
  /\ UNCHANGED <<state, peer, refcount, writer, zombies, topipe, frompipe, engines,
                 links, blocked, fault, life, opens, log, delivered>>

\* The readers to whom a message that c publishes now is due: they asked for
\* it, and the engine has handled all their commands.
Due(c, s, subject, id) ==
  {[to |-> sub.to, msg |-> id] : sub \in
     {sub \in asked :
        /\ sub.stream = s /\ subject \in sub.pattern
        /\ \E d \in Ptr \ {c} :
             /\ Connected(d) /\ life[d] = sub.to
             /\ \A i \in DOMAIN cmdpipe[s] : cmdpipe[s][i].client # d}}

\* STREAM SEND of a client with a writer: write message to stream.  The send
\* blocks the server thread while the pipe to the engine is full.
StreamSend(c, subject) ==
  LET s == writer[c]
      id == Len(log) + 1
      item == [sender |-> c, msg |-> id]
  IN /\ Reactor /\ Connected(c) /\ "STREAM_SEND" \in Commands
     /\ s # NoStream
     /\ Len(log) < MaxSends
     /\ log' = Append(log, [stream |-> s, from |-> life[c], subject |-> subject])
     /\ links' = Append(links, 1)
     /\ expected' = expected \cup Due(c, s, subject, id)
     /\ IF Len(topipe[s]) < PipeLimit
        THEN /\ topipe' = [topipe EXCEPT ![s] = Append(@, item)]
             /\ UNCHANGED blocked
        ELSE /\ blocked' = [stream |-> s, item |-> item]
             /\ UNCHANGED topipe
     /\ UNCHANGED <<contexts, cmdpipe, frompipe, engines, fault, counters, asked, delivered>>

\* The engine made room: the send that blocked the server thread completes.
SendCompletes ==
  /\ blocked # NoTask
  /\ Len(topipe[blocked.stream]) < PipeLimit
  /\ topipe' = [topipe EXCEPT ![blocked.stream] = Append(@, blocked.item)]
  /\ blocked' = NoTask
  /\ UNCHANGED <<contexts, cmdpipe, frompipe, engines, links, fault, counters, history>>

\* Mutant: one CANCEL per stream, however often the client reads it.
CancelOncePerStream(c) ==
  [s \in Stream |->
     IF s \in ToSet(readers[c]) THEN Append(cmdpipe[s], Cancel(c)) ELSE cmdpipe[s]]

\* deregister_the_client: a CANCEL for each entry of its readers list.
CancelReaders(c) ==
  [s \in Stream |->
     cmdpipe[s] \o [i \in 1 .. Count(readers[c], {s}) |-> Cancel(c)]]

\* CONNECTION CLOSE, expiry, an exception or a refused command of client c:
\* deregister the client, terminate.
Drop(c) ==
  /\ Reactor /\ Connected(c)
  /\ cmdpipe' = CancelReaders(c)
  /\ readers' = [readers EXCEPT ![c] = <<>>]
  /\ DestroyContext(c)
  /\ expected' = {due \in expected : due.to # life[c]}
  /\ UNCHANGED <<topipe, frompipe, engines, links, blocked, fault, opens, cancels,
                 log, asked, delivered>>

\* s_forward_stream_traffic: one item from the engine of s.  Both branches
\* look through the client pointer.
ForwardTraffic(s) ==
  LET item == Head(frompipe[s])
      c == item.client
  IN /\ Reactor /\ frompipe[s] # <<>>
     /\ frompipe' = [frompipe EXCEPT ![s] = Tail(@)]
     /\ IF state[c] = "free"
        THEN /\ fault' = TRUE
             /\ UNCHANGED <<contexts, life, links, delivered>>
        ELSE /\ UNCHANGED fault
             /\ IF item.msg = ACK
                THEN /\ PutClient(c)
                     /\ UNCHANGED <<readers, links, delivered>>
                ELSE /\ links' = Unlink(item.msg)
                     /\ delivered' = IF Connected(c)
                          THEN Append(delivered, [to |-> life[c], msg |-> item.msg])
                          ELSE delivered
                     /\ UNCHANGED <<contexts, life>>
     /\ UNCHANGED <<cmdpipe, topipe, engines, blocked, opens, cancels, log, asked,
                    expected>>

-----------------------------------------------------------------------------
\* The engine thread of stream s

\* Mutant: a pattern that is known already keeps the clients it has.
FirstClientOnly(s, client, pattern) ==
  IF \E sel \in selectors[s] : sel[1] = pattern
  THEN selectors[s] ELSE selectors[s] \cup {<<pattern, client>>}

\* s_stream_engine_compile
Compile(s, client, pattern) == selectors[s] \cup {<<pattern, client>>}

\* s_stream_engine_handle_command.  After a CANCEL the engine sends an ACK,
\* which follows, in the same pipe, every message relayed to the client.
EngineCommand(s) ==
  LET cmd == Head(cmdpipe[s])
  IN /\ relaying[s] = NoTask /\ cmdpipe[s] # <<>>
     /\ \/ /\ cmd.method = "COMPILE"
           /\ selectors' = [selectors EXCEPT ![s] = Compile(s, cmd.client, cmd.pattern)]
           /\ UNCHANGED relaying
        \/ /\ cmd.method = "CANCEL"
           /\ selectors' = [selectors EXCEPT ![s] = {sel \in @ : sel[2] # cmd.client}]
           /\ relaying' = [relaying EXCEPT ![s] =
                [msg |-> ACK, todo |-> {<<cmd.pattern, cmd.client>>}]]
     /\ cmdpipe' = [cmdpipe EXCEPT ![s] = Tail(@)]
     /\ UNCHANGED <<contexts, topipe, frompipe, links, blocked, fault, counters, history>>

\* Mutant: the newest message is taken first.
TakeNewest(list) == [item |-> Last(list), rest |-> Front(list)]

\* zsock_brecv
TakeNext(list) == [item |-> Head(list), rest |-> Tail(list)]

\* s_stream_engine_handle_message takes a message from the pipe,
EngineMessage(s) ==
  LET item == TakeNext(topipe[s]).item
  IN /\ relaying[s] = NoTask /\ topipe[s] # <<>>
     /\ topipe' = [topipe EXCEPT ![s] = TakeNext(@).rest]
     /\ relaying' = [relaying EXCEPT ![s] =
          [msg |-> item.msg,
           todo |-> Matching(s, item.sender, log[item.msg].subject)]]
     /\ UNCHANGED <<contexts, cmdpipe, frompipe, selectors, links, blocked, fault,
                    counters, history>>

\* sends it once for every client of every selector that matches, blocking
\* while the pipe to the server is full,
Relay(s) ==
  /\ relaying[s] # NoTask
  /\ Len(frompipe[s]) < PipeLimit
  /\ \E sel \in relaying[s].todo :
       /\ frompipe' = [frompipe EXCEPT ![s] =
            Append(@, [client |-> sel[2], msg |-> relaying[s].msg])]
       /\ relaying' = [relaying EXCEPT ![s].todo = @ \ {sel}]
  /\ links' = Link(relaying[s].msg)
  /\ UNCHANGED <<contexts, cmdpipe, topipe, selectors, blocked, fault, counters, history>>

\* and drops its own reference.
RelayDone(s) ==
  /\ relaying[s] # NoTask /\ relaying[s].todo = {}
  /\ links' = Unlink(relaying[s].msg)
  /\ relaying' = [relaying EXCEPT ![s] = NoTask]
  /\ UNCHANGED <<contexts, pipes, selectors, blocked, fault, counters, history>>

-----------------------------------------------------------------------------
Engine(s) == EngineCommand(s) \/ EngineMessage(s) \/ Relay(s) \/ RelayDone(s)

Server ==
  \/ \E p \in Peer, c \in Ptr : Open(p, c)
  \/ \E c \in Ptr :
       \/ \E s \in Stream : StreamWrite(c, s) \/ StreamCancel(c, s)
       \/ \E s \in Stream, pattern \in Pattern : StreamRead(c, s, pattern)
       \/ \E subject \in Subject : StreamSend(c, subject)
       \/ Drop(c)
  \/ SendCompletes

Next == Server \/ \E s \in Stream : ForwardTraffic(s) \/ Engine(s)

Spec == Init /\ [][Next]_vars

\* The reactor serves every socket, a send completes when there is room, and
\* the engines are threads that poll.  No peer is obliged to send anything.
Fairness ==
  /\ WF_vars(SendCompletes)
  /\ \A s \in Stream : WF_vars(ForwardTraffic(s)) /\ WF_vars(Engine(s))

FairSpec == Spec /\ Fairness

-----------------------------------------------------------------------------
\* Properties

TypeOK ==
  /\ state \in [Ptr -> {"free", "connected", "zombie"}]
  /\ peer \in [Ptr -> Peer \cup {NoPeer}]
  /\ refcount \in [Ptr -> Int]
  /\ readers \in [Ptr -> Seq(Stream)]
  /\ writer \in [Ptr -> Stream \cup {NoStream}]
  /\ zombies \in [Peer -> Ptr \cup {NoPtr}]
  /\ cmdpipe \in [Stream -> Seq(Command)]
  /\ topipe \in [Stream -> Seq(Posted)]
  /\ frompipe \in [Stream -> Seq(Relayed)]
  /\ selectors \in [Stream -> SUBSET Selector]
  /\ relaying \in [Stream -> Task \cup {NoTask}]
  /\ links \in Seq(Int)
  /\ blocked \in Waiting \cup {NoTask}
  /\ fault \in BOOLEAN
  /\ life \in [Ptr -> Nat] /\ opens \in Nat /\ cancels \in Nat
  /\ log \in Seq([stream : Stream, from : Nat, subject : Subject])
  /\ asked \subseteq [to : Nat, stream : Stream, pattern : Pattern]
  /\ expected \subseteq [to : Nat, msg : Nat]
  /\ delivered \in Seq([to : Nat, msg : Nat])

Message == 1 .. Len(log)

\* What the engine of s will hand to the server, or may: by way of a selector,
\* a command, an item in the pipe or the message it is relaying.
Held(s) ==
  {sel[2] : sel \in selectors[s]}
  \cup {cmdpipe[s][i].client : i \in DOMAIN cmdpipe[s]}
  \cup {frompipe[s][i].client : i \in DOMAIN frompipe[s]}
  \cup (IF relaying[s] = NoTask THEN {} ELSE {sel[2] : sel \in relaying[s].todo})

\* No engine holds the address of a context that was freed, so that the
\* server never looks through one and a new context at that address never
\* inherits the subscriptions of the old one (engine_client_get and _put).
NoDangling == ~fault /\ \A s \in Stream : \A c \in Held(s) : state[c] # "free"

\* How many references to client c are on their way to, at or from the engine
\* of s: as a CANCEL, or as the ACK of one.
Pending(s, c) ==
  Count(cmdpipe[s], {Cancel(c)})
  + Count(frompipe[s], {[client |-> c, msg |-> ACK]})
  + (IF relaying[s] # NoTask /\ relaying[s].msg = ACK
        /\ \E sel \in relaying[s].todo : sel[2] = c THEN 1 ELSE 0)

\* Those of all streams, each with a number of its own.
AllPending(c) == UNION {{s} \X (1 .. Pending(s, c)) : s \in Stream}

\* The reference count of a context is the number of its READs that no ACK
\* took back: still in its list, or as a CANCEL or an ACK on the way.
RefsExact ==
  \A c \in Ptr : state[c] # "free" =>
    refcount[c] = Len(readers[c]) + Cardinality(AllPending(c))

\* How often message id is held: by a pipe, a blocked send or an engine.
Holders(id) ==
  LET s == log[id].stream
  IN Count(topipe[s], [sender : Ptr, msg : {id}])
     + Count(frompipe[s], [client : Ptr, msg : {id}])
     + (IF relaying[s] # NoTask /\ relaying[s].msg = id THEN 1 ELSE 0)
     + (IF blocked # NoTask /\ blocked.item.msg = id THEN 1 ELSE 0)

\* A message that two threads share lives as long as one of them holds it and
\* no longer: its count is the number of its holders (mlm_msg_link, _unlink).
LinksExact == ~fault => \A id \in Message : links[id] = Holders(id)

\* A reader gets the messages of a stream in the order they were published,
\* whatever the interleaving of the server with the engine.
StreamInOrder ==
  \A i, j \in DOMAIN delivered :
    /\ i < j
    /\ delivered[i].to = delivered[j].to
    /\ log[delivered[i].msg].stream = log[delivered[j].msg].stream
    => delivered[i].msg <= delivered[j].msg

\* Only a client that asked for such messages of the stream gets one, never
\* one who took over the memory of a context that asked for them, as long as
\* no STREAM CANCEL spoils the reference counts (see NoDangling), and nobody
\* gets what it published itself, though the engine compares addresses.
DeliveredAsAsked ==
  \A d \in ToSet(delivered) :
    /\ log[d.msg].from # d.to
    /\ cancels = 0 => \E sub \in asked :
         /\ sub.to = d.to
         /\ sub.stream = log[d.msg].stream
         /\ log[d.msg].subject \in sub.pattern

Drained(s) ==
  /\ topipe[s] = <<>> /\ frompipe[s] = <<>> /\ relaying[s] = NoTask
  /\ blocked = NoTask

\* Once a stream is drained, a reader the engine knew when a message was
\* published, and who stayed, has got the message.
NoneMissed ==
  \A due \in expected : Drained(log[due.msg].stream) => due \in ToSet(delivered)

\* Every zombie is freed in the end: the ACKs of its CANCELs arrive.
ZombiesReaped == \A c \in Ptr : state[c] = "zombie" ~> state[c] = "free"
=============================================================================
