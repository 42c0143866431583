------------------------------- MODULE Broker -------------------------------
(***************************************************************************)
(* The server thread of the Malamute broker: client connections, the       *)
(* registry of addresses, mailboxes and services.  One zloop thread runs   *)
(* every handler to its end, so a handler is one action.  The exception is *)
(* the dispatch loop of a new service offer, which delivers one queued     *)
(* request per step while the thread does nothing else.                    *)
(*                                                                         *)
(* Streams have an engine thread each and a module of their own, Streams.  *)
(* A mailbox is served by an actor that only the server thread talks to,   *)
(* and a QUERY waits for the reply: its state is part of this module.      *)
(*                                                                         *)
(* OK, ERROR and PONG replies change nothing in the broker and are left    *)
(* out, and with them CONNECTION PING and CREDIT; DELIVER messages are the *)
(* output the properties are about, and go to the history delivered.       *)
(***************************************************************************)
EXTENDS Integers, SequencesExt

CONSTANTS
  Peer,          \* routing ids of the sockets that talk to the broker
  Address,       \* client addresses
  Anonymous,     \* the empty address, which is never registered
  Service,       \* service names
  Subject,       \* message subjects
  Pattern,       \* what an offer accepts: each pattern a set of subjects
  NoPeer, NoAddress, NoService,
  Commands,      \* the commands the peers issue
  MailboxLimit,  \* size-limit of mailboxes, in messages of equal size
  QueueLimit,    \* size-limit of service queues, in the same unit
  MaxSends,      \* bound on the messages sent in a behaviour
  MaxOffers      \* bound on the offers that stand at a service

ASSUME NamesAssumption ==
  /\ NoPeer \notin Peer
  /\ NoAddress \notin Address
  /\ NoService \notin Service
  /\ Anonymous \in Address
  /\ Address \cap Service = {}
ASSUME PatternAssumption == Pattern \subseteq SUBSET Subject
ASSUME LimitAssumption ==
  /\ MailboxLimit \in Nat
  /\ QueueLimit \in Nat
  /\ MaxSends \in Nat
  /\ MaxOffers \in Nat

VARIABLES
  broker,       \* "running", "stopped" or "segfault"
  state,        \* state of a peer's context; "none" when it has none
  address,      \* self->address, NoAddress while it is NULL
  clients,      \* registry: address -> the context that owns it
  mailbox,      \* mails the mailbox actor holds for an address
  offers,       \* list of offers of a service, next in turn first
  queue,        \* requests of a service that no offer took yet
  dispatching,  \* service whose queue s_service_dispatch is walking
  cursor,       \* its position in that queue
  sent,         \* history: how many messages were accepted
  delivered,    \* history: every DELIVER sent, in order
  discarded     \* history: messages dropped at a limit or lost in a stop

registry == <<state, address, clients>>
services == <<offers, queue>>
loop == <<dispatching, cursor>>
history == <<sent, delivered, discarded>>
vars == <<broker, registry, mailbox, services, loop, history>>

Named == Address \ {Anonymous}
Mail == [id : Nat, to : Address]
Request == [id : Nat, to : Service, subject : Subject]
\* patience is history: how often the offer may still be passed over.
Offer == [client : Peer, pattern : Pattern, patience : Int]
Delivery == [to : Peer, msg : Mail \cup Request]

Init ==
  /\ broker = "running"
  /\ state = [p \in Peer |-> "none"]
  /\ address = [p \in Peer |-> NoAddress]
  /\ clients = [a \in Address |-> NoPeer]
  /\ mailbox = [a \in Address |-> <<>>]
  /\ offers = [s \in Service |-> <<>>]
  /\ queue = [s \in Service |-> <<>>]
  /\ dispatching = NoService
  /\ cursor = 0
  /\ sent = 0
  /\ delivered = <<>>
  /\ discarded = {}

-----------------------------------------------------------------------------
\* Helpers of the handlers

\* The reactor takes the next event only when no handler runs.
Idle == broker = "running" /\ dispatching = NoService

\* A message from an unknown routing id creates a context in state start.
InStart(p) == state[p] \in {"none", "start"}
Connected(p) == state[p] = "connected"

\* Mutant: only the first offer of the client is found.
WithoutFirst(list, client) ==
  IF \E i \in DOMAIN list : list[i].client = client
  THEN RemoveAt(list, CHOOSE i \in DOMAIN list :
                        /\ list[i].client = client
                        /\ \A j \in 1 .. i - 1 : list[j].client # client)
  ELSE list

\* zlistx_delete of every offer of client, the others keeping their order.
\* A recursive function, because SelectSeq is out of the provers' reach.
Without(list, client) ==
  LET kept[n \in 0 .. Len(list)] ==
        IF n = 0 THEN <<>>
        ELSE IF list[n].client = client THEN kept[n - 1]
        ELSE Append(kept[n - 1], list[n])
  IN kept[Len(list)]

\* Mutant: the entry stays.
StillRegistered(p) == clients

\* The registry without the entry of p, if p has one.
Unregistered(p) ==
  IF p # NoPeer /\ address[p] \in Named
  THEN [clients EXCEPT ![address[p]] = NoPeer]
  ELSE clients

\* Mutant: the context is deregistered but stays in the table of contexts.
DeregisterToZombie(p) ==
  /\ clients' = Unregistered(p)
  /\ offers' = [s \in Service |-> Without(offers[s], p)]
  /\ state' = [state EXCEPT ![p] = "zombie"]
  /\ address' = [address EXCEPT ![p] = NoAddress]

\* deregister_the_client, then terminate, for an expired or closed client.
\* A context that never opened has no address, and nothing to clean up.
DeregisterTheClient(p) ==
  /\ clients' = Unregistered(p)
  /\ offers' = IF address[p] = NoAddress THEN offers
               ELSE [s \in Service |-> Without(offers[s], p)]
  /\ state' = [state EXCEPT ![p] = "none"]
  /\ address' = [address EXCEPT ![p] = NoAddress]

\* msgs leave for peer p in this order.
Deliver(p, msgs) ==
  delivered' = delivered \o [i \in DOMAIN msgs |-> [to |-> p, msg |-> msgs[i]]]

\* Mutant: one QUERY, the reply to it does not lead to the next.
CheckOnce(p, a, msgs) ==
  /\ Deliver(p, msgs \o SubSeq(mailbox[a], 1, IF mailbox[a] = <<>> THEN 0 ELSE 1))
  /\ mailbox' = [mailbox EXCEPT ![a] = SubSeq(@, 2, Len(@))]

\* check_for_mailbox_messages after msgs were sent to p, the owner of a: each
\* QUERY that returns a mail raises the event that delivers it and QUERYs
\* again, so the handler ends with the mailbox empty.
CheckForMailboxMessages(p, a, msgs) ==
  /\ Deliver(p, msgs \o mailbox[a])
  /\ mailbox' = [mailbox EXCEPT ![a] = <<>>]

\* Mutant: the newest message is the first to leave.
EnqueueInFront(list, msg, limit) == IF Len(list) < limit THEN <<msg>> \o list ELSE list

\* mlm_msgq_enqueue: a message over the limit is dropped.
Enqueue(list, msg, limit) == IF Len(list) < limit THEN Append(list, msg) ELSE list

\* The numbers of the messages an Enqueue to a list with this limit drops.
Dropped(list, msg, limit) == IF Len(list) < limit THEN {} ELSE {msg.id}

\* Mutant: the request stays in the queue.
KeptInQueue(list, i) == list

\* mlm_msgq_dequeue_cursor with the cursor at i.
DequeueCursor(list, i) == RemoveAt(list, i)

\* Mutants: the cursor moves on after a removal, or never.
CursorSkips(taken) == cursor + 1
CursorStays(taken) == cursor

\* mlm_msgq_next: detaching moved the cursor back to the previous message.
NextCursor(taken) == IF taken THEN cursor ELSE cursor + 1

\* First offer of the list that takes the subject; 0 when there is none.
TakerOf(list, subject) ==
  LET takers == {i \in DOMAIN list : subject \in list[i].pattern}
  IN IF takers = {} THEN 0
     ELSE CHOOSE i \in takers : \A j \in takers : i <= j

\* The list with offer k served and the matching others passed over once more.
Served(list, k, subject) ==
  [i \in DOMAIN list |->
     IF i = k THEN [list[i] EXCEPT !.patience = Len(list) - 1]
     ELSE IF subject \in list[i].pattern
     THEN [list[i] EXCEPT !.patience = list[i].patience - 1]
     ELSE list[i]]

\* Mutant: the offer keeps its place.
KeptInPlace(list, k, subject) == Served(list, k, subject)

\* zlistx_move_end of offer k, which took a request with this subject.
MovedToEnd(list, k, subject) ==
  Append(RemoveAt(Served(list, k, subject), k), Served(list, k, subject)[k])

-----------------------------------------------------------------------------
\* CONNECTION OPEN in state start: register new client, send OK, check for
\* mailbox messages.  An existing owner of the address gets expired_event
\* first; the whole mailbox is then delivered, message after message.
ConnectionOpen(p, a) ==
  LET existing == IF a \in Named THEN clients[a] ELSE NoPeer
  IN /\ Idle /\ InStart(p) /\ "CONNECTION_OPEN" \in Commands
     /\ state' = [q \in Peer |-> IF q = p THEN "connected"
                                 ELSE IF q = existing THEN "none" ELSE state[q]]
     /\ address' = [q \in Peer |-> IF q = p THEN a
                                   ELSE IF q = existing THEN NoAddress ELSE address[q]]
     /\ clients' = IF a \in Named THEN [Unregistered(existing) EXCEPT ![a] = p]
                   ELSE clients
     /\ offers' = [s \in Service |-> Without(offers[s], existing)]
     /\ IF a \in Named THEN CheckForMailboxMessages(p, a, <<>>)
        ELSE UNCHANGED <<delivered, mailbox>>
     /\ UNCHANGED <<broker, queue, loop, sent, discarded>>

\* Any other command but CONNECTION CLOSE in state start is answered with
\* COMMAND_INVALID, and the context stays.
CommandInStart(p) ==
  /\ Idle /\ InStart(p)
  /\ Commands \ {"CONNECTION_OPEN", "CONNECTION_CLOSE"} # {}
  /\ state' = [state EXCEPT ![p] = "start"]
  /\ UNCHANGED <<broker, address, clients, mailbox, services, loop, history>>

\* CONNECTION CLOSE in state start: OK is sent, then client_closed_connection
\* reads through self->address, which is NULL.
CloseInStart(p) ==
  /\ Idle /\ InStart(p) /\ "CONNECTION_CLOSE" \in Commands
  /\ state' = [state EXCEPT ![p] = "start"]
  /\ broker' = "segfault"
  /\ UNCHANGED <<address, clients, mailbox, services, loop, history>>

\* CONNECTION CLOSE in state connected.
ConnectionClose(p) ==
  /\ Idle /\ Connected(p) /\ "CONNECTION_CLOSE" \in Commands
  /\ DeregisterTheClient(p)
  /\ UNCHANGED <<broker, mailbox, queue, loop, history>>

\* The ticket of a client that was silent for the timeout.  Nothing is sent.
Expired(p) ==
  /\ Idle /\ state[p] # "none"
  /\ DeregisterTheClient(p)
  /\ UNCHANGED <<broker, mailbox, queue, loop, history>>

\* A command the state machine refuses in state connected: CONFIRM and a
\* STREAM SEND without a writer raise exception_event, a second CONNECTION
\* OPEN is an unexpected event.  Either way: ERROR, deregister, terminate.
CommandRefused(p) ==
  /\ Idle /\ Connected(p)
  /\ Commands \cap {"CONFIRM", "STREAM_SEND", "CONNECTION_OPEN"} # {}
  /\ DeregisterTheClient(p)
  /\ UNCHANGED <<broker, mailbox, queue, loop, history>>

\* MAILBOX SEND: to the owner of the address when there is one, who then
\* checks the mailbox too; else the mailbox stores it, if it is not full.
MailboxSend(p, a) ==
  LET msg == [id |-> sent + 1, to |-> a]
  IN /\ Idle /\ Connected(p) /\ "MAILBOX_SEND" \in Commands
     /\ sent < MaxSends
     /\ sent' = sent + 1
     /\ IF clients[a] # NoPeer
        THEN /\ CheckForMailboxMessages(clients[a], a, <<msg>>)
             /\ UNCHANGED discarded
        ELSE /\ mailbox' = [mailbox EXCEPT ![a] = Enqueue(@, msg, MailboxLimit)]
             /\ discarded' = discarded \cup Dropped(mailbox[a], msg, MailboxLimit)
             /\ UNCHANGED delivered
     /\ UNCHANGED <<broker, registry, services, loop>>

\* SERVICE SEND: the first offer that matches takes the request, else it is
\* queued, if the queue is not full.
ServiceSend(p, s, subject) ==
  LET msg == [id |-> sent + 1, to |-> s, subject |-> subject]
      k == TakerOf(offers[s], subject)
  IN /\ Idle /\ Connected(p) /\ "SERVICE_SEND" \in Commands
     /\ sent < MaxSends
     /\ sent' = sent + 1
     /\ IF k # 0
        THEN /\ Deliver(offers[s][k].client, <<msg>>)
             /\ offers' = [offers EXCEPT ![s] = MovedToEnd(@, k, subject)]
             /\ UNCHANGED <<queue, discarded>>
        ELSE /\ queue' = [queue EXCEPT ![s] = Enqueue(@, msg, QueueLimit)]
             /\ discarded' = discarded \cup Dropped(queue[s], msg, QueueLimit)
             /\ UNCHANGED <<offers, delivered>>
     /\ UNCHANGED <<broker, registry, mailbox, loop>>

\* SERVICE OFFER: store offer, send OK, start dispatching the service.
ServiceOffer(p, s, pattern) ==
  LET offer == [client |-> p, pattern |-> pattern, patience |-> Len(offers[s])]
  IN /\ Idle /\ Connected(p) /\ "SERVICE_OFFER" \in Commands
     /\ Len(offers[s]) < MaxOffers
     /\ offers' = [offers EXCEPT ![s] = Append(@, offer)]
     /\ dispatching' = s
     /\ cursor' = 1
     /\ UNCHANGED <<broker, registry, mailbox, queue, history>>

\* One turn of the loop of s_service_dispatch: the request under the cursor
\* goes to an offer and leaves the queue, or the cursor moves past it.
DispatchRequest ==
  LET s == dispatching
      msg == queue[s][cursor]
      k == TakerOf(offers[s], msg.subject)
  IN /\ broker = "running" /\ dispatching # NoService
     /\ cursor <= Len(queue[s])
     /\ IF k # 0
        THEN /\ Deliver(offers[s][k].client, <<msg>>)
             /\ offers' = [offers EXCEPT ![s] = MovedToEnd(@, k, msg.subject)]
             /\ queue' = [queue EXCEPT ![s] = DequeueCursor(@, cursor)]
        ELSE UNCHANGED <<services, delivered>>
     /\ cursor' = NextCursor(k # 0)
     /\ UNCHANGED <<broker, registry, mailbox, dispatching, sent, discarded>>

\* The loop reached the end of the queue: the handler returns.
DispatchDone ==
  /\ broker = "running" /\ dispatching # NoService
  /\ cursor > Len(queue[dispatching])
  /\ dispatching' = NoService
  /\ cursor' = 0
  /\ UNCHANGED <<broker, registry, mailbox, services, history>>

\* The broker process is killed.
Stop ==
  /\ broker = "running"
  /\ broker' = "stopped"
  /\ UNCHANGED <<registry, mailbox, services, loop, history>>

Ids(list) == {list[i].id : i \in DOMAIN list}

\* The process starts again, with empty tables: nothing is persisted.
Restart ==
  /\ broker # "running"
  /\ broker' = "running"
  /\ state' = [p \in Peer |-> "none"]
  /\ address' = [p \in Peer |-> NoAddress]
  /\ clients' = [a \in Address |-> NoPeer]
  /\ mailbox' = [a \in Address |-> <<>>]
  /\ offers' = [s \in Service |-> <<>>]
  /\ queue' = [s \in Service |-> <<>>]
  /\ dispatching' = NoService
  /\ cursor' = 0
  /\ discarded' = discarded
       \cup (UNION {Ids(mailbox[a]) : a \in Address})
       \cup (UNION {Ids(queue[s]) : s \in Service})
  /\ UNCHANGED <<sent, delivered>>

Protocol(p) ==
  \/ \E a \in Address : ConnectionOpen(p, a)
  \/ CommandInStart(p)
  \/ CloseInStart(p)
  \/ ConnectionClose(p)
  \/ CommandRefused(p)
  \/ \E a \in Address : MailboxSend(p, a)
  \/ \E s \in Service, subject \in Subject : ServiceSend(p, s, subject)
  \/ \E s \in Service, pattern \in Pattern : ServiceOffer(p, s, pattern)

Dispatch == DispatchRequest \/ DispatchDone

Next ==
  \/ \E p \in Peer : Protocol(p) \/ Expired(p)
  \/ Dispatch
  \/ Stop
  \/ Restart

Spec == Init /\ [][Next]_vars

\* The dispatch loop never waits for anything: the thread runs it to its end.
FairSpec == Spec /\ WF_vars(Dispatch)

-----------------------------------------------------------------------------
TypeOK ==
  /\ broker \in {"running", "stopped", "segfault"}
  /\ state \in [Peer -> {"none", "start", "connected"}]
  /\ address \in [Peer -> Address \cup {NoAddress}]
  /\ clients \in [Address -> Peer \cup {NoPeer}]
  /\ mailbox \in [Address -> Seq(Mail)]
  /\ offers \in [Service -> Seq(Offer)]
  /\ queue \in [Service -> Seq(Request)]
  /\ dispatching \in Service \cup {NoService}
  /\ cursor \in Nat
  /\ dispatching # NoService => cursor # 0
  /\ sent \in Nat
  /\ delivered \in Seq(Delivery)
  /\ discarded \subseteq Nat

\* The registry and the contexts agree: an address is registered to p exactly
\* when p is connected under that address.  So an address has one owner, no
\* entry outlives its context, and a takeover (register_new_client expiring
\* the existing owner) leaves no second client that believes it owns it.
RegistryExact ==
  \A a \in Named, p \in Peer :
    clients[a] = p <=> Connected(p) /\ address[p] = a

\* Every standing offer belongs to a connected client.  An offer holds a bare
\* pointer: deregister_the_client must have found every offer of the client,
\* in every service, before the context is freed.
OffersLive ==
  \A s \in Service : \A i \in DOMAIN offers[s] : Connected(offers[s][i].client)

\* Mail never waits for a client that is there: the mailbox of a registered
\* address is empty (check_for_mailbox_messages drains it at OPEN, later mail
\* goes straight to the client).
MailboxDrained ==
  \A a \in Named : clients[a] # NoPeer => mailbox[a] = <<>>

\* Between two handlers no request waits in a queue while an offer stands
\* that matches it, whatever offers came, took requests or left.
NoIdleWorker ==
  dispatching = NoService =>
    \A s \in Service : \A i \in DOMAIN queue[s] :
      TakerOf(offers[s], queue[s][i].subject) = 0

IsMail(m) == m.to \in Address

\* Mails to one address reach its owners in the order they were sent, also
\* when some were stored, the owner changed, and others went direct.
MailInOrder ==
  /\ \A i, j \in DOMAIN delivered :
       LET m == delivered[i].msg
           n == delivered[j].msg
       IN i < j /\ IsMail(m) /\ m.to = n.to => m.id < n.id
  /\ \A a \in Address : \A j \in DOMAIN mailbox[a] :
       /\ \A i \in DOMAIN delivered :
            delivered[i].msg.to = a => delivered[i].msg.id < mailbox[a][j].id
       /\ \A i \in 1 .. j - 1 : mailbox[a][i].id < mailbox[a][j].id

\* Requests with one subject leave a service in the order they came, although
\* the dispatch loop overtakes requests no offer matches.
RequestsInOrder ==
  /\ \A i, j \in DOMAIN delivered :
       LET m == delivered[i].msg
           n == delivered[j].msg
       IN i < j /\ ~ IsMail(m) /\ m.to = n.to /\ m.subject = n.subject
            => m.id < n.id
  /\ \A s \in Service : \A j \in DOMAIN queue[s] :
       LET n == queue[s][j]
       IN /\ \A i \in DOMAIN delivered :
               LET m == delivered[i].msg
               IN m.to = s /\ m.subject = n.subject => m.id < n.id
          /\ \A i \in 1 .. j - 1 : queue[s][i].id < n.id

\* Parts of the inductive invariant.  The address of a context is set exactly
\* while it is connected, so deregister_the_client never skips its cleanup.
ConnectedHasAddress == \A p \in Peer : Connected(p) <=> address[p] # NoAddress

\* In the middle of a dispatch, the requests the cursor has passed match no
\* standing offer; in the queues of other services no request does.
WaitingUnmatched ==
  \A s \in Service : \A i \in 1 .. Len(queue[s]) :
    s # dispatching \/ i < cursor => TakerOf(offers[s], queue[s][i].subject) = 0

Inv ==
  /\ TypeOK
  /\ RegistryExact
  /\ ConnectedHasAddress
  /\ OffersLive
  /\ MailboxDrained
  /\ WaitingUnmatched

\* Where the message with number n is: each place once.
Places(n) ==
  {<<"delivered", i>> : i \in {j \in DOMAIN delivered : delivered[j].msg.id = n}}
  \cup {<<"discarded", i>> : i \in discarded \cap {n}}
  \cup (UNION {{<<"mailbox", a, i>> : i \in {j \in DOMAIN mailbox[a] : mailbox[a][j].id = n}}
                 : a \in Address})
  \cup (UNION {{<<"queue", s, i>> : i \in {j \in DOMAIN queue[s] : queue[s][j].id = n}}
                 : s \in Service})

\* Every accepted message is in exactly one place: queued, delivered to one
\* client, or discarded at a limit or by a stop.  None is lost, none is
\* delivered twice, also when the dispatch loop removes under its cursor.
Accounted == \A n \in 1 .. sent : Cardinality(Places(n)) = 1

\* An offer is never passed over more often than there were offers ahead of it
\* when it joined or was last served: requests go round the workers.
FairTurn == \A s \in Service : \A i \in DOMAIN offers[s] : offers[s][i].patience >= 0

\* A mail is delivered to the client that owns its address at that moment, a
\* request to a client with an offer that matches it.
NewDeliveries == Len(delivered) + 1 .. Len(delivered')
DeliveredToRightClient ==
  [][\A i \in NewDeliveries :
       LET p == delivered'[i].to
           m == delivered'[i].msg
       IN /\ state'[p] = "connected"
          /\ IF IsMail(m) THEN address'[p] = m.to
             ELSE \E k \in DOMAIN offers[m.to] :
                    offers[m.to][k].client = p /\ m.subject \in offers[m.to][k].pattern
    ]_vars

\* A service offer is dispatched to the end of the queue: the server thread
\* gets back to its reactor, whatever the queue and the offers hold.
DispatchEnds == dispatching # NoService ~> (dispatching = NoService \/ broker # "running")
=============================================================================
