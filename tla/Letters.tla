------------------------------ MODULE Letters ------------------------------
(***************************************************************************)
(* The way of a letter, from the application that sends it to the one that *)
(* gets it, through the message objects in between.                        *)
(*                                                                         *)
(* Each client actor has one mlm_proto object for all it sends and         *)
(* receives, and the broker has a single one for all clients: a handler    *)
(* reads its command from the object while the same handler, or one it     *)
(* triggers, puts answers and deliveries into it.  Between the two a       *)
(* letter is an mlm_msg: in the mailbox of an address, in the queue of a   *)
(* service, or in the pipe from a stream engine.                           *)
(*                                                                         *)
(* The encoding is that of module Codec.  Routing, limits and failures are *)
(* those of Broker, Streams and Session: here there is one stream and one  *)
(* service, patterns match every subject, nothing breaks, and a client     *)
(* that was refused does not come back.                                    *)
(***************************************************************************)
EXTENDS Codec, FiniteSetsExt

CONSTANTS
  Client,      \* routing ids
  AddressOf,   \* the address of each client
  StreamName, ServiceName, EmptyPattern,
  Letter,      \* what the applications write: subject, tracker, timeout, content
  MaxCommands  \* bound on the set-up commands, CONNECTION CLOSE included

ASSUME ClientAssumption == NoRoute \notin Client
ASSUME AddressAssumption == \A c, d \in Client : AddressOf[c] = AddressOf[d] => c = d
ASSUME NameAssumption ==
  /\ \A c \in Client : IsText(AddressOf[c])
  /\ IsText(StreamName) /\ IsText(ServiceName) /\ IsText(EmptyPattern)
\* A timeout of 32 bits.
ASSUME LetterAssumption ==
  /\ Letter \in Seq([subject : Seq(Octet), tracker : Seq(Octet), timeout : Nat,
                     content : Seq(Seq(Octet))])
  /\ \A n \in DOMAIN Letter :
       /\ IsText(Letter[n].subject) /\ IsText(Letter[n].tracker)
       /\ Letter[n].timeout \div 16777216 <= 255
ASSUME BoundsAssumption == MaxCommands \in Nat

NoText == NULL

VARIABLES
  phase,     \* of a client: "closed", "open", "failed", or the command it waits for
  roles,     \* the set-up commands that were confirmed to it
  proto,     \* its message object
  up, down,  \* frames from and to each client
  server,    \* the message object of the broker
  addresses, \* address of each client that is registered, or NoText
  writers,   \* clients that write to the stream
  readers,   \* those who read the stream, in the order they came
  offers,    \* those who offered the service, in the order of their turns
  mailbox, queue,  \* messages for addresses nobody has, for the service
  traffic,   \* messages from the engine, each with its reader
  sent,      \* history: the letters sent, with sender, kind and address
  app,       \* what each application received
  commands   \* how many set-up commands were issued

clients == <<phase, roles, proto>>
wires == <<up, down>>
broker == <<server, addresses, writers, readers, offers>>
stores == <<mailbox, queue, traffic>>
vars == <<clients, wires, broker, stores, sent, app, commands>>

Init ==
  /\ phase = [c \in Client |-> "closed"]
  /\ roles = [c \in Client |-> {}]
  /\ proto = [c \in Client |-> NewProto]
  /\ up = [c \in Client |-> <<>>] /\ down = [c \in Client |-> <<>>]
  /\ server = NewProto
  /\ addresses = [c \in Client |-> NoText] /\ writers = {} /\ readers = <<>>
  /\ offers = <<>>
  /\ mailbox = <<>> /\ queue = <<>> /\ traffic = <<>>
  /\ sent = <<>> /\ app = [c \in Client |-> <<>>] /\ commands = 0

-----------------------------------------------------------------------------
\* The client

Delivers == {"STREAM DELIVER", "MAILBOX DELIVER", "SERVICE DELIVER"}
Sends(c, o) ==
  /\ proto' = [proto EXCEPT ![c] = o]
  /\ up' = [up EXCEPT ![c] = @ \o Frames(o)]
  /\ UNCHANGED down

\* A command that is confirmed, with the fields it sets.
Command(c, o) ==
  /\ commands < MaxCommands
  /\ commands' = commands + 1
  /\ phase' = [phase EXCEPT ![c] = o.id]
  /\ Sends(c, o)
  /\ UNCHANGED <<roles, broker, stores, sent, app>>

CallConnect(c) ==
  /\ phase[c] = "closed"
  /\ Command(c, [proto[c] EXCEPT !.id = "CONNECTION OPEN", !.address = Fitting(AddressOf[c])])

CallSetProducer(c) ==
  /\ phase[c] = "open" /\ "STREAM WRITE" \notin roles[c]
  /\ Command(c, [proto[c] EXCEPT !.id = "STREAM WRITE", !.stream = Fitting(StreamName)])

CallSetConsumer(c) ==
  /\ phase[c] = "open" /\ "STREAM READ" \notin roles[c]
  /\ Command(c, [proto[c] EXCEPT !.id = "STREAM READ", !.stream = Fitting(StreamName),
                                 !.pattern = Fitting(EmptyPattern)])

CallSetWorker(c) ==
  /\ phase[c] = "open" /\ "SERVICE OFFER" \notin roles[c]
  /\ Command(c, [proto[c] EXCEPT !.id = "SERVICE OFFER", !.address = Fitting(ServiceName),
                                 !.pattern = Fitting(EmptyPattern)])

CallDestroy(c) ==
  /\ phase[c] = "open"
  /\ Command(c, [proto[c] EXCEPT !.id = "CONNECTION CLOSE"])

\* The next letter is sent, to the stream, an address or the service.
Posting(c, id, address) ==
  /\ phase[c] = "open"
  /\ Len(sent) < Len(Letter)
  /\ sent' = Append(sent, [from |-> c, id |-> id, address |-> address])
  /\ UNCHANGED <<phase, roles, broker, stores, app, commands>>

\* mlm_client_send
StreamSend(c) ==
  LET letter == Letter[Len(sent) + 1]
  IN /\ Posting(c, "STREAM SEND", StreamName)
     /\ Sends(c, [proto[c] EXCEPT !.id = "STREAM SEND",
                    !.subject = Fitting(letter.subject), !.content = letter.content])

\* mlm_client_sendto and mlm_client_sendfor
PostTo(c, id, address) ==
  LET letter == Letter[Len(sent) + 1]
  IN /\ Posting(c, id, address)
     /\ Sends(c, [proto[c] EXCEPT !.id = id,
                    !.address = Fitting(address), !.subject = Fitting(letter.subject),
                    !.tracker = Fitting(letter.tracker), !.timeout = letter.timeout,
                    !.content = letter.content])

\* The frames of the message at the head of a channel.
HeadMessage(channel) ==
  LET last == CHOOSE i \in DOMAIN channel :
                /\ ~channel[i].more
                /\ \A j \in 1 .. i - 1 : channel[j].more
  IN SubSeq(channel, 1, last)
HasMessage(channel) == \E i \in DOMAIN channel : ~channel[i].more
Rest(channel) == SubSeq(channel, Len(HeadMessage(channel)) + 1, Len(channel))

\* What the application gets to see of a delivery.
Passed(o) ==
  [id |-> o.id, sender |-> o.sender, address |-> o.address, subject |-> o.subject,
   tracker |-> IF o.id = "STREAM DELIVER" THEN NoText ELSE o.tracker,
   content |-> o.content]

\* The reply to the command the client waits for.  After CONNECTION CLOSE the
\* client and its object are gone.
ClientConfirmed(c, o) ==
  /\ o.id = "OK"
  /\ phase[c] # "failed"
  /\ IF phase[c] = "CONNECTION CLOSE"
     THEN /\ phase' = [phase EXCEPT ![c] = "closed"]
          /\ roles' = [roles EXCEPT ![c] = {}]
          /\ proto' = [proto EXCEPT ![c] = NewProto]
     ELSE /\ phase' = [phase EXCEPT ![c] = "open"]
          /\ roles' = [roles EXCEPT ![c] = @ \cup {phase[c]}]
          /\ proto' = [proto EXCEPT ![c] = o]
  /\ UNCHANGED app

\* The first error is that of a message that was refused; the machine stops.
ClientRefused(c, o) ==
  /\ o.id = "ERROR" \/ phase[c] = "failed"
  /\ phase' = [phase EXCEPT ![c] = "failed"]
  /\ proto' = [proto EXCEPT ![c] = o]
  /\ UNCHANGED <<roles, app>>

\* A delivery is passed on, unless the client is closing.
ClientDelivered(c, o) ==
  /\ o.id \in Delivers
  /\ phase[c] # "failed"
  /\ IF phase[c] = "CONNECTION CLOSE"
     THEN proto' = [proto EXCEPT ![c] = o] /\ UNCHANGED app
     ELSE /\ proto' = [proto EXCEPT ![c] = WithoutContent(o)]
          /\ app' = [app EXCEPT ![c] = Append(@, Passed(o))]
  /\ UNCHANGED <<phase, roles>>

ClientReceives(c) ==
  /\ HasMessage(down[c])
  /\ down' = [down EXCEPT ![c] = Rest(@)]
  /\ LET o == Receive(proto[c], HeadMessage(down[c])).o
     IN ClientConfirmed(c, o) \/ ClientRefused(c, o) \/ ClientDelivered(c, o)
  /\ UNCHANGED <<up, broker, stores, sent, commands>>

-----------------------------------------------------------------------------
\* The broker

\* mlm_msg_new: the content moves out of the message object.
MsgNew(sender, address, o, tracker) ==
  [sender |-> sender, address |-> address, subject |-> o.subject,
   tracker |-> tracker, content |-> o.content]

\* Mutant: the subject of the command just handled is delivered.
SetProtoSubjectless(msg, o) ==
  [o EXCEPT !.sender = Fitting(msg.sender), !.address = Fitting(msg.address),
            !.content = IF msg.content = NoContent THEN @ ELSE msg.content]

\* mlm_msg_set_proto.
SetProto(msg, o) ==
  [o EXCEPT !.sender = Fitting(msg.sender), !.address = Fitting(msg.address),
            !.subject = Fitting(msg.subject),
            !.content = IF msg.content = NoContent THEN @ ELSE msg.content]

\* The message object as it is, and what was sent so far in this step.
Said(o) == [o |-> o, down |-> down, offers |-> offers]

\* The object is sent to client c as message id.
Say(said, id, c) ==
  LET o == [said.o EXCEPT !.id = id, !.routing_id = c]
  IN [said EXCEPT !.o = o, !.down[c] = @ \o Frames(o)]

\* get_message_to_deliver, and the delivery.
Deliver(said, id, c, msg) == Say([said EXCEPT !.o = SetProto(msg, @)], id, c)

\* s_service_dispatch_message: the first offer gets the message, and goes last.
Dispatch(said, msg) ==
  [Deliver(said, "SERVICE DELIVER", Head(said.offers), msg)
     EXCEPT !.offers = Append(Tail(@), Head(@))]

\* The messages of a list are delivered one after another.
DeliverAll(said, id, c, list) ==
  LET after[n \in 0 .. Len(list)] ==
        IF n = 0 THEN said ELSE Deliver(after[n - 1], id, c, list[n])
  IN after[Len(list)]

DispatchAll(said, list) ==
  LET after[n \in 0 .. Len(list)] ==
        IF n = 0 THEN said ELSE Dispatch(after[n - 1], list[n])
  IN after[Len(list)]

\* The entries of a list that are in this set.
Among(list, wanted) ==
  LET kept[n \in 0 .. Len(list)] ==
        IF n = 0 THEN <<>>
        ELSE IF list[n] \in wanted THEN Append(kept[n - 1], list[n]) ELSE kept[n - 1]
  IN kept[Len(list)]

Others(list, c) == Among(list, Client \ {c})

Ends(said) == server' = said.o /\ down' = said.down /\ offers' = said.offers

\* The command of client c in the object of the broker.
Incoming(c) == Receive([server EXCEPT !.routing_id = c], HeadMessage(up[c])).o

Taking(c, ids) ==
  /\ HasMessage(up[c])
  /\ Incoming(c).id \in ids
  /\ up' = [up EXCEPT ![c] = Rest(@)]
  /\ UNCHANGED <<clients, sent, app, commands>>

\* register_new_client, OK, and the mailbox is emptied.
ServeOpen(c) ==
  /\ Taking(c, {"CONNECTION OPEN"})
  /\ LET o == Incoming(c)
         own == {m \in Range(mailbox) : m.address = o.address}
         ok == Say(Said([o EXCEPT !.status_code = SUCCESS]), "OK", c)
     IN /\ addresses' = [addresses EXCEPT ![c] = o.address]
        /\ mailbox' = Among(mailbox, Range(mailbox) \ own)
        /\ Ends(DeliverAll(ok, "MAILBOX DELIVER", c, Among(mailbox, own)))
  /\ UNCHANGED <<writers, readers, queue, traffic>>

Known(c) == addresses[c] # NoText

ServeWrite(c) ==
  /\ Taking(c, {"STREAM WRITE"}) /\ Known(c)
  /\ writers' = writers \cup {c}
  /\ Ends(Say(Said([Incoming(c) EXCEPT !.status_code = SUCCESS]), "OK", c))
  /\ UNCHANGED <<addresses, readers, stores>>

ServeRead(c) ==
  /\ Taking(c, {"STREAM READ"}) /\ Known(c)
  /\ readers' = Append(readers, c)
  /\ Ends(Say(Said([Incoming(c) EXCEPT !.status_code = SUCCESS]), "OK", c))
  /\ UNCHANGED <<addresses, writers, stores>>

\* store_service_offer, OK, dispatch_the_service.  No status code is set.
ServeOffer(c) ==
  /\ Taking(c, {"SERVICE OFFER"}) /\ Known(c)
  /\ LET ok == Say([Said(Incoming(c)) EXCEPT !.offers = Append(@, c)], "OK", c)
     IN Ends(DispatchAll(ok, queue))
  /\ queue' = <<>>
  /\ UNCHANGED <<addresses, writers, readers, mailbox, traffic>>

\* write_message_to_stream; the engine passes the message to all readers but
\* its sender.
ServeStreamSend(c) ==
  /\ Taking(c, {"STREAM SEND"}) /\ Known(c) /\ c \in writers
  /\ LET msg == MsgNew(addresses[c], StreamName, Incoming(c), NoText)
         others == Others(readers, c)
     IN traffic' = traffic \o [i \in DOMAIN others |-> [client |-> others[i], msg |-> msg]]
  /\ Ends(Said(WithoutContent(Incoming(c))))
  /\ UNCHANGED <<addresses, writers, readers, mailbox, queue>>

\* write_message_to_mailbox
ServeMailboxSend(c) ==
  /\ Taking(c, {"MAILBOX SEND"}) /\ Known(c)
  /\ LET o == Incoming(c)
         msg == MsgNew(addresses[c], o.address, o, o.tracker)
         said == Said(WithoutContent(o))
     IN \/ \E d \in Client :
             /\ addresses[d] = o.address
             /\ Ends(Deliver(said, "MAILBOX DELIVER", d, msg))
             /\ UNCHANGED mailbox
        \/ /\ \A d \in Client : addresses[d] # o.address
           /\ mailbox' = Append(mailbox, msg)
           /\ Ends(said)
  /\ UNCHANGED <<addresses, writers, readers, queue, traffic>>

\* write_message_to_service
ServeServiceSend(c) ==
  /\ Taking(c, {"SERVICE SEND"}) /\ Known(c)
  /\ LET o == Incoming(c)
         msg == MsgNew(addresses[c], o.address, o, o.tracker)
         said == Said(WithoutContent(o))
     IN \/ /\ offers # <<>>
           /\ Ends(Dispatch(said, msg))
           /\ UNCHANGED queue
        \/ /\ offers = <<>>
           /\ queue' = Append(queue, msg)
           /\ Ends(said)
  /\ UNCHANGED <<addresses, writers, readers, mailbox, traffic>>

\* deregister_the_client; what the engine still has for the client goes to a
\* context that is dead.
Deregister(c, said) ==
  /\ Ends([said EXCEPT !.o.status_code = SUCCESS, !.offers = Others(@, c)])
  /\ addresses' = [addresses EXCEPT ![c] = NoText]
  /\ writers' = writers \ {c}
  /\ readers' = Others(readers, c)
  /\ traffic' = [i \in DOMAIN traffic |->
                   IF traffic[i].client = c THEN [traffic[i] EXCEPT !.client = NoRoute]
                   ELSE traffic[i]]
  /\ UNCHANGED <<mailbox, queue>>

ServeClose(c) ==
  /\ Taking(c, {"CONNECTION CLOSE"}) /\ Known(c)
  /\ Deregister(c, Say(Said(Incoming(c)), "OK", c))

\* The exception of a message for a stream that the client does not write to.
\* The content stays in the object.
ServeStreamSendRefused(c) ==
  /\ Taking(c, {"STREAM SEND"}) /\ Known(c) /\ c \notin writers
  /\ Deregister(c, Say(Said([Incoming(c) EXCEPT !.status_code = FAILED]), "ERROR", c))

\* What a client sent that was dropped in between.  (CONNECTION CLOSE of such
\* a client is a matter of Broker and Session.)
ServeUnknown(c) ==
  /\ Taking(c, Range(Id) \ {"CONNECTION OPEN", "CONNECTION CLOSE"}) /\ ~Known(c)
  /\ Ends(Say(Said([Incoming(c) EXCEPT !.status_code = COMMAND_INVALID]), "ERROR", c))
  /\ UNCHANGED <<addresses, writers, readers, stores>>

\* s_forward_stream_traffic, between two commands.
Forward ==
  /\ traffic # <<>>
  /\ traffic' = Tail(traffic)
  /\ LET item == Head(traffic)
     IN IF item.client = NoRoute THEN UNCHANGED <<server, down, offers>>
        ELSE Ends(Deliver(Said(server), "STREAM DELIVER", item.client, item.msg))
  /\ UNCHANGED <<clients, up, addresses, writers, readers, mailbox, queue, sent, app, commands>>

-----------------------------------------------------------------------------
ClientNext(c) ==
  \/ CallConnect(c) \/ CallSetProducer(c) \/ CallSetConsumer(c)
  \/ CallSetWorker(c) \/ CallDestroy(c)
  \/ StreamSend(c)
  \/ \E d \in Client \ {c} : PostTo(c, "MAILBOX SEND", AddressOf[d])
  \/ PostTo(c, "SERVICE SEND", ServiceName)
  \/ ClientReceives(c)

ServerNext(c) ==
  \/ ServeOpen(c) \/ ServeWrite(c) \/ ServeRead(c) \/ ServeOffer(c)
  \/ ServeStreamSend(c) \/ ServeMailboxSend(c) \/ ServeServiceSend(c)
  \/ ServeClose(c) \/ ServeStreamSendRefused(c) \/ ServeUnknown(c)

Next == Forward \/ \E c \in Client : ClientNext(c) \/ ServerNext(c)

Spec == Init /\ [][Next]_vars

-----------------------------------------------------------------------------
\* What a message is to carry (include/mlm_proto.h).
Carried(id) ==
  CASE id = "CONNECTION OPEN" -> {"address"}
    [] id \in {"STREAM WRITE", "STREAM CANCEL"} -> {"stream"}
    [] id = "STREAM READ" -> {"stream", "pattern"}
    [] id = "STREAM SEND" -> {"subject", "content"}
    [] id = "STREAM DELIVER" -> {"address", "sender", "subject", "content"}
    [] id \in {"MAILBOX SEND", "SERVICE SEND"} ->
         {"address", "subject", "tracker", "timeout", "content"}
    [] id \in {"MAILBOX DELIVER", "SERVICE DELIVER"} ->
         {"sender", "address", "subject", "tracker", "content"}
    [] id = "SERVICE OFFER" -> {"address", "pattern"}
    [] id \in {"OK", "ERROR"} -> {"status_code", "status_reason"}
    [] id = "CREDIT" -> {"amount"}
    [] id = "CONFIRM" -> {"tracker", "status_code", "status_reason"}
    [] OTHER -> {}

\* The object of the broker, as each of the messages it may be sent as.
AsMessage == {[server EXCEPT !.id = id] : id \in Range(Id)}

\* Sending a message and receiving it into an object that was used before
\* (mlm_proto_send, mlm_proto_recv) sets the fields of the message to what
\* they were and touches no other; content that is NULL arrives as one empty
\* frame.  A copy (mlm_proto_dup) is the same object, and one through the text
\* form (mlm_proto_zpl, mlm_proto_new_zpl) the same message.
RoundTrip ==
  \A m \in AsMessage :
    LET frames == Frames(m)
        content == IF m.content = NoContent THEN << <<>> >> ELSE m.content
        copy == FromZpl(Zpl(m))
    IN /\ \A r \in Range(proto) :
            LET got == Receive(r, frames)
            IN /\ ~got.malformed /\ got.rest = <<>>
               /\ \A f \in DOMAIN m :
                    got.o[f] = CASE f = "id" -> m.id
                                 [] f = "content" /\ f \in Carried(m.id) -> content
                                 [] f \in Carried(m.id) \ {"content"} -> m[f]
                                 [] OTHER -> r[f]
       /\ Dup(m) = m
       /\ ("content" \in Carried(m.id) => m.content # NoContent) =>
            /\ Complete(Zpl(m))
            /\ \A f \in Carried(m.id) \cup {"id", "routing_id"} : copy[f] = m[f]

\* The frame that mlm_proto_send allocates is as large as what it writes into
\* it without a check, and only its last frame ends the message.
ExactFit ==
  \A m \in AsMessage :
    LET frames == Frames(m)
    IN /\ Len(frames[1].octets) = FrameSize(m)
       /\ \A i \in DOMAIN frames : frames[i].more <=> i # Len(frames)

DeliverOf(id) ==
  CASE id = "STREAM SEND" -> "STREAM DELIVER"
    [] id = "MAILBOX SEND" -> "MAILBOX DELIVER"
    [] OTHER -> "SERVICE DELIVER"

\* What client c received is letter n, as its sender wrote it.
IsLetter(c, r, n) ==
  /\ r.id = DeliverOf(sent[n].id)
  /\ r.sender = AddressOf[sent[n].from]
  /\ r.address = sent[n].address
  /\ r.subject = Letter[n].subject
  /\ r.content = Letter[n].content
  /\ sent[n].id = "MAILBOX SEND" => AddressOf[c] = sent[n].address
  /\ sent[n].id = "STREAM SEND" => c # sent[n].from

\* Through all the objects it shares with other messages, each letter arrives
\* as it was written, at a client that may have it (mlm_msg_new,
\* mlm_msg_set_proto, get_message_to_deliver).
LetterKept ==
  \A c \in Client : \A r \in Range(app[c]) : \E n \in DOMAIN sent : IsLetter(c, r, n)

\* mlm_client_sendto, mlm_client_tracker: a letter arrives with its tracker
\* ("tracker: Message tracker" of MAILBOX_DELIVER and SERVICE_DELIVER).
TrackerKept ==
  \A c \in Client : \A r \in Range(app[c]) :
    r.id # "STREAM DELIVER" =>
      \E n \in DOMAIN sent : IsLetter(c, r, n) /\ r.tracker = Letter[n].tracker
=============================================================================
