------------------------------- MODULE Codec -------------------------------
(***************************************************************************)
(* mlm_proto: an object with one field for each name the protocol knows,   *)
(* and a number that says which of them the current message uses.  The     *)
(* object is used again and again: receiving or setting a message touches  *)
(* the fields of that message and leaves the others as they were.          *)
(*                                                                         *)
(* mlm_proto_send measures the message, allocates a frame of that size,    *)
(* then writes into it without a check; mlm_proto_recv checks each read.   *)
(* The tables below are those of the four places that walk the fields:     *)
(* measure, write, read, and the text form (zpl), which is written and     *)
(* read as well.  A string is the sequence of its octets.                  *)
(***************************************************************************)
EXTENDS Integers, SequencesExt

CONSTANT NULL  \* a pointer that is not set

Octet == 0 .. 255

ASSUME NullAssumption == NULL \notin Seq(Octet) /\ NULL \notin Seq(Seq(Octet))

NoContent == NULL
NoRoute == NULL

\* The messages, in the order of their numbers.
Id == <<"CONNECTION OPEN", "CONNECTION PING", "CONNECTION PONG", "CONNECTION CLOSE",
        "STREAM WRITE", "STREAM READ", "STREAM SEND", "STREAM DELIVER",
        "MAILBOX SEND", "MAILBOX DELIVER", "SERVICE SEND", "SERVICE OFFER",
        "SERVICE DELIVER", "OK", "ERROR", "CREDIT", "CONFIRM", "STREAM CANCEL">>
IdNumber(id) == CHOOSE n \in DOMAIN Id : Id[n] = id

SUCCESS == 200
FAILED == 300
COMMAND_INVALID == 500

TextFields == {"address", "stream", "pattern", "subject", "sender", "tracker",
               "status_reason"}
NumberFields == {"timeout", "status_code", "amount"}

\* mlm_proto_new: zeroes.
NewProto ==
  [f \in TextFields \cup NumberFields \cup {"id", "content", "routing_id"} |->
     CASE f \in TextFields -> <<>>
       [] f \in NumberFields -> 0
       [] f = "id" -> "none"
       [] OTHER -> NULL]

\* What has room in a text field, and what its setter takes of a text.
IsText(text) == text \in Seq(Octet) /\ Len(text) <= 255
Fitting(text) == IF Len(text) > 255 THEN SubSeq(text, 1, 255) ELSE text

\* mlm_proto_get_content gives the content away.
WithoutContent(o) == [o EXCEPT !.content = NoContent]

-----------------------------------------------------------------------------
\* Sending

MALAMUTE == <<77, 65, 76, 65, 77, 85, 84, 69>>
Signature == <<170, 168>>  \* 0xAAA0 | 8
Version == 1

Put1(n) == <<n % 256>>
Put2(n) == <<(n \div 256) % 256, n % 256>>
Put4(n) == <<(n \div 16777216) % 256, (n \div 65536) % 256>> \o Put2(n)
PutText(text) == Put1(Len(text)) \o text

TextSize(text) == 1 + Len(text)

\* frame_size: signature and number, then the fields.
FrameSize(o) ==
  3 + CASE o.id = "CONNECTION OPEN" -> TextSize(MALAMUTE) + 2 + TextSize(o.address)
        [] o.id \in {"STREAM WRITE", "STREAM CANCEL"} -> TextSize(o.stream)
        [] o.id = "STREAM READ" -> TextSize(o.stream) + TextSize(o.pattern)
        [] o.id = "STREAM SEND" -> TextSize(o.subject)
        [] o.id = "STREAM DELIVER" ->
             TextSize(o.address) + TextSize(o.sender) + TextSize(o.subject)
        [] o.id \in {"MAILBOX SEND", "SERVICE SEND"} ->
             TextSize(o.address) + TextSize(o.subject) + TextSize(o.tracker) + 4
        [] o.id \in {"MAILBOX DELIVER", "SERVICE DELIVER"} ->
             TextSize(o.sender) + TextSize(o.address) + TextSize(o.subject)
             + TextSize(o.tracker)
        [] o.id = "SERVICE OFFER" -> TextSize(o.address) + TextSize(o.pattern)
        [] o.id \in {"OK", "ERROR"} -> 2 + TextSize(o.status_reason)
        [] o.id = "CREDIT" -> 2
        [] o.id = "CONFIRM" -> TextSize(o.tracker) + 2 + TextSize(o.status_reason)
        [] OTHER -> 0

\* Mutant: the fields of a delivery in the order of STREAM DELIVER.
DeliveryFieldsSwapped(o) ==
  PutText(o.address) \o PutText(o.sender) \o PutText(o.subject) \o PutText(o.tracker)

DeliveryFields(o) ==
  PutText(o.sender) \o PutText(o.address) \o PutText(o.subject) \o PutText(o.tracker)

\* What is written into the frame after the signature and the number.
Fields(o) ==
  CASE o.id = "CONNECTION OPEN" -> PutText(MALAMUTE) \o Put2(Version) \o PutText(o.address)
    [] o.id \in {"STREAM WRITE", "STREAM CANCEL"} -> PutText(o.stream)
    [] o.id = "STREAM READ" -> PutText(o.stream) \o PutText(o.pattern)
    [] o.id = "STREAM SEND" -> PutText(o.subject)
    [] o.id = "STREAM DELIVER" ->
         PutText(o.address) \o PutText(o.sender) \o PutText(o.subject)
    [] o.id \in {"MAILBOX SEND", "SERVICE SEND"} ->
         PutText(o.address) \o PutText(o.subject) \o PutText(o.tracker) \o Put4(o.timeout)
    [] o.id \in {"MAILBOX DELIVER", "SERVICE DELIVER"} -> DeliveryFields(o)
    [] o.id = "SERVICE OFFER" -> PutText(o.address) \o PutText(o.pattern)
    [] o.id \in {"OK", "ERROR"} -> Put2(o.status_code) \o PutText(o.status_reason)
    [] o.id = "CREDIT" -> Put2(o.amount)
    [] o.id = "CONFIRM" ->
         PutText(o.tracker) \o Put2(o.status_code) \o PutText(o.status_reason)
    [] OTHER -> <<>>

WithContent ==
  {"STREAM SEND", "STREAM DELIVER", "MAILBOX SEND", "MAILBOX DELIVER",
   "SERVICE SEND", "SERVICE DELIVER"}

\* What follows the frame: the frames of the content, or an empty one.
Bodies(o) ==
  IF o.id \notin WithContent THEN <<>>
  ELSE IF o.content = NoContent THEN << <<>> >> ELSE o.content

\* Mutant: the last frame of the content says that more follow.
FramesOpen(o) ==
  LET octets == <<Signature \o Put1(IdNumber(o.id)) \o Fields(o)>> \o Bodies(o)
  IN [i \in DOMAIN octets |-> [octets |-> octets[i], more |-> i = 1 => o.id \in WithContent]]

\* mlm_proto_send: the frames, each with its mark that more follow.  The
\* object keeps what it sent.
Frames(o) ==
  LET octets == <<Signature \o Put1(IdNumber(o.id)) \o Fields(o)>> \o Bodies(o)
  IN [i \in DOMAIN octets |-> [octets |-> octets[i], more |-> i < Len(octets)]]

-----------------------------------------------------------------------------
\* Receiving

Text(f) == [as |-> "text", field |-> f]
Two(f) == [as |-> "two", field |-> f]
Four(f) == [as |-> "four", field |-> f]
Opening == [as |-> "opening", field |-> ""]  \* protocol and version

\* The fields that are got from the frame, in order.
Layout(id) ==
  CASE id = "CONNECTION OPEN" -> <<Opening, Text("address")>>
    [] id \in {"STREAM WRITE", "STREAM CANCEL"} -> <<Text("stream")>>
    [] id = "STREAM READ" -> <<Text("stream"), Text("pattern")>>
    [] id = "STREAM SEND" -> <<Text("subject")>>
    [] id = "STREAM DELIVER" -> <<Text("address"), Text("sender"), Text("subject")>>
    [] id \in {"MAILBOX SEND", "SERVICE SEND"} ->
         <<Text("address"), Text("subject"), Text("tracker"), Four("timeout")>>
    [] id \in {"MAILBOX DELIVER", "SERVICE DELIVER"} ->
         <<Text("sender"), Text("address"), Text("subject"), Text("tracker")>>
    [] id = "SERVICE OFFER" -> <<Text("address"), Text("pattern")>>
    [] id \in {"OK", "ERROR"} -> <<Two("status_code"), Text("status_reason")>>
    [] id = "CREDIT" -> <<Two("amount")>>
    [] id = "CONFIRM" -> <<Text("tracker"), Two("status_code"), Text("status_reason")>>
    [] OTHER -> <<>>

Get2(octets) == 256 * octets[1] + octets[2]
Get4(octets) == 16777216 * octets[1] + 65536 * octets[2] + Get2(SubSeq(octets, 3, 4))

\* How many octets a field takes.
Extent(item, rest) ==
  CASE item.as = "two" -> 2
    [] item.as = "four" -> 4
    [] item.as = "opening" -> 1 + Len(MALAMUTE) + 2
    [] OTHER -> IF rest = <<>> THEN 1 ELSE 1 + Head(rest)

Value(item, octets) ==
  CASE item.as = "two" -> Get2(octets)
    [] item.as = "four" -> Get4(octets)
    [] OTHER -> Tail(octets)

\* One field is got: a frame that is too short ends the reading.  That is the
\* exit "malformed" of mlm_proto_recv, which does not say so: the fields before
\* are in the object, and the function returns 0 as for a whole message.
Get(reading, item) ==
  LET extent == Extent(item, reading.rest)
      octets == SubSeq(reading.rest, 1, extent)
  IN IF \/ reading.malformed
        \/ extent > Len(reading.rest)
        \/ item.as = "opening" /\ octets # PutText(MALAMUTE) \o Put2(Version)
     THEN [reading EXCEPT !.malformed = TRUE]
     ELSE [reading EXCEPT
             !.o = IF item.as = "opening" THEN @
                   ELSE [@ EXCEPT ![item.field] = Value(item, octets)],
             !.rest = SubSeq(@, extent + 1, Len(@))]

\* The fields are got one after another.
GetAll(reading, items) ==
  LET got[n \in 0 .. Len(items)] ==
        IF n = 0 THEN reading ELSE Get(got[n - 1], items[n])
  IN got[Len(items)]

\* mlm_proto_recv into object o: what became of o, the octets left over,
\* and whether the reading ended at "malformed".
Receive(o, frames) ==
  LET first == frames[1].octets
      id == Id[first[3]]
      reading == [o |-> [o EXCEPT !.id = id], rest |-> SubSeq(first, 4, Len(first)),
                  malformed |-> SubSeq(first, 1, 2) # Signature]
      got == GetAll(reading, Layout(id))
  IN IF got.malformed \/ id \notin WithContent THEN got
     ELSE [got EXCEPT !.o.content = [i \in 1 .. Len(frames) - 1 |-> frames[i + 1].octets]]

-----------------------------------------------------------------------------
\* Copies

\* mlm_proto_dup
Dup(o) ==
  [o EXCEPT !.address = Fitting(o.address), !.stream = Fitting(o.stream),
            !.pattern = Fitting(o.pattern), !.subject = Fitting(o.subject),
            !.sender = Fitting(o.sender), !.tracker = Fitting(o.tracker),
            !.status_reason = Fitting(o.status_reason)]

\* The fields that mlm_proto_zpl writes as text.
ZplOfStreams(id) ==
  CASE id = "CONNECTION OPEN" -> {"address"}
    [] id = "STREAM WRITE" -> {"stream"}
    [] id = "STREAM READ" -> {"stream", "pattern"}
    [] id = "STREAM SEND" -> {"subject", "content"}
    [] id = "STREAM DELIVER" -> {"address", "sender", "subject", "content"}
    [] OTHER -> {}

ZplOfMail(id) ==
  CASE id \in {"MAILBOX SEND", "SERVICE SEND"} ->
         {"address", "subject", "tracker", "timeout", "content"}
    [] id \in {"MAILBOX DELIVER", "SERVICE DELIVER"} ->
         {"sender", "address", "subject", "tracker", "content"}
    [] id = "SERVICE OFFER" -> {"address", "pattern"}
    [] OTHER -> {}

ZplOfReplies(id) ==
  CASE id \in {"OK", "ERROR"} -> {"status_code", "status_reason"}
    [] id = "CREDIT" -> {"amount"}
    [] id = "CONFIRM" -> {"tracker", "status_code", "status_reason"}
    [] id = "STREAM CANCEL" -> {"stream"}
    [] OTHER -> {}

\* mlm_proto_zpl: the message, the routing id if there is one, the fields.
Zpl(o) ==
  LET fields == ZplOfStreams(o.id) \cup ZplOfMail(o.id) \cup ZplOfReplies(o.id)
      routing == IF o.routing_id = NoRoute THEN {} ELSE {"routing_id"}
  IN [f \in {"id"} \cup routing \cup fields |-> o[f]]

\* The fields that mlm_proto_new_zpl requires.
FromZplStreams(id) ==
  CASE id = "CONNECTION OPEN" -> {"address"}
    [] id = "STREAM WRITE" -> {"stream"}
    [] id = "STREAM READ" -> {"stream", "pattern"}
    [] id = "STREAM SEND" -> {"subject", "content"}
    [] id = "STREAM DELIVER" -> {"address", "sender", "subject", "content"}
    [] OTHER -> {}

FromZplMailbox(id) ==
  CASE id = "MAILBOX SEND" -> {"address", "subject", "tracker", "timeout", "content"}
    [] id = "MAILBOX DELIVER" -> {"sender", "address", "subject", "tracker", "content"}
    [] OTHER -> {}

FromZplService(id) ==
  CASE id = "SERVICE SEND" -> {"address", "subject", "tracker", "timeout", "content"}
    [] id = "SERVICE OFFER" -> {"address", "pattern"}
    [] id = "SERVICE DELIVER" -> {"sender", "address", "subject", "tracker", "content"}
    [] OTHER -> {}

FromZplReplies(id) ==
  CASE id \in {"OK", "ERROR"} -> {"status_code", "status_reason"}
    [] id = "CREDIT" -> {"amount"}
    [] id = "CONFIRM" -> {"tracker", "status_code", "status_reason"}
    [] id = "STREAM CANCEL" -> {"stream"}
    [] OTHER -> {}

Required(id) ==
  UNION {FromZplStreams(id), FromZplMailbox(id), FromZplService(id), FromZplReplies(id)}
Complete(zpl) == Required(zpl.id) \subseteq DOMAIN zpl

\* mlm_proto_new_zpl: a new object, or NULL when a field is missing.
FromZpl(zpl) ==
  LET read == Required(zpl.id) \cup {"id"} \cup ({"routing_id"} \cap DOMAIN zpl)
  IN IF Complete(zpl)
     THEN [f \in DOMAIN NewProto |-> IF f \in read THEN zpl[f] ELSE NewProto[f]]
     ELSE NULL
=============================================================================
