------------------------------ MODULE Session ------------------------------
(***************************************************************************)
(* One client of the broker, from its caller to the broker's view of it.   *)
(*                                                                         *)
(* The caller of the API blocks in each call until the client actor        *)
(* replies.  The actor is a state machine (mlm_client_engine.inc): its     *)
(* events are calls, messages from the broker and two timers.  It speaks   *)
(* to the broker over a DEALER socket, which queues what it cannot send,   *)
(* and reconnects by itself: a connection that breaks loses the front of   *)
(* what the client sent and the end of what the broker sent, and the       *)
(* broker sees the next connection as a new peer.                          *)
(*                                                                         *)
(* A command and its handling by the actor are one step: the caller        *)
(* observes nothing between them.  Of the broker there is what it knows of *)
(* this client; the module Broker has the rest.                            *)
(***************************************************************************)
EXTENDS Integers, SequencesExt

CONSTANTS
  Setup,          \* the commands the caller sets up the session with
  Sends,          \* the messages it sends, "MAILBOX SEND" or "STREAM SEND"
  ConnectTimeout, \* whether the timeout given to CONNECT is not zero
  MaxCalls,       \* bound on the calls and the messages of the caller
  MaxPings,       \* bound on the PINGs and answers under way
  MaxBreaks,      \* bound on crashes, broken connections, expired clients
  MaxLate,        \* bound on timeouts that only a slow network causes
  MaxMails        \* bound on the mails others send to this client

SetupCommands == {"STREAM WRITE", "STREAM READ", "STREAM CANCEL", "SERVICE OFFER"}

ASSUME SetupAssumption ==
  \A c \in Setup : c.id \in SetupCommands /\ DOMAIN c = {"id", "name"}
ASSUME SendsAssumption == Sends \subseteq {"MAILBOX SEND", "STREAM SEND"}
ASSUME BoundsAssumption ==
  /\ ConnectTimeout \in BOOLEAN
  /\ {MaxCalls, MaxBreaks, MaxLate, MaxMails} \subseteq Nat
  /\ MaxPings \in Nat \ {0}

VARIABLES
  state,      \* state of the client's machine
  stopped,    \* fsm_stopped: no event is handled any more
  connected,  \* what mlm_client_connected reports
  heartbeat,  \* whether the heartbeat timer runs
  expiry,     \* what the expiry timer is set to: off, connect or alive
  pinged,     \* a heartbeat passed since the expiry timer was reset
  replays,    \* commands to repeat after a reconnection
  cursor,     \* position in that list, 0 at its head
  held,       \* name fields that self->message holds
  call,       \* the call the caller waits in
  replies,    \* on their way from the actor to the caller
  joined,     \* a CONNECT succeeded
  toserver, toclient,  \* the two directions of the connection
  up,         \* the broker runs
  owner,      \* who has the client's address: nobody, current, gone
  known,      \* commands in force for the current connection
  stored,     \* mails the broker holds for the address
  app,        \* mails passed to the application, in order
  lost,       \* mails nobody will see
  gaveup,     \* history: a reconnection was given up
  calls, breaks, late, mails  \* how often, for the bounds

machine == <<state, stopped>>
timers == <<connected, heartbeat, expiry, pinged>>
setup == <<replays, cursor, held>>
api == <<call, replies, joined>>
broker == <<up, owner, known, stored>>
counts == <<gaveup, calls, breaks, late, mails>>
vars == <<machine, timers, setup, api, toserver, toclient, broker, app, lost, counts>>

NoCall == "none"
NoName == "empty"
MyAddress == "my address"
Recipient == "another address"
Plain(id) == [id |-> id, name |-> NoName]
Error(status) == [id |-> "ERROR", name |-> status]
Mail(n) == [id |-> "MAILBOX DELIVER", mail |-> n]
Invalid == Error("COMMAND_INVALID")

Init ==
  /\ state = "start" /\ stopped = FALSE
  /\ connected = FALSE /\ heartbeat = FALSE /\ expiry = "off" /\ pinged = FALSE
  /\ replays = <<>> /\ cursor = 0
  /\ held = [stream |-> NoName, address |-> NoName]
  /\ call = NoCall /\ replies = <<>> /\ joined = FALSE
  /\ toserver = <<>> /\ toclient = <<>>
  /\ up = TRUE /\ owner = "nobody" /\ known = {} /\ stored = <<>>
  /\ app = <<>> /\ lost = {}
  /\ gaveup = FALSE /\ calls = 0 /\ breaks = 0 /\ late = 0 /\ mails = 0

-----------------------------------------------------------------------------
\* Actions of the client's machine

Go(s) == state' = s /\ UNCHANGED stopped
Stop(s) == state' = s /\ stopped' = TRUE
Signal(status) == replies' = Append(replies, status) /\ UNCHANGED <<call, joined>>
Send(m) == toserver' = Append(toserver, m)

\* Mutant: the expiry timer keeps what it was set to.
ConnectedUnwatched ==
  /\ connected' = TRUE /\ heartbeat' = TRUE /\ expiry' = "off" /\ pinged' = FALSE

\* Heartbeat every second, expiry after four.
ClientIsConnected ==
  /\ connected' = TRUE /\ heartbeat' = TRUE /\ expiry' = "alive" /\ pinged' = FALSE

ServerHasGoneOffline ==
  /\ heartbeat' = FALSE /\ connected' = FALSE /\ pinged' = FALSE
  /\ UNCHANGED expiry

\* Any input resets the expiry timer.
Restarted == pinged' = FALSE /\ UNCHANGED <<connected, heartbeat, expiry>>

UseConnectTimeout ==
  /\ expiry' = IF ConnectTimeout THEN "connect" ELSE "off"
  /\ pinged' = FALSE
  /\ UNCHANGED <<connected, heartbeat>>

\* The message object after the names of command c were put into it.
Filled(fields, c) ==
  IF c.id = "SERVICE OFFER" THEN [fields EXCEPT !.address = c.name]
  ELSE [fields EXCEPT !.stream = c.name]

\* The command sent with whatever names the message object holds.
CommandOf(cmd, fields) ==
  [id |-> cmd,
   name |-> IF cmd = "SERVICE OFFER" THEN fields.address ELSE fields.stream]

\* CONNECTION OPEN carries the address the caller gave.
SendOpen ==
  /\ Send(Plain("CONNECTION OPEN"))
  /\ held' = [held EXCEPT !.address = MyAddress]

\* Where a replay that goes on behind position i comes to a halt: there is
\* no event for the replay of a STREAM CANCEL.
HaltOf(i) ==
  CHOOSE j \in i + 1 .. Len(replays) + 1 :
    /\ j <= Len(replays) => replays[j].id = "STREAM CANCEL"
    /\ \A k \in i + 1 .. j - 1 : replays[k].id # "STREAM CANCEL"

Replayed(i) == HaltOf(i) > Len(replays)

\* Mutant: the first command is skipped, next is asked for before first.
ReplayRest(i, sent) ==
  LET todo == SubSeq(replays, i + 2, HaltOf(i) - 1)
  IN /\ toserver' = sent \o todo
     /\ held' = FoldLeft(Filled, held, todo)
     /\ cursor' = IF Replayed(i) THEN 0 ELSE HaltOf(i)
     /\ Go(IF Replayed(i) THEN "connected" ELSE "reconnecting")
     /\ UNCHANGED replays

\* Send the commands behind position i of the list, without waiting for
\* replies; after the last one the client counts as connected.
Replay(i, sent) ==
  LET todo == SubSeq(replays, i + 1, HaltOf(i) - 1)
  IN /\ toserver' = sent \o todo
     /\ held' = FoldLeft(Filled, held, todo)
     /\ cursor' = IF Replayed(i) THEN 0 ELSE HaltOf(i)
     /\ Go(IF Replayed(i) THEN "connected" ELSE "reconnecting")
     /\ UNCHANGED replays

-----------------------------------------------------------------------------
\* Messages from the broker

Incoming(id) ==
  /\ toclient # <<>>
  /\ Head(toclient).id = id
  /\ toclient' = Tail(toclient)
  /\ UNCHANGED <<broker, counts>>

\* The machine handles the message, a reply to itself, in one of these states.
Handled(id, states) ==
  /\ Incoming(id) /\ ~stopped /\ state \in states
  /\ UNCHANGED <<app, lost>>

\* It has no event for the message in these states.
Discarded(id, states) ==
  /\ Incoming(id) /\ (stopped \/ state \in states)
  /\ Restarted
  /\ UNCHANGED <<machine, setup, api, toserver, app, lost>>

OKConnecting ==
  /\ Handled("OK", {"connecting"})
  /\ ClientIsConnected /\ Signal("SUCCESS") /\ Go("connected")
  /\ UNCHANGED <<setup, toserver>>

OKConfirming ==
  /\ Handled("OK", {"confirming"})
  /\ Restarted /\ Signal("SUCCESS") /\ Go("connected")
  /\ UNCHANGED <<setup, toserver>>

OKTerminating ==
  /\ Handled("OK", {"terminating"})
  /\ Restarted /\ Signal("SUCCESS") /\ Stop("terminating")
  /\ UNCHANGED <<setup, toserver>>

OKReconnecting ==
  /\ Handled("OK", {"reconnecting"})
  /\ ClientIsConnected /\ Replay(0, toserver)
  /\ UNCHANGED api

ReceiveOK ==
  \/ OKConnecting \/ OKConfirming \/ OKTerminating \/ OKReconnecting
  \/ Discarded("OK", {"start", "connected", "disconnected", "have_error"})

\* check_status_code and the state have_error it leads to.
HaveError(status) ==
  \/ /\ status = "COMMAND_INVALID"
     /\ UseConnectTimeout /\ SendOpen /\ Go("reconnecting")
     /\ UNCHANGED <<replays, cursor, api>>
  \/ /\ status = "FAILED"
     /\ Restarted /\ Signal("FAILURE") /\ Stop("have_error")
     /\ UNCHANGED <<setup, toserver>>

\* In confirming the failure is signalled before the status is looked at.
ConfirmingError(status) ==
  \/ /\ status = "COMMAND_INVALID"
     /\ UseConnectTimeout /\ SendOpen /\ Go("reconnecting")
     /\ Signal("FAILURE")
     /\ UNCHANGED <<replays, cursor>>
  \/ /\ status = "FAILED"
     /\ Restarted /\ Stop("have_error")
     /\ replies' = replies \o <<"FAILURE", "FAILURE">>
     /\ UNCHANGED <<call, joined, setup, toserver>>

ErrorServed ==
  /\ Handled("ERROR", {"connecting", "connected", "disconnected"})
  /\ HaveError(Head(toclient).name)

ErrorConfirming ==
  /\ Handled("ERROR", {"confirming"})
  /\ ConfirmingError(Head(toclient).name)

ErrorTerminating ==
  /\ Handled("ERROR", {"terminating"})
  /\ Restarted /\ Signal("FAILURE") /\ Stop("terminating")
  /\ UNCHANGED <<setup, toserver>>

ReceiveError ==
  \/ ErrorServed \/ ErrorConfirming \/ ErrorTerminating
  \/ Discarded("ERROR", {"start", "reconnecting"})

\* A PONG makes the client connected in three states, whatever it waits for.
PongServed ==
  /\ Handled("CONNECTION PONG", {"connecting", "connected", "disconnected"})
  /\ ClientIsConnected /\ Go("connected")
  /\ UNCHANGED <<setup, api, toserver>>

\* Mutant: in confirming any input is taken for the confirmation.
PongConfirms ==
  \/ PongServed
  \/ /\ Handled("CONNECTION PONG", {"confirming"})
     /\ ClientIsConnected /\ Signal("SUCCESS") /\ Go("connected")
     /\ UNCHANGED <<setup, toserver>>
  \/ Discarded("CONNECTION PONG", {"start", "terminating", "reconnecting"})

ReceivePong ==
  \/ PongServed
  \/ Discarded("CONNECTION PONG", {"start", "confirming", "terminating", "reconnecting"})

\* Mutant: a mail that comes while a call is confirmed is dropped.
DeliverIfIdle ==
  /\ Incoming("MAILBOX DELIVER")
  /\ UNCHANGED <<machine, replays, cursor, api, toserver>>
  /\ Restarted
  /\ held' = [held EXCEPT !.address = MyAddress]
  /\ IF ~stopped /\ state = "connected"
     THEN app' = Append(app, Head(toclient).mail) /\ UNCHANGED lost
     ELSE lost' = lost \cup {Head(toclient).mail} /\ UNCHANGED app

\* A mail is passed on in two states and dropped in all others.
ReceiveDeliver ==
  /\ Incoming("MAILBOX DELIVER")
  /\ UNCHANGED <<machine, replays, cursor, api, toserver>>
  /\ Restarted
  /\ held' = [held EXCEPT !.address = MyAddress]
  /\ IF ~stopped /\ state \in {"connected", "confirming"}
     THEN app' = Append(app, Head(toclient).mail) /\ UNCHANGED lost
     ELSE lost' = lost \cup {Head(toclient).mail} /\ UNCHANGED app

-----------------------------------------------------------------------------
\* Timers

PingsUnderWay ==
  Cardinality({i \in DOMAIN toserver : toserver[i].id = "CONNECTION PING"})
  + Cardinality({i \in DOMAIN toclient : toclient[i].id \in {"CONNECTION PONG", "ERROR"}})

\* The timer fires every second; PINGs above the bound are not kept.
Heartbeat ==
  /\ heartbeat /\ ~stopped
  /\ pinged' = TRUE
  /\ IF PingsUnderWay < MaxPings
     THEN Send(Plain("CONNECTION PING")) ELSE UNCHANGED toserver
  /\ UNCHANGED <<machine, connected, heartbeat, expiry, setup, api, toclient,
                 broker, app, lost, counts>>

\* Nothing is on its way that would reset the timer.
Silence == toclient = <<>> /\ (up => toserver = <<>>)

TimeOut ==
  /\ ~stopped
  /\ expiry # "off"
  /\ expiry = "alive" /\ heartbeat => pinged  \* four heartbeats long
  /\ \/ Silence /\ UNCHANGED late
     \/ ~Silence /\ late < MaxLate /\ late' = late + 1
  /\ UNCHANGED <<setup, toserver, toclient, broker, app, lost, calls, breaks, mails>>

\* The server is not present.
ExpiredConnecting ==
  /\ TimeOut /\ state = "connecting"
  /\ Signal("FAILURE") /\ Go("start")
  /\ UNCHANGED <<timers, gaveup>>

ExpiredConfirming ==
  /\ TimeOut /\ state = "confirming"
  /\ ServerHasGoneOffline /\ Signal("FAILURE") /\ Go("disconnected")
  /\ UNCHANGED gaveup

ExpiredTerminating ==
  /\ TimeOut /\ state = "terminating"
  /\ Signal("FAILURE") /\ Stop("terminating")
  /\ UNCHANGED <<timers, gaveup>>

ExpiredConnected ==
  /\ TimeOut /\ state \in {"connected", "reconnecting", "disconnected"}
  /\ ServerHasGoneOffline /\ Go("disconnected")
  /\ gaveup' = (gaveup \/ state = "reconnecting")
  /\ UNCHANGED api

Expired ==
  \/ ExpiredConnecting \/ ExpiredConfirming \/ ExpiredTerminating
  \/ ExpiredConnected

-----------------------------------------------------------------------------
\* The caller, a single thread that connects until it is told of success

Called(method) ==
  /\ call = NoCall
  /\ calls < MaxCalls
  /\ calls' = calls + 1
  /\ call' = method
  /\ UNCHANGED <<joined, toclient, broker, app, lost, gaveup, breaks, late, mails>>

Refused == replies' = Append(replies, "FAILURE") /\ UNCHANGED <<machine, timers, setup, toserver>>
Swallowed == UNCHANGED <<replies, machine, timers, setup, toserver>>

\* The endpoint is bad, or CONNECTION OPEN goes out.
Connect ==
  /\ ~joined /\ ~stopped /\ state = "start"
  /\ Called("CONNECT")
  /\ \/ Refused
     \/ /\ UseConnectTimeout /\ SendOpen /\ Go("connecting")
        /\ UNCHANGED <<replies, replays, cursor>>

\* mlm_client_set_producer, set_consumer, remove_consumer, set_worker while
\* the client is connected.
SetUpConnected(c) ==
  /\ Called(c.id) /\ ~stopped /\ state = "connected"
  /\ replays' = Append(replays, c)
  /\ held' = Filled(held, c)
  /\ cursor' = 0
  /\ Send(c)
  /\ Go("confirming")
  /\ UNCHANGED <<replies, timers>>

\* Only a pattern can be invalid.
BadPattern(c) ==
  /\ c.id = "STREAM READ"
  /\ Called(c.id) /\ ~stopped /\ state = "connected"
  /\ Refused

NotYetConnected(c) ==
  Called(c.id) /\ ~stopped /\ state = "start" /\ Refused

NoLongerConnected(c) ==
  Called(c.id) /\ ~stopped /\ state = "disconnected" /\ Refused

\* The call is taken for a command of the replay.
SetUpReconnecting(c) ==
  /\ Called(c.id) /\ ~stopped /\ state = "reconnecting"
  /\ Replay(cursor, Append(toserver, CommandOf(c.id, held)))
  /\ IF Replayed(cursor) THEN ClientIsConnected ELSE UNCHANGED timers
  /\ UNCHANGED replies

SetUp(c) ==
  \/ SetUpConnected(c) \/ BadPattern(c) \/ NotYetConnected(c)
  \/ NoLongerConnected(c) \/ SetUpReconnecting(c)
  \/ /\ Called(c.id)
     /\ stopped \/ state \in {"connecting", "confirming", "terminating"}
     /\ Swallowed

\* mlm_client_destroy; its flush takes replies nobody waited for.
DestroyOffline ==
  /\ Called("DESTRUCTOR") /\ ~stopped /\ state \in {"start", "disconnected"}
  /\ replies' = <<"SUCCESS">> /\ Stop(state)
  /\ UNCHANGED <<timers, setup, toserver>>

DestroyConnected ==
  /\ Called("DESTRUCTOR") /\ ~stopped /\ state = "connected"
  /\ replies' = <<>> /\ Go("terminating")
  /\ Send(Plain("CONNECTION CLOSE"))
  /\ UNCHANGED <<timers, setup>>

Destructor ==
  \/ DestroyOffline \/ DestroyConnected
  \/ /\ Called("DESTRUCTOR")
     /\ stopped \/ state \notin {"start", "disconnected", "connected"}
     /\ replies' = <<>>
     /\ UNCHANGED <<machine, timers, setup, toserver>>

\* s_accept_reply takes the first reply for the one to its call.
AcceptReply ==
  /\ call # NoCall
  /\ replies # <<>>
  /\ replies' = Tail(replies)
  /\ joined' = (joined \/ (call = "CONNECT" /\ Head(replies) = "SUCCESS"))
  /\ call' = IF call = "DESTRUCTOR" THEN "destroyed" ELSE NoCall
  /\ UNCHANGED <<machine, timers, setup, toserver, toclient, broker, app, lost, counts>>

\* Messages go out in every state, without a reply.
SendMessage(id) ==
  /\ call = NoCall /\ joined
  /\ calls < MaxCalls
  /\ calls' = calls + 1
  /\ held' = IF id = "MAILBOX SEND" THEN [held EXCEPT !.address = Recipient] ELSE held
  /\ Send(Plain(id))
  /\ UNCHANGED <<machine, timers, replays, cursor, api, toclient, broker, app, lost,
                 gaveup, breaks, late, mails>>

-----------------------------------------------------------------------------
\* The broker, as far as it concerns this client

\* The network delivers a front of what was sent in each direction before it
\* breaks: i commands are gone with the connection, j answers had arrived.
CutOff(i, j) ==
  /\ toserver' = SubSeq(toserver, i + 1, Len(toserver))
  /\ toclient' = SubSeq(toclient, 1, j)

MailsIn(ch) == {ch[k].mail : k \in {k \in DOMAIN ch : ch[k].id = "MAILBOX DELIVER"}}
CutMails(j) == MailsIn(SubSeq(toclient, j + 1, Len(toclient)))

Crash ==
  /\ up
  /\ breaks < MaxBreaks /\ breaks' = breaks + 1
  /\ up' = FALSE /\ owner' = "nobody" /\ known' = {} /\ stored' = <<>>
  /\ \E i \in 0 .. Len(toserver), j \in 0 .. Len(toclient) :
       /\ CutOff(i, j)
       /\ lost' = lost \cup CutMails(j) \cup ToSet(stored)
  /\ UNCHANGED <<machine, timers, setup, api, app, gaveup, calls, late, mails>>

Restart ==
  /\ ~up
  /\ up' = TRUE
  /\ UNCHANGED <<machine, timers, setup, api, toserver, toclient, owner, known,
                 stored, app, lost, counts>>

\* The socket connects again by itself; the old context stays registered.
Break ==
  /\ up
  /\ breaks < MaxBreaks /\ breaks' = breaks + 1
  /\ owner' = IF owner = "current" THEN "gone" ELSE owner
  /\ known' = {}
  /\ \E i \in 0 .. Len(toserver), j \in 0 .. Len(toclient) :
       CutOff(i, j) /\ lost' = lost \cup CutMails(j)
  /\ UNCHANGED <<machine, timers, setup, api, up, stored, app, gaveup, calls, late, mails>>

\* The broker heard nothing of the client for long.  It does not tell it.
ServerExpires ==
  /\ up /\ owner # "nobody"
  /\ breaks < MaxBreaks /\ breaks' = breaks + 1
  /\ owner' = "nobody" /\ known' = {}
  /\ UNCHANGED <<machine, timers, setup, api, toserver, toclient, up, stored, app,
                 lost, gaveup, calls, late, mails>>

\* Another client sends a mail to the address.
MailComes ==
  /\ up
  /\ mails < MaxMails /\ mails' = mails + 1
  /\ CASE owner = "current" ->
             toclient' = Append(toclient, Mail(mails')) /\ UNCHANGED <<stored, lost>>
       [] owner = "gone" ->
             lost' = lost \cup {mails'} /\ UNCHANGED <<stored, toclient>>
       [] OTHER ->
             stored' = Append(stored, mails') /\ UNCHANGED <<lost, toclient>>
  /\ UNCHANGED <<machine, timers, setup, api, toserver, up, owner, known, app,
                 gaveup, calls, breaks, late>>

Answers(list) == toclient' = toclient \o list

\* The broker takes the next command of the client.
Taking(ids) ==
  /\ up
  /\ toserver # <<>>
  /\ Head(toserver).id \in ids
  /\ toserver' = Tail(toserver)
  /\ UNCHANGED <<machine, timers, setup, api, app, counts>>

\* Mutant: a mail that is delivered stays in the mailbox.
OpenCopies ==
  /\ Taking({"CONNECTION OPEN"}) /\ owner # "current"
  /\ owner' = "current" /\ known' = {}
  /\ Answers(<<Plain("OK")>> \o [k \in DOMAIN stored |-> Mail(stored[k])])
  /\ UNCHANGED <<up, stored, lost>>

\* The address is taken over from a context that is gone; the mails that
\* wait follow the OK.
ServeOpen ==
  /\ Taking({"CONNECTION OPEN"}) /\ owner # "current"
  /\ owner' = "current" /\ known' = {} /\ stored' = <<>>
  /\ Answers(<<Plain("OK")>> \o [k \in DOMAIN stored |-> Mail(stored[k])])
  /\ UNCHANGED <<up, lost>>

\* A command of a peer that is not connected.
ServeUnknown ==
  /\ Taking(SetupCommands \cup {"CONNECTION PING", "MAILBOX SEND", "STREAM SEND"})
  /\ owner # "current"
  /\ Answers(<<Invalid>>)
  /\ UNCHANGED <<broker, lost>>

\* The OK goes out, then the address of the context is read, which is NULL:
\* the broker dies, with the OK on its way, or less of what it had sent.
ServeCloseOfUnknown ==
  /\ up /\ owner # "current"
  /\ toserver # <<>> /\ Head(toserver).id = "CONNECTION CLOSE"
  /\ up' = FALSE /\ owner' = "nobody" /\ known' = {} /\ stored' = <<>>
  /\ \E i \in 1 .. Len(toserver), j \in 0 .. Len(toclient) :
       /\ toserver' = SubSeq(toserver, i + 1, Len(toserver))
       /\ lost' = lost \cup CutMails(j) \cup ToSet(stored)
       /\ \/ toclient' = SubSeq(toclient, 1, j)
          \/ j = Len(toclient) /\ Answers(<<Plain("OK")>>)
  /\ UNCHANGED <<machine, timers, setup, api, app, counts>>

Dropped(answer) ==
  /\ owner' = "nobody" /\ known' = {}
  /\ Answers(<<answer>>)
  /\ UNCHANGED <<up, stored, lost>>

\* A second OPEN is refused, and so is the client.
ServeOpenAgain ==
  Taking({"CONNECTION OPEN"}) /\ owner = "current" /\ Dropped(Invalid)

ServeClose ==
  Taking({"CONNECTION CLOSE"}) /\ owner = "current" /\ Dropped(Plain("OK"))

ServePing ==
  /\ Taking({"CONNECTION PING"}) /\ owner = "current"
  /\ Answers(<<Plain("CONNECTION PONG")>>)
  /\ UNCHANGED <<broker, lost>>

\* What is in force after command m: a writer talks to one stream.
Knowing(m) ==
  CASE m.id = "STREAM WRITE" -> {k \in known : k.id # "STREAM WRITE"} \cup {m}
    [] m.id = "STREAM CANCEL" ->
         {k \in known : k.id # "STREAM READ" \/ k.name # m.name}
    [] OTHER -> known \cup {m}

ServeSetup ==
  /\ Taking(SetupCommands) /\ owner = "current"
  /\ known' = Knowing(Head(toserver))
  /\ Answers(<<Plain("OK")>>)
  /\ UNCHANGED <<up, owner, stored, lost>>

\* Without a writer a message for a stream is an error, and the last one.
ServeSend ==
  \/ /\ Taking({"MAILBOX SEND", "STREAM SEND"}) /\ owner = "current"
     /\ Head(toserver).id = "STREAM SEND" => \E k \in known : k.id = "STREAM WRITE"
     /\ UNCHANGED <<broker, toclient, lost>>
  \/ /\ Taking({"STREAM SEND"}) /\ owner = "current"
     /\ ~ \E k \in known : k.id = "STREAM WRITE"
     /\ Dropped(Error("FAILED"))

-----------------------------------------------------------------------------
Receive == ReceiveOK \/ ReceiveError \/ ReceivePong \/ ReceiveDeliver
Serve ==
  \/ ServeOpen \/ ServeUnknown \/ ServeCloseOfUnknown \/ ServeOpenAgain
  \/ ServeClose \/ ServePing \/ ServeSetup \/ ServeSend
Caller ==
  \/ Connect \/ Destructor \/ AcceptReply
  \/ \E c \in Setup : SetUp(c)
  \/ \E id \in Sends : SendMessage(id)
Trouble == Crash \/ Break \/ ServerExpires

Next ==
  \/ Receive \/ Heartbeat \/ Expired \/ Caller
  \/ Serve \/ Restart \/ MailComes \/ Trouble

Spec == Init /\ [][Next]_vars

\* The actor's reactor serves its sockets and timers, the broker runs, and a
\* thread that waits for a reply takes it.  No call, message, trouble or
\* restart need ever happen.
FairSpec ==
  /\ Spec
  /\ WF_vars(Receive) /\ WF_vars(Heartbeat) /\ WF_vars(Silence /\ Expired)
  /\ WF_vars(Serve) /\ WF_vars(AcceptReply)

-----------------------------------------------------------------------------
Calls == SetupCommands \cup {"CONNECT", "DESTRUCTOR"}

\* The commands of a list that are in force when it has been carried out.
InForce ==
  {replays[i] :
     i \in {i \in DOMAIN replays :
             replays[i].id = "STREAM WRITE" =>
               \A j \in i + 1 .. Len(replays) : replays[j].id # "STREAM WRITE"}}

\* Command m ends what command c began.
Overrides(m, c) ==
  \/ m.id = "STREAM WRITE" /\ c.id = "STREAM WRITE" /\ m # c
  \/ m.id = "STREAM CANCEL" /\ c.id = "STREAM READ" /\ m.name = c.name

\* Nothing behind position i ends c, nor the connection.
Clear(ts, i, c) ==
  \A j \in DOMAIN ts : i < j => ts[j].id # "CONNECTION OPEN" /\ ~Overrides(ts[j], c)

\* The command is on its way, or the broker has carried it out, or the broker
\* will refuse what comes next.
Secured(ts, o, k, c) ==
  \/ \E i \in DOMAIN ts : ts[i] = c /\ Clear(ts, i, c)
  \/ o = "current" /\ c \in k /\ Clear(ts, 0, c)
  \/ o # "current" /\ \A j \in DOMAIN ts : ts[j].id # "CONNECTION OPEN"

\* The broker has carried out c, unless it dropped the client since.
Done(c) ==
  owner = "current" =>
    IF c.id = "STREAM CANCEL"
    THEN \A k \in known : ~ Overrides(c, k)
    ELSE c \in known

\* The client counts as connected, and what it and the broker sent is handled.
Settled == state = "connected" /\ toserver = <<>> /\ toclient = <<>> /\ owner = "current"

\* A replay comes to a halt at a STREAM CANCEL (Reconnects is about that); the
\* call that sets it going again sends a command with a stale name.
NeverCancelled == \A i \in DOMAIN replays : replays[i].id # "STREAM CANCEL"

\* The next reply to a set-up call is SUCCESS.
ToldSuccess == replies # <<>> /\ Head(replies) = "SUCCESS" /\ call \in SetupCommands

\* A reply is sent only while a call waits, and one at most: s_accept_reply
\* takes the first that comes.  (The error that ends the machine is signalled
\* whether asked or not.)  What a set-up call that is told of SUCCESS may rely
\* on: its command is in the list that reconnections replay.  As long as
\* nothing broke and no timeout came early, the OK was that to its command,
\* and the broker has carried it out.  Afterwards the OK may be that to
\* another command, which was replayed or whose confirmation came late; but
\* the command is on its way or was carried out, or the client will have to
\* connect again and replay it (check_status_code, client_is_connected).
SuccessHolds ==
  /\ state # "have_error" => Len(replies) <= IF call \in Calls THEN 1 ELSE 0
  /\ ToldSuccess =>
       /\ replays # <<>> /\ Last(replays).id = call
       /\ breaks + late = 0 /\ ~stopped => Done(Last(replays))
       /\ NeverCancelled /\ ~gaveup /\ state \in {"connected", "confirming", "disconnected"} =>
            Secured(toserver, owner, known, Last(replays))

\* However often the connection broke and the broker restarted: once the
\* client is connected and all is answered, the broker knows every command
\* of the replay list (get_first_replay_command and what follows), unless
\* the client gave up a reconnection: the OK that comes then is discarded, and
\* the next PONG makes it connected without a replay.
SubscriptionsKept ==
  NeverCancelled /\ ~gaveup /\ Settled => InForce \subseteq known

\* The caller's application sees mails in the order they were sent, none
\* twice, and what is neither seen nor lost is on its way.
MailsInOrder ==
  /\ \A i, j \in DOMAIN app : i < j => app[i] < app[j]
  /\ ToSet(app) \cup lost \cup MailsIn(toclient) \cup ToSet(stored) = 1 .. mails

\* No mail is lost unless something broke, a timeout came early, or the
\* client ended with mails under way.
LostOnlyInTrouble ==
  lost # {} => breaks + late > 0 \/ stopped \/ state = "terminating"

\* A client that is connected, or waits for a confirmation, notices when
\* the broker dies and does not come back.
NoticesDeath ==
  (state \in {"connected", "confirming"} /\ ~up)
    ~> (up \/ state \notin {"connected", "confirming"})

\* Set-up and closing calls the broker was asked about are answered, by the
\* broker or by the expiry timer.
ConfirmationEnds ==
  (state \in {"confirming", "terminating"} /\ ~stopped) ~> call \notin Calls

\* mlm_client_connected: "the client will automatically re-connect if the
\* server dies and restarts after a successful first connection".
Reconnects == state = "reconnecting" ~> state # "reconnecting"
=============================================================================
