------------------------------- MODULE Mailbox -------------------------------
(***************************************************************************)
(* The mailbox actor (mlm_mailbox_bounded), which keeps the queue of an    *)
(* address in a thread of its own.  The server thread sends it commands    *)
(* through a pipe: STORE, and goes on; QUERY and CONFIGURE, and waits for  *)
(* the reply.  The module Broker takes a mailbox for a variable of the     *)
(* server; here is why it may.                                             *)
(*                                                                         *)
(* The queue is that of MsgQueue.  When a service owns it, there is no     *)
(* actor, and the server thread calls the queue itself.                    *)
(***************************************************************************)
EXTENDS MsgQueue

VARIABLES
  pipe,     \* commands on their way to the actor
  replies,  \* on their way back
  waiting   \* the command whose reply the server thread waits for

link == <<pipe, replies, waiting>>
allVars == <<vars, link>>

NoCommand == "none"
Store(msg) == [method |-> "STORE", msg |-> msg]
Ask(method) == [method |-> method, msg |-> [id |-> 0, size |-> 0]]

\* The mail that was stored last, as far as the server thread knows.
Stores == {i \in DOMAIN pipe : pipe[i].method = "STORE"}
LastSent == IF Stores = {} THEN latest ELSE pipe[Max(Stores)].msg

MailboxInit == Init /\ pipe = <<>> /\ replies = <<>> /\ waiting = NoCommand

-----------------------------------------------------------------------------
\* The server thread

Free == owner = "mailbox" /\ waiting = NoCommand

\* write_message_to_mailbox: the message is sent and forgotten.
SendStore(size) ==
  /\ Free
  /\ LastSent.id < MaxMessages
  /\ pipe' = Append(pipe, Store([id |-> LastSent.id + 1, size |-> size]))
  /\ UNCHANGED <<vars, replies, waiting>>

\* check_for_mailbox_messages
SendQuery ==
  /\ Free
  /\ pipe' = Append(pipe, Ask("QUERY"))
  /\ waiting' = "QUERY"
  /\ UNCHANGED <<vars, replies>>

\* Mutant: the server goes on while the actor has still to read the settings.
ConfigureUnawaited ==
  /\ Free
  /\ reloads < MaxReloads
  /\ "CONFIGURE" \notin {pipe[i].method : i \in DOMAIN pipe}
  /\ pipe' = Append(pipe, Ask("CONFIGURE"))
  /\ UNCHANGED <<vars, replies, waiting>>

\* server_configuration
SendConfigure ==
  /\ Free
  /\ reloads < MaxReloads
  /\ pipe' = Append(pipe, Ask("CONFIGURE"))
  /\ waiting' = "CONFIGURE"
  /\ UNCHANGED <<vars, replies>>

\* The reply, a message or NULL, ends the wait.
TakeReply ==
  /\ replies # <<>>
  /\ replies' = Tail(replies)
  /\ waiting' = NoCommand
  /\ UNCHANGED <<vars, pipe>>

-----------------------------------------------------------------------------
\* The actor: s_self_handle_command

Handling(method) ==
  /\ pipe # <<>>
  /\ Head(pipe).method = method
  /\ pipe' = Tail(pipe)
  /\ UNCHANGED waiting

HandleStore ==
  /\ Handling("STORE")
  /\ Enqueue(Head(pipe).msg.size)
  /\ UNCHANGED replies

\* Mutant: no answer about an address that has no mail.
AnswerMail == Dequeue /\ replies' = Append(replies, "mail")

\* The first mail, or NULL when there is no mailbox or none in it.
Answer ==
  \/ Dequeue /\ replies' = Append(replies, "mail")
  \/ contents = <<>> /\ replies' = Append(replies, "NULL") /\ UNCHANGED vars

HandleQuery == Handling("QUERY") /\ Answer

HandleConfigure ==
  /\ Handling("CONFIGURE")
  /\ Configure
  /\ replies' = Append(replies, "done")

Actor == HandleStore \/ HandleQuery \/ HandleConfigure

-----------------------------------------------------------------------------
MailboxNext ==
  \/ \E size \in Size : SendStore(size)
  \/ SendQuery
  \/ SendConfigure
  \/ TakeReply
  \/ Actor
  \/ owner = "service" /\ Next /\ UNCHANGED link

\* Each of the two threads goes on when it can.
MailboxSpec ==
  MailboxInit /\ [][MailboxNext]_allVars /\ WF_allVars(Actor) /\ WF_allVars(TakeReply)

-----------------------------------------------------------------------------
Keep(list, msg, limit) ==
  IF limit = Unlimited \/ Queue!Total(list) + msg.size <= limit
  THEN Append(list, msg) ELSE list

\* The list when the STOREs among these commands have been handled.
AfterStores(list, commands, limit) ==
  LET seen[n \in 0 .. Len(commands)] ==
        IF n = 0 THEN list
        ELSE IF commands[n].method = "STORE" THEN Keep(seen[n - 1], commands[n].msg, limit)
        ELSE seen[n - 1]
  IN seen[Len(commands)]

\* What is in the mailbox when the STOREs under way have been handled.
AsSeen == AfterStores(contents, pipe, size_limit)

ServerView ==
  INSTANCE BoundedQueue WITH contents <- AsSeen, limit <- size_limit, latest <- LastSent

\* To the server thread a mailbox is a bounded queue of its own: what it
\* stored is there in the next QUERY, in order, under the limit that was in
\* force when it stored it (s_self_handle_command, server_configuration).
ActorIsTransparent == ServerView!Spec

\* The server thread, which serves all clients, never waits for the mailbox
\* for good, whether there is mail or not (zsock_recv on the pipe).
ServerGoesOn == waiting # NoCommand ~> waiting = NoCommand
=============================================================================
