------------------------------ MODULE MsgQueue ------------------------------
(***************************************************************************)
(* The message queue (mlm_msgq) of a mailbox or of a service: a list with  *)
(* a running total of the sizes of its messages, a hard and a soft limit   *)
(* that may change at any time, and a cursor for the walk of a service     *)
(* through its requests.                                                   *)
(***************************************************************************)
EXTENDS Integers, FiniteSets, SequencesExt

CONSTANTS
  Size,        \* sizes of messages
  Setting,     \* texts of the configuration that stand for a number
  Unlimited,   \* (size_t) -1
  MaxMessages, \* bound on the messages latest in a behaviour
  MaxReloads   \* bound on the configurations loaded in a behaviour

ASSUME SizeAssumption == Size \subseteq Nat /\ Setting \subseteq Nat
ASSUME UnlimitedAssumption == Unlimited \notin Nat
ASSUME MessagesAssumption == MaxMessages \in Nat

VARIABLES
  owner,         \* "mailbox" or "service": who works with the queue
  contents,      \* self->queue
  messages_size, \* the running total
  size_warn, size_limit, \* the configuration, shared with other queues
  warned,        \* the soft limit was reported
  cursor,        \* of the list: a position, or 0
  walking,       \* s_service_dispatch is between first and the last next
  latest,        \* history: the message that came last, kept or dropped
  reloads,       \* history: configurations loaded
  unseen,        \* history: messages that the walk must still come to
  relieved       \* history: the queue was at most half the soft limit, or
                 \* the limit was changed, since the last warning

config == <<size_warn, size_limit>>
walk == <<cursor, walking, unseen>>
vars == <<owner, contents, messages_size, config, warned, walk, latest, reloads, relieved>>

Limit == Setting \cup {Unlimited}
Message == [id : 1 .. MaxMessages, size : Size]

Init ==
  /\ owner \in {"mailbox", "service"}
  /\ contents = <<>>
  /\ messages_size = 0
  /\ size_warn = Unlimited
  /\ size_limit = Unlimited
  /\ warned = FALSE
  /\ cursor = 0
  /\ walking = FALSE
  /\ latest = [id |-> 0, size |-> 0]
  /\ reloads = 0
  /\ unseen = {}
  /\ relieved = TRUE

-----------------------------------------------------------------------------
Fits(size) == size_limit = Unlimited \/ messages_size + size <= size_limit

\* Mutant: the soft limit is reported for every message above it.
WarnsAgain(size) == size_warn # Unlimited /\ messages_size + size > size_warn

\* A message of this size makes the queue report that it is over the soft limit.
Warns(size) == ~warned /\ size_warn # Unlimited /\ messages_size + size > size_warn

\* mlm_msgq_enqueue
Enqueue(size) ==
  /\ ~walking /\ latest.id < MaxMessages
  /\ latest' = [id |-> latest.id + 1, size |-> size]
  /\ IF Fits(size)
     THEN /\ contents' = Append(contents, latest')
          /\ messages_size' = messages_size + size
          /\ warned' = (warned \/ Warns(size))
          /\ relieved' = (relieved /\ ~Warns(size))
     ELSE UNCHANGED <<contents, messages_size, warned, relieved>>
  /\ UNCHANGED <<owner, config, walk, reloads>>

\* Half the soft limit, in the integers of C.  Unlimited / 2 is more than
\* any queue holds.
HalfFlushed(total) == size_warn = Unlimited \/ total <= size_warn \div 2

\* Mutant: the running total is left alone.
SameTotal(i) == messages_size

TotalWithout(i) == messages_size - contents[i].size

\* s_dequeue of message i.
Detach(i) ==
  /\ contents' = RemoveAt(contents, i)
  /\ messages_size' = TotalWithout(i)
  /\ warned' = (warned /\ ~HalfFlushed(messages_size'))
  /\ relieved' = (relieved \/ HalfFlushed(messages_size'))

\* mlm_msgq_dequeue by the mailbox actor.
Dequeue ==
  /\ owner = "mailbox" /\ contents # <<>>
  /\ Detach(1)
  /\ UNCHANGED <<owner, config, walk, latest, reloads>>

\* mlm_msgq_first: a service starts to walk through its requests.
First ==
  /\ owner = "service" /\ ~walking /\ contents # <<>>
  /\ walking' = TRUE
  /\ cursor' = 1
  /\ unseen' = ToSet(Tail(contents))
  /\ UNCHANGED <<owner, contents, messages_size, config, warned, latest, reloads, relieved>>

\* Mutant: the cursor is left where it is, on the message that followed.
CursorKept == cursor

\* zlistx_detach of the message at the cursor steps back to the one before.
CursorBack == cursor - 1

\* mlm_msgq_next in list, when the cursor is at this position.
GoOn(position, list) ==
  /\ walking' = (position < Len(list))
  /\ cursor' = IF position < Len(list) THEN position + 1 ELSE 0
  /\ unseen' = IF position < Len(list) THEN unseen \ {list[position + 1]} ELSE unseen

\* An offer took the message: mlm_msgq_dequeue_cursor and mlm_msgq_next.
TakeAndNext ==
  /\ walking
  /\ Detach(cursor)
  /\ GoOn(CursorBack, contents')
  /\ UNCHANGED <<owner, config, latest, reloads>>

\* No offer took it: mlm_msgq_next.
Skip ==
  /\ walking
  /\ GoOn(cursor, contents)
  /\ UNCHANGED <<owner, contents, messages_size, config, warned, latest, reloads, relieved>>

\* s_limit_get: "max" is no limit, a number is the limit, and so is a number
\* that more text follows; a text without a number leaves the old value.
LimitGet(old) == Limit \cup {old}

\* mlm_msgq_cfg_configure.  The queues keep what they hold, and warned.
Configure ==
  /\ ~walking /\ reloads < MaxReloads
  /\ reloads' = reloads + 1
  /\ size_warn' \in LimitGet(size_warn)
  /\ size_limit' \in LimitGet(size_limit)
  /\ relieved' = TRUE
  /\ UNCHANGED <<owner, contents, messages_size, warned, walk, latest>>

Next ==
  \/ \E size \in Size : Enqueue(size)
  \/ Dequeue
  \/ First
  \/ TakeAndNext
  \/ Skip
  \/ Configure

Spec == Init /\ [][Next]_vars

-----------------------------------------------------------------------------
\* Properties

Queue == INSTANCE BoundedQueue WITH limit <- size_limit

\* The queue is a bounded queue: with a running total, instead of a sum over
\* its messages, it keeps and drops the same messages (mlm_msgq_enqueue and
\* s_dequeue), also after the limit was changed under it.
IsBoundedQueue == Queue!Spec

\* The soft limit is reported once each time the queue grows over it: not
\* again before half of it was flushed or the limit changed.
WarnedOnce == [][\A size \in Size :
                   Enqueue(size) /\ Fits(size) /\ Warns(size) => relieved]_vars

\* A walk through the queue comes to every message, whatever messages are
\* taken out on the way (zlistx_detach under mlm_msgq_next).
WalkComplete == ~walking => \A msg \in unseen : msg \notin ToSet(contents)
=============================================================================
