---------------------------- MODULE BoundedQueue ----------------------------
(***************************************************************************)
(* What a message queue of the broker promises: messages wait in the order *)
(* they came, a message that would bring the total size over the limit is  *)
(* dropped and every other is kept, and a message leaves only when it is   *)
(* taken.  MsgQueue is the detailed specification of mlm_msgq.             *)
(***************************************************************************)
EXTENDS Integers, SequencesExt

CONSTANTS
  Message,    \* messages: records with an id and a size
  Unlimited   \* the limit of a queue that has none

VARIABLES
  contents,   \* the messages that wait, oldest first
  limit,      \* the limit in force
  latest      \* the message that came last, kept or dropped

\* A recursive function, because folds are out of the provers' reach.
Total(list) ==
  LET sum[n \in 0 .. Len(list)] == IF n = 0 THEN 0 ELSE sum[n - 1] + list[n].size
  IN sum[Len(list)]

Room(msg) == limit = Unlimited \/ Total(contents) + msg.size <= limit

Init ==
  /\ contents = <<>>
  /\ limit \in Nat \cup {Unlimited}
  /\ latest = [id |-> 0, size |-> 0]

Put(msg) ==
  /\ contents' = IF Room(msg) THEN Append(contents, msg) ELSE contents
  /\ latest' = msg
  /\ UNCHANGED limit

Take(i) ==
  /\ contents' = RemoveAt(contents, i)
  /\ UNCHANGED <<limit, latest>>

\* A lower limit drops nothing that waits already.
SetLimit ==
  /\ limit' \in Nat \cup {Unlimited}
  /\ UNCHANGED <<contents, latest>>

Next ==
  \/ \E msg \in Message : Put(msg)
  \/ \E i \in DOMAIN contents : Take(i)
  \/ SetLimit

Spec == Init /\ [][Next]_<<contents, limit, latest>>
=============================================================================
