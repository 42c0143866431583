--------------------------- MODULE SessionProofs ---------------------------
(***************************************************************************)
(* Proofs about Session, for every value of its constants.                 *)
(***************************************************************************)
EXTENDS Session, TLAPS, Lemmas, FiniteSetTheorems

-----------------------------------------------------------------------------
\* Calls and replies

Reply == {"SUCCESS", "FAILURE"}

\* The machine owes the caller the reply to a call that was sent.
Owing == state \in {"connecting", "confirming", "terminating"} /\ ~stopped

\* One reply at most, and only to a call, until the error that ends the machine.
OneReply == state # "have_error" => Len(replies) <= IF call \in Calls THEN 1 ELSE 0

\* It is kept because the machine owes a reply only to a call that waits, and
\* to which none is on its way.
CallsInv ==
  /\ call \in Calls \cup {NoCall, "destroyed"}
  /\ replies \in Seq(Reply)
  /\ state = "have_error" => stopped
  /\ Owing => call \in Calls /\ replies = <<>>
  /\ OneReply

LEMMA RepliesGrow ==
  ASSUME NEW r \in Reply
  PROVE  Append(<<>>, r) \in Seq(Reply) /\ Len(Append(<<>>, r)) = 1
OBVIOUS

LEMMA RepliesShrink ==
  ASSUME NEW list \in Seq(Reply), list # <<>>
  PROVE  Tail(list) \in Seq(Reply) /\ Len(Tail(list)) = Len(list) - 1
OBVIOUS

LEMMA NoReplies ==
  ASSUME NEW list \in Seq(Reply), Len(list) <= 0
  PROVE  list = <<>>
OBVIOUS

LEMMA EmptyReplies == <<>> \in Seq(Reply) /\ Len(<<>>) = 0
OBVIOUS

\* Between two calls nothing waits for the caller.
LEMMA IdleMeansNone ==
  ASSUME CallsInv, call = NoCall
  PROVE  state # "have_error" => replies = <<>>
<1>1. call \notin Calls
  BY DEF NoCall, Calls, SetupCommands
<1> QED BY <1>1, NoReplies DEF CallsInv, OneReply

LEMMA CallsKept ==
  ASSUME CallsInv, [Next]_vars
  PROVE  CallsInv'
<1> USE DEF CallsInv, Owing, OneReply
<1>0. \A c \in Setup : c.id \in Calls
  BY SetupAssumption DEF Calls
<1>1. CASE ReceiveOK
  <2>1. CASE OKConnecting \/ OKConfirming \/ OKTerminating
    <3>1. replies' = Append(<<>>, "SUCCESS") /\ call' = call /\ call \in Calls
      BY <2>1 DEF OKConnecting, OKConfirming, OKTerminating, Handled, Signal
    <3>2. state' \in {"connected", "terminating"} /\ (state' = "terminating" => stopped')
      BY <2>1 DEF OKConnecting, OKConfirming, OKTerminating, Go, Stop
    <3> QED BY <3>1, <3>2, RepliesGrow DEF Reply
  <2>2. CASE OKReconnecting
    BY <2>2 DEF OKReconnecting, Handled, Replay, Go, api
  <2>3. CASE Discarded("OK", {"start", "connected", "disconnected", "have_error"})
    BY <2>3 DEF Discarded, api, machine
  <2> QED BY <1>1, <2>1, <2>2, <2>3 DEF ReceiveOK
<1>2. CASE ReceiveError
  <2>1. CASE ErrorServed
    BY <2>1 DEF ErrorServed, Handled, HaveError, Go, Stop, Signal, api, Reply
  <2>2. CASE ErrorConfirming
    <3>1. call' = call /\ call \in Calls /\ replies = <<>>
      BY <2>2 DEF ErrorConfirming, Handled, ConfirmingError, Signal, api
    <3>2. CASE state' = "reconnecting" /\ replies' = Append(<<>>, "FAILURE")
      BY <3>1, <3>2, RepliesGrow DEF Reply
    <3>3. CASE state' = "have_error" /\ stopped' /\ replies' = <<>> \o <<"FAILURE", "FAILURE">>
      <4>1. <<"FAILURE", "FAILURE">> \in Seq(Reply)
        BY DEF Reply
      <4>2. replies' \in Seq(Reply)
        BY <3>3, <4>1
      <4> QED BY <3>1, <3>3, <4>2
    <3> QED BY <3>1, <3>2, <3>3, <2>2 DEF ErrorConfirming, ConfirmingError, Go, Stop, Signal
  <2>3. CASE ErrorTerminating
    <3>1. replies' = Append(<<>>, "FAILURE") /\ call' = call /\ call \in Calls
      BY <2>3 DEF ErrorTerminating, Handled, Signal
    <3>2. state' = "terminating" /\ stopped'
      BY <2>3 DEF ErrorTerminating, Stop
    <3> QED BY <3>1, <3>2, RepliesGrow DEF Reply
  <2>4. CASE Discarded("ERROR", {"start", "reconnecting"})
    BY <2>4 DEF Discarded, api, machine
  <2> QED BY <1>2, <2>1, <2>2, <2>3, <2>4 DEF ReceiveError
<1>3. CASE ReceivePong
  <2>1. CASE PongServed
    BY <2>1 DEF PongServed, Handled, Go, api
  <2>2. CASE Discarded("CONNECTION PONG", {"start", "confirming", "terminating", "reconnecting"})
    BY <2>2 DEF Discarded, api, machine
  <2> QED BY <1>3, <2>1, <2>2 DEF ReceivePong
<1>4. CASE ReceiveDeliver
  BY <1>4 DEF ReceiveDeliver, machine, api
<1>5. CASE Heartbeat
  BY <1>5 DEF Heartbeat, machine, api
<1>6. CASE Expired
  <2>1. CASE ExpiredConnecting \/ ExpiredConfirming \/ ExpiredTerminating
    <3>1. replies' = Append(<<>>, "FAILURE") /\ call' = call /\ call \in Calls
      BY <2>1 DEF ExpiredConnecting, ExpiredConfirming, ExpiredTerminating, TimeOut, Signal
    <3>2. state' \in {"start", "disconnected", "terminating"} /\ (state' = "terminating" => stopped')
      BY <2>1 DEF ExpiredConnecting, ExpiredConfirming, ExpiredTerminating, Go, Stop
    <3> QED BY <3>1, <3>2, RepliesGrow DEF Reply
  <2>2. CASE ExpiredConnected
    BY <2>2 DEF ExpiredConnected, TimeOut, Go, api
  <2> QED BY <1>6, <2>1, <2>2 DEF Expired
<1>7. CASE Caller
  <2>1. CASE Connect
    <3>1. call = NoCall /\ call' \in Calls /\ replies = <<>>
      BY <2>1, IdleMeansNone DEF Connect, Called, Calls
    <3>2. CASE Refused
      BY <2>1, <3>1, <3>2, RepliesGrow DEF Connect, Refused, machine, Reply
    <3>3. CASE Go("connecting") /\ replies' = replies
      BY <2>1, <3>1, <3>3, EmptyReplies DEF Connect, Go
    <3> QED BY <2>1, <3>2, <3>3 DEF Connect
  <2>2. CASE Destructor
    <3>1. call' = "DESTRUCTOR" /\ call' \in Calls
      BY <2>2 DEF Destructor, DestroyOffline, DestroyConnected, Called, Calls
    <3>2. CASE DestroyOffline
      <4>1. <<"SUCCESS">> \in Seq(Reply) /\ Len(<<"SUCCESS">>) = 1
        BY DEF Reply
      <4> QED BY <3>1, <3>2, <4>1 DEF DestroyOffline, Stop
    <3>3. CASE DestroyConnected
      <4>1. replies' = <<>> /\ state' = "terminating"
        BY <3>3 DEF DestroyConnected, Go
      <4> QED BY <3>1, <4>1, EmptyReplies
    <3>4. CASE replies' = <<>> /\ UNCHANGED machine
      BY <3>1, <3>4, EmptyReplies DEF machine
    <3> QED BY <2>2, <3>2, <3>3, <3>4 DEF Destructor
  <2>3. CASE AcceptReply
    <3>1. ~ Owing
      BY <2>3 DEF AcceptReply
    <3>2. Tail(replies) \in Seq(Reply) /\ Len(Tail(replies)) = Len(replies) - 1
      BY <2>3, RepliesShrink DEF AcceptReply
    <3>3. call' \in Calls \cup {NoCall, "destroyed"}
      BY <2>3 DEF AcceptReply
    <3>4. Len(replies) \in Nat
      OBVIOUS
    <3> QED BY <2>3, <3>1, <3>2, <3>3, <3>4 DEF AcceptReply, machine
  <2>4. ASSUME NEW c \in Setup, SetUp(c) PROVE CallsInv'
    <3>1. call = NoCall /\ call' = c.id /\ call' \in Calls
      BY <2>4, <1>0 DEF SetUp, SetUpConnected, BadPattern, NotYetConnected, NoLongerConnected,
                        SetUpReconnecting, Called
    <3>2. CASE Refused
      <4>1. state # "have_error" => replies' = Append(<<>>, "FAILURE")
        BY <3>1, <3>2, IdleMeansNone DEF Refused
      <4>2. replies' \in Seq(Reply)
        BY <3>2 DEF Refused, Reply
      <4>3. ~ Owing
        BY <3>1 DEF NoCall, Calls, SetupCommands
      <4> QED BY <3>1, <3>2, <4>1, <4>2, <4>3, RepliesGrow DEF Refused, machine, Reply
    <3>3. CASE replies' = replies /\ (Go("confirming") \/ Go("connected") \/ Go("reconnecting"))
               /\ state # "have_error"
      BY <3>1, <3>3, IdleMeansNone, EmptyReplies DEF Go
    <3>4. CASE Swallowed
      BY <3>1, <3>4, IdleMeansNone, EmptyReplies DEF Swallowed, machine
    <3> QED BY <2>4, <3>2, <3>3, <3>4 DEF SetUp, SetUpConnected, BadPattern, NotYetConnected,
                                       NoLongerConnected, SetUpReconnecting, Replay
  <2>5. ASSUME NEW id \in Sends, SendMessage(id) PROVE CallsInv'
    BY <2>5 DEF SendMessage, machine, api
  <2> QED BY <1>7, <2>1, <2>2, <2>3, <2>4, <2>5 DEF Caller
<1>8. CASE Serve
  BY <1>8 DEF Serve, ServeOpen, ServeUnknown, ServeCloseOfUnknown, ServeOpenAgain, ServeClose,
              ServePing, ServeSetup, ServeSend, Taking, machine, api
<1>9. CASE Restart \/ MailComes \/ Trouble
  BY <1>9 DEF Restart, MailComes, Trouble, Crash, Break, ServerExpires, machine, api
<1>10. CASE UNCHANGED vars
  BY <1>10 DEF vars, machine, api
<1> QED BY <1>1, <1>2, <1>3, <1>4, <1>5, <1>6, <1>7, <1>8, <1>9, <1>10 DEF Next, Receive

\* The invariant of the calls: the caller is owed a reply only while it
\* waits for one, and the machine has not sent it yet (the signals of
\* mlm_client.c and s_accept_reply).
THEOREM CallsCorrect == Spec => []CallsInv
<1>1. Init => CallsInv
  BY EmptyReplies DEF Init, CallsInv, Owing, OneReply, NoCall
<1>2. CallsInv /\ [Next]_vars => CallsInv'
  BY CallsKept
<1> QED BY <1>1, <1>2, PTL DEF Spec

-----------------------------------------------------------------------------
\* Lists of mails, and of what the broker sends

Notice == {Plain("OK"), Plain("CONNECTION PONG"), Invalid, Error("FAILED")}
FromBroker == Notice \cup {Mail(n) : n \in Nat}

Rising(list) == \A i, j \in DOMAIN list : i < j => list[i] < list[j]

\* The mails among the messages of a pipe are in order.
RisingMails(ch) ==
  \A i, j \in DOMAIN ch :
    i < j /\ ch[i].id = "MAILBOX DELIVER" /\ ch[j].id = "MAILBOX DELIVER" =>
      ch[i].mail < ch[j].mail

Before(S, T) == \A x \in S, y \in T : x < y

LEMMA NoticeIsNoMail == \A m \in Notice : m.id # "MAILBOX DELIVER"
<1>1. Plain("OK").id # "MAILBOX DELIVER" /\ Plain("CONNECTION PONG").id # "MAILBOX DELIVER"
  BY DEF Plain
<1>2. Invalid.id # "MAILBOX DELIVER" /\ Error("FAILED").id # "MAILBOX DELIVER"
  BY DEF Invalid, Error
<1> QED BY <1>1, <1>2, Zenon DEF Notice

LEMMA MailIsMail ==
  \A n \in Nat : Mail(n) \in FromBroker /\ Mail(n).id = "MAILBOX DELIVER" /\ Mail(n).mail = n
BY DEF FromBroker, Mail

LEMMA MailOfBroker ==
  \A m \in FromBroker :
    IF m.id = "MAILBOX DELIVER" THEN m.mail \in Nat ELSE m \in Notice
<1> SUFFICES ASSUME NEW m \in FromBroker
             PROVE  IF m.id = "MAILBOX DELIVER" THEN m.mail \in Nat ELSE m \in Notice
  OBVIOUS
<1>1. CASE m \in Notice
  BY <1>1, NoticeIsNoMail
<1>2. CASE m \notin Notice
  <2>1. PICK n \in Nat : m = Mail(n)
    BY <1>2 DEF FromBroker
  <2>2. m.id = "MAILBOX DELIVER" /\ m.mail = n
    BY ONLY <2>1, MailIsMail, Zenon
  <2> QED BY <2>2
<1> QED BY <1>1, <1>2

LEMMA MailsAreNumbers ==
  ASSUME NEW ch \in Seq(FromBroker)
  PROVE  MailsIn(ch) \subseteq Nat
<1>1. \A k \in DOMAIN ch : ch[k] \in FromBroker
  OBVIOUS
<1> QED BY <1>1, MailOfBroker DEF MailsIn

LEMMA ElementsAreNumbers ==
  ASSUME NEW list \in Seq(Nat)
  PROVE  ToSet(list) \subseteq Nat
BY DEF ToSet

LEMMA NoMails == MailsIn(<<>>) = {} /\ ToSet(<<>>) = {} /\ Rising(<<>>) /\ RisingMails(<<>>)
BY DEF MailsIn, ToSet, Rising, RisingMails

\* What is behind the first message.
LEMMA MailsOfTail ==
  ASSUME NEW ch \in Seq(FromBroker), ch # <<>>
  PROVE  /\ Tail(ch) \in Seq(FromBroker) /\ Head(ch) \in FromBroker
         /\ MailsIn(ch) = MailsIn(Tail(ch)) \cup
              (IF Head(ch).id = "MAILBOX DELIVER" THEN {Head(ch).mail} ELSE {})
         /\ RisingMails(ch) => RisingMails(Tail(ch))
         /\ RisingMails(ch) /\ Head(ch).id = "MAILBOX DELIVER" =>
              Before({Head(ch).mail}, MailsIn(Tail(ch)))
<1>1. PICK n \in Nat : n = Len(ch)
  OBVIOUS
<1>2. PICK rest : rest = Tail(ch)
  OBVIOUS
<1>3. /\ rest \in Seq(FromBroker) /\ Head(ch) = ch[1] /\ Head(ch) \in FromBroker
      /\ DOMAIN ch = 1 .. n /\ DOMAIN rest = 1 .. n - 1 /\ n > 0
      /\ \A i \in 1 .. n - 1 : rest[i] = ch[i + 1]
  BY <1>1, <1>2
<1>4. \A i \in 1 .. n : i = 1 \/ i - 1 \in 1 .. n - 1
  BY <1>1
<1>9. \A i \in 1 .. n : (i - 1) + 1 = i
  BY <1>1
<1>5. \A i \in 1 .. n - 1 : i + 1 \in 1 .. n /\ 1 < i + 1
  BY <1>1
<1>6. MailsIn(ch) = MailsIn(rest) \cup
        (IF ch[1].id = "MAILBOX DELIVER" THEN {ch[1].mail} ELSE {})
  <2>1. ASSUME NEW i \in DOMAIN ch, ch[i].id = "MAILBOX DELIVER", i # 1
        PROVE  ch[i].mail \in MailsIn(rest)
    <3>1. i \in 1 .. n /\ i - 1 \in 1 .. n - 1 /\ (i - 1) + 1 = i
      BY <1>3, <1>4, <1>9, <2>1, Zenon
    <3>2. i - 1 \in DOMAIN rest /\ rest[i - 1] = ch[i]
      BY <1>3, <3>1
    <3> QED BY <3>2, <2>1 DEF MailsIn
  <2>2. ASSUME NEW i \in DOMAIN rest, rest[i].id = "MAILBOX DELIVER"
        PROVE  rest[i].mail \in MailsIn(ch)
    <3>1. i + 1 \in DOMAIN ch /\ rest[i] = ch[i + 1]
      BY <1>3, <1>5
    <3> QED BY <3>1, <2>2 DEF MailsIn
  <2>3. 1 \in DOMAIN ch
    BY <1>3
  <2> QED BY <2>1, <2>2, <2>3 DEF MailsIn
<1>7. RisingMails(ch) => RisingMails(rest)
  <2>1. \A i, j \in DOMAIN rest : i < j => i + 1 < j + 1
    BY <1>3
  <2> QED BY <2>1, <1>3, <1>5 DEF RisingMails
<1>8. RisingMails(ch) /\ ch[1].id = "MAILBOX DELIVER" => Before({ch[1].mail}, MailsIn(rest))
  <2> SUFFICES ASSUME RisingMails(ch), ch[1].id = "MAILBOX DELIVER",
                      NEW k \in DOMAIN rest, rest[k].id = "MAILBOX DELIVER"
               PROVE  ch[1].mail < rest[k].mail
    BY DEF Before, MailsIn
  <2>1. k + 1 \in DOMAIN ch /\ 1 < k + 1 /\ rest[k] = ch[k + 1]
    BY ONLY <1>3, <1>5, k \in DOMAIN rest
  <2>2. 1 \in DOMAIN ch
    BY ONLY <1>3, n \in Nat
  <2> QED BY <2>1, <2>2 DEF RisingMails
<1> QED BY <1>2, <1>3, <1>6, <1>7, <1>8

\* Two lists of messages, one behind the other.
LEMMA MailsOfJoin ==
  ASSUME NEW ch \in Seq(FromBroker), NEW more \in Seq(FromBroker)
  PROVE  /\ ch \o more \in Seq(FromBroker)
         /\ MailsIn(ch \o more) = MailsIn(ch) \cup MailsIn(more)
         /\ RisingMails(ch) /\ RisingMails(more) /\ Before(MailsIn(ch), MailsIn(more)) =>
              RisingMails(ch \o more)
<1>1. PICK n, k \in Nat : n = Len(ch) /\ k = Len(more)
  OBVIOUS
<1>2. PICK all : all = ch \o more
  OBVIOUS
<1>3. /\ all \in Seq(FromBroker)
      /\ DOMAIN ch = 1 .. n /\ DOMAIN more = 1 .. k /\ DOMAIN all = 1 .. n + k
      /\ \A i \in 1 .. n : all[i] = ch[i]
      /\ \A i \in 1 .. k : all[n + i] = more[i]
  BY <1>1, <1>2
<1>4. \A i \in 1 .. n + k : i \in 1 .. n \/ (i - n \in 1 .. k /\ n + (i - n) = i)
  BY <1>1
<1>5. \A i \in 1 .. n : i \in 1 .. n + k
  BY <1>1
<1>6. \A i \in 1 .. k : n + i \in 1 .. n + k
  BY <1>1
<1>7. \A i \in DOMAIN all :
        \/ i \in DOMAIN ch /\ all[i] = ch[i]
        \/ i - n \in DOMAIN more /\ all[i] = more[i - n] /\ i \notin DOMAIN ch
  BY <1>1, <1>3, <1>4
<1>8. MailsIn(all) = MailsIn(ch) \cup MailsIn(more)
  <2>1. MailsIn(all) \subseteq MailsIn(ch) \cup MailsIn(more)
    BY <1>7 DEF MailsIn
  <2>2. MailsIn(ch) \subseteq MailsIn(all)
    BY <1>3, <1>5 DEF MailsIn
  <2>3. MailsIn(more) \subseteq MailsIn(all)
    <3> SUFFICES ASSUME NEW i \in DOMAIN more, more[i].id = "MAILBOX DELIVER"
                 PROVE  more[i].mail \in MailsIn(all)
      BY DEF MailsIn
    <3>1. n + i \in DOMAIN all /\ all[n + i] = more[i]
      BY <1>3, <1>6
    <3> QED BY <3>1 DEF MailsIn
  <2> QED BY <2>1, <2>2, <2>3
<1>9. ASSUME RisingMails(ch), RisingMails(more), Before(MailsIn(ch), MailsIn(more))
      PROVE  RisingMails(all)
  <2> SUFFICES ASSUME NEW i \in DOMAIN all, NEW j \in DOMAIN all, i < j,
                      all[i].id = "MAILBOX DELIVER", all[j].id = "MAILBOX DELIVER"
               PROVE  all[i].mail < all[j].mail
    BY DEF RisingMails
  <2>1. CASE j \in DOMAIN ch
    <3>1. i \in DOMAIN ch
      BY ONLY <2>1, <1>3, i < j, i \in DOMAIN all, n \in Nat, k \in Nat
    <3>2. all[i] = ch[i] /\ all[j] = ch[j]
      BY <2>1, <3>1, <1>3
    <3> QED BY <2>1, <3>1, <3>2, <1>9 DEF RisingMails
  <2>2. CASE i \notin DOMAIN ch /\ j \notin DOMAIN ch
    <3>1. i \in 1 .. n + k /\ j \in 1 .. n + k
      BY <1>3
    <3>2. i - n < j - n
      BY ONLY <3>1, i < j, n \in Nat, k \in Nat
    <3> QED BY <2>2, <3>2, <1>7, <1>9 DEF RisingMails
  <2>3. CASE i \in DOMAIN ch /\ j \notin DOMAIN ch
    <3>1. all[i].mail \in MailsIn(ch)
      BY <2>3, <1>3 DEF MailsIn
    <3>2. all[j].mail \in MailsIn(more)
      BY <2>3, <1>7 DEF MailsIn
    <3> QED BY <3>1, <3>2, <1>9 DEF Before
  <2> QED BY <2>1, <2>2, <2>3
<1> QED BY <1>2, <1>3, <1>8, <1>9

LEMMA MailsOfOne ==
  ASSUME NEW m \in FromBroker
  PROVE  /\ <<m>> \in Seq(FromBroker)
         /\ MailsIn(<<m>>) = IF m.id = "MAILBOX DELIVER" THEN {m.mail} ELSE {}
         /\ RisingMails(<<m>>)
<1>1. PICK one : one = <<m>>
  OBVIOUS
<1>2. one \in Seq(FromBroker) /\ DOMAIN one = {1} /\ one[1] = m
  BY <1>1
<1>3. MailsIn(one) = IF m.id = "MAILBOX DELIVER" THEN {m.mail} ELSE {}
  BY <1>2 DEF MailsIn
<1>4. RisingMails(one)
  <2>1. \A i, j \in DOMAIN one : ~ (i < j)
    BY <1>2
  <2> QED BY <2>1 DEF RisingMails
<1> QED BY <1>1, <1>2, <1>3, <1>4

LEMMA NoticeJoins ==
  ASSUME NEW ch \in Seq(FromBroker), NEW m \in Notice, RisingMails(ch)
  PROVE  /\ ch \o <<m>> \in Seq(FromBroker)
         /\ MailsIn(ch \o <<m>>) = MailsIn(ch) /\ RisingMails(ch \o <<m>>)
<1>1. PICK one : one = <<m>>
  OBVIOUS
<1>2. m \in FromBroker
  BY DEF FromBroker
<1>3. one \in Seq(FromBroker) /\ MailsIn(one) = {} /\ RisingMails(one)
  BY <1>1, <1>2, MailsOfOne, NoticeIsNoMail
<1>4. Before(MailsIn(ch), MailsIn(one))
  BY <1>3 DEF Before
<1>5. /\ ch \o one \in Seq(FromBroker)
      /\ MailsIn(ch \o one) = MailsIn(ch) \cup MailsIn(one)
      /\ RisingMails(ch \o one)
  BY ONLY <1>3, <1>4, RisingMails(ch), ch \in Seq(FromBroker), MailsOfJoin
<1> QED BY <1>1, <1>3, <1>5

\* The mails of a mailbox, as messages.
LEMMA MailsOfStored ==
  ASSUME NEW list \in Seq(Nat)
  PROVE  /\ [k \in DOMAIN list |-> Mail(list[k])] \in Seq(FromBroker)
         /\ MailsIn([k \in DOMAIN list |-> Mail(list[k])]) = ToSet(list)
         /\ Rising(list) => RisingMails([k \in DOMAIN list |-> Mail(list[k])])
<1>1. PICK n \in Nat : n = Len(list)
  OBVIOUS
<1>2. PICK ch : ch = [k \in DOMAIN list |-> Mail(list[k])]
  OBVIOUS
<1>3. DOMAIN list = 1 .. n /\ \A k \in 1 .. n : list[k] \in Nat
  BY <1>1
<1>4. DOMAIN ch = DOMAIN list /\ \A k \in DOMAIN list : ch[k] = Mail(list[k])
  BY <1>2
<1>5. \A k \in DOMAIN list :
        ch[k] \in FromBroker /\ ch[k].id = "MAILBOX DELIVER" /\ ch[k].mail = list[k]
  <2> SUFFICES ASSUME NEW k \in DOMAIN list
               PROVE  ch[k] \in FromBroker /\ ch[k].id = "MAILBOX DELIVER" /\ ch[k].mail = list[k]
    OBVIOUS
  <2>1. list[k] \in Nat /\ ch[k] = Mail(list[k])
    BY <1>3, <1>4
  <2> QED BY ONLY <2>1, MailIsMail
<1>6. ch \in Seq(FromBroker)
  <2>1. ch = [k \in 1 .. n |-> Mail(list[k])]
    BY <1>2, <1>3
  <2>2. \A k \in 1 .. n : Mail(list[k]) \in FromBroker
    BY <1>3, MailIsMail
  <2> QED BY <2>1, <2>2
<1>7. MailsIn(ch) = ToSet(list)
  BY <1>4, <1>5 DEF MailsIn, ToSet
<1>8. Rising(list) => RisingMails(ch)
  BY <1>4, <1>5 DEF Rising, RisingMails
<1> QED BY <1>2, <1>6, <1>7, <1>8

\* A front of a list of messages, and the rest.
LEMMA MailsOfCut ==
  ASSUME NEW ch \in Seq(FromBroker), NEW j \in 0 .. Len(ch)
  PROVE  /\ SubSeq(ch, 1, j) \in Seq(FromBroker)
         /\ MailsIn(ch) = MailsIn(SubSeq(ch, 1, j)) \cup MailsIn(SubSeq(ch, j + 1, Len(ch)))
         /\ RisingMails(ch) => RisingMails(SubSeq(ch, 1, j))
<1>1. PICK n \in Nat : n = Len(ch)
  OBVIOUS
<1>2. PICK front, back : front = SubSeq(ch, 1, j) /\ back = SubSeq(ch, j + 1, Len(ch))
  OBVIOUS
<1>3. /\ front \in Seq(FromBroker) /\ DOMAIN front = 1 .. j /\ DOMAIN ch = 1 .. n
      /\ \A i \in 1 .. j : front[i] = ch[i]
  BY <1>1, <1>2
<1>4. /\ DOMAIN back = 1 .. n - j
      /\ \A i \in 1 .. n - j : back[i] = ch[i + j]
  BY <1>1, <1>2
<1>5. \A i \in 1 .. j : i \in 1 .. n
  BY <1>1
<1>6. \A i \in 1 .. n - j : i + j \in 1 .. n
  BY <1>1
<1>7. \A i \in 1 .. n : i \in 1 .. j \/ (i - j \in 1 .. n - j /\ (i - j) + j = i)
  BY <1>1
<1>8. MailsIn(ch) = MailsIn(front) \cup MailsIn(back)
  <2>1. ASSUME NEW i \in DOMAIN ch
        PROVE  \/ i \in DOMAIN front /\ front[i] = ch[i]
               \/ i - j \in DOMAIN back /\ back[i - j] = ch[i]
    BY <1>3, <1>4, <1>7
  <2>2. MailsIn(ch) \subseteq MailsIn(front) \cup MailsIn(back)
    BY <2>1 DEF MailsIn
  <2>3. MailsIn(front) \subseteq MailsIn(ch)
    BY <1>3, <1>5 DEF MailsIn
  <2>4. MailsIn(back) \subseteq MailsIn(ch)
    <3> SUFFICES ASSUME NEW i \in DOMAIN back, back[i].id = "MAILBOX DELIVER"
                 PROVE  back[i].mail \in MailsIn(ch)
      BY DEF MailsIn
    <3>1. i + j \in DOMAIN ch /\ back[i] = ch[i + j]
      BY <1>3, <1>4, <1>6
    <3> QED BY <3>1 DEF MailsIn
  <2> QED BY <2>2, <2>3, <2>4
<1>9. RisingMails(ch) => RisingMails(front)
  BY <1>3, <1>5 DEF RisingMails
<1> QED BY <1>2, <1>3, <1>8, <1>9

\* A mailbox or an application gets one more mail.
LEMMA OneMore ==
  ASSUME NEW list \in Seq(Nat), NEW n \in Nat
  PROVE  /\ Append(list, n) \in Seq(Nat)
         /\ ToSet(Append(list, n)) = ToSet(list) \cup {n}
         /\ Rising(list) /\ Before(ToSet(list), {n}) => Rising(Append(list, n))
<1>1. PICK k \in Nat : k = Len(list)
  OBVIOUS
<1>2. PICK more : more = Append(list, n)
  OBVIOUS
<1>3. /\ more \in Seq(Nat) /\ DOMAIN list = 1 .. k /\ DOMAIN more = 1 .. k + 1
      /\ more[k + 1] = n /\ \A i \in 1 .. k : more[i] = list[i]
  BY <1>1, <1>2
<1>4. \A i \in 1 .. k + 1 : i \in 1 .. k \/ i = k + 1
  BY <1>1
<1>5. \A i \in 1 .. k : i \in 1 .. k + 1 /\ i < k + 1
  BY <1>1
<1>6. k + 1 \in 1 .. k + 1
  BY <1>1
<1>7. ToSet(more) = ToSet(list) \cup {n}
  BY <1>3, <1>4, <1>5, <1>6 DEF ToSet
<1>8. ASSUME Rising(list), Before(ToSet(list), {n}) PROVE Rising(more)
  <2> SUFFICES ASSUME NEW i \in 1 .. k + 1, NEW j \in 1 .. k + 1, i < j
               PROVE  more[i] < more[j]
    BY <1>3 DEF Rising
  <2>1. CASE j \in 1 .. k
    <3>1. i \in 1 .. k
      BY <2>1
    <3> QED BY <2>1, <3>1, <1>3, <1>8 DEF Rising
  <2>2. CASE j = k + 1
    <3>1. i \in 1 .. k
      BY <2>2, <1>4
    <3>2. list[i] \in ToSet(list)
      BY <3>1, <1>3 DEF ToSet
    <3> QED BY <2>2, <3>1, <3>2, <1>3, <1>8 DEF Before
  <2> QED BY <2>1, <2>2, <1>4
<1> QED BY <1>2, <1>3, <1>7, <1>8

-----------------------------------------------------------------------------
\* Mails on their way

\* Where the mails 1 .. n are: with the application (a), lost (l), in the pipe
\* ch, or with the broker (s), which passes them on in that order.
Placed(a, l, ch, s, n, o) ==
  /\ a \in Seq(Nat) /\ ch \in Seq(FromBroker) /\ s \in Seq(Nat) /\ n \in Nat
  /\ Rising(a) /\ RisingMails(ch) /\ Rising(s)
  /\ Before(ToSet(a), MailsIn(ch)) /\ Before(ToSet(a), ToSet(s))
  /\ Before(MailsIn(ch), ToSet(s))
  /\ o = "current" => s = <<>>
  /\ ToSet(a) \cup l \cup MailsIn(ch) \cup ToSet(s) = 1 .. n

\* MailsInOrder is kept because no mail can overtake another: the mails in
\* the pipe are younger than those passed on, and older than those that wait;
\* none waits while the broker knows the client.
MailsInv == Placed(app, lost, toclient, stored, mails, owner)

\* The pipe changes, and no mail in it.
LEMMA PlacedNotice ==
  ASSUME NEW a, NEW l, NEW ch, NEW s, NEW n, NEW o, Placed(a, l, ch, s, n, o),
         NEW new \in Seq(FromBroker), MailsIn(new) = MailsIn(ch), RisingMails(new),
         NEW p, p = "current" => o = "current" \/ s = <<>>
  PROVE  Placed(a, l, new, s, n, p)
BY DEF Placed

\* The first mail of the pipe is passed to the application.
LEMMA PlacedDeliver ==
  ASSUME NEW a, NEW l, NEW ch, NEW s, NEW n, NEW o, Placed(a, l, ch, s, n, o),
         ch # <<>>, Head(ch).id = "MAILBOX DELIVER"
  PROVE  Placed(Append(a, Head(ch).mail), l, Tail(ch), s, n, o)
<1> USE DEF Placed
<1>1. PICK x : x = Head(ch).mail
  OBVIOUS
<1>2. PICK rest : rest = Tail(ch)
  OBVIOUS
<1>3. /\ rest \in Seq(FromBroker) /\ RisingMails(rest)
      /\ MailsIn(ch) = MailsIn(rest) \cup {x} /\ Before({x}, MailsIn(rest))
  BY <1>1, <1>2, MailsOfTail
<1>4. x \in Nat
  BY <1>3, MailsAreNumbers
<1>5. Before(ToSet(a), {x})
  BY <1>3 DEF Before
<1>6. PICK b : b = Append(a, x)
  OBVIOUS
<1>7. b \in Seq(Nat) /\ ToSet(b) = ToSet(a) \cup {x} /\ Rising(b)
  BY <1>4, <1>5, <1>6, OneMore
<1>8. Before(ToSet(b), MailsIn(rest)) /\ Before(ToSet(b), ToSet(s))
      /\ Before(MailsIn(rest), ToSet(s))
  BY <1>3, <1>7 DEF Before
<1>9. ToSet(b) \cup l \cup MailsIn(rest) \cup ToSet(s) = 1 .. n
  BY <1>3, <1>7
<1>10. Placed(b, l, rest, s, n, o)
  BY <1>3, <1>7, <1>8, <1>9
<1> QED BY <1>1, <1>2, <1>6, <1>10

\* It is dropped.
LEMMA PlacedDrop ==
  ASSUME NEW a, NEW l, NEW ch, NEW s, NEW n, NEW o, Placed(a, l, ch, s, n, o),
         ch # <<>>, Head(ch).id = "MAILBOX DELIVER"
  PROVE  Placed(a, l \cup {Head(ch).mail}, Tail(ch), s, n, o)
<1> USE DEF Placed
<1>1. PICK x : x = Head(ch).mail
  OBVIOUS
<1>2. PICK rest : rest = Tail(ch)
  OBVIOUS
<1>3. /\ rest \in Seq(FromBroker) /\ RisingMails(rest)
      /\ MailsIn(ch) = MailsIn(rest) \cup {x}
  BY <1>1, <1>2, MailsOfTail
<1>4. Before(ToSet(a), MailsIn(rest)) /\ Before(MailsIn(rest), ToSet(s))
  BY <1>3 DEF Before
<1>5. ToSet(a) \cup (l \cup {x}) \cup MailsIn(rest) \cup ToSet(s) = 1 .. n
  BY <1>3
<1>6. Placed(a, l \cup {x}, rest, s, n, o)
  BY <1>3, <1>4, <1>5
<1> QED BY <1>1, <1>2, <1>6

\* The connection breaks: the end of the pipe is lost.
LEMMA PlacedCut ==
  ASSUME NEW a, NEW l, NEW ch, NEW s, NEW n, NEW o, Placed(a, l, ch, s, n, o),
         NEW j \in 0 .. Len(ch), NEW p, p # "current"
  PROVE  Placed(a, l \cup MailsIn(SubSeq(ch, j + 1, Len(ch))), SubSeq(ch, 1, j), s, n, p)
<1> USE DEF Placed
<1>1. PICK front : front = SubSeq(ch, 1, j)
  OBVIOUS
<1>2. PICK M : M = MailsIn(SubSeq(ch, j + 1, Len(ch)))
  OBVIOUS
<1>3. front \in Seq(FromBroker) /\ RisingMails(front) /\ MailsIn(ch) = MailsIn(front) \cup M
  BY <1>1, <1>2, MailsOfCut
<1>4. Before(ToSet(a), MailsIn(front)) /\ Before(MailsIn(front), ToSet(s))
  BY <1>3 DEF Before
<1>5. ToSet(a) \cup (l \cup M) \cup MailsIn(front) \cup ToSet(s) = 1 .. n
  BY <1>3
<1>6. Placed(a, l \cup M, front, s, n, p)
  BY <1>3, <1>4, <1>5
<1> QED BY <1>1, <1>2, <1>6

\* The broker dies: what it holds is lost.
LEMMA PlacedDeath ==
  ASSUME NEW a, NEW l, NEW ch, NEW s, NEW n, NEW o, Placed(a, l, ch, s, n, o),
         NEW p
  PROVE  Placed(a, l \cup ToSet(s), ch, <<>>, n, p)
<1>1. Before(ToSet(a), {}) /\ Before(MailsIn(ch), {})
  BY DEF Before
<1>2. ToSet(a) \cup (l \cup ToSet(s)) \cup MailsIn(ch) \cup {} = 1 .. n
  BY DEF Placed
<1>3. <<>> \in Seq(Nat)
  OBVIOUS
<1> QED BY <1>1, <1>2, <1>3, NoMails DEF Placed

\* The broker knows the client again, and sends what waits.
LEMMA PlacedOpen ==
  ASSUME NEW a, NEW l, NEW ch, NEW s, NEW n, NEW o, Placed(a, l, ch, s, n, o), NEW p
  PROVE  Placed(a, l, ch \o (<<Plain("OK")>> \o [k \in DOMAIN s |-> Mail(s[k])]), <<>>, n, p)
<1>1. PICK one : one = <<Plain("OK")>>
  OBVIOUS
<1>2. PICK two : two = [k \in DOMAIN s |-> Mail(s[k])]
  OBVIOUS
<1>3. Plain("OK") \in FromBroker /\ Plain("OK").id # "MAILBOX DELIVER"
  BY NoticeIsNoMail DEF FromBroker, Notice
<1>4. one \in Seq(FromBroker) /\ MailsIn(one) = {} /\ RisingMails(one)
  BY <1>1, <1>3, MailsOfOne
<1>5. two \in Seq(FromBroker) /\ MailsIn(two) = ToSet(s) /\ RisingMails(two)
  BY <1>2, MailsOfStored DEF Placed
<1>6. Before(MailsIn(one), MailsIn(two))
  BY <1>4 DEF Before
<1>7. PICK more : more = one \o two
  OBVIOUS
<1>8. more \in Seq(FromBroker) /\ MailsIn(more) = ToSet(s) /\ RisingMails(more)
  <2>1. /\ one \o two \in Seq(FromBroker)
        /\ MailsIn(one \o two) = MailsIn(one) \cup MailsIn(two)
        /\ RisingMails(one \o two)
    BY ONLY <1>4, <1>5, <1>6, MailsOfJoin
  <2> QED BY ONLY <2>1, <1>4, <1>5, <1>7
<1>9. PICK all : all = ch \o more
  OBVIOUS
<1>10. ch \in Seq(FromBroker) /\ RisingMails(ch) /\ Before(MailsIn(ch), MailsIn(more))
  BY <1>8 DEF Placed
<1>11. all \in Seq(FromBroker) /\ MailsIn(all) = MailsIn(ch) \cup ToSet(s) /\ RisingMails(all)
  BY ONLY <1>8, <1>9, <1>10, MailsOfJoin
<1>12. Before(ToSet(a), MailsIn(all)) /\ Before(ToSet(a), {}) /\ Before(MailsIn(all), {})
  BY <1>11 DEF Placed, Before
<1>13. ToSet(a) \cup l \cup MailsIn(all) \cup {} = 1 .. n
  BY <1>11 DEF Placed
<1>14. <<>> \in Seq(Nat)
  OBVIOUS
<1>15. Placed(a, l, all, <<>>, n, p)
  BY <1>11, <1>12, <1>13, <1>14, NoMails DEF Placed
<1> QED BY <1>1, <1>2, <1>7, <1>9, <1>15

\* Another mail comes: it is sent at once, lost, or stored.
LEMMA PlacedMore ==
  ASSUME NEW a, NEW l, NEW ch, NEW s, NEW n, NEW o, Placed(a, l, ch, s, n, o)
  PROVE  /\ o = "current" => Placed(a, l, Append(ch, Mail(n + 1)), s, n + 1, o)
         /\ Placed(a, l \cup {n + 1}, ch, s, n + 1, o)
         /\ o # "current" => Placed(a, l, ch, Append(s, n + 1), n + 1, o)
<1> USE DEF Placed
<1>1. PICK x \in Nat : x = n + 1
  OBVIOUS
<1>2. \A y \in 1 .. n : y < x
  BY <1>1
<1>3. 1 .. x = (1 .. n) \cup {x}
  BY <1>1
<1>4. /\ Before(ToSet(a), {x}) /\ Before(MailsIn(ch), {x}) /\ Before(ToSet(s), {x})
  BY <1>2 DEF Before
<1>5. ASSUME o = "current" PROVE Placed(a, l, Append(ch, Mail(x)), s, x, o)
  <2>1. PICK one : one = <<Mail(x)>>
    OBVIOUS
  <2>2. one \in Seq(FromBroker) /\ MailsIn(one) = {x} /\ RisingMails(one)
    BY <2>1, MailIsMail, MailsOfOne
  <2>3. PICK all : all = ch \o one
    OBVIOUS
  <2>4. all \in Seq(FromBroker) /\ MailsIn(all) = MailsIn(ch) \cup {x} /\ RisingMails(all)
    <3>1. ch \in Seq(FromBroker) /\ RisingMails(ch) /\ Before(MailsIn(ch), MailsIn(one))
      BY <1>4, <2>2
    <3> QED BY ONLY <2>2, <2>3, <3>1, MailsOfJoin
  <2>5. all = Append(ch, Mail(x))
    <3>1. ch \in Seq(FromBroker) /\ Mail(x) \in FromBroker
      BY MailIsMail
    <3> QED BY ONLY <2>1, <2>3, <3>1, AppendIsJoin
  <2>6. ToSet(s) = {}
    BY <1>5, NoMails
  <2>7. Before(ToSet(a), MailsIn(all)) /\ Before(MailsIn(all), ToSet(s))
    BY <1>4, <2>4, <2>6 DEF Before
  <2>8. ToSet(a) \cup l \cup MailsIn(all) \cup ToSet(s) = 1 .. x
    BY <1>3, <2>4
  <2> QED BY <2>4, <2>5, <2>7, <2>8
<1>6. Placed(a, l \cup {x}, ch, s, x, o)
  <2>1. ToSet(a) \cup (l \cup {x}) \cup MailsIn(ch) \cup ToSet(s) = 1 .. x
    BY <1>3
  <2> QED BY <2>1
<1>7. ASSUME o # "current" PROVE Placed(a, l, ch, Append(s, x), x, o)
  <2>1. PICK more : more = Append(s, x)
    OBVIOUS
  <2>2. more \in Seq(Nat) /\ ToSet(more) = ToSet(s) \cup {x} /\ Rising(more)
    BY <1>4, <2>1, OneMore
  <2>3. Before(ToSet(a), ToSet(more)) /\ Before(MailsIn(ch), ToSet(more))
    BY <1>4, <2>2 DEF Before
  <2>4. ToSet(a) \cup l \cup MailsIn(ch) \cup ToSet(more) = 1 .. x
    BY <1>3, <2>2
  <2> QED BY <1>7, <2>1, <2>2, <2>3, <2>4
<1> QED BY <1>1, <1>5, <1>6, <1>7

\* A step that moves no mail: the pipe loses a message at its head, or gets
\* one at its end.
LEMMA QuietMails ==
  ASSUME MailsInv, UNCHANGED <<app, lost, stored, mails>>,
         owner' = "current" => owner = "current" \/ stored = <<>>,
         \/ toclient' = toclient
         \/ toclient # <<>> /\ Head(toclient).id # "MAILBOX DELIVER" /\ toclient' = Tail(toclient)
         \/ \E m \in Notice : toclient' = toclient \o <<m>>
  PROVE  MailsInv'
<1>1. toclient \in Seq(FromBroker) /\ RisingMails(toclient)
  BY DEF MailsInv, Placed
<1>2. /\ toclient' \in Seq(FromBroker) /\ RisingMails(toclient')
      /\ MailsIn(toclient') = MailsIn(toclient)
  <2>1. CASE toclient' = toclient
    BY <1>1, <2>1
  <2>2. CASE toclient # <<>> /\ Head(toclient).id # "MAILBOX DELIVER" /\ toclient' = Tail(toclient)
    BY ONLY <1>1, <2>2, MailsOfTail
  <2>3. CASE \E m \in Notice : toclient' = toclient \o <<m>>
    BY ONLY <1>1, <2>3, NoticeJoins
  <2> QED BY <2>1, <2>2, <2>3
<1>3. Placed(app', lost', toclient', stored', mails', owner')
  BY <1>2, PlacedNotice DEF MailsInv
<1> QED BY <1>3 DEF MailsInv

LEMMA Notices ==
  /\ Plain("OK") \in Notice /\ Plain("CONNECTION PONG") \in Notice
  /\ Invalid \in Notice /\ Error("FAILED") \in Notice
BY DEF Notice

LEMMA ReceiveMails ==
  ASSUME MailsInv, Receive PROVE MailsInv'
<1>1. CASE ReceiveDeliver
  <2>1. /\ toclient # <<>> /\ Head(toclient).id = "MAILBOX DELIVER" /\ toclient' = Tail(toclient)
        /\ UNCHANGED <<stored, mails, owner>>
    BY <1>1 DEF ReceiveDeliver, Incoming, broker, counts
  <2>2. \/ app' = Append(app, Head(toclient).mail) /\ lost' = lost
        \/ lost' = lost \cup {Head(toclient).mail} /\ app' = app
    BY <1>1 DEF ReceiveDeliver
  <2>3. /\ Placed(Append(app, Head(toclient).mail), lost, Tail(toclient), stored, mails, owner)
        /\ Placed(app, lost \cup {Head(toclient).mail}, Tail(toclient), stored, mails, owner)
    BY <2>1, PlacedDeliver, PlacedDrop DEF MailsInv
  <2>4. Placed(app', lost', toclient', stored', mails', owner')
    BY <2>1, <2>2, <2>3
  <2> QED BY <2>4 DEF MailsInv
<1>2. CASE ReceiveOK \/ ReceiveError \/ ReceivePong
  <2>1. PICK id \in {"OK", "ERROR", "CONNECTION PONG"} :
          /\ toclient # <<>> /\ Head(toclient).id = id /\ toclient' = Tail(toclient)
          /\ UNCHANGED <<app, lost, stored, mails, owner>>
    BY <1>2 DEF ReceiveOK, ReceiveError, ReceivePong, OKConnecting, OKConfirming, OKTerminating,
                OKReconnecting, ErrorServed, ErrorConfirming, ErrorTerminating, PongServed,
                Handled, Discarded, Incoming, broker, counts
  <2> QED BY <2>1, QuietMails
<1> QED BY <1>1, <1>2 DEF Receive

LEMMA CallerMails ==
  ASSUME MailsInv, Heartbeat \/ Expired \/ Caller PROVE MailsInv'
<1>1. UNCHANGED <<toclient, app, lost, stored, mails, owner>>
  <2>1. CASE Heartbeat
    BY <2>1 DEF Heartbeat, broker, counts
  <2>2. CASE Expired
    BY <2>2 DEF Expired, ExpiredConnecting, ExpiredConfirming, ExpiredTerminating,
                ExpiredConnected, TimeOut, broker
  <2>3. CASE Connect
    BY <2>3 DEF Connect, Called, broker
  <2>4. CASE Destructor
    BY <2>4 DEF Destructor, DestroyOffline, DestroyConnected, Called, broker
  <2>5. CASE AcceptReply
    BY <2>5 DEF AcceptReply, broker, counts
  <2>6. ASSUME NEW c \in Setup, SetUp(c)
        PROVE  UNCHANGED <<toclient, app, lost, stored, mails, owner>>
    BY <2>6 DEF SetUp, SetUpConnected, BadPattern, NotYetConnected, NoLongerConnected,
                SetUpReconnecting, Called, broker
  <2>7. ASSUME NEW id \in Sends, SendMessage(id)
        PROVE  UNCHANGED <<toclient, app, lost, stored, mails, owner>>
    BY <2>7 DEF SendMessage, broker
  <2> QED BY <2>1, <2>2, <2>3, <2>4, <2>5, <2>6, <2>7 DEF Caller
<1> QED BY <1>1, QuietMails

LEMMA ServeMails ==
  ASSUME MailsInv, Serve PROVE MailsInv'
<1>1. CASE ServeOpen
  <2>1. /\ UNCHANGED <<app, lost, mails>> /\ stored' = <<>>
        /\ toclient' = toclient \o (<<Plain("OK")>> \o [k \in DOMAIN stored |-> Mail(stored[k])])
    BY <1>1 DEF ServeOpen, Taking, Answers, counts
  <2>2. Placed(app, lost, toclient \o (<<Plain("OK")>> \o [k \in DOMAIN stored |-> Mail(stored[k])]),
               <<>>, mails, owner')
    BY PlacedOpen DEF MailsInv
  <2>3. Placed(app', lost', toclient', stored', mails', owner')
    BY <2>1, <2>2
  <2> QED BY <2>3 DEF MailsInv
<1>2. CASE ServeCloseOfUnknown
  <2>1. PICK j \in 0 .. Len(toclient) :
          /\ lost' = (lost \cup MailsIn(SubSeq(toclient, j + 1, Len(toclient)))) \cup ToSet(stored)
          /\ \/ toclient' = SubSeq(toclient, 1, j)
             \/ j = Len(toclient) /\ toclient' = toclient \o <<Plain("OK")>>
    BY <1>2 DEF ServeCloseOfUnknown, CutMails, Answers
  <2>2. UNCHANGED <<app, mails>> /\ stored' = <<>> /\ owner' = "nobody"
    BY <1>2 DEF ServeCloseOfUnknown, counts
  <2> DEFINE less == lost \cup MailsIn(SubSeq(toclient, j + 1, Len(toclient)))
             front == SubSeq(toclient, 1, j)
  <2>3. Placed(app, less, front, stored, mails, owner')
    BY <2>2, PlacedCut DEF MailsInv
  <2>4. lost' = less \cup ToSet(stored)
    BY <2>1
  <2>5. toclient \in Seq(FromBroker) /\ RisingMails(toclient)
    BY DEF MailsInv, Placed
  <2>6. toclient' = front \/ toclient' = front \o <<Plain("OK")>>
    <3>1. SubSeq(toclient, 1, Len(toclient)) = toclient
      BY ONLY <2>5
    <3> QED BY <2>1, <3>1
  <2> HIDE DEF less, front
  <2>7. Placed(app, lost', front, <<>>, mails, owner')
    BY <2>3, <2>4, PlacedDeath
  <2>8. PICK new : new = toclient'
    OBVIOUS
  <2>9. new \in Seq(FromBroker) /\ MailsIn(new) = MailsIn(front) /\ RisingMails(new)
    <3>1. front \in Seq(FromBroker) /\ RisingMails(front)
      BY <2>7 DEF Placed
    <3>2. new = front \/ new = front \o <<Plain("OK")>>
      BY <2>6, <2>8
    <3> QED BY ONLY <3>1, <3>2, Notices, NoticeJoins
  <2>10. Placed(app, lost', new, <<>>, mails, owner')
    BY <2>7, <2>9, PlacedNotice
  <2>11. Placed(app', lost', toclient', stored', mails', owner')
    BY <2>2, <2>8, <2>10
  <2> QED BY <2>11 DEF MailsInv
<1>3. CASE ServeUnknown \/ ServeOpenAgain \/ ServeClose \/ ServePing \/ ServeSetup \/ ServeSend
  <2>1. /\ UNCHANGED <<app, lost, stored, mails>>
        /\ owner' = "current" => owner = "current"
        /\ toclient' = toclient \/ \E m \in Notice : toclient' = toclient \o <<m>>
    BY <1>3, Notices DEF ServeUnknown, ServeOpenAgain, ServeClose, ServePing, ServeSetup, ServeSend,
                         Dropped, Taking, Answers, counts, broker
  <2> QED BY <2>1, QuietMails
<1> QED BY <1>1, <1>2, <1>3 DEF Serve

LEMMA TroubleMails ==
  ASSUME MailsInv, Restart \/ MailComes \/ Trouble PROVE MailsInv'
<1>1. CASE Restart \/ ServerExpires
  <2>1. UNCHANGED <<toclient, app, lost, stored, mails>> /\ (owner' = "current" => owner = "current")
    BY <1>1 DEF Restart, ServerExpires, counts
  <2> QED BY <2>1, QuietMails
<1>2. CASE MailComes
  <2>1. mails' = mails + 1 /\ UNCHANGED <<app, owner>>
    BY <1>2 DEF MailComes
  <2>2. \/ owner = "current" /\ toclient' = Append(toclient, Mail(mails + 1)) /\ UNCHANGED <<stored, lost>>
        \/ owner = "gone" /\ lost' = lost \cup {mails + 1} /\ UNCHANGED <<stored, toclient>>
        \/ owner # "current" /\ stored' = Append(stored, mails + 1) /\ UNCHANGED <<lost, toclient>>
    BY <1>2, <2>1 DEF MailComes
  <2>3. /\ owner = "current" =>
             Placed(app, lost, Append(toclient, Mail(mails + 1)), stored, mails + 1, owner)
        /\ Placed(app, lost \cup {mails + 1}, toclient, stored, mails + 1, owner)
        /\ owner # "current" =>
             Placed(app, lost, toclient, Append(stored, mails + 1), mails + 1, owner)
    BY PlacedMore DEF MailsInv
  <2>4. Placed(app', lost', toclient', stored', mails', owner')
    BY <2>1, <2>2, <2>3
  <2> QED BY <2>4 DEF MailsInv
<1>3. CASE Crash \/ Break
  <2>1. PICK j \in 0 .. Len(toclient) :
          /\ toclient' = SubSeq(toclient, 1, j)
          /\ \/ /\ lost' = (lost \cup MailsIn(SubSeq(toclient, j + 1, Len(toclient)))) \cup ToSet(stored)
                /\ stored' = <<>> /\ owner' = "nobody"
             \/ /\ lost' = lost \cup MailsIn(SubSeq(toclient, j + 1, Len(toclient)))
                /\ stored' = stored
                /\ owner' = IF owner = "current" THEN "gone" ELSE owner
    BY <1>3 DEF Crash, Break, CutOff, CutMails
  <2>2. UNCHANGED <<app, mails>> /\ owner' # "current"
    BY <1>3, <2>1 DEF Crash, Break
  <2> DEFINE less == lost \cup MailsIn(SubSeq(toclient, j + 1, Len(toclient)))
             front == SubSeq(toclient, 1, j)
  <2>3. Placed(app, less, front, stored, mails, owner')
    BY <2>2, PlacedCut DEF MailsInv
  <2>4. /\ toclient' = front
        /\ \/ lost' = less \cup ToSet(stored) /\ stored' = <<>>
           \/ lost' = less /\ stored' = stored
    BY <2>1
  <2> HIDE DEF less, front
  <2>5. Placed(app, less \cup ToSet(stored), front, <<>>, mails, owner')
    BY <2>3, PlacedDeath
  <2>6. Placed(app', lost', toclient', stored', mails', owner')
    BY <2>2, <2>3, <2>4, <2>5
  <2> QED BY <2>6 DEF MailsInv
<1> QED BY <1>1, <1>2, <1>3 DEF Trouble

LEMMA MailsInit == Init => MailsInv
<1>1. 1 .. 0 = {} /\ <<>> \in Seq(Nat) /\ <<>> \in Seq(FromBroker)
  OBVIOUS
<1>2. \A S : Before({}, S)
  BY DEF Before
<1>3. ASSUME Init PROVE Placed(<<>>, {}, <<>>, <<>>, 0, "nobody")
  <2>1. {} \cup {} \cup {} \cup {} = 1 .. 0 /\ 0 \in Nat /\ "nobody" # "current"
    BY <1>1
  <2> QED BY <1>1, <1>2, <2>1, NoMails DEF Placed
<1> QED BY <1>3 DEF Init, MailsInv

\* The invariant of the mails: those passed on, those in the pipe and those
\* that wait are in the order in which they were sent, and with the lost
\* ones they are all there are (write_message_to_mailbox and
\* check_for_mailbox_messages of mlm_server.c, pass_mailbox_message_to_app of
\* mlm_client.c).
THEOREM MailsCorrect == Spec => []MailsInv
<1>1. MailsInv /\ [Next]_vars => MailsInv'
  <2> SUFFICES ASSUME MailsInv, [Next]_vars PROVE MailsInv'
    OBVIOUS
  <2>1. CASE UNCHANGED vars
    BY <2>1, QuietMails DEF vars, broker, counts
  <2> QED BY <2>1, ReceiveMails, CallerMails, ServeMails, TroubleMails DEF Next
<1> QED BY <1>1, MailsInit, PTL DEF Spec

\* The application sees the mails in order and none twice, and no mail is
\* gone without being seen, lost or on its way, in spite of all that breaks.
THEOREM MailsInOrderHolds == Spec => []MailsInOrder
<1>1. MailsInv => MailsInOrder
  BY DEF MailsInv, Placed, Rising, MailsInOrder
<1> QED BY <1>1, MailsCorrect, PTL

-----------------------------------------------------------------------------
\* While nothing is wrong

\* Nothing broke, no timeout came early, and the client goes on.
Calm == breaks = 0 /\ late = 0 /\ ~stopped /\ state # "terminating"

\* What a client that is connected sends.
Asked == Setup \cup {Plain(id) : id \in Sends} \cup {Plain("CONNECTION PING")}

\* The answer to CONNECTION OPEN is at the head of the pipe, mails behind it.
Opened(ch) ==
  /\ ch # <<>> /\ ch[1] = Plain("OK")
  /\ \A i \in DOMAIN ch : i # 1 => ch[i].id = "MAILBOX DELIVER"

NoError(ch) == \A i \in DOMAIN ch : ch[i].id # "ERROR"

\* The first error in the pipe is the one that ends the client.
Refusal(ch) ==
  \E i \in DOMAIN ch :
    /\ ch[i] = Error("FAILED")
    /\ \A j \in DOMAIN ch : j < i => ch[j].id # "ERROR"

\* A PING or an answer to it is under way.
Pulse(ts, tc) ==
  \/ \E i \in DOMAIN ts : ts[i].id = "CONNECTION PING"
  \/ \E i \in DOMAIN tc : tc[i].id \in {"CONNECTION PONG", "ERROR"}

Unconnected ==
  /\ toserver = <<>> /\ toclient = <<>> /\ owner = "nobody"
  /\ ~joined /\ ~heartbeat
  /\ \A i \in DOMAIN replies : replies[i] = "FAILURE"

Opening ==
  /\ ~joined /\ ~heartbeat
  /\ \/ toserver = <<Plain("CONNECTION OPEN")>> /\ toclient = <<>> /\ owner = "nobody"
     \/ toserver = <<>> /\ Opened(toclient) /\ owner = "current"

Served ==
  /\ toserver \in Seq(Asked)
  /\ heartbeat /\ expiry = "alive" /\ (pinged => Pulse(toserver, toclient))
  /\ \/ owner = "current" /\ NoError(toclient)
     \/ owner = "nobody" /\ Refusal(toclient)

Orderly ==
  /\ up /\ lost = {}
  /\ state \in {"start", "connecting", "connected", "confirming"}
  /\ state = "start" => Unconnected
  /\ state = "connecting" => Opening
  /\ state \in {"connected", "confirming"} => Served

\* LostOnlyInTrouble is kept because a client is served from its OPEN on, until
\* a message for a stream that it does not write to ends it: it needs no
\* reconnection, and the expiry timer never finds the pipes silent.
CalmInv ==
  /\ breaks \in Nat /\ late \in Nat
  /\ Calm => Orderly

LEMMA AskedIds ==
  \A m \in Asked :
    m.id \in SetupCommands \cup {"MAILBOX SEND", "STREAM SEND", "CONNECTION PING"}
<1> SUFFICES ASSUME NEW m \in Asked
             PROVE  m.id \in SetupCommands \cup {"MAILBOX SEND", "STREAM SEND", "CONNECTION PING"}
  OBVIOUS
<1>1. CASE m \in Setup
  BY <1>1, SetupAssumption
<1>2. CASE m = Plain("CONNECTION PING")
  BY <1>2 DEF Plain
<1>3. CASE \E id \in Sends : m = Plain(id)
  <2>1. PICK id \in Sends : m = Plain(id)
    BY <1>3
  <2>2. m.id = id /\ id \in {"MAILBOX SEND", "STREAM SEND"}
    BY <2>1, SendsAssumption DEF Plain
  <2> QED BY <2>2
<1> QED BY <1>1, <1>2, <1>3 DEF Asked

\* What the broker sends, by its ids.
LEMMA NoticeIds ==
  /\ Plain("OK").id = "OK" /\ Plain("CONNECTION PONG").id = "CONNECTION PONG"
  /\ Invalid.id = "ERROR" /\ Error("FAILED").id = "ERROR"
  /\ Error("FAILED").name = "FAILED"
  /\ \A n : Mail(n).id = "MAILBOX DELIVER"
BY DEF Plain, Invalid, Error, Mail

LEMMA PulseGrows ==
  ASSUME NEW ts, NEW tc, NEW more, NEW m, Longer(ts, more, m),
         Pulse(ts, tc) \/ m.id = "CONNECTION PING"
  PROVE  Pulse(more, tc)
<1>1. \A i \in DOMAIN ts : i \in DOMAIN more /\ more[i] = ts[i]
  BY LongerEntries
<1>2. Len(ts) + 1 \in DOMAIN more /\ more[Len(ts) + 1] = m
  BY LongerEntries
<1> QED BY ONLY <1>1, <1>2, Pulse(ts, tc) \/ m.id = "CONNECTION PING" DEF Pulse

LEMMA PulseAnswered ==
  ASSUME NEW ts, NEW tc, NEW more, NEW m, Longer(tc, more, m), Pulse(ts, tc)
  PROVE  Pulse(ts, more)
<1>1. \A i \in DOMAIN tc : i \in DOMAIN more /\ more[i] = tc[i]
  BY LongerEntries
<1> QED BY ONLY <1>1, Pulse(ts, tc) DEF Pulse

\* The broker takes a command; if it is a PING, it answers.
LEMMA PulseServed ==
  ASSUME NEW ts, NEW tc, NEW rest, NEW new, NEW m, Shorter(ts, rest), Pulse(ts, tc),
         \/ ts[1].id # "CONNECTION PING" /\ (new = tc \/ Longer(tc, new, m))
         \/ m.id \in {"CONNECTION PONG", "ERROR"} /\ Longer(tc, new, m)
  PROVE  Pulse(rest, new)
<1>1. CASE m.id \in {"CONNECTION PONG", "ERROR"} /\ Longer(tc, new, m)
  <2>1. Len(tc) + 1 \in DOMAIN new /\ new[Len(tc) + 1] = m
    BY <1>1, LongerEntries
  <2> QED BY ONLY <2>1, <1>1 DEF Pulse
<1>2. CASE ts[1].id # "CONNECTION PING" /\ (new = tc \/ Longer(tc, new, m))
  <2>1. CASE \E i \in DOMAIN ts : ts[i].id = "CONNECTION PING"
    <3>1. PICK i \in DOMAIN ts : ts[i].id = "CONNECTION PING" /\ i # 1
      BY <1>2, <2>1
    <3>3. \A k \in DOMAIN ts : k # 1 => k - 1 \in DOMAIN rest /\ rest[k - 1] = ts[k]
      BY ONLY Shorter(ts, rest), ShorterEntries
    <3>2. i - 1 \in DOMAIN rest /\ rest[i - 1] = ts[i]
      BY <3>1, <3>3, Zenon
    <3> QED BY <3>1, <3>2 DEF Pulse
  <2>2. CASE \E i \in DOMAIN tc : tc[i].id \in {"CONNECTION PONG", "ERROR"}
    <3>1. \A i \in DOMAIN tc : i \in DOMAIN new /\ new[i] = tc[i]
      BY <1>2, LongerEntries
    <3> QED BY ONLY <2>2, <3>1 DEF Pulse
  <2> QED BY <2>1, <2>2 DEF Pulse
<1> QED BY <1>1, <1>2

LEMMA ErrorsGrow ==
  ASSUME NEW tc, NEW new, NEW m, Longer(tc, new, m)
  PROVE  /\ NoError(tc) /\ m.id # "ERROR" => NoError(new)
         /\ NoError(tc) /\ m = Error("FAILED") => Refusal(new)
         /\ Refusal(tc) => Refusal(new)
<1>1. NoError(tc) /\ m.id # "ERROR" => NoError(new)
  BY LongerEntries DEF NoError
<1>2. ASSUME NoError(tc), m = Error("FAILED") PROVE Refusal(new)
  <2>1. PICK n : n = Len(tc) + 1
    OBVIOUS
  <2>2. n \in DOMAIN new /\ new[n] = m
    BY <2>1, LongerEntries
  <2>3. \A j \in DOMAIN new : j < n => new[j].id # "ERROR"
    <3>1. n \in Int /\ \A j \in DOMAIN new : j = n \/ (j \in DOMAIN tc /\ new[j] = tc[j])
      BY <2>1, LongerEntries DEF Longer
    <3> QED BY <1>2, <3>1 DEF NoError
  <2> QED BY <1>2, <2>2, <2>3 DEF Refusal
<1>3. ASSUME Refusal(tc) PROVE Refusal(new)
  <2>1. PICK i \in DOMAIN tc :
          tc[i] = Error("FAILED") /\ \A j \in DOMAIN tc : j < i => tc[j].id # "ERROR"
    BY <1>3 DEF Refusal
  <2>2. i \in DOMAIN new /\ new[i] = tc[i]
    BY LongerEntries
  <2>3. \A j \in DOMAIN new : j < i => j \in DOMAIN tc /\ new[j] = tc[j]
    BY DEF Longer
  <2> QED BY <2>1, <2>2, <2>3 DEF Refusal
<1> QED BY <1>1, <1>2, <1>3

LEMMA ErrorsShrink ==
  ASSUME NEW tc, NEW new, Shorter(tc, new)
  PROVE  /\ NoError(tc) => NoError(new) /\ tc[1].id # "ERROR"
         /\ Refusal(tc) /\ tc[1].id # "ERROR" => Refusal(new)
         /\ Refusal(tc) /\ tc[1].id = "ERROR" => tc[1] = Error("FAILED")
<1>1. NoError(tc) => NoError(new) /\ tc[1].id # "ERROR"
  BY ShorterEntries DEF NoError
<1>2. ASSUME Refusal(tc)
      PROVE  IF tc[1].id = "ERROR" THEN tc[1] = Error("FAILED") ELSE Refusal(new)
  <2>1. PICK i \in DOMAIN tc :
          tc[i] = Error("FAILED") /\ \A j \in DOMAIN tc : j < i => tc[j].id # "ERROR"
    BY <1>2 DEF Refusal
  <2>2. 1 \in DOMAIN tc /\ i \in Nat /\ (i = 1 \/ 1 < i)
    BY DEF Shorter
  <2>3. CASE tc[1].id = "ERROR"
    BY <2>1, <2>2, <2>3
  <2>4. CASE tc[1].id # "ERROR"
    <3>1. i # 1
      BY <2>1, <2>4, NoticeIds
    <3>2. i - 1 \in DOMAIN new /\ new[i - 1] = tc[i]
      BY <3>1, ShorterEntries
    <3>3. \A j \in DOMAIN new : j < i - 1 => j + 1 \in DOMAIN tc /\ new[j] = tc[j + 1] /\ j + 1 < i
      BY <2>2 DEF Shorter
    <3>4. \A j \in DOMAIN new : j < i - 1 => new[j].id # "ERROR"
      BY <2>1, <3>3
    <3> QED BY <2>1, <2>4, <3>2, <3>4 DEF Refusal
  <2> QED BY <2>3, <2>4
<1> QED BY <1>1, <1>2

LEMMA OpenedGrows ==
  ASSUME NEW ch, NEW new, NEW n, Opened(ch), 1 \in DOMAIN ch, Longer(ch, new, Mail(n))
  PROVE  Opened(new)
<1>1. new # <<>>
  <2>1. 1 \in DOMAIN new
    BY LongerEntries
  <2> QED BY <2>1
<1>2. new[1] = ch[1]
  BY <1>1, LongerEntries
<1>3. \A i \in DOMAIN new : i # 1 => new[i].id = "MAILBOX DELIVER"
  <2>1. \A i \in DOMAIN new : (i \in DOMAIN ch /\ new[i] = ch[i]) \/ new[i] = Mail(n)
    BY LongerEntries
  <2>2. Mail(n).id = "MAILBOX DELIVER"
    BY NoticeIds
  <2> QED BY ONLY <2>1, <2>2, Opened(ch) DEF Opened
<1> QED BY <1>1, <1>2, <1>3 DEF Opened

LEMMA OpenedShrinks ==
  ASSUME NEW ch, NEW new, Opened(ch), Shorter(ch, new)
  PROVE  NoError(new) /\ ch[1].id = "OK"
<1>1. \A i \in DOMAIN new : i + 1 \in DOMAIN ch /\ i + 1 # 1 /\ new[i] = ch[i + 1]
  BY DEF Shorter
<1> QED BY <1>1, NoticeIds DEF Opened, NoError

\* What ServeOpen answers.
LEMMA OpenedNew ==
  ASSUME NEW s \in Seq(Nat), NEW ch,
         ch = <<>> \o (<<Plain("OK")>> \o [k \in DOMAIN s |-> Mail(s[k])])
  PROVE  Opened(ch)
<1>1. PICK more : more = [k \in DOMAIN s |-> Mail(s[k])]
  OBVIOUS
<1>2. more \in Seq(FromBroker)
  BY <1>1, MailsOfStored
<1>7. \A k \in DOMAIN more : more[k].id = "MAILBOX DELIVER"
  BY <1>1, NoticeIds
<1>3. PICK all : all = <<Plain("OK")>> \o more
  OBVIOUS
<1>4. Plain("OK") \in FromBroker
  BY Notices DEF FromBroker
<1>5. /\ all \in Seq(FromBroker) /\ Len(all) = 1 + Len(more) /\ all[1] = Plain("OK")
      /\ \A i \in DOMAIN all : i # 1 => i - 1 \in DOMAIN more /\ all[i] = more[i - 1]
  BY ONLY <1>2, <1>3, <1>4, HeadedBy
<1>6. ch = all /\ all # <<>>
  <2>1. ch = <<>> \o all
    BY ONLY <1>1, <1>3, ch = <<>> \o (<<Plain("OK")>> \o [k \in DOMAIN s |-> Mail(s[k])])
  <2>2. Len(more) \in Nat
    BY <1>2
  <2>3. all \in Seq(FromBroker) /\ Len(all) = 1 + Len(more)
    BY <1>5
  <2> QED BY ONLY <2>1, <2>2, <2>3
<1>8. \A i \in DOMAIN all : i # 1 => all[i].id = "MAILBOX DELIVER"
  BY <1>5, <1>7, Zenon
<1> QED BY <1>5, <1>6, <1>8, Zenon DEF Opened

-----------------------------------------------------------------------------
\* Calm steps

\* What broke stays broken.
LEMMA CalmBefore ==
  ASSUME breaks \in Nat, late \in Nat, [Next]_vars
  PROVE  /\ breaks' \in Nat /\ late' \in Nat
         /\ Calm' => Calm /\ breaks' = breaks /\ late' = late
<1>1. \/ breaks' = breaks /\ late' = late
      \/ breaks' = breaks + 1 /\ late' = late
      \/ breaks' = breaks /\ late' = late + 1
  <2>1. CASE Receive
    BY <2>1 DEF Receive, ReceiveOK, ReceiveError, ReceivePong, ReceiveDeliver, OKConnecting,
                OKConfirming, OKTerminating, OKReconnecting, ErrorServed, ErrorConfirming,
                ErrorTerminating, PongServed, Handled, Discarded, Incoming, counts
  <2>2. CASE Heartbeat \/ Expired
    BY <2>2 DEF Heartbeat, Expired, ExpiredConnecting, ExpiredConfirming, ExpiredTerminating,
                ExpiredConnected, TimeOut, counts
  <2>3. CASE Caller
    BY <2>3 DEF Caller, Connect, Destructor, DestroyOffline, DestroyConnected, AcceptReply, SetUp,
                SetUpConnected, BadPattern, NotYetConnected, NoLongerConnected, SetUpReconnecting,
                SendMessage, Called, counts
  <2>4. CASE Serve
    BY <2>4 DEF Serve, ServeOpen, ServeUnknown, ServeCloseOfUnknown, ServeOpenAgain, ServeClose,
                ServePing, ServeSetup, ServeSend, Taking, counts
  <2>5. CASE Restart \/ MailComes \/ Trouble
    BY <2>5 DEF Restart, MailComes, Trouble, Crash, Break, ServerExpires, counts
  <2>6. CASE UNCHANGED vars
    BY <2>6 DEF vars, counts
  <2> QED BY <2>1, <2>2, <2>3, <2>4, <2>5, <2>6 DEF Next
<1>2. stopped => stopped'
  <2>1. CASE Receive
    BY <2>1 DEF Receive, ReceiveOK, ReceiveError, ReceivePong, ReceiveDeliver, OKConnecting,
                OKConfirming, OKTerminating, OKReconnecting, ErrorServed, ErrorConfirming,
                ErrorTerminating, PongServed, Handled, Discarded, machine
  <2>2. CASE Heartbeat \/ Expired
    BY <2>2 DEF Heartbeat, Expired, ExpiredConnecting, ExpiredConfirming, ExpiredTerminating,
                ExpiredConnected, TimeOut, machine
  <2>3. CASE Caller
    BY <2>3 DEF Caller, Connect, Destructor, DestroyOffline, DestroyConnected, AcceptReply, SetUp,
                SetUpConnected, BadPattern, NotYetConnected, NoLongerConnected, SetUpReconnecting,
                SendMessage, Refused, Swallowed, machine
  <2>4. CASE Serve
    BY <2>4 DEF Serve, ServeOpen, ServeUnknown, ServeCloseOfUnknown, ServeOpenAgain, ServeClose,
                ServePing, ServeSetup, ServeSend, Taking, machine
  <2>5. CASE Restart \/ MailComes \/ Trouble
    BY <2>5 DEF Restart, MailComes, Trouble, Crash, Break, ServerExpires, machine
  <2>6. CASE UNCHANGED vars
    BY <2>6 DEF vars, machine
  <2> QED BY <2>1, <2>2, <2>3, <2>4, <2>5, <2>6 DEF Next
<1>3. state = "terminating" /\ ~stopped => state' = "terminating"
  <2> SUFFICES ASSUME state = "terminating", ~stopped PROVE state' = "terminating"
    OBVIOUS
  <2>1. CASE Receive
    BY <2>1 DEF Receive, ReceiveOK, ReceiveError, ReceivePong, ReceiveDeliver, OKConnecting,
                OKConfirming, OKTerminating, OKReconnecting, ErrorServed, ErrorConfirming,
                ErrorTerminating, PongServed, Handled, Discarded, Stop, machine
  <2>2. CASE Heartbeat \/ Expired
    BY <2>2 DEF Heartbeat, Expired, ExpiredConnecting, ExpiredConfirming, ExpiredTerminating,
                ExpiredConnected, Stop, machine
  <2>3. CASE Caller
    BY <2>3 DEF Caller, Connect, Destructor, DestroyOffline, DestroyConnected, AcceptReply, SetUp,
                SetUpConnected, BadPattern, NotYetConnected, NoLongerConnected, SetUpReconnecting,
                SendMessage, Refused, Swallowed, machine
  <2>4. CASE Serve
    BY <2>4 DEF Serve, ServeOpen, ServeUnknown, ServeCloseOfUnknown, ServeOpenAgain, ServeClose,
                ServePing, ServeSetup, ServeSend, Taking, machine
  <2>5. CASE Restart \/ MailComes \/ Trouble
    BY <2>5 DEF Restart, MailComes, Trouble, Crash, Break, ServerExpires, machine
  <2>6. CASE UNCHANGED vars
    BY <2>6 DEF vars, machine
  <2> QED BY <2>1, <2>2, <2>3, <2>4, <2>5, <2>6 DEF Next
<1>4. breaks' \in Nat /\ late' \in Nat
  BY <1>1
<1>5. ASSUME Calm' PROVE Calm /\ breaks' = breaks /\ late' = late
  <2>1. breaks' = 0 /\ late' = 0 /\ ~stopped' /\ state' # "terminating"
    BY <1>5 DEF Calm
  <2>2. breaks' = breaks /\ late' = late
    BY <1>1, <2>1
  <2> QED BY <1>2, <1>3, <2>1, <2>2 DEF Calm
<1> QED BY <1>4, <1>5

\* The client handles a message.
LEMMA ReceiveOrderly ==
  ASSUME Orderly, Calm, Calm', MailsInv, Receive
  PROVE  Orderly'
<1>1. /\ toclient # <<>> /\ toclient' = Tail(toclient) /\ toclient \in Seq(FromBroker)
      /\ UNCHANGED <<up, owner, breaks, late>>
  <2>1. toclient \in Seq(FromBroker)
    BY DEF MailsInv, Placed
  <2> QED BY <2>1 DEF Receive, ReceiveOK, ReceiveError, ReceivePong, ReceiveDeliver, OKConnecting,
                OKConfirming, OKTerminating, OKReconnecting, ErrorServed, ErrorConfirming,
                ErrorTerminating, PongServed, Handled, Discarded, Incoming, broker, counts
<1>2. PICK first, rest : first = toclient[1] /\ rest = toclient'
  OBVIOUS
<1>3. Shorter(toclient, rest) /\ Head(toclient) = first
  BY <1>1, <1>2, TailIsShorter
<1>4. up' /\ ~stopped /\ ~stopped' /\ state' # "terminating"
  BY <1>1 DEF Orderly, Calm
<1>5. CASE state = "start"
  BY <1>1, <1>5 DEF Orderly, Unconnected
<1>6. CASE state = "connecting"
  <2>1. toserver = <<>> /\ Opened(toclient) /\ owner = "current" /\ lost = {}
    BY <1>1, <1>6 DEF Orderly, Opening
  <2>2. NoError(rest) /\ first.id = "OK"
    BY <1>2, <1>3, <2>1, OpenedShrinks
  <2>3. OKConnecting
    BY <1>3, <1>4, <1>6, <2>2 DEF Receive, ReceiveOK, ReceiveError, ReceivePong, ReceiveDeliver,
       OKConfirming, OKTerminating, OKReconnecting, ErrorServed, ErrorConfirming, ErrorTerminating,
       PongServed, Handled, Discarded, Incoming
  <2>4. /\ state' = "connected" /\ toserver' = <<>> /\ lost' = lost
        /\ heartbeat' /\ expiry' = "alive" /\ ~pinged'
    BY <2>1, <2>3 DEF OKConnecting, Go, ClientIsConnected, Handled
  <2>5. <<>> \in Seq(Asked)
    OBVIOUS
  <2>6. Served'
    BY <1>1, <1>2, <2>1, <2>2, <2>4, <2>5 DEF Served
  <2> QED BY <1>4, <2>1, <2>4, <2>6 DEF Orderly
<1>7. CASE state \in {"connected", "confirming"}
  <2>1. /\ toserver \in Seq(Asked) /\ heartbeat /\ expiry = "alive" /\ lost = {}
        /\ \/ owner = "current" /\ NoError(toclient)
           \/ owner = "nobody" /\ Refusal(toclient)
    BY <1>7 DEF Orderly, Served
  <2>2. first.id # "ERROR"
    <3> SUFFICES ASSUME first.id = "ERROR" PROVE FALSE
      OBVIOUS
    <3>1. first = Error("FAILED")
      BY <1>2, <1>3, <2>1, ErrorsShrink
    <3>2. first.name = "FAILED"
      BY <3>1, NoticeIds
    <3>3. ErrorServed \/ ErrorConfirming
      BY <1>3, <1>4, <1>7 DEF Receive, ReceiveOK, ReceiveError, ReceivePong, ReceiveDeliver,
         OKConnecting, OKConfirming, OKTerminating, OKReconnecting, ErrorTerminating,
         PongServed, Handled, Discarded, Incoming
    <3>4. stopped'
      BY <1>3, <3>2, <3>3 DEF ErrorServed, ErrorConfirming, HaveError, ConfirmingError, Stop
    <3> QED BY <1>4, <3>4
  <2>3. \/ owner = "current" /\ NoError(rest)
        \/ owner = "nobody" /\ Refusal(rest)
    BY <1>2, <1>3, <2>1, <2>2, ErrorsShrink
  <2>4. ReceiveOK \/ ReceivePong \/ ReceiveDeliver
    BY <1>3, <2>2 DEF Receive, ReceiveError, ErrorServed, ErrorConfirming, ErrorTerminating,
       Handled, Discarded, Incoming
  <2>5. /\ state' \in {"connected", "confirming"} /\ toserver' = toserver /\ lost' = lost
        /\ heartbeat' /\ expiry' = "alive" /\ ~pinged'
    <3>1. CASE ReceiveOK
      BY <1>4, <1>7, <2>1, <3>1 DEF ReceiveOK, OKConnecting, OKConfirming, OKTerminating,
         OKReconnecting, Handled, Discarded, Restarted, ClientIsConnected, Go, machine
    <3>2. CASE ReceivePong
      BY <1>4, <1>7, <2>1, <3>2 DEF ReceivePong, PongServed, Handled, Discarded, Restarted,
         ClientIsConnected, Go, machine
    <3>3. CASE ReceiveDeliver
      BY <1>4, <1>7, <2>1, <3>3 DEF ReceiveDeliver, Restarted, machine
    <3> QED BY <2>4, <3>1, <3>2, <3>3
  <2>6. Served'
    BY <1>1, <1>2, <2>1, <2>3, <2>5 DEF Served
  <2> QED BY <1>4, <2>1, <2>5, <2>6 DEF Orderly
<1> QED BY <1>5, <1>6, <1>7 DEF Orderly

\* Heartbeats, and timers that do not run out.
LEMMA TimersOrderly ==
  ASSUME Orderly, Calm, Calm', late' = late, late \in Nat, Heartbeat \/ Expired
  PROVE  Orderly'
<1>1. CASE Heartbeat
  <2>1. state \in {"connected", "confirming"} /\ Served
    BY <1>1 DEF Heartbeat, Orderly, Unconnected, Opening
  <2>2. UNCHANGED <<state, expiry, heartbeat, toclient, up, owner, lost>>
    BY <1>1 DEF Heartbeat, machine, broker
  <2>3. toserver' \in Seq(Asked) /\ Pulse(toserver', toclient)
    <3>1. CASE toserver' = Append(toserver, Plain("CONNECTION PING"))
      <4>1. Plain("CONNECTION PING") \in Asked /\ Plain("CONNECTION PING").id = "CONNECTION PING"
        BY DEF Asked, Plain
      <4>2. toserver \in Seq(Asked)
        BY <2>1 DEF Served
      <4>3. PICK ping : ping = Plain("CONNECTION PING")
        OBVIOUS
      <4>4. PICK new : new = toserver'
        OBVIOUS
      <4>5. new = Append(toserver, ping) /\ ping \in Asked
        BY <3>1, <4>1, <4>3, <4>4
      <4>6. new \in Seq(Asked) /\ Longer(toserver, new, ping)
        BY ONLY <4>2, <4>5, AppendIsLonger
      <4>7. Pulse(new, toclient)
        BY <4>1, <4>3, <4>6, PulseGrows
      <4> QED BY <4>4, <4>6, <4>7
    <3>2. CASE ~(PingsUnderWay < MaxPings) /\ toserver' = toserver
      <4> DEFINE P == {i \in DOMAIN toserver : toserver[i].id = "CONNECTION PING"}
                 Q == {i \in DOMAIN toclient : toclient[i].id \in {"CONNECTION PONG", "ERROR"}}
      <4>1. PingsUnderWay = Cardinality(P) + Cardinality(Q)
        BY DEF PingsUnderWay
      <4>2. P # {} \/ Q # {}
        <5> HIDE DEF P, Q
        <5>1. SUFFICES ASSUME P = {}, Q = {} PROVE FALSE
          OBVIOUS
        <5>2. Cardinality(P) = 0 /\ Cardinality(Q) = 0
          BY <5>1, FS_EmptySet
        <5>3. PingsUnderWay = 0
          BY <4>1, <5>2
        <5> QED BY <3>2, <5>3, BoundsAssumption
      <4>3. Pulse(toserver, toclient)
        BY <4>2 DEF Pulse
      <4>4. toserver \in Seq(Asked)
        BY <2>1 DEF Served
      <4> QED BY <3>2, <4>3, <4>4
    <3> QED BY <1>1, <3>1, <3>2 DEF Heartbeat, Send
  <2>4. Served'
    BY <2>1, <2>2, <2>3 DEF Served
  <2> QED BY <2>1, <2>2, <2>4 DEF Orderly
<1>2. CASE Expired
  <2>1. Silence /\ expiry # "off" /\ (expiry = "alive" /\ heartbeat => pinged)
        /\ state \in {"connecting", "connected", "confirming", "terminating", "reconnecting",
                      "disconnected"}
    BY <1>2 DEF Expired, ExpiredConnecting, ExpiredConfirming, ExpiredTerminating,
                ExpiredConnected, TimeOut
  <2>2. toserver = <<>> /\ toclient = <<>>
    BY <2>1 DEF Silence, Orderly
  <2>3. CASE state = "connecting"
    BY <2>2, <2>3 DEF Orderly, Opening, Opened
  <2>4. CASE state \in {"connected", "confirming"}
    <3>1. Pulse(<<>>, <<>>)
      BY <2>1, <2>2, <2>4 DEF Orderly, Served
    <3> QED BY <3>1 DEF Pulse
  <2> QED BY <2>1, <2>3, <2>4 DEF Orderly
<1> QED BY <1>1, <1>2

\* The caller calls, takes a reply, or sends a message.
LEMMA CallerOrderly ==
  ASSUME Orderly, Calm, Calm', CallsInv, Caller
  PROVE  Orderly'
<1>1. UNCHANGED <<toclient, up, owner, lost>>
  BY DEF Caller, Connect, Destructor, DestroyOffline, DestroyConnected, AcceptReply, SetUp,
         SetUpConnected, BadPattern, NotYetConnected, NoLongerConnected, SetUpReconnecting,
         SendMessage, Called, broker
<1>2. up /\ lost = {} /\ ~stopped /\ ~stopped' /\ state' # "terminating"
  BY DEF Orderly, Calm
\* A command of the client, and no more.
<1>3. ASSUME NEW m \in Asked, toserver' = Append(toserver, m), Served,
             state' \in {"connected", "confirming"}, UNCHANGED timers
      PROVE  Orderly'
  <2>1. toserver \in Seq(Asked)
    BY <1>3 DEF Served
  <2>2. toserver' \in Seq(Asked) /\ Longer(toserver, toserver', m)
    BY <1>3, <2>1, AppendIsLonger
  <2>3. Pulse(toserver, toclient) => Pulse(toserver', toclient)
    BY <2>2, PulseGrows
  <2>4. Served'
    BY <1>1, <1>3, <2>2, <2>3 DEF Served, timers
  <2> QED BY <1>1, <1>2, <1>3, <2>4 DEF Orderly
\* Nothing but the reply.
<1>4. ASSUME UNCHANGED <<machine, timers, toserver>>,
             state = "start" => (\A i \in DOMAIN replies' : replies'[i] = "FAILURE"),
             state \in {"start", "connecting"} => joined' = joined \/ ~joined'
      PROVE  Orderly'
  <2>1. UNCHANGED <<state, heartbeat, expiry, pinged, toserver>>
    BY <1>4 DEF machine, timers
  <2>2. state = "start" => Unconnected'
    BY <1>1, <1>4, <2>1 DEF Orderly, Unconnected
  <2>3. state = "connecting" => Opening'
    BY <1>1, <1>4, <2>1 DEF Orderly, Opening
  <2>4. state \in {"connected", "confirming"} => Served'
    BY <1>1, <2>1 DEF Orderly, Served
  <2> QED BY <1>1, <2>1, <2>2, <2>3, <2>4 DEF Orderly
<1>5. CASE Connect
  <2>1. state = "start" /\ call = NoCall /\ joined' = joined /\ Unconnected
    BY <1>5 DEF Connect, Called, Orderly
  <2>2. CASE Refused
    <3>1. replies = <<>>
      BY <2>1, IdleMeansNone
    <3>2. replies' = <<"FAILURE">>
      BY <2>2, <3>1 DEF Refused
    <3>3. \A i \in DOMAIN replies' : replies'[i] = "FAILURE"
      BY <3>2
    <3> QED BY <1>4, <2>1, <2>2, <3>3 DEF Refused
  <2>3. CASE UseConnectTimeout /\ SendOpen /\ Go("connecting")
    <3>1. toserver' = <<Plain("CONNECTION OPEN")>>
      <4>1. PICK m : m = Plain("CONNECTION OPEN")
        OBVIOUS
      <4>2. toserver' = Append(<<>>, m)
        BY <2>1, <2>3, <4>1 DEF SendOpen, Send, Unconnected
      <4>3. Append(<<>>, m) = <<m>>
        OBVIOUS
      <4> QED BY <4>1, <4>2, <4>3
    <3>2. ~joined' /\ ~heartbeat' /\ state' = "connecting"
      BY <2>1, <2>3 DEF UseConnectTimeout, Go, Unconnected
    <3>3. Opening'
      BY <1>1, <2>1, <3>1, <3>2 DEF Opening, Unconnected
    <3> QED BY <1>1, <1>2, <3>2, <3>3 DEF Orderly
  <2> QED BY <1>5, <2>2, <2>3 DEF Connect
<1>6. CASE Destructor
  <2>1. UNCHANGED <<machine, timers, toserver>> /\ replies' = <<>> /\ joined' = joined
    BY <1>2, <1>6 DEF Destructor, DestroyOffline, DestroyConnected, Called, Stop, Go
  <2>2. \A i \in DOMAIN replies' : replies'[i] = "FAILURE"
    BY <2>1
  <2> QED BY <1>4, <2>1, <2>2
<1>7. CASE AcceptReply
  <2>1. /\ UNCHANGED <<machine, timers, toserver>> /\ replies # <<>> /\ replies' = Tail(replies)
        /\ joined' = (joined \/ (call = "CONNECT" /\ Head(replies) = "SUCCESS"))
        /\ replies \in Seq(Reply)
    BY <1>7 DEF AcceptReply, CallsInv
  <2>2. state # "connecting"
    BY <1>2, <2>1 DEF CallsInv, Owing
  <2>3. Shorter(replies, Tail(replies)) /\ Head(replies) = replies[1] /\ 1 \in DOMAIN replies
    BY <2>1, TailIsShorter
  <2>4. ASSUME state = "start"
        PROVE  ~joined' /\ \A i \in DOMAIN replies' : replies'[i] = "FAILURE"
    <3>1. ~joined /\ \A i \in DOMAIN replies : replies[i] = "FAILURE"
      BY <2>4 DEF Orderly, Unconnected
    <3>2. Head(replies) = "FAILURE"
      BY <2>3, <3>1
    <3>5. PICK rest : rest = Tail(replies)
      OBVIOUS
    <3>6. Shorter(replies, rest)
      BY <2>3, <3>5
    <3>3. \A i \in DOMAIN rest : \E k \in DOMAIN replies : rest[i] = replies[k]
      BY ONLY <3>6, ShorterEntries
    <3>4. \A i \in DOMAIN replies' : replies'[i] = "FAILURE"
      BY <2>1, <3>1, <3>3, <3>5
    <3>7. ~joined'
      BY <2>1, <3>1, <3>2
    <3> QED BY <3>4, <3>7
  <2> QED BY <1>4, <2>1, <2>2, <2>4
<1>8. ASSUME NEW c \in Setup, SetUp(c) PROVE Orderly'
  <2>1. call = NoCall /\ joined' = joined
    BY <1>8 DEF SetUp, SetUpConnected, BadPattern, NotYetConnected, NoLongerConnected,
                SetUpReconnecting, Called
  <2>2. CASE SetUpConnected(c)
    <3>1. c \in Asked /\ toserver' = Append(toserver, c) /\ Served
          /\ state' = "confirming" /\ UNCHANGED timers
      BY <2>2 DEF SetUpConnected, Send, Go, Asked, Orderly
    <3> QED BY <1>3, <3>1
  <2>3. CASE Refused
    <3>1. replies = <<>>
      BY <2>1, IdleMeansNone DEF Orderly
    <3>2. replies' = <<"FAILURE">>
      BY <2>3, <3>1 DEF Refused
    <3>3. \A i \in DOMAIN replies' : replies'[i] = "FAILURE"
      BY <3>2
    <3> QED BY <1>4, <2>1, <2>3, <3>3 DEF Refused
  <2>4. CASE Swallowed
    BY <1>4, <2>1, <2>4 DEF Swallowed, Orderly, Unconnected
  <2> QED BY <1>8, <2>2, <2>3, <2>4 DEF SetUp, BadPattern, NotYetConnected, NoLongerConnected,
                                       SetUpReconnecting, Orderly
<1>9. ASSUME NEW id \in Sends, SendMessage(id) PROVE Orderly'
  <2>1. joined /\ Plain(id) \in Asked /\ toserver' = Append(toserver, Plain(id))
        /\ UNCHANGED <<machine, timers>>
    BY <1>9 DEF SendMessage, Send, Asked
  <2>2. state \in {"connected", "confirming"} /\ Served /\ state' = state
    BY <2>1 DEF Orderly, Unconnected, Opening, machine
  <2> QED BY <1>3, <2>1, <2>2
<1> QED BY <1>5, <1>6, <1>7, <1>8, <1>9 DEF Caller

\* A client that closes is not calm any more.
LEMMA NoCloseOfUnknown == ASSUME Orderly PROVE ~ ServeCloseOfUnknown
<1> SUFFICES ASSUME toserver # <<>> PROVE Head(toserver).id # "CONNECTION CLOSE"
  BY DEF ServeCloseOfUnknown
<1>1. CASE state = "start"
  BY <1>1 DEF Orderly, Unconnected
<1>2. CASE state = "connecting"
  <2>1. PICK m : m = Plain("CONNECTION OPEN")
    OBVIOUS
  <2>2. toserver = <<m>> /\ m.id = "CONNECTION OPEN"
    BY <1>2, <2>1 DEF Orderly, Opening, Plain
  <2>3. Head(<<m>>) = m
    OBVIOUS
  <2> QED BY <2>2, <2>3
<1>3. CASE state \in {"connected", "confirming"}
  <2>1. toserver \in Seq(Asked)
    BY <1>3 DEF Orderly, Served
  <2>2. Head(toserver) \in Asked
    BY ONLY <2>1, toserver # <<>>
  <2> QED BY <2>2, AskedIds DEF SetupCommands
<1> QED BY <1>1, <1>2, <1>3 DEF Orderly

\* The broker serves a command.
LEMMA ServeOrderly ==
  ASSUME Orderly, Calm, MailsInv, Serve
  PROVE  Orderly'
<1>1. /\ toserver # <<>> /\ toserver' = Tail(toserver)
      /\ UNCHANGED <<state, stopped, heartbeat, expiry, pinged, joined, replies>>
  BY NoCloseOfUnknown DEF Serve, ServeOpen, ServeUnknown, ServeCloseOfUnknown, ServeOpenAgain, ServeClose,
         ServePing, ServeSetup, ServeSend, Taking, machine, timers, api
<1>2. toclient \in Seq(FromBroker) /\ stored \in Seq(Nat)
  BY DEF MailsInv, Placed
<1>3. CASE state = "start"
  BY <1>1, <1>3 DEF Orderly, Unconnected
<1>4. CASE state = "connecting"
  <2>1. /\ toserver = <<Plain("CONNECTION OPEN")>> /\ toclient = <<>> /\ owner = "nobody"
        /\ ~joined /\ ~heartbeat /\ up /\ lost = {}
    BY <1>1, <1>4 DEF Orderly, Opening
  <2>2. Head(toserver).id = "CONNECTION OPEN" /\ Tail(toserver) = <<>>
    <3>1. PICK m : m = Plain("CONNECTION OPEN")
      OBVIOUS
    <3>2. Head(<<m>>) = m /\ Tail(<<m>>) = <<>>
      OBVIOUS
    <3>3. m.id = "CONNECTION OPEN"
      BY <3>1 DEF Plain
    <3> QED BY <2>1, <3>1, <3>2, <3>3
  <2>3. ServeOpen
    BY <2>1, <2>2 DEF Serve, ServeUnknown, ServeCloseOfUnknown, ServeOpenAgain, ServeClose,
                      ServePing, ServeSetup, ServeSend, Taking, SetupCommands
  <2>4. /\ toclient' = <<>> \o (<<Plain("OK")>> \o [k \in DOMAIN stored |-> Mail(stored[k])])
        /\ owner' = "current" /\ up' = up /\ lost' = lost
    BY <2>1, <2>3 DEF ServeOpen, Answers
  <2>5. PICK ch : ch = toclient'
    OBVIOUS
  <2>6. Opened(ch)
    BY <1>2, <2>4, <2>5, OpenedNew
  <2>7. Opening'
    BY <1>1, <2>1, <2>2, <2>4, <2>5, <2>6 DEF Opening
  <2> QED BY <1>1, <1>4, <2>1, <2>4, <2>7 DEF Orderly
<1>5. CASE state \in {"connected", "confirming"}
  <2>1. /\ toserver \in Seq(Asked) /\ heartbeat /\ expiry = "alive" /\ up /\ lost = {}
        /\ pinged => Pulse(toserver, toclient)
        /\ \/ owner = "current" /\ NoError(toclient)
           \/ owner = "nobody" /\ Refusal(toclient)
    BY <1>5 DEF Orderly, Served
  <2>2. PICK first, rest, new : first = toserver[1] /\ rest = toserver' /\ new = toclient'
    OBVIOUS
  <2>3. Shorter(toserver, rest) /\ Head(toserver) = first /\ rest \in Seq(Asked) /\ first \in Asked
    <3>1. toserver \in Seq(Asked) /\ toserver # <<>> /\ rest = Tail(toserver)
      BY <1>1, <2>1, <2>2
    <3>2. Shorter(toserver, Tail(toserver)) /\ Head(toserver) = toserver[1]
      BY ONLY <3>1, TailIsShorter
    <3>3. Tail(toserver) \in Seq(Asked) /\ Head(toserver) \in Asked
      BY ONLY <3>1
    <3> QED BY <2>2, <3>1, <3>2, <3>3
  <2>4. first.id \in SetupCommands \cup {"MAILBOX SEND", "STREAM SEND", "CONNECTION PING"}
    BY <2>3, AskedIds
  <2>5. ServeUnknown \/ ServePing \/ ServeSetup \/ ServeSend
    BY <2>3, <2>4 DEF Serve, ServeOpen, ServeCloseOfUnknown, ServeOpenAgain, ServeClose, Taking,
                      SetupCommands
  <2>6. up' = up /\ lost' = lost
    BY <2>5 DEF ServeUnknown, ServePing, ServeSetup, ServeSend, Dropped, broker
  \* What is answered, and to whom.
  <2>7. \/ /\ new = toclient /\ first.id # "CONNECTION PING" /\ owner' = owner
        \/ \E m \in Notice :
             /\ new = toclient \o <<m>>
             /\ first.id = "CONNECTION PING" => m.id \in {"CONNECTION PONG", "ERROR"}
             /\ \/ owner' = owner /\ (owner = "current" => m.id # "ERROR")
                \/ owner' = "nobody" /\ owner = "current" /\ m = Error("FAILED")
    <3>1. CASE ServeUnknown
      <4>1. new = toclient \o <<Invalid>> /\ owner' = owner /\ owner # "current"
        BY <2>2, <3>1 DEF ServeUnknown, Answers, broker
      <4> QED BY <4>1, Notices, NoticeIds
    <3>2. CASE ServePing
      <4>1. new = toclient \o <<Plain("CONNECTION PONG")>> /\ owner' = owner
        BY <2>2, <3>2 DEF ServePing, Answers, broker
      <4> QED BY <4>1, Notices, NoticeIds
    <3>3. CASE ServeSetup
      <4>1. new = toclient \o <<Plain("OK")>> /\ owner' = owner /\ first.id # "CONNECTION PING"
        BY <2>2, <2>3, <3>3 DEF ServeSetup, Answers, Taking, SetupCommands
      <4> QED BY <4>1, Notices, NoticeIds
    <3>4. CASE ServeSend
      <4>1. first.id # "CONNECTION PING"
        BY <2>3, <3>4 DEF ServeSend, Taking
      <4>2. \/ new = toclient /\ owner' = owner
            \/ new = toclient \o <<Error("FAILED")>> /\ owner = "current" /\ owner' = "nobody"
        BY <2>2, <3>4 DEF ServeSend, Dropped, Answers, broker
      <4> QED BY <4>1, <4>2, Notices
    <3> QED BY <2>5, <3>1, <3>2, <3>3, <3>4
  <2>8. ASSUME new = toclient, first.id # "CONNECTION PING", owner' = owner
        PROVE  /\ \/ owner' = "current" /\ NoError(new)
                  \/ owner' = "nobody" /\ Refusal(new)
               /\ pinged => Pulse(rest, new)
    <3>1. Pulse(toserver, toclient) => Pulse(rest, new)
      BY <2>2, <2>3, <2>8, PulseServed
    <3> QED BY <2>1, <2>8, <3>1
  <2>9. ASSUME NEW m \in Notice, new = toclient \o <<m>>,
               first.id = "CONNECTION PING" => m.id \in {"CONNECTION PONG", "ERROR"},
               \/ owner' = owner /\ (owner = "current" => m.id # "ERROR")
               \/ owner' = "nobody" /\ owner = "current" /\ m = Error("FAILED")
        PROVE  /\ \/ owner' = "current" /\ NoError(new)
                  \/ owner' = "nobody" /\ Refusal(new)
               /\ pinged => Pulse(rest, new)
    <3>1. m \in FromBroker
      BY DEF FromBroker
    <3>2. Longer(toclient, new, m)
      <4>1. Append(toclient, m) = toclient \o <<m>>
        BY <1>2, <3>1, AppendIsJoin
      <4>2. Longer(toclient, Append(toclient, m), m)
        BY <1>2, <3>1, AppendIsLonger
      <4> QED BY <2>9, <4>1, <4>2
    <3>3. Pulse(toserver, toclient) => Pulse(rest, new)
      BY <2>2, <2>3, <2>9, <3>2, PulseServed
    <3>4. \/ owner' = "current" /\ NoError(new)
          \/ owner' = "nobody" /\ Refusal(new)
      BY <2>1, <2>9, <3>2, ErrorsGrow
    <3> QED BY <2>1, <3>3, <3>4
  <2>10. /\ \/ owner' = "current" /\ NoError(new)
            \/ owner' = "nobody" /\ Refusal(new)
         /\ pinged => Pulse(rest, new)
    BY <2>7, <2>8, <2>9
  <2>11. Served'
    BY <1>1, <2>1, <2>2, <2>3, <2>10 DEF Served
  <2> QED BY <1>1, <1>5, <2>1, <2>6, <2>11 DEF Orderly
<1> QED BY <1>3, <1>4, <1>5 DEF Orderly

\* Another mail comes; nothing else happens to the broker.
LEMMA MoreOrderly ==
  ASSUME Orderly, MailsInv, MailComes
  PROVE  Orderly'
<1>1. /\ UNCHANGED <<state, stopped, heartbeat, expiry, pinged, joined, replies, toserver, up, owner>>
      /\ owner \in {"current", "nobody"}
  BY DEF MailComes, machine, timers, api, Orderly, Unconnected, Opening, Served
<1>2. lost' = lost
  BY <1>1 DEF MailComes
<1>3. \/ toclient' = toclient
      \/ owner = "current" /\ toclient' = Append(toclient, Mail(mails'))
  BY <1>1 DEF MailComes
<1>4. CASE toclient' = toclient
  <2>1. state = "start" => Unconnected'
    BY <1>1, <1>4 DEF Orderly, Unconnected
  <2>2. state = "connecting" => Opening'
    BY <1>1, <1>4 DEF Orderly, Opening
  <2>3. state \in {"connected", "confirming"} => Served'
    BY <1>1, <1>4 DEF Orderly, Served
  <2> QED BY <1>1, <1>2, <2>1, <2>2, <2>3 DEF Orderly
<1>5. CASE owner = "current" /\ toclient' = Append(toclient, Mail(mails'))
  <2>1. PICK n \in Nat : n = mails'
    BY DEF MailComes, MailsInv, Placed
  <2>2. PICK new : new = toclient'
    OBVIOUS
  <2>3. Longer(toclient, new, Mail(n))
    <3>1. toclient \in Seq(FromBroker) /\ Mail(n) \in FromBroker
      BY MailIsMail DEF MailsInv, Placed
    <3>2. new = Append(toclient, Mail(n))
      BY <1>5, <2>1, <2>2
    <3> QED BY <3>1, <3>2, AppendIsLonger
  <2>4. Mail(n).id # "ERROR"
    BY NoticeIds
  <2>5. CASE state = "connecting"
    <3>1. toserver = <<>> /\ Opened(toclient) /\ ~joined /\ ~heartbeat
      BY <1>5, <2>5 DEF Orderly, Opening
    <3>2. 1 \in DOMAIN toclient
      <4>1. toclient \in Seq(FromBroker) /\ toclient # <<>>
        BY <3>1 DEF MailsInv, Placed, Opened
      <4> QED BY ONLY <4>1
    <3>3. Opened(new)
      BY <2>3, <3>1, <3>2, OpenedGrows
    <3>4. Opening'
      BY <1>1, <1>5, <2>2, <3>1, <3>3 DEF Opening
    <3> QED BY <1>1, <1>2, <2>5, <3>4 DEF Orderly
  <2>6. CASE state \in {"connected", "confirming"}
    <3>1. /\ NoError(toclient) /\ toserver \in Seq(Asked) /\ heartbeat /\ expiry = "alive"
          /\ pinged => Pulse(toserver, toclient)
      BY <1>5, <2>6 DEF Orderly, Served
    <3>2. NoError(new) /\ (Pulse(toserver, toclient) => Pulse(toserver, new))
      BY <2>3, <2>4, <3>1, ErrorsGrow, PulseAnswered
    <3>3. Served'
      BY <1>1, <1>5, <2>2, <3>1, <3>2 DEF Served
    <3> QED BY <1>1, <1>2, <2>6, <3>3 DEF Orderly
  <2>7. state # "start"
    BY <1>5 DEF Orderly, Unconnected
  <2> QED BY <2>5, <2>6, <2>7 DEF Orderly
<1> QED BY <1>3, <1>4, <1>5

LEMMA CalmKept ==
  ASSUME CallsInv, MailsInv, CalmInv, [Next]_vars
  PROVE  CalmInv'
<1>1. /\ breaks' \in Nat /\ late' \in Nat
      /\ Calm' => Calm /\ breaks' = breaks /\ late' = late
  BY CalmBefore DEF CalmInv
<1>2. ASSUME Calm' PROVE Orderly'
  <2>1. Calm /\ Orderly /\ breaks' = breaks /\ late' = late /\ breaks \in Nat /\ late \in Nat
    BY <1>1, <1>2 DEF CalmInv
  <2>2. CASE Receive
    BY <1>2, <2>1, <2>2, ReceiveOrderly
  <2>3. CASE Heartbeat \/ Expired
    BY <1>2, <2>1, <2>3, TimersOrderly
  <2>4. CASE Caller
    BY <1>2, <2>1, <2>4, CallerOrderly
  <2>5. CASE Serve
    BY <1>2, <2>1, <2>5, ServeOrderly
  <2>6. CASE Restart
    BY <2>1, <2>6 DEF Restart, Orderly
  <2>7. CASE MailComes
    BY <2>1, <2>7, MoreOrderly
  <2>8. CASE Trouble
    <3>1. breaks' = breaks + 1
      BY <2>8 DEF Trouble, Crash, Break, ServerExpires
    <3> QED BY <2>1, <3>1
  <2>9. CASE UNCHANGED vars
    <3>1. UNCHANGED <<state, stopped, heartbeat, expiry, pinged, joined, replies, toserver, toclient,
                      up, owner, lost>>
      BY <2>9 DEF vars, machine, timers, api, broker
    <3>2. Unconnected => Unconnected'
      BY <3>1 DEF Unconnected
    <3>3. Opening => Opening'
      BY <3>1 DEF Opening
    <3>4. Served => Served'
      BY <3>1 DEF Served
    <3> QED BY <2>1, <3>1, <3>2, <3>3, <3>4 DEF Orderly
  <2> QED BY <2>2, <2>3, <2>4, <2>5, <2>6, <2>7, <2>8, <2>9 DEF Next
<1> QED BY <1>1, <1>2 DEF CalmInv

\* The invariant of a calm session: as long as nothing breaks, no timeout
\* comes early and the client does not end, it is connected once and for all
\* (client_is_connected, the heartbeat and the expiry timer of mlm_client.c).
THEOREM CalmCorrect == Spec => []CalmInv
<1>1. Init => CalmInv
  BY DEF Init, CalmInv, Orderly, Unconnected
<1>2. CallsInv /\ MailsInv /\ CalmInv /\ [Next]_vars => CalmInv'
  BY CalmKept
<1> QED BY <1>1, <1>2, CallsCorrect, MailsCorrect, PTL DEF Spec

\* No mail is lost unless something broke, a timeout came early, or the
\* client ended with mails under way.
THEOREM LostOnlyInTroubleHolds == Spec => []LostOnlyInTrouble
<1>1. CalmInv => LostOnlyInTrouble
  <2> SUFFICES ASSUME CalmInv, lost # {}, ~(breaks + late > 0), ~stopped, state # "terminating"
               PROVE  FALSE
    BY DEF LostOnlyInTrouble
  <2>1. breaks = 0 /\ late = 0
    BY DEF CalmInv
  <2> QED BY <2>1 DEF CalmInv, Calm, Orderly
<1> QED BY <1>1, CalmCorrect, PTL

-----------------------------------------------------------------------------
\* Commands in force

IsList(t) == t \in Seq({t[i] : i \in DOMAIN t})

\* The list has lost its first k entries; it has got a second list behind it.
From(old, k, new) ==
  /\ k \in 0 .. Len(old) /\ Len(old) \in Nat
  /\ DOMAIN old = 1 .. Len(old) /\ DOMAIN new = 1 .. Len(old) - k
  /\ \A i \in 1 .. Len(old) - k : new[i] = old[i + k]
Joined(old, more, new) ==
  /\ Len(old) \in Nat /\ Len(more) \in Nat
  /\ DOMAIN old = 1 .. Len(old) /\ DOMAIN more = 1 .. Len(more)
  /\ DOMAIN new = 1 .. Len(old) + Len(more)
  /\ \A i \in 1 .. Len(old) : new[i] = old[i]
  /\ \A i \in 1 .. Len(more) : new[Len(old) + i] = more[i]

LEMMA ListsAre ==
  ASSUME NEW S, NEW t \in Seq(S)
  PROVE  IsList(t)
<1>1. PICK n \in Nat : n = Len(t)
  OBVIOUS
<1>2. DOMAIN t = 1 .. n /\ t = [i \in 1 .. n |-> t[i]]
  BY <1>1
<1>3. \A i \in 1 .. n : t[i] \in {t[j] : j \in DOMAIN t}
  BY <1>2
<1> QED BY <1>1, <1>2, <1>3 DEF IsList

LEMMA ListMore ==
  ASSUME NEW S, NEW t \in Seq(S), NEW T, S \subseteq T
  PROVE  t \in Seq(T)
<1>1. PICK n \in Nat : n = Len(t)
  OBVIOUS
<1>2. DOMAIN t = 1 .. n /\ t = [i \in 1 .. n |-> t[i]] /\ \A i \in 1 .. n : t[i] \in S
  BY <1>1
<1> QED BY <1>1, <1>2

LEMMA ListAppend ==
  ASSUME NEW t, NEW x, IsList(t)
  PROVE  IsList(Append(t, x)) /\ Longer(t, Append(t, x), x)
<1>1. PICK S : S = {t[i] : i \in DOMAIN t}
  OBVIOUS
<1>2. PICK T : T = S \cup {x}
  OBVIOUS
<1>3. t \in Seq(S) /\ S \subseteq T /\ x \in T
  BY <1>1, <1>2 DEF IsList
<1>4. t \in Seq(T)
  BY ONLY <1>3, ListMore
<1>5. Append(t, x) \in Seq(T)
  BY ONLY <1>3, <1>4
<1> QED BY <1>3, <1>4, <1>5, ListsAre, AppendIsLonger

LEMMA ListFrom ==
  ASSUME NEW t, IsList(t), NEW k \in 0 .. Len(t)
  PROVE  /\ IsList(SubSeq(t, k + 1, Len(t))) /\ From(t, k, SubSeq(t, k + 1, Len(t)))
         /\ t # <<>> => IsList(Tail(t)) /\ From(t, 1, Tail(t)) /\ Head(t) = t[1]
<1>1. PICK S : S = {t[i] : i \in DOMAIN t}
  OBVIOUS
<1>2. t \in Seq(S)
  BY <1>1 DEF IsList
<1>3. PICK n \in Nat : n = Len(t)
  BY <1>2
<1>4. PICK new : new = SubSeq(t, k + 1, Len(t))
  OBVIOUS
<1>5. /\ new \in Seq(S) /\ DOMAIN t = 1 .. n /\ DOMAIN new = 1 .. n - k
      /\ \A i \in 1 .. n - k : new[i] = t[i + k]
  BY ONLY <1>2, <1>3, <1>4, k \in 0 .. Len(t)
<1>6. IsList(new) /\ From(t, k, new)
  <2>1. IsList(new)
    BY <1>5, ListsAre
  <2>2. From(t, k, new)
    BY <1>3, <1>5 DEF From
  <2> QED BY <2>1, <2>2
<1>7. ASSUME t # <<>> PROVE IsList(Tail(t)) /\ From(t, 1, Tail(t)) /\ Head(t) = t[1]
  <2>1. PICK rest : rest = Tail(t)
    OBVIOUS
  <2>2. rest \in Seq(S) /\ DOMAIN rest = 1 .. n - 1 /\ n > 0 /\ Head(t) = t[1]
    BY ONLY <1>2, <1>3, <1>7, <2>1, n \in Nat
  <2>3. \A i \in 1 .. n - 1 : rest[i] = t[i + 1]
    BY ONLY <1>2, <1>3, <1>7, <2>1, n \in Nat
  <2>4. From(t, 1, rest)
    <3>1. 1 \in 0 .. n
      BY ONLY <2>2, n \in Nat
    <3> QED BY <1>3, <1>5, <2>2, <2>3, <3>1 DEF From
  <2> QED BY <2>1, <2>2, <2>4, ListsAre
<1> QED BY <1>4, <1>6, <1>7

LEMMA ListJoin ==
  ASSUME NEW t, NEW u, IsList(t), IsList(u), NEW all, all = t \o u
  PROVE  IsList(all) /\ Joined(t, u, all)
<1>1. PICK S : S = {t[i] : i \in DOMAIN t}
  OBVIOUS
<1>2. PICK T : T = {u[i] : i \in DOMAIN u}
  OBVIOUS
<1>3. PICK U : U = S \cup T
  OBVIOUS
<1>4. t \in Seq(S) /\ S \subseteq U /\ u \in Seq(T) /\ T \subseteq U
  BY <1>1, <1>2, <1>3 DEF IsList
<1>5. t \in Seq(U) /\ u \in Seq(U)
  BY ONLY <1>4, ListMore
<1>6. PICK n, k \in Nat : n = Len(t) /\ k = Len(u)
  BY <1>5
<1>7. /\ all \in Seq(U) /\ DOMAIN all = 1 .. n + k /\ DOMAIN t = 1 .. n /\ DOMAIN u = 1 .. k
      /\ \A i \in 1 .. n : all[i] = t[i]
      /\ \A i \in 1 .. k : all[n + i] = u[i]
  BY ONLY <1>5, <1>6, all = t \o u, n \in Nat, k \in Nat
<1>8. Joined(t, u, all)
  BY <1>6, <1>7 DEF Joined
<1> QED BY <1>7, <1>8, ListsAre

\* The client sends a command that ends nothing.
LEMMA SecuredSent ==
  ASSUME NEW ts, NEW new, NEW m, Longer(ts, new, m), NEW o, NEW k, NEW c,
         m.id # "CONNECTION OPEN", ~Overrides(m, c), Secured(ts, o, k, c)
  PROVE  Secured(new, o, k, c)
<1>1. \A j \in DOMAIN new : (j \in DOMAIN ts /\ new[j] = ts[j]) \/ new[j] = m
  BY ONLY Longer(ts, new, m), LongerEntries
<1>2. \A j \in DOMAIN ts : j \in DOMAIN new /\ new[j] = ts[j]
  BY LongerEntries
<1>3. \A i : Clear(ts, i, c) => Clear(new, i, c)
  BY <1>1 DEF Clear
<1>4. CASE \E i \in DOMAIN ts : ts[i] = c /\ Clear(ts, i, c)
  BY <1>2, <1>3, <1>4 DEF Secured
<1>5. CASE o = "current" /\ c \in k /\ Clear(ts, 0, c)
  BY <1>3, <1>5 DEF Secured
<1>6. CASE o # "current" /\ \A j \in DOMAIN ts : ts[j].id # "CONNECTION OPEN"
  BY <1>1, <1>6 DEF Secured
<1> QED BY <1>4, <1>5, <1>6 DEF Secured

\* It sends the command itself.
LEMMA SecuredLast ==
  ASSUME NEW ts, NEW new, NEW c, Longer(ts, new, c), NEW o, NEW k
  PROVE  Secured(new, o, k, c)
<1>1. PICK n : n = Len(ts) + 1
  OBVIOUS
<1>2. n \in DOMAIN new /\ new[n] = c
  BY <1>1, LongerEntries
<1>3. \A j \in DOMAIN new : ~ (n < j)
  BY <1>1 DEF Longer
<1> QED BY <1>2, <1>3 DEF Secured, Clear

\* It sends the whole list of commands.
LEMMA SecuredReplay ==
  ASSUME NEW ts, NEW list, NEW new, Joined(ts, list, new), NEW o, NEW k,
         \A i \in DOMAIN list : list[i].id \in SetupCommands /\ list[i].id # "STREAM CANCEL",
         NEW i \in DOMAIN list,
         list[i].id = "STREAM WRITE" =>
           \A j \in i + 1 .. Len(list) : list[j].id # "STREAM WRITE"
  PROVE  Secured(new, o, k, list[i])
<1>1. PICK n, l \in Nat : n = Len(ts) /\ l = Len(list)
  BY DEF Joined
<1>2. DOMAIN list = 1 .. l /\ DOMAIN new = 1 .. n + l /\ \A j \in 1 .. l : new[n + j] = list[j]
  BY <1>1 DEF Joined
<1>6. i \in 1 .. l
  BY <1>2
<1>3. n + i \in DOMAIN new /\ new[n + i] = list[i]
  <2>1. n + i \in 1 .. n + l
    BY ONLY <1>6, n \in Nat, l \in Nat
  <2> QED BY ONLY <1>2, <1>6, <2>1
<1>4. ASSUME NEW j \in DOMAIN new, n + i < j
      PROVE  new[j].id # "CONNECTION OPEN" /\ ~Overrides(new[j], list[i])
  <2>1. PICK h \in 1 .. l : j = n + h /\ i < h
    <3>1. j - n \in 1 .. l /\ j = n + (j - n) /\ i < j - n
      <4>1. j \in 1 .. n + l /\ n + i < j
        BY <1>2, <1>4
      <4> QED BY ONLY <1>6, <4>1, n \in Nat, l \in Nat
    <3> QED BY ONLY <3>1
  <2>2. new[j] = list[h] /\ h \in i + 1 .. Len(list)
    <3>1. h \in i + 1 .. l
      BY ONLY <1>6, <2>1, h \in 1 .. l, l \in Nat
    <3> QED BY <1>1, <1>2, <2>1, <3>1
  <2>3. list[h].id \in SetupCommands /\ list[h].id # "STREAM CANCEL"
    <3>1. h \in DOMAIN list
      BY ONLY <1>2, h \in 1 .. l
    <3> QED BY <3>1
  <2>4. ~ (list[h].id = "STREAM WRITE" /\ list[i].id = "STREAM WRITE")
    BY <2>2
  <2> QED BY <2>2, <2>3, <2>4 DEF SetupCommands, Overrides
<1>5. Clear(new, n + i, list[i])
  BY <1>4 DEF Clear
<1> QED BY <1>3, <1>5 DEF Secured

LEMMA FromEntries ==
  ASSUME NEW ts, NEW n, NEW new, From(ts, n, new)
  PROVE  /\ n \in Nat
         /\ \A j \in DOMAIN new : j \in Nat /\ j + n \in DOMAIN ts /\ new[j] = ts[j + n]
         /\ \A j \in DOMAIN ts : j \in Nat /\ (n < j => j - n \in DOMAIN new /\ new[j - n] = ts[j])
BY DEF From

\* A command that stays in the pipe stays in its place.
LEMMA ClearFrom ==
  ASSUME NEW ts, NEW n, NEW new, From(ts, n, new), NEW i \in Nat, NEW c, Clear(ts, i, c)
  PROVE  /\ n <= i => Clear(new, i - n, c)
         /\ i <= n => Clear(new, 0, c)
<1>1. \A j \in DOMAIN new : j \in Nat /\ j + n \in DOMAIN ts /\ new[j] = ts[j + n]
  BY FromEntries
<1>2. n \in Nat
  BY FromEntries
<1>3. ASSUME n <= i PROVE Clear(new, i - n, c)
  <2>1. \A j \in DOMAIN new : i - n < j => i < j + n
    BY <1>1, <1>2
  <2> QED BY <1>1, <2>1 DEF Clear
<1>4. ASSUME i <= n PROVE Clear(new, 0, c)
  <2>1. \A j \in DOMAIN new : 0 < j => i < j + n
    BY <1>1, <1>2, <1>4
  <2> QED BY <1>1, <2>1 DEF Clear
<1> QED BY <1>3, <1>4

\* The broker does not know the client any more, and commands may be lost.
LEMMA SecuredCut ==
  ASSUME NEW ts, NEW n, NEW new, From(ts, n, new), NEW o, NEW k, NEW c, Secured(ts, o, k, c),
         NEW p, NEW q, p # "current"
  PROVE  Secured(new, p, q, c)
<1>1. /\ n \in Nat
      /\ \A j \in DOMAIN new : j \in Nat /\ 0 < j /\ j + n \in DOMAIN ts /\ new[j] = ts[j + n]
  BY FromEntries DEF From
<1>2. ASSUME Clear(new, 0, c) PROVE Secured(new, p, q, c)
  BY <1>1, <1>2 DEF Secured, Clear
<1>3. CASE \E i \in DOMAIN ts : ts[i] = c /\ Clear(ts, i, c)
  <2>1. PICK i \in DOMAIN ts : ts[i] = c /\ Clear(ts, i, c)
    BY <1>3
  <2>2. i \in Nat /\ (n < i => i - n \in DOMAIN new /\ new[i - n] = ts[i])
    BY FromEntries
  <2>3. (n <= i => Clear(new, i - n, c)) /\ (i <= n => Clear(new, 0, c))
    BY <2>1, <2>2, ClearFrom
  <2>4. CASE n < i
    <3>1. i - n \in DOMAIN new /\ new[i - n] = c /\ n <= i
      BY <1>1, <2>1, <2>2, <2>4
    <3> QED BY <2>3, <3>1 DEF Secured
  <2>5. CASE i <= n
    BY <1>2, <2>3, <2>5
  <2> QED BY <1>1, <2>2, <2>4, <2>5
<1>4. CASE o = "current" /\ c \in k /\ Clear(ts, 0, c)
  <2>1. Clear(new, 0, c)
    BY <1>1, <1>4, ClearFrom
  <2> QED BY <1>2, <2>1
<1>5. CASE o # "current" /\ \A j \in DOMAIN ts : ts[j].id # "CONNECTION OPEN"
  BY <1>1, <1>5 DEF Secured
<1> QED BY <1>3, <1>4, <1>5 DEF Secured

\* The broker takes a CONNECTION OPEN.
LEMMA SecuredOpened ==
  ASSUME NEW ts, NEW new, From(ts, 1, new), NEW o, NEW k, NEW c, Secured(ts, o, k, c),
         ts[1].id = "CONNECTION OPEN", c.id # "CONNECTION OPEN", 1 \in DOMAIN ts, NEW p, NEW q
  PROVE  Secured(new, p, q, c)
<1>1. ~Clear(ts, 0, c)
  <2>1. 0 < 1
    BY ONLY TRUE
  <2> QED BY <2>1 DEF Clear
<1>2. ~ \A j \in DOMAIN ts : ts[j].id # "CONNECTION OPEN"
  OBVIOUS
<1>3. PICK i \in DOMAIN ts : ts[i] = c /\ Clear(ts, i, c)
  BY ONLY <1>1, <1>2, Secured(ts, o, k, c) DEF Secured
<1>4. i # 1
  BY <1>3
<1>5. \A j \in DOMAIN ts : j \in Nat /\ j # 0 /\ (1 < j => j - 1 \in DOMAIN new /\ new[j - 1] = ts[j])
  BY ONLY From(ts, 1, new) DEF From
<1>6. i \in Nat /\ 1 < i /\ i - 1 \in DOMAIN new /\ new[i - 1] = c
  <2>1. i \in Nat /\ i # 0 /\ (1 < i => i - 1 \in DOMAIN new /\ new[i - 1] = ts[i])
    BY <1>5
  <2>2. 1 < i
    BY ONLY <1>4, <2>1
  <2> QED BY <1>3, <2>1, <2>2
<1>7. Clear(new, i - 1, c)
  <2>1. i \in Nat /\ Clear(ts, i, c) /\ From(ts, 1, new)
    BY <1>3, <1>6
  <2>2. 1 <= i
    BY ONLY <1>6
  <2> QED BY ONLY <2>1, <2>2, ClearFrom
<1> QED BY <1>6, <1>7 DEF Secured

\* It carries out another command of a client that it knows.
LEMMA SecuredServed ==
  ASSUME NEW ts, NEW new, From(ts, 1, new), NEW k, NEW c, Secured(ts, "current", k, c),
         1 \in DOMAIN ts, NEW q,
         c \in k /\ ~Overrides(ts[1], c) => c \in q,
         ts[1] = c => c \in q
  PROVE  Secured(new, "current", q, c)
<1>1. CASE \E i \in DOMAIN ts : ts[i] = c /\ Clear(ts, i, c)
  <2>1. PICK i \in DOMAIN ts : ts[i] = c /\ Clear(ts, i, c)
    BY <1>1
  <2>2. i \in Nat /\ i # 0 /\ (1 < i => i - 1 \in DOMAIN new /\ new[i - 1] = ts[i])
    BY FromEntries DEF From
  <2>3. (1 <= i => Clear(new, i - 1, c)) /\ (i <= 1 => Clear(new, 0, c))
    BY <2>1, <2>2, ClearFrom
  <2>4. CASE i = 1
    BY <2>1, <2>3, <2>4 DEF Secured
  <2>5. CASE i # 1
    BY <2>1, <2>2, <2>3, <2>5 DEF Secured
  <2> QED BY <2>4, <2>5
<1>2. CASE c \in k /\ Clear(ts, 0, c)
  <2>1. Clear(new, 0, c)
    BY <1>2, ClearFrom
  <2>2. ~Overrides(ts[1], c)
    <3>1. 0 < 1
      OBVIOUS
    <3> QED BY <1>2, <3>1 DEF Clear
  <2> QED BY <1>2, <2>1, <2>2 DEF Secured
<1> QED BY <1>1, <1>2 DEF Secured

-----------------------------------------------------------------------------
\* What was set up stays in force

\* The states in which no replay is due.
Live == {"connected", "confirming", "disconnected"}

\* SubscriptionsKept is kept because each command is sent when it is put into
\* the list, and behind a CONNECTION OPEN all are sent again before the client
\* counts as connected; until then the broker refuses what it is sent.
ForceInv ==
  /\ replays \in Seq(Setup)
  /\ state \in {"start", "connecting"} => replays = <<>>
  /\ NeverCancelled =>
       /\ IsList(toserver) /\ cursor = 0
       /\ ~gaveup /\ state \in Live =>
            \A c \in InForce : Secured(toserver, owner, known, c)

LEMMA SetupIds == \A c \in Setup : c.id \in SetupCommands /\ c.id # "CONNECTION OPEN"
BY SetupAssumption DEF SetupCommands

LEMMA InForceIsSetup ==
  ASSUME replays \in Seq(Setup)
  PROVE  /\ InForce \subseteq Setup
         /\ NeverCancelled => \A c \in InForce : c.id # "STREAM CANCEL"
         /\ replays = <<>> => InForce = {}
<1>1. \A i \in DOMAIN replays : replays[i] \in Setup
  OBVIOUS
<1>2. InForce \subseteq {replays[i] : i \in DOMAIN replays}
  BY DEF InForce
<1>3. replays = <<>> => DOMAIN replays = {}
  OBVIOUS
<1> QED BY <1>1, <1>2, <1>3, Zenon DEF NeverCancelled

\* The list of commands only grows, while the client is connected.
LEMMA ReplaysStep ==
  ASSUME [Next]_vars
  PROVE  \/ replays' = replays
         \/ \E c \in Setup : SetUpConnected(c) /\ replays' = Append(replays, c)
<1>1. CASE Receive
  BY <1>1 DEF Receive, ReceiveOK, ReceiveError, ReceivePong, ReceiveDeliver, OKConnecting,
              OKConfirming, OKTerminating, OKReconnecting, ErrorServed, ErrorConfirming,
              ErrorTerminating, PongServed, Handled, Discarded, HaveError, ConfirmingError,
              Replay, setup
<1>2. CASE Heartbeat \/ Expired
  BY <1>2 DEF Heartbeat, Expired, ExpiredConnecting, ExpiredConfirming, ExpiredTerminating,
              ExpiredConnected, TimeOut, setup
<1>3. CASE Connect \/ Destructor \/ AcceptReply
  BY <1>3 DEF Connect, Destructor, DestroyOffline, DestroyConnected, AcceptReply, Refused, setup
<1>4. ASSUME NEW c \in Setup, SetUp(c)
      PROVE  replays' = replays \/ (SetUpConnected(c) /\ replays' = Append(replays, c))
  BY <1>4 DEF SetUp, SetUpConnected, BadPattern, NotYetConnected, NoLongerConnected,
              SetUpReconnecting, Refused, Swallowed, Replay, setup
<1>5. ASSUME NEW id \in Sends, SendMessage(id) PROVE replays' = replays
  BY <1>5 DEF SendMessage, setup
<1>6. CASE Serve
  BY <1>6 DEF Serve, ServeOpen, ServeUnknown, ServeCloseOfUnknown, ServeOpenAgain, ServeClose,
              ServePing, ServeSetup, ServeSend, Taking, setup
<1>7. CASE Restart \/ MailComes \/ Trouble
  BY <1>7 DEF Restart, MailComes, Trouble, Crash, Break, ServerExpires, setup
<1>8. CASE UNCHANGED vars
  BY <1>8 DEF vars, setup
<1> QED BY <1>1, <1>2, <1>3, <1>4, <1>5, <1>6, <1>7, <1>8 DEF Next, Caller

\* A client is new as long as it was not connected.
LEMMA NewStep ==
  ASSUME [Next]_vars, state' \in {"start", "connecting"}
  PROVE  state \in {"start", "connecting"} /\ replays' = replays
<1>1. CASE Receive
  BY <1>1 DEF Receive, ReceiveOK, ReceiveError, ReceivePong, ReceiveDeliver, OKConnecting,
              OKConfirming, OKTerminating, OKReconnecting, ErrorServed, ErrorConfirming,
              ErrorTerminating, PongServed, Handled, Discarded, HaveError, ConfirmingError,
              Replay, Go, Stop, machine, setup
<1>2. CASE Heartbeat \/ Expired
  BY <1>2 DEF Heartbeat, Expired, ExpiredConnecting, ExpiredConfirming, ExpiredTerminating,
              ExpiredConnected, TimeOut, Go, Stop, machine, setup
<1>3. CASE Connect \/ Destructor \/ AcceptReply
  BY <1>3 DEF Connect, Destructor, DestroyOffline, DestroyConnected, AcceptReply, Refused, Go, Stop,
              machine, setup
<1>4. ASSUME NEW c \in Setup, SetUp(c) PROVE state \in {"start", "connecting"} /\ replays' = replays
  BY <1>4 DEF SetUp, SetUpConnected, BadPattern, NotYetConnected, NoLongerConnected,
              SetUpReconnecting, Refused, Swallowed, Replay, Go, machine, setup
<1>5. ASSUME NEW id \in Sends, SendMessage(id)
      PROVE  state \in {"start", "connecting"} /\ replays' = replays
  BY <1>5 DEF SendMessage, machine, setup
<1>6. CASE Serve
  BY <1>6 DEF Serve, ServeOpen, ServeUnknown, ServeCloseOfUnknown, ServeOpenAgain, ServeClose,
              ServePing, ServeSetup, ServeSend, Taking, machine, setup
<1>7. CASE Restart \/ MailComes \/ Trouble
  BY <1>7 DEF Restart, MailComes, Trouble, Crash, Break, ServerExpires, machine, setup
<1>8. CASE UNCHANGED vars
  BY <1>8 DEF vars, machine, setup
<1> QED BY <1>1, <1>2, <1>3, <1>4, <1>5, <1>6, <1>7, <1>8 DEF Next, Caller

\* What there is to show of a step, when no STREAM CANCEL is in the list.
Kept == IsList(toserver) /\ cursor = 0 /\
        (~gaveup /\ state \in Live => \A c \in InForce : Secured(toserver, owner, known, c))

\* The pipe and the broker stay as they are.
LEMMA StillKept ==
  ASSUME ForceInv, NeverCancelled, UNCHANGED <<replays, toserver, owner, known>>, cursor' = cursor,
         ~gaveup' => ~gaveup,
         state' \in Live /\ ~gaveup' => state \in Live \/ replays = <<>>
  PROVE  Kept'
<1>1. replays = <<>> => InForce = {}
  BY InForceIsSetup DEF ForceInv
<1>2. InForce' = InForce
  BY DEF InForce
<1> QED BY <1>1, <1>2 DEF ForceInv, Kept

\* The client sends something that is no command of its list.
LEMMA SentKept ==
  ASSUME ForceInv, NeverCancelled, UNCHANGED <<replays, owner, known>>, cursor' = cursor,
         ~gaveup' => ~gaveup,
         NEW m, toserver' = Append(toserver, m),
         \/ state' = state /\ m.id \notin SetupCommands \cup {"CONNECTION OPEN"}
         \/ state' \notin Live
  PROVE  Kept'
<1>1. IsList(toserver') /\ Longer(toserver, toserver', m)
  BY ListAppend DEF ForceInv
<1>2. InForce' = InForce
  BY DEF InForce
<1>3. ASSUME state' = state, m.id \notin SetupCommands \cup {"CONNECTION OPEN"}, ~gaveup', state' \in Live,
             NEW c \in InForce
      PROVE  Secured(toserver', owner, known, c)
  <2>1. Secured(toserver, owner, known, c)
    BY <1>3 DEF ForceInv
  <2>2. m.id # "CONNECTION OPEN" /\ ~Overrides(m, c)
    BY <1>3 DEF Overrides, SetupCommands
  <2> QED BY <1>1, <2>1, <2>2, SecuredSent
<1>4. cursor' = 0
  BY DEF ForceInv
<1> QED BY <1>1, <1>2, <1>3, <1>4 DEF Kept

\* The list of commands is sent again.
LEMMA ReplayKept ==
  ASSUME ForceInv, NeverCancelled, NEW sent, IsList(sent), Replay(0, sent)
  PROVE  Kept'
<1>1. PICK n \in Nat : n = Len(replays) /\ DOMAIN replays = 1 .. n
  BY DEF ForceInv
<1>2. \A i \in 1 .. n : replays[i].id # "STREAM CANCEL"
  BY <1>1 DEF NeverCancelled
<1>3. HaltOf(0) = n + 1
  <2> DEFINE Halts(j) == /\ j <= n => replays[j].id = "STREAM CANCEL"
                         /\ \A k \in 0 + 1 .. j - 1 : replays[k].id # "STREAM CANCEL"
  <2>1. HaltOf(0) = CHOOSE j \in 0 + 1 .. n + 1 : Halts(j)
    BY <1>1 DEF HaltOf
  <2>2. n + 1 \in 0 + 1 .. n + 1 /\ Halts(n + 1)
    <3>1. n + 1 \in 0 + 1 .. n + 1 /\ ~(n + 1 <= n) /\ 0 + 1 .. (n + 1) - 1 = 1 .. n
      BY ONLY n \in Nat
    <3> QED BY <1>2, <3>1, Zenon
  <2>3. \A j \in 0 + 1 .. n + 1 : Halts(j) => j = n + 1
    <3>1. \A j \in 0 + 1 .. n + 1 : j = n + 1 \/ (j <= n /\ j \in 1 .. n)
      BY ONLY n \in Nat
    <3> QED BY <1>2, <3>1, Zenon
  <2> HIDE DEF Halts
  <2> QED BY <2>1, <2>2, <2>3
<1>4. Replayed(0)
  BY <1>1, <1>3 DEF Replayed
<1>5. SubSeq(replays, 0 + 1, HaltOf(0) - 1) = replays
  <2>1. replays \in Seq(Setup)
    BY DEF ForceInv
  <2>2. (n + 1) - 1 = n /\ 0 + 1 = 1
    OBVIOUS
  <2>3. SubSeq(replays, 1, Len(replays)) = replays
    BY ONLY <2>1
  <2> QED BY <1>1, <1>3, <2>2, <2>3
<1>6. /\ toserver' = sent \o replays /\ cursor' = 0 /\ replays' = replays
  BY <1>4, <1>5 DEF Replay
<1>7. IsList(replays)
  BY ListsAre DEF ForceInv
<1>8. PICK all : all = toserver'
  OBVIOUS
<1>9. IsList(all) /\ Joined(sent, replays, all)
  BY <1>6, <1>7, <1>8, ListJoin
<1>10. \A i \in DOMAIN replays :
         replays[i].id \in SetupCommands /\ replays[i].id # "STREAM CANCEL"
  <2>1. \A i \in DOMAIN replays : replays[i] \in Setup
    BY DEF ForceInv
  <2> QED BY <2>1, SetupIds DEF NeverCancelled
<1>11. ASSUME NEW c \in InForce, NEW o, NEW k PROVE Secured(all, o, k, c)
  <2>1. PICK i \in DOMAIN replays :
          /\ c = replays[i]
          /\ replays[i].id = "STREAM WRITE" =>
               \A j \in i + 1 .. Len(replays) : replays[j].id # "STREAM WRITE"
    BY DEF InForce
  <2>2. Secured(all, o, k, replays[i])
    BY <1>9, <1>10, <2>1, SecuredReplay
  <2> QED BY <2>1, <2>2
<1>12. InForce' = InForce
  BY <1>6 DEF InForce
<1>13. \A c \in InForce' : Secured(toserver', owner', known', c)
  BY <1>8, <1>11, <1>12
<1> QED BY <1>6, <1>8, <1>9, <1>13 DEF Kept

LEMMA ReceiveKept ==
  ASSUME ForceInv, NeverCancelled, Receive
  PROVE  Kept'
<1>1. UNCHANGED <<owner, known, gaveup>>
  BY DEF Receive, ReceiveOK, ReceiveError, ReceivePong, ReceiveDeliver, OKConnecting, OKConfirming,
         OKTerminating, OKReconnecting, ErrorServed, ErrorConfirming, ErrorTerminating, PongServed,
         Handled, Discarded, Incoming, broker, counts
<1>2. IsList(toserver) /\ cursor = 0 /\ (state \in {"start", "connecting"} => replays = <<>>)
  BY DEF ForceInv
<1>3. ASSUME UNCHANGED <<replays, toserver, cursor>>, state' \in Live => state \in Live \/ replays = <<>>
      PROVE  Kept'
  BY <1>1, <1>3, StillKept
<1>4. CASE ReceiveOK
  <2>1. CASE OKReconnecting
    BY <1>2, <2>1, ReplayKept DEF OKReconnecting
  <2>2. CASE ~OKReconnecting
    BY <1>2, <1>3, <1>4, <2>2 DEF ReceiveOK, OKConnecting, OKConfirming, OKTerminating, Handled,
       Discarded, Go, Stop, setup, machine, Live
  <2> QED BY <2>1, <2>2
<1>5. CASE ReceiveError
  <2>1. CASE SendOpen /\ state' = "reconnecting" /\ UNCHANGED <<replays, cursor>>
    <3>1. state' \notin Live
      BY <2>1 DEF Live
    <3> QED BY <1>1, <2>1, <3>1, SentKept DEF SendOpen, Send
  <2>2. CASE UNCHANGED <<replays, toserver, cursor>> /\ (state' = state \/ state' \in {"have_error", "terminating"})
    BY <1>3, <2>2 DEF Live
  <2> QED BY <1>5, <2>1, <2>2 DEF ReceiveError, ErrorServed, ErrorConfirming, ErrorTerminating,
             Handled, Discarded, HaveError, ConfirmingError, Go, Stop, setup, machine
<1>6. CASE ReceivePong \/ ReceiveDeliver
  BY <1>2, <1>3, <1>6 DEF ReceivePong, ReceiveDeliver, PongServed, Handled, Discarded, Go, setup,
     machine, Live
<1> QED BY <1>4, <1>5, <1>6 DEF Receive

LEMMA TimersKept ==
  ASSUME ForceInv, NeverCancelled, Heartbeat \/ Expired
  PROVE  Kept'
<1>1. UNCHANGED <<owner, known, replays, cursor>>
  BY DEF Heartbeat, Expired, ExpiredConnecting, ExpiredConfirming, ExpiredTerminating,
         ExpiredConnected, TimeOut, broker, setup
<1>2. CASE Heartbeat
  <2>1. state' = state /\ gaveup' = gaveup
    BY <1>2 DEF Heartbeat, machine, counts
  <2>2. CASE toserver' = toserver
    BY <1>1, <2>1, <2>2, StillKept
  <2>3. CASE toserver' = Append(toserver, Plain("CONNECTION PING"))
    <3>1. Plain("CONNECTION PING").id \notin SetupCommands \cup {"CONNECTION OPEN"}
      BY DEF Plain, SetupCommands
    <3> QED BY <1>1, <2>1, <2>3, <3>1, SentKept
  <2> QED BY <1>2, <2>2, <2>3 DEF Heartbeat, Send
<1>3. CASE Expired
  <2>1. toserver' = toserver
    BY <1>3 DEF Expired, ExpiredConnecting, ExpiredConfirming, ExpiredTerminating,
         ExpiredConnected, TimeOut
  <2>2. ~gaveup' => ~gaveup
    BY <1>3 DEF Expired, ExpiredConnecting, ExpiredConfirming, ExpiredTerminating, ExpiredConnected
  <2>3. state' \in Live /\ ~gaveup' => state \in Live
    BY <1>3 DEF Expired, ExpiredConnecting, ExpiredConfirming, ExpiredTerminating,
         ExpiredConnected, Go, Stop, Live
  <2> QED BY <1>1, <2>1, <2>2, <2>3, StillKept
<1> QED BY <1>2, <1>3

LEMMA CallerKept ==
  ASSUME ForceInv, NeverCancelled, NeverCancelled', Caller
  PROVE  Kept'
<1>1. UNCHANGED <<owner, known, gaveup>>
  BY DEF Caller, Connect, Destructor, DestroyOffline, DestroyConnected, AcceptReply, SetUp,
         SetUpConnected, BadPattern, NotYetConnected, NoLongerConnected, SetUpReconnecting,
         SendMessage, Called, broker, counts
<1>2. ASSUME UNCHANGED <<state, setup, toserver>> PROVE Kept'
  BY <1>1, <1>2, StillKept DEF setup
<1>3. CASE Connect
  <2>1. CASE Refused
    BY <1>2, <2>1 DEF Refused, machine
  <2>2. CASE SendOpen /\ Go("connecting") /\ UNCHANGED <<replays, cursor>>
    <3>1. state' \notin Live
      BY <2>2 DEF Go, Live
    <3> QED BY <1>1, <2>2, <3>1, SentKept DEF SendOpen, Send
  <2> QED BY <1>3, <2>1, <2>2 DEF Connect
<1>4. CASE Destructor
  <2>1. CASE DestroyConnected
    <3>1. state' \notin Live
      BY <2>1 DEF DestroyConnected, Go, Live
    <3>2. toserver' = Append(toserver, Plain("CONNECTION CLOSE")) /\ UNCHANGED <<replays, cursor>>
      BY <2>1 DEF DestroyConnected, Send, setup
    <3> QED BY <1>1, <3>1, <3>2, SentKept
  <2>2. CASE ~DestroyConnected
    BY <1>2, <1>4, <2>2 DEF Destructor, DestroyOffline, Stop, machine
  <2> QED BY <2>1, <2>2
<1>5. CASE AcceptReply
  BY <1>2, <1>5 DEF AcceptReply, machine
<1>6. ASSUME NEW c \in Setup, SetUp(c) PROVE Kept'
  <2>1. CASE SetUpConnected(c)
    <3>1. /\ replays' = Append(replays, c) /\ toserver' = Append(toserver, c) /\ cursor' = 0
          /\ state \in Live
      BY <2>1 DEF SetUpConnected, Send, Live
    <3>2. IsList(toserver) /\ cursor = 0 /\ replays \in Seq(Setup)
      BY DEF ForceInv
    <3>3. PICK new, list : new = toserver' /\ list = replays'
      OBVIOUS
    <3>4. IsList(new) /\ Longer(toserver, new, c)
      BY <3>1, <3>2, <3>3, ListAppend
    <3>5. Longer(replays, list, c) /\ list \in Seq(Setup)
      BY <3>1, <3>2, <3>3, AppendIsLonger
    <3>6. PICK n \in Nat : n = Len(replays) /\ DOMAIN replays = 1 .. n
      BY <3>2
    <3>7. /\ DOMAIN list = 1 .. n + 1 /\ Len(list) = n + 1 /\ list[n + 1] = c
          /\ \A i \in 1 .. n : list[i] = replays[i]
      BY <3>5, <3>6 DEF Longer
    <3>8. c.id # "STREAM CANCEL"
      <4>1. n + 1 \in DOMAIN list
        BY <3>7
      <4> QED BY <3>3, <3>7, <4>1 DEF NeverCancelled
    <3>9. ASSUME NEW d \in InForce', ~gaveup PROVE Secured(new, owner, known, d)
      <4>1. PICK i \in DOMAIN list :
              /\ d = list[i]
              /\ list[i].id = "STREAM WRITE" =>
                   \A j \in i + 1 .. Len(list) : list[j].id # "STREAM WRITE"
        BY <3>3 DEF InForce
      <4>2. CASE i = n + 1
        BY <3>4, <3>7, <4>1, <4>2, SecuredLast
      <4>3. CASE i # n + 1
        <5>1. i \in 1 .. n /\ n + 1 \in i + 1 .. n + 1 /\ \A j \in i + 1 .. n : j \in i + 1 .. n + 1 /\ j \in 1 .. n
          <6>1. i \in 1 .. n + 1
            BY <3>7
          <6> QED BY ONLY <4>3, <6>1, n \in Nat
        <5>2. d.id = "STREAM WRITE" => c.id # "STREAM WRITE"
          BY <3>7, <4>1, <5>1
        <5>3. d \in InForce
          <6>1. d = replays[i] /\ i \in DOMAIN replays
            BY <3>6, <3>7, <4>1, <5>1
          <6>2. replays[i].id = "STREAM WRITE" =>
                  \A j \in i + 1 .. Len(replays) : replays[j].id # "STREAM WRITE"
            BY <3>6, <3>7, <4>1, <5>1, <6>1
          <6> QED BY <6>1, <6>2 DEF InForce
        <5>4. Secured(toserver, owner, known, d)
          BY <3>1, <3>9, <5>3 DEF ForceInv
        <5>5. c.id # "CONNECTION OPEN" /\ ~Overrides(c, d)
          BY <3>8, <5>2, SetupIds DEF Overrides
        <5> QED BY <3>4, <5>4, <5>5, SecuredSent
      <4> QED BY <4>2, <4>3
    <3> QED BY <1>1, <3>1, <3>2, <3>3, <3>4, <3>9 DEF Kept
  <2>2. CASE SetUpReconnecting(c)
    <3>1. cursor = 0 /\ IsList(toserver)
      BY DEF ForceInv
    <3>2. PICK sent : sent = Append(toserver, CommandOf(c.id, held))
      OBVIOUS
    <3>3. IsList(sent)
      BY <3>1, <3>2, ListAppend
    <3>4. Replay(0, sent)
      BY <2>2, <3>1, <3>2 DEF SetUpReconnecting
    <3> QED BY <3>3, <3>4, ReplayKept
  <2>3. CASE ~SetUpConnected(c) /\ ~SetUpReconnecting(c)
    BY <1>2, <1>6, <2>3 DEF SetUp, BadPattern, NotYetConnected, NoLongerConnected, Refused,
       Swallowed, machine
  <2> QED BY <2>1, <2>2, <2>3
<1>7. ASSUME NEW id \in Sends, SendMessage(id) PROVE Kept'
  <2>1. toserver' = Append(toserver, Plain(id)) /\ UNCHANGED <<state, replays, cursor>>
    BY <1>7 DEF SendMessage, Send, machine, setup
  <2>2. Plain(id).id \notin SetupCommands \cup {"CONNECTION OPEN"}
    BY SendsAssumption DEF Plain, SetupCommands
  <2> QED BY <1>1, <2>1, <2>2, SentKept
<1> QED BY <1>3, <1>4, <1>5, <1>6, <1>7 DEF Caller

\* The broker loses sight of the client, and commands may be lost.
LEMMA CutKept ==
  ASSUME ForceInv, NeverCancelled, UNCHANGED <<state, replays, cursor, gaveup>>, owner' # "current",
         IsList(toserver'), NEW n, From(toserver, n, toserver')
  PROVE  Kept'
<1>1. InForce' = InForce
  BY DEF InForce
<1>2. ASSUME ~gaveup, state \in Live, NEW c \in InForce PROVE Secured(toserver', owner', known', c)
  <2>1. Secured(toserver, owner, known, c)
    BY <1>2 DEF ForceInv
  <2> QED BY <2>1, SecuredCut
<1>3. cursor' = 0
  BY DEF ForceInv
<1> QED BY <1>1, <1>2, <1>3 DEF Kept

LEMMA KnowingKeeps ==
  ASSUME NEW m, NEW c, c.id # "STREAM CANCEL"
  PROVE  /\ c \in known /\ ~Overrides(m, c) => c \in Knowing(m)
         /\ m = c => c \in Knowing(m)
BY DEF Knowing, Overrides

LEMMA ServeKept ==
  ASSUME ForceInv, NeverCancelled, Serve
  PROVE  Kept'
<1>2. IsList(toserver) /\ replays \in Seq(Setup) /\ cursor = 0
  BY DEF ForceInv
<1>0. SUFFICES ASSUME ~ ServeCloseOfUnknown PROVE Kept'
  <2>1. ASSUME ServeCloseOfUnknown PROVE Kept'
    <3>1. PICK n \in 1 .. Len(toserver) : toserver' = SubSeq(toserver, n + 1, Len(toserver))
      BY <2>1 DEF ServeCloseOfUnknown
    <3>2. owner' # "current" /\ UNCHANGED <<state, replays, cursor, gaveup>>
      BY <2>1 DEF ServeCloseOfUnknown, machine, setup, counts
    <3>3. n \in 0 .. Len(toserver)
      BY ONLY n \in 1 .. Len(toserver)
    <3>4. IsList(toserver') /\ From(toserver, n, toserver')
      BY <1>2, <3>1, <3>3, ListFrom
    <3> QED BY <3>2, <3>4, CutKept
  <2> QED BY <2>1
<1>1. /\ toserver # <<>> /\ toserver' = Tail(toserver)
      /\ UNCHANGED <<state, replays, cursor, gaveup>>
  BY <1>0 DEF Serve, ServeOpen, ServeUnknown, ServeOpenAgain, ServeClose,
         ServePing, ServeSetup, ServeSend, Taking, machine, setup, counts
<1>3. PICK rest, first : rest = toserver' /\ first = toserver[1]
  OBVIOUS
<1>4. IsList(rest) /\ From(toserver, 1, rest) /\ Head(toserver) = first
  <2>1. 0 \in 0 .. Len(toserver)
    BY <1>2 DEF IsList
  <2> QED BY <1>1, <1>2, <1>3, <2>1, ListFrom
<1>5. 1 \in DOMAIN toserver
  BY <1>4 DEF From
<1>6. InForce' = InForce
  BY <1>1 DEF InForce
<1>7. CASE owner' # "current"
  BY <1>1, <1>3, <1>4, <1>7, CutKept
<1>8. CASE owner' = "current"
  <2>1. SUFFICES ASSUME ~gaveup, state \in Live, NEW c \in InForce
                 PROVE  Secured(rest, "current", known', c)
    BY <1>1, <1>2, <1>3, <1>4, <1>6, <1>8 DEF Kept
  <2>2. Secured(toserver, owner, known, c)
    BY <2>1 DEF ForceInv
  <2>3. c.id # "STREAM CANCEL" /\ c.id # "CONNECTION OPEN"
    BY <1>2, InForceIsSetup, SetupIds
  <2>4. CASE ServeOpen
    <3>1. first.id = "CONNECTION OPEN"
      BY <1>4, <2>4 DEF ServeOpen, Taking
    <3>2. PICK after : after = known'
      OBVIOUS
    <3>3. toserver[1].id = "CONNECTION OPEN" /\ c.id # "CONNECTION OPEN"
      BY ONLY <1>3, <2>3, <3>1
    <3>4. From(toserver, 1, rest) /\ 1 \in DOMAIN toserver /\ Secured(toserver, owner, known, c)
      BY ONLY <1>4, <1>5, <2>2
    <3>5. Secured(rest, "current", after, c)
      BY ONLY <3>3, <3>4, SecuredOpened, Zenon
    <3> QED BY ONLY <3>2, <3>5
  <2>5. CASE ~ServeOpen
    <3>1. /\ owner = "current"
          /\ \/ known' = known /\ first.id \notin SetupCommands
             \/ known' = Knowing(first)
      BY <1>0, <1>4, <1>8, <2>5 DEF Serve, ServeUnknown, ServeOpenAgain, ServeClose,
         ServePing, ServeSetup, ServeSend, Dropped, Taking, SetupCommands, broker
    <3>2. /\ c \in known /\ ~Overrides(first, c) => c \in known'
          /\ first = c => c \in known'
      <4>1. c.id \in SetupCommands
        BY <1>2, InForceIsSetup, SetupIds
      <4> QED BY <2>3, <3>1, <4>1, KnowingKeeps
    <3> QED BY <1>3, <1>4, <1>5, <2>2, <3>1, <3>2, SecuredServed
  <2> QED BY <2>4, <2>5
<1> QED BY <1>7, <1>8

LEMMA TroubleKept ==
  ASSUME ForceInv, NeverCancelled, Restart \/ MailComes \/ Trouble
  PROVE  Kept'
<1>1. IsList(toserver)
  BY DEF ForceInv
<1>2. CASE Restart \/ MailComes
  BY <1>2, StillKept DEF Restart, MailComes, machine, setup, counts
<1>3. CASE Crash \/ Break
  <2>1. PICK n \in 0 .. Len(toserver) : toserver' = SubSeq(toserver, n + 1, Len(toserver))
    BY <1>3 DEF Crash, Break, CutOff
  <2>2. owner' # "current" /\ UNCHANGED <<state, replays, cursor, gaveup>>
    BY <1>3 DEF Crash, Break, machine, setup
  <2>3. IsList(toserver') /\ From(toserver, n, toserver')
    BY <1>1, <2>1, ListFrom
  <2> QED BY <2>2, <2>3, CutKept
<1>4. CASE ServerExpires
  <2>1. owner' # "current" /\ UNCHANGED <<state, replays, cursor, gaveup, toserver>>
    BY <1>4 DEF ServerExpires, machine, setup
  <2>2. From(toserver, 0, toserver)
    BY <1>1 DEF IsList, From
  <2> QED BY <1>1, <2>1, <2>2, CutKept
<1> QED BY <1>2, <1>3, <1>4 DEF Trouble

LEMMA ForceKept ==
  ASSUME ForceInv, [Next]_vars
  PROVE  ForceInv'
<1>1. replays' \in Seq(Setup) /\ (NeverCancelled' => NeverCancelled)
  <2>1. CASE replays' = replays
    BY <2>1 DEF ForceInv, NeverCancelled
  <2>2. ASSUME NEW c \in Setup, replays' = Append(replays, c)
        PROVE  replays' \in Seq(Setup) /\ (NeverCancelled' => NeverCancelled)
    <3>1. PICK list : list = replays'
      OBVIOUS
    <3>2. list \in Seq(Setup) /\ Longer(replays, list, c)
      BY <2>2, <3>1, AppendIsLonger DEF ForceInv
    <3>3. \A i \in DOMAIN replays : i \in DOMAIN list /\ list[i] = replays[i]
      BY ONLY <3>2, LongerEntries
    <3> QED BY <3>1, <3>2, <3>3 DEF NeverCancelled
  <2> QED BY <2>1, <2>2, ReplaysStep
<1>2. state' \in {"start", "connecting"} => replays' = <<>>
  BY NewStep DEF ForceInv
<1>3. ASSUME NeverCancelled' PROVE Kept'
  <2>1. NeverCancelled
    BY <1>1, <1>3
  <2>2. CASE UNCHANGED vars
    BY <2>1, <2>2, StillKept DEF vars, machine, setup, broker, counts
  <2> QED BY <1>3, <2>1, <2>2, ReceiveKept, TimersKept, CallerKept, ServeKept, TroubleKept DEF Next
<1> QED BY <1>1, <1>2, <1>3 DEF ForceInv, Kept

\* The invariant of the commands: each one in force is on its way behind the
\* last CONNECTION OPEN, or carried out, or the broker refuses what comes
\* next, and the client connects again (check_status_code, the replay list).
THEOREM ForceCorrect == Spec => []ForceInv
<1>1. Init => ForceInv
  <2>1. <<>> \in Seq(Setup) /\ <<>> \in Seq({})
    OBVIOUS
  <2>2. IsList(<<>>)
    BY <2>1, ListsAre
  <2> QED BY <2>1, <2>2 DEF Init, ForceInv, Live
<1>2. ForceInv /\ [Next]_vars => ForceInv'
  BY ForceKept
<1> QED BY <1>1, <1>2, PTL DEF Spec

\* However often the connection broke and the broker restarted: a client that
\* is connected and has nothing under way has all its commands in force.
THEOREM SubscriptionsKeptHolds == Spec => []SubscriptionsKept
<1>1. ForceInv => SubscriptionsKept
  <2> SUFFICES ASSUME ForceInv, NeverCancelled, ~gaveup, Settled, NEW c \in InForce
               PROVE  c \in known
    BY DEF SubscriptionsKept
  <2>1. Secured(<<>>, "current", known, c)
    BY DEF ForceInv, Settled, Live
  <2> QED BY <2>1 DEF Secured
<1> QED BY <1>1, ForceCorrect, PTL

-----------------------------------------------------------------------------
\* What the caller is told

NoSuccess(list) == \A i \in DOMAIN list : list[i] # "SUCCESS"

\* The command of the call is the last of those to replay.
Listed == replays # <<>> /\ Last(replays).id = call

\* SUCCESS is signalled to the call whose reply is due: a set-up call is one
\* that put its command into the list.
TellInv ==
  /\ ~stopped /\ state = "connecting" => call = "CONNECT"
  /\ ~stopped /\ state = "terminating" => call = "DESTRUCTOR"
  /\ ~stopped /\ state = "confirming" /\ call \in SetupCommands => Listed
  /\ \A i \in DOMAIN replies : replies[i] = "SUCCESS" => i = 1 /\ call \in Calls
  /\ ToldSuccess => Listed

LEMMA FirstReply ==
  ASSUME NEW list \in Seq(Reply)
  PROVE  NoSuccess(list) => list = <<>> \/ Head(list) # "SUCCESS"
BY DEF NoSuccess

LEMMA OneFailure ==
  ASSUME NEW list \in Seq(Reply)
  PROVE  /\ NoSuccess(list) => NoSuccess(Append(list, "FAILURE"))
         /\ NoSuccess(<<>>)
         /\ Head(Append(list, "FAILURE")) = "SUCCESS" => list # <<>> /\ Head(list) = "SUCCESS"
BY DEF NoSuccess, Reply

LEMMA NoSuccessInTail ==
  ASSUME NEW list \in Seq(Reply), list # <<>>,
         \A i \in DOMAIN list : list[i] = "SUCCESS" => i = 1
  PROVE  NoSuccess(Tail(list))
<1>1. PICK rest : rest = Tail(list)
  OBVIOUS
<1>2. Shorter(list, rest)
  BY <1>1, TailIsShorter
<1>3. ASSUME NEW i \in DOMAIN rest PROVE rest[i] # "SUCCESS"
  <2>1. i + 1 \in DOMAIN list /\ rest[i] = list[i + 1] /\ i + 1 # 1
    BY <1>2, <1>3 DEF Shorter
  <2> QED BY <2>1
<1> QED BY <1>1, <1>3 DEF NoSuccess

\* Nothing is said, and no reply becomes due.
LEMMA TellStill ==
  ASSUME TellInv, UNCHANGED <<call, replies, replays>>,
         ~stopped' /\ state' \in {"connecting", "confirming", "terminating"} =>
           ~stopped /\ state' = state
  PROVE  TellInv'
<1>1. (Listed' <=> Listed) /\ (ToldSuccess' <=> ToldSuccess)
  BY DEF Listed, ToldSuccess
<1> QED BY <1>1 DEF TellInv

\* The reply that was due.
LEMMA TellSignal ==
  ASSUME TellInv, CallsInv, Owing, UNCHANGED <<call, replays>>,
         NEW r \in Reply, replies' = Append(replies, r),
         ~stopped' => state' \notin {"connecting", "confirming", "terminating"}
  PROVE  TellInv'
<1>1. replies = <<>> /\ call \in Calls
  BY DEF CallsInv
<1>2. PICK new : new = replies'
  OBVIOUS
<1>3. new = <<r>>
  BY <1>1, <1>2
<1>4. \A i \in DOMAIN new : i = 1
  BY <1>3
<1>5. call \in SetupCommands => Listed
  BY DEF Owing, TellInv, SetupCommands
<1>6. Listed' <=> Listed
  BY DEF Listed
<1> QED BY <1>1, <1>2, <1>4, <1>5, <1>6 DEF TellInv, ToldSuccess

\* An error is signalled that was not waited for.
LEMMA TellFailure ==
  ASSUME TellInv, CallsInv, UNCHANGED <<call, replays>>, replies' = Append(replies, "FAILURE"),
         ~stopped' => state' \notin {"connecting", "confirming", "terminating"}
  PROVE  TellInv'
<1>1. replies \in Seq(Reply) /\ "FAILURE" \in Reply
  BY DEF CallsInv, Reply
<1>2. PICK new : new = replies'
  OBVIOUS
<1>3. Longer(replies, new, "FAILURE")
  BY <1>1, <1>2, AppendIsLonger
<1>4. \A i \in DOMAIN new : new[i] = "SUCCESS" => i \in DOMAIN replies /\ replies[i] = "SUCCESS"
  BY <1>3, LongerEntries
<1>5. ToldSuccess' => ToldSuccess
  BY <1>1, OneFailure DEF ToldSuccess
<1>6. Listed' <=> Listed
  BY DEF Listed
<1> QED BY <1>2, <1>4, <1>5, <1>6 DEF TellInv

\* The caller calls: no SUCCESS is on its way.
LEMMA TellCalled ==
  ASSUME TellInv, CallsInv, call = NoCall \/ replies' = <<>>,
         \/ replies' = replies
         \/ replies' = Append(replies, "FAILURE")
         \/ replies' = <<>>,
         ~stopped' /\ state' = "connecting" => call' = "CONNECT",
         ~stopped' /\ state' = "terminating" => call' = "DESTRUCTOR",
         ~stopped' /\ state' = "confirming" /\ call' \in SetupCommands => Listed'
  PROVE  TellInv'
<1>1. replies \in Seq(Reply)
  BY DEF CallsInv
<1>2. call = NoCall => NoSuccess(replies)
  BY DEF NoSuccess, TellInv, NoCall, Calls, SetupCommands
<1>3. PICK new : new = replies'
  OBVIOUS
<1>4. new \in Seq(Reply) /\ NoSuccess(new)
  <2>1. <<>> \in Seq(Reply) /\ Append(replies, "FAILURE") \in Seq(Reply)
    BY <1>1 DEF Reply
  <2> QED BY <1>1, <1>2, <1>3, <2>1, OneFailure
<1>5. ~ ToldSuccess'
  BY <1>3, <1>4, FirstReply DEF ToldSuccess
<1>6. \A i \in DOMAIN replies' : replies'[i] # "SUCCESS"
  BY <1>3, <1>4 DEF NoSuccess
<1> QED BY <1>5, <1>6 DEF TellInv

LEMMA ReceiveTells ==
  ASSUME TellInv, CallsInv, Receive
  PROVE  TellInv'
<1>1. UNCHANGED <<call, replays>>
  BY DEF Receive, ReceiveOK, ReceiveError, ReceivePong, ReceiveDeliver, OKConnecting, OKConfirming,
         OKTerminating, OKReconnecting, ErrorServed, ErrorConfirming, ErrorTerminating, PongServed,
         Handled, Discarded, HaveError, ConfirmingError, Replay, Signal, api, setup
<1>2. CASE OKConnecting \/ OKConfirming \/ OKTerminating
  <2>1. Owing /\ replies' = Append(replies, "SUCCESS")
    BY <1>2 DEF OKConnecting, OKConfirming, OKTerminating, Handled, Signal, Owing
  <2>2. ~stopped' => state' \notin {"connecting", "confirming", "terminating"}
    BY <1>2 DEF OKConnecting, OKConfirming, OKTerminating, Go, Stop
  <2> QED BY <1>1, <2>1, <2>2, TellSignal DEF Reply
<1>3. CASE OKReconnecting \/ PongServed \/ ReceiveDeliver \/ (\E id, S : Discarded(id, S))
  <2>1. replies' = replies
    BY <1>3 DEF OKReconnecting, PongServed, ReceiveDeliver, Discarded, api
  <2>2. ~stopped' /\ state' \in {"connecting", "confirming", "terminating"} => ~stopped /\ state' = state
    BY <1>3 DEF OKReconnecting, PongServed, ReceiveDeliver, Discarded, Replay, Go, machine
  <2> QED BY <1>1, <2>1, <2>2, TellStill
<1>4. CASE ErrorServed
  <2>1. CASE replies' = Append(replies, "FAILURE") /\ stopped'
    BY <1>1, <2>1, TellFailure
  <2>2. CASE replies' = replies /\ state' = "reconnecting"
    BY <1>1, <2>2, TellStill
  <2> QED BY <1>4, <2>1, <2>2 DEF ErrorServed, HaveError, Signal, Stop, Go, api
<1>5. CASE ErrorConfirming
  <2>1. Owing
    BY <1>5 DEF ErrorConfirming, Handled, Owing
  <2>2. CASE replies' = Append(replies, "FAILURE") /\ state' = "reconnecting"
    BY <1>1, <2>1, <2>2, TellSignal DEF Reply
  <2>3. CASE replies' = replies \o <<"FAILURE", "FAILURE">> /\ stopped'
    <3>1. replies = <<>>
      BY <2>1 DEF CallsInv
    <3>2. replies' = <<"FAILURE", "FAILURE">>
      BY <2>3, <3>1
    <3>3. NoSuccess(replies') /\ ~ ToldSuccess'
      BY <3>2 DEF NoSuccess, ToldSuccess
    <3> QED BY <2>3, <3>3 DEF TellInv, NoSuccess
  <2> QED BY <1>5, <2>2, <2>3 DEF ErrorConfirming, ConfirmingError, Signal, Stop, Go
<1>6. CASE ErrorTerminating
  <2>1. Owing /\ replies' = Append(replies, "FAILURE") /\ stopped'
    BY <1>6 DEF ErrorTerminating, Handled, Signal, Stop, Owing
  <2> QED BY <1>1, <2>1, TellSignal DEF Reply
<1> QED BY <1>2, <1>3, <1>4, <1>5, <1>6 DEF Receive, ReceiveOK, ReceiveError, ReceivePong

LEMMA TimersTell ==
  ASSUME TellInv, CallsInv, Heartbeat \/ Expired
  PROVE  TellInv'
<1>1. UNCHANGED <<call, replays>>
  BY DEF Heartbeat, Expired, ExpiredConnecting, ExpiredConfirming, ExpiredTerminating,
         ExpiredConnected, TimeOut, Signal, api, setup
<1>2. CASE Heartbeat
  BY <1>1, <1>2, TellStill DEF Heartbeat, machine, api
<1>3. CASE ExpiredConnected
  BY <1>1, <1>3, TellStill DEF ExpiredConnected, Go, api
<1>4. CASE ExpiredConnecting \/ ExpiredConfirming \/ ExpiredTerminating
  <2>1. Owing /\ replies' = Append(replies, "FAILURE")
    BY <1>4 DEF ExpiredConnecting, ExpiredConfirming, ExpiredTerminating, TimeOut, Signal, Owing
  <2>2. ~stopped' => state' \notin {"connecting", "confirming", "terminating"}
    BY <1>4 DEF ExpiredConnecting, ExpiredConfirming, ExpiredTerminating, Go, Stop
  <2> QED BY <1>1, <2>1, <2>2, TellSignal DEF Reply
<1> QED BY <1>2, <1>3, <1>4 DEF Expired

LEMMA CallerTells ==
  ASSUME TellInv, CallsInv, ForceInv, Caller
  PROVE  TellInv'
<1>1. call = NoCall => ~ Owing
  BY DEF CallsInv, NoCall, Calls, SetupCommands
<1>2. CASE Connect
  <2>1. call = NoCall /\ call' = "CONNECT" /\ ~ Owing /\ state = "start"
    BY <1>1, <1>2 DEF Connect, Called
  <2>2. replies' = replies \/ replies' = Append(replies, "FAILURE")
    BY <1>2 DEF Connect, Refused
  <2>3. state' \in {"start", "connecting"}
    BY <1>2, <2>1 DEF Connect, Refused, Go, machine
  <2> QED BY <2>1, <2>2, <2>3, TellCalled
<1>3. CASE Destructor
  <2>1. call = NoCall /\ call' = "DESTRUCTOR" /\ ~ Owing
    BY <1>1, <1>3 DEF Destructor, DestroyOffline, DestroyConnected, Called
  <2>2. CASE DestroyOffline
    <3>1. replies' = <<"SUCCESS">> /\ stopped'
      BY <2>2 DEF DestroyOffline, Stop
    <3>2. \A i \in DOMAIN replies' : i = 1
      BY <3>1
    <3>3. ~ ToldSuccess'
      BY <2>1 DEF ToldSuccess, SetupCommands
    <3> QED BY <2>1, <3>1, <3>2, <3>3 DEF TellInv, Calls
  <2>3. CASE ~DestroyOffline
    <3>1. replies' = <<>> /\ (~stopped' /\ state' # "terminating" => ~stopped /\ state' = state)
      <4>1. CASE DestroyConnected
        BY <4>1 DEF DestroyConnected, Go
      <4>2. CASE replies' = <<>> /\ UNCHANGED machine
        BY <4>2 DEF machine
      <4> QED BY <1>3, <2>3, <4>1, <4>2 DEF Destructor
    <3>2. state' \in {"connecting", "confirming"} => stopped'
      BY <2>1, <3>1 DEF Owing
    <3> QED BY <2>1, <3>1, <3>2, TellCalled
  <2> QED BY <2>2, <2>3
<1>4. CASE AcceptReply
  <2>1. /\ replies # <<>> /\ replies' = Tail(replies) /\ replies \in Seq(Reply)
        /\ UNCHANGED <<state, stopped>> /\ call' \notin Calls
    BY <1>4 DEF AcceptReply, CallsInv, machine, NoCall, Calls, SetupCommands
  <2>2. ~ Owing
    BY <2>1 DEF CallsInv
  <2>3. PICK new : new = replies'
    OBVIOUS
  <2>4. NoSuccess(new)
    BY <2>1, <2>3, NoSuccessInTail DEF TellInv
  <2>5. \A i \in DOMAIN replies' : replies'[i] # "SUCCESS"
    BY <2>3, <2>4 DEF NoSuccess
  <2>6. ~ ToldSuccess'
    BY <2>1 DEF ToldSuccess, Calls
  <2> QED BY <2>1, <2>2, <2>5, <2>6 DEF TellInv, Owing
<1>5. ASSUME NEW c \in Setup, SetUp(c) PROVE TellInv'
  <2>1. call = NoCall /\ call' = c.id /\ ~ Owing
    BY <1>1, <1>5 DEF SetUp, SetUpConnected, BadPattern, NotYetConnected, NoLongerConnected,
                      SetUpReconnecting, Called
  <2>2. CASE SetUpConnected(c)
    <3>1. state' = "confirming" /\ replies' = replies /\ replays' = Append(replays, c)
      BY <2>2 DEF SetUpConnected, Go
    <3>2. PICK list : list = replays'
      OBVIOUS
    <3>3. Longer(replays, list, c)
      BY <3>1, <3>2, AppendIsLonger DEF ForceInv
    <3>4. list # <<>> /\ Last(list) = c
      <4>1. Len(list) \in DOMAIN list /\ list[Len(list)] = c
        BY <3>3 DEF Longer
      <4> QED BY <4>1 DEF Last
    <3>5. Listed'
      BY <2>1, <3>2, <3>4 DEF Listed
    <3> QED BY <2>1, <3>1, <3>5, TellCalled
  <2>3. CASE ~SetUpConnected(c)
    <3>1. replies' = replies \/ replies' = Append(replies, "FAILURE")
      BY <1>5, <2>3 DEF SetUp, BadPattern, NotYetConnected, NoLongerConnected, SetUpReconnecting,
                        Refused, Swallowed
    <3>2. ~stopped' /\ state' \in {"connecting", "confirming", "terminating"} => ~stopped /\ state' = state
      BY <1>5, <2>3 DEF SetUp, BadPattern, NotYetConnected, NoLongerConnected, SetUpReconnecting,
                        Refused, Swallowed, Replay, Go, machine
    <3> QED BY <2>1, <3>1, <3>2, TellCalled DEF Owing
  <2> QED BY <2>2, <2>3
<1>6. ASSUME NEW id \in Sends, SendMessage(id) PROVE TellInv'
  BY <1>6, TellStill DEF SendMessage, machine, api
<1> QED BY <1>2, <1>3, <1>4, <1>5, <1>6 DEF Caller

LEMMA TellKept ==
  ASSUME TellInv, CallsInv, ForceInv, [Next]_vars
  PROVE  TellInv'
<1>1. CASE Serve \/ Restart \/ MailComes \/ Trouble \/ UNCHANGED vars
  <2>1. UNCHANGED <<call, replies, replays, state, stopped>>
    BY <1>1 DEF Serve, ServeOpen, ServeUnknown, ServeCloseOfUnknown, ServeOpenAgain, ServeClose,
                ServePing, ServeSetup, ServeSend, Taking, Restart, MailComes, Trouble, Crash, Break,
                ServerExpires, machine, api, setup, vars
  <2> QED BY <2>1, TellStill
<1> QED BY <1>1, ReceiveTells, TimersTell, CallerTells DEF Next

\* The invariant of what the caller is told: SUCCESS goes to a call that
\* waits, and is the first reply to it; a set-up call that gets it has put
\* its command into the replay list (the signals of mlm_client.c).
THEOREM TellCorrect == Spec => []TellInv
<1>1. Init => TellInv
  BY DEF Init, TellInv, ToldSuccess
<1>2. TellInv /\ CallsInv /\ ForceInv /\ [Next]_vars => TellInv'
  BY TellKept
<1> QED BY <1>1, <1>2, CallsCorrect, ForceCorrect, PTL DEF Spec

-----------------------------------------------------------------------------
\* What a SUCCESS means while nothing is wrong

NoSetup(ts) == \A i \in DOMAIN ts : ts[i].id \notin SetupCommands
NoOK(tc) == \A i \in DOMAIN tc : tc[i].id # "OK"
NoneDue(ts, tc) == NoSetup(ts) /\ NoOK(tc)

\* Command c alone is on its way, or was refused; its OK alone is.
Due(ts, tc, c) ==
  /\ NoOK(tc)
  /\ \A i \in DOMAIN ts : ts[i].id \in SetupCommands => ts[i] = c
  /\ \A i, j \in DOMAIN ts : ts[i].id \in SetupCommands /\ ts[j].id \in SetupCommands => i = j
Told(ts, tc) ==
  /\ NoSetup(ts)
  /\ \A i, j \in DOMAIN tc : tc[i].id = "OK" /\ tc[j].id = "OK" => i = j

\* One set-up command at a time: in confirming there is either the command on
\* its way or its OK, and a client that is connected waits for neither.
Promised ==
  /\ state = "connected" => NoneDue(toserver, toclient)
  /\ state = "confirming" =>
       \/ Due(toserver, toclient, Last(replays))
       \/ Told(toserver, toclient) /\ Done(Last(replays))
  /\ ToldSuccess => Done(Last(replays))

PromiseInv == Calm => Promised

\* The client sends.
LEMMA SetupGrows ==
  ASSUME NEW ts, NEW tc, NEW new, NEW m, Longer(ts, new, m)
  PROVE  /\ m.id \notin SetupCommands =>
              /\ NoSetup(ts) => NoSetup(new)
              /\ \A c : Due(ts, tc, c) => Due(new, tc, c)
              /\ Told(ts, tc) => Told(new, tc)
         /\ NoneDue(ts, tc) => Due(new, tc, m)
<1>1. \A i \in DOMAIN new : 
        (i \in DOMAIN ts /\ new[i] = ts[i]) \/ (i = Len(ts) + 1 /\ new[i] = m)
  BY ONLY Longer(ts, new, m), LongerEntries
<1>2. ASSUME m.id \notin SetupCommands
      PROVE  /\ NoSetup(ts) => NoSetup(new)
             /\ \A c : Due(ts, tc, c) => Due(new, tc, c)
             /\ Told(ts, tc) => Told(new, tc)
  <2>1. \A i \in DOMAIN new : new[i].id \in SetupCommands => i \in DOMAIN ts /\ new[i] = ts[i]
    BY <1>1, <1>2
  <2>2. NoSetup(ts) => NoSetup(new)
    BY <2>1 DEF NoSetup
  <2>3. \A c : Due(ts, tc, c) => Due(new, tc, c)
    BY <2>1 DEF Due
  <2> QED BY <2>2, <2>3 DEF Told
<1>3. NoneDue(ts, tc) => Due(new, tc, m)
  BY <1>1 DEF NoneDue, NoSetup, Due
<1> QED BY <1>2, <1>3

\* The broker sends something that is no OK.
LEMMA OKsKept ==
  ASSUME NEW ts, NEW tc, NEW new, NEW m, Longer(tc, new, m), m.id # "OK"
  PROVE  /\ NoOK(tc) => NoOK(new)
         /\ \A c : Due(ts, tc, c) => Due(ts, new, c)
         /\ Told(ts, tc) => Told(ts, new)
<1>1. \A i \in DOMAIN new : 
        (i \in DOMAIN tc /\ new[i] = tc[i]) \/ (i = Len(tc) + 1 /\ new[i] = m)
  BY ONLY Longer(tc, new, m), LongerEntries
<1>2. \A i \in DOMAIN new : new[i].id = "OK" => i \in DOMAIN tc /\ new[i] = tc[i]
  BY <1>1
<1> QED BY <1>2 DEF NoOK, Due, Told

\* The client takes what the broker sent.
LEMMA OKsShrink ==
  ASSUME NEW ts, NEW tc, NEW new, Shorter(tc, new)
  PROVE  /\ NoOK(tc) => NoOK(new) /\ tc[1].id # "OK"
         /\ \A c : Due(ts, tc, c) => Due(ts, new, c)
         /\ Told(ts, tc) => Told(ts, new)
         /\ Told(ts, tc) /\ tc[1].id = "OK" => NoneDue(ts, new)
<1>1. /\ \A i \in DOMAIN new : i + 1 \in DOMAIN tc /\ new[i] = tc[i + 1] /\ i + 1 # 1
      /\ \A i, j \in DOMAIN new : i + 1 = j + 1 => i = j
      /\ 1 \in DOMAIN tc
  BY DEF Shorter
<1>2. NoOK(tc) => NoOK(new) /\ tc[1].id # "OK"
  BY <1>1 DEF NoOK
<1>3. \A c : Due(ts, tc, c) => Due(ts, new, c)
  BY <1>2 DEF Due
<1>4. Told(ts, tc) => Told(ts, new)
  BY <1>1 DEF Told
<1>5. Told(ts, tc) /\ tc[1].id = "OK" => NoneDue(ts, new)
  BY <1>1 DEF Told, NoneDue, NoOK
<1> QED BY <1>2, <1>3, <1>4, <1>5

\* The broker takes what the client sent.
LEMMA SetupShrinks ==
  ASSUME NEW ts, NEW tc, NEW rest, Shorter(ts, rest)
  PROVE  /\ NoSetup(ts) => NoSetup(rest) /\ ts[1].id \notin SetupCommands
         /\ \A c : Due(ts, tc, c) => Due(rest, tc, c)
         /\ Told(ts, tc) => Told(rest, tc)
         /\ \A c : Due(ts, tc, c) /\ ts[1].id \in SetupCommands =>
              ts[1] = c /\ NoSetup(rest) /\ NoOK(tc)
<1>1. /\ \A i \in DOMAIN rest : i + 1 \in DOMAIN ts /\ rest[i] = ts[i + 1] /\ i + 1 # 1
      /\ \A i, j \in DOMAIN rest : i + 1 = j + 1 => i = j
      /\ 1 \in DOMAIN ts
  BY DEF Shorter
<1>2. NoSetup(ts) => NoSetup(rest) /\ ts[1].id \notin SetupCommands
  BY <1>1 DEF NoSetup
<1>3. \A c : Due(ts, tc, c) => Due(rest, tc, c)
  BY <1>1 DEF Due
<1>4. \A c : Due(ts, tc, c) /\ ts[1].id \in SetupCommands => ts[1] = c /\ NoSetup(rest) /\ NoOK(tc)
  BY <1>1 DEF Due, NoSetup
<1> QED BY <1>2, <1>3, <1>4 DEF Told

\* It answers with an OK.
LEMMA OKTells ==
  ASSUME NEW ts, NEW tc, NEW new, NEW m, Longer(tc, new, m), NoOK(tc), NoSetup(ts)
  PROVE  Told(ts, new)
<1>1. \A i \in DOMAIN new : (i \in DOMAIN tc /\ new[i] = tc[i]) \/ i = Len(tc) + 1
  BY ONLY Longer(tc, new, m), LongerEntries
<1> QED BY <1>1 DEF Told, NoOK

LEMMA OpenedOnce ==
  ASSUME NEW ch, NEW new, Opened(ch), Shorter(ch, new)
  PROVE  NoOK(new)
<1>1. \A i \in DOMAIN new : i + 1 \in DOMAIN ch /\ i + 1 # 1 /\ new[i] = ch[i + 1]
  BY DEF Shorter
<1> QED BY <1>1 DEF Opened, NoOK

\* In a calm session SUCCESS is told only while the client is connected.
LEMMA ToldConnected ==
  ASSUME Orderly, ~stopped, CallsInv, ToldSuccess
  PROVE  state = "connected"
<1>1. replies \in Seq(Reply) /\ replies # <<>> /\ Head(replies) = "SUCCESS"
  BY DEF CallsInv, ToldSuccess
<1>2. 1 \in DOMAIN replies /\ replies[1] = "SUCCESS"
  BY <1>1, TailIsShorter
<1>3. state # "start"
  BY <1>2 DEF Orderly, Unconnected
<1> QED BY <1>1, <1>3 DEF Orderly, CallsInv, Owing

\* The caller, the machine and the broker leave it at that.
LEMMA PromiseStill ==
  ASSUME Promised, UNCHANGED <<replays, owner, known, toserver, toclient>>,
         state' = state \/ state' \notin {"connected", "confirming"},
         ToldSuccess' => ToldSuccess
  PROVE  Promised'
<1>1. Done(Last(replays)) => Done(Last(replays))'
  BY DEF Done
<1>2. NoneDue(toserver, toclient) => NoneDue(toserver', toclient')
  OBVIOUS
<1>3. Due(toserver, toclient, Last(replays)) => Due(toserver', toclient', Last(replays'))
  OBVIOUS
<1>4. Told(toserver, toclient) => Told(toserver', toclient')
  OBVIOUS
<1> QED BY <1>1, <1>2, <1>3, <1>4 DEF Promised

LEMMA ReceivePromised ==
  ASSUME Promised, Orderly, Orderly', Calm, Calm', MailsInv, CallsInv, TellInv, Receive
  PROVE  Promised'
<1>1. /\ toclient # <<>> /\ toclient' = Tail(toclient) /\ toclient \in Seq(FromBroker)
      /\ UNCHANGED <<owner, known, replays>>
  <2>1. toclient \in Seq(FromBroker)
    BY DEF MailsInv, Placed
  <2> QED BY <2>1 DEF Receive, ReceiveOK, ReceiveError, ReceivePong, ReceiveDeliver, OKConnecting,
                OKConfirming, OKTerminating, OKReconnecting, ErrorServed, ErrorConfirming,
                ErrorTerminating, PongServed, Handled, Discarded, Incoming, HaveError,
                ConfirmingError, Replay, broker, counts, setup
<1>2. PICK first, rest : first = toclient[1] /\ rest = toclient'
  OBVIOUS
<1>3. Shorter(toclient, rest) /\ Head(toclient) = first
  BY <1>1, <1>2, TailIsShorter
<1>4. ~stopped /\ ~stopped' /\ state' # "terminating"
  BY DEF Calm
<1>5. Done(Last(replays))' <=> Done(Last(replays))
  BY <1>1 DEF Done
<1>6. CASE state = "start"
  BY <1>1, <1>6 DEF Orderly, Unconnected
<1>7. CASE state = "connecting"
  <2>1. toserver = <<>> /\ Opened(toclient)
    BY <1>1, <1>7 DEF Orderly, Opening
  <2>2. NoOK(rest) /\ first.id = "OK"
    BY <1>2, <1>3, <2>1, OpenedOnce, OpenedShrinks
  <2>3. OKConnecting
    BY <1>3, <1>4, <1>7, <2>2 DEF Receive, ReceiveOK, ReceiveError, ReceivePong, ReceiveDeliver,
       OKConfirming, OKTerminating, OKReconnecting, ErrorServed, ErrorConfirming, ErrorTerminating,
       PongServed, Handled, Discarded, Incoming
  <2>4. state' = "connected" /\ toserver' = <<>> /\ call' = call /\ call = "CONNECT"
    BY <1>4, <1>7, <2>1, <2>3 DEF OKConnecting, Go, Signal, TellInv
  <2>5. NoneDue(toserver', rest)
    BY <2>2, <2>4 DEF NoneDue, NoSetup
  <2>6. ~ ToldSuccess'
    BY <2>4 DEF ToldSuccess, SetupCommands
  <2> QED BY <1>2, <2>4, <2>5, <2>6 DEF Promised
<1>8. CASE state \in {"connected", "confirming"} /\ first.id = "OK"
  <2>1. state = "confirming" /\ Told(toserver, toclient) /\ Done(Last(replays))
    BY <1>2, <1>3, <1>8, OKsShrink DEF Promised, NoneDue, Due
  <2>2. OKConfirming
    BY <1>3, <1>4, <1>8, <2>1 DEF Receive, ReceiveOK, ReceiveError, ReceivePong, ReceiveDeliver,
       OKConnecting, OKTerminating, OKReconnecting, ErrorServed, ErrorConfirming, ErrorTerminating,
       PongServed, Handled, Discarded, Incoming
  <2>3. state' = "connected" /\ toserver' = toserver
    BY <2>2 DEF OKConfirming, Go
  <2>4. NoneDue(toserver, rest)
    BY <1>2, <1>3, <1>8, <2>1, OKsShrink
  <2> QED BY <1>2, <1>5, <2>1, <2>3, <2>4 DEF Promised
<1>9. CASE state \in {"connected", "confirming"} /\ first.id # "OK"
  <2>1. state' \in {"connected", "confirming", "start", "connecting"}
    BY DEF Orderly
  <2>2. ~ErrorServed /\ ~ErrorConfirming
    BY <2>1 DEF ErrorServed, ErrorConfirming, HaveError, ConfirmingError, Go, Stop
  <2>3. state' = state /\ UNCHANGED <<call, replies, toserver>>
    <3>1. CASE ReceivePong
      BY <1>4, <1>9, <3>1 DEF ReceivePong, PongServed, Handled, Discarded, Go, machine, api
    <3>2. CASE ReceiveDeliver
      BY <3>2 DEF ReceiveDeliver, machine, api
    <3>3. ~ReceiveOK /\ ~ReceiveError
      BY <1>3, <1>4, <1>9, <2>2 DEF ReceiveOK, ReceiveError, OKConnecting, OKConfirming,
         OKTerminating, OKReconnecting, ErrorTerminating, Handled, Discarded, Incoming
    <3> QED BY <3>1, <3>2, <3>3 DEF Receive
  <2>4. /\ NoneDue(toserver, toclient) => NoneDue(toserver, rest)
        /\ Due(toserver, toclient, Last(replays)) => Due(toserver, rest, Last(replays))
        /\ Told(toserver, toclient) => Told(toserver, rest)
    BY <1>2, <1>3, OKsShrink DEF NoneDue
  <2>5. ToldSuccess' <=> ToldSuccess
    BY <2>3 DEF ToldSuccess
  <2>6. replays' = replays /\ toclient' = rest /\ toserver' = toserver
    BY <1>1, <1>2, <2>3
  <2> QED BY <1>5, <2>3, <2>4, <2>5, <2>6 DEF Promised
<1> QED BY <1>6, <1>7, <1>8, <1>9 DEF Orderly

\* The client sends something else than a set-up command.
LEMMA PromiseSent ==
  ASSUME Promised, Orderly, UNCHANGED <<state, replays, owner, known, toclient, call, replies>>,
         NEW m \in Asked, m.id \notin SetupCommands, toserver' = Append(toserver, m)
  PROVE  Promised'
<1>1. Done(Last(replays))' <=> Done(Last(replays))
  BY DEF Done
<1>2. ToldSuccess' <=> ToldSuccess
  BY DEF ToldSuccess
<1>3. CASE state \in {"connected", "confirming"}
  <2>1. PICK new : new = toserver'
    OBVIOUS
  <2>2. Longer(toserver, new, m)
    BY <1>3, <2>1, AppendIsLonger DEF Orderly, Served
  <2>3. /\ NoSetup(toserver) => NoSetup(new)
        /\ \A c : Due(toserver, toclient, c) => Due(new, toclient, c)
        /\ Told(toserver, toclient) => Told(new, toclient)
    BY ONLY <2>2, m.id \notin SetupCommands, SetupGrows
  <2>4. NoneDue(toserver, toclient) => NoneDue(new, toclient)
    BY <2>3 DEF NoneDue
  <2> QED BY <1>1, <1>2, <2>1, <2>3, <2>4 DEF Promised
<1> QED BY <1>1, <1>2, <1>3 DEF Promised

LEMMA TimersPromised ==
  ASSUME Promised, Orderly, Orderly', Calm, Calm', CallsInv, Heartbeat \/ Expired
  PROVE  Promised'
<1>1. UNCHANGED <<owner, known, replays, toclient>>
  BY DEF Heartbeat, Expired, ExpiredConnecting, ExpiredConfirming, ExpiredTerminating,
         ExpiredConnected, TimeOut, broker, setup
<1>2. CASE Heartbeat
  <2>1. UNCHANGED <<state, call, replies>>
    BY <1>2 DEF Heartbeat, machine, api
  <2>2. CASE toserver' = toserver
    BY <1>1, <2>1, <2>2, PromiseStill DEF ToldSuccess
  <2>3. CASE toserver' = Append(toserver, Plain("CONNECTION PING"))
    <3>1. Plain("CONNECTION PING") \in Asked /\ Plain("CONNECTION PING").id \notin SetupCommands
      BY DEF Asked, Plain, SetupCommands
    <3> QED BY <1>1, <2>1, <2>3, <3>1, PromiseSent
  <2> QED BY <1>2, <2>2, <2>3 DEF Heartbeat, Send
<1>3. CASE Expired
  <2>1. ExpiredConnecting
    BY <1>3 DEF Expired, ExpiredConfirming, ExpiredTerminating, ExpiredConnected, Go, Stop,
                Orderly, Calm
  <2>2. state' = "start" /\ ~stopped'
    BY <2>1 DEF ExpiredConnecting, Go, Calm
  <2>3. ~ ToldSuccess'
    <3>1. replies = <<>> /\ replies' = Append(replies, "FAILURE")
      BY <2>1 DEF ExpiredConnecting, TimeOut, Signal, CallsInv, Owing
    <3>2. replies' = <<"FAILURE">>
      BY <3>1
    <3> QED BY <3>2 DEF ToldSuccess
  <2> QED BY <2>2, <2>3 DEF Promised
<1> QED BY <1>2, <1>3

LEMMA CallerPromised ==
  ASSUME Promised, Orderly, Calm, Calm', CallsInv, ForceInv, Caller
  PROVE  Promised'
<1>1. UNCHANGED <<owner, known, toclient>> /\ ~stopped /\ ~stopped' /\ state' # "terminating"
  BY DEF Caller, Connect, Destructor, DestroyOffline, DestroyConnected, AcceptReply, SetUp,
         SetUpConnected, BadPattern, NotYetConnected, NoLongerConnected, SetUpReconnecting,
         SendMessage, Called, broker, Calm
<1>2. CASE Connect
  <2>1. call' = "CONNECT" /\ state' \in {"start", "connecting"}
    BY <1>2 DEF Connect, Called, Refused, Go, machine
  <2> QED BY <2>1 DEF Promised, ToldSuccess, SetupCommands
<1>3. CASE Destructor \/ AcceptReply
  <2>1. call' \notin SetupCommands /\ UNCHANGED <<state, replays, toserver>>
    BY <1>1, <1>3 DEF Destructor, DestroyOffline, DestroyConnected, AcceptReply, Called, Stop, Go,
                      machine, setup, SetupCommands, NoCall
  <2>2. ~ ToldSuccess'
    BY <2>1 DEF ToldSuccess
  <2> QED BY <1>1, <2>1, <2>2, PromiseStill
<1>4. ASSUME NEW c \in Setup, SetUp(c) PROVE Promised'
  <2>1. replies = <<>>
    <3>1. call = NoCall
      BY <1>4 DEF SetUp, SetUpConnected, BadPattern, NotYetConnected, NoLongerConnected,
                  SetUpReconnecting, Called
    <3> QED BY <3>1, IdleMeansNone DEF Orderly
  <2>2. CASE SetUpConnected(c)
    <3>1. /\ replays' = Append(replays, c) /\ toserver' = Append(toserver, c)
          /\ state = "connected" /\ state' = "confirming" /\ replies' = replies
      BY <2>2 DEF SetUpConnected, Send, Go
    <3>2. PICK new, list : new = toserver' /\ list = replays'
      OBVIOUS
    <3>3. Longer(replays, list, c)
      BY <3>1, <3>2, AppendIsLonger DEF ForceInv
    <3>4. Last(list) = c
      BY <3>3 DEF Longer, Last
    <3>5. Longer(toserver, new, c)
      <4>1. toserver \in Seq(Asked) /\ c \in Asked
        BY <3>1 DEF Orderly, Served, Asked
      <4> QED BY <3>1, <3>2, <4>1, AppendIsLonger
    <3>6. NoneDue(toserver, toclient)
      BY <3>1 DEF Promised
    <3>7. Due(new, toclient, c)
      BY ONLY <3>5, <3>6, SetupGrows
    <3>8. Due(toserver', toclient', Last(replays'))
      BY <1>1, <3>2, <3>4, <3>7
    <3>9. ~ ToldSuccess'
      BY <2>1, <3>1 DEF ToldSuccess
    <3> QED BY <3>1, <3>8, <3>9 DEF Promised
  <2>3. CASE ~SetUpConnected(c)
    <3>1. /\ replies' = <<>> \/ replies' = Append(<<>>, "FAILURE")
          /\ UNCHANGED <<state, replays, toserver>>
      BY <1>1, <1>4, <2>1, <2>3 DEF SetUp, BadPattern, NotYetConnected, NoLongerConnected,
         SetUpReconnecting, Refused, Swallowed, machine, setup, Orderly
    <3>2. replies' = <<>> \/ replies' = <<"FAILURE">>
      BY <3>1
    <3>3. ~ ToldSuccess'
      BY <3>2 DEF ToldSuccess
    <3> QED BY <1>1, <3>1, <3>3, PromiseStill
  <2> QED BY <2>2, <2>3
<1>5. ASSUME NEW id \in Sends, SendMessage(id) PROVE Promised'
  <2>1. /\ Plain(id) \in Asked /\ toserver' = Append(toserver, Plain(id))
        /\ UNCHANGED <<state, replays, call, replies>>
    BY <1>5 DEF SendMessage, Send, Asked, machine, api
  <2>2. Plain(id).id \notin SetupCommands
    BY SendsAssumption DEF Plain, SetupCommands
  <2> QED BY <1>1, <2>1, <2>2, PromiseSent
<1> QED BY <1>2, <1>3, <1>4, <1>5 DEF Caller

\* What the broker has carried out for a command in force.
LEMMA KnowingDoes ==
  ASSUME NEW m
  PROVE  IF m.id = "STREAM CANCEL" THEN \A k \in Knowing(m) : ~ Overrides(m, k)
                                   ELSE m \in Knowing(m)
BY DEF Knowing, Overrides

LEMMA ServePromised ==
  ASSUME Promised, Orderly, Calm, CallsInv, MailsInv, Serve
  PROVE  Promised'
<1>1. /\ toserver # <<>> /\ toserver' = Tail(toserver)
      /\ UNCHANGED <<state, stopped, replays, call, replies>>
  BY NoCloseOfUnknown DEF Serve, ServeOpen, ServeUnknown, ServeCloseOfUnknown, ServeOpenAgain,
     ServeClose, ServePing, ServeSetup, ServeSend, Taking, machine, setup, api
<1>2. toclient \in Seq(FromBroker)
  BY DEF MailsInv, Placed
<1>3. ToldSuccess' => ToldSuccess /\ state = "connected"
  BY <1>1, ToldConnected DEF ToldSuccess, Calm
<1>4. CASE state \in {"start", "connecting"}
  BY <1>1, <1>3, <1>4 DEF Promised
<1>5. CASE state \in {"connected", "confirming"}
  <2>1. PICK first, rest, new : first = toserver[1] /\ rest = toserver' /\ new = toclient'
    OBVIOUS
  <2>2. Shorter(toserver, rest) /\ Head(toserver) = first /\ first \in Asked
    <3>1. toserver \in Seq(Asked)
      BY <1>5 DEF Orderly, Served
    <3>2. Head(toserver) \in Asked
      BY ONLY <1>1, <3>1
    <3> QED BY <1>1, <2>1, <3>1, <3>2, TailIsShorter
  <2>3. first.id \in SetupCommands \cup {"MAILBOX SEND", "STREAM SEND", "CONNECTION PING"}
    BY <2>2, AskedIds
  <2>4. \A m \in Notice : new = toclient \o <<m>> => Longer(toclient, new, m)
    <3> SUFFICES ASSUME NEW m \in Notice, new = toclient \o <<m>> PROVE Longer(toclient, new, m)
      OBVIOUS
    <3>1. m \in FromBroker
      BY DEF FromBroker
    <3>2. Append(toclient, m) = toclient \o <<m>>
      BY <1>2, <3>1, AppendIsJoin
    <3>3. Longer(toclient, Append(toclient, m), m)
      BY <1>2, <3>1, AppendIsLonger
    <3> QED BY <3>2, <3>3
  \* No OK is sent: the pipes stay as they should be.
  <2>5. ASSUME NEW m \in Notice, m.id # "OK", new = toclient \/ new = toclient \o <<m>>,
               Done(Last(replays)) => Done(Last(replays))'
        PROVE  Promised'
    <3>1. /\ NoSetup(toserver) => NoSetup(rest)
          /\ Due(toserver, toclient, Last(replays)) => Due(rest, toclient, Last(replays))
          /\ Told(toserver, toclient) => Told(rest, toclient)
      BY <2>2, SetupShrinks
    <3>2. /\ NoOK(toclient) => NoOK(new)
          /\ Due(rest, toclient, Last(replays)) => Due(rest, new, Last(replays))
          /\ Told(rest, toclient) => Told(rest, new)
      BY <2>4, <2>5, OKsKept
    <3>3. NoneDue(toserver, toclient) => NoneDue(rest, new)
      BY <3>1, <3>2 DEF NoneDue
    <3> QED BY <1>1, <1>3, <2>1, <2>5, <3>1, <3>2, <3>3 DEF Promised
  <2>6. CASE ServeSetup
    <3>1. /\ new = toclient \o <<Plain("OK")>> /\ owner' = owner /\ owner = "current"
          /\ known' = Knowing(first) /\ first.id \in SetupCommands
      BY <2>1, <2>2, <2>6 DEF ServeSetup, Answers, Taking
    <3>2. state = "confirming" /\ Due(toserver, toclient, Last(replays))
      BY <1>5, <2>1, <2>2, <3>1, SetupShrinks DEF Promised, NoneDue, Told
    <3>3. first = Last(replays) /\ NoSetup(rest) /\ NoOK(toclient)
      BY <2>1, <2>2, <3>1, <3>2, SetupShrinks
    <3>4. Told(rest, new)
      BY <2>4, <3>1, <3>3, Notices, OKTells
    <3>5. Done(first)'
      <4>1. IF first.id = "STREAM CANCEL" THEN \A k \in Knowing(first) : ~ Overrides(first, k)
                                          ELSE first \in Knowing(first)
        BY KnowingDoes
      <4> QED BY <3>1, <4>1 DEF Done
    <3>6. Done(Last(replays))'
      BY <1>1, <3>3, <3>5 DEF Done
    <3> QED BY <1>1, <1>3, <2>1, <3>2, <3>4, <3>6 DEF Promised
  <2>7. CASE ServeUnknown
    <3>1. new = toclient \o <<Invalid>> /\ UNCHANGED <<owner, known>>
      BY <2>1, <2>7 DEF ServeUnknown, Answers, broker
    <3>2. Done(Last(replays)) => Done(Last(replays))'
      BY <1>1, <3>1 DEF Done
    <3> QED BY <2>5, <3>1, <3>2, Notices, NoticeIds
  <2>8. CASE ServePing
    <3>1. new = toclient \o <<Plain("CONNECTION PONG")>> /\ UNCHANGED <<owner, known>>
      BY <2>1, <2>8 DEF ServePing, Answers, broker
    <3>2. Done(Last(replays)) => Done(Last(replays))'
      BY <1>1, <3>1 DEF Done
    <3> QED BY <2>5, <3>1, <3>2, Notices, NoticeIds
  <2>9. CASE ServeSend
    <3>1. \/ new = toclient /\ UNCHANGED <<owner, known>>
          \/ new = toclient \o <<Error("FAILED")>> /\ owner' = "nobody"
      BY <2>1, <2>9 DEF ServeSend, Dropped, Answers, broker
    <3>2. Done(Last(replays)) => Done(Last(replays))'
      BY <1>1, <3>1 DEF Done
    <3> QED BY <2>5, <3>1, <3>2, Notices, NoticeIds
  <2> QED BY <2>2, <2>3, <2>6, <2>7, <2>8, <2>9, NoCloseOfUnknown DEF Serve, ServeOpen,
             ServeOpenAgain, ServeClose, Taking, SetupCommands
<1> QED BY <1>4, <1>5 DEF Orderly

LEMMA MorePromised ==
  ASSUME Promised, MailsInv, MailComes
  PROVE  Promised'
<1>1. UNCHANGED <<state, stopped, replays, call, replies, toserver, owner, known>>
  BY DEF MailComes, machine, setup, api
<1>2. (Done(Last(replays))' <=> Done(Last(replays))) /\ (ToldSuccess' <=> ToldSuccess)
  BY <1>1 DEF Done, ToldSuccess
<1>3. PICK new : new = toclient'
  OBVIOUS
<1>4. /\ NoneDue(toserver, toclient) => NoneDue(toserver, new)
      /\ Due(toserver, toclient, Last(replays)) => Due(toserver, new, Last(replays))
      /\ Told(toserver, toclient) => Told(toserver, new)
  <2>1. CASE new = toclient
    BY <2>1
  <2>2. CASE new = Append(toclient, Mail(mails'))
    <3>1. PICK n \in Nat : n = mails'
      BY DEF MailComes, MailsInv, Placed
    <3>2. toclient \in Seq(FromBroker) /\ Mail(n) \in FromBroker /\ Mail(n).id # "OK"
      BY MailIsMail DEF MailsInv, Placed
    <3>3. Longer(toclient, new, Mail(n))
      BY <2>2, <3>1, <3>2, AppendIsLonger
    <3> QED BY <3>2, <3>3, OKsKept DEF NoneDue
  <2> QED BY <1>3, <2>1, <2>2 DEF MailComes
<1>5. toclient' = new /\ toserver' = toserver /\ replays' = replays /\ state' = state
  BY <1>1, <1>3
<1> QED BY <1>2, <1>4, <1>5 DEF Promised

LEMMA PromiseKept ==
  ASSUME PromiseInv, CallsInv, MailsInv, CalmInv, ForceInv, TellInv, [Next]_vars
  PROVE  PromiseInv'
<1> SUFFICES ASSUME Calm' PROVE Promised'
  BY DEF PromiseInv
<1>1. Calm /\ breaks' = breaks /\ breaks \in Nat
  BY CalmBefore DEF CalmInv
<1>2. CalmInv'
  BY CalmKept
<1>3. Promised /\ Orderly /\ Orderly'
  BY <1>1, <1>2 DEF PromiseInv, CalmInv
<1>4. CASE Restart \/ Trouble
  BY <1>1, <1>3, <1>4 DEF Restart, Trouble, Crash, Break, ServerExpires, Orderly
<1>5. CASE UNCHANGED vars
  BY <1>3, <1>5, PromiseStill DEF vars, machine, setup, api, broker, ToldSuccess
<1> QED BY <1>1, <1>3, <1>4, <1>5, ReceivePromised, TimersPromised, CallerPromised, ServePromised,
           MorePromised DEF Next

\* The invariant of a calm session's set-up calls: one command at a time is
\* under way, and the OK that follows it is its own (the state confirming of
\* mlm_client.xml).
THEOREM PromiseCorrect == Spec => []PromiseInv
<1>1. Init => PromiseInv
  BY DEF Init, PromiseInv, Promised, ToldSuccess
<1>2. PromiseInv /\ CallsInv /\ MailsInv /\ CalmInv /\ ForceInv /\ TellInv /\ [Next]_vars
        => PromiseInv'
  BY PromiseKept
<1> QED BY <1>1, <1>2, CallsCorrect, MailsCorrect, CalmCorrect, ForceCorrect, TellCorrect, PTL
        DEF Spec

\* Replies are counted, and a set-up call that is told of SUCCESS has its
\* command in the replay list; as long as nothing broke and no timeout came
\* early the broker has carried it out, and afterwards it did, or the command
\* is on its way, or the client will have to connect again.  It does not say
\* that the OK was that to this command: after an early timeout it need not be.
THEOREM SuccessHoldsAlways == Spec => []SuccessHolds
<1>1. CallsInv /\ CalmInv /\ ForceInv /\ TellInv /\ PromiseInv => SuccessHolds
  <2> SUFFICES ASSUME CallsInv, CalmInv, ForceInv, TellInv, PromiseInv, ToldSuccess
               PROVE  /\ replays # <<>> /\ Last(replays).id = call
                      /\ breaks + late = 0 /\ ~stopped => Done(Last(replays))
                      /\ NeverCancelled /\ ~gaveup /\ state \in Live =>
                           Secured(toserver, owner, known, Last(replays))
    BY DEF SuccessHolds, CallsInv, OneReply, Live
  <2>1. replays # <<>> /\ Last(replays).id = call
    BY DEF TellInv, Listed
  <2>2. ASSUME breaks + late = 0, ~stopped PROVE Done(Last(replays))
    <3>1. breaks = 0 /\ late = 0
      BY <2>2 DEF CalmInv
    <3>2. state # "terminating"
      BY <2>2 DEF TellInv, ToldSuccess, SetupCommands
    <3> QED BY <2>2, <3>1, <3>2 DEF Calm, PromiseInv, Promised
  <2>3. ASSUME NeverCancelled, ~gaveup, state \in Live
        PROVE  Secured(toserver, owner, known, Last(replays))
    <3>1. PICK n \in Nat : n = Len(replays) /\ DOMAIN replays = 1 .. n
      BY DEF ForceInv
    <3>2. n \in DOMAIN replays /\ n + 1 .. n = {}
      <4>1. n # 0
        BY <2>1, <3>1 DEF ForceInv
      <4> QED BY <3>1, <4>1
    <3>3. Last(replays) \in InForce
      BY <3>1, <3>2 DEF InForce, Last
    <3> QED BY <2>3, <3>3 DEF ForceInv
  <2> QED BY <2>1, <2>2, <2>3
<1> QED BY <1>1, CallsCorrect, CalmCorrect, ForceCorrect, TellCorrect, PromiseCorrect, PTL
=============================================================================
