---------------------------- MODULE BrokerProofs ----------------------------
(***************************************************************************)
(* Proofs about Broker for every value of its constants.                   *)
(***************************************************************************)
EXTENDS Broker, TLAPS, Lemmas, FiniteSetTheorems

-----------------------------------------------------------------------------
\* The recursive function in Without is well defined.
WithoutStep(list, client, kept, n) ==
  IF n = 0 THEN <<>>
  ELSE IF list[n].client = client THEN kept[n - 1]
  ELSE Append(kept[n - 1], list[n])

LEMMA WithoutExists ==
  ASSUME NEW S, NEW list \in Seq(S), NEW client
  PROVE  \E kept : kept = [n \in 0 .. Len(list) |-> WithoutStep(list, client, kept, n)]
<1> DEFINE Upto(m, f) == f = [n \in 0 .. m |-> WithoutStep(list, client, f, n)]
           T == {m \in 0 .. Len(list) : ~ \E f : Upto(m, f)}
<1>1. SUFFICES T = {}
  BY DEF T
<1>2. SUFFICES ASSUME T # {} PROVE FALSE
  OBVIOUS
<1>3. T \subseteq Nat /\ Len(list) \in Nat
  BY DEF T
<1>4. PICK m \in T : \A y \in T : m <= y
  <2> HIDE DEF T
  <2> QED BY LeastElement, <1>2, <1>3
<1>5. m \in Nat /\ m <= Len(list)
  BY <1>3
<1>6. m # 0
  <2> DEFINE f == [n \in 0 .. 0 |-> <<>>]
  <2>1. Upto(0, f)
    BY DEF WithoutStep
  <2> QED BY <2>1
<1>7. m - 1 \notin T
  <2> HIDE DEF T
  <2> QED BY <1>3, <1>4, <1>5
<1>8. PICK g : Upto(m - 1, g)
  BY <1>5, <1>6, <1>7
<1> DEFINE h == [n \in 0 .. m |-> IF n < m THEN g[n] ELSE WithoutStep(list, client, g, m)]
<1>9. ASSUME NEW n \in 0 .. m PROVE h[n] = WithoutStep(list, client, h, n)
  <2>1. n # 0 => h[n - 1] = g[n - 1]
    BY <1>5
  <2>2. WithoutStep(list, client, h, n) = WithoutStep(list, client, g, n)
    BY <2>1 DEF WithoutStep
  <2>3. CASE n = m
    BY <2>2, <2>3, <1>5
  <2>4. CASE n < m
    <3>1. n \in 0 .. m - 1
      BY <2>4, <1>5
    <3>2. g[n] = WithoutStep(list, client, g, n)
      BY <3>1, <1>8
    <3> QED BY <3>2, <2>2, <2>4
  <2> QED BY <2>3, <2>4, <1>5
<1>10. Upto(m, h)
  BY <1>9
<1> QED BY <1>10, <1>4

\* What Without returns: the offers of the other clients, and only those,
\* none further back than it was.
LEMMA WithoutLemma ==
  ASSUME NEW S, NEW list \in Seq(S), NEW client
  PROVE  /\ Without(list, client) \in Seq(S)
         /\ \A i \in DOMAIN Without(list, client) :
              /\ Without(list, client)[i].client # client
              /\ \E j \in DOMAIN list : i <= j /\ Without(list, client)[i] = list[j]
<1> DEFINE kept == CHOOSE f : f = [n \in 0 .. Len(list) |-> WithoutStep(list, client, f, n)]
<1>1. Without(list, client) = kept[Len(list)]
  BY Zenon DEF Without, WithoutStep
<1>2. kept = [n \in 0 .. Len(list) |-> WithoutStep(list, client, kept, n)]
  BY WithoutExists, Zenon
<1> HIDE DEF kept
<1> DEFINE Good(t, m) == /\ t \in Seq(S) /\ Len(t) <= m
                         /\ \A i \in DOMAIN t :
                              /\ t[i].client # client
                              /\ \E j \in DOMAIN list : i <= j /\ t[i] = list[j]
           T == {m \in 0 .. Len(list) : ~ Good(kept[m], m)}
<1>3. T = {}
  <2> SUFFICES ASSUME T # {} PROVE FALSE
    OBVIOUS
  <2>1. T \subseteq Nat /\ Len(list) \in Nat
    BY DEF T
  <2>2. PICK m \in T : \A y \in T : m <= y
    <3> HIDE DEF T
    <3> QED BY LeastElement, <2>1
  <2>3. m \in Nat /\ m <= Len(list)
    BY <2>1
  <2>4. kept[m] = WithoutStep(list, client, kept, m)
    BY <1>2, <2>3
  <2>5. CASE m = 0
    <3>1. kept[m] = <<>>
      BY <2>4, <2>5 DEF WithoutStep
    <3>2. Good(<<>>, m)
      BY <2>3
    <3>3. ~ Good(kept[m], m)
      BY DEF T
    <3> QED BY <3>1, <3>2, <3>3, Zenon
  <2>6. CASE m # 0
    <3>1. m - 1 \notin T /\ m - 1 \in 0 .. Len(list) /\ m \in DOMAIN list
      <4>1. m - 1 \notin T
        <5> HIDE DEF T
        <5> QED BY <2>1, <2>2, <2>3
      <4> QED BY <4>1, <2>3, <2>6
    <3>2. Good(kept[m - 1], m - 1)
      BY <3>1
    <3>3. CASE list[m].client = client
      <4>1. kept[m] = kept[m - 1]
        BY <3>3, <2>4, <2>6 DEF WithoutStep
      <4>2. Len(kept[m - 1]) <= m
        BY <2>3, <3>2
      <4>3. Good(kept[m], m)
        BY <3>2, <4>1, <4>2
      <4> QED BY <4>3
    <3>4. CASE list[m].client # client
      <4>1. kept[m] = Append(kept[m - 1], list[m])
        BY <3>4, <2>4, <2>6 DEF WithoutStep
      <4>2. list[m] \in S
        BY <3>1
      <4>3. Good(kept[m], m)
        <5> DEFINE t == kept[m - 1]
        <5> HIDE DEF t
        <5>1. Append(t, list[m]) \in Seq(S) /\ Len(t) + 1 <= m
              /\ Len(Append(t, list[m])) = Len(t) + 1
          BY <2>3, <3>2, <4>2 DEF t
        <5>2. ASSUME NEW i \in DOMAIN Append(t, list[m])
              PROVE  /\ Append(t, list[m])[i].client # client
                     /\ \E j \in DOMAIN list : i <= j /\ Append(t, list[m])[i] = list[j]
          <6>1. CASE i = Len(t) + 1
            BY <6>1, <5>1, <3>1, <3>2, <3>4 DEF t
          <6>2. CASE i # Len(t) + 1
            <7>1. i \in DOMAIN t /\ Append(t, list[m])[i] = t[i]
              BY <6>2, <3>2 DEF t
            <7> QED BY <7>1, <3>2 DEF t
          <6> QED BY <6>1, <6>2
        <5> QED BY <5>1, <5>2, <4>1 DEF t
      <4> QED BY <4>3
    <3> QED BY <3>3, <3>4
  <2> QED BY <2>5, <2>6
<1> QED BY <1>1, <1>3

-----------------------------------------------------------------------------
\* Lemmas about the lists a handler works on.

\* TakerOf is 0 exactly when no offer matches, else it is a matching offer.
LEMMA TakerLemma ==
  ASSUME NEW list \in Seq(Offer), NEW subject
  PROVE  /\ TakerOf(list, subject) \in Nat
         /\ TakerOf(list, subject) # 0 =>
              /\ TakerOf(list, subject) \in 1 .. Len(list)
              /\ subject \in list[TakerOf(list, subject)].pattern
         /\ TakerOf(list, subject) = 0 <=>
              \A i \in 1 .. Len(list) : subject \notin list[i].pattern
<1> DEFINE takers == {i \in DOMAIN list : subject \in list[i].pattern}
<1>1. DOMAIN list = 1 .. Len(list)
  OBVIOUS
<1>2. takers \subseteq Nat /\ 0 \notin takers
  BY <1>1
<1>3. CASE takers = {}
  BY <1>1, <1>3 DEF TakerOf
<1>4. CASE takers # {}
  <2>1. TakerOf(list, subject) = CHOOSE i \in takers : \A j \in takers : i <= j
    BY <1>4 DEF TakerOf
  <2>2. \E i \in takers : \A j \in takers : i <= j
    <3> HIDE DEF takers
    <3> QED BY LeastElement, <1>2, <1>4
  <2>3. TakerOf(list, subject) \in takers
    <3> HIDE DEF takers
    <3> QED BY <2>1, <2>2, Zenon
  <2> QED BY <2>3, <1>1, <1>2, <1>4
<1> QED BY <1>3, <1>4

\* RemoveAt keeps the elements before the place and shifts those behind it.
LEMMA RemoveAtLemma ==
  ASSUME NEW S, NEW list \in Seq(S), NEW k \in 1 .. Len(list)
  PROVE  /\ RemoveAt(list, k) \in Seq(S)
         /\ Len(RemoveAt(list, k)) = Len(list) - 1
         /\ \A i \in 1 .. Len(list) - 1 :
              RemoveAt(list, k)[i] = IF i < k THEN list[i] ELSE list[i + 1]
BY RemovedFacts DEF RemoveAt, Removed

\* A served list is a list of offers of the same clients and patterns.
LEMMA MovedToEndLemma ==
  ASSUME NEW list \in Seq(Offer), NEW k \in 1 .. Len(list), NEW subject
  PROVE  /\ MovedToEnd(list, k, subject) \in Seq(Offer)
         /\ \A i \in DOMAIN MovedToEnd(list, k, subject) : \E j \in DOMAIN list :
              /\ MovedToEnd(list, k, subject)[i].client = list[j].client
              /\ MovedToEnd(list, k, subject)[i].pattern = list[j].pattern
<1> DEFINE served == Served(list, k, subject)
           rest == RemoveAt(served, k)
<1>1. DOMAIN list = 1 .. Len(list) /\ Len(list) \in Nat
  OBVIOUS
<1>2. ASSUME NEW i \in 1 .. Len(list)
      PROVE  /\ served[i] \in Offer
             /\ served[i].client = list[i].client
             /\ served[i].pattern = list[i].pattern
  <2>1. list[i] \in Offer
    OBVIOUS
  <2>2. \E n \in Int : served[i] = [list[i] EXCEPT !.patience = n] \/ served[i] = list[i]
    <3>1. Len(list) - 1 \in Int /\ list[i].patience - 1 \in Int
      BY <1>1, <2>1 DEF Offer
    <3>2. CASE i = k
      BY <3>1, <3>2, <1>1 DEF Served
    <3>3. CASE i # k /\ subject \in list[i].pattern
      BY <3>1, <3>3, <1>1 DEF Served
    <3>4. CASE i # k /\ subject \notin list[i].pattern
      BY <3>1, <3>4, <1>1 DEF Served
    <3> QED BY <3>2, <3>3, <3>4
  <2> HIDE DEF served
  <2> QED BY <2>1, <2>2 DEF Offer
<1>3. served \in Seq(Offer) /\ Len(served) = Len(list)
  <2>1. served = [i \in 1 .. Len(list) |-> served[i]]
    BY <1>1 DEF Served
  <2> HIDE DEF served
  <2>2. served \in [1 .. Len(list) -> Offer]
    BY <2>1, <1>2
  <2> QED BY <2>2, <1>1
<1>4. /\ rest \in Seq(Offer)
      /\ Len(rest) = Len(list) - 1
      /\ \A i \in 1 .. Len(list) - 1 :
           rest[i] = IF i < k THEN served[i] ELSE served[i + 1]
  <2> HIDE DEF served
  <2> QED BY RemoveAtLemma, <1>3
<1>5. MovedToEnd(list, k, subject) = Append(rest, served[k])
  BY DEF MovedToEnd
<1> HIDE DEF rest, served
<1>6. Append(rest, served[k]) \in Seq(Offer)
  BY <1>2, <1>4
<1>7. ASSUME NEW i \in DOMAIN Append(rest, served[k])
      PROVE  \E j \in 1 .. Len(list) : Append(rest, served[k])[i] = served[j]
  <2>1. i \in 1 .. Len(list)
    BY <1>1, <1>4
  <2>2. CASE i = Len(list)
    BY <2>2, <1>1, <1>4
  <2>3. CASE i < k /\ i # Len(list)
    BY <2>3, <2>1, <1>1, <1>4
  <2>4. CASE ~ (i < k) /\ i # Len(list)
    <3>1. Append(rest, served[k])[i] = served[i + 1] /\ i + 1 \in 1 .. Len(list)
      BY <2>4, <2>1, <1>1, <1>4
    <3> QED BY <3>1
  <2> QED BY <2>2, <2>3, <2>4
<1>8. ASSUME NEW i \in DOMAIN Append(rest, served[k])
      PROVE  \E j \in DOMAIN list :
               /\ Append(rest, served[k])[i].client = list[j].client
               /\ Append(rest, served[k])[i].pattern = list[j].pattern
  <2>1. PICK j \in 1 .. Len(list) : Append(rest, served[k])[i] = served[j]
    BY <1>7
  <2> QED BY <1>1, <1>2, <2>1
<1> QED BY <1>5, <1>6, <1>8

-----------------------------------------------------------------------------
\* Deliver appends well-formed deliveries.
LEMMA DeliverLemma ==
  ASSUME NEW p \in Peer, NEW msgs \in Seq(Mail \cup Request),
         delivered \in Seq(Delivery), Deliver(p, msgs)
  PROVE  delivered' \in Seq(Delivery)
<1> DEFINE new == [i \in DOMAIN msgs |-> [to |-> p, msg |-> msgs[i]]]
<1>1. \A i \in 1 .. Len(msgs) : new[i] \in Delivery
  BY DEF Delivery
<1>2. new = [i \in 1 .. Len(msgs) |-> new[i]]
  OBVIOUS
<1>3. delivered' = delivered \o new
  BY DEF Deliver
<1> HIDE DEF new
<1>4. new \in Seq(Delivery)
  BY <1>1, <1>2
<1> QED BY <1>3, <1>4

\* check_for_mailbox_messages keeps the types of what it changes.
LEMMA CheckMailboxType ==
  ASSUME TypeOK, NEW p \in Peer, NEW a \in Address, NEW msgs \in Seq(Mail),
         CheckForMailboxMessages(p, a, msgs)
  PROVE  delivered' \in Seq(Delivery) /\ mailbox' \in [Address -> Seq(Mail)]
<1>1. mailbox[a] \in Seq(Mail)
  BY DEF TypeOK
<1>2. msgs \o mailbox[a] \in Seq(Mail)
  BY <1>1
<1>3. msgs \o mailbox[a] \in Seq(Mail \cup Request)
  <2> DEFINE all == msgs \o mailbox[a]
  <2> SUFFICES all \in Seq(Mail \cup Request)
    OBVIOUS
  <2>1. all \in Seq(Mail)
    BY <1>2
  <2> HIDE DEF all
  <2> QED BY <2>1
<1>4. delivered' \in Seq(Delivery)
  BY <1>3, DeliverLemma DEF CheckForMailboxMessages, TypeOK
<1>5. mailbox' \in [Address -> Seq(Mail)]
  BY DEF CheckForMailboxMessages, TypeOK
<1> QED BY <1>4, <1>5

LEMMA EnqueueType ==
  ASSUME NEW S, NEW list \in Seq(S), NEW msg \in S, NEW limit, msg.id \in Nat
  PROVE  Enqueue(list, msg, limit) \in Seq(S) /\ Dropped(list, msg, limit) \subseteq Nat
BY DEF Enqueue, Dropped

LEMMA UnregisteredType ==
  ASSUME TypeOK, NEW p \in Peer \cup {NoPeer}
  PROVE  Unregistered(p) \in [Address -> Peer \cup {NoPeer}]
BY DEF TypeOK, Unregistered

LEMMA DeregisterType ==
  ASSUME TypeOK, NEW p \in Peer, DeregisterTheClient(p)
  PROVE  /\ clients' \in [Address -> Peer \cup {NoPeer}]
         /\ offers' \in [Service -> Seq(Offer)]
         /\ state' \in [Peer -> {"none", "start", "connected"}]
         /\ address' \in [Peer -> Address \cup {NoAddress}]
<1>1. clients' \in [Address -> Peer \cup {NoPeer}]
  BY UnregisteredType DEF DeregisterTheClient
<1>2. \A s \in Service : Without(offers[s], p) \in Seq(Offer)
  BY WithoutLemma DEF TypeOK
<1>3. offers' \in [Service -> Seq(Offer)]
  BY <1>2 DEF DeregisterTheClient, TypeOK
<1> QED BY <1>1, <1>3 DEF DeregisterTheClient, TypeOK

\* A request handed to the offer that takes it keeps the types.
LEMMA HandOverType ==
  ASSUME TypeOK, NEW s \in Service, NEW msg \in Request,
         TakerOf(offers[s], msg.subject) # 0
  PROVE  LET k == TakerOf(offers[s], msg.subject)
         IN /\ k \in 1 .. Len(offers[s])
            /\ offers[s][k].client \in Peer
            /\ MovedToEnd(offers[s], k, msg.subject) \in Seq(Offer)
            /\ Deliver(offers[s][k].client, <<msg>>) => delivered' \in Seq(Delivery)
<1> DEFINE k == TakerOf(offers[s], msg.subject)
<1>1. offers[s] \in Seq(Offer)
  BY DEF TypeOK
<1>2. k \in 1 .. Len(offers[s])
  BY <1>1, TakerLemma
<1> HIDE DEF k
<1>3. offers[s][k] \in Offer
  BY <1>1, <1>2
<1>4. offers[s][k].client \in Peer
  BY <1>3 DEF Offer
<1>5. MovedToEnd(offers[s], k, msg.subject) \in Seq(Offer)
  BY <1>1, <1>2, MovedToEndLemma
<1>6. <<msg>> \in Seq(Mail \cup Request)
  OBVIOUS
<1>7. Deliver(offers[s][k].client, <<msg>>) => delivered' \in Seq(Delivery)
  BY <1>4, <1>6, DeliverLemma DEF TypeOK
<1> QED BY <1>2, <1>4, <1>5, <1>7 DEF k

-----------------------------------------------------------------------------
\* Type correctness

LEMMA TypeInit == Init => TypeOK
BY DEF Init, TypeOK

LEMMA TypeStep == TypeOK /\ [Next]_vars => TypeOK'
<1> SUFFICES ASSUME TypeOK, [Next]_vars PROVE TypeOK'
  OBVIOUS
<1> USE NamesAssumption, PatternAssumption
<1>1. ASSUME NEW p \in Peer, NEW a \in Address, ConnectionOpen(p, a) PROVE TypeOK'
  <2> DEFINE existing == IF a \in Named THEN clients[a] ELSE NoPeer
  <2>1. existing \in Peer \cup {NoPeer}
    BY DEF TypeOK
  <2>2. Unregistered(existing) \in [Address -> Peer \cup {NoPeer}]
    <3> HIDE DEF existing
    <3> QED BY <2>1, UnregisteredType
  <2>3. clients' \in [Address -> Peer \cup {NoPeer}]
    BY <1>1, <2>2 DEF ConnectionOpen, TypeOK
  <2>4. \A s \in Service : Without(offers[s], existing) \in Seq(Offer)
    BY WithoutLemma DEF TypeOK
  <2>5. offers' \in [Service -> Seq(Offer)]
    BY <1>1, <2>4 DEF ConnectionOpen
  <2>6. delivered' \in Seq(Delivery) /\ mailbox' \in [Address -> Seq(Mail)]
    <3>1. <<>> \in Seq(Mail)
      OBVIOUS
    <3> QED BY <1>1, <3>1, CheckMailboxType DEF ConnectionOpen, TypeOK
  <2>7. /\ state' \in [Peer -> {"none", "start", "connected"}]
        /\ address' \in [Peer -> Address \cup {NoAddress}]
    BY <1>1 DEF ConnectionOpen, TypeOK
  <2> QED BY <1>1, <2>3, <2>5, <2>6, <2>7 DEF ConnectionOpen, TypeOK, loop
<1>2. ASSUME NEW p \in Peer, CommandInStart(p) PROVE TypeOK'
  BY <1>2 DEF CommandInStart, TypeOK, services, loop, history
<1>3. ASSUME NEW p \in Peer, CloseInStart(p) PROVE TypeOK'
  BY <1>3 DEF CloseInStart, TypeOK, services, loop, history
<1>4. ASSUME NEW p \in Peer, ConnectionClose(p) PROVE TypeOK'
  BY <1>4, DeregisterType DEF ConnectionClose, TypeOK, loop, history
<1>5. ASSUME NEW p \in Peer, CommandRefused(p) PROVE TypeOK'
  BY <1>5, DeregisterType DEF CommandRefused, TypeOK, loop, history
<1>6. ASSUME NEW p \in Peer, Expired(p) PROVE TypeOK'
  BY <1>6, DeregisterType DEF Expired, TypeOK, loop, history
<1>7. ASSUME NEW p \in Peer, NEW a \in Address, MailboxSend(p, a) PROVE TypeOK'
  <2> DEFINE msg == [id |-> sent + 1, to |-> a]
  <2>1. msg \in Mail /\ msg.id \in Nat /\ <<msg>> \in Seq(Mail)
    BY DEF TypeOK, Mail
  <2>4. /\ UNCHANGED <<broker, state, address, clients, offers, queue, dispatching, cursor>>
        /\ sent' = sent + 1
    BY <1>7 DEF MailboxSend, registry, services, loop
  <2>2. CASE clients[a] # NoPeer
    <3>1. clients[a] \in Peer /\ CheckForMailboxMessages(clients[a], a, <<msg>>)
      BY <1>7, <2>2 DEF MailboxSend, TypeOK
    <3>2. delivered' \in Seq(Delivery) /\ mailbox' \in [Address -> Seq(Mail)]
      <4> HIDE DEF msg
      <4> QED BY <2>1, <3>1, CheckMailboxType
    <3>3. discarded' = discarded
      BY <1>7, <2>2 DEF MailboxSend
    <3> QED BY <2>4, <3>2, <3>3 DEF TypeOK
  <2>3. CASE clients[a] = NoPeer
    <3> HIDE DEF msg
    <3>1. /\ mailbox' = [mailbox EXCEPT ![a] = Enqueue(mailbox[a], msg, MailboxLimit)]
          /\ discarded' = discarded \cup Dropped(mailbox[a], msg, MailboxLimit)
          /\ delivered' = delivered
      BY <1>7, <2>3 DEF MailboxSend, msg
    <3>2. /\ Enqueue(mailbox[a], msg, MailboxLimit) \in Seq(Mail)
          /\ Dropped(mailbox[a], msg, MailboxLimit) \subseteq Nat
      <4>1. mailbox[a] \in Seq(Mail)
        BY DEF TypeOK
      <4> QED BY <2>1, <4>1, EnqueueType
    <3>3. mailbox' \in [Address -> Seq(Mail)]
      BY <3>1, <3>2 DEF TypeOK
    <3>4. discarded' \subseteq Nat
      BY <3>1, <3>2 DEF TypeOK
    <3>5. delivered' = delivered
      BY <3>1
    <3> QED BY <2>4, <3>3, <3>4, <3>5 DEF TypeOK
  <2> QED BY <2>2, <2>3
<1>8. ASSUME NEW p \in Peer, NEW s \in Service, NEW subject \in Subject,
             ServiceSend(p, s, subject)
      PROVE  TypeOK'
  <2> DEFINE msg == [id |-> sent + 1, to |-> s, subject |-> subject]
             k == TakerOf(offers[s], subject)
  <2>1. msg \in Request /\ msg.id \in Nat /\ msg.subject = subject
    BY DEF TypeOK, Request
  <2>4. /\ UNCHANGED <<broker, state, address, clients, mailbox, dispatching, cursor>>
        /\ sent' = sent + 1
    BY <1>8 DEF ServiceSend, registry, loop
  <2>2. CASE k # 0
    <3>1. /\ Deliver(offers[s][k].client, <<msg>>)
          /\ offers' = [offers EXCEPT ![s] = MovedToEnd(offers[s], k, subject)]
          /\ UNCHANGED <<queue, discarded>>
      BY <1>8, <2>2 DEF ServiceSend
    <3> HIDE DEF msg
    <3>2. MovedToEnd(offers[s], k, subject) \in Seq(Offer) /\ delivered' \in Seq(Delivery)
      BY <2>1, <2>2, <3>1, HandOverType
    <3> QED BY <2>4, <3>1, <3>2 DEF TypeOK
  <2>3. CASE k = 0
    <3> HIDE DEF msg
    <3>1. /\ queue' = [queue EXCEPT ![s] = Enqueue(queue[s], msg, QueueLimit)]
          /\ discarded' = discarded \cup Dropped(queue[s], msg, QueueLimit)
          /\ UNCHANGED <<offers, delivered>>
      BY <1>8, <2>3 DEF ServiceSend, msg
    <3>2. /\ Enqueue(queue[s], msg, QueueLimit) \in Seq(Request)
          /\ Dropped(queue[s], msg, QueueLimit) \subseteq Nat
      <4>1. queue[s] \in Seq(Request)
        BY DEF TypeOK
      <4> QED BY <2>1, <4>1, EnqueueType
    <3>3. queue' \in [Service -> Seq(Request)]
      BY <3>1, <3>2 DEF TypeOK
    <3>4. discarded' \subseteq Nat
      BY <3>1, <3>2 DEF TypeOK
    <3>5. offers' = offers /\ delivered' = delivered
      BY <3>1
    <3> QED BY <2>4, <3>3, <3>4, <3>5 DEF TypeOK
  <2> QED BY <2>2, <2>3
<1>9. ASSUME NEW p \in Peer, NEW s \in Service, NEW pattern \in Pattern,
             ServiceOffer(p, s, pattern)
      PROVE  TypeOK'
  <2>1. [client |-> p, pattern |-> pattern, patience |-> Len(offers[s])] \in Offer
    BY DEF TypeOK, Offer
  <2>2. offers' \in [Service -> Seq(Offer)]
    BY <1>9, <2>1 DEF ServiceOffer, TypeOK
  <2> QED BY <1>9, <2>2 DEF ServiceOffer, TypeOK, registry, history
<1>10. ASSUME DispatchRequest PROVE TypeOK'
  <2> DEFINE s == dispatching
             msg == queue[s][cursor]
             k == TakerOf(offers[s], msg.subject)
  <2>1. s \in Service /\ cursor \in Nat \ {0} /\ queue[s] \in Seq(Request)
    BY <1>10 DEF DispatchRequest, TypeOK
  <2>4. UNCHANGED <<broker, state, address, clients, mailbox, dispatching, sent, discarded>>
    BY <1>10 DEF DispatchRequest, registry
  <2>2. CASE k # 0
    <3>6. cursor' = cursor
      BY <1>10, <2>2 DEF DispatchRequest, NextCursor
    <3>1. cursor \in 1 .. Len(queue[s])
      BY <1>10, <2>1, <2>2 DEF DispatchRequest
    <3>2. /\ Deliver(offers[s][k].client, <<msg>>)
          /\ offers' = [offers EXCEPT ![s] = MovedToEnd(offers[s], k, msg.subject)]
          /\ queue' = [queue EXCEPT ![s] = RemoveAt(queue[s], cursor)]
      BY <1>10, <2>2 DEF DispatchRequest, DequeueCursor
    <3>3. msg \in Request
      BY <2>1, <3>1
    <3>4. RemoveAt(queue[s], cursor) \in Seq(Request)
      BY <2>1, <3>1, RemoveAtLemma
    <3> HIDE DEF msg
    <3>5. MovedToEnd(offers[s], k, msg.subject) \in Seq(Offer) /\ delivered' \in Seq(Delivery)
      BY <2>1, <2>2, <3>2, <3>3, HandOverType
    <3> QED BY <2>4, <3>2, <3>4, <3>5, <3>6 DEF TypeOK
  <2>3. CASE k = 0
    <3>1. cursor' = cursor + 1 /\ UNCHANGED <<offers, queue, delivered>>
      BY <1>10, <2>3 DEF DispatchRequest, NextCursor, services
    <3> QED BY <2>1, <2>4, <3>1 DEF TypeOK
  <2> QED BY <2>2, <2>3
<1>11. ASSUME DispatchDone PROVE TypeOK'
  BY <1>11 DEF DispatchDone, TypeOK, registry, services, history
<1>12. ASSUME Stop PROVE TypeOK'
  BY <1>12 DEF Stop, TypeOK, registry, services, loop, history
<1>13. ASSUME Restart PROVE TypeOK'
  <2>1. ASSUME NEW a \in Address PROVE Ids(mailbox[a]) \subseteq Nat
    <3>1. mailbox[a] \in Seq(Mail)
      BY DEF TypeOK
    <3>2. \A i \in DOMAIN mailbox[a] : mailbox[a][i] \in Mail
      BY <3>1
    <3> QED BY <3>2 DEF Ids, Mail
  <2>2. ASSUME NEW s \in Service PROVE Ids(queue[s]) \subseteq Nat
    <3>1. queue[s] \in Seq(Request)
      BY DEF TypeOK
    <3>2. \A i \in DOMAIN queue[s] : queue[s][i] \in Request
      BY <3>1
    <3> QED BY <3>2 DEF Ids, Request
  <2>3. discarded' \subseteq Nat
    <3>1. discarded' = discarded \cup (UNION {Ids(mailbox[a]) : a \in Address})
                                 \cup (UNION {Ids(queue[s]) : s \in Service})
      BY <1>13 DEF Restart
    <3>2. UNION {Ids(mailbox[a]) : a \in Address} \subseteq Nat
      BY <2>1
    <3>3. UNION {Ids(queue[s]) : s \in Service} \subseteq Nat
      BY <2>2
    <3> QED BY <3>1, <3>2, <3>3 DEF TypeOK
  <2> QED BY <1>13, <2>3 DEF Restart, TypeOK
<1>14. CASE UNCHANGED vars
  BY <1>14 DEF vars, registry, services, loop, history, TypeOK
<1> QED
  BY <1>1, <1>2, <1>3, <1>4, <1>5, <1>6, <1>7, <1>8, <1>9, <1>10, <1>11, <1>12,
     <1>13, <1>14 DEF Next, Protocol, Dispatch

\* Every behaviour of the broker is well typed.
THEOREM TypeCorrect == Spec => []TypeOK
<1>1. Init => TypeOK
  BY TypeInit
<1>2. TypeOK /\ [Next]_vars => TypeOK'
  BY TypeStep
<1> QED BY <1>1, <1>2, PTL DEF Spec

-----------------------------------------------------------------------------
\* The registry, the contexts, the offers, the mailboxes and the queues agree.

LEMMA InvInit == Init => Inv
<1> SUFFICES ASSUME Init PROVE Inv
  OBVIOUS
<1> USE NamesAssumption DEF Init
<1>1. TypeOK
  BY TypeInit
<1>2. RegistryExact /\ ConnectedHasAddress
  BY DEF RegistryExact, ConnectedHasAddress, Connected, Named
<1>3. OffersLive /\ MailboxDrained /\ WaitingUnmatched
  BY DEF OffersLive, MailboxDrained, WaitingUnmatched, Named
<1> QED BY <1>1, <1>2, <1>3 DEF Inv

\* What deregister_the_client does to the registry, the contexts and the
\* offers, given that they agreed.
LEMMA DeregisterInv ==
  ASSUME Inv, NEW p \in Peer, DeregisterTheClient(p)
  PROVE  /\ RegistryExact' /\ ConnectedHasAddress' /\ OffersLive'
         /\ \A a \in Named : clients'[a] # NoPeer => clients[a] # NoPeer
         /\ \A s \in Service : \A i \in DOMAIN offers'[s] : \E j \in DOMAIN offers[s] :
              offers'[s][i] = offers[s][j]
<1> USE NamesAssumption
<1>1. TypeOK /\ RegistryExact /\ ConnectedHasAddress /\ OffersLive
  BY DEF Inv
<1>2. ASSUME NEW q \in Peer
      PROVE  /\ state'[q] = IF q = p THEN "none" ELSE state[q]
             /\ address'[q] = IF q = p THEN NoAddress ELSE address[q]
  BY <1>1 DEF DeregisterTheClient, TypeOK
<1>3. ConnectedHasAddress'
  BY <1>1, <1>2 DEF ConnectedHasAddress, Connected
<1>4. ASSUME NEW a \in Named
      PROVE  clients'[a] = IF address[p] = a THEN NoPeer ELSE clients[a]
  BY <1>1 DEF DeregisterTheClient, Unregistered, TypeOK, Named
<1>5. ASSUME NEW a \in Named, NEW q \in Peer
      PROVE  clients'[a] = q <=> state'[q] = "connected" /\ address'[q] = a
  <2>1. /\ a \in Address /\ a # NoAddress
        /\ clients[a] = q <=> state[q] = "connected" /\ address[q] = a
        /\ clients[a] = p <=> state[p] = "connected" /\ address[p] = a
        /\ state[p] = "connected" <=> address[p] # NoAddress
    BY <1>1 DEF RegistryExact, ConnectedHasAddress, Connected, Named
  <2> QED BY <1>2, <1>4, <2>1
<1>6. ASSUME NEW s \in Service, NEW i \in DOMAIN offers'[s]
      PROVE  /\ \E j \in DOMAIN offers[s] : offers'[s][i] = offers[s][j]
             /\ state'[offers'[s][i].client] = "connected"
  <2>1. offers[s] \in Seq(Offer)
    BY <1>1 DEF TypeOK
  <2>2. CASE address[p] = NoAddress
    <3>1. offers' = offers
      BY <2>2 DEF DeregisterTheClient
    <3>2. ~ Connected(p)
      BY <1>1, <2>2 DEF ConnectedHasAddress
    <3>3. Connected(offers[s][i].client) /\ offers[s][i] \in Offer
      BY <1>1, <2>1, <3>1 DEF OffersLive
    <3> QED BY <1>2, <3>1, <3>2, <3>3 DEF Connected, Offer
  <2>3. CASE address[p] # NoAddress
    <3>1. offers'[s] = Without(offers[s], p)
      BY <2>3 DEF DeregisterTheClient
    <3>2. /\ offers'[s][i].client # p
          /\ \E j \in DOMAIN offers[s] : offers'[s][i] = offers[s][j]
      BY <2>1, <3>1, WithoutLemma
    <3>3. offers'[s][i] \in Offer /\ Connected(offers'[s][i].client)
      BY <1>1, <2>1, <3>2 DEF OffersLive
    <3> QED BY <1>2, <3>2, <3>3 DEF Connected, Offer
  <2> QED BY <2>2, <2>3
<1>7. RegistryExact'
  BY <1>5 DEF RegistryExact, Connected
<1>8. OffersLive'
  BY <1>6 DEF OffersLive, Connected
<1>9. ASSUME NEW a \in Named, clients'[a] # NoPeer PROVE clients[a] # NoPeer
  BY <1>4, <1>9
<1> QED BY <1>3, <1>6, <1>7, <1>8, <1>9

\* Requests no offer matched match none of fewer or reordered offers either.
LEMMA FewerOffers ==
  ASSUME NEW old \in Seq(Offer), NEW new \in Seq(Offer), NEW subject,
         \A i \in DOMAIN new : \E j \in DOMAIN old : new[i].pattern = old[j].pattern,
         TakerOf(old, subject) = 0
  PROVE  TakerOf(new, subject) = 0
<1>1. \A i \in 1 .. Len(old) : subject \notin old[i].pattern
  BY TakerLemma
<1>2. \A i \in 1 .. Len(new) : subject \notin new[i].pattern
  BY <1>1
<1> QED BY <1>2, TakerLemma

\* A client leaves: its address, its offers and its context go together.
LEMMA DropInv ==
  ASSUME Inv, TypeOK', NEW p \in Peer, DeregisterTheClient(p),
         UNCHANGED <<mailbox, queue, dispatching, cursor>>
  PROVE  Inv'
<1>1. TypeOK /\ MailboxDrained /\ WaitingUnmatched
  BY DEF Inv
<1>2. RegistryExact' /\ ConnectedHasAddress' /\ OffersLive'
  BY DeregisterInv
<1>3. MailboxDrained'
  BY <1>1, DeregisterInv DEF MailboxDrained
<1>4. ASSUME NEW s \in Service, NEW i \in 1 .. Len(queue[s]), s # dispatching \/ i < cursor
      PROVE  TakerOf(offers'[s], queue[s][i].subject) = 0
  <2>1. TakerOf(offers[s], queue[s][i].subject) = 0
    BY <1>1, <1>4 DEF WaitingUnmatched
  <2>2. offers[s] \in Seq(Offer) /\ offers'[s] \in Seq(Offer)
    BY <1>1 DEF TypeOK
  <2>3. \A j \in DOMAIN offers'[s] : \E k \in DOMAIN offers[s] :
          offers'[s][j].pattern = offers[s][k].pattern
    BY DeregisterInv
  <2> QED BY <2>1, <2>2, <2>3, FewerOffers
<1>5. WaitingUnmatched'
  BY <1>4 DEF WaitingUnmatched
<1> QED BY <1>2, <1>3, <1>5 DEF Inv

\* A step that only answers an unopened context changes nothing Inv speaks of.
LEMMA StartInv ==
  ASSUME Inv, TypeOK', NEW p \in Peer, InStart(p),
         state' = [state EXCEPT ![p] = "start"],
         UNCHANGED <<address, clients, mailbox, offers, queue, dispatching, cursor>>
  PROVE  Inv'
<1>1. /\ TypeOK /\ RegistryExact /\ ConnectedHasAddress /\ OffersLive
      /\ MailboxDrained /\ WaitingUnmatched
  BY DEF Inv
<1>2. ASSUME NEW q \in Peer PROVE state'[q] = "connected" <=> state[q] = "connected"
  BY <1>1 DEF TypeOK, InStart
<1>3. RegistryExact' /\ ConnectedHasAddress'
  BY <1>1, <1>2 DEF RegistryExact, ConnectedHasAddress, Connected
<1>4. OffersLive'
  <2> SUFFICES ASSUME NEW s \in Service, NEW i \in DOMAIN offers[s]
               PROVE  state'[offers[s][i].client] = "connected"
    BY DEF OffersLive, Connected
  <2>1. offers[s][i] \in Offer
    BY <1>1 DEF TypeOK
  <2>2. offers[s][i].client \in Peer /\ state[offers[s][i].client] = "connected"
    BY <1>1, <2>1 DEF OffersLive, Connected, Offer
  <2> QED BY <1>2, <2>2
<1>5. MailboxDrained' /\ WaitingUnmatched'
  BY <1>1 DEF MailboxDrained, WaitingUnmatched
<1> QED BY <1>3, <1>4, <1>5 DEF Inv

\* A request goes to offer k of s: the order of the offers changes, no more.
LEMMA HandOverInv ==
  ASSUME Inv, NEW s \in Service, NEW k \in 1 .. Len(offers[s]), NEW subject,
         offers' = [offers EXCEPT ![s] = MovedToEnd(offers[s], k, subject)],
         UNCHANGED <<state, address, clients, mailbox>>
  PROVE  /\ RegistryExact' /\ ConnectedHasAddress' /\ OffersLive' /\ MailboxDrained'
         /\ \A t \in Service : \A x : TakerOf(offers[t], x) = 0 => TakerOf(offers'[t], x) = 0
<1>1. /\ TypeOK /\ RegistryExact /\ ConnectedHasAddress /\ OffersLive
      /\ MailboxDrained
  BY DEF Inv
<1>2. RegistryExact' /\ ConnectedHasAddress' /\ MailboxDrained'
  BY <1>1 DEF RegistryExact, ConnectedHasAddress, MailboxDrained, Connected
<1>3. ASSUME NEW t \in Service
      PROVE  /\ offers[t] \in Seq(Offer) /\ offers'[t] \in Seq(Offer)
             /\ \A i \in DOMAIN offers'[t] : \E j \in DOMAIN offers[t] :
                  /\ offers'[t][i].client = offers[t][j].client
                  /\ offers'[t][i].pattern = offers[t][j].pattern
  <2>1. offers[t] \in Seq(Offer)
    BY <1>1 DEF TypeOK
  <2>2. CASE t = s
    <3>1. offers'[s] = MovedToEnd(offers[s], k, subject)
      BY <1>1 DEF TypeOK
    <3> DEFINE list == offers[s]
               moved == MovedToEnd(list, k, subject)
    <3>2. /\ offers'[t] = moved /\ offers[t] = list
          /\ list \in Seq(Offer) /\ k \in 1 .. Len(list)
      BY <2>1, <2>2, <3>1
    <3> HIDE DEF list
    <3>3. /\ moved \in Seq(Offer)
          /\ \A i \in DOMAIN moved : \E j \in DOMAIN list :
               moved[i].client = list[j].client /\ moved[i].pattern = list[j].pattern
      BY <3>2, MovedToEndLemma
    <3> HIDE DEF moved
    <3> QED BY ONLY <3>2, <3>3
  <2>3. CASE t # s
    <3>1. offers'[t] = offers[t]
      BY <1>1, <2>3 DEF TypeOK
    <3> QED BY <2>1, <3>1
  <2> QED BY <2>2, <2>3
<1>4. OffersLive'
  <2> SUFFICES ASSUME NEW t \in Service, NEW i \in DOMAIN offers'[t]
               PROVE  state[offers'[t][i].client] = "connected"
    BY DEF OffersLive, Connected
  <2> QED BY <1>1, <1>3 DEF OffersLive, Connected
<1>5. ASSUME NEW t \in Service, NEW x, TakerOf(offers[t], x) = 0
      PROVE  TakerOf(offers'[t], x) = 0
  BY <1>3, <1>5, FewerOffers
<1> QED BY <1>2, <1>4, <1>5

\* A client registers: the old owner of the address is gone in the same step,
\* and the mailbox is empty when the handler returns.
LEMMA OpenInv ==
  ASSUME Inv, TypeOK', NEW p \in Peer, NEW a \in Address, ConnectionOpen(p, a)
  PROVE  Inv'
<1> USE NamesAssumption
<1> DEFINE existing == IF a \in Named THEN clients[a] ELSE NoPeer
<1>1. /\ TypeOK /\ RegistryExact /\ ConnectedHasAddress /\ OffersLive
      /\ MailboxDrained /\ WaitingUnmatched
  BY DEF Inv
<1>2. /\ existing \in Peer \cup {NoPeer}
      /\ existing # NoPeer => /\ existing # p /\ address[existing] = a /\ a \in Named
                              /\ state[existing] = "connected"
  BY <1>1 DEF ConnectionOpen, RegistryExact, Connected, InStart, TypeOK
<1>3. ASSUME NEW q \in Peer
      PROVE  /\ state'[q] = IF q = p THEN "connected"
                            ELSE IF q = existing THEN "none" ELSE state[q]
             /\ address'[q] = IF q = p THEN a
                              ELSE IF q = existing THEN NoAddress ELSE address[q]
  BY DEF ConnectionOpen
<1>4. ConnectedHasAddress'
  BY <1>1, <1>3 DEF ConnectedHasAddress, Connected
<1>5. ASSUME NEW b \in Named PROVE clients'[b] = IF b = a THEN p ELSE clients[b]
  <2>1. CASE a \in Named
    <3>1. clients' = [Unregistered(existing) EXCEPT ![a] = p]
      BY <2>1 DEF ConnectionOpen
    <3>2. /\ Unregistered(existing) \in [Address -> Peer \cup {NoPeer}]
          /\ b # a => Unregistered(existing)[b] = clients[b]
      BY <1>1, <1>2 DEF Unregistered, TypeOK, Named
    <3> HIDE DEF existing
    <3> QED BY <3>1, <3>2 DEF Named
  <2>2. CASE a \notin Named
    BY <2>2 DEF ConnectionOpen
  <2> QED BY <2>1, <2>2
<1>6. ASSUME NEW b \in Named, NEW q \in Peer
      PROVE  clients'[b] = q <=> state'[q] = "connected" /\ address'[q] = b
  <2>1. /\ b \in Address /\ b # NoAddress
        /\ clients[b] = q <=> state[q] = "connected" /\ address[q] = b
        /\ state[p] # "connected"
    BY <1>1 DEF RegistryExact, Connected, Named, ConnectionOpen, InStart
  <2>2. a \notin Named => existing = NoPeer /\ a # b
    OBVIOUS
  <2>3. a \in Named => existing = clients[a]
    OBVIOUS
  <2> HIDE DEF existing
  <2>4. CASE q = p
    BY <1>3, <1>5, <2>1, <2>4
  <2>5. CASE q # p /\ q = existing
    BY <1>2, <1>3, <1>5, <2>1, <2>5
  <2>6. CASE q # p /\ q # existing
    BY <1>3, <1>5, <2>1, <2>2, <2>3, <2>6
  <2> QED BY <2>4, <2>5, <2>6
<1>7. RegistryExact'
  BY <1>6 DEF RegistryExact, Connected
<1>8. ASSUME NEW s \in Service
      PROVE  /\ offers[s] \in Seq(Offer) /\ offers'[s] \in Seq(Offer)
             /\ \A i \in DOMAIN offers'[s] :
                  /\ offers'[s][i].client # existing
                  /\ \E j \in DOMAIN offers[s] : offers'[s][i] = offers[s][j]
  <2>1. offers[s] \in Seq(Offer) /\ offers'[s] \in Seq(Offer)
    BY <1>1 DEF TypeOK
  <2>2. offers'[s] = Without(offers[s], existing)
    BY DEF ConnectionOpen
  <2> HIDE DEF existing
  <2> QED BY <2>1, <2>2, WithoutLemma
<1>9. OffersLive'
  <2> SUFFICES ASSUME NEW s \in Service, NEW i \in DOMAIN offers'[s]
               PROVE  state'[offers'[s][i].client] = "connected"
    BY DEF OffersLive, Connected
  <2>1. offers'[s][i] \in Offer /\ offers'[s][i].client # existing
    BY <1>8
  <2>2. offers'[s][i].client \in Peer /\ state[offers'[s][i].client] = "connected"
    BY <1>1, <1>8, <2>1 DEF OffersLive, Connected, Offer
  <2> HIDE DEF existing
  <2> QED BY <1>3, <2>1, <2>2
<1>10. MailboxDrained'
  <2> SUFFICES ASSUME NEW b \in Named, clients'[b] # NoPeer PROVE mailbox'[b] = <<>>
    BY DEF MailboxDrained
  <2>1. CASE a \in Named
    <3>1. mailbox' = [mailbox EXCEPT ![a] = <<>>]
      BY <2>1 DEF ConnectionOpen, CheckForMailboxMessages
    <3> QED BY <1>1, <1>5, <3>1 DEF MailboxDrained, TypeOK, Named
  <2>2. CASE a \notin Named
    <3>1. mailbox' = mailbox
      BY <2>2 DEF ConnectionOpen
    <3> QED BY <1>1, <1>5, <2>2, <3>1 DEF MailboxDrained
  <2> QED BY <2>1, <2>2
<1>11. WaitingUnmatched'
  <2> SUFFICES ASSUME NEW s \in Service, NEW i \in 1 .. Len(queue'[s]),
                      s # dispatching' \/ i < cursor'
               PROVE  TakerOf(offers'[s], queue'[s][i].subject) = 0
    BY DEF WaitingUnmatched
  <2>1. UNCHANGED <<queue, dispatching, cursor>>
    BY DEF ConnectionOpen, loop
  <2>2. TakerOf(offers[s], queue[s][i].subject) = 0
    BY <1>1, <2>1 DEF WaitingUnmatched
  <2> HIDE DEF existing
  <2>3. \A j \in DOMAIN offers'[s] : \E k \in DOMAIN offers[s] :
          offers'[s][j].pattern = offers[s][k].pattern
    BY <1>8
  <2> QED BY <1>8, <2>1, <2>2, <2>3, FewerOffers
<1> QED BY <1>4, <1>7, <1>9, <1>10, <1>11 DEF Inv

LEMMA InvStep == Inv /\ [Next]_vars => Inv'
<1> SUFFICES ASSUME Inv, [Next]_vars PROVE Inv'
  OBVIOUS
<1> USE NamesAssumption
<1>a. /\ TypeOK /\ RegistryExact /\ ConnectedHasAddress /\ OffersLive
      /\ MailboxDrained /\ WaitingUnmatched
  BY DEF Inv
<1>b. TypeOK'
  BY <1>a, TypeStep
<1>1. ASSUME NEW p \in Peer, NEW a \in Address, ConnectionOpen(p, a) PROVE Inv'
  BY <1>1, <1>b, OpenInv
<1>2. ASSUME NEW p \in Peer, CommandInStart(p) \/ CloseInStart(p) PROVE Inv'
  <2>1. /\ InStart(p)
        /\ state' = [state EXCEPT ![p] = "start"]
        /\ UNCHANGED <<address, clients, mailbox, offers, queue, dispatching, cursor>>
    BY <1>2 DEF CommandInStart, CloseInStart, services, loop
  <2> QED BY <2>1, <1>b, StartInv
<1>3. ASSUME NEW p \in Peer, ConnectionClose(p) \/ CommandRefused(p) \/ Expired(p)
      PROVE  Inv'
  <2>1. DeregisterTheClient(p) /\ UNCHANGED <<mailbox, queue, dispatching, cursor>>
    BY <1>3 DEF ConnectionClose, CommandRefused, Expired, loop
  <2> QED BY <2>1, <1>b, DropInv
<1>4. ASSUME NEW p \in Peer, NEW a \in Address, MailboxSend(p, a) PROVE Inv'
  <2>1. UNCHANGED <<state, address, clients, offers, queue, dispatching, cursor>>
    BY <1>4 DEF MailboxSend, registry, services, loop
  <2>2. RegistryExact' /\ ConnectedHasAddress' /\ OffersLive' /\ WaitingUnmatched'
    BY <1>a, <2>1 DEF RegistryExact, ConnectedHasAddress, OffersLive,
                      WaitingUnmatched, Connected
  <2>3. ASSUME NEW b \in Named, clients[b] # NoPeer PROVE mailbox'[b] = <<>>
    <3>1. mailbox[b] = <<>>
      BY <1>a, <2>3 DEF MailboxDrained
    <3>2. CASE b = a
      <4>1. mailbox' = [mailbox EXCEPT ![a] = <<>>]
        BY <1>4, <2>3, <3>2 DEF MailboxSend, CheckForMailboxMessages
      <4> QED BY <1>a, <3>2, <4>1 DEF TypeOK
    <3>3. CASE b # a
      <4>1. mailbox'[b] = mailbox[b]
        BY <1>4, <1>a, <3>3 DEF MailboxSend, CheckForMailboxMessages, TypeOK, Named
      <4> QED BY <3>1, <4>1
    <3> QED BY <3>2, <3>3
  <2>4. MailboxDrained'
    BY <2>1, <2>3 DEF MailboxDrained
  <2> QED BY <1>b, <2>2, <2>4 DEF Inv
<1>5. ASSUME NEW p \in Peer, NEW s \in Service, NEW subject \in Subject,
             ServiceSend(p, s, subject)
      PROVE  Inv'
  <2> DEFINE k == TakerOf(offers[s], subject)
             msg == [id |-> sent + 1, to |-> s, subject |-> subject]
  <2>1. /\ UNCHANGED <<state, address, clients, mailbox, dispatching, cursor>>
        /\ dispatching = NoService
    BY <1>5 DEF ServiceSend, Idle, registry, loop
  <2>2. CASE k # 0
    <3>1. /\ offers' = [offers EXCEPT ![s] = MovedToEnd(offers[s], k, subject)]
          /\ queue' = queue
      BY <1>5, <2>2 DEF ServiceSend
    <3>2. k \in 1 .. Len(offers[s])
      BY <1>a, <2>2, TakerLemma DEF TypeOK
    <3> HIDE DEF k
    <3>3. /\ RegistryExact' /\ ConnectedHasAddress' /\ OffersLive' /\ MailboxDrained'
          /\ \A t \in Service : \A x : TakerOf(offers[t], x) = 0 => TakerOf(offers'[t], x) = 0
      BY <2>1, <3>1, <3>2, HandOverInv
    <3>4. WaitingUnmatched'
      BY <1>a, <2>1, <3>1, <3>3 DEF WaitingUnmatched
    <3> QED BY <1>b, <3>3, <3>4 DEF Inv
  <2>3. CASE k = 0
    <3>1. /\ offers' = offers
          /\ queue' = [queue EXCEPT ![s] = Enqueue(queue[s], msg, QueueLimit)]
      BY <1>5, <2>3 DEF ServiceSend
    <3>2. RegistryExact' /\ ConnectedHasAddress' /\ OffersLive' /\ MailboxDrained'
      BY <1>a, <2>1, <3>1 DEF RegistryExact, ConnectedHasAddress, OffersLive,
                              MailboxDrained, Connected
    <3>3. ASSUME NEW t \in Service, NEW i \in 1 .. Len(queue'[t])
          PROVE  TakerOf(offers[t], queue'[t][i].subject) = 0
      <4>1. queue[t] \in Seq(Request)
        BY <1>a DEF TypeOK
      <4>2. ASSUME NEW j \in 1 .. Len(queue[t])
            PROVE  TakerOf(offers[t], queue[t][j].subject) = 0
        BY <1>a, <2>1 DEF WaitingUnmatched
      <4>3. CASE t # s
        <5>1. queue'[t] = queue[t]
          BY <1>a, <3>1, <4>3 DEF TypeOK
        <5> QED BY <4>2, <5>1
      <4>4. CASE t = s
        <5>1. queue'[s] = Enqueue(queue[s], msg, QueueLimit)
          BY <1>a, <3>1 DEF TypeOK
        <5>2. CASE queue'[s] = queue[s]
          BY <4>2, <4>4, <5>2
        <5>3. CASE queue'[s] = Append(queue[s], msg)
          <6>1. CASE i = Len(queue[s]) + 1
            <7>1. queue'[s][i] = msg
              BY <4>1, <4>4, <5>3, <6>1
            <7> QED BY <2>3, <4>4, <7>1
          <6>2. CASE i # Len(queue[s]) + 1
            <7>1. i \in 1 .. Len(queue[s]) /\ queue'[s][i] = queue[s][i]
              BY <4>1, <4>4, <5>3, <6>2
            <7> QED BY <4>2, <4>4, <7>1
          <6> QED BY <6>1, <6>2
        <5> QED BY <5>1, <5>2, <5>3 DEF Enqueue
      <4> QED BY <4>3, <4>4
    <3>4. WaitingUnmatched'
      BY <3>1, <3>3 DEF WaitingUnmatched
    <3> QED BY <1>b, <3>2, <3>4 DEF Inv
  <2> QED BY <2>2, <2>3
<1>6. ASSUME NEW p \in Peer, NEW s \in Service, NEW pattern \in Pattern,
             ServiceOffer(p, s, pattern)
      PROVE  Inv'
  <2> DEFINE offer == [client |-> p, pattern |-> pattern, patience |-> Len(offers[s])]
  <2>1. /\ UNCHANGED <<state, address, clients, mailbox, queue>>
        /\ offers' = [offers EXCEPT ![s] = Append(offers[s], offer)]
        /\ dispatching = NoService /\ dispatching' = s /\ cursor' = 1
        /\ state[p] = "connected"
    BY <1>6 DEF ServiceOffer, Idle, Connected, registry
  <2>2. RegistryExact' /\ ConnectedHasAddress' /\ MailboxDrained'
    BY <1>a, <2>1 DEF RegistryExact, ConnectedHasAddress, MailboxDrained, Connected
  <2>3. OffersLive'
    <3> SUFFICES ASSUME NEW t \in Service, NEW i \in DOMAIN offers'[t]
                 PROVE  state[offers'[t][i].client] = "connected"
      BY <2>1 DEF OffersLive, Connected
    <3>1. offers[t] \in Seq(Offer)
      BY <1>a DEF TypeOK
    <3>2. CASE t # s
      <4>1. offers'[t] = offers[t]
        BY <1>a, <2>1, <3>2 DEF TypeOK
      <4> QED BY <1>a, <4>1 DEF OffersLive, Connected
    <3>3. CASE t = s
      <4>1. offers'[t] = Append(offers[t], offer) /\ offer.client = p
        BY <1>a, <2>1, <3>3 DEF TypeOK
      <4> HIDE DEF offer
      <4>2. CASE i = Len(offers[t]) + 1
        BY <2>1, <3>1, <4>1, <4>2
      <4>3. CASE i # Len(offers[t]) + 1
        <5>1. i \in DOMAIN offers[t] /\ offers'[t][i] = offers[t][i]
          BY <3>1, <4>1, <4>3
        <5> QED BY <1>a, <5>1 DEF OffersLive, Connected
      <4> QED BY <4>2, <4>3
    <3> QED BY <3>2, <3>3
  <2>4. WaitingUnmatched'
    <3> SUFFICES ASSUME NEW t \in Service, NEW i \in 1 .. Len(queue[t]), t # s \/ i < 1
                 PROVE  TakerOf(offers'[t], queue[t][i].subject) = 0
      BY <2>1 DEF WaitingUnmatched
    <3>1. t # s /\ offers'[t] = offers[t]
      BY <1>a, <2>1 DEF TypeOK
    <3> QED BY <1>a, <2>1, <3>1 DEF WaitingUnmatched
  <2> QED BY <1>b, <2>2, <2>3, <2>4 DEF Inv
<1>7. ASSUME DispatchRequest PROVE Inv'
  <2> DEFINE s == dispatching
             msg == queue[s][cursor]
             k == TakerOf(offers[s], msg.subject)
  <2>1. /\ UNCHANGED <<state, address, clients, mailbox, dispatching>>
        /\ s \in Service /\ queue[s] \in Seq(Request) /\ cursor \in 1 .. Len(queue[s])
    BY <1>7, <1>a DEF DispatchRequest, TypeOK, registry
  <2>2. CASE k # 0
    <3>1. /\ offers' = [offers EXCEPT ![s] = MovedToEnd(offers[s], k, msg.subject)]
          /\ queue' = [queue EXCEPT ![s] = RemoveAt(queue[s], cursor)]
          /\ cursor' = cursor
      BY <1>7, <2>2 DEF DispatchRequest, DequeueCursor, NextCursor
    <3>2. k \in 1 .. Len(offers[s])
      BY <1>a, <2>1, <2>2, TakerLemma DEF TypeOK
    <3> HIDE DEF k, msg
    <3>3. /\ RegistryExact' /\ ConnectedHasAddress' /\ OffersLive' /\ MailboxDrained'
          /\ \A t \in Service : \A x : TakerOf(offers[t], x) = 0 => TakerOf(offers'[t], x) = 0
      BY <2>1, <3>1, <3>2, HandOverInv
    <3>4. ASSUME NEW t \in Service, NEW i \in 1 .. Len(queue'[t]), t # s \/ i < cursor
          PROVE  TakerOf(offers[t], queue'[t][i].subject) = 0
      <4>1. CASE t # s
        <5>1. queue'[t] = queue[t]
          BY <1>a, <3>1, <4>1 DEF TypeOK
        <5> QED BY <1>a, <4>1, <5>1 DEF WaitingUnmatched
      <4>2. CASE t = s
        <5>1. queue'[s] = RemoveAt(queue[s], cursor)
          BY <1>a, <2>1, <3>1 DEF TypeOK
        <5>2. i \in 1 .. Len(queue[s]) /\ i < cursor /\ queue'[s][i] = queue[s][i]
          <6>1. /\ Len(queue'[s]) = Len(queue[s]) - 1
                /\ \A j \in 1 .. Len(queue[s]) - 1 :
                     queue'[s][j] = IF j < cursor THEN queue[s][j] ELSE queue[s][j + 1]
            <7> DEFINE old == queue[s]
            <7>1. old \in Seq(Request) /\ cursor \in 1 .. Len(old)
              BY <2>1
            <7>2. queue'[s] = RemoveAt(old, cursor)
              BY <5>1
            <7> HIDE DEF old
            <7>3. /\ Len(RemoveAt(old, cursor)) = Len(old) - 1
                  /\ \A j \in 1 .. Len(old) - 1 :
                       RemoveAt(old, cursor)[j] = IF j < cursor THEN old[j] ELSE old[j + 1]
              BY <7>1, RemoveAtLemma
            <7> QED BY <7>2, <7>3, Zenon DEF old
          <6>2. i < cursor /\ i \in 1 .. Len(queue'[s])
            BY <3>4, <4>2
          <6> HIDE DEF s
          <6>3. i \in 1 .. Len(queue[s]) - 1 /\ Len(queue[s]) \in Nat
            BY <2>1, <6>1, <6>2
          <6> QED BY <6>1, <6>2, <6>3
        <5> QED BY <1>a, <4>2, <5>2 DEF WaitingUnmatched
      <4> QED BY <4>1, <4>2
    <3>5. WaitingUnmatched'
      BY <2>1, <3>1, <3>3, <3>4 DEF WaitingUnmatched
    <3> QED BY <1>b, <3>3, <3>5 DEF Inv
  <2>3. CASE k = 0
    <3>1. UNCHANGED <<offers, queue>> /\ cursor' = cursor + 1
      BY <1>7, <2>3 DEF DispatchRequest, NextCursor, services
    <3>2. RegistryExact' /\ ConnectedHasAddress' /\ OffersLive' /\ MailboxDrained'
      BY <1>a, <2>1, <3>1 DEF RegistryExact, ConnectedHasAddress, OffersLive,
                              MailboxDrained, Connected
    <3>3. WaitingUnmatched'
      <4> SUFFICES ASSUME NEW t \in Service, NEW i \in 1 .. Len(queue[t]),
                          t # s \/ i < cursor + 1
                   PROVE  TakerOf(offers[t], queue[t][i].subject) = 0
        BY <2>1, <3>1 DEF WaitingUnmatched
      <4>1. CASE t = s /\ i = cursor
        BY <2>3, <4>1
      <4>2. CASE t # s \/ i < cursor
        BY <1>a, <4>2 DEF WaitingUnmatched
      <4> QED BY <2>1, <4>1, <4>2
    <3> QED BY <1>b, <3>2, <3>3 DEF Inv
  <2> QED BY <2>2, <2>3
<1>8. ASSUME DispatchDone PROVE Inv'
  <2>1. /\ UNCHANGED <<state, address, clients, mailbox, offers, queue>>
        /\ dispatching \in Service /\ cursor > Len(queue[dispatching])
        /\ cursor \in Nat /\ queue[dispatching] \in Seq(Request)
    BY <1>8, <1>a DEF DispatchDone, TypeOK, registry, services
  <2>2. RegistryExact' /\ ConnectedHasAddress' /\ OffersLive' /\ MailboxDrained'
    BY <1>a, <2>1 DEF RegistryExact, ConnectedHasAddress, OffersLive,
                      MailboxDrained, Connected
  <2>3. ASSUME NEW t \in Service, NEW i \in 1 .. Len(queue[t])
        PROVE  TakerOf(offers[t], queue[t][i].subject) = 0
    BY <1>a, <2>1 DEF WaitingUnmatched
  <2>4. WaitingUnmatched'
    BY <2>1, <2>3 DEF WaitingUnmatched
  <2> QED BY <1>b, <2>2, <2>4 DEF Inv
<1>9. ASSUME Stop \/ UNCHANGED vars PROVE Inv'
  <2>1. UNCHANGED <<state, address, clients, mailbox, offers, queue, dispatching, cursor>>
    BY <1>9 DEF Stop, vars, registry, services, loop
  <2> QED BY <1>a, <1>b, <2>1 DEF Inv, RegistryExact, ConnectedHasAddress, OffersLive,
                                  MailboxDrained, WaitingUnmatched, Connected
<1>10. ASSUME Restart PROVE Inv'
  BY <1>10, <1>b DEF Restart, Inv, RegistryExact, ConnectedHasAddress, OffersLive,
                     MailboxDrained, WaitingUnmatched, Connected, Named
<1> QED
  BY <1>1, <1>2, <1>3, <1>4, <1>5, <1>6, <1>7, <1>8, <1>9, <1>10
  DEF Next, Protocol, Dispatch

LEMMA InvCorrect == Spec => []Inv
BY InvInit, InvStep, PTL DEF Spec

\* An address is registered to a client exactly when that client is connected
\* under it: register_new_client, the expiry it sends to the old owner and
\* deregister_the_client keep registry and contexts in step.
THEOREM RegistryCorrect == Spec => []RegistryExact
<1>1. Inv => RegistryExact
  BY DEF Inv
<1> QED BY <1>1, InvCorrect, PTL

\* No service ever holds an offer of a client that is not connected.
THEOREM OffersCorrect == Spec => []OffersLive
<1>1. Inv => OffersLive
  BY DEF Inv
<1> QED BY <1>1, InvCorrect, PTL

\* No mail waits in the mailbox of an address that has an owner.
THEOREM MailboxCorrect == Spec => []MailboxDrained
<1>1. Inv => MailboxDrained
  BY DEF Inv
<1> QED BY <1>1, InvCorrect, PTL

\* Between two handlers no queued request matches a standing offer.
THEOREM NoIdleWorkerCorrect == Spec => []NoIdleWorker
<1>1. Inv => NoIdleWorker
  <2> SUFFICES ASSUME Inv, dispatching = NoService,
                      NEW s \in Service, NEW i \in DOMAIN queue[s]
               PROVE  TakerOf(offers[s], queue[s][i].subject) = 0
    BY DEF NoIdleWorker
  <2>1. queue[s] \in Seq(Request)
    BY DEF Inv, TypeOK
  <2> QED BY <2>1, NamesAssumption DEF Inv, WaitingUnmatched
<1> QED BY <1>1, InvCorrect, PTL

-----------------------------------------------------------------------------
(***************************************************************************)
(* Where the messages go and in which order.  This rests on the invariant  *)
(* Inv above.                                                              *)
(***************************************************************************)

\* What a step may do to the messages

NewMail(a) == [id |-> sent + 1, to |-> a]
NewRequest(s, x) == [id |-> sent + 1, to |-> s, subject |-> x]

NothingMoves == UNCHANGED <<delivered, mailbox, queue, discarded, sent>>

\* The mailbox of an address goes to a client.
MailsHandedOver(p, a) ==
  /\ Deliver(p, mailbox[a])
  /\ mailbox' = [mailbox EXCEPT ![a] = <<>>]
  /\ UNCHANGED <<queue, discarded, sent>>

\* A new mail goes to the owner of its address, past an empty mailbox.
MailDelivered(p, a) ==
  /\ mailbox[a] = <<>>
  /\ Deliver(p, <<NewMail(a)>>)
  /\ sent' = sent + 1
  /\ UNCHANGED <<mailbox, queue, discarded>>

MailStored(a) ==
  /\ mailbox' = [mailbox EXCEPT ![a] = Append(mailbox[a], NewMail(a))]
  /\ sent' = sent + 1
  /\ UNCHANGED <<delivered, queue, discarded>>

\* A new message finds the queue full.
MessageDropped ==
  /\ discarded' = discarded \cup {sent + 1}
  /\ sent' = sent + 1
  /\ UNCHANGED <<delivered, mailbox, queue>>

\* A new request goes to a worker: none like it is waiting.
RequestDelivered(p, s, x) ==
  /\ \A i \in 1 .. Len(queue[s]) : queue[s][i].subject # x
  /\ Deliver(p, <<NewRequest(s, x)>>)
  /\ sent' = sent + 1
  /\ UNCHANGED <<mailbox, queue, discarded>>

RequestQueued(s, x) ==
  /\ queue' = [queue EXCEPT ![s] = Append(queue[s], NewRequest(s, x))]
  /\ sent' = sent + 1
  /\ UNCHANGED <<delivered, mailbox, discarded>>

\* A request goes to a worker, before others that are not like it.
RequestDispatched(p, s, c) ==
  /\ \A i \in 1 .. c - 1 : queue[s][i].subject # queue[s][c].subject
  /\ Deliver(p, <<queue[s][c]>>)
  /\ queue' = [queue EXCEPT ![s] = RemoveAt(queue[s], c)]
  /\ UNCHANGED <<mailbox, discarded, sent>>

AllLost ==
  /\ mailbox' = [a \in Address |-> <<>>]
  /\ queue' = [s \in Service |-> <<>>]
  /\ discarded' = discarded
       \cup (UNION {Ids(mailbox[a]) : a \in Address})
       \cup (UNION {Ids(queue[s]) : s \in Service})
  /\ UNCHANGED <<sent, delivered>>

MessagesMove ==
  \/ NothingMoves
  \/ \E p \in Peer, a \in Address : MailsHandedOver(p, a) \/ MailDelivered(p, a)
  \/ \E a \in Address : MailStored(a)
  \/ MessageDropped
  \/ \E p \in Peer, s \in Service, x \in Subject : RequestDelivered(p, s, x)
  \/ \E s \in Service, x \in Subject : RequestQueued(s, x)
  \/ \E p \in Peer, s \in Service : \E c \in 1 .. Len(queue[s]) : RequestDispatched(p, s, c)
  \/ AllLost

\* Nobody owns the empty address.
AnonymousFree == clients[Anonymous] = NoPeer

LEMMA EmptyIsNeutral ==
  ASSUME NEW S, NEW list \in Seq(S)
  PROVE  <<>> \o list = list /\ list \o <<>> = list
OBVIOUS

LEMMA OpenMoves ==
  ASSUME Inv, NEW p \in Peer, NEW a \in Address, ConnectionOpen(p, a)
  PROVE  MessagesMove
<1>1. UNCHANGED <<queue, sent, discarded>>
  BY DEF ConnectionOpen
<1>2. CASE a \in Named
  <2>1. CheckForMailboxMessages(p, a, <<>>)
    BY <1>2 DEF ConnectionOpen
  <2>2. <<>> \o mailbox[a] = mailbox[a]
    BY EmptyIsNeutral DEF Inv, TypeOK
  <2>3. MailsHandedOver(p, a)
    BY <1>1, <2>1, <2>2 DEF CheckForMailboxMessages, MailsHandedOver
  <2> QED BY <2>3 DEF MessagesMove
<1>3. CASE a \notin Named
  BY <1>1, <1>3 DEF ConnectionOpen, MessagesMove, NothingMoves
<1> QED BY <1>2, <1>3

LEMMA MailboxSendMoves ==
  ASSUME Inv, AnonymousFree, NEW p \in Peer, NEW a \in Address, MailboxSend(p, a)
  PROVE  MessagesMove
<1>1. sent' = sent + 1 /\ queue' = queue
  BY DEF MailboxSend, services
<1>2. mailbox \in [Address -> Seq(Mail)]
  BY DEF Inv, TypeOK
<1>3. CASE clients[a] # NoPeer
  <2>1. clients[a] \in Peer /\ a \in Named
    BY <1>3 DEF Inv, TypeOK, AnonymousFree, Named
  <2>2. CheckForMailboxMessages(clients[a], a, <<NewMail(a)>>) /\ discarded' = discarded
    BY <1>3 DEF MailboxSend, NewMail
  <2>3. mailbox[a] = <<>>
    BY <1>3, <2>1 DEF Inv, MailboxDrained
  <2>4. mailbox' = mailbox
    BY <1>2, <2>2, <2>3 DEF CheckForMailboxMessages
  <2>5. <<NewMail(a)>> \o mailbox[a] = <<NewMail(a)>>
    <3> HIDE DEF NewMail
    <3>1. <<NewMail(a)>> \in Seq({NewMail(a)})
      OBVIOUS
    <3> QED BY ONLY <2>3, <3>1, EmptyIsNeutral
  <2>6. MailDelivered(clients[a], a)
    BY <1>1, <2>2, <2>3, <2>4, <2>5 DEF CheckForMailboxMessages, MailDelivered
  <2> QED BY <2>1, <2>6 DEF MessagesMove
<1>4. CASE clients[a] = NoPeer
  <2>1. /\ mailbox' = [mailbox EXCEPT ![a] = Enqueue(mailbox[a], NewMail(a), MailboxLimit)]
        /\ discarded' = discarded \cup Dropped(mailbox[a], NewMail(a), MailboxLimit)
        /\ delivered' = delivered
    BY <1>4 DEF MailboxSend, NewMail
  <2>2. CASE Len(mailbox[a]) < MailboxLimit
    <3>1. MailStored(a)
      BY <1>1, <2>1, <2>2 DEF Enqueue, Dropped, MailStored
    <3> QED BY <3>1 DEF MessagesMove
  <2>3. CASE ~ (Len(mailbox[a]) < MailboxLimit)
    <3>1. mailbox' = mailbox
      BY <1>2, <2>1, <2>3 DEF Enqueue
    <3>2. discarded' = discarded \cup {sent + 1}
      BY <2>1, <2>3 DEF Dropped, NewMail
    <3> QED BY <1>1, <2>1, <3>1, <3>2 DEF MessagesMove, MessageDropped
  <2> QED BY <2>2, <2>3
<1> QED BY <1>3, <1>4

LEMMA ServiceSendMoves ==
  ASSUME Inv, NEW p \in Peer, NEW s \in Service, NEW x \in Subject, ServiceSend(p, s, x)
  PROVE  MessagesMove
<1> DEFINE k == TakerOf(offers[s], x)
<1>1. sent' = sent + 1 /\ mailbox' = mailbox /\ dispatching = NoService
  BY DEF ServiceSend, Idle
<1>2. queue \in [Service -> Seq(Request)] /\ offers[s] \in Seq(Offer)
  BY DEF Inv, TypeOK
<1>3. CASE k # 0
  <2>1. /\ Deliver(offers[s][k].client, <<NewRequest(s, x)>>)
        /\ UNCHANGED <<queue, discarded>>
    BY <1>3 DEF ServiceSend, NewRequest
  <2>2. offers[s][k].client \in Peer
    <3>1. k \in 1 .. Len(offers[s])
      BY <1>2, <1>3, TakerLemma
    <3> HIDE DEF k
    <3>2. offers[s][k] \in Offer
      BY <1>2, <3>1
    <3> QED BY <3>2 DEF Offer
  <2>3. ASSUME NEW i \in 1 .. Len(queue[s]), queue[s][i].subject = x PROVE FALSE
    <3>1. TakerOf(offers[s], queue[s][i].subject) = 0
      BY <1>1, NamesAssumption DEF Inv, WaitingUnmatched
    <3> QED BY <1>3, <2>3, <3>1
  <2>4. RequestDelivered(offers[s][k].client, s, x)
    BY <1>1, <2>1, <2>3 DEF RequestDelivered
  <2> QED BY <2>2, <2>4 DEF MessagesMove
<1>4. CASE k = 0
  <2>1. /\ queue' = [queue EXCEPT ![s] = Enqueue(queue[s], NewRequest(s, x), QueueLimit)]
        /\ discarded' = discarded \cup Dropped(queue[s], NewRequest(s, x), QueueLimit)
        /\ delivered' = delivered
    BY <1>4 DEF ServiceSend, NewRequest
  <2>2. CASE Len(queue[s]) < QueueLimit
    <3>1. RequestQueued(s, x)
      BY <1>1, <2>1, <2>2 DEF Enqueue, Dropped, RequestQueued
    <3> QED BY <3>1 DEF MessagesMove
  <2>3. CASE ~ (Len(queue[s]) < QueueLimit)
    <3>1. queue' = queue
      BY <1>2, <2>1, <2>3 DEF Enqueue
    <3>2. discarded' = discarded \cup {sent + 1}
      BY <2>1, <2>3 DEF Dropped, NewRequest
    <3> QED BY <1>1, <2>1, <3>1, <3>2 DEF MessagesMove, MessageDropped
  <2> QED BY <2>2, <2>3
<1> QED BY <1>3, <1>4

LEMMA DispatchMoves ==
  ASSUME Inv, DispatchRequest
  PROVE  MessagesMove
<1> DEFINE s == dispatching
           msg == queue[s][cursor]
           k == TakerOf(offers[s], msg.subject)
<1>1. /\ s \in Service /\ cursor \in 1 .. Len(queue[s])
      /\ offers[s] \in Seq(Offer)
      /\ UNCHANGED <<mailbox, sent, discarded>>
  BY DEF DispatchRequest, Inv, TypeOK
<1>2. CASE k # 0
  <2>1. /\ Deliver(offers[s][k].client, <<msg>>)
        /\ queue' = [queue EXCEPT ![s] = RemoveAt(queue[s], cursor)]
    BY <1>2 DEF DispatchRequest, DequeueCursor
  <2>2. offers[s][k].client \in Peer
    <3>1. k \in 1 .. Len(offers[s])
      BY <1>1, <1>2, TakerLemma
    <3> HIDE DEF k
    <3>2. offers[s][k] \in Offer
      BY <1>1, <3>1
    <3> QED BY <3>2 DEF Offer
  <2>3. ASSUME NEW i \in 1 .. cursor - 1, queue[s][i].subject = msg.subject PROVE FALSE
    <3>1. i \in 1 .. Len(queue[s]) /\ i < cursor
      BY <1>1
    <3>2. TakerOf(offers[s], queue[s][i].subject) = 0
      BY <1>1, <3>1 DEF Inv, WaitingUnmatched
    <3> QED BY <1>2, <2>3, <3>2
  <2>4. RequestDispatched(offers[s][k].client, s, cursor)
    BY <1>1, <2>1, <2>3 DEF RequestDispatched
  <2> QED BY <1>1, <2>2, <2>4 DEF MessagesMove
<1>3. CASE k = 0
  BY <1>1, <1>3 DEF DispatchRequest, services, MessagesMove, NothingMoves
<1> QED BY <1>2, <1>3

LEMMA StepMoves == Inv /\ AnonymousFree /\ [Next]_vars => MessagesMove
<1> SUFFICES ASSUME Inv, AnonymousFree, [Next]_vars PROVE MessagesMove
  OBVIOUS
<1>1. ASSUME NEW p \in Peer, NEW a \in Address, ConnectionOpen(p, a) PROVE MessagesMove
  BY <1>1, OpenMoves
<1>2. ASSUME NEW p \in Peer, NEW a \in Address, MailboxSend(p, a) PROVE MessagesMove
  BY <1>2, MailboxSendMoves
<1>3. ASSUME NEW p \in Peer, NEW s \in Service, NEW x \in Subject, ServiceSend(p, s, x)
      PROVE  MessagesMove
  BY <1>3, ServiceSendMoves
<1>4. CASE DispatchRequest
  BY <1>4, DispatchMoves
<1>5. CASE Restart
  BY <1>5 DEF Restart, AllLost, MessagesMove
<1>6. ASSUME NEW p \in Peer,
             \/ CommandInStart(p) \/ CloseInStart(p) \/ ConnectionClose(p)
             \/ CommandRefused(p) \/ Expired(p)
             \/ \E s \in Service, pattern \in Pattern : ServiceOffer(p, s, pattern)
      PROVE  MessagesMove
  BY <1>6 DEF CommandInStart, CloseInStart, ConnectionClose, CommandRefused, Expired,
              ServiceOffer, services, history, MessagesMove, NothingMoves
<1>7. CASE DispatchDone \/ Stop \/ UNCHANGED vars
  BY <1>7 DEF DispatchDone, Stop, vars, services, history, MessagesMove, NothingMoves
<1> QED BY <1>1, <1>2, <1>3, <1>4, <1>5, <1>6, <1>7 DEF Next, Protocol, Dispatch

-----------------------------------------------------------------------------
\* Whose messages wait where, and their numbers

Known(msg) == msg.id \in 1 .. sent

Addressed ==
  /\ AnonymousFree
  /\ \A a \in Address : \A j \in 1 .. Len(mailbox[a]) :
       mailbox[a][j].to = a /\ Known(mailbox[a][j])
  /\ \A s \in Service : \A j \in 1 .. Len(queue[s]) :
       queue[s][j].to = s /\ Known(queue[s][j])
  /\ \A i \in 1 .. Len(delivered) : Known(delivered[i].msg)

\* What Deliver adds to the history.
LEMMA DeliverFacts ==
  ASSUME TypeOK, NEW p \in Peer, NEW msgs \in Seq(Mail \cup Request), Deliver(p, msgs)
  PROVE  /\ Len(delivered) \in Nat /\ Len(msgs) \in Nat
         /\ DOMAIN delivered = 1 .. Len(delivered)
         /\ DOMAIN delivered' = 1 .. Len(delivered) + Len(msgs)
         /\ Len(delivered') = Len(delivered) + Len(msgs)
         /\ \A i \in 1 .. Len(delivered) : delivered'[i] = delivered[i]
         /\ \A i \in 1 .. Len(msgs) :
              delivered'[Len(delivered) + i] = [to |-> p, msg |-> msgs[i]]
<1> DEFINE new == [i \in DOMAIN msgs |-> [to |-> p, msg |-> msgs[i]]]
<1>1. delivered \in Seq(Delivery)
  BY DEF TypeOK
<1>2. new = [i \in 1 .. Len(msgs) |-> [to |-> p, msg |-> msgs[i]]] /\ Len(msgs) \in Nat
  OBVIOUS
<1>3. \A i \in 1 .. Len(msgs) : new[i] = [to |-> p, msg |-> msgs[i]] /\ new[i] \in Delivery
  BY DEF Delivery
<1>4. new \in Seq(Delivery) /\ Len(new) = Len(msgs)
  <2>1. new \in [1 .. Len(msgs) -> Delivery]
    BY <1>2, <1>3
  <2> HIDE DEF new
  <2> QED BY <1>2, <2>1
<1>5. delivered' = delivered \o new
  BY DEF Deliver
<1> HIDE DEF new
<1>6. /\ Len(delivered \o new) = Len(delivered) + Len(new)
      /\ DOMAIN (delivered \o new) = 1 .. Len(delivered) + Len(new)
      /\ \A i \in 1 .. Len(delivered) : (delivered \o new)[i] = delivered[i]
      /\ \A i \in 1 .. Len(new) : (delivered \o new)[Len(delivered) + i] = new[i]
  BY <1>1, <1>4
<1> QED BY <1>1, <1>2, <1>3, <1>4, <1>5, <1>6

\* One message.
LEMMA DeliverOne ==
  ASSUME TypeOK, NEW p \in Peer, NEW msg \in Mail \cup Request, Deliver(p, <<msg>>)
  PROVE  /\ Len(delivered) \in Nat /\ DOMAIN delivered = 1 .. Len(delivered)
         /\ DOMAIN delivered' = 1 .. Len(delivered) + 1
         /\ Len(delivered') = Len(delivered) + 1
         /\ \A i \in 1 .. Len(delivered) : delivered'[i] = delivered[i]
         /\ delivered'[Len(delivered) + 1] = [to |-> p, msg |-> msg]
<1> DEFINE msgs == <<msg>>
<1>1. msgs \in Seq(Mail \cup Request) /\ Len(msgs) = 1 /\ msgs[1] = msg /\ 1 \in 1 .. 1
  OBVIOUS
<1> HIDE DEF msgs
<1>2. Deliver(p, msgs)
  BY DEF msgs
<1> QED BY <1>1, <1>2, DeliverFacts

LEMMA NewTypes ==
  ASSUME TypeOK
  PROVE  /\ \A a \in Address : NewMail(a) \in Mail /\ NewMail(a).id = sent + 1
                               /\ NewMail(a).to = a
         /\ \A s \in Service, x \in Subject :
              /\ NewRequest(s, x) \in Request /\ NewRequest(s, x).id = sent + 1
              /\ NewRequest(s, x).to = s /\ NewRequest(s, x).subject = x
         /\ sent \in Nat
BY DEF TypeOK, NewMail, NewRequest, Mail, Request

LEMMA AppendFacts ==
  ASSUME NEW S, NEW list \in Seq(S), NEW e \in S
  PROVE  /\ Len(list) \in Nat /\ Len(Append(list, e)) = Len(list) + 1
         /\ Append(list, e)[Len(list) + 1] = e
         /\ \A i \in 1 .. Len(list) : Append(list, e)[i] = list[i]
OBVIOUS

LEMMA RemoveFacts ==
  ASSUME TypeOK, NEW s \in Service, NEW c \in 1 .. Len(queue[s]),
         queue' = [queue EXCEPT ![s] = RemoveAt(queue[s], c)]
  PROVE  /\ Len(queue[s]) \in Nat /\ Len(queue'[s]) = Len(queue[s]) - 1
         /\ \A i \in 1 .. Len(queue[s]) - 1 :
              queue'[s][i] = IF i < c THEN queue[s][i] ELSE queue[s][i + 1]
         /\ \A t \in Service : t # s => queue'[t] = queue[t]
<1> DEFINE list == queue[s]
<1>1. list \in Seq(Request) /\ queue'[s] = RemoveAt(list, c)
  BY DEF TypeOK
<1>2. \A t \in Service : t # s => queue'[t] = queue[t]
  BY DEF TypeOK
<1> HIDE DEF list
<1>3. c \in 1 .. Len(list)
  BY DEF list
<1>4. /\ Len(list) \in Nat /\ Len(RemoveAt(list, c)) = Len(list) - 1
      /\ \A i \in 1 .. Len(list) - 1 :
           RemoveAt(list, c)[i] = IF i < c THEN list[i] ELSE list[i + 1]
  BY <1>1, <1>3, RemoveAtLemma
<1> QED BY <1>1, <1>2, <1>4, Zenon DEF list

\* Only opening and dropping a connection touch the registry.
LEMMA AnonymousStep == Inv /\ AnonymousFree /\ [Next]_vars => AnonymousFree'
<1> SUFFICES ASSUME Inv, AnonymousFree, [Next]_vars PROVE AnonymousFree'
  OBVIOUS
<1>1. ASSUME NEW p \in Peer, NEW a \in Address, ConnectionOpen(p, a) PROVE AnonymousFree'
  <2> DEFINE existing == IF a \in Named THEN clients[a] ELSE NoPeer
  <2>1. clients' = IF a \in Named THEN [Unregistered(existing) EXCEPT ![a] = p]
                   ELSE clients
    BY <1>1 DEF ConnectionOpen
  <2> HIDE DEF existing
  <2>2. Unregistered(existing)[Anonymous] = NoPeer
    BY NamesAssumption DEF Unregistered, AnonymousFree, Inv, TypeOK
  <2> QED BY <2>1, <2>2 DEF AnonymousFree, Named
<1>2. ASSUME NEW p \in Peer, DeregisterTheClient(p) PROVE AnonymousFree'
  BY <1>2, NamesAssumption DEF DeregisterTheClient, Unregistered, AnonymousFree, Inv, TypeOK
<1>3. ASSUME NEW p \in Peer,
             ConnectionClose(p) \/ CommandRefused(p) \/ Expired(p)
      PROVE  AnonymousFree'
  BY <1>2, <1>3 DEF ConnectionClose, CommandRefused, Expired
<1>4. CASE Restart
  BY <1>4, NamesAssumption DEF Restart, AnonymousFree
<1>5. CASE UNCHANGED clients
  BY <1>5 DEF AnonymousFree
<1>6. ASSUME NEW p \in Peer,
             \/ CommandInStart(p) \/ CloseInStart(p)
             \/ \E a \in Address : MailboxSend(p, a)
             \/ \E s \in Service, x \in Subject : ServiceSend(p, s, x)
             \/ \E s \in Service, pattern \in Pattern : ServiceOffer(p, s, pattern)
      PROVE  UNCHANGED clients
  BY <1>6 DEF CommandInStart, CloseInStart, MailboxSend, ServiceSend, ServiceOffer, registry
<1>7. Dispatch \/ Stop \/ UNCHANGED vars => UNCHANGED clients
  BY DEF Dispatch, DispatchRequest, DispatchDone, Stop, vars, registry
<1> QED BY <1>1, <1>3, <1>4, <1>5, <1>6, <1>7 DEF Next, Protocol

LEMMA AddressedInit == Init => Addressed
BY NamesAssumption DEF Init, Addressed, AnonymousFree

LEMMA AddressedMoves ==
  ASSUME TypeOK, Addressed, AnonymousFree', MessagesMove
  PROVE  Addressed'
<1> DEFINE MailsFit == \A a \in Address : \A j \in 1 .. Len(mailbox[a]) :
                         mailbox[a][j].to = a /\ Known(mailbox[a][j])
           RequestsFit == \A s \in Service : \A j \in 1 .. Len(queue[s]) :
                            queue[s][j].to = s /\ Known(queue[s][j])
           DeliveredFit == \A i \in 1 .. Len(delivered) : Known(delivered[i].msg)
<1>1. /\ mailbox \in [Address -> Seq(Mail)] /\ queue \in [Service -> Seq(Request)]
      /\ sent \in Nat
  BY DEF TypeOK
<1>2. MailsFit /\ RequestsFit /\ DeliveredFit
  BY DEF Addressed
<1>3. CASE NothingMoves
  BY <1>3 DEF NothingMoves, Addressed, Known
<1>4. ASSUME NEW p \in Peer, NEW a \in Address, MailsHandedOver(p, a) PROVE Addressed'
  <2> DEFINE mails == mailbox[a]
  <2>1. /\ Deliver(p, mails) /\ UNCHANGED <<queue, sent>>
        /\ mailbox' = [mailbox EXCEPT ![a] = <<>>]
    BY <1>4 DEF MailsHandedOver
  <2>2. mails \in Seq(Mail) /\ \A j \in 1 .. Len(mails) : Known(mails[j])
    BY <1>1, <1>2
  <2> HIDE DEF mails
  <2>3. mails \in Seq(Mail \cup Request)
    BY <2>2
  <2>4. /\ Len(delivered) \in Nat /\ Len(mails) \in Nat
        /\ Len(delivered') = Len(delivered) + Len(mails)
        /\ \A i \in 1 .. Len(delivered) : delivered'[i] = delivered[i]
        /\ \A i \in 1 .. Len(mails) :
              delivered'[Len(delivered) + i] = [to |-> p, msg |-> mails[i]]
    BY <2>1, <2>3, DeliverFacts
  <2>5. ASSUME NEW i \in 1 .. Len(delivered') PROVE delivered'[i].msg.id \in 1 .. sent
    <3>1. CASE i \in 1 .. Len(delivered)
      BY <1>2, <2>1, <2>4, <3>1 DEF Known
    <3>2. CASE i \notin 1 .. Len(delivered)
      <4>1. i - Len(delivered) \in 1 .. Len(mails)
            /\ Len(delivered) + (i - Len(delivered)) = i
        BY <2>4, <3>2
      <4>2. delivered'[i] = [to |-> p, msg |-> mails[i - Len(delivered)]]
        BY <2>4, <4>1, Zenon
      <4> QED BY <2>1, <2>2, <4>1, <4>2 DEF Known
    <3> QED BY <3>1, <3>2
  <2>6. MailsFit'
    BY <1>1, <1>2, <2>1 DEF Known
  <2> QED BY <1>2, <2>1, <2>5, <2>6 DEF Addressed, Known
<1>5. ASSUME NEW p \in Peer, NEW msg \in Mail \cup Request, Deliver(p, <<msg>>),
             msg.id \in 1 .. sent', sent' = sent \/ sent' = sent + 1
      PROVE  DeliveredFit'
  <2>1. /\ Len(delivered) \in Nat
        /\ Len(delivered') = Len(delivered) + 1
        /\ \A i \in 1 .. Len(delivered) : delivered'[i] = delivered[i]
        /\ delivered'[Len(delivered) + 1] = [to |-> p, msg |-> msg]
    BY <1>5, DeliverOne
  <2> SUFFICES ASSUME NEW i \in 1 .. Len(delivered') PROVE delivered'[i].msg.id \in 1 .. sent'
    BY DEF Known
  <2>2. CASE i \in 1 .. Len(delivered)
    <3>1. delivered[i].msg.id \in 1 .. sent
      BY <1>2, <2>2 DEF Known
    <3> QED BY <1>1, <1>5, <2>1, <2>2, <3>1
  <2>3. CASE i \notin 1 .. Len(delivered)
    <3>1. i = Len(delivered) + 1
      BY <2>1, <2>3
    <3> QED BY <1>5, <2>1, <3>1
  <2> QED BY <2>2, <2>3
<1>6. ASSUME sent' = sent + 1
      PROVE  /\ mailbox' = mailbox => MailsFit'
             /\ queue' = queue => RequestsFit'
             /\ delivered' = delivered => DeliveredFit'
  BY <1>1, <1>2, <1>6 DEF Known
<1>7. ASSUME NEW p \in Peer, NEW a \in Address, MailDelivered(p, a) PROVE Addressed'
  <2>1. NewMail(a) \in Mail \cup Request /\ NewMail(a).id \in 1 .. sent + 1
    BY <1>1, NewTypes
  <2> QED BY <1>5, <1>6, <1>7, <2>1 DEF MailDelivered, Addressed
<1>8. ASSUME NEW a \in Address, MailStored(a) PROVE Addressed'
  <2>1. /\ mailbox' = [mailbox EXCEPT ![a] = Append(mailbox[a], NewMail(a))]
        /\ sent' = sent + 1 /\ UNCHANGED <<delivered, queue>>
    BY <1>8 DEF MailStored
  <2>2. ASSUME NEW b \in Address, NEW j \in 1 .. Len(mailbox'[b])
        PROVE  mailbox'[b][j].to = b /\ mailbox'[b][j].id \in 1 .. sent + 1
    <3>1. CASE b # a
      <4>1. mailbox'[b] = mailbox[b]
        BY <1>1, <2>1, <3>1
      <4>2. mailbox[b][j].to = b /\ mailbox[b][j].id \in 1 .. sent
        BY <1>2, <4>1 DEF Known
      <4> QED BY <1>1, <4>1, <4>2
    <3>2. CASE b = a
      <4> DEFINE list == mailbox[a]
                 msg == NewMail(a)
      <4>1. mailbox'[a] = Append(list, msg) /\ list \in Seq(Mail)
        BY <1>1, <2>1
      <4>2. msg \in Mail /\ msg.id = sent + 1 /\ msg.to = a
        BY NewTypes
      <4>3. \A i \in 1 .. Len(list) : list[i].to = a /\ list[i].id \in 1 .. sent
        BY <1>2 DEF Known
      <4> HIDE DEF list, msg
      <4>4. /\ Len(list) \in Nat /\ Len(Append(list, msg)) = Len(list) + 1
            /\ Append(list, msg)[Len(list) + 1] = msg
            /\ \A i \in 1 .. Len(list) : Append(list, msg)[i] = list[i]
        BY <4>1, <4>2, AppendFacts
      <4>5. CASE j \in 1 .. Len(list)
        BY <1>1, <3>2, <4>1, <4>3, <4>4, <4>5
      <4>6. CASE j \notin 1 .. Len(list)
        <5>1. j = Len(list) + 1
          BY <3>2, <4>1, <4>4, <4>6
        <5> QED BY <1>1, <3>2, <4>1, <4>2, <4>4, <5>1
      <4> QED BY <4>5, <4>6
    <3> QED BY <3>1, <3>2
  <2>3. MailsFit'
    BY <2>1, <2>2 DEF Known
  <2> QED BY <1>6, <2>1, <2>3 DEF Addressed
<1>9. CASE MessageDropped
  BY <1>6, <1>9 DEF MessageDropped, Addressed
<1>10. ASSUME NEW p \in Peer, NEW s \in Service, NEW x \in Subject, RequestDelivered(p, s, x)
       PROVE  Addressed'
  <2>1. NewRequest(s, x) \in Mail \cup Request /\ NewRequest(s, x).id \in 1 .. sent + 1
    BY <1>1, NewTypes
  <2> QED BY <1>5, <1>6, <1>10, <2>1 DEF RequestDelivered, Addressed
<1>11. ASSUME NEW s \in Service, NEW x \in Subject, RequestQueued(s, x) PROVE Addressed'
  <2>1. /\ queue' = [queue EXCEPT ![s] = Append(queue[s], NewRequest(s, x))]
        /\ sent' = sent + 1 /\ UNCHANGED <<delivered, mailbox>>
    BY <1>11 DEF RequestQueued
  <2>2. ASSUME NEW t \in Service, NEW j \in 1 .. Len(queue'[t])
        PROVE  queue'[t][j].to = t /\ queue'[t][j].id \in 1 .. sent + 1
    <3>1. CASE t # s
      <4>1. queue'[t] = queue[t]
        BY <1>1, <2>1, <3>1
      <4>2. queue[t][j].to = t /\ queue[t][j].id \in 1 .. sent
        BY <1>2, <4>1 DEF Known
      <4> QED BY <1>1, <4>1, <4>2
    <3>2. CASE t = s
      <4> DEFINE list == queue[s]
                 msg == NewRequest(s, x)
      <4>1. queue'[s] = Append(list, msg) /\ list \in Seq(Request)
        BY <1>1, <2>1
      <4>2. msg \in Request /\ msg.id = sent + 1 /\ msg.to = s
        BY NewTypes
      <4>3. \A i \in 1 .. Len(list) : list[i].to = s /\ list[i].id \in 1 .. sent
        BY <1>2 DEF Known
      <4> HIDE DEF list, msg
      <4>4. /\ Len(list) \in Nat /\ Len(Append(list, msg)) = Len(list) + 1
            /\ Append(list, msg)[Len(list) + 1] = msg
            /\ \A i \in 1 .. Len(list) : Append(list, msg)[i] = list[i]
        BY <4>1, <4>2, AppendFacts
      <4>5. CASE j \in 1 .. Len(list)
        BY <1>1, <3>2, <4>1, <4>3, <4>4, <4>5
      <4>6. CASE j \notin 1 .. Len(list)
        <5>1. j = Len(list) + 1
          BY <3>2, <4>1, <4>4, <4>6
        <5> QED BY <1>1, <3>2, <4>1, <4>2, <4>4, <5>1
      <4> QED BY <4>5, <4>6
    <3> QED BY <3>1, <3>2
  <2>3. RequestsFit'
    BY <2>1, <2>2 DEF Known
  <2> QED BY <1>6, <2>1, <2>3 DEF Addressed
<1>12. ASSUME NEW p \in Peer, NEW s \in Service, NEW c \in 1 .. Len(queue[s]),
              RequestDispatched(p, s, c)
       PROVE  Addressed'
  <2>1. /\ Deliver(p, <<queue[s][c]>>) /\ UNCHANGED <<mailbox, sent>>
        /\ queue' = [queue EXCEPT ![s] = RemoveAt(queue[s], c)]
    BY <1>12 DEF RequestDispatched
  <2>2. queue[s][c] \in Mail \cup Request /\ queue[s][c].id \in 1 .. sent
    BY <1>1, <1>2 DEF Known
  <2>3. DeliveredFit'
    BY <1>5, <2>1, <2>2
  <2>4. /\ Len(queue[s]) \in Nat /\ Len(queue'[s]) = Len(queue[s]) - 1
        /\ \A i \in 1 .. Len(queue[s]) - 1 :
             queue'[s][i] = IF i < c THEN queue[s][i] ELSE queue[s][i + 1]
        /\ \A t \in Service : t # s => queue'[t] = queue[t]
    BY <2>1, RemoveFacts
  <2>5. ASSUME NEW t \in Service, NEW j \in 1 .. Len(queue'[t])
        PROVE  queue'[t][j].to = t /\ Known(queue'[t][j])
    <3>1. CASE t # s
      BY <1>2, <2>4, <3>1
    <3>2. CASE t = s
      <4>1. j \in 1 .. Len(queue[s]) - 1 /\ j \in 1 .. Len(queue[s])
            /\ j + 1 \in 1 .. Len(queue[s])
        BY <2>4, <3>2
      <4>2. \/ queue'[t][j] = queue[s][j]
            \/ queue'[t][j] = queue[s][j + 1]
        BY <2>4, <3>2, <4>1
      <4> QED BY <1>2, <3>2, <4>1, <4>2
    <3> QED BY <3>1, <3>2
  <2>6. MailsFit' /\ RequestsFit'
    BY <1>2, <2>1, <2>5 DEF Known
  <2> QED BY <2>3, <2>6 DEF Addressed
<1>13. CASE AllLost
  <2>1. \A a \in Address : Len(mailbox'[a]) = 0
    BY <1>13 DEF AllLost
  <2>2. \A s \in Service : Len(queue'[s]) = 0
    BY <1>13 DEF AllLost
  <2> QED BY <1>2, <1>13, <2>1, <2>2 DEF AllLost, Addressed, Known
<1> QED BY <1>3, <1>4, <1>7, <1>8, <1>9, <1>10, <1>11, <1>12, <1>13 DEF MessagesMove

-----------------------------------------------------------------------------
\* Order

\* The messages whose order matters: mails to one address, requests to one
\* service with one subject.
Kin(m, n) == m.to = n.to /\ (IsMail(m) \/ m.subject = n.subject)

\* n came later than every message like it that was delivered.
LaterThanDelivered(n) ==
  \A i \in 1 .. Len(delivered) : Kin(delivered[i].msg, n) => delivered[i].msg.id < n.id

DeliveredInOrder ==
  \A j \in 1 .. Len(delivered) : \A i \in 1 .. j - 1 :
    Kin(delivered[i].msg, delivered[j].msg) => delivered[i].msg.id < delivered[j].msg.id

\* MailInOrder and RequestsInOrder in one.
AllInOrder ==
  /\ DeliveredInOrder
  /\ \A a \in Address : \A j \in 1 .. Len(mailbox[a]) :
       /\ LaterThanDelivered(mailbox[a][j])
       /\ \A i \in 1 .. j - 1 : mailbox[a][i].id < mailbox[a][j].id
  /\ \A s \in Service : \A j \in 1 .. Len(queue[s]) :
       /\ LaterThanDelivered(queue[s][j])
       /\ \A i \in 1 .. j - 1 : queue[s][i].id < queue[s][j].id

\* Messages that are later than those delivered, and in order, may follow.
LEMMA DeliverInOrder ==
  ASSUME TypeOK, DeliveredInOrder, NEW p \in Peer, NEW msgs \in Seq(Mail \cup Request),
         Deliver(p, msgs),
         \A j \in 1 .. Len(msgs) : /\ LaterThanDelivered(msgs[j])
                                   /\ \A i \in 1 .. j - 1 : msgs[i].id < msgs[j].id
  PROVE  DeliveredInOrder'
<1> DEFINE n == Len(delivered)
<1>1. /\ n \in Nat /\ Len(msgs) \in Nat
      /\ Len(delivered') = n + Len(msgs)
      /\ \A i \in 1 .. n : delivered'[i] = delivered[i]
      /\ \A i \in 1 .. Len(msgs) : delivered'[n + i] = [to |-> p, msg |-> msgs[i]]
  BY DeliverFacts
<1>2. \A j \in 1 .. n : \A i \in 1 .. j - 1 :
        Kin(delivered[i].msg, delivered[j].msg) => delivered[i].msg.id < delivered[j].msg.id
  BY DEF DeliveredInOrder
<1>3. \A j \in 1 .. Len(msgs) : \A i \in 1 .. n :
        Kin(delivered[i].msg, msgs[j]) => delivered[i].msg.id < msgs[j].id
  BY DEF LaterThanDelivered
<1> SUFFICES ASSUME NEW j \in 1 .. Len(delivered'), NEW i \in 1 .. j - 1,
                    Kin(delivered'[i].msg, delivered'[j].msg)
             PROVE  delivered'[i].msg.id < delivered'[j].msg.id
  BY DEF DeliveredInOrder, Kin, IsMail
<1> HIDE DEF n
<1>4. CASE j \in 1 .. n
  <2>1. i \in 1 .. n
    BY <1>1, <1>4
  <2> QED BY <1>1, <1>2, <1>4, <2>1
<1>5. CASE j \notin 1 .. n
  <2> DEFINE jj == j - n
  <2>1. jj \in 1 .. Len(msgs) /\ n + jj = j
    BY <1>1, <1>5
  <2> HIDE DEF jj
  <2>2. delivered'[j].msg = msgs[jj]
    <3>1. delivered'[j] = [to |-> p, msg |-> msgs[jj]]
      BY <1>1, <2>1, Zenon
    <3> QED BY <3>1
  <2>3. CASE i \in 1 .. n
    BY <1>1, <1>3, <2>1, <2>2, <2>3
  <2>4. CASE i \notin 1 .. n
    <3> DEFINE ii == i - n
    <3>1. ii \in 1 .. Len(msgs) /\ n + ii = i /\ ii \in 1 .. jj - 1
      BY <1>1, <2>1, <2>4
    <3> HIDE DEF ii
    <3>2. delivered'[i].msg = msgs[ii]
      <4>1. delivered'[i] = [to |-> p, msg |-> msgs[ii]]
        BY <1>1, <3>1, Zenon
      <4> QED BY <4>1
    <3>3. msgs[ii].id < msgs[jj].id
      BY <2>1, <3>1
    <3> QED BY <2>2, <3>2, <3>3
  <2> QED BY <2>3, <2>4
<1> QED BY <1>4, <1>5

\* A message that waits stays later than those delivered when none like it is
\* delivered, or only earlier ones.
LEMMA StaysLater ==
  ASSUME TypeOK, NEW p \in Peer, NEW msgs \in Seq(Mail \cup Request), Deliver(p, msgs),
         NEW w, LaterThanDelivered(w),
         \A i \in 1 .. Len(msgs) : Kin(msgs[i], w) => msgs[i].id < w.id
  PROVE  \A i \in 1 .. Len(delivered') :
           Kin(delivered'[i].msg, w) => delivered'[i].msg.id < w.id
<1> DEFINE n == Len(delivered)
<1>1. /\ n \in Nat /\ Len(msgs) \in Nat
      /\ Len(delivered') = n + Len(msgs)
      /\ \A i \in 1 .. n : delivered'[i] = delivered[i]
      /\ \A i \in 1 .. Len(msgs) : delivered'[n + i] = [to |-> p, msg |-> msgs[i]]
  BY DeliverFacts
<1>2. \A i \in 1 .. n : Kin(delivered[i].msg, w) => delivered[i].msg.id < w.id
  BY DEF LaterThanDelivered
<1> SUFFICES ASSUME NEW i \in 1 .. Len(delivered'), Kin(delivered'[i].msg, w)
             PROVE  delivered'[i].msg.id < w.id
  OBVIOUS
<1> HIDE DEF n
<1>3. CASE i \in 1 .. n
  BY <1>1, <1>2, <1>3
<1>4. CASE i \notin 1 .. n
  <2> DEFINE k == i - n
  <2>1. k \in 1 .. Len(msgs) /\ n + k = i
    BY <1>1, <1>4
  <2> HIDE DEF k
  <2>2. delivered'[i] = [to |-> p, msg |-> msgs[k]]
    BY <1>1, <2>1, Zenon
  <2>3. delivered'[i].msg = msgs[k]
    BY <2>2
  <2> QED BY <2>1, <2>3
<1> QED BY <1>3, <1>4

\* A new message is later than all that are known.
LEMMA NewIsLater ==
  ASSUME TypeOK, Addressed, NEW msg, msg.id = sent + 1
  PROVE  LaterThanDelivered(msg)
<1>1. \A i \in 1 .. Len(delivered) : delivered[i].msg.id \in 1 .. sent
  BY DEF Addressed, Known
<1>2. sent \in Nat
  BY DEF TypeOK
<1> QED BY <1>1, <1>2 DEF LaterThanDelivered

LEMMA OrderInit == Init => AllInOrder
BY DEF Init, AllInOrder, DeliveredInOrder

\* Nothing is delivered.
LEMMA SameDelivered ==
  ASSUME UNCHANGED delivered
  PROVE  /\ DeliveredInOrder => DeliveredInOrder'
         /\ \A w : LaterThanDelivered(w) =>
              \A i \in 1 .. Len(delivered') :
                Kin(delivered'[i].msg, w) => delivered'[i].msg.id < w.id
BY DEF DeliveredInOrder, LaterThanDelivered, Kin, IsMail

LEMMA OrderMoves ==
  ASSUME TypeOK, Addressed, AllInOrder, MessagesMove
  PROVE  AllInOrder'
<1> DEFINE
     Later(w) == \A i \in 1 .. Len(delivered) :
                   Kin(delivered[i].msg, w) => delivered[i].msg.id < w.id
     MailsLater == \A a \in Address : \A j \in 1 .. Len(mailbox[a]) :
       /\ Later(mailbox[a][j])
       /\ \A i \in 1 .. j - 1 : mailbox[a][i].id < mailbox[a][j].id
     RequestsLater == \A s \in Service : \A j \in 1 .. Len(queue[s]) :
       /\ Later(queue[s][j])
       /\ \A i \in 1 .. j - 1 : queue[s][i].id < queue[s][j].id
<1>1. /\ mailbox \in [Address -> Seq(Mail)] /\ queue \in [Service -> Seq(Request)]
      /\ sent \in Nat
  BY DEF TypeOK
<1>2. /\ \A a \in Address : \A j \in 1 .. Len(mailbox[a]) :
           mailbox[a][j].to = a /\ mailbox[a][j].id \in 1 .. sent
      /\ \A s \in Service : \A j \in 1 .. Len(queue[s]) :
           queue[s][j].to = s /\ queue[s][j].id \in 1 .. sent
  BY DEF Addressed, Known
<1>3. /\ DeliveredInOrder
      /\ \A a \in Address : \A j \in 1 .. Len(mailbox[a]) :
           /\ LaterThanDelivered(mailbox[a][j])
           /\ \A i \in 1 .. j - 1 : mailbox[a][i].id < mailbox[a][j].id
      /\ \A s \in Service : \A j \in 1 .. Len(queue[s]) :
           /\ LaterThanDelivered(queue[s][j])
           /\ \A i \in 1 .. j - 1 : queue[s][i].id < queue[s][j].id
  BY DEF AllInOrder
<1>4. DeliveredInOrder' /\ MailsLater' /\ RequestsLater' => AllInOrder'
  BY DEF AllInOrder, LaterThanDelivered
<1> DEFINE LaterNext(w) == \A i \in 1 .. Len(delivered') :
                             Kin(delivered'[i].msg, w) => delivered'[i].msg.id < w.id
<1>5. /\ (\A a \in Address : \A j \in 1 .. Len(mailbox'[a]) :
            /\ LaterNext(mailbox'[a][j])
            /\ \A i \in 1 .. j - 1 : mailbox'[a][i].id < mailbox'[a][j].id)
         => MailsLater'
      /\ (\A s \in Service : \A j \in 1 .. Len(queue'[s]) :
            /\ LaterNext(queue'[s][j])
            /\ \A i \in 1 .. j - 1 : queue'[s][i].id < queue'[s][j].id)
         => RequestsLater'
  BY DEF Kin, IsMail
<1> HIDE DEF MailsLater, RequestsLater
<1>6. ASSUME UNCHANGED delivered
      PROVE  /\ DeliveredInOrder'
             /\ \A w : LaterThanDelivered(w) => LaterNext(w)
  BY <1>3, <1>6, SameDelivered
<1>7. ASSUME NEW p \in Peer, NEW msgs \in Seq(Mail \cup Request), Deliver(p, msgs), NEW w,
             LaterThanDelivered(w),
             \A i \in 1 .. Len(msgs) : Kin(msgs[i], w) => msgs[i].id < w.id
      PROVE  LaterNext(w)
  BY <1>7, StaysLater
<1> HIDE DEF LaterNext
<1>8. CASE NothingMoves
  BY <1>3, <1>4, <1>5, <1>6, <1>8 DEF NothingMoves
<1>9. CASE MessageDropped
  BY <1>3, <1>4, <1>5, <1>6, <1>9 DEF MessageDropped
<1>10. CASE AllLost
  <2>1. /\ \A a \in Address : Len(mailbox'[a]) = 0
        /\ \A s \in Service : Len(queue'[s]) = 0
    BY <1>10 DEF AllLost
  <2> QED BY <1>4, <1>5, <1>6, <1>10, <2>1 DEF AllLost
\* What does not go to the addressee of w is not like it.
<1>11. \A m, w : m.to # w.to => ~ Kin(m, w)
  BY DEF Kin
<1>12. ASSUME NEW p \in Peer, NEW a \in Address, MailsHandedOver(p, a) PROVE AllInOrder'
  <2> DEFINE mails == mailbox[a]
  <2>1. /\ Deliver(p, mails) /\ UNCHANGED queue
        /\ mailbox' = [mailbox EXCEPT ![a] = <<>>]
    BY <1>12 DEF MailsHandedOver
  <2>2. \A j \in 1 .. Len(mails) :
           /\ mails[j].to = a /\ LaterThanDelivered(mails[j])
           /\ \A i \in 1 .. j - 1 : mails[i].id < mails[j].id
    BY <1>2, <1>3
  <2>3. mails \in Seq(Mail)
    BY <1>1
  <2> HIDE DEF mails
  <2>4. mails \in Seq(Mail \cup Request)
    BY <2>3
  <2>5. DeliveredInOrder'
    BY <1>3, <2>1, <2>2, <2>4, DeliverInOrder
  <2>6. ASSUME NEW b \in Address, NEW j \in 1 .. Len(mailbox'[b])
        PROVE  /\ LaterNext(mailbox'[b][j])
               /\ \A i \in 1 .. j - 1 : mailbox'[b][i].id < mailbox'[b][j].id
    <3>1. b # a /\ mailbox'[b] = mailbox[b]
      BY <1>1, <2>1
    <3>2. mailbox[b][j].to = b
      BY <1>2, <3>1
    <3>3. LaterNext(mailbox[b][j])
      BY <1>3, <1>7, <1>11, <2>1, <2>2, <2>4, <3>1, <3>2
    <3> QED BY <1>3, <3>1, <3>3
  <2>7. ASSUME NEW s \in Service, NEW j \in 1 .. Len(queue[s])
        PROVE  LaterNext(queue[s][j])
    <3>1. queue[s][j].to = s /\ s # a
      BY <1>2, NamesAssumption
    <3> QED BY <1>3, <1>7, <1>11, <2>1, <2>2, <2>4, <3>1
  <2> QED BY <1>3, <1>4, <1>5, <2>1, <2>5, <2>6, <2>7
\* One message is delivered.
<1>13. ASSUME NEW p \in Peer, NEW msg \in Mail \cup Request, Deliver(p, <<msg>>),
              LaterThanDelivered(msg)
       PROVE  /\ DeliveredInOrder'
              /\ \A w : /\ LaterThanDelivered(w)
                        /\ Kin(msg, w) => msg.id < w.id
                        => LaterNext(w)
  <2> DEFINE msgs == <<msg>>
  <2>1. /\ msgs \in Seq(Mail \cup Request) /\ Deliver(p, msgs)
        /\ Len(msgs) = 1 /\ \A j \in 1 .. 1 : msgs[j] = msg
    BY <1>13
  <2> HIDE DEF msgs
  <2>2. DeliveredInOrder'
    <3>1. \A j \in 1 .. Len(msgs) : /\ LaterThanDelivered(msgs[j])
                                    /\ \A i \in 1 .. j - 1 : msgs[i].id < msgs[j].id
      BY <1>13, <2>1
    <3> QED BY <1>3, <2>1, <3>1, DeliverInOrder
  <2>3. ASSUME NEW w, LaterThanDelivered(w), Kin(msg, w) => msg.id < w.id
        PROVE  LaterNext(w)
    <3>1. \A i \in 1 .. Len(msgs) : Kin(msgs[i], w) => msgs[i].id < w.id
      BY <2>1, <2>3
    <3> QED BY <1>7, <2>1, <2>3, <3>1
  <2> QED BY <2>2, <2>3
<1>14. ASSUME NEW p \in Peer, NEW a \in Address, MailDelivered(p, a) PROVE AllInOrder'
  <2> DEFINE msg == NewMail(a)
  <2>1. /\ mailbox[a] = <<>> /\ Deliver(p, <<msg>>) /\ UNCHANGED <<mailbox, queue>>
    BY <1>14 DEF MailDelivered
  <2>2. msg \in Mail /\ msg.to = a /\ LaterThanDelivered(msg)
    BY NewTypes, NewIsLater
  <2> HIDE DEF msg
  <2>3. ASSUME NEW b \in Address, NEW j \in 1 .. Len(mailbox[b])
        PROVE  LaterNext(mailbox[b][j])
    <3>1. b # a
      BY <2>1
    <3>2. mailbox[b][j].to = b
      BY <1>2
    <3> QED BY <1>3, <1>11, <1>13, <2>1, <2>2, <3>1, <3>2
  <2>4. ASSUME NEW s \in Service, NEW j \in 1 .. Len(queue[s])
        PROVE  LaterNext(queue[s][j])
    <3>1. queue[s][j].to = s /\ s # a
      BY <1>2, NamesAssumption
    <3> QED BY <1>3, <1>11, <1>13, <2>1, <2>2, <3>1
  <2> QED BY <1>3, <1>4, <1>5, <1>13, <2>1, <2>2, <2>3, <2>4
<1>15. ASSUME NEW p \in Peer, NEW s \in Service, NEW x \in Subject, RequestDelivered(p, s, x)
       PROVE  AllInOrder'
  <2> DEFINE msg == NewRequest(s, x)
  <2>1. /\ \A i \in 1 .. Len(queue[s]) : queue[s][i].subject # x
        /\ Deliver(p, <<msg>>) /\ UNCHANGED <<mailbox, queue>>
    BY <1>15 DEF RequestDelivered
  <2>2. msg \in Request /\ msg.to = s /\ msg.subject = x /\ LaterThanDelivered(msg)
    BY NewTypes, NewIsLater
  <2> HIDE DEF msg
  <2>3. ASSUME NEW b \in Address, NEW j \in 1 .. Len(mailbox[b])
        PROVE  LaterNext(mailbox[b][j])
    <3>1. mailbox[b][j].to = b /\ b # s
      BY <1>2, NamesAssumption
    <3> QED BY <1>3, <1>11, <1>13, <2>1, <2>2, <3>1
  <2>4. ASSUME NEW t \in Service, NEW j \in 1 .. Len(queue[t])
        PROVE  LaterNext(queue[t][j])
    <3>1. queue[t][j].to = t
      BY <1>2
    <3>2. ~ Kin(msg, queue[t][j])
      BY <2>1, <2>2, <3>1, NamesAssumption DEF Kin, IsMail
    <3> QED BY <1>3, <1>13, <2>1, <2>2, <3>2
  <2> QED BY <1>3, <1>4, <1>5, <1>13, <2>1, <2>2, <2>3, <2>4
<1>16. ASSUME NEW p \in Peer, NEW s \in Service, NEW c \in 1 .. Len(queue[s]),
              RequestDispatched(p, s, c)
       PROVE  AllInOrder'
  <2> DEFINE msg == queue[s][c]
  <2>1. /\ \A i \in 1 .. c - 1 : queue[s][i].subject # msg.subject
        /\ Deliver(p, <<msg>>) /\ UNCHANGED mailbox
        /\ queue' = [queue EXCEPT ![s] = RemoveAt(queue[s], c)]
    BY <1>16 DEF RequestDispatched
  <2>2. msg \in Request /\ msg.to = s /\ LaterThanDelivered(msg)
    BY <1>1, <1>2, <1>3
  <2>3. \A i \in c + 1 .. Len(queue[s]) : msg.id < queue[s][i].id
    <3> SUFFICES ASSUME NEW i \in c + 1 .. Len(queue[s]) PROVE msg.id < queue[s][i].id
      OBVIOUS
    <3>1. i \in 1 .. Len(queue[s]) /\ c \in 1 .. i - 1
      BY <1>1
    <3> QED BY <1>3, <3>1
  <2> HIDE DEF msg
  <2>4. /\ Len(queue[s]) \in Nat /\ Len(queue'[s]) = Len(queue[s]) - 1
        /\ \A i \in 1 .. Len(queue[s]) - 1 :
             queue'[s][i] = IF i < c THEN queue[s][i] ELSE queue[s][i + 1]
        /\ \A t \in Service : t # s => queue'[t] = queue[t]
    BY <2>1, RemoveFacts
  <2>5. ASSUME NEW b \in Address, NEW j \in 1 .. Len(mailbox[b])
        PROVE  LaterNext(mailbox[b][j])
    <3>1. mailbox[b][j].to = b /\ b # s
      BY <1>2, NamesAssumption
    <3> QED BY <1>3, <1>11, <1>13, <2>1, <2>2, <3>1
  <2>6. ASSUME NEW i \in 1 .. Len(queue[s]), i # c PROVE LaterNext(queue[s][i])
    <3>1. CASE i < c
      <4>1. queue[s][i].subject # msg.subject
        BY <2>1, <3>1
      <4>2. ~ Kin(msg, queue[s][i])
        BY <2>2, <4>1, NamesAssumption DEF Kin, IsMail
      <4> QED BY <1>3, <1>13, <2>1, <2>2, <4>2
    <3>2. CASE i > c
      <4>1. msg.id < queue[s][i].id
        BY <2>3, <3>2
      <4> QED BY <1>3, <1>13, <2>1, <2>2, <4>1
    <3> QED BY <2>4, <2>6, <3>1, <3>2
  <2>7. ASSUME NEW t \in Service, NEW j \in 1 .. Len(queue'[t])
        PROVE  /\ LaterNext(queue'[t][j])
               /\ \A i \in 1 .. j - 1 : queue'[t][i].id < queue'[t][j].id
    <3>1. CASE t # s
      <4>1. queue'[t] = queue[t] /\ queue[t][j].to = t
        BY <1>2, <2>4, <3>1
      <4>2. LaterNext(queue[t][j])
        BY <1>3, <1>11, <1>13, <2>1, <2>2, <3>1, <4>1
      <4> QED BY <1>3, <4>1, <4>2
    <3>2. CASE t = s
      <4>1. j \in 1 .. Len(queue[s]) - 1
        BY <2>4, <3>2
      <4> DEFINE jj == IF j < c THEN j ELSE j + 1
      <4>2. jj \in 1 .. Len(queue[s]) /\ jj # c /\ queue'[s][j] = queue[s][jj]
        BY <2>4, <4>1
      <4>3. ASSUME NEW i \in 1 .. j - 1 PROVE queue'[s][i].id < queue'[s][j].id
        <5> DEFINE ii == IF i < c THEN i ELSE i + 1
        <5>1. ii \in 1 .. jj - 1 /\ queue'[s][i] = queue[s][ii]
          BY <2>4, <4>1
        <5> HIDE DEF ii, jj
        <5> QED BY <1>3, <4>2, <5>1
      <4> HIDE DEF jj
      <4> QED BY <2>6, <3>2, <4>2, <4>3
    <3> QED BY <3>1, <3>2
  <2> QED BY <1>3, <1>4, <1>5, <1>13, <2>1, <2>2, <2>5, <2>7
<1>17. ASSUME NEW a \in Address, MailStored(a) PROVE AllInOrder'
  <2> DEFINE msg == NewMail(a)
             list == mailbox[a]
  <2>1. /\ mailbox' = [mailbox EXCEPT ![a] = Append(list, msg)]
        /\ UNCHANGED <<delivered, queue>> /\ list \in Seq(Mail)
    BY <1>1, <1>17 DEF MailStored
  <2>2. msg \in Mail /\ msg.id = sent + 1 /\ LaterThanDelivered(msg)
    BY NewTypes, NewIsLater
  <2>3. \A j \in 1 .. Len(list) : /\ LaterNext(list[j]) /\ list[j].id \in 1 .. sent
                                  /\ \A i \in 1 .. j - 1 : list[i].id < list[j].id
    BY <1>2, <1>3, <1>6, <2>1
  <2>4. mailbox'[a] = Append(list, msg) /\ \A b \in Address : b # a => mailbox'[b] = mailbox[b]
    BY <1>1, <2>1
  <2> HIDE DEF msg, list
  <2>5. /\ Len(list) \in Nat /\ Len(Append(list, msg)) = Len(list) + 1
        /\ Append(list, msg)[Len(list) + 1] = msg
        /\ \A i \in 1 .. Len(list) : Append(list, msg)[i] = list[i]
    BY <2>1, <2>2, AppendFacts
  <2>6. ASSUME NEW j \in 1 .. Len(list) + 1
        PROVE  /\ LaterNext(Append(list, msg)[j])
               /\ \A i \in 1 .. j - 1 : Append(list, msg)[i].id < Append(list, msg)[j].id
    <3>1. CASE j \in 1 .. Len(list)
      BY <2>3, <2>5, <3>1
    <3>2. CASE j = Len(list) + 1
      <4>1. LaterNext(msg)
        BY <1>6, <2>1, <2>2
      <4>2. \A i \in 1 .. Len(list) : list[i].id < msg.id
        BY <1>1, <2>2, <2>3
      <4>3. \A i \in 1 .. j - 1 : i \in 1 .. Len(list)
        BY <2>5, <3>2
      <4> QED BY <2>5, <3>2, <4>1, <4>2, <4>3
    <3> QED BY <2>5, <3>1, <3>2
  <2>7. ASSUME NEW b \in Address, NEW j \in 1 .. Len(mailbox'[b])
        PROVE  /\ LaterNext(mailbox'[b][j])
               /\ \A i \in 1 .. j - 1 : mailbox'[b][i].id < mailbox'[b][j].id
    <3>1. CASE b = a
      BY <2>4, <2>5, <2>6, <3>1
    <3>2. CASE b # a
      BY <1>3, <1>6, <2>1, <2>4, <3>2
    <3> QED BY <3>1, <3>2
  <2> QED BY <1>3, <1>4, <1>5, <1>6, <2>1, <2>7
<1>18. ASSUME NEW s \in Service, NEW x \in Subject, RequestQueued(s, x) PROVE AllInOrder'
  <2> DEFINE msg == NewRequest(s, x)
             list == queue[s]
  <2>1. /\ queue' = [queue EXCEPT ![s] = Append(list, msg)]
        /\ UNCHANGED <<delivered, mailbox>> /\ list \in Seq(Request)
    BY <1>1, <1>18 DEF RequestQueued
  <2>2. msg \in Request /\ msg.id = sent + 1 /\ LaterThanDelivered(msg)
    BY NewTypes, NewIsLater
  <2>3. \A j \in 1 .. Len(list) : /\ LaterNext(list[j]) /\ list[j].id \in 1 .. sent
                                  /\ \A i \in 1 .. j - 1 : list[i].id < list[j].id
    BY <1>2, <1>3, <1>6, <2>1
  <2>4. queue'[s] = Append(list, msg) /\ \A t \in Service : t # s => queue'[t] = queue[t]
    BY <1>1, <2>1
  <2> HIDE DEF msg, list
  <2>5. /\ Len(list) \in Nat /\ Len(Append(list, msg)) = Len(list) + 1
        /\ Append(list, msg)[Len(list) + 1] = msg
        /\ \A i \in 1 .. Len(list) : Append(list, msg)[i] = list[i]
    BY <2>1, <2>2, AppendFacts
  <2>6. ASSUME NEW j \in 1 .. Len(list) + 1
        PROVE  /\ LaterNext(Append(list, msg)[j])
               /\ \A i \in 1 .. j - 1 : Append(list, msg)[i].id < Append(list, msg)[j].id
    <3>1. CASE j \in 1 .. Len(list)
      BY <2>3, <2>5, <3>1
    <3>2. CASE j = Len(list) + 1
      <4>1. LaterNext(msg)
        BY <1>6, <2>1, <2>2
      <4>2. \A i \in 1 .. Len(list) : list[i].id < msg.id
        BY <1>1, <2>2, <2>3
      <4>3. \A i \in 1 .. j - 1 : i \in 1 .. Len(list)
        BY <2>5, <3>2
      <4> QED BY <2>5, <3>2, <4>1, <4>2, <4>3
    <3> QED BY <2>5, <3>1, <3>2
  <2>7. ASSUME NEW t \in Service, NEW j \in 1 .. Len(queue'[t])
        PROVE  /\ LaterNext(queue'[t][j])
               /\ \A i \in 1 .. j - 1 : queue'[t][i].id < queue'[t][j].id
    <3>1. CASE t = s
      BY <2>4, <2>5, <2>6, <3>1
    <3>2. CASE t # s
      BY <1>3, <1>6, <2>1, <2>4, <3>2
    <3> QED BY <3>1, <3>2
  <2> QED BY <1>3, <1>4, <1>5, <1>6, <2>1, <2>7
<1> QED BY <1>8, <1>9, <1>10, <1>12, <1>14, <1>15, <1>16, <1>17, <1>18 DEF MessagesMove

-----------------------------------------------------------------------------
\* The right client

\* m goes to p with good reason: p owns the address of the mail, or has an
\* offer that takes the request.
GoodReason(p, m) ==
  /\ state'[p] = "connected"
  /\ IF IsMail(m) THEN address'[p] = m.to
     ELSE \E k \in DOMAIN offers[m.to] :
            offers[m.to][k].client = p /\ m.subject \in offers[m.to][k].pattern

AllForGoodReason ==
  \A i \in NewDeliveries :
    LET p == delivered'[i].to
        m == delivered'[i].msg
    IN /\ state'[p] = "connected"
       /\ IF IsMail(m) THEN address'[p] = m.to
          ELSE \E k \in DOMAIN offers[m.to] :
                 offers[m.to][k].client = p /\ m.subject \in offers[m.to][k].pattern

LEMMA DeliverRight ==
  ASSUME TypeOK, NEW p \in Peer, NEW msgs \in Seq(Mail \cup Request), Deliver(p, msgs),
         \A i \in 1 .. Len(msgs) : GoodReason(p, msgs[i])
  PROVE  AllForGoodReason
<1> DEFINE n == Len(delivered)
<1>1. /\ n \in Nat /\ Len(msgs) \in Nat
      /\ Len(delivered') = n + Len(msgs)
      /\ \A i \in 1 .. Len(msgs) : delivered'[n + i] = [to |-> p, msg |-> msgs[i]]
  BY DeliverFacts
<1> SUFFICES ASSUME NEW i \in n + 1 .. Len(delivered')
             PROVE  GoodReason(delivered'[i].to, delivered'[i].msg)
  BY DEF AllForGoodReason, NewDeliveries, GoodReason
<1> HIDE DEF n
<1> DEFINE k == i - n
<1>2. k \in 1 .. Len(msgs) /\ n + k = i
  BY <1>1
<1> HIDE DEF k
<1>3. delivered'[i] = [to |-> p, msg |-> msgs[k]]
  BY <1>1, <1>2, Zenon
<1>4. delivered'[i].to = p /\ delivered'[i].msg = msgs[k]
  BY <1>3
<1>5. GoodReason(p, msgs[k])
  BY <1>2
<1> QED BY <1>4, <1>5, Zenon DEF GoodReason

LEMMA DeliverOneRight ==
  ASSUME TypeOK, NEW p \in Peer, NEW msg \in Mail \cup Request, Deliver(p, <<msg>>),
         GoodReason(p, msg)
  PROVE  AllForGoodReason
<1> DEFINE msgs == <<msg>>
<1>1. /\ msgs \in Seq(Mail \cup Request) /\ Deliver(p, msgs)
      /\ Len(msgs) = 1 /\ \A i \in 1 .. 1 : msgs[i] = msg
  OBVIOUS
<1> HIDE DEF msgs
<1>2. \A i \in 1 .. Len(msgs) : GoodReason(p, msgs[i])
  <2> SUFFICES ASSUME NEW i \in 1 .. Len(msgs) PROVE GoodReason(p, msgs[i])
    OBVIOUS
  <2>1. msgs[i] = msg
    BY <1>1
  <2> QED BY <2>1, Zenon
<1> QED BY <1>1, <1>2, DeliverRight

LEMMA NothingNew ==
  ASSUME TypeOK, UNCHANGED delivered
  PROVE  AllForGoodReason
<1>1. Len(delivered) \in Nat
  BY DEF TypeOK
<1>2. Len(delivered) + 1 .. Len(delivered') = {}
  BY <1>1
<1> QED BY <1>2 DEF AllForGoodReason, NewDeliveries

\* The offer that TakerOf picks is of a client that is connected.
LEMMA TakerIsGood ==
  ASSUME Inv, NEW s \in Service, NEW msg \in Request, msg.to = s,
         TakerOf(offers[s], msg.subject) # 0, UNCHANGED state
  PROVE  LET p == offers[s][TakerOf(offers[s], msg.subject)].client
         IN p \in Peer /\ GoodReason(p, msg)
<1> DEFINE k == TakerOf(offers[s], msg.subject)
           p == offers[s][k].client
<1>1. offers[s] \in Seq(Offer)
  BY DEF Inv, TypeOK
<1>2. k \in 1 .. Len(offers[s]) /\ msg.subject \in offers[s][k].pattern
  BY <1>1, TakerLemma
<1> HIDE DEF k
<1>3. k \in DOMAIN offers[s] /\ offers[s][k] \in Offer
  BY <1>1, <1>2
<1>4. p \in Peer /\ state[p] = "connected"
  BY <1>3 DEF Offer, Inv, OffersLive, Connected
<1>5. ~ IsMail(msg)
  BY NamesAssumption DEF IsMail
<1>6. GoodReason(p, msg)
  BY <1>2, <1>3, <1>4, <1>5 DEF GoodReason
<1> QED BY <1>4, <1>6 DEF k

LEMMA StepIsRight == Inv /\ Addressed /\ [Next]_vars => AllForGoodReason
<1> SUFFICES ASSUME Inv, Addressed, [Next]_vars PROVE AllForGoodReason
  OBVIOUS
<1>0. TypeOK
  BY DEF Inv
<1>1. ASSUME NEW p \in Peer, NEW a \in Address, ConnectionOpen(p, a)
      PROVE  AllForGoodReason
  <2>1. CASE a \notin Named
    BY <1>0, <1>1, <2>1, NothingNew DEF ConnectionOpen
  <2>2. CASE a \in Named
    <3> DEFINE mails == mailbox[a]
    <3>1. mails \in Seq(Mail) /\ \A j \in 1 .. Len(mails) : mails[j].to = a
      BY <1>0 DEF TypeOK, Addressed
    <3>2. Deliver(p, <<>> \o mails)
      BY <1>1, <2>2 DEF ConnectionOpen, CheckForMailboxMessages
    <3>3. state'[p] = "connected" /\ address'[p] = a
      BY <1>1 DEF ConnectionOpen
    <3> HIDE DEF mails
    <3>4. Deliver(p, mails)
      BY <3>1, <3>2, EmptyIsNeutral
    <3>5. mails \in Seq(Mail \cup Request)
      BY <3>1
    <3>6. \A j \in 1 .. Len(mails) : GoodReason(p, mails[j])
      BY <3>1, <3>3 DEF GoodReason, IsMail
    <3> QED BY <1>0, <3>4, <3>5, <3>6, DeliverRight
  <2> QED BY <2>1, <2>2
<1>2. ASSUME NEW p \in Peer, NEW a \in Address, MailboxSend(p, a)
      PROVE  AllForGoodReason
  <2>1. CASE clients[a] = NoPeer
    BY <1>0, <1>2, <2>1, NothingNew DEF MailboxSend
  <2>2. CASE clients[a] # NoPeer
    <3> DEFINE owner == clients[a]
               msg == NewMail(a)
    <3>1. owner \in Peer /\ a \in Named
      BY <1>0, <2>2 DEF TypeOK, Addressed, AnonymousFree, Named
    <3>2. mailbox[a] = <<>>
      BY <2>2, <3>1 DEF Inv, MailboxDrained
    <3>3. Deliver(owner, <<msg>> \o mailbox[a]) /\ UNCHANGED <<state, address>>
      BY <1>2, <2>2 DEF MailboxSend, CheckForMailboxMessages, NewMail, registry
    <3>4. msg \in Mail /\ msg.to = a
      BY <1>0, NewTypes
    <3>5. state[owner] = "connected" /\ address[owner] = a
      BY <3>1 DEF Inv, RegistryExact, Connected
    <3> HIDE DEF owner, msg
    <3>6. <<msg>> \o mailbox[a] = <<msg>>
      <4>1. <<msg>> \in Seq({msg})
        OBVIOUS
      <4> QED BY ONLY <3>2, <4>1, EmptyIsNeutral
    <3>7. GoodReason(owner, msg)
      BY <3>3, <3>4, <3>5 DEF GoodReason, IsMail
    <3> QED BY <1>0, <3>1, <3>3, <3>4, <3>6, <3>7, DeliverOneRight
  <2> QED BY <2>1, <2>2
<1>3. ASSUME NEW p \in Peer, NEW s \in Service, NEW x \in Subject, ServiceSend(p, s, x)
      PROVE  AllForGoodReason
  <2> DEFINE k == TakerOf(offers[s], x)
             msg == NewRequest(s, x)
  <2>1. CASE k = 0
    BY <1>0, <1>3, <2>1, NothingNew DEF ServiceSend
  <2>2. CASE k # 0
    <3>1. Deliver(offers[s][k].client, <<msg>>) /\ UNCHANGED state
      BY <1>3, <2>2 DEF ServiceSend, NewRequest, registry
    <3>2. msg \in Request /\ msg.to = s /\ msg.subject = x
      BY <1>0, NewTypes
    <3> HIDE DEF msg
    <3>3. offers[s][k].client \in Peer /\ GoodReason(offers[s][k].client, msg)
      BY <2>2, <3>1, <3>2, TakerIsGood
    <3> QED BY <1>0, <3>1, <3>2, <3>3, DeliverOneRight
  <2> QED BY <2>1, <2>2
<1>4. CASE DispatchRequest
  <2> DEFINE s == dispatching
             msg == queue[s][cursor]
             k == TakerOf(offers[s], msg.subject)
  <2>1. /\ s \in Service /\ msg \in Request /\ msg.to = s /\ UNCHANGED state
    BY <1>0, <1>4 DEF DispatchRequest, TypeOK, Addressed, registry
  <2>2. CASE k = 0
    BY <1>0, <1>4, <2>2, NothingNew DEF DispatchRequest
  <2>3. CASE k # 0
    <3>1. Deliver(offers[s][k].client, <<msg>>)
      BY <1>4, <2>3 DEF DispatchRequest
    <3> HIDE DEF s, msg
    <3>2. offers[s][k].client \in Peer /\ GoodReason(offers[s][k].client, msg)
      BY <2>1, <2>3, TakerIsGood
    <3> QED BY <1>0, <2>1, <3>1, <3>2, DeliverOneRight
  <2> QED BY <2>2, <2>3
<1>5. ASSUME NEW p \in Peer,
             \/ CommandInStart(p) \/ CloseInStart(p) \/ ConnectionClose(p)
             \/ CommandRefused(p) \/ Expired(p)
             \/ \E s \in Service, pattern \in Pattern : ServiceOffer(p, s, pattern)
      PROVE  AllForGoodReason
  <2>1. UNCHANGED delivered
    BY <1>5 DEF CommandInStart, CloseInStart, ConnectionClose, CommandRefused, Expired,
                ServiceOffer, history
  <2> QED BY <1>0, <2>1, NothingNew
<1>6. CASE DispatchDone \/ Stop \/ Restart \/ UNCHANGED vars
  <2>1. UNCHANGED delivered
    BY <1>6 DEF DispatchDone, Stop, Restart, vars, history
  <2> QED BY <1>0, <2>1, NothingNew
<1> QED BY <1>1, <1>2, <1>3, <1>4, <1>5, <1>6 DEF Next, Protocol, Dispatch

-----------------------------------------------------------------------------
\* Turns

\* An offer has no more turns to wait than it has patience left.
InTurn(list) == \A i \in 1 .. Len(list) : list[i].patience >= i - 1

AllInTurn == \A s \in Service : InTurn(offers[s])

\* The offers before the one that TakerOf picks do not match.
LEMMA TakerIsFirst ==
  ASSUME NEW list \in Seq(Offer), NEW subject, TakerOf(list, subject) # 0
  PROVE  \A i \in 1 .. TakerOf(list, subject) - 1 : subject \notin list[i].pattern
<1> DEFINE takers == {i \in DOMAIN list : subject \in list[i].pattern}
<1>1. takers # {} /\ takers \subseteq Nat
  BY DEF TakerOf
<1>2. TakerOf(list, subject) = CHOOSE i \in takers : \A j \in takers : i <= j
  BY <1>1 DEF TakerOf
<1>3. \E i \in takers : \A j \in takers : i <= j
  <2> HIDE DEF takers
  <2> QED BY LeastElement, <1>1
<1>4. TakerOf(list, subject) \in takers /\ \A j \in takers : TakerOf(list, subject) <= j
  <2> HIDE DEF takers
  <2> QED BY <1>2, <1>3, Zenon
<1> DEFINE k == TakerOf(list, subject)
<1>5. k \in 1 .. Len(list) /\ \A j \in takers : k <= j
  BY <1>4
<1> HIDE DEF k
<1>6. ASSUME NEW i \in 1 .. k - 1, subject \in list[i].pattern PROVE FALSE
  <2>1. i \in takers
    BY <1>5, <1>6
  <2> QED BY <1>5, <2>1
<1> QED BY <1>6 DEF k

LEMMA WithoutInTurn ==
  ASSUME NEW list \in Seq(Offer), NEW client, InTurn(list)
  PROVE  InTurn(Without(list, client))
<1> DEFINE kept == Without(list, client)
<1>1. /\ kept \in Seq(Offer)
      /\ \A i \in DOMAIN kept : \E j \in DOMAIN list : i <= j /\ kept[i] = list[j]
  BY WithoutLemma
<1> HIDE DEF kept
<1>2. ASSUME NEW i \in 1 .. Len(kept) PROVE kept[i].patience >= i - 1
  <2>1. PICK j \in DOMAIN list : i <= j /\ kept[i] = list[j]
    BY <1>1
  <2>2. list[j].patience >= j - 1 /\ j \in Nat /\ list[j] \in Offer
    BY DEF InTurn
  <2>3. list[j].patience \in Int
    BY <2>2 DEF Offer
  <2> QED BY <2>1, <2>2, <2>3
<1> QED BY <1>2 DEF InTurn, kept

\* The offer that is served goes to the end; every other moves up, or is
\* ahead of it and does not match.
LEMMA MovedInTurn ==
  ASSUME NEW list \in Seq(Offer), NEW subject, TakerOf(list, subject) # 0, InTurn(list)
  PROVE  InTurn(MovedToEnd(list, TakerOf(list, subject), subject))
<1> DEFINE k == TakerOf(list, subject)
           n == Len(list)
           served == Served(list, k, subject)
           rest == RemoveAt(served, k)
<1>1. k \in 1 .. n /\ n \in Nat
  BY TakerLemma
<1>2. \A i \in 1 .. k - 1 : subject \notin list[i].pattern
  BY TakerIsFirst
<1> HIDE DEF k
<1>3. DOMAIN list = 1 .. n /\ \A i \in 1 .. n : list[i] \in Offer
  OBVIOUS
<1>4. \A i \in 1 .. n : list[i].patience \in Int /\ list[i].patience >= i - 1
  BY <1>3 DEF Offer, InTurn
<1>5. ASSUME NEW i \in 1 .. n
      PROVE  /\ i = k => served[i].patience = n - 1
             /\ i < k => served[i].patience = list[i].patience
             /\ i > k => served[i].patience >= list[i].patience - 1
             /\ served[i].patience \in Int
  <2>0. list[i] \in Offer /\ list[i].patience \in Int /\ list[i].patience - 1 \in Int
    BY <1>3, <1>4
  <2>1. CASE i = k
    <3>1. served[i] = [list[i] EXCEPT !.patience = n - 1]
      BY <1>3, <2>1 DEF Served
    <3>2. served[i].patience = n - 1
      BY <2>0, <3>1 DEF Offer
    <3> QED BY <1>1, <2>1, <3>2
  <2>2. CASE i # k /\ subject \in list[i].pattern
    <3>1. served[i] = [list[i] EXCEPT !.patience = list[i].patience - 1]
      BY <1>3, <2>2 DEF Served
    <3>2. served[i].patience = list[i].patience - 1
      BY <2>0, <3>1 DEF Offer
    <3>3. ~ (i < k)
      BY <1>1, <1>2, <2>2
    <3> QED BY <1>1, <2>0, <2>2, <3>2, <3>3
  <2>3. CASE i # k /\ subject \notin list[i].pattern
    <3>1. served[i] = list[i]
      BY <1>3, <2>3 DEF Served
    <3> QED BY <1>1, <2>0, <2>3, <3>1
  <2> QED BY <2>1, <2>2, <2>3
<1>6. served \in Seq({served[i] : i \in 1 .. n}) /\ Len(served) = n
  <2>1. served = [i \in 1 .. n |-> served[i]]
    BY <1>3 DEF Served
  <2> HIDE DEF served
  <2>2. served \in [1 .. n -> {served[i] : i \in 1 .. n}]
    BY <2>1
  <2> QED BY <1>1, <2>2
<1>7. MovedToEnd(list, k, subject) = Append(rest, served[k])
  BY DEF MovedToEnd
<1> HIDE DEF served
<1>8. /\ rest \in Seq({served[i] : i \in 1 .. n}) /\ Len(rest) = n - 1
      /\ \A i \in 1 .. n - 1 : rest[i] = IF i < k THEN served[i] ELSE served[i + 1]
  <2> DEFINE T == {served[i] : i \in 1 .. n}
  <2>1. served \in Seq(T) /\ Len(served) = n /\ k \in 1 .. Len(served)
    BY <1>1, <1>6
  <2> HIDE DEF T, n
  <2>2. /\ RemoveAt(served, k) \in Seq(T) /\ Len(RemoveAt(served, k)) = Len(served) - 1
        /\ \A i \in 1 .. Len(served) - 1 :
             RemoveAt(served, k)[i] = IF i < k THEN served[i] ELSE served[i + 1]
    BY <2>1, RemoveAtLemma
  <2> QED BY <2>1, <2>2 DEF T
<1> HIDE DEF rest, n
<1>9. /\ Len(Append(rest, served[k])) = n
      /\ \A i \in 1 .. n - 1 : Append(rest, served[k])[i] = rest[i]
      /\ Append(rest, served[k])[n] = served[k]
  BY <1>1, <1>8
<1>10. ASSUME NEW i \in 1 .. n PROVE Append(rest, served[k])[i].patience >= i - 1
  <2>1. CASE i = n
    BY <1>1, <1>5, <1>9, <2>1
  <2>2. CASE i < n /\ i < k
    <3>1. Append(rest, served[k])[i] = served[i]
      BY <1>1, <1>8, <1>9, <2>2
    <3> QED BY <1>4, <1>5, <2>2, <3>1
  <2>3. CASE i < n /\ ~ (i < k)
    <3>1. Append(rest, served[k])[i] = served[i + 1] /\ i + 1 \in 1 .. n /\ i + 1 > k
      BY <1>1, <1>8, <1>9, <2>3
    <3>2. served[i + 1].patience >= list[i + 1].patience - 1
          /\ list[i + 1].patience >= (i + 1) - 1
          /\ list[i + 1].patience \in Int /\ served[i + 1].patience \in Int
      BY <1>4, <1>5, <3>1
    <3> QED BY <1>1, <3>1, <3>2
  <2>4. i = n \/ (i < n /\ i < k) \/ (i < n /\ ~ (i < k))
    BY ONLY <1>1, i \in 1 .. n
  <2> QED BY <2>1, <2>2, <2>3, <2>4
<1> QED BY <1>7, <1>9, <1>10 DEF InTurn, k

LEMMA TurnInit == Init => AllInTurn
BY DEF Init, AllInTurn, InTurn

LEMMA TurnStep == TypeOK /\ AllInTurn /\ [Next]_vars => AllInTurn'
<1> SUFFICES ASSUME TypeOK, AllInTurn, [Next]_vars PROVE AllInTurn'
  OBVIOUS
<1>1. offers \in [Service -> Seq(Offer)] /\ \A s \in Service : InTurn(offers[s])
  BY DEF TypeOK, AllInTurn
<1>2. ASSUME NEW client, offers' = [s \in Service |-> Without(offers[s], client)]
      PROVE  AllInTurn'
  <2>1. \A s \in Service : InTurn(Without(offers[s], client))
    BY <1>1, WithoutInTurn
  <2>2. \A s \in Service : offers'[s] = Without(offers[s], client)
    BY <1>2
  <2> QED BY <2>1, <2>2 DEF AllInTurn, InTurn
<1>3. CASE UNCHANGED offers
  BY <1>1, <1>3 DEF AllInTurn, InTurn
<1>4. ASSUME NEW s \in Service, NEW x, TakerOf(offers[s], x) # 0,
             offers' = [offers EXCEPT ![s] = MovedToEnd(offers[s], TakerOf(offers[s], x), x)]
      PROVE  AllInTurn'
  <2>1. InTurn(MovedToEnd(offers[s], TakerOf(offers[s], x), x))
    BY <1>1, <1>4, MovedInTurn
  <2>2. offers'[s] = MovedToEnd(offers[s], TakerOf(offers[s], x), x)
        /\ \A t \in Service : t # s => offers'[t] = offers[t]
    BY <1>1, <1>4
  <2> QED BY <1>1, <2>1, <2>2 DEF AllInTurn, InTurn
<1>5. ASSUME NEW p \in Peer, NEW a \in Address, ConnectionOpen(p, a) PROVE AllInTurn'
  BY <1>2, <1>5 DEF ConnectionOpen
<1>6. ASSUME NEW p \in Peer, ConnectionClose(p) \/ CommandRefused(p) \/ Expired(p)
      PROVE  AllInTurn'
  <2>1. DeregisterTheClient(p)
    BY <1>6 DEF ConnectionClose, CommandRefused, Expired
  <2> QED BY <1>2, <1>3, <2>1 DEF DeregisterTheClient
<1>7. ASSUME NEW p \in Peer, NEW s \in Service, NEW x \in Subject, ServiceSend(p, s, x)
      PROVE  AllInTurn'
  BY <1>3, <1>4, <1>7 DEF ServiceSend
<1>8. CASE DispatchRequest
  <2>1. dispatching \in Service
    BY <1>8 DEF DispatchRequest, TypeOK
  <2> QED BY <1>3, <1>4, <1>8, <2>1 DEF DispatchRequest, services
<1>9. ASSUME NEW p \in Peer, NEW s \in Service, NEW pattern \in Pattern,
             ServiceOffer(p, s, pattern)
      PROVE  AllInTurn'
  <2> DEFINE list == offers[s]
             offer == [client |-> p, pattern |-> pattern, patience |-> Len(list)]
  <2>1. offers' = [offers EXCEPT ![s] = Append(list, offer)]
    BY <1>9 DEF ServiceOffer
  <2>2. offers'[s] = Append(list, offer)
        /\ \A t \in Service : t # s => offers'[t] = offers[t]
    BY <1>1, <2>1
  <2>3. list \in Seq(Offer) /\ InTurn(list) /\ offer.patience = Len(list)
        /\ Len(list) \in Nat
    BY <1>1
  <2>4. offer \in Offer
    BY <2>3, PatternAssumption DEF Offer
  <2> HIDE DEF list, offer
  <2>5. /\ Len(Append(list, offer)) = Len(list) + 1
        /\ Append(list, offer)[Len(list) + 1] = offer
        /\ \A i \in 1 .. Len(list) : Append(list, offer)[i] = list[i]
    BY <2>3, <2>4, AppendFacts
  <2>6. InTurn(Append(list, offer))
    <3> SUFFICES ASSUME NEW i \in 1 .. Len(list) + 1
                 PROVE  Append(list, offer)[i].patience >= i - 1
      BY <2>5 DEF InTurn
    <3>1. CASE i \in 1 .. Len(list)
      BY <2>3, <2>5, <3>1 DEF InTurn
    <3>2. CASE i = Len(list) + 1
      BY <2>3, <2>5, <3>2
    <3> QED BY <2>3, <3>1, <3>2
  <2> QED BY <1>1, <2>2, <2>6 DEF AllInTurn, InTurn
<1>10. ASSUME NEW p \in Peer,
              \/ CommandInStart(p) \/ CloseInStart(p)
              \/ \E a \in Address : MailboxSend(p, a)
       PROVE  AllInTurn'
  BY <1>3, <1>10 DEF CommandInStart, CloseInStart, MailboxSend, services
<1>11. CASE DispatchDone \/ Stop \/ UNCHANGED vars
  BY <1>3, <1>11 DEF DispatchDone, Stop, vars, services
<1>12. CASE Restart
  BY <1>12 DEF Restart, AllInTurn, InTurn
<1> QED BY <1>5, <1>6, <1>7, <1>8, <1>9, <1>10, <1>11, <1>12 DEF Next, Protocol, Dispatch

-----------------------------------------------------------------------------
\* One place for each message

\* Mailboxes and queues alike are lists of messages by name.
NoneIn(lists, n) ==
  \A name \in DOMAIN lists : \A place \in 1 .. Len(lists[name]) : lists[name][place].id # n
OneIn(lists, n) ==
  \E here \in DOMAIN lists : \E spot \in 1 .. Len(lists[here]) :
    \A name \in DOMAIN lists : \A place \in 1 .. Len(lists[name]) :
      lists[name][place].id = n <=> name = here /\ place = spot

NoneDelivered(n) == \A j \in 1 .. Len(delivered) : delivered[j].msg.id # n
OneDelivered(n) ==
  \E i \in 1 .. Len(delivered) :
    \A j \in 1 .. Len(delivered) : delivered[j].msg.id = n <=> j = i

OnePlace(n) ==
  \/ OneDelivered(n) /\ n \notin discarded /\ NoneIn(mailbox, n) /\ NoneIn(queue, n)
  \/ NoneDelivered(n) /\ n \in discarded /\ NoneIn(mailbox, n) /\ NoneIn(queue, n)
  \/ NoneDelivered(n) /\ n \notin discarded /\ OneIn(mailbox, n) /\ NoneIn(queue, n)
  \/ NoneDelivered(n) /\ n \notin discarded /\ NoneIn(mailbox, n) /\ OneIn(queue, n)

AllPlaced == discarded \subseteq 1 .. sent /\ \A n \in 1 .. sent : OnePlace(n)

\* A message joins one of the lists.
Joins(lists, d, msg, longer) == longer = [lists EXCEPT ![d] = Append(lists[d], msg)]
Joined(lists, msg, longer, n) ==
  /\ NoneIn(lists, n) /\ msg.id # n => NoneIn(longer, n)
  /\ OneIn(lists, n) /\ msg.id # n => OneIn(longer, n)
  /\ NoneIn(lists, n) /\ msg.id = n => OneIn(longer, n)

LEMMA JoinPlace ==
  ASSUME NEW lists, NEW d \in DOMAIN lists, NEW S, lists[d] \in Seq(S), NEW msg \in S, NEW n,
         NEW longer, Joins(lists, d, msg, longer)
  PROVE  Joined(lists, msg, longer, n)
<1> DEFINE D == DOMAIN lists
           k == Len(lists[d])
<1>1. DOMAIN lists = D /\ DOMAIN longer = D /\ k \in Nat /\ d \in D
  BY DEF Joins
<1>2. \A e \in D : e # d => longer[e] = lists[e]
  BY DEF Joins
<1> HIDE DEF D
<1>3. Len(longer[d]) = k + 1 /\ longer[d][k + 1] = msg
      /\ \A i \in 1 .. k : longer[d][i] = lists[d][i]
  <2>1. longer[d] = Append(lists[d], msg) /\ lists[d] \in Seq(S)
    BY DEF Joins
  <2> QED BY <2>1, AppendFacts
<1>4. ASSUME NEW e \in D, NEW j \in 1 .. Len(longer[e])
      PROVE  \/ j \in 1 .. Len(lists[e]) /\ longer[e][j] = lists[e][j]
             \/ e = d /\ j = k + 1 /\ longer[e][j] = msg
  BY <1>1, <1>2, <1>3
<1>5. \A e \in D : \A j \in 1 .. Len(lists[e]) :
        j \in 1 .. Len(longer[e]) /\ (e = d => j # k + 1)
  BY <1>1, <1>2, <1>3
<1>6. NoneIn(lists, n) /\ msg.id # n => NoneIn(longer, n)
  BY <1>1, <1>4 DEF NoneIn
<1>7. ASSUME OneIn(lists, n), msg.id # n PROVE OneIn(longer, n)
  <2>0. PICK c \in D : \E i \in 1 .. Len(lists[c]) :
          \A e \in D : \A j \in 1 .. Len(lists[e]) : lists[e][j].id = n <=> e = c /\ j = i
    BY <1>7 DEF OneIn, D
  <2>1. PICK i \in 1 .. Len(lists[c]) :
          \A e \in D : \A j \in 1 .. Len(lists[e]) : lists[e][j].id = n <=> e = c /\ j = i
    BY <2>0
  <2>2. i \in 1 .. Len(longer[c]) /\ (c = d => i # k + 1)
    BY <1>5
  <2>3. ASSUME NEW e \in D, NEW j \in 1 .. Len(longer[e])
        PROVE  longer[e][j].id = n <=> e = c /\ j = i
    <3>1. CASE j \in 1 .. Len(lists[e]) /\ longer[e][j] = lists[e][j]
      BY <2>1, <3>1
    <3>2. CASE e = d /\ j = k + 1 /\ longer[e][j] = msg
      BY <1>7, <2>2, <3>2
    <3> QED BY <1>4, <3>1, <3>2
  <2>4. c \in DOMAIN longer /\ DOMAIN longer = D
    BY <1>1
  <2> QED BY <2>2, <2>3, <2>4 DEF OneIn
<1>8. ASSUME NoneIn(lists, n), msg.id = n PROVE OneIn(longer, n)
  <2>1. k + 1 \in 1 .. Len(longer[d])
    BY <1>1, <1>3
  <2>2. ASSUME NEW e \in D, NEW j \in 1 .. Len(longer[e])
        PROVE  longer[e][j].id = n <=> e = d /\ j = k + 1
    <3>1. CASE j \in 1 .. Len(lists[e]) /\ longer[e][j] = lists[e][j]
      <4>1. lists[e][j].id # n /\ ~ (e = d /\ j = k + 1)
        BY <1>1, <1>5, <1>8, <3>1 DEF NoneIn
      <4> QED BY <3>1, <4>1
    <3>2. CASE e = d /\ j = k + 1 /\ longer[e][j] = msg
      BY <1>8, <3>2
    <3> QED BY <1>4, <3>1, <3>2
  <2> QED BY <1>1, <2>1, <2>2 DEF OneIn
<1> QED BY <1>6, <1>7, <1>8 DEF Joined

\* A whole list leaves.
Empties(lists, d, rest) == rest = [lists EXCEPT ![d] = <<>>]
Emptied(lists, list, rest, n) ==
  /\ NoneIn(lists, n) => NoneIn(rest, n)
  /\ OneIn(lists, n) =>
       \/ OneIn(rest, n) /\ \A k \in 1 .. Len(list) : list[k].id # n
       \/ /\ NoneIn(rest, n)
          /\ \E i \in 1 .. Len(list) : \A k \in 1 .. Len(list) : list[k].id = n <=> k = i

LEMMA EmptyPlace ==
  ASSUME NEW lists, NEW d \in DOMAIN lists, NEW S, lists[d] \in Seq(S), NEW n,
         NEW rest, Empties(lists, d, rest)
  PROVE  Emptied(lists, lists[d], rest, n)
<1> DEFINE D == DOMAIN lists
<1>1. DOMAIN lists = D /\ DOMAIN rest = D /\ Len(rest[d]) = 0
  BY DEF Empties
<1>2. \A e \in D : e # d => rest[e] = lists[e]
  BY DEF Empties
<1>3. NoneIn(lists, n) => NoneIn(rest, n)
  BY <1>1, <1>2 DEF NoneIn
<1>4. ASSUME OneIn(lists, n)
      PROVE  \/ OneIn(rest, n) /\ \A k \in 1 .. Len(lists[d]) : lists[d][k].id # n
             \/ /\ NoneIn(rest, n)
                /\ \E i \in 1 .. Len(lists[d]) : \A k \in 1 .. Len(lists[d]) :
                     lists[d][k].id = n <=> k = i
  <2>0. PICK c \in D : \E i \in 1 .. Len(lists[c]) :
          \A e \in D : \A j \in 1 .. Len(lists[e]) : lists[e][j].id = n <=> e = c /\ j = i
    BY <1>1, <1>4 DEF OneIn
  <2>1. PICK i \in 1 .. Len(lists[c]) :
          \A e \in D : \A j \in 1 .. Len(lists[e]) : lists[e][j].id = n <=> e = c /\ j = i
    BY <2>0
  <2>2. CASE c = d
    <3>1. NoneIn(rest, n)
      BY <1>1, <1>2, <2>1, <2>2 DEF NoneIn
    <3> QED BY <2>1, <2>2, <3>1
  <2>3. CASE c # d
    <3>1. OneIn(rest, n)
      <4>1. i \in 1 .. Len(rest[c])
        BY <1>2, <2>3
      <4>2. ASSUME NEW e \in D, NEW j \in 1 .. Len(rest[e])
            PROVE  rest[e][j].id = n <=> e = c /\ j = i
        <5>1. e # d /\ rest[e] = lists[e]
          BY <1>1, <1>2
        <5> QED BY <2>1, <5>1
      <4>3. c \in DOMAIN rest /\ DOMAIN rest = D
        BY <1>1
      <4> HIDE DEF D
      <4> QED BY <4>1, <4>2, <4>3 DEF OneIn
    <3> QED BY <2>1, <2>3, <3>1
  <2> QED BY <2>2, <2>3
<1> QED BY <1>3, <1>4 DEF Emptied

\* One message leaves.
Leaves(lists, d, c, rest) == rest = [lists EXCEPT ![d] = RemoveAt(lists[d], c)]
LeftBy(lists, msg, rest, n) ==
  /\ NoneIn(lists, n) => NoneIn(rest, n)
  /\ OneIn(lists, n) /\ msg.id # n => OneIn(rest, n)
  /\ OneIn(lists, n) /\ msg.id = n => NoneIn(rest, n)

LEMMA LeavePlace ==
  ASSUME NEW lists, NEW d \in DOMAIN lists, NEW S, lists[d] \in Seq(S),
         NEW c \in 1 .. Len(lists[d]), NEW n, NEW rest, Leaves(lists, d, c, rest)
  PROVE  LeftBy(lists, lists[d][c], rest, n)
<1> DEFINE D == DOMAIN lists
           k == Len(lists[d])
<1>1. DOMAIN lists = D /\ DOMAIN rest = D /\ k \in Nat /\ c \in 1 .. k
  BY DEF Leaves
<1>2. \A e \in D : e # d => rest[e] = lists[e]
  BY DEF Leaves
<1>3. /\ Len(rest[d]) = k - 1
      /\ \A i \in 1 .. k - 1 : rest[d][i] = IF i < c THEN lists[d][i] ELSE lists[d][i + 1]
  <2> DEFINE list == lists[d]
  <2>1. rest[d] = RemoveAt(list, c) /\ list \in Seq(S) /\ c \in 1 .. Len(list)
    BY DEF Leaves
  <2> HIDE DEF list
  <2>2. /\ Len(RemoveAt(list, c)) = Len(list) - 1
        /\ \A i \in 1 .. Len(list) - 1 :
             RemoveAt(list, c)[i] = IF i < c THEN list[i] ELSE list[i + 1]
    BY <2>1, RemoveAtLemma
  <2> QED BY <2>1, <2>2, Zenon DEF list
\* Where a message of rest was before.
<1>4. ASSUME NEW e \in D, NEW j \in 1 .. Len(rest[e])
      PROVE  \E i \in 1 .. Len(lists[e]) :
               /\ rest[e][j] = lists[e][i] /\ ~ (e = d /\ i = c)
               /\ i = IF e = d /\ j >= c THEN j + 1 ELSE j
  <2>1. CASE e # d
    BY <1>2, <2>1
  <2>2. CASE e = d /\ j < c
    <3>1. j \in 1 .. k /\ rest[e][j] = lists[e][j]
      BY <1>1, <1>3, <2>2
    <3> QED BY <1>1, <2>2, <3>1
  <2>3. CASE e = d /\ ~ (j < c)
    <3>1. j + 1 \in 1 .. k /\ rest[e][j] = lists[e][j + 1] /\ j >= c /\ j + 1 # c
      BY <1>1, <1>3, <2>3
    <3> QED BY <2>3, <3>1
  <2> QED BY <2>1, <2>2, <2>3
<1>5. ASSUME NoneIn(lists, n) PROVE NoneIn(rest, n)
  <2>1. ASSUME NEW e \in D, NEW j \in 1 .. Len(rest[e]) PROVE rest[e][j].id # n
    <3>1. PICK i \in 1 .. Len(lists[e]) : rest[e][j] = lists[e][i]
      BY <1>4
    <3> QED BY <1>5, <3>1 DEF NoneIn
  <2> QED BY <1>1, <2>1 DEF NoneIn
<1>6. ASSUME OneIn(lists, n)
      PROVE  /\ lists[d][c].id # n => OneIn(rest, n)
             /\ lists[d][c].id = n => NoneIn(rest, n)
  <2>0. PICK b \in D : \E i \in 1 .. Len(lists[b]) :
          \A e \in D : \A j \in 1 .. Len(lists[e]) : lists[e][j].id = n <=> e = b /\ j = i
    BY <1>1, <1>6 DEF OneIn
  <2>1. PICK i \in 1 .. Len(lists[b]) :
          \A e \in D : \A j \in 1 .. Len(lists[e]) : lists[e][j].id = n <=> e = b /\ j = i
    BY <2>0
  <2>2. ASSUME lists[d][c].id = n PROVE NoneIn(rest, n)
    <3>1. b = d /\ i = c
      BY <1>1, <2>1, <2>2
    <3> QED BY <1>1, <1>4, <2>1, <3>1 DEF NoneIn
  <2>3. ASSUME lists[d][c].id # n PROVE OneIn(rest, n)
    <3> DEFINE ii == IF b = d /\ i > c THEN i - 1 ELSE i
    <3>1. ~ (b = d /\ i = c)
      BY <2>1, <2>3
    <3>2. ii \in 1 .. Len(rest[b])
      <4>1. CASE b # d
        BY <1>2, <4>1
      <4>2. CASE b = d
        BY <1>1, <1>3, <3>1, <4>2
      <4> QED BY <4>1, <4>2
    <3>3. ASSUME NEW e \in D, NEW j \in 1 .. Len(rest[e])
          PROVE  rest[e][j].id = n <=> e = b /\ j = ii
      <4>1. PICK h \in 1 .. Len(lists[e]) :
               /\ rest[e][j] = lists[e][h] /\ ~ (e = d /\ h = c)
               /\ h = IF e = d /\ j >= c THEN j + 1 ELSE j
        BY <1>4
      <4>2. rest[e][j].id = n <=> e = b /\ h = i
        BY <2>1, <4>1
      <4>3. i \in Int /\ j \in Int /\ c \in Int
        OBVIOUS
      <4>4. e = b => (h = i <=> j = ii)
        BY <3>1, <4>1, <4>3
      <4> QED BY <4>2, <4>4
    <3> HIDE DEF ii
    <3>4. b \in DOMAIN rest /\ DOMAIN rest = D
      BY <1>1
    <3> QED BY <3>2, <3>3, <3>4 DEF OneIn
  <2> QED BY <2>2, <2>3
<1> QED BY <1>5, <1>6 DEF LeftBy

\* Messages join those delivered.
LEMMA DeliverPlace ==
  ASSUME TypeOK, NEW p \in Peer, NEW msgs \in Seq(Mail \cup Request), Deliver(p, msgs), NEW n
  PROVE  /\ (\A k \in 1 .. Len(msgs) : msgs[k].id # n) =>
              /\ NoneDelivered(n) => NoneDelivered(n)'
              /\ OneDelivered(n) => OneDelivered(n)'
         /\ NoneDelivered(n)
            /\ (\E i \in 1 .. Len(msgs) : \A k \in 1 .. Len(msgs) : msgs[k].id = n <=> k = i)
            => OneDelivered(n)'
<1> DEFINE m == Len(delivered)
<1>1. /\ m \in Nat /\ Len(msgs) \in Nat
      /\ Len(delivered') = m + Len(msgs)
      /\ \A i \in 1 .. m : delivered'[i] = delivered[i]
      /\ \A i \in 1 .. Len(msgs) : delivered'[m + i] = [to |-> p, msg |-> msgs[i]]
  BY DeliverFacts
<1> HIDE DEF m
<1>2. ASSUME NEW j \in 1 .. Len(delivered')
      PROVE  \/ j \in 1 .. m /\ delivered'[j].msg = delivered[j].msg
             \/ j - m \in 1 .. Len(msgs) /\ delivered'[j].msg = msgs[j - m]
  <2>1. CASE j \in 1 .. m
    BY <1>1, <2>1
  <2>2. CASE j \notin 1 .. m
    <3> DEFINE k == j - m
    <3>1. k \in 1 .. Len(msgs) /\ m + k = j
      BY <1>1, <2>2
    <3> HIDE DEF k
    <3>2. delivered'[j] = [to |-> p, msg |-> msgs[k]]
      BY <1>1, <3>1, Zenon
    <3> QED BY <3>1, <3>2 DEF k
  <2> QED BY <2>1, <2>2
<1>3. ASSUME \A k \in 1 .. Len(msgs) : msgs[k].id # n, NoneDelivered(n)
      PROVE  NoneDelivered(n)'
  BY <1>2, <1>3 DEF NoneDelivered, m
<1>4. ASSUME \A k \in 1 .. Len(msgs) : msgs[k].id # n, OneDelivered(n)
      PROVE  OneDelivered(n)'
  <2>1. PICK i \in 1 .. m : \A j \in 1 .. m : delivered[j].msg.id = n <=> j = i
    BY <1>4 DEF OneDelivered, m
  <2>2. i \in 1 .. Len(delivered')
    BY <1>1
  <2>3. ASSUME NEW j \in 1 .. Len(delivered') PROVE delivered'[j].msg.id = n <=> j = i
    <3>1. CASE j \in 1 .. m /\ delivered'[j].msg = delivered[j].msg
      BY <2>1, <3>1
    <3>2. CASE j - m \in 1 .. Len(msgs) /\ delivered'[j].msg = msgs[j - m]
      <4>1. delivered'[j].msg.id # n
        BY <1>4, <3>2
      <4>2. j # i
        BY <1>1, <3>2
      <4> QED BY <4>1, <4>2
    <3> QED BY <1>2, <3>1, <3>2
  <2> QED BY <2>2, <2>3 DEF OneDelivered
<1>5. ASSUME NoneDelivered(n), NEW i \in 1 .. Len(msgs),
             \A k \in 1 .. Len(msgs) : msgs[k].id = n <=> k = i
      PROVE  OneDelivered(n)'
  <2>1. m + i \in 1 .. Len(delivered')
    BY <1>1
  <2>2. ASSUME NEW j \in 1 .. Len(delivered') PROVE delivered'[j].msg.id = n <=> j = m + i
    <3>1. CASE j \in 1 .. m /\ delivered'[j].msg = delivered[j].msg
      <4>1. delivered'[j].msg.id # n
        BY <1>5, <3>1 DEF NoneDelivered, m
      <4>2. j # m + i
        BY <1>1, <3>1
      <4> QED BY <4>1, <4>2
    <3>2. CASE j - m \in 1 .. Len(msgs) /\ delivered'[j].msg = msgs[j - m]
      <4>1. j - m = i <=> j = m + i
        BY <1>1
      <4> QED BY <1>5, <3>2, <4>1
    <3> QED BY <1>2, <3>1, <3>2
  <2> QED BY <2>1, <2>2 DEF OneDelivered
<1> QED BY <1>3, <1>4, <1>5

LEMMA DeliverOnePlace ==
  ASSUME TypeOK, NEW p \in Peer, NEW msg \in Mail \cup Request, Deliver(p, <<msg>>), NEW n
  PROVE  /\ msg.id # n => /\ NoneDelivered(n) => NoneDelivered(n)'
                          /\ OneDelivered(n) => OneDelivered(n)'
         /\ msg.id = n /\ NoneDelivered(n) => OneDelivered(n)'
<1> DEFINE msgs == <<msg>>
<1>1. /\ msgs \in Seq(Mail \cup Request) /\ Deliver(p, msgs)
      /\ Len(msgs) = 1 /\ \A i \in 1 .. 1 : msgs[i] = msg /\ i = 1
  OBVIOUS
<1> HIDE DEF msgs
<1>2. 1 \in 1 .. Len(msgs)
  BY <1>1
<1>3. ASSUME msg.id # n PROVE \A k \in 1 .. Len(msgs) : msgs[k].id # n
  BY <1>1, <1>3
<1>4. ASSUME msg.id = n PROVE \A k \in 1 .. Len(msgs) : msgs[k].id = n <=> k = 1
  BY <1>1, <1>4
<1> QED BY <1>1, <1>2, <1>3, <1>4, DeliverPlace

\* Of a number that was not given yet there is nothing.
LEMMA NewNumber ==
  ASSUME TypeOK, Addressed, AllPlaced
  PROVE  /\ NoneDelivered(sent + 1) /\ sent + 1 \notin discarded
         /\ NoneIn(mailbox, sent + 1) /\ NoneIn(queue, sent + 1)
<1>1. sent \in Nat /\ DOMAIN mailbox = Address /\ DOMAIN queue = Service
  BY DEF TypeOK
<1>2. \A x : x \in 1 .. sent => x # sent + 1
  BY <1>1
<1> QED BY <1>1, <1>2 DEF Addressed, Known, AllPlaced, NoneDelivered, NoneIn

LEMMA PlacedInit == Init => AllPlaced
<1> SUFFICES ASSUME Init PROVE AllPlaced
  OBVIOUS
<1>1. 1 .. sent = {} /\ discarded = {}
  BY DEF Init
<1> QED BY <1>1 DEF AllPlaced

LEMMA PlacedMoves ==
  ASSUME TypeOK, Addressed, AllPlaced, MessagesMove
  PROVE  AllPlaced'
<1>1. /\ mailbox \in [Address -> Seq(Mail)] /\ queue \in [Service -> Seq(Request)]
      /\ sent \in Nat /\ sent + 1 \in Nat
  BY DEF TypeOK
<1>2. discarded \subseteq 1 .. sent /\ \A n \in 1 .. sent : OnePlace(n)
  BY DEF AllPlaced
<1>3. \A n \in 1 .. sent + 1 : n \in 1 .. sent \/ n = sent + 1
  BY <1>1
<1>4. \A x \in 1 .. sent : x \in 1 .. sent + 1 /\ x # sent + 1
  BY <1>1
<1>5. /\ sent' = sent /\ discarded' = discarded => discarded' \subseteq 1 .. sent'
      /\ sent' = sent + 1 /\ discarded' \subseteq discarded \cup {sent + 1}
         => discarded' \subseteq 1 .. sent'
  <2>1. sent + 1 \in 1 .. sent + 1 /\ discarded \subseteq 1 .. sent + 1
    BY <1>1, <1>2, <1>4
  <2> QED BY <1>2, <2>1
<1>6. UNCHANGED delivered =>
        \A n : /\ NoneDelivered(n) => NoneDelivered(n)'
               /\ OneDelivered(n) => OneDelivered(n)'
  BY DEF NoneDelivered, OneDelivered
<1>7. UNCHANGED mailbox =>
        \A n : /\ NoneIn(mailbox, n) => NoneIn(mailbox, n)'
               /\ OneIn(mailbox, n) => OneIn(mailbox, n)'
  BY DEF NoneIn, OneIn
<1>8. UNCHANGED queue =>
        \A n : /\ NoneIn(queue, n) => NoneIn(queue, n)'
               /\ OneIn(queue, n) => OneIn(queue, n)'
  BY DEF NoneIn, OneIn
<1>9. /\ NoneDelivered(sent + 1) /\ sent + 1 \notin discarded
      /\ NoneIn(mailbox, sent + 1) /\ NoneIn(queue, sent + 1)
  BY NewNumber
<1>10. (\A n \in 1 .. sent' : OnePlace(n)') /\ discarded' \subseteq 1 .. sent' => AllPlaced'
  BY DEF AllPlaced, OnePlace, NoneIn, OneIn, NoneDelivered, OneDelivered
<1>11. CASE NothingMoves
  <2>1. \A n \in 1 .. sent : OnePlace(n)'
    BY <1>2, <1>6, <1>7, <1>8, <1>11 DEF NothingMoves, OnePlace
  <2> QED BY <1>5, <1>10, <1>11, <2>1 DEF NothingMoves
<1>12. CASE MessageDropped
  <2>1. UNCHANGED <<delivered, mailbox, queue>> /\ sent' = sent + 1
        /\ discarded' = discarded \cup {sent + 1}
    BY <1>12 DEF MessageDropped
  <2>2. \A n : n = sent + 1 => OnePlace(n)'
    BY <1>6, <1>7, <1>8, <1>9, <2>1 DEF OnePlace
  <2>3. \A n \in 1 .. sent : OnePlace(n)'
    BY <1>2, <1>4, <1>6, <1>7, <1>8, <2>1 DEF OnePlace
  <2> QED BY <1>3, <1>5, <1>10, <2>1, <2>2, <2>3
\* A new message is delivered.
<1>13. ASSUME NEW p \in Peer, NEW msg \in Mail \cup Request, msg.id = sent + 1,
              Deliver(p, <<msg>>), sent' = sent + 1, UNCHANGED <<mailbox, queue, discarded>>
       PROVE  AllPlaced'
  <2>1. \A n : /\ n # sent + 1 => /\ NoneDelivered(n) => NoneDelivered(n)'
                                  /\ OneDelivered(n) => OneDelivered(n)'
               /\ n = sent + 1 /\ NoneDelivered(n) => OneDelivered(n)'
    BY <1>13, DeliverOnePlace
  <2>2. \A n : n = sent + 1 => OnePlace(n)'
    BY <1>7, <1>8, <1>9, <1>13, <2>1 DEF OnePlace
  <2>3. \A n \in 1 .. sent : OnePlace(n)'
    BY <1>2, <1>4, <1>7, <1>8, <1>13, <2>1 DEF OnePlace
  <2> QED BY <1>3, <1>5, <1>10, <1>13, <2>2, <2>3
<1>14. ASSUME NEW p \in Peer, NEW a \in Address, MailDelivered(p, a) PROVE AllPlaced'
  BY <1>13, <1>14, NewTypes DEF MailDelivered
<1>15. ASSUME NEW p \in Peer, NEW s \in Service, NEW x \in Subject, RequestDelivered(p, s, x)
       PROVE  AllPlaced'
  BY <1>13, <1>15, NewTypes DEF RequestDelivered
<1>16. ASSUME NEW a \in Address, MailStored(a) PROVE AllPlaced'
  <2> DEFINE msg == NewMail(a)
  <2>1. /\ mailbox' = [mailbox EXCEPT ![a] = Append(mailbox[a], msg)]
        /\ sent' = sent + 1 /\ UNCHANGED <<delivered, queue, discarded>>
    BY <1>16 DEF MailStored
  <2>2. msg \in Mail /\ msg.id = sent + 1
    BY NewTypes
  <2> HIDE DEF msg
  <2>3. \A n : /\ n # sent + 1 => /\ NoneIn(mailbox, n) => NoneIn(mailbox, n)'
                                  /\ OneIn(mailbox, n) => OneIn(mailbox, n)'
               /\ n = sent + 1 /\ NoneIn(mailbox, n) => OneIn(mailbox, n)'
    <3> SUFFICES ASSUME NEW n PROVE Joined(mailbox, msg, mailbox', n)
      BY <2>2 DEF Joined, NoneIn, OneIn
    <3>1. a \in DOMAIN mailbox /\ mailbox[a] \in Seq(Mail)
      BY <1>1
    <3>2. Joins(mailbox, a, msg, mailbox')
      BY <2>1 DEF Joins
    <3> QED BY <2>2, <3>1, <3>2, JoinPlace
  <2>4. \A n : n = sent + 1 => OnePlace(n)'
    BY <1>6, <1>8, <1>9, <2>1, <2>3 DEF OnePlace
  <2>5. \A n \in 1 .. sent : OnePlace(n)'
    BY <1>2, <1>4, <1>6, <1>8, <2>1, <2>3 DEF OnePlace
  <2> QED BY <1>3, <1>5, <1>10, <2>1, <2>4, <2>5
<1>17. ASSUME NEW s \in Service, NEW x \in Subject, RequestQueued(s, x) PROVE AllPlaced'
  <2> DEFINE msg == NewRequest(s, x)
  <2>1. /\ queue' = [queue EXCEPT ![s] = Append(queue[s], msg)]
        /\ sent' = sent + 1 /\ UNCHANGED <<delivered, mailbox, discarded>>
    BY <1>17 DEF RequestQueued
  <2>2. msg \in Request /\ msg.id = sent + 1
    BY NewTypes
  <2> HIDE DEF msg
  <2>3. \A n : /\ n # sent + 1 => /\ NoneIn(queue, n) => NoneIn(queue, n)'
                                  /\ OneIn(queue, n) => OneIn(queue, n)'
               /\ n = sent + 1 /\ NoneIn(queue, n) => OneIn(queue, n)'
    <3> SUFFICES ASSUME NEW n PROVE Joined(queue, msg, queue', n)
      BY <2>2 DEF Joined, NoneIn, OneIn
    <3>1. s \in DOMAIN queue /\ queue[s] \in Seq(Request)
      BY <1>1
    <3>2. Joins(queue, s, msg, queue')
      BY <2>1 DEF Joins
    <3> QED BY <2>2, <3>1, <3>2, JoinPlace
  <2>4. \A n : n = sent + 1 => OnePlace(n)'
    BY <1>6, <1>7, <1>9, <2>1, <2>3 DEF OnePlace
  <2>5. \A n \in 1 .. sent : OnePlace(n)'
    BY <1>2, <1>4, <1>6, <1>7, <2>1, <2>3 DEF OnePlace
  <2> QED BY <1>3, <1>5, <1>10, <2>1, <2>4, <2>5
<1>18. ASSUME NEW p \in Peer, NEW a \in Address, MailsHandedOver(p, a) PROVE AllPlaced'
  <2> DEFINE mails == mailbox[a]
  <2>1. /\ Deliver(p, mails) /\ mailbox' = [mailbox EXCEPT ![a] = <<>>]
        /\ UNCHANGED <<queue, discarded, sent>>
    BY <1>18 DEF MailsHandedOver
  <2>2. mails \in Seq(Mail) /\ DOMAIN mailbox = Address
    BY <1>1
  <2>3. \A n : NoneIn(mailbox, n) => \A k \in 1 .. Len(mails) : mails[k].id # n
    BY <2>2 DEF NoneIn
  <2>4. \A n : /\ NoneIn(mailbox, n) => NoneIn(mailbox', n)
               /\ OneIn(mailbox, n) =>
                    \/ OneIn(mailbox', n) /\ \A k \in 1 .. Len(mails) : mails[k].id # n
                    \/ /\ NoneIn(mailbox', n)
                       /\ \E i \in 1 .. Len(mails) : \A k \in 1 .. Len(mails) :
                            mails[k].id = n <=> k = i
    <3>1. a \in DOMAIN mailbox /\ mailbox[a] \in Seq(Mail)
      BY <1>1
    <3>2. Empties(mailbox, a, mailbox')
      BY <2>1 DEF Empties
    <3>3. \A n : Emptied(mailbox, mailbox[a], mailbox', n)
      BY <3>1, <3>2, EmptyPlace
    <3> QED BY <3>3 DEF Emptied
  <2> HIDE DEF mails
  <2>5. mails \in Seq(Mail \cup Request)
    BY <2>2
  <2>6. \A n : /\ (\A k \in 1 .. Len(mails) : mails[k].id # n) =>
                    /\ NoneDelivered(n) => NoneDelivered(n)'
                    /\ OneDelivered(n) => OneDelivered(n)'
               /\ NoneDelivered(n)
                  /\ (\E i \in 1 .. Len(mails) : \A k \in 1 .. Len(mails) :
                        mails[k].id = n <=> k = i)
                  => OneDelivered(n)'
    BY <2>1, <2>5, DeliverPlace
  <2>7. \A n : /\ NoneIn(mailbox', n) => NoneIn(mailbox, n)'
               /\ OneIn(mailbox', n) => OneIn(mailbox, n)'
    BY DEF NoneIn, OneIn
  <2>8. ASSUME NEW n \in 1 .. sent PROVE OnePlace(n)'
    <3>1. OnePlace(n)
      BY <1>2
    <3> QED BY <1>8, <2>1, <2>3, <2>4, <2>6, <2>7, <3>1 DEF OnePlace
  <2> QED BY <1>5, <1>10, <2>1, <2>8
<1>19. ASSUME NEW p \in Peer, NEW s \in Service, NEW c \in 1 .. Len(queue[s]),
              RequestDispatched(p, s, c)
       PROVE  AllPlaced'
  <2> DEFINE msg == queue[s][c]
  <2>1. /\ Deliver(p, <<msg>>) /\ queue' = [queue EXCEPT ![s] = RemoveAt(queue[s], c)]
        /\ UNCHANGED <<mailbox, discarded, sent>>
    BY <1>19 DEF RequestDispatched
  <2>2. msg \in Request /\ DOMAIN queue = Service
    BY <1>1
  <2>3. \A n : NoneIn(queue, n) => msg.id # n
    BY <2>2 DEF NoneIn
  <2>4. \A n : /\ NoneIn(queue, n) => NoneIn(queue', n)
               /\ OneIn(queue, n) /\ msg.id # n => OneIn(queue', n)
               /\ OneIn(queue, n) /\ msg.id = n => NoneIn(queue', n)
    <3>1. s \in DOMAIN queue /\ queue[s] \in Seq(Request)
      BY <1>1
    <3>2. Leaves(queue, s, c, queue')
      BY <2>1 DEF Leaves
    <3>3. \A n : LeftBy(queue, queue[s][c], queue', n)
      BY <3>1, <3>2, LeavePlace
    <3> QED BY <3>3 DEF LeftBy
  <2> HIDE DEF msg
  <2>5. \A n : /\ msg.id # n => /\ NoneDelivered(n) => NoneDelivered(n)'
                                /\ OneDelivered(n) => OneDelivered(n)'
               /\ msg.id = n /\ NoneDelivered(n) => OneDelivered(n)'
    BY <2>1, <2>2, DeliverOnePlace
  <2>6. \A n : /\ NoneIn(queue', n) => NoneIn(queue, n)'
               /\ OneIn(queue', n) => OneIn(queue, n)'
    BY DEF NoneIn, OneIn
  <2>7. ASSUME NEW n \in 1 .. sent PROVE OnePlace(n)'
    <3>1. OnePlace(n)
      BY <1>2
    <3> QED BY <1>7, <2>1, <2>3, <2>4, <2>5, <2>6, <3>1 DEF OnePlace
  <2> QED BY <1>5, <1>10, <2>1, <2>7
<1>20. CASE AllLost
  <2> DEFINE Waiting == (UNION {Ids(mailbox[a]) : a \in Address})
                        \cup (UNION {Ids(queue[s]) : s \in Service})
  <2>1. /\ discarded' = discarded \cup Waiting /\ UNCHANGED <<sent, delivered>>
        /\ mailbox' = [a \in Address |-> <<>>] /\ queue' = [s \in Service |-> <<>>]
    BY <1>20, Zenon DEF AllLost
  <2>2. /\ DOMAIN mailbox = Address /\ DOMAIN queue = Service
        /\ \A a \in Address : DOMAIN mailbox[a] = 1 .. Len(mailbox[a])
        /\ \A s \in Service : DOMAIN queue[s] = 1 .. Len(queue[s])
    BY <1>1
  <2>3. \A n : NoneIn(mailbox, n) /\ NoneIn(queue, n) => n \notin Waiting
    BY <2>2 DEF NoneIn, Ids
  <2>4. \A n : OneIn(mailbox, n) \/ OneIn(queue, n) => n \in Waiting
    <3>1. ASSUME NEW n, OneIn(mailbox, n) PROVE n \in Waiting
      <4>0. PICK a \in Address : \E i \in 1 .. Len(mailbox[a]) : mailbox[a][i].id = n
        BY <2>2, <3>1 DEF OneIn
      <4>1. PICK i \in 1 .. Len(mailbox[a]) : mailbox[a][i].id = n
        BY <4>0
      <4>2. n \in Ids(mailbox[a])
        BY <2>2, <4>1 DEF Ids
      <4> QED BY <4>2
    <3>2. ASSUME NEW n, OneIn(queue, n) PROVE n \in Waiting
      <4>0. PICK s \in Service : \E i \in 1 .. Len(queue[s]) : queue[s][i].id = n
        BY <2>2, <3>2 DEF OneIn
      <4>1. PICK i \in 1 .. Len(queue[s]) : queue[s][i].id = n
        BY <4>0
      <4>2. n \in Ids(queue[s])
        BY <2>2, <4>1 DEF Ids
      <4> QED BY <4>2
    <3> QED BY <3>1, <3>2
  <2>5. Waiting \subseteq 1 .. sent
    BY <2>2 DEF Ids, Addressed, Known
  <2> HIDE DEF Waiting
  <2>6. \A n : NoneIn(mailbox, n)' /\ NoneIn(queue, n)'
    BY <2>1 DEF NoneIn
  <2>7. ASSUME NEW n \in 1 .. sent PROVE OnePlace(n)'
    <3>1. OnePlace(n)
      BY <1>2
    <3> QED BY <1>6, <2>1, <2>3, <2>4, <2>6, <3>1 DEF OnePlace
  <2>8. discarded' \subseteq 1 .. sent'
    BY <1>2, <2>1, <2>5
  <2> QED BY <1>10, <2>1, <2>7, <2>8
<1> QED BY <1>11, <1>12, <1>14, <1>15, <1>16, <1>17, <1>18, <1>19, <1>20 DEF MessagesMove


\* One place, counted.
LEMMA PlacesMembers ==
  ASSUME TypeOK, NEW n \in Nat, NEW x
  PROVE  x \in Places(n) <=>
           \/ \E i \in 1 .. Len(delivered) : delivered[i].msg.id = n /\ x = <<"delivered", i>>
           \/ n \in discarded /\ x = <<"discarded", n>>
           \/ \E a \in Address : \E i \in 1 .. Len(mailbox[a]) :
                mailbox[a][i].id = n /\ x = <<"mailbox", a, i>>
           \/ \E s \in Service : \E i \in 1 .. Len(queue[s]) :
                queue[s][i].id = n /\ x = <<"queue", s, i>>
<1>1. /\ DOMAIN delivered = 1 .. Len(delivered)
      /\ \A a \in Address : DOMAIN mailbox[a] = 1 .. Len(mailbox[a])
      /\ \A s \in Service : DOMAIN queue[s] = 1 .. Len(queue[s])
  BY DEF TypeOK
<1> DEFINE InDelivered == {<<"delivered", i>> : i \in {j \in DOMAIN delivered : delivered[j].msg.id = n}}
           InDiscarded == {<<"discarded", i>> : i \in discarded \cap {n}}
           InMailbox(a) == {<<"mailbox", a, i>> :
                              i \in {j \in DOMAIN mailbox[a] : mailbox[a][j].id = n}}
           InQueue(s) == {<<"queue", s, i>> :
                            i \in {j \in DOMAIN queue[s] : queue[s][j].id = n}}
<1>2. x \in InDelivered <=>
        \E i \in 1 .. Len(delivered) : delivered[i].msg.id = n /\ x = <<"delivered", i>>
  BY <1>1
<1>3. x \in InDiscarded <=> n \in discarded /\ x = <<"discarded", n>>
  OBVIOUS
<1>4. \A a \in Address : x \in InMailbox(a) <=>
        \E i \in 1 .. Len(mailbox[a]) : mailbox[a][i].id = n /\ x = <<"mailbox", a, i>>
  BY <1>1
<1>5. \A s \in Service : x \in InQueue(s) <=>
        \E i \in 1 .. Len(queue[s]) : queue[s][i].id = n /\ x = <<"queue", s, i>>
  BY <1>1
<1>6. Places(n) = InDelivered \cup InDiscarded \cup (UNION {InMailbox(a) : a \in Address})
                  \cup (UNION {InQueue(s) : s \in Service})
  BY Zenon DEF Places
<1> HIDE DEF InDelivered, InDiscarded, InMailbox, InQueue
<1>7. x \in UNION {InMailbox(a) : a \in Address} <=> \E a \in Address : x \in InMailbox(a)
  OBVIOUS
<1>8. x \in UNION {InQueue(s) : s \in Service} <=> \E s \in Service : x \in InQueue(s)
  OBVIOUS
<1> QED BY <1>2, <1>3, <1>4, <1>5, <1>6, <1>7, <1>8

LEMMA OnePlaceCounts ==
  ASSUME TypeOK, NEW n \in Nat, OnePlace(n)
  PROVE  Cardinality(Places(n)) = 1
<1>1. DOMAIN mailbox = Address /\ DOMAIN queue = Service
  BY DEF TypeOK
<1>2. \A x : Places(n) = {x} => Cardinality(Places(n)) = 1
  BY FS_Singleton
<1>3. CASE OneDelivered(n) /\ n \notin discarded /\ NoneIn(mailbox, n) /\ NoneIn(queue, n)
  <2>1. PICK i \in 1 .. Len(delivered) :
          \A j \in 1 .. Len(delivered) : delivered[j].msg.id = n <=> j = i
    BY <1>3 DEF OneDelivered
  <2>2. \A y : y \in Places(n) <=> y = <<"delivered", i>>
    BY <1>1, <1>3, <2>1, PlacesMembers DEF NoneIn
  <2>3. Places(n) = {<<"delivered", i>>}
    BY <2>2
  <2> QED BY <1>2, <2>3
<1>4. CASE NoneDelivered(n) /\ n \in discarded /\ NoneIn(mailbox, n) /\ NoneIn(queue, n)
  <2>1. \A y : y \in Places(n) <=> y = <<"discarded", n>>
    BY <1>1, <1>4, PlacesMembers DEF NoneIn, NoneDelivered
  <2>2. Places(n) = {<<"discarded", n>>}
    BY <2>1
  <2> QED BY <1>2, <2>2
<1>5. CASE NoneDelivered(n) /\ n \notin discarded /\ OneIn(mailbox, n) /\ NoneIn(queue, n)
  <2>1. PICK a \in Address : \E i \in 1 .. Len(mailbox[a]) :
          \A b \in Address : \A j \in 1 .. Len(mailbox[b]) :
            mailbox[b][j].id = n <=> b = a /\ j = i
    BY <1>1, <1>5 DEF OneIn
  <2>2. PICK i \in 1 .. Len(mailbox[a]) :
          \A b \in Address : \A j \in 1 .. Len(mailbox[b]) :
            mailbox[b][j].id = n <=> b = a /\ j = i
    BY <2>1
  <2>3. ASSUME NEW y PROVE y \in Places(n) <=> y = <<"mailbox", a, i>>
    <3>1. /\ \A j \in 1 .. Len(delivered) : delivered[j].msg.id # n
          /\ n \notin discarded
          /\ \A u \in Service : \A j \in 1 .. Len(queue[u]) : queue[u][j].id # n
      BY <1>1, <1>5 DEF NoneIn, NoneDelivered
    <3>2. y \in Places(n) <=>
            \E b \in Address : \E j \in 1 .. Len(mailbox[b]) :
              mailbox[b][j].id = n /\ y = <<"mailbox", b, j>>
      BY <3>1, PlacesMembers
    <3>3. mailbox[a][i].id = n
      BY <2>2
    <3> QED BY <2>2, <3>2, <3>3
  <2>4. Places(n) = {<<"mailbox", a, i>>}
    BY <2>3
  <2> QED BY <1>2, <2>4
<1>6. CASE NoneDelivered(n) /\ n \notin discarded /\ NoneIn(mailbox, n) /\ OneIn(queue, n)
  <2>1. PICK s \in Service : \E i \in 1 .. Len(queue[s]) :
          \A t \in Service : \A j \in 1 .. Len(queue[t]) :
            queue[t][j].id = n <=> t = s /\ j = i
    BY <1>1, <1>6 DEF OneIn
  <2>2. PICK i \in 1 .. Len(queue[s]) :
          \A t \in Service : \A j \in 1 .. Len(queue[t]) :
            queue[t][j].id = n <=> t = s /\ j = i
    BY <2>1
  <2>3. ASSUME NEW y PROVE y \in Places(n) <=> y = <<"queue", s, i>>
    <3>1. /\ \A j \in 1 .. Len(delivered) : delivered[j].msg.id # n
          /\ n \notin discarded
          /\ \A u \in Address : \A j \in 1 .. Len(mailbox[u]) : mailbox[u][j].id # n
      BY <1>1, <1>6 DEF NoneIn, NoneDelivered
    <3>2. y \in Places(n) <=>
            \E t \in Service : \E j \in 1 .. Len(queue[t]) :
              queue[t][j].id = n /\ y = <<"queue", t, j>>
      BY <3>1, PlacesMembers
    <3>3. queue[s][i].id = n
      BY <2>2
    <3> QED BY <2>2, <3>2, <3>3
  <2>4. Places(n) = {<<"queue", s, i>>}
    BY <2>3
  <2> QED BY <1>2, <2>4
<1> QED BY <1>3, <1>4, <1>5, <1>6 DEF OnePlace

-----------------------------------------------------------------------------
\* The theorems

\* The inductive invariant behind them.
OrderInv ==
  /\ Inv
  /\ Addressed
  /\ AllInOrder
  /\ AllInTurn
  /\ AllPlaced

LEMMA OrderInvInit == Init => OrderInv
BY InvInit, AddressedInit, OrderInit, TurnInit, PlacedInit DEF OrderInv

LEMMA OrderInvStep == OrderInv /\ [Next]_vars => OrderInv'
<1> SUFFICES ASSUME OrderInv, [Next]_vars PROVE OrderInv'
  OBVIOUS
<1>1. Inv /\ TypeOK /\ AnonymousFree
  BY DEF OrderInv, Inv, Addressed
<1>2. Inv' /\ AnonymousFree'
  BY <1>1, InvStep, AnonymousStep
<1>3. MessagesMove
  BY <1>1, StepMoves
<1>4. Addressed'
  BY <1>1, <1>2, <1>3, AddressedMoves DEF OrderInv
<1>5. AllInOrder'
  BY <1>1, <1>3, OrderMoves DEF OrderInv
<1>6. AllInTurn'
  BY <1>1, TurnStep DEF OrderInv
<1>7. AllPlaced'
  BY <1>1, <1>3, PlacedMoves DEF OrderInv
<1> QED BY <1>2, <1>4, <1>5, <1>6, <1>7 DEF OrderInv

LEMMA OrderInvCorrect == Spec => []OrderInv
BY OrderInvInit, OrderInvStep, PTL DEF Spec

\* Mails to one address reach its owners in the order they were sent, whoever
\* owned the address and whichever of them were stored on the way.
THEOREM MailInOrderHolds == Spec => []MailInOrder
<1>1. OrderInv => MailInOrder
  <2> SUFFICES ASSUME OrderInv PROVE MailInOrder
    OBVIOUS
  <2>1. /\ DOMAIN delivered = 1 .. Len(delivered) /\ Len(delivered) \in Nat
        /\ \A a \in Address : DOMAIN mailbox[a] = 1 .. Len(mailbox[a])
    BY DEF OrderInv, Inv, TypeOK
  <2>2. ASSUME NEW i \in DOMAIN delivered, NEW j \in DOMAIN delivered, i < j,
               IsMail(delivered[i].msg), delivered[i].msg.to = delivered[j].msg.to
        PROVE  delivered[i].msg.id < delivered[j].msg.id
    <3>1. i \in 1 .. j - 1
      BY <2>1, <2>2
    <3> QED BY <2>1, <2>2, <3>1 DEF OrderInv, AllInOrder, DeliveredInOrder, Kin
  <2>3. ASSUME NEW a \in Address, NEW j \in DOMAIN mailbox[a], NEW i \in DOMAIN delivered,
               delivered[i].msg.to = a
        PROVE  delivered[i].msg.id < mailbox[a][j].id
    <3>1. mailbox[a][j].to = a
      BY <2>1 DEF OrderInv, Addressed
    <3>2. LaterThanDelivered(mailbox[a][j])
      BY <2>1 DEF OrderInv, AllInOrder
    <3> QED BY <2>1, <2>3, <3>1, <3>2 DEF LaterThanDelivered, Kin, IsMail
  <2>4. ASSUME NEW a \in Address, NEW j \in DOMAIN mailbox[a], NEW i \in 1 .. j - 1
        PROVE  mailbox[a][i].id < mailbox[a][j].id
    BY <2>1 DEF OrderInv, AllInOrder
  <2> QED BY <2>2, <2>3, <2>4 DEF MailInOrder
<1> QED BY <1>1, OrderInvCorrect, PTL

\* Requests with one subject leave their service in the order they came,
\* although the dispatch loop overtakes requests that no offer matches.
THEOREM RequestsInOrderHolds == Spec => []RequestsInOrder
<1>1. OrderInv => RequestsInOrder
  <2> SUFFICES ASSUME OrderInv PROVE RequestsInOrder
    OBVIOUS
  <2>1. /\ DOMAIN delivered = 1 .. Len(delivered) /\ Len(delivered) \in Nat
        /\ \A s \in Service : DOMAIN queue[s] = 1 .. Len(queue[s])
    BY DEF OrderInv, Inv, TypeOK
  <2>2. ASSUME NEW i \in DOMAIN delivered, NEW j \in DOMAIN delivered, i < j,
               delivered[i].msg.to = delivered[j].msg.to,
               delivered[i].msg.subject = delivered[j].msg.subject
        PROVE  delivered[i].msg.id < delivered[j].msg.id
    <3>1. i \in 1 .. j - 1
      BY <2>1, <2>2
    <3> QED BY <2>1, <2>2, <3>1 DEF OrderInv, AllInOrder, DeliveredInOrder, Kin
  <2>3. ASSUME NEW s \in Service, NEW j \in DOMAIN queue[s], NEW i \in DOMAIN delivered,
               delivered[i].msg.to = s, delivered[i].msg.subject = queue[s][j].subject
        PROVE  delivered[i].msg.id < queue[s][j].id
    <3>1. queue[s][j].to = s
      BY <2>1 DEF OrderInv, Addressed
    <3>2. LaterThanDelivered(queue[s][j])
      BY <2>1 DEF OrderInv, AllInOrder
    <3> QED BY <2>1, <2>3, <3>1, <3>2 DEF LaterThanDelivered, Kin
  <2>4. ASSUME NEW s \in Service, NEW j \in DOMAIN queue[s], NEW i \in 1 .. j - 1
        PROVE  queue[s][i].id < queue[s][j].id
    BY <2>1 DEF OrderInv, AllInOrder
  <2> QED BY <2>2, <2>3, <2>4 DEF RequestsInOrder
<1> QED BY <1>1, OrderInvCorrect, PTL

\* Every accepted message is in exactly one place: none is lost and none is
\* delivered twice, also when the dispatch loop removes under its cursor.
THEOREM AccountedHolds == Spec => []Accounted
<1>1. OrderInv => Accounted
  <2> SUFFICES ASSUME OrderInv, NEW n \in 1 .. sent PROVE Cardinality(Places(n)) = 1
    BY DEF Accounted
  <2>1. TypeOK /\ OnePlace(n)
    BY DEF OrderInv, Inv, AllPlaced
  <2>2. n \in Nat
    OBVIOUS
  <2> QED BY <2>1, <2>2, OnePlaceCounts
<1> QED BY <1>1, OrderInvCorrect, PTL

\* An offer is never passed over more often than there were offers ahead of it
\* when it joined or was last served.
THEOREM FairTurnHolds == Spec => []FairTurn
<1>1. OrderInv => FairTurn
  <2> SUFFICES ASSUME OrderInv, NEW s \in Service, NEW i \in DOMAIN offers[s]
               PROVE  offers[s][i].patience >= 0
    BY DEF FairTurn
  <2>1. offers[s] \in Seq(Offer) /\ InTurn(offers[s])
    BY DEF OrderInv, Inv, TypeOK, AllInTurn
  <2>2. i \in 1 .. Len(offers[s]) /\ offers[s][i] \in Offer
    BY <2>1
  <2>3. offers[s][i].patience \in Int
    BY <2>2 DEF Offer
  <2> QED BY <2>1, <2>2, <2>3 DEF InTurn
<1> QED BY <1>1, OrderInvCorrect, PTL

\* A mail is delivered to the client that owns its address at that moment, a
\* request to a client with an offer that matches it.
THEOREM DeliveredRight == Spec => DeliveredToRightClient
<1>1. OrderInv /\ [Next]_vars => AllForGoodReason
  BY StepIsRight DEF OrderInv
<1>2. Spec => [][AllForGoodReason]_vars
  BY <1>1, OrderInvCorrect, PTL DEF Spec
<1> QED BY <1>2, Zenon DEF DeliveredToRightClient, AllForGoodReason

=============================================================================
