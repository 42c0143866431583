--------------------------- MODULE StreamsProofs ---------------------------
(***************************************************************************)
(* Proofs about Streams and Shutdown, for every value of their constants.  *)
(* While the broker serves, Shutdown is Streams, whose types the first     *)
(* part has; after that only the tables of the server thread matter.       *)
(***************************************************************************)
EXTENDS Shutdown, TLAPS, Lemmas, FiniteSetTheorems

-----------------------------------------------------------------------------
\* Counting in lists

LEMMA CountType ==
  ASSUME NEW S, NEW list \in Seq(S), NEW T
  PROVE  /\ Count(list, T) \in Nat
         /\ IsFiniteSet({i \in DOMAIN list : list[i] \in T})
<1> DEFINE Places == {i \in DOMAIN list : list[i] \in T}
<1>1. IsFiniteSet(1 .. Len(list))
  BY FS_Interval
<1>2. Places \in SUBSET (1 .. Len(list))
  OBVIOUS
<1> HIDE DEF Places
<1>3. IsFiniteSet(Places)
  BY <1>1, <1>2, FS_Subset
<1>4. Cardinality(Places) \in Nat
  BY <1>3, FS_CardinalityType
<1> QED BY <1>3, <1>4 DEF Places, Count

\* Nothing is counted when no entry is in the set, and conversely.
LEMMA CountNone ==
  ASSUME NEW S, NEW list \in Seq(S), NEW T
  PROVE  Count(list, T) = 0 <=> \A i \in DOMAIN list : list[i] \notin T
<1> DEFINE Places == {i \in DOMAIN list : list[i] \in T}
<1>1. IsFiniteSet(Places)
  BY CountType
<1>2. Places = {} <=> \A i \in DOMAIN list : list[i] \notin T
  OBVIOUS
<1>3. Count(list, T) = Cardinality(Places)
  BY DEF Count
<1> HIDE DEF Places
<1>4. Cardinality(Places) = 0 <=> Places = {}
  BY <1>1, FS_EmptySet
<1> QED BY <1>2, <1>3, <1>4

LEMMA CountEmpty ==
  ASSUME NEW T
  PROVE  Count(<<>>, T) = 0
<1>1. <<>> \in Seq(T) /\ \A i \in DOMAIN <<>> : <<>>[i] \notin T
  OBVIOUS
<1> QED BY ONLY <1>1, CountNone

\* Only the entries that are in the set matter.
LEMMA CountSame ==
  ASSUME NEW list, NEW T, NEW U,
         \A i \in DOMAIN list : list[i] \in T <=> list[i] \in U
  PROVE  Count(list, T) = Count(list, U)
<1>1. {i \in DOMAIN list : list[i] \in T} = {i \in DOMAIN list : list[i] \in U}
  OBVIOUS
<1> QED BY <1>1 DEF Count

LEMMA CountLonger ==
  ASSUME NEW S, NEW list \in Seq(S), NEW longer, NEW x, Longer(list, longer, x), NEW T
  PROVE  Count(longer, T) = Count(list, T) + (IF x \in T THEN 1 ELSE 0)
<1> DEFINE Places == {i \in DOMAIN list : list[i] \in T}
           After == {i \in DOMAIN longer : longer[i] \in T}
           n == Len(list) + 1
<1>1. IsFiniteSet(Places)
  BY CountType
<1>2. After = IF x \in T THEN Places \cup {n} ELSE Places
  <2>1. DOMAIN longer = 1 .. n /\ DOMAIN list = 1 .. Len(list)
    BY DEF Longer
  <2>2. longer[n] = x /\ \A i \in 1 .. Len(list) : longer[i] = list[i]
    BY DEF Longer
  <2>3. \A i : i \in 1 .. n <=> (i \in 1 .. Len(list) \/ i = n)
    OBVIOUS
  <2> HIDE DEF n
  <2> QED BY ONLY <2>1, <2>2, <2>3
<1>3. n \notin Places
  OBVIOUS
<1>4. Count(longer, T) = Cardinality(After) /\ Count(list, T) = Cardinality(Places)
  BY DEF Count
<1> HIDE DEF Places, After, n
<1>5. Cardinality(Places \cup {n}) = Cardinality(Places) + 1
  BY <1>1, <1>3, FS_AddElement
<1>6. Cardinality(Places) \in Nat
  BY <1>1, FS_CardinalityType
<1> QED BY <1>2, <1>4, <1>5, <1>6

LEMMA CountShorter ==
  ASSUME NEW S, NEW list \in Seq(S), NEW rest, Shorter(list, rest), NEW T
  PROVE  Count(rest, T) = Count(list, T) - (IF list[1] \in T THEN 1 ELSE 0)
<1> DEFINE Places == {i \in DOMAIN list : list[i] \in T}
           Others == Places \ {1}
           After == {i \in DOMAIN rest : rest[i] \in T}
           down == [i \in Others |-> i - 1]
<1>1. IsFiniteSet(Places) /\ Cardinality(Places) \in Nat
  BY CountType, FS_CardinalityType
<1>2. ExistsBijection(Others, After)
  <2>1. /\ DOMAIN list = 1 .. Len(list) /\ DOMAIN rest = 1 .. Len(list) - 1
        /\ Len(list) \in Nat /\ \A i \in 1 .. Len(list) - 1 : rest[i] = list[i + 1]
    BY DEF Shorter
  <2>2. down \in [Others -> After]
    BY <2>1
  <2>3. \A i, j \in Others : down[i] = down[j] => i = j
    BY <2>1
  <2>4. \A k \in After : \E i \in Others : down[i] = k
    <3> TAKE k \in After
    <3>1. k + 1 \in Others /\ (k + 1) - 1 = k
      BY <2>1
    <3> QED BY <3>1
  <2>5. down \in Bijection(Others, After)
    BY <2>2, <2>3, <2>4 DEF Bijection, Injection, Surjection, IsInjective
  <2> QED BY <2>5 DEF ExistsBijection
<1>3. 1 \in Places <=> list[1] \in T
  BY DEF Shorter
<1>4. Count(rest, T) = Cardinality(After) /\ Count(list, T) = Cardinality(Places)
  BY DEF Count
<1> HIDE DEF Places, Others, After
<1>5. IsFiniteSet(Others)
      /\ Cardinality(Others) = IF 1 \in Places THEN Cardinality(Places) - 1 ELSE Cardinality(Places)
  BY <1>1, FS_RemoveElement DEF Others
<1>6. Cardinality(After) = Cardinality(Others)
  BY <1>2, <1>5, FS_Bijection
<1> QED BY <1>1, <1>3, <1>4, <1>5, <1>6

\* k times x behind a list
LEMMA CountMany ==
  ASSUME NEW S, NEW list \in Seq(S), NEW x \in S, NEW k \in Nat, NEW T
  PROVE  /\ list \o [i \in 1 .. k |-> x] \in Seq(S)
         /\ Len(list \o [i \in 1 .. k |-> x]) = Len(list) + k
         /\ \A i \in 1 .. Len(list) : (list \o [j \in 1 .. k |-> x])[i] = list[i]
         /\ \A i \in Len(list) + 1 .. Len(list) + k : (list \o [j \in 1 .. k |-> x])[i] = x
         /\ Count(list \o [i \in 1 .. k |-> x], T) = Count(list, T) + (IF x \in T THEN k ELSE 0)
<1> DEFINE more == [i \in 1 .. k |-> x]
           longer == list \o more
           n == Len(list)
           Places == {i \in DOMAIN list : list[i] \in T}
           After == {i \in DOMAIN longer : longer[i] \in T}
           New == n + 1 .. n + k
<1>1. more \in Seq(S) /\ Len(more) = k /\ \A i \in 1 .. k : more[i] = x
  OBVIOUS
<1> HIDE DEF more
<1>2. /\ longer \in Seq(S) /\ Len(longer) = n + k /\ n \in Nat
      /\ \A i \in 1 .. n : longer[i] = list[i]
      /\ \A i \in New : longer[i] = x
  <2>1. longer \in Seq(S) /\ Len(longer) = n + k /\ n \in Nat
    BY <1>1
  <2>2. \A i \in 1 .. n : longer[i] = list[i]
    BY <1>1
  <2>3. ASSUME NEW i \in New PROVE longer[i] = x
    <3>1. longer[i] = more[i - n]
      BY <1>1
    <3>2. i - n \in 1 .. k
      OBVIOUS
    <3> QED BY <3>1, <3>2, <1>1
  <2> QED BY <2>1, <2>2, <2>3
<1>3. IsFiniteSet(Places) /\ Cardinality(Places) \in Nat
  BY CountType, FS_CardinalityType
<1> HIDE DEF longer
<1>4. After = IF x \in T THEN Places \cup New ELSE Places
  <2>1. DOMAIN longer = 1 .. n + k /\ DOMAIN list = 1 .. n
    BY <1>2
  <2>2. \A i : i \in 1 .. n + k <=> (i \in 1 .. n \/ i \in New)
    BY <1>2
  <2> HIDE DEF New
  <2> QED BY ONLY <1>2, <2>1, <2>2
<1>5. Places \cap New = {}
  OBVIOUS
<1>6. IsFiniteSet(New) /\ Cardinality(New) = k
  BY <1>2, FS_Interval
<1>7. Count(longer, T) = Cardinality(After) /\ Count(list, T) = Cardinality(Places)
  BY DEF Count
<1>8. Cardinality(Places \cup New) = Cardinality(Places) + k
  <2> HIDE DEF Places, New
  <2>1. Cardinality(Places \cap New) = 0
    BY <1>5, FS_EmptySet
  <2>2. Cardinality(Places \cup New)
        = Cardinality(Places) + Cardinality(New) - Cardinality(Places \cap New)
    BY <1>3, <1>6, FS_Union
  <2> QED BY <1>3, <1>6, <2>1, <2>2
<1>9. Count(longer, T) = Count(list, T) + (IF x \in T THEN k ELSE 0)
  <2> HIDE DEF Places, New, After
  <2> QED BY <1>3, <1>4, <1>7, <1>8
<1> QED BY <1>2, <1>9 DEF longer, more

-----------------------------------------------------------------------------
\* The inductive invariant: messages

\* Message m belongs to stream s.
Holds(entries, s, m) == m \in 1 .. Len(entries) /\ entries[m].stream = s
OfStream(s, m) == Holds(log, s, m)

\* Each place of a stream holds messages of that stream, or ACKs.
Stand(s) ==
  /\ \A i \in DOMAIN topipe[s] : OfStream(s, topipe[s][i].msg)
  /\ \A i \in DOMAIN frompipe[s] :
       frompipe[s][i].msg = ACK \/ OfStream(s, frompipe[s][i].msg)
  /\ relaying[s] # NoTask => relaying[s].msg = ACK \/ OfStream(s, relaying[s].msg)

InPlace ==
  /\ Len(links) = Len(log)
  /\ \A s \in Stream : Stand(s)
  /\ blocked # NoTask => OfStream(blocked.stream, blocked.item.msg)
  /\ \A i \in DOMAIN delivered : delivered[i].msg \in Message
  /\ \A due \in expected : due.msg \in Message

\* Whatever has left the pipe to the engine of s is older than message m.
AllOlder(s, m) ==
  /\ relaying[s] # NoTask => relaying[s].msg < m
  /\ \A i \in DOMAIN frompipe[s] : frompipe[s][i].msg < m
  /\ \A i \in DOMAIN delivered : OfStream(s, delivered[i].msg) => delivered[i].msg < m

\* What the server got is not newer than message m.
NoneNewer(s, m) ==
  \A i \in DOMAIN delivered : OfStream(s, delivered[i].msg) => delivered[i].msg <= m

\* The messages of s stand in the order they were published, from the clients
\* back to the send that blocks.
PipeInOrder(s) ==
  \A i, j \in DOMAIN topipe[s] : i < j => topipe[s][i].msg < topipe[s][j].msg
PipeNewer(s) == \A i \in DOMAIN topipe[s] : AllOlder(s, topipe[s][i].msg)
BlockedNewest(s) ==
  blocked # NoTask /\ blocked.stream = s =>
    /\ AllOlder(s, blocked.item.msg)
    /\ \A i \in DOMAIN topipe[s] : topipe[s][i].msg < blocked.item.msg
TaskNotOlder(s) ==
  relaying[s] # NoTask /\ relaying[s].msg # ACK =>
    /\ NoneNewer(s, relaying[s].msg)
    /\ \A i \in DOMAIN frompipe[s] : frompipe[s][i].msg <= relaying[s].msg
RelayedInOrder(s) ==
  /\ \A i, j \in DOMAIN frompipe[s] :
       i < j /\ frompipe[s][j].msg # ACK => frompipe[s][i].msg <= frompipe[s][j].msg
  /\ \A j \in DOMAIN frompipe[s] : frompipe[s][j].msg # ACK => NoneNewer(s, frompipe[s][j].msg)
DeliveredInOrder(s) ==
  \A i, j \in DOMAIN delivered :
    i < j /\ OfStream(s, delivered[i].msg) /\ OfStream(s, delivered[j].msg)
    => delivered[i].msg <= delivered[j].msg

LinedUp(s) ==
  /\ PipeInOrder(s) /\ PipeNewer(s) /\ BlockedNewest(s)
  /\ TaskNotOlder(s) /\ RelayedInOrder(s) /\ DeliveredInOrder(s)
AllLinedUp == \A s \in Stream : LinedUp(s)

-----------------------------------------------------------------------------
\* The inductive invariant: contexts

\* A context has one number, which no other context has or had.
LivesApart ==
  /\ \A c \in Ptr : life[c] <= opens /\ (state[c] = "free" <=> life[c] = 0)
  /\ \A c, d \in Ptr : life[c] = life[d] /\ life[c] # 0 => c = d
  /\ \A m \in Message : log[m].from \in 1 .. opens
  /\ \A sub \in asked : sub.to \in 1 .. opens
  /\ \A due \in expected : due.to \in 1 .. opens

\* Nobody is to be handed what it published itself: a context with the number
\* of the publisher is the one at the address of the sender.
QuietPipe(s) ==
  \A i \in DOMAIN topipe[s], d \in Ptr :
    life[d] = log[topipe[s][i].msg].from => d = topipe[s][i].sender
QuietTask(s) ==
  relaying[s] # NoTask /\ relaying[s].msg # ACK =>
    \A sel \in relaying[s].todo : life[sel[2]] # log[relaying[s].msg].from
QuietItems(s) ==
  \A i \in DOMAIN frompipe[s] :
    frompipe[s][i].msg # ACK => life[frompipe[s][i].client] # log[frompipe[s][i].msg].from
QuietBlocked ==
  blocked # NoTask =>
    \A d \in Ptr : life[d] = log[blocked.item.msg].from => d = blocked.item.sender
QuietDeliveries ==
  \A i \in DOMAIN delivered : log[delivered[i].msg].from # delivered[i].to
NoEcho ==
  /\ \A s \in Stream : QuietPipe(s) /\ QuietTask(s) /\ QuietItems(s)
  /\ QuietBlocked /\ QuietDeliveries

\* Client c still reads s, or the engine of s will hear that it does not.
CancelIn(s, c, i) == cmdpipe[s][i].method = "CANCEL" /\ cmdpipe[s][i].client = c
CancelSent(s, c) == \E i \in DOMAIN cmdpipe[s] : CancelIn(s, c, i)
Reads(s, c) == \E i \in DOMAIN readers[c] : readers[c][i] = s
Covered(s, c) == Reads(s, c) \/ CancelSent(s, c)

\* The engine is sending c an ACK; there is one in the pipe to the server.
AckTask(s, c) ==
  relaying[s] # NoTask /\ relaying[s].msg = ACK /\ \E sel \in relaying[s].todo : sel[2] = c
AckIn(s, c, j) == frompipe[s][j].msg = ACK /\ frompipe[s][j].client = c

\* Whatever the engine of s knows of a client, an ACK comes behind it.
SelectorsCovered(s) == \A sel \in selectors[s] : Covered(s, sel[2])
CommandsCovered(s) ==
  \A i \in DOMAIN cmdpipe[s] :
    /\ cmdpipe[s][i].method = "COMPILE" =>
         \A c \in Ptr : cmdpipe[s][i].client = c =>
           Reads(s, c) \/ \E j \in DOMAIN cmdpipe[s] : j > i /\ CancelIn(s, c, j)
    /\ cmdpipe[s][i].method = "CANCEL" => cmdpipe[s][i].pattern = {}
TaskCovered(s) ==
  relaying[s] # NoTask =>
    /\ relaying[s].msg # ACK => \A sel \in relaying[s].todo : Covered(s, sel[2])
    /\ relaying[s].msg = ACK => \A sel, other \in relaying[s].todo : sel = other
RelayedCovered(s) ==
  \A i \in DOMAIN frompipe[s] : \A c \in Ptr :
    frompipe[s][i].msg # ACK /\ frompipe[s][i].client = c =>
      \/ Covered(s, c) \/ AckTask(s, c)
      \/ \E j \in DOMAIN frompipe[s] : j > i /\ AckIn(s, c, j)
AllCovered(s) ==
  SelectorsCovered(s) /\ CommandsCovered(s) /\ TaskCovered(s) /\ RelayedCovered(s)

\* References are counted, and a context that is gone or going reads nothing.
CountedAt(c) ==
  /\ IsFiniteSet(AllPending(c))
  /\ refcount[c] = Len(readers[c]) + Cardinality(AllPending(c))
  /\ state[c] # "connected" => readers[c] = <<>>
  /\ state[c] = "free" => refcount[c] = 0
Counted == \A c \in Ptr : CountedAt(c)

\* A subscription of a client that is connected has reached the engine of its
\* stream or is on its way there, and nothing behind it takes it back.
Known(s, p, c) ==
  \/ <<p, c>> \in selectors[s] /\ ~ CancelSent(s, c)
  \/ \E i \in DOMAIN cmdpipe[s] :
       /\ cmdpipe[s][i].method = "COMPILE"
       /\ cmdpipe[s][i].client = c /\ cmdpipe[s][i].pattern = p
       /\ \A j \in DOMAIN cmdpipe[s] : j > i => ~ CancelIn(s, c, j)
SubscriptionsKnown ==
  \A sub \in asked, c \in Ptr :
    state[c] = "connected" /\ life[c] = sub.to => Known(sub.stream, sub.pattern, c)

\* Context number n asked for subject x of stream s.
Wants(subs, n, s, x) == \E sub \in subs : sub.to = n /\ sub.stream = s /\ x \in sub.pattern

\* What the engine of s knows of a client, that client has asked for.
SelectorsAsked(s) ==
  \A sel \in selectors[s] : \A x \in sel[1] : Wants(asked, life[sel[2]], s, x)
CommandsAsked(s) ==
  \A i \in DOMAIN cmdpipe[s] : cmdpipe[s][i].method = "COMPILE" =>
    \A x \in cmdpipe[s][i].pattern : Wants(asked, life[cmdpipe[s][i].client], s, x)
TaskAsked(s) ==
  relaying[s] # NoTask /\ relaying[s].msg # ACK =>
    \A sel \in relaying[s].todo : Wants(asked, life[sel[2]], s, log[relaying[s].msg].subject)
ItemsAsked(s) ==
  \A i \in DOMAIN frompipe[s] : frompipe[s][i].msg # ACK =>
    Wants(asked, life[frompipe[s][i].client], s, log[frompipe[s][i].msg].subject)
DeliveriesAsked(s) ==
  \A i \in DOMAIN delivered : OfStream(s, delivered[i].msg) =>
    Wants(asked, delivered[i].to, s, log[delivered[i].msg].subject)
OnlyAsked(s) ==
  SelectorsAsked(s) /\ CommandsAsked(s) /\ TaskAsked(s) /\ ItemsAsked(s) /\ DeliveriesAsked(s)

\* Message m of stream s is on its way to client c: relayed, being relayed, or
\* before the engine, which knows that c wants it.
Wanted(s, m, c) ==
  ~ CancelSent(s, c) /\ \E sel \in selectors[s] : sel[2] = c /\ log[m].subject \in sel[1]
ItemWay(s, m, c) ==
  \E i \in DOMAIN frompipe[s] : frompipe[s][i].client = c /\ frompipe[s][i].msg = m
TaskWay(s, m, c) ==
  relaying[s] # NoTask /\ relaying[s].msg = m /\ \E sel \in relaying[s].todo : sel[2] = c
PipeWay(s, m, c) == \E i \in DOMAIN topipe[s] : topipe[s][i].msg = m /\ topipe[s][i].sender # c
BlockedWay(m, c) == blocked # NoTask /\ blocked.item.msg = m /\ blocked.item.sender # c
OnItsWay(s, m, c) ==
  \/ ItemWay(s, m, c) \/ TaskWay(s, m, c)
  \/ Wanted(s, m, c) /\ (PipeWay(s, m, c) \/ BlockedWay(m, c))

\* A delivery that is due has been made or is on its way to a client that has
\* not left.
Delivered(n, m) == \E i \in DOMAIN delivered : delivered[i].to = n /\ delivered[i].msg = m
NoneForgotten ==
  \A due \in expected, s \in Stream : OfStream(s, due.msg) =>
    \/ Delivered(due.to, due.msg)
    \/ \E c \in Ptr : state[c] = "connected" /\ life[c] = due.to /\ OnItsWay(s, due.msg, c)

-----------------------------------------------------------------------------
\* Types

\* An entry goes into a pipe.
LEMMA PipeTypes ==
  ASSUME NEW I, NEW S, NEW pipe \in [I -> Seq(S)], NEW s \in I, NEW x \in S
  PROVE  [pipe EXCEPT ![s] = Append(@, x)] \in [I -> Seq(S)]
<1>1. Append(pipe[s], x) \in Seq(S)
  OBVIOUS
<1>2. PICK T : T = Seq(S)
  OBVIOUS
<1>3. PICK longer : longer = Append(pipe[s], x)
  OBVIOUS
<1>4. [pipe EXCEPT ![s] = longer] \in [I -> T]
  BY <1>1, <1>2, <1>3
<1> QED BY <1>2, <1>3, <1>4

LEMMA FreeTypes ==
  ASSUME TypeOK, NEW c \in Ptr, Free(c)
  PROVE  /\ state' \in [Ptr -> {"free", "connected", "zombie"}]
         /\ peer' \in [Ptr -> Peer \cup {NoPeer}]
         /\ refcount' \in [Ptr -> Int]
         /\ writer' \in [Ptr -> Stream \cup {NoStream}]
         /\ life' \in [Ptr -> Nat]
<1>1. state' \in [Ptr -> {"free", "connected", "zombie"}] /\ peer' \in [Ptr -> Peer \cup {NoPeer}]
  BY DEF TypeOK, Free
<1>2. refcount' \in [Ptr -> Int] /\ life' \in [Ptr -> Nat]
  BY DEF TypeOK, Free
<1>3. writer' \in [Ptr -> Stream \cup {NoStream}]
  BY DEF TypeOK, Free
<1> QED BY <1>1, <1>2, <1>3

LEMMA LogEntries ==
  TypeOK => \A m \in Message : /\ log[m] \in [stream : Stream, from : Nat, subject : Subject]
                              /\ log[m].stream \in Stream /\ log[m].from \in Nat
                              /\ log[m].subject \in Subject
<1> SUFFICES ASSUME TypeOK, NEW m \in Message
             PROVE  log[m] \in [stream : Stream, from : Nat, subject : Subject]
  OBVIOUS
<1>1. PICK S : S = [stream : Stream, from : Nat, subject : Subject]
  OBVIOUS
<1>2. log \in Seq(S) /\ m \in 1 .. Len(log)
  BY <1>1 DEF TypeOK, Message
<1>3. log[m] \in S
  BY ONLY <1>2
<1> QED BY <1>1, <1>3

LEMMA DestroyTypes ==
  ASSUME TypeOK, NEW c \in Ptr, DestroyContext(c)
  PROVE  /\ state' \in [Ptr -> {"free", "connected", "zombie"}]
         /\ peer' \in [Ptr -> Peer \cup {NoPeer}]
         /\ refcount' \in [Ptr -> Int]
         /\ writer' \in [Ptr -> Stream \cup {NoStream}]
         /\ zombies' \in [Peer -> Ptr \cup {NoPtr}]
         /\ life' \in [Ptr -> Nat]
<1>1. CASE refcount[c] = 0
  <2>1. Free(c) /\ zombies' = zombies
    BY <1>1 DEF DestroyContext
  <2> QED BY <2>1, FreeTypes DEF TypeOK
<1>2. CASE refcount[c] # 0
  <2>1. state' \in [Ptr -> {"free", "connected", "zombie"}]
    BY <1>2 DEF TypeOK, DestroyContext
  <2>2. zombies' \in [Peer -> Ptr \cup {NoPtr}]
    BY <1>2 DEF TypeOK, DestroyContext
  <2>3. UNCHANGED <<peer, refcount, writer, life>>
    BY <1>2 DEF DestroyContext
  <2> QED BY <2>1, <2>2, <2>3 DEF TypeOK
<1> QED BY <1>1, <1>2

LEMMA PutTypes ==
  ASSUME TypeOK, NEW c \in Ptr, PutClient(c)
  PROVE  /\ state' \in [Ptr -> {"free", "connected", "zombie"}]
         /\ peer' \in [Ptr -> Peer \cup {NoPeer}]
         /\ refcount' \in [Ptr -> Int]
         /\ writer' \in [Ptr -> Stream \cup {NoStream}]
         /\ zombies' \in [Peer -> Ptr \cup {NoPtr}]
         /\ life' \in [Ptr -> Nat]
<1>1. CASE refcount[c] = 1 /\ state[c] = "zombie"
  <2>1. Free(c) /\ zombies' = [zombies EXCEPT ![peer[c]] = NoPtr]
    BY <1>1 DEF PutClient
  <2>2. zombies' \in [Peer -> Ptr \cup {NoPtr}]
    BY <2>1 DEF TypeOK
  <2> QED BY <2>1, <2>2, FreeTypes
<1>2. CASE ~ (refcount[c] = 1 /\ state[c] = "zombie")
  BY <1>2 DEF TypeOK, PutClient
<1> QED BY <1>1, <1>2

\* A CANCEL for each entry of the list goes into the pipes.
LEMMA CancelTypes ==
  ASSUME TypeOK, NEW c \in Ptr
  PROVE  /\ Cancel(c) \in Command
         /\ CancelReaders(c) \in [Stream -> Seq(Command)]
         /\ \A s \in Stream : Count(readers[c], {s}) \in Nat
<1>1. Cancel(c) \in Command
  BY DEF Cancel, Command
<1>2. ASSUME NEW s \in Stream PROVE Count(readers[c], {s}) \in Nat
  <2>1. readers[c] \in Seq(Stream)
    BY DEF TypeOK
  <2> QED BY <2>1, CountType
<1>3. ASSUME NEW s \in Stream
      PROVE  cmdpipe[s] \o [i \in 1 .. Count(readers[c], {s}) |-> Cancel(c)] \in Seq(Command)
  <2>1. cmdpipe[s] \in Seq(Command)
    BY DEF TypeOK
  <2> QED BY <1>1, <1>2, <2>1, CountMany
<1> QED BY <1>1, <1>2, <1>3 DEF CancelReaders

LEMMA InitTyped == Init => TypeOK
<1> SUFFICES ASSUME Init PROVE TypeOK
  OBVIOUS
<1>1. /\ state \in [Ptr -> {"free", "connected", "zombie"}]
      /\ peer \in [Ptr -> Peer \cup {NoPeer}] /\ refcount \in [Ptr -> Int]
      /\ writer \in [Ptr -> Stream \cup {NoStream}] /\ zombies \in [Peer -> Ptr \cup {NoPtr}]
      /\ life \in [Ptr -> Nat]
  BY DEF Init
<1>6. opens \in Nat /\ cancels \in Nat /\ fault \in BOOLEAN
  BY DEF Init
<1>2. /\ readers \in [Ptr -> Seq(Stream)] /\ cmdpipe \in [Stream -> Seq(Command)]
      /\ topipe \in [Stream -> Seq(Posted)] /\ frompipe \in [Stream -> Seq(Relayed)]
      /\ selectors \in [Stream -> SUBSET Selector]
  BY DEF Init
<1>3. relaying \in [Stream -> Task \cup {NoTask}] /\ blocked \in Waiting \cup {NoTask}
  BY DEF Init
<1>4. /\ links \in Seq(Int) /\ log \in Seq([stream : Stream, from : Nat, subject : Subject])
      /\ delivered \in Seq([to : Nat, msg : Nat])
  BY DEF Init
<1>5. asked = {} /\ expected = {}
  BY DEF Init
<1> QED BY <1>1, <1>2, <1>3, <1>4, <1>5, <1>6 DEF TypeOK

LEMMA OpenTyped ==
  ASSUME TypeOK, NEW p \in Peer, NEW c \in Ptr, Open(p, c)
  PROVE  TypeOK'
<1>1. /\ state' \in [Ptr -> {"free", "connected", "zombie"}]
      /\ peer' \in [Ptr -> Peer \cup {NoPeer}]
  BY DEF TypeOK, Open
<1>2. opens' \in Nat /\ life' \in [Ptr -> Nat]
  BY DEF TypeOK, Open
<1>3. /\ UNCHANGED <<refcount, readers, writer, zombies, cmdpipe, topipe, frompipe>>
      /\ UNCHANGED <<selectors, relaying, links, blocked, fault, cancels>>
      /\ UNCHANGED <<log, asked, expected, delivered>>
  BY DEF Open, pipes, engines, history
<1> QED BY <1>1, <1>2, <1>3 DEF TypeOK

LEMMA ReadTyped ==
  ASSUME TypeOK, NEW c \in Ptr, NEW s \in Stream, NEW p \in Pattern, StreamRead(c, s, p)
  PROVE  TypeOK'
<1>1. [method |-> "COMPILE", client |-> c, pattern |-> p] \in Command
  BY PatternAssumption DEF Command
<1>2. cmdpipe' \in [Stream -> Seq(Command)]
  BY <1>1 DEF TypeOK, StreamRead
<1>3. readers' \in [Ptr -> Seq(Stream)] /\ refcount' \in [Ptr -> Int]
  BY DEF TypeOK, StreamRead
<1>4. asked' \subseteq [to : Nat, stream : Stream, pattern : Pattern]
  BY DEF TypeOK, StreamRead
<1> QED BY <1>2, <1>3, <1>4 DEF TypeOK, StreamRead, engines, counters

LEMMA CancelTyped ==
  ASSUME TypeOK, NEW c \in Ptr, NEW s \in Stream, StreamCancel(c, s)
  PROVE  TypeOK'
<1>1. cmdpipe' \in [Stream -> Seq(Command)]
  <2>1. Cancel(c) \in Command
    BY CancelTypes
  <2>2. cmdpipe' = [cmdpipe EXCEPT ![s] = Append(@, Cancel(c))] /\ cmdpipe \in [Stream -> Seq(Command)]
    BY DEF TypeOK, StreamCancel
  <2> QED BY <2>1, <2>2, PipeTypes
<1>2. readers' \in [Ptr -> Seq(Stream)]
  <2>1. readers \in [Ptr -> Seq(Stream)]
    BY DEF TypeOK
  <2>2. SubSeq(readers[c], 2, Len(readers[c])) \in Seq(Stream)
    BY <2>1
  <2>3. readers' = [readers EXCEPT ![c] = SubSeq(@, 2, Len(@))]
    BY DEF StreamCancel
  <2> QED BY ONLY <2>1, <2>2, <2>3, c \in Ptr
<1>3. asked' \subseteq asked /\ expected' \subseteq expected /\ cancels' \in Nat
  BY DEF TypeOK, StreamCancel
<1> QED BY <1>1, <1>2, <1>3 DEF TypeOK, StreamCancel, engines

LEMMA DueTyped ==
  ASSUME TypeOK, NEW c \in Ptr, NEW s \in Stream, NEW x, NEW id \in Nat
  PROVE  Due(c, s, x, id) \subseteq [to : Nat, msg : Nat]
BY DEF TypeOK, Due

LEMMA SendTyped ==
  ASSUME TypeOK, NEW c \in Ptr, NEW x \in Subject, StreamSend(c, x)
  PROVE  TypeOK'
<1> DEFINE s == writer[c]
           id == Len(log) + 1
           item == [sender |-> c, msg |-> id]
<1>1. s \in Stream /\ id \in Nat
  BY DEF TypeOK, StreamSend
<1>2. item \in Posted
  BY <1>1 DEF Posted
<1>3. log' \in Seq([stream : Stream, from : Nat, subject : Subject])
  BY <1>1 DEF TypeOK, StreamSend
<1>4. links' \in Seq(Int)
  BY DEF TypeOK, StreamSend
<1>5. expected' \subseteq [to : Nat, msg : Nat]
  BY <1>1, DueTyped DEF TypeOK, StreamSend
<1>6. topipe' \in [Stream -> Seq(Posted)]
  <2>1. topipe' = topipe \/ topipe' = [topipe EXCEPT ![s] = Append(@, item)]
    BY DEF StreamSend
  <2>2. topipe \in [Stream -> Seq(Posted)]
    BY DEF TypeOK
  <2> HIDE DEF s, id, item
  <2>3. [topipe EXCEPT ![s] = Append(@, item)] \in [Stream -> Seq(Posted)]
    BY ONLY <1>1, <1>2, <2>2, PipeTypes
  <2> QED BY ONLY <2>1, <2>2, <2>3
<1>7. blocked' \in Waiting \cup {NoTask}
  <2>1. blocked' = blocked \/ blocked' = [stream |-> s, item |-> item]
    BY DEF StreamSend
  <2> HIDE DEF s, item
  <2> QED BY <1>1, <1>2, <2>1 DEF TypeOK, Waiting
<1> QED BY <1>3, <1>4, <1>5, <1>6, <1>7 DEF TypeOK, StreamSend, contexts, engines, counters

LEMMA CompletesTyped ==
  ASSUME TypeOK, SendCompletes
  PROVE  TypeOK'
<1>1. blocked.item \in Posted
  BY DEF TypeOK, SendCompletes, Waiting
<1>2. topipe' \in [Stream -> Seq(Posted)]
  <2>1. topipe' = [topipe EXCEPT ![blocked.stream] = Append(@, blocked.item)]
    BY DEF SendCompletes
  <2>2. topipe \in [Stream -> Seq(Posted)] /\ blocked.stream \in Stream
    BY DEF TypeOK, SendCompletes, Waiting
  <2> QED BY ONLY <1>1, <2>1, <2>2, PipeTypes
<1> QED BY <1>2 DEF TypeOK, SendCompletes, contexts, engines, counters, history

LEMMA DropTyped ==
  ASSUME TypeOK, NEW c \in Ptr, Drop(c)
  PROVE  TypeOK'
<1>1. cmdpipe' \in [Stream -> Seq(Command)]
  BY CancelTypes DEF Drop
<1>2. readers' \in [Ptr -> Seq(Stream)] /\ expected' \subseteq expected
  BY DEF TypeOK, Drop
<1>3. DestroyContext(c)
  BY DEF Drop
<1> QED BY <1>1, <1>2, <1>3, DestroyTypes DEF TypeOK, Drop, engines

LEMMA LinkTypes ==
  ASSUME TypeOK, NEW id \in Nat
  PROVE  /\ Link(id) \in Seq(Int) /\ Len(Link(id)) = Len(links)
         /\ Unlink(id) \in Seq(Int) /\ Len(Unlink(id)) = Len(links)
<1>1. links \in Seq(Int)
  BY DEF TypeOK
<1>2. Link(id) = links \/ Link(id) = [links EXCEPT ![id] = @ + 1]
  BY DEF Link
<1>3. Unlink(id) = links \/ Unlink(id) = [links EXCEPT ![id] = @ - 1]
  BY DEF Unlink
<1>4. ASSUME NEW n \in Int
      PROVE  /\ [links EXCEPT ![id] = n] \in Seq(Int)
             /\ Len([links EXCEPT ![id] = n]) = Len(links)
  <2> DEFINE other == [links EXCEPT ![id] = n]
             k == Len(links)
  <2>1. k \in Nat /\ links \in [1 .. k -> Int]
    BY <1>1
  <2>2. other \in [1 .. k -> Int]
    <3> HIDE DEF k
    <3> QED BY ONLY <2>1, n \in Int
  <2> HIDE DEF other, k
  <2>3. other \in Seq(Int) /\ Len(other) = k
    BY ONLY <2>1, <2>2
  <2> QED BY <2>3 DEF other, k
<1>5. \/ id \notin DOMAIN links
      \/ links[id] + 1 \in Int /\ links[id] - 1 \in Int
  BY <1>1
<1>6. id \notin DOMAIN links => \A n : [links EXCEPT ![id] = n] = links
  BY <1>1
<1>7. CASE id \notin DOMAIN links
  BY ONLY <1>1, <1>2, <1>3, <1>6, <1>7
<1>8. CASE id \in DOMAIN links
  <2>1. links[id] + 1 \in Int /\ links[id] - 1 \in Int
    BY <1>5, <1>8
  <2> QED BY ONLY <1>1, <1>2, <1>3, <1>4, <2>1
<1> QED BY <1>7, <1>8

LEMMA ForwardTyped ==
  ASSUME TypeOK, NEW s \in Stream, ForwardTraffic(s)
  PROVE  TypeOK'
<1> DEFINE item == Head(frompipe[s])
           c == item.client
<1>1. item \in Relayed
  BY DEF TypeOK, ForwardTraffic
<1>2. c \in Ptr /\ item.msg \in Nat
  BY <1>1 DEF Relayed
<1>3. frompipe' \in [Stream -> Seq(Relayed)]
  BY DEF TypeOK, ForwardTraffic
<1>4. CASE state[c] = "free"
  BY <1>3, <1>4 DEF TypeOK, ForwardTraffic, contexts, engines
<1>5. CASE state[c] # "free" /\ item.msg = ACK
  <2>1. PutClient(c)
    BY <1>5 DEF ForwardTraffic
  <2> QED BY <1>2, <1>3, <1>5, <2>1, PutTypes DEF TypeOK, ForwardTraffic, engines
<1>6. CASE state[c] # "free" /\ item.msg # ACK
  <2>1. links' \in Seq(Int)
    BY <1>2, <1>6, LinkTypes DEF ForwardTraffic
  <2>2. life[c] \in Nat
    BY <1>2 DEF TypeOK
  <2>3. delivered' \in Seq([to : Nat, msg : Nat])
    <3>1. [to |-> life[c], msg |-> item.msg] \in [to : Nat, msg : Nat]
      BY <1>2, <2>2
    <3>2. \/ delivered' = delivered
          \/ delivered' = Append(delivered, [to |-> life[c], msg |-> item.msg])
      BY <1>6 DEF ForwardTraffic
    <3>3. delivered \in Seq([to : Nat, msg : Nat])
      BY DEF TypeOK
    <3>4. Append(delivered, [to |-> life[c], msg |-> item.msg]) \in Seq([to : Nat, msg : Nat])
      <4> HIDE DEF item, c
      <4>1. PICK d : d = [to |-> life[c], msg |-> item.msg]
        OBVIOUS
      <4>2. PICK S : S = [to : Nat, msg : Nat]
        OBVIOUS
      <4>3. Append(delivered, d) \in Seq(S)
        BY ONLY <3>1, <3>3, <4>1, <4>2
      <4> QED BY ONLY <4>1, <4>2, <4>3
    <3> QED BY ONLY <3>2, <3>3, <3>4
  <2> QED BY <1>3, <1>6, <2>1, <2>3 DEF TypeOK, ForwardTraffic, contexts, engines
<1> QED BY <1>4, <1>5, <1>6

LEMMA CommandTyped ==
  ASSUME TypeOK, NEW s \in Stream, EngineCommand(s)
  PROVE  TypeOK'
<1> DEFINE cmd == Head(cmdpipe[s])
<1>1. cmd \in Command
  BY DEF TypeOK, EngineCommand
<1>2. <<cmd.pattern, cmd.client>> \in Selector
  BY <1>1 DEF Command, Selector
<1>3. cmdpipe' \in [Stream -> Seq(Command)]
  BY DEF TypeOK, EngineCommand
<1>4. selectors' \in [Stream -> SUBSET Selector]
  <2>1. CASE selectors' = [selectors EXCEPT ![s] = @ \cup {<<cmd.pattern, cmd.client>>}]
    BY <1>2, <2>1 DEF TypeOK
  <2>2. CASE selectors' = [selectors EXCEPT ![s] = {sel \in @ : sel[2] # cmd.client}]
    BY <2>2 DEF TypeOK
  <2> QED BY <2>1, <2>2 DEF EngineCommand, Compile
<1>5. relaying' \in [Stream -> Task \cup {NoTask}]
  <2>1. [msg |-> ACK, todo |-> {<<cmd.pattern, cmd.client>>}] \in Task
    BY <1>2 DEF Task, ACK
  <2>2. \/ relaying' = relaying
        \/ relaying' = [relaying EXCEPT ![s] = [msg |-> ACK, todo |-> {<<cmd.pattern, cmd.client>>}]]
    BY DEF EngineCommand
  <2> QED BY <2>1, <2>2 DEF TypeOK
<1> QED BY <1>3, <1>4, <1>5 DEF TypeOK, EngineCommand, contexts, counters, history

LEMMA MessageTyped ==
  ASSUME TypeOK, NEW s \in Stream, EngineMessage(s)
  PROVE  TypeOK'
<1> DEFINE item == Head(topipe[s])
           todo == Matching(s, item.sender, log[item.msg].subject)
<1>1. item \in Posted
  BY DEF TypeOK, EngineMessage
<1>2. topipe' \in [Stream -> Seq(Posted)]
  BY DEF TypeOK, EngineMessage, TakeNext
<1>3. todo \subseteq Selector
  BY DEF TypeOK, Matching
<1>4. [msg |-> item.msg, todo |-> todo] \in Task
  <2> HIDE DEF todo
  <2> QED BY <1>1, <1>3 DEF Task, Posted
<1>5. relaying' = [relaying EXCEPT ![s] = [msg |-> item.msg, todo |-> todo]]
  BY DEF EngineMessage, TakeNext
<1>6. relaying' \in [Stream -> Task \cup {NoTask}]
  <2> HIDE DEF item, todo
  <2> QED BY <1>4, <1>5 DEF TypeOK
<1> QED BY <1>2, <1>6 DEF TypeOK, EngineMessage, contexts, counters, history

\* What an engine is busy with.
LEMMA TaskTypes ==
  ASSUME TypeOK, NEW s \in Stream, relaying[s] # NoTask
  PROVE  /\ relaying[s] \in Task /\ relaying[s].msg \in Nat
         /\ relaying[s].todo \subseteq Selector
         /\ \A sel \in relaying[s].todo : sel[2] \in Ptr
BY DEF TypeOK, Task, Selector

LEMMA RelayTyped ==
  ASSUME TypeOK, NEW s \in Stream, Relay(s)
  PROVE  TypeOK'
<1>1. relaying[s] # NoTask
  BY DEF Relay
<1>2. PICK sel \in relaying[s].todo :
        /\ frompipe' = [frompipe EXCEPT ![s] =
             Append(@, [client |-> sel[2], msg |-> relaying[s].msg])]
        /\ relaying' = [relaying EXCEPT ![s].todo = @ \ {sel}]
  BY DEF Relay
<1>3. [client |-> sel[2], msg |-> relaying[s].msg] \in Relayed
  BY <1>1, TaskTypes DEF Relayed
<1>4. frompipe' \in [Stream -> Seq(Relayed)]
  BY <1>2, <1>3 DEF TypeOK
<1>5. relaying' \in [Stream -> Task \cup {NoTask}]
  <2>1. [relaying[s] EXCEPT !.todo = @ \ {sel}] \in Task
    BY <1>1, TaskTypes DEF Task
  <2> QED BY <1>2, <2>1 DEF TypeOK
<1>6. links' \in Seq(Int)
  BY <1>1, TaskTypes, LinkTypes DEF Relay
<1> QED BY <1>4, <1>5, <1>6 DEF TypeOK, Relay, contexts, counters, history

LEMMA RelayDoneTyped ==
  ASSUME TypeOK, NEW s \in Stream, RelayDone(s)
  PROVE  TypeOK'
<1>1. links' \in Seq(Int)
  BY TaskTypes, LinkTypes DEF RelayDone
<1> QED BY <1>1 DEF TypeOK, RelayDone, contexts, pipes, counters, history

LEMMA NextTyped == TypeOK /\ [Next]_vars => TypeOK'
<1> SUFFICES ASSUME TypeOK, [Next]_vars PROVE TypeOK'
  OBVIOUS
<1>1. CASE UNCHANGED vars
  BY <1>1 DEF TypeOK, vars, contexts, pipes, engines, counters, history
<1>2. ASSUME NEW c \in Ptr, NEW s \in Stream, StreamWrite(c, s) PROVE TypeOK'
  BY <1>2 DEF TypeOK, StreamWrite, pipes, engines, counters, history
<1>3. CASE Server
  BY <1>2, <1>3, OpenTyped, CancelTyped, ReadTyped, SendTyped, DropTyped, CompletesTyped DEF Server
<1>4. ASSUME NEW s \in Stream, ForwardTraffic(s) \/ Engine(s) PROVE TypeOK'
  BY <1>4, ForwardTyped, CommandTyped, MessageTyped, RelayTyped, RelayDoneTyped DEF Engine
<1> QED BY <1>1, <1>3, <1>4 DEF Next

-----------------------------------------------------------------------------
\* What the steps do to the messages, place by place

MessagesStay == UNCHANGED <<topipe, frompipe, relaying, blocked, delivered, log, links>>

\* Streams other than s keep what they have.
OthersStay(s) ==
  \A t \in Stream \ {s} :
    topipe'[t] = topipe[t] /\ frompipe'[t] = frompipe[t] /\ relaying'[t] = relaying[t]

\* A client at c publishes a message about x to stream s.
Published(s, c, x) ==
  LET item == [sender |-> c, msg |-> Len(log) + 1]
  IN /\ OthersStay(s) /\ frompipe'[s] = frompipe[s] /\ relaying'[s] = relaying[s]
     /\ delivered' = delivered
     /\ state[c] = "connected" /\ life' = life
     /\ Longer(log, log', [stream |-> s, from |-> life[c], subject |-> x])
     /\ Longer(links, links', 1)
     /\ blocked = NoTask
     /\ \/ Longer(topipe[s], topipe'[s], item) /\ blocked' = NoTask
        \/ topipe'[s] = topipe[s] /\ blocked' = [stream |-> s, item |-> item]

Completed(s) ==
  /\ OthersStay(s) /\ frompipe'[s] = frompipe[s] /\ relaying'[s] = relaying[s]
  /\ UNCHANGED <<delivered, log, links>>
  /\ blocked # NoTask /\ blocked.stream = s
  /\ blocked' = NoTask /\ Longer(topipe[s], topipe'[s], blocked.item)

\* The server takes an item that it can drop: an ACK, or after a crash any.
Dropped(s) ==
  /\ OthersStay(s) /\ topipe'[s] = topipe[s] /\ relaying'[s] = relaying[s]
  /\ UNCHANGED <<delivered, log, links, blocked>>
  /\ Shorter(frompipe[s], frompipe'[s])

\* It passes a message on, to the client or to nobody.
Forwarded(s) ==
  /\ OthersStay(s) /\ topipe'[s] = topipe[s] /\ relaying'[s] = relaying[s]
  /\ UNCHANGED <<log, blocked>>
  /\ Shorter(frompipe[s], frompipe'[s])
  /\ links' = [links EXCEPT ![frompipe[s][1].msg] = @ - 1]
  /\ life' = life
  /\ \/ state[frompipe[s][1].client] # "connected" /\ delivered' = delivered
     \/ /\ state[frompipe[s][1].client] = "connected"
        /\ Longer(delivered, delivered',
                  [to |-> life[frompipe[s][1].client], msg |-> frompipe[s][1].msg])

\* The engine starts a task, an ACK.
AckStarted(s) ==
  /\ OthersStay(s) /\ topipe'[s] = topipe[s] /\ frompipe'[s] = frompipe[s]
  /\ UNCHANGED <<delivered, log, links, blocked>>
  /\ relaying[s] = NoTask /\ relaying'[s] # NoTask /\ relaying'[s].msg = ACK

\* It takes a message.
Taken(s) ==
  /\ OthersStay(s) /\ frompipe'[s] = frompipe[s]
  /\ UNCHANGED <<delivered, log, links, blocked>>
  /\ relaying[s] = NoTask /\ relaying'[s] # NoTask
  /\ Shorter(topipe[s], topipe'[s])
  /\ relaying'[s].msg = topipe[s][1].msg
  /\ relaying'[s].todo = Matching(s, topipe[s][1].sender, log[topipe[s][1].msg].subject)

Sent(s, sel) ==
  /\ OthersStay(s) /\ topipe'[s] = topipe[s]
  /\ UNCHANGED <<delivered, log, blocked>>
  /\ links' = Link(relaying[s].msg)
  /\ relaying[s] # NoTask /\ relaying'[s] # NoTask /\ sel \in relaying[s].todo
  /\ relaying'[s].msg = relaying[s].msg /\ relaying'[s].todo = relaying[s].todo \ {sel}
  /\ Longer(frompipe[s], frompipe'[s], [client |-> sel[2], msg |-> relaying[s].msg])

Finished(s) ==
  /\ OthersStay(s) /\ topipe'[s] = topipe[s] /\ frompipe'[s] = frompipe[s]
  /\ UNCHANGED <<delivered, log, blocked>>
  /\ links' = Unlink(relaying[s].msg)
  /\ relaying[s] # NoTask /\ relaying[s].todo = {} /\ relaying'[s] = NoTask

LEMMA SendMoves ==
  ASSUME TypeOK, NEW c \in Ptr, NEW x \in Subject, StreamSend(c, x)
  PROVE  writer[c] \in Stream /\ Published(writer[c], c, x)
<1> DEFINE s == writer[c]
           item == [sender |-> c, msg |-> Len(log) + 1]
           entry == [stream |-> s, from |-> life[c], subject |-> x]
<1>1. s \in Stream /\ blocked = NoTask
  BY DEF TypeOK, StreamSend, Reactor
<1>2. log' = Append(log, entry) /\ links' = Append(links, 1)
  BY DEF StreamSend
<1>3. entry \in [stream : Stream, from : Nat, subject : Subject] /\ item \in Posted
  BY <1>1 DEF TypeOK, Posted
<1>4. Longer(log, log', entry) /\ Longer(links, links', 1)
  <2>1. log \in Seq([stream : Stream, from : Nat, subject : Subject]) /\ links \in Seq(Int)
    BY DEF TypeOK
  <2> HIDE DEF entry
  <2>2. Longer(log, Append(log, entry), entry)
    BY ONLY <1>3, <2>1, AppendIsLonger
  <2>3. Longer(links, Append(links, 1), 1)
    BY ONLY <2>1, AppendIsLonger
  <2> QED BY ONLY <1>2, <2>2, <2>3
<1>5. /\ UNCHANGED <<frompipe, relaying, delivered>>
      /\ \/ topipe' = [topipe EXCEPT ![s] = Append(@, item)] /\ blocked' = blocked
         \/ topipe' = topipe /\ blocked' = [stream |-> s, item |-> item]
  BY DEF StreamSend, engines
<1>6. topipe \in [Stream -> Seq(Posted)]
  BY DEF TypeOK
<1>7. OthersStay(s)
  <2> HIDE DEF s, item
  <2> QED BY <1>1, <1>5, <1>6 DEF OthersStay
<1>8. \/ Longer(topipe[s], topipe'[s], item) /\ blocked' = NoTask
      \/ topipe'[s] = topipe[s] /\ blocked' = [stream |-> s, item |-> item]
  <2> HIDE DEF s, item
  <2>1. Longer(topipe[s], Append(topipe[s], item), item)
    BY <1>1, <1>3, <1>6, AppendIsLonger
  <2> QED BY <1>1, <1>5, <1>6, <2>1
<1>9. state[c] = "connected" /\ life' = life
  BY DEF StreamSend, Connected, counters
<1> QED BY <1>1, <1>4, <1>5, <1>7, <1>8, <1>9 DEF Published

LEMMA CompletesMoves ==
  ASSUME TypeOK, SendCompletes
  PROVE  blocked.stream \in Stream /\ Completed(blocked.stream)
<1> DEFINE s == blocked.stream
           item == blocked.item
<1>1. s \in Stream /\ item \in Posted /\ topipe \in [Stream -> Seq(Posted)]
  BY DEF TypeOK, SendCompletes, Waiting
<1>2. topipe' = [topipe EXCEPT ![s] = Append(@, item)]
      /\ UNCHANGED <<frompipe, relaying, delivered, log, links>>
      /\ blocked # NoTask /\ blocked' = NoTask
  BY DEF SendCompletes, engines, history
<1>3. OthersStay(s)
  <2> HIDE DEF s, item
  <2> QED BY <1>1, <1>2 DEF OthersStay
<1>4. Longer(topipe[s], topipe'[s], item)
  <2> HIDE DEF s, item
  <2>1. Longer(topipe[s], Append(topipe[s], item), item)
    BY <1>1, AppendIsLonger
  <2> QED BY <1>1, <1>2, <2>1
<1> QED BY <1>1, <1>2, <1>3, <1>4 DEF Completed

LEMMA ForwardMoves ==
  ASSUME TypeOK, NEW s \in Stream, ForwardTraffic(s)
  PROVE  /\ frompipe[s][1] \in Relayed /\ 1 \in DOMAIN frompipe[s]
         /\ \/ state[frompipe[s][1].client] = "free" /\ Dropped(s) /\ fault'
            \/ /\ state[frompipe[s][1].client] # "free" /\ frompipe[s][1].msg = ACK
               /\ Dropped(s) /\ fault' = fault
            \/ /\ state[frompipe[s][1].client] # "free" /\ frompipe[s][1].msg # ACK
               /\ Forwarded(s) /\ fault' = fault
<1> DEFINE item == Head(frompipe[s])
           c == item.client
<1>1. frompipe \in [Stream -> Seq(Relayed)] /\ frompipe[s] \in Seq(Relayed) /\ frompipe[s] # <<>>
  BY DEF TypeOK, ForwardTraffic
<1>2. Shorter(frompipe[s], Tail(frompipe[s])) /\ item = frompipe[s][1] /\ 1 \in DOMAIN frompipe[s]
  BY <1>1, TailIsShorter
<1>3. frompipe[s][1] \in Relayed
  BY <1>1, <1>2
<1>4. frompipe' = [frompipe EXCEPT ![s] = Tail(@)] /\ UNCHANGED <<topipe, relaying, blocked, log>>
  BY DEF ForwardTraffic, engines
<1>5. Shorter(frompipe[s], frompipe'[s]) /\ OthersStay(s)
  BY <1>1, <1>2, <1>4 DEF OthersStay
<1>6. CASE state[c] = "free"
  BY <1>2, <1>3, <1>4, <1>5, <1>6 DEF ForwardTraffic, Dropped
<1>7. CASE state[c] # "free" /\ item.msg = ACK
  BY <1>2, <1>3, <1>4, <1>5, <1>7 DEF ForwardTraffic, Dropped
<1>8. CASE state[c] # "free" /\ item.msg # ACK
  <2>1. /\ links' = [links EXCEPT ![item.msg] = @ - 1] /\ fault' = fault
        /\ life' = life
        /\ \/ state[c] # "connected" /\ delivered' = delivered
           \/ /\ state[c] = "connected"
              /\ delivered' = Append(delivered, [to |-> life[c], msg |-> item.msg])
    BY <1>8 DEF ForwardTraffic, Unlink, Connected
  <2>2. PICK d : d = [to |-> life[c], msg |-> item.msg]
    OBVIOUS
  <2>3. Longer(delivered, Append(delivered, d), d)
    <3>1. d \in [to : Nat, msg : Nat] /\ delivered \in Seq([to : Nat, msg : Nat])
      BY <1>2, <1>3, <2>2 DEF TypeOK, Relayed
    <3> QED BY ONLY <3>1, AppendIsLonger
  <2>5. \/ state[c] # "connected" /\ delivered' = delivered
        \/ state[c] = "connected" /\ Longer(delivered, delivered', d)
    BY <2>1, <2>2, <2>3
  <2>4. Forwarded(s)
    BY <1>2, <1>4, <1>5, <2>1, <2>2, <2>5 DEF Forwarded
  <2> QED BY <1>2, <1>3, <1>8, <2>1, <2>4
<1> QED BY <1>6, <1>7, <1>8

LEMMA CommandMoves ==
  ASSUME TypeOK, NEW s \in Stream, EngineCommand(s)
  PROVE  MessagesStay \/ AckStarted(s)
<1> DEFINE task == [msg |-> ACK, todo |-> {<<Head(cmdpipe[s]).pattern, Head(cmdpipe[s]).client>>}]
<1>1. relaying \in [Stream -> Task \cup {NoTask}]
  BY DEF TypeOK
<1>2. UNCHANGED <<topipe, frompipe, blocked, delivered, log, links>> /\ relaying[s] = NoTask
  BY DEF EngineCommand, history
<1>3. relaying' = relaying \/ relaying' = [relaying EXCEPT ![s] = task]
  BY DEF EngineCommand
<1>4. CASE relaying' = relaying
  BY <1>2, <1>4 DEF MessagesStay
<1>5. CASE relaying' = [relaying EXCEPT ![s] = task]
  <2>1. task \in Task
    <3>1. Head(cmdpipe[s]) \in Command
      BY DEF TypeOK, EngineCommand
    <3> QED BY <3>1 DEF Task, Selector, Command, ACK
  <2>2. task # NoTask /\ task.msg = ACK
    BY <2>1, TaskAssumption
  <2> HIDE DEF task
  <2>3. OthersStay(s) /\ relaying'[s] = task
    BY <1>1, <1>2, <1>5 DEF OthersStay
  <2> QED BY <1>2, <2>2, <2>3 DEF AckStarted
<1> QED BY <1>3, <1>4, <1>5

LEMMA MessageMoves ==
  ASSUME TypeOK, NEW s \in Stream, EngineMessage(s)
  PROVE  Taken(s) /\ topipe[s][1] \in Posted /\ 1 \in DOMAIN topipe[s]
<1> DEFINE item == Head(topipe[s])
           todo == Matching(s, item.sender, log[item.msg].subject)
           task == [msg |-> item.msg, todo |-> todo]
<1>1. topipe \in [Stream -> Seq(Posted)] /\ topipe[s] \in Seq(Posted) /\ topipe[s] # <<>>
  BY DEF TypeOK, EngineMessage
<1>2. Shorter(topipe[s], Tail(topipe[s])) /\ item = topipe[s][1] /\ 1 \in DOMAIN topipe[s]
  BY <1>1, TailIsShorter
<1>3. item \in Posted
  BY <1>1
<1>4. /\ topipe' = [topipe EXCEPT ![s] = Tail(@)] /\ relaying[s] = NoTask
      /\ relaying' = [relaying EXCEPT ![s] = task]
      /\ UNCHANGED <<frompipe, blocked, delivered, log, links>>
  BY DEF EngineMessage, TakeNext, history
<1>5. task \in Task
  <2>1. todo \subseteq Selector
    BY DEF TypeOK, Matching
  <2> HIDE DEF todo
  <2> QED BY <1>3, <2>1 DEF Task, Posted
<1>6. task # NoTask /\ task.msg = item.msg /\ task.todo = todo
  BY <1>5, TaskAssumption
<1>7. relaying \in [Stream -> Task \cup {NoTask}]
  BY DEF TypeOK
<1>8. OthersStay(s) /\ relaying'[s] = task /\ Shorter(topipe[s], topipe'[s])
  <2> HIDE DEF task, item
  <2> QED BY <1>1, <1>2, <1>4, <1>7 DEF OthersStay
<1>9. relaying'[s].todo = Matching(s, topipe[s][1].sender, log[topipe[s][1].msg].subject)
  BY <1>2, <1>6, <1>8
<1> HIDE DEF task, todo
<1> QED BY <1>2, <1>3, <1>4, <1>6, <1>8, <1>9 DEF Taken

LEMMA RelayMoves ==
  ASSUME TypeOK, NEW s \in Stream, Relay(s)
  PROVE  /\ \E sel \in relaying[s].todo : Sent(s, sel)
         /\ relaying[s] # NoTask
<1>1. relaying[s] # NoTask
  BY DEF Relay
<1>2. PICK sel \in relaying[s].todo :
        /\ frompipe' = [frompipe EXCEPT ![s] =
             Append(@, [client |-> sel[2], msg |-> relaying[s].msg])]
        /\ relaying' = [relaying EXCEPT ![s].todo = @ \ {sel}]
  BY DEF Relay
<1>3. links' = Link(relaying[s].msg) /\ UNCHANGED <<topipe, delivered, log, blocked>>
  BY DEF Relay, history
<1>4. PICK item : item = [client |-> sel[2], msg |-> relaying[s].msg]
  OBVIOUS
<1>5. item \in Relayed
  BY <1>1, <1>4, TaskTypes DEF Relayed
<1>6. frompipe \in [Stream -> Seq(Relayed)] /\ relaying \in [Stream -> Task \cup {NoTask}]
  BY DEF TypeOK
<1>7. Longer(frompipe[s], Append(frompipe[s], item), item)
  BY <1>5, <1>6, AppendIsLonger
<1>8. Longer(frompipe[s], frompipe'[s], item)
  BY <1>2, <1>4, <1>6, <1>7
<1>9. relaying'[s] = [relaying[s] EXCEPT !.todo = @ \ {sel}]
  BY <1>2, <1>6
<1>10. PICK task : task = relaying'[s]
  OBVIOUS
<1>11. task \in Task /\ task.msg = relaying[s].msg /\ task.todo = relaying[s].todo \ {sel}
  BY <1>1, <1>9, <1>10, TaskTypes DEF Task
<1>12. task # NoTask
  BY <1>11, TaskAssumption
<1>13. OthersStay(s)
  BY <1>2, <1>3, <1>6 DEF OthersStay
<1>14. Sent(s, sel)
  BY <1>1, <1>3, <1>4, <1>8, <1>10, <1>11, <1>12, <1>13 DEF Sent
<1> QED BY <1>1, <1>14

LEMMA RelayDoneMoves ==
  ASSUME TypeOK, NEW s \in Stream, RelayDone(s)
  PROVE  Finished(s) /\ relaying[s].todo = {}
<1>1. relaying \in [Stream -> Task \cup {NoTask}]
  BY DEF TypeOK
<1> QED BY <1>1 DEF RelayDone, Finished, OthersStay, pipes, history

\* The steps of the others concern no message.
LEMMA NothingMoves ==
  ASSUME \/ \E p \in Peer, c \in Ptr : Open(p, c)
         \/ \E c \in Ptr, s \in Stream : StreamWrite(c, s) \/ StreamCancel(c, s)
         \/ \E c \in Ptr, s \in Stream, p \in Pattern : StreamRead(c, s, p)
         \/ \E c \in Ptr : Drop(c)
         \/ UNCHANGED vars
  PROVE  MessagesStay
BY DEF MessagesStay, Open, StreamWrite, StreamCancel, StreamRead, Drop, vars, pipes, engines, history

MessagesMove ==
  /\ fault => fault'
  /\ \/ MessagesStay
     \/ \E s \in Stream, c \in Ptr, x \in Subject : Published(s, c, x)
     \/ \E s \in Stream :
          \/ Completed(s)
          \/ /\ Dropped(s)
             /\ \/ fault' /\ state[frompipe[s][1].client] = "free"
                \/ frompipe[s][1].msg = ACK
          \/ Forwarded(s) /\ frompipe[s][1].msg # ACK
          \/ AckStarted(s) \/ Taken(s) \/ Finished(s)
          \/ \E sel \in Selector : Sent(s, sel)

LEMMA StepMoves ==
  ASSUME TypeOK, [Next]_vars
  PROVE  MessagesMove
<1>1. ASSUME UNCHANGED vars PROVE MessagesMove
  BY <1>1, NothingMoves DEF MessagesMove, vars
<1>2. ASSUME NEW p \in Peer, NEW c \in Ptr, Open(p, c) PROVE MessagesMove
  BY <1>2, NothingMoves DEF MessagesMove, Open
<1>3. ASSUME NEW c \in Ptr, NEW s \in Stream, StreamWrite(c, s) \/ StreamCancel(c, s)
      PROVE  MessagesMove
  BY <1>3, NothingMoves DEF MessagesMove, StreamWrite, StreamCancel
<1>4. ASSUME NEW c \in Ptr, NEW s \in Stream, NEW p \in Pattern, StreamRead(c, s, p)
      PROVE  MessagesMove
  BY <1>4, NothingMoves DEF MessagesMove, StreamRead
<1>5. ASSUME NEW c \in Ptr, NEW x \in Subject, StreamSend(c, x) PROVE MessagesMove
  <2>1. fault' = fault
    BY <1>5 DEF StreamSend
  <2> QED BY <1>5, <2>1, SendMoves DEF MessagesMove
<1>6. ASSUME NEW c \in Ptr, Drop(c) PROVE MessagesMove
  BY <1>6, NothingMoves DEF MessagesMove, Drop
<1>7. ASSUME SendCompletes PROVE MessagesMove
  <2>1. fault' = fault
    BY <1>7 DEF SendCompletes
  <2> QED BY <1>7, <2>1, CompletesMoves DEF MessagesMove
<1>8. ASSUME NEW s \in Stream, ForwardTraffic(s) PROVE MessagesMove
  BY <1>8, ForwardMoves DEF MessagesMove
<1>9. ASSUME NEW s \in Stream, Engine(s) PROVE MessagesMove
  <2>1. fault' = fault
    BY <1>9 DEF Engine, EngineCommand, EngineMessage, Relay, RelayDone
  <2>2. CASE EngineCommand(s)
    BY <2>1, <2>2, CommandMoves DEF MessagesMove
  <2>3. CASE EngineMessage(s)
    BY <2>1, <2>3, MessageMoves DEF MessagesMove
  <2>4. CASE Relay(s)
    <3>1. PICK sel \in relaying[s].todo : Sent(s, sel)
      BY <2>4, RelayMoves
    <3>2. sel \in Selector
      BY <2>4, <3>1, RelayMoves, TaskTypes
    <3> QED BY <2>1, <3>1, <3>2 DEF MessagesMove
  <2>5. CASE RelayDone(s)
    BY <2>1, <2>5, RelayDoneMoves DEF MessagesMove
  <2> QED BY <1>9, <2>2, <2>3, <2>4, <2>5 DEF Engine
<1> QED BY <1>1, <1>2, <1>3, <1>4, <1>5, <1>6, <1>7, <1>8, <1>9 DEF Next, Server

\* What a step does to the places of one stream.
LEMMA MovesAt ==
  ASSUME MessagesMove, NEW t \in Stream
  PROVE  \/ topipe'[t] = topipe[t] /\ frompipe'[t] = frompipe[t] /\ relaying'[t] = relaying[t]
         \/ \E c \in Ptr, x \in Subject : Published(t, c, x)
         \/ Completed(t)
         \/ /\ Dropped(t)
            /\ state[frompipe[t][1].client] = "free" \/ frompipe[t][1].msg = ACK
         \/ Forwarded(t) \/ AckStarted(t) \/ Taken(t) \/ Finished(t)
         \/ \E sel \in Selector : Sent(t, sel)
<1>1. ASSUME NEW s \in Stream \ {t}, OthersStay(s)
      PROVE  topipe'[t] = topipe[t] /\ frompipe'[t] = frompipe[t] /\ relaying'[t] = relaying[t]
  BY <1>1 DEF OthersStay
<1>2. CASE MessagesStay
  BY <1>2 DEF MessagesStay
<1>3. ASSUME NEW s \in Stream, NEW c \in Ptr, NEW x \in Subject, Published(s, c, x)
      PROVE  OthersStay(s)
  BY <1>3 DEF Published
<1>4. ASSUME NEW s \in Stream,
             \/ Completed(s) \/ Dropped(s) \/ Forwarded(s) \/ AckStarted(s) \/ Taken(s) \/ Finished(s)
             \/ \E sel \in Selector : Sent(s, sel)
      PROVE  OthersStay(s)
  BY <1>4 DEF Completed, Dropped, Forwarded, AckStarted, Taken, Finished, Sent
<1>5. CASE \E s \in Stream, c \in Ptr, x \in Subject : Published(s, c, x)
  BY <1>1, <1>3, <1>5
<1> QED BY <1>1, <1>2, <1>4, <1>5 DEF MessagesMove

\* The log only grows.
LEMMA LogGrows ==
  ASSUME TypeOK, MessagesMove
  PROVE  /\ Len(log) \in Nat /\ Len(log') \in Nat /\ Len(log) <= Len(log')
         /\ \A m \in Message : m \in Message' /\ log'[m] = log[m]
         /\ \A s, m : Holds(log, s, m) => Holds(log', s, m)
         /\ \A s, m : m \in Message => (Holds(log', s, m) <=> Holds(log, s, m))
<1>1. Len(log) \in Nat
  BY DEF TypeOK
<1>2. log' = log \/ \E entry : Longer(log, log', entry)
  BY DEF MessagesMove, MessagesStay, Published, Completed, Dropped, Forwarded, AckStarted,
         Taken, Sent, Finished
<1>3. Len(log') \in Nat /\ Len(log) <= Len(log')
  BY <1>1, <1>2 DEF Longer
<1>4. ASSUME NEW m \in Message PROVE m \in Message' /\ log'[m] = log[m]
  BY <1>1, <1>2, <1>3 DEF Longer, Message
<1> QED BY <1>1, <1>3, <1>4 DEF Holds, Message

LEMMA LinkLengths ==
  ASSUME TypeOK, InPlace, MessagesMove
  PROVE  Len(links') = Len(log')
<1>1. links \in Seq(Int)
  BY DEF TypeOK
<1>2. \A id \in Nat : Len(Link(id)) = Len(links) /\ Len(Unlink(id)) = Len(links)
  BY LinkTypes
<1>3. ASSUME NEW s \in Stream, Forwarded(s) PROVE Len(links') = Len(log')
  <2>1. PICK n : n = links[frompipe[s][1].msg] - 1
    OBVIOUS
  <2>2. links' = [links EXCEPT ![frompipe[s][1].msg] = n] /\ log' = log
    BY <1>3, <2>1 DEF Forwarded
  <2>3. Len(links') = Len(links)
    BY <1>1, <2>2
  <2> QED BY <2>2, <2>3 DEF InPlace
<1>4. ASSUME NEW s \in Stream, \/ Finished(s) \/ \E sel \in Selector : Sent(s, sel)
      PROVE  Len(links') = Len(log')
  <2>1. relaying[s].msg \in Nat
    BY <1>4, TaskTypes DEF Finished, Sent
  <2> QED BY <1>2, <1>4, <2>1 DEF Finished, Sent, InPlace
<1>5. ASSUME NEW s \in Stream, NEW c \in Ptr, NEW x \in Subject, Published(s, c, x)
      PROVE  Len(links') = Len(log')
  BY <1>5 DEF Published, Longer, InPlace
<1> QED BY <1>3, <1>4, <1>5 DEF MessagesMove, MessagesStay, Completed, Dropped, AckStarted, Taken, InPlace

-----------------------------------------------------------------------------
\* Every message stays with its stream

LEMMA OthersStand ==
  ASSUME TypeOK, MessagesMove, NEW s \in Stream, Stand(s),
         topipe'[s] = topipe[s], frompipe'[s] = frompipe[s], relaying'[s] = relaying[s]
  PROVE  Stand(s)'
BY LogGrows DEF Stand, OfStream

LEMMA NewInLog ==
  ASSUME TypeOK, NEW s \in Stream, NEW c \in Ptr, NEW x \in Subject, Published(s, c, x)
  PROVE  Holds(log', s, Len(log) + 1)
BY DEF TypeOK, Published, Longer, Holds

LEMMA StandStep ==
  ASSUME TypeOK, InPlace, MessagesMove, NEW t \in Stream
  PROVE  Stand(t)'
<1>0. Stand(t)
  BY DEF InPlace
<1>1. \A s, m : Holds(log, s, m) => Holds(log', s, m)
  BY LogGrows
<1>2. CASE topipe'[t] = topipe[t] /\ frompipe'[t] = frompipe[t] /\ relaying'[t] = relaying[t]
  BY <1>0, <1>2, OthersStand
<1>4. ASSUME NEW c \in Ptr, NEW x \in Subject, Published(t, c, x) PROVE Stand(t)'
  <2>1. Holds(log', t, Len(log) + 1)
    BY <1>4, NewInLog
  <2>2. \A i \in DOMAIN topipe'[t] : Holds(log', t, topipe'[t][i].msg)
    <3>1. CASE topipe'[t] = topipe[t]
      BY <1>0, <1>1, <3>1 DEF Stand, OfStream
    <3>2. CASE Longer(topipe[t], topipe'[t], [sender |-> c, msg |-> Len(log) + 1])
      BY <1>0, <1>1, <2>1, <3>2, LongerEntries DEF Stand, OfStream
    <3> QED BY <1>4, <3>1, <3>2 DEF Published
  <2>3. frompipe'[t] = frompipe[t] /\ relaying'[t] = relaying[t]
    BY <1>4 DEF Published
  <2> QED BY <1>0, <1>1, <2>2, <2>3 DEF Stand, OfStream
<1>5. CASE Completed(t)
  <2>1. Holds(log', t, blocked.item.msg)
    BY <1>1, <1>5 DEF Completed, InPlace, OfStream
  <2> QED BY <1>0, <1>1, <1>5, <2>1 DEF Completed, Stand, OfStream, Longer
<1>6. CASE Dropped(t) \/ Forwarded(t)
  <2>1. Shorter(frompipe[t], frompipe'[t]) /\ topipe'[t] = topipe[t] /\ relaying'[t] = relaying[t]
    BY <1>6 DEF Dropped, Forwarded
  <2>2. \A i \in DOMAIN frompipe'[t] : \E k \in DOMAIN frompipe[t] : frompipe'[t][i] = frompipe[t][k]
    BY <2>1, ShorterEntries
  <2> QED BY <1>0, <1>1, <2>1, <2>2 DEF Stand, OfStream
<1>7. CASE AckStarted(t)
  BY <1>0, <1>1, <1>7 DEF AckStarted, Stand, OfStream
<1>8. CASE Taken(t)
  <2>1. Holds(log', t, topipe[t][1].msg)
    BY <1>0, <1>1, <1>8 DEF Taken, Stand, OfStream, Shorter
  <2>2. /\ Shorter(topipe[t], topipe'[t]) /\ frompipe'[t] = frompipe[t]
        /\ relaying'[t].msg = topipe[t][1].msg
    BY <1>8 DEF Taken
  <2>3. \A i \in DOMAIN topipe'[t] : \E k \in DOMAIN topipe[t] : topipe'[t][i] = topipe[t][k]
    BY <2>2, ShorterEntries
  <2> QED BY <1>0, <1>1, <2>1, <2>2, <2>3 DEF Stand, OfStream
<1>9. ASSUME NEW sel \in Selector, Sent(t, sel) PROVE Stand(t)'
  BY <1>0, <1>1, <1>9 DEF Sent, Stand, OfStream, Longer
<1>10. CASE Finished(t)
  BY <1>0, <1>1, <1>10 DEF Finished, Stand, OfStream
<1> QED BY <1>2, <1>4, <1>5, <1>6, <1>7, <1>8, <1>9, <1>10, MovesAt

\* What a step makes of the deliveries that are due.
LEMMA ExpectedStep ==
  ASSUME TypeOK, [Next]_vars
  PROVE  expected' \subseteq expected \cup {due \in [to : Nat, msg : Nat] : due.msg \in Message'}
<1>1. ASSUME NEW c \in Ptr, NEW x \in Subject, StreamSend(c, x)
      PROVE  expected' \subseteq expected \cup {due \in [to : Nat, msg : Nat] : due.msg \in Message'}
  <2>1. expected' = expected \cup Due(c, writer[c], x, Len(log) + 1)
    BY <1>1 DEF StreamSend
  <2>2. \A due \in Due(c, writer[c], x, Len(log) + 1) : due.msg = Len(log) + 1
    BY DEF Due
  <2>3. Due(c, writer[c], x, Len(log) + 1) \subseteq [to : Nat, msg : Nat]
    <3>1. writer[c] \in Stream
      BY <1>1, SendMoves
    <3>2. Len(log) + 1 \in Nat
      BY DEF TypeOK
    <3> QED BY <3>1, <3>2, DueTyped
  <2>4. Len(log) + 1 \in Message'
    <3>1. \E entry : Longer(log, log', entry)
      BY <1>1, SendMoves DEF Published
    <3> QED BY <3>1 DEF Longer, Message
  <2> QED BY <2>1, <2>2, <2>3, <2>4
<1>2. ASSUME NEW c \in Ptr, NEW s \in Stream, StreamCancel(c, s) PROVE expected' \subseteq expected
  BY <1>2 DEF StreamCancel
<1>3. ASSUME NEW c \in Ptr, Drop(c) PROVE expected' \subseteq expected
  BY <1>3 DEF Drop
<1>4. CASE UNCHANGED vars
  BY <1>4 DEF vars, history
<1>5. ASSUME NEW s \in Stream, ForwardTraffic(s) \/ Engine(s) PROVE expected' = expected
  BY <1>5 DEF ForwardTraffic, Engine, EngineCommand, EngineMessage, Relay, RelayDone, history
<1>6. CASE Server
  <2>1. ASSUME NEW p \in Peer, NEW c \in Ptr, Open(p, c) PROVE expected' = expected
    BY <2>1 DEF Open, history
  <2>2. ASSUME NEW c \in Ptr, NEW s \in Stream, StreamWrite(c, s) PROVE expected' = expected
    BY <2>2 DEF StreamWrite, history
  <2>3. ASSUME NEW c \in Ptr, NEW s \in Stream, NEW p \in Pattern, StreamRead(c, s, p)
        PROVE  expected' = expected
    BY <2>3 DEF StreamRead
  <2>4. CASE SendCompletes
    BY <2>4 DEF SendCompletes, history
  <2> QED BY <1>1, <1>2, <1>3, <1>6, <2>1, <2>2, <2>3, <2>4 DEF Server
<1> QED BY <1>4, <1>5, <1>6 DEF Next

LEMMA InPlaceStep ==
  ASSUME TypeOK, InPlace, [Next]_vars
  PROVE  InPlace'
<1>1. MessagesMove
  BY StepMoves
<1>2. Len(links') = Len(log') /\ \A s \in Stream : Stand(s)'
  BY <1>1, LinkLengths, StandStep
<1>3. \A m \in Message : m \in Message'
  BY <1>1, LogGrows
<1>4. \A s, m : Holds(log, s, m) => Holds(log', s, m)
  BY <1>1, LogGrows
<1>5. blocked' # NoTask => Holds(log', blocked'.stream, blocked'.item.msg)
  <2>1. CASE blocked' = blocked
    BY <1>4, <2>1 DEF InPlace, OfStream
  <2>2. ASSUME NEW s \in Stream, NEW c \in Ptr, NEW x \in Subject, Published(s, c, x)
        PROVE  blocked' # NoTask => Holds(log', blocked'.stream, blocked'.item.msg)
    <3>1. Holds(log', s, Len(log) + 1)
      BY <2>2, NewInLog
    <3>2. blocked' # NoTask => blocked'.stream = s /\ blocked'.item.msg = Len(log) + 1
      BY <2>2 DEF Published
    <3> QED BY <3>1, <3>2
  <2>3. blocked' = blocked \/ blocked' = NoTask
        \/ \E s \in Stream, c \in Ptr, x \in Subject : Published(s, c, x)
    BY <1>1 DEF MessagesMove, MessagesStay, Completed, Dropped, Forwarded, AckStarted, Taken,
                Sent, Finished
  <2> QED BY <2>1, <2>2, <2>3
<1>6. \A i \in DOMAIN delivered' : delivered'[i].msg \in Message'
  <2>1. CASE delivered' = delivered
    BY <1>3, <2>1 DEF InPlace
  <2>2. ASSUME NEW s \in Stream, Forwarded(s), frompipe[s][1].msg # ACK,
               NEW d, d.msg = frompipe[s][1].msg, Longer(delivered, delivered', d)
        PROVE  \A i \in DOMAIN delivered' : delivered'[i].msg \in Message'
    <3>1. OfStream(s, frompipe[s][1].msg)
      BY <2>2 DEF InPlace, Stand, Forwarded, Shorter
    <3>2. d.msg \in Message'
      BY <1>3, <2>2, <3>1 DEF OfStream, Holds, Message
    <3> QED BY <1>3, <2>2, <3>2 DEF InPlace, Longer
  <2>3. delivered' = delivered
        \/ \E s \in Stream : /\ Forwarded(s) /\ frompipe[s][1].msg # ACK
                             /\ \E d : d.msg = frompipe[s][1].msg /\ Longer(delivered, delivered', d)
    <3>1. ASSUME NEW s \in Stream, Forwarded(s), frompipe[s][1].msg # ACK
          PROVE  \/ delivered' = delivered
                 \/ \E d : d.msg = frompipe[s][1].msg /\ Longer(delivered, delivered', d)
      <4>1. PICK d : d = [to |-> life[frompipe[s][1].client], msg |-> frompipe[s][1].msg]
        OBVIOUS
      <4>2. d.msg = frompipe[s][1].msg
        BY <4>1
      <4> QED BY <3>1, <4>1, <4>2 DEF Forwarded
    <3> QED BY <1>1, <3>1 DEF MessagesMove, MessagesStay, Published, Completed, Dropped, AckStarted, Taken,
                Sent, Finished
  <2> QED BY <2>1, <2>2, <2>3
<1>7. \A due \in expected' : due.msg \in Message'
  BY <1>3, ExpectedStep DEF InPlace
<1> QED BY <1>2, <1>5, <1>6, <1>7 DEF InPlace, OfStream

-----------------------------------------------------------------------------
\* The messages of a stream stay in order

LEMMA Numbers ==
  ASSUME TypeOK, InPlace, NEW s \in Stream
  PROVE  /\ Len(log) \in Nat
         /\ \A i \in DOMAIN topipe[s] : topipe[s][i].msg \in 1 .. Len(log) /\ i \in Int
         /\ \A i \in DOMAIN frompipe[s] : frompipe[s][i].msg \in 0 .. Len(log) /\ i \in Int
         /\ relaying[s] # NoTask => relaying[s].msg \in 0 .. Len(log)
         /\ \A i \in DOMAIN delivered : delivered[i].msg \in 1 .. Len(log) /\ i \in Int
         /\ blocked # NoTask => blocked.item.msg \in 1 .. Len(log)
<1>1. Len(log) \in Nat
  BY DEF TypeOK
<1>2. DOMAIN topipe[s] \subseteq Int /\ DOMAIN frompipe[s] \subseteq Int /\ DOMAIN delivered \subseteq Int
  BY DEF TypeOK
<1>3. \A m : Holds(log, s, m) => m \in 1 .. Len(log)
  BY DEF Holds
<1> QED BY <1>1, <1>2, <1>3 DEF InPlace, Stand, OfStream, ACK, Message, Holds

\* Nothing of stream s is delivered now.
DeliveriesKept(s) ==
  \A i \in DOMAIN delivered' :
    Holds(log', s, delivered'[i].msg) =>
      i \in DOMAIN delivered /\ delivered'[i] = delivered[i] /\ Holds(log, s, delivered[i].msg)

LEMMA SameDeliveries ==
  ASSUME TypeOK, InPlace, MessagesMove, NEW s \in Stream, delivered' = delivered
  PROVE  DeliveriesKept(s)
BY LogGrows DEF DeliveriesKept, InPlace

LEMMA OtherDeliveries ==
  ASSUME TypeOK, InPlace, MessagesMove, NEW s \in Stream, NEW t \in Stream \ {s},
         Forwarded(s), frompipe[s][1].msg # ACK
  PROVE  DeliveriesKept(t)
<1>1. CASE delivered' = delivered
  BY <1>1, SameDeliveries
<1>2. CASE delivered' # delivered
  <2>1. PICK d : /\ d = [to |-> life[frompipe[s][1].client], msg |-> frompipe[s][1].msg]
                 /\ Longer(delivered, delivered', d)
    BY <1>2 DEF Forwarded
  <2>2. d.msg = frompipe[s][1].msg
    BY <2>1
  <2>3. Holds(log, s, d.msg)
    BY <2>2 DEF InPlace, Stand, OfStream, Forwarded, Shorter
  <2>4. d.msg \in Message /\ ~ Holds(log, t, d.msg)
    BY <2>3 DEF Holds, Message
  <2>5. ~ Holds(log', t, d.msg)
    BY <2>4, LogGrows
  <2>6. ASSUME NEW i \in DOMAIN delivered', Holds(log', t, delivered'[i].msg)
        PROVE  i \in DOMAIN delivered /\ delivered'[i] = delivered[i] /\ Holds(log, t, delivered[i].msg)
    <3>1. i \in DOMAIN delivered /\ delivered'[i] = delivered[i]
      BY <2>1, <2>5, <2>6, LongerEntries
    <3>2. delivered[i].msg \in Message
      BY <3>1 DEF InPlace
    <3> QED BY <2>6, <3>1, <3>2, LogGrows
  <2> QED BY <2>6 DEF DeliveriesKept
<1> QED BY <1>1, <1>2

\* What was newer, and not older, than what was delivered still is.
LEMMA DeliveredParts ==
  ASSUME NEW s, DeliveriesKept(s), DeliveredInOrder(s)
  PROVE  /\ DeliveredInOrder(s)'
         /\ \A m : NoneNewer(s, m) => NoneNewer(s, m)'
         /\ \A m : AllOlder(s, m) =>
              \A i \in DOMAIN delivered' : OfStream(s, delivered[i].msg)' => delivered'[i].msg < m
BY DEF DeliveriesKept, DeliveredInOrder, NoneNewer, AllOlder, OfStream

LEMMA OthersLinedUp ==
  ASSUME NEW s, DeliveriesKept(s), LinedUp(s),
         topipe'[s] = topipe[s], frompipe'[s] = frompipe[s], relaying'[s] = relaying[s],
         blocked' = blocked \/ blocked' = NoTask \/ blocked'.stream # s
  PROVE  LinedUp(s)'
<1> USE DEF LinedUp
<1>1. DeliveredInOrder(s)' /\ \A m : NoneNewer(s, m) => NoneNewer(s, m)'
  BY DeliveredParts
<1>2. \A m : AllOlder(s, m) => AllOlder(s, m)'
  BY DeliveredParts DEF AllOlder
<1>3. PipeInOrder(s)' /\ PipeNewer(s)'
  BY <1>2 DEF PipeInOrder, PipeNewer
<1>4. BlockedNewest(s)'
  BY <1>2 DEF BlockedNewest
<1>5. TaskNotOlder(s)' /\ RelayedInOrder(s)'
  BY <1>1 DEF TaskNotOlder, RelayedInOrder
<1> QED BY <1>1, <1>3, <1>4, <1>5

LEMMA PublishedLinedUp ==
  ASSUME TypeOK, InPlace, MessagesMove, NEW s \in Stream, LinedUp(s),
         NEW c \in Ptr, NEW x \in Subject, Published(s, c, x)
  PROVE  LinedUp(s)'
<1> USE DEF LinedUp
<1> DEFINE n == Len(log) + 1
<1>1. DeliveriesKept(s)
  BY SameDeliveries DEF Published
<1>2. DeliveredInOrder(s)' /\ \A m : NoneNewer(s, m) => NoneNewer(s, m)'
  BY <1>1, DeliveredParts
<1>3. frompipe'[s] = frompipe[s] /\ relaying'[s] = relaying[s] /\ delivered' = delivered
  BY DEF Published
<1>4. \A m : AllOlder(s, m) => AllOlder(s, m)'
  BY <1>1, <1>3, DeliveredParts DEF AllOlder
<1>5. AllOlder(s, n)
  <2>1. Len(log) \in Nat /\ \A m \in 0 .. Len(log) : m < n
    BY Numbers
  <2> HIDE DEF n
  <2>2. \A m \in 1 .. Len(log) : m < n
    BY <2>1
  <2> QED BY <2>1, <2>2, Numbers DEF AllOlder
<1>6. TaskNotOlder(s)' /\ RelayedInOrder(s)'
  BY <1>2, <1>3 DEF TaskNotOlder, RelayedInOrder
<1>7. \A i \in DOMAIN topipe[s] : topipe[s][i].msg < n
  BY Numbers
<1> HIDE DEF n
<1>8. PICK item : item = [sender |-> c, msg |-> n]
  OBVIOUS
<1>9. CASE Longer(topipe[s], topipe'[s], item) /\ blocked' = NoTask
  <2>1. \A i \in DOMAIN topipe'[s] : \/ i \in DOMAIN topipe[s] /\ topipe'[s][i] = topipe[s][i]
                                     \/ i = Len(topipe[s]) + 1 /\ topipe'[s][i].msg = n
    BY <1>8, <1>9, LongerEntries
  <2>2. DOMAIN topipe[s] \subseteq Int /\ \A i \in DOMAIN topipe[s] : ~ (Len(topipe[s]) + 1 <= i)
    BY DEF TypeOK
  <2>3. PipeInOrder(s)'
    BY <1>7, <2>1, <2>2 DEF PipeInOrder
  <2>4. PipeNewer(s)'
    BY <1>4, <1>5, <2>1 DEF PipeNewer
  <2> QED BY <1>2, <1>6, <1>9, <2>3, <2>4 DEF BlockedNewest
<1>10. CASE topipe'[s] = topipe[s] /\ blocked' = [stream |-> s, item |-> item]
  <2>1. PipeInOrder(s)' /\ PipeNewer(s)'
    BY <1>4, <1>10 DEF PipeInOrder, PipeNewer
  <2>2. BlockedNewest(s)'
    BY <1>4, <1>5, <1>7, <1>8, <1>10 DEF BlockedNewest
  <2> QED BY <1>2, <1>6, <2>1, <2>2
<1> QED BY <1>8, <1>9, <1>10 DEF Published, n

LEMMA CompletedLinedUp ==
  ASSUME TypeOK, InPlace, MessagesMove, NEW s \in Stream, LinedUp(s), Completed(s)
  PROVE  LinedUp(s)'
<1> USE DEF LinedUp
<1>1. DeliveriesKept(s)
  BY SameDeliveries DEF Completed
<1>2. DeliveredInOrder(s)' /\ \A m : NoneNewer(s, m) => NoneNewer(s, m)'
  BY <1>1, DeliveredParts
<1>3. /\ frompipe'[s] = frompipe[s] /\ relaying'[s] = relaying[s] /\ delivered' = delivered
      /\ blocked' = NoTask /\ Longer(topipe[s], topipe'[s], blocked.item)
  BY DEF Completed
<1>4. \A m : AllOlder(s, m) => AllOlder(s, m)'
  BY <1>1, <1>3, DeliveredParts DEF AllOlder
<1>5. TaskNotOlder(s)' /\ RelayedInOrder(s)'
  BY <1>2, <1>3 DEF TaskNotOlder, RelayedInOrder
<1>6. AllOlder(s, blocked.item.msg) /\ \A i \in DOMAIN topipe[s] : topipe[s][i].msg < blocked.item.msg
  BY DEF BlockedNewest, Completed
<1>7. PICK n : n = blocked.item.msg
  OBVIOUS
<1>8. \A i \in DOMAIN topipe'[s] : \/ i \in DOMAIN topipe[s] /\ topipe'[s][i] = topipe[s][i]
                                   \/ i = Len(topipe[s]) + 1 /\ topipe'[s][i].msg = n
  BY <1>3, <1>7, LongerEntries
<1>9. DOMAIN topipe[s] \subseteq Int /\ \A i \in DOMAIN topipe[s] : ~ (Len(topipe[s]) + 1 <= i)
  BY DEF TypeOK
<1>10. PipeInOrder(s)'
  BY <1>6, <1>7, <1>8, <1>9 DEF PipeInOrder
<1>11. PipeNewer(s)'
  BY <1>4, <1>6, <1>7, <1>8 DEF PipeNewer
<1> QED BY <1>2, <1>3, <1>5, <1>10, <1>11 DEF BlockedNewest

LEMMA DroppedLinedUp ==
  ASSUME TypeOK, InPlace, MessagesMove, NEW s \in Stream, LinedUp(s), Dropped(s)
  PROVE  LinedUp(s)'
<1> USE DEF LinedUp
<1>1. DeliveriesKept(s)
  BY SameDeliveries DEF Dropped
<1>2. DeliveredInOrder(s)' /\ \A m : NoneNewer(s, m) => NoneNewer(s, m)'
  BY <1>1, DeliveredParts
<1>3. topipe'[s] = topipe[s] /\ relaying'[s] = relaying[s] /\ blocked' = blocked
  BY DEF Dropped
<1>4. \A i \in DOMAIN frompipe'[s] :
        i + 1 \in DOMAIN frompipe[s] /\ frompipe'[s][i] = frompipe[s][i + 1] /\ i \in Int
  BY ShorterEntries DEF Dropped
<1>5. \A m : AllOlder(s, m) => AllOlder(s, m)'
  BY <1>1, <1>3, <1>4, DeliveredParts DEF AllOlder
<1>6. PipeInOrder(s)' /\ PipeNewer(s)' /\ BlockedNewest(s)'
  BY <1>3, <1>5 DEF PipeInOrder, PipeNewer, BlockedNewest
<1>7. TaskNotOlder(s)'
  BY <1>2, <1>3, <1>4 DEF TaskNotOlder
<1>8. RelayedInOrder(s)'
  <2>1. \A i, j \in DOMAIN frompipe'[s] : i < j => i + 1 < j + 1
    BY <1>4
  <2> QED BY <1>2, <1>4, <2>1 DEF RelayedInOrder
<1> QED BY <1>2, <1>6, <1>7, <1>8

LEMMA AckLinedUp ==
  ASSUME TypeOK, InPlace, MessagesMove, NEW s \in Stream, LinedUp(s), AckStarted(s) \/ Finished(s)
  PROVE  LinedUp(s)'
<1> USE DEF LinedUp
<1>1. DeliveriesKept(s)
  BY SameDeliveries DEF AckStarted, Finished
<1>2. DeliveredInOrder(s)' /\ \A m : NoneNewer(s, m) => NoneNewer(s, m)'
  BY <1>1, DeliveredParts
<1>3. topipe'[s] = topipe[s] /\ frompipe'[s] = frompipe[s] /\ blocked' = blocked
  BY DEF AckStarted, Finished
<1>4. relaying'[s] = NoTask \/ relaying'[s].msg = ACK
  BY DEF AckStarted, Finished
<1>5. \A m \in 1 .. Len(log) : AllOlder(s, m) => AllOlder(s, m)'
  <2> TAKE m \in 1 .. Len(log)
  <2> HAVE AllOlder(s, m)
  <2>1. ACK < m
    BY Numbers DEF ACK
  <2>2. relaying'[s] # NoTask => relaying'[s].msg < m
    BY <1>4, <2>1
  <2> QED BY <1>1, <1>3, <2>2, DeliveredParts DEF AllOlder
<1>6. PipeInOrder(s)' /\ PipeNewer(s)'
  BY <1>3, <1>5, Numbers DEF PipeInOrder, PipeNewer
<1>7. BlockedNewest(s)'
  BY <1>3, <1>5, Numbers DEF BlockedNewest
<1>8. TaskNotOlder(s)' /\ RelayedInOrder(s)'
  BY <1>2, <1>3, <1>4 DEF TaskNotOlder, RelayedInOrder
<1> QED BY <1>2, <1>6, <1>7, <1>8

LEMMA TakenLinedUp ==
  ASSUME TypeOK, InPlace, MessagesMove, NEW s \in Stream, LinedUp(s), Taken(s)
  PROVE  LinedUp(s)'
<1> USE DEF LinedUp
<1>1. DeliveriesKept(s)
  BY SameDeliveries DEF Taken
<1>2. DeliveredInOrder(s)' /\ \A m : NoneNewer(s, m) => NoneNewer(s, m)'
  BY <1>1, DeliveredParts
<1>3. /\ frompipe'[s] = frompipe[s] /\ blocked' = blocked /\ Shorter(topipe[s], topipe'[s])
      /\ relaying'[s] # NoTask /\ relaying'[s].msg = topipe[s][1].msg
  BY DEF Taken
<1>4. /\ 1 \in DOMAIN topipe[s]
      /\ \A i \in DOMAIN topipe'[s] :
           i + 1 \in DOMAIN topipe[s] /\ topipe'[s][i] = topipe[s][i + 1] /\ i \in Int /\ 1 < i + 1
  BY <1>3, ShorterEntries
<1>5. \A m : AllOlder(s, m) /\ topipe[s][1].msg < m => AllOlder(s, m)'
  BY <1>1, <1>3, DeliveredParts DEF AllOlder
<1>6. PipeInOrder(s)'
  <2>1. \A i, j \in DOMAIN topipe'[s] : i < j => i + 1 < j + 1
    BY <1>4
  <2> QED BY <1>4, <2>1 DEF PipeInOrder
<1>7. PipeNewer(s)'
  <2>1. \A i \in DOMAIN topipe'[s] : topipe[s][1].msg < topipe[s][i + 1].msg
    BY <1>4 DEF PipeInOrder
  <2> QED BY <1>4, <1>5, <2>1 DEF PipeNewer
<1>8. BlockedNewest(s)'
  BY <1>3, <1>4, <1>5 DEF BlockedNewest
<1>9. TaskNotOlder(s)'
  <2>1. AllOlder(s, topipe[s][1].msg)
    BY <1>4 DEF PipeNewer
  <2>2. PICK m \in Nat : m = topipe[s][1].msg
    BY <1>4, Numbers
  <2>3. NoneNewer(s, m)
    <3>1. \A i \in DOMAIN delivered : delivered[i].msg \in Int
      BY Numbers
    <3> QED BY <2>1, <2>2, <3>1 DEF AllOlder, NoneNewer
  <2>4. \A i \in DOMAIN frompipe[s] : frompipe[s][i].msg <= m
    <3>1. \A i \in DOMAIN frompipe[s] : frompipe[s][i].msg \in Int
      BY Numbers
    <3> QED BY <2>1, <2>2, <3>1 DEF AllOlder
  <2> QED BY <1>2, <1>3, <2>2, <2>3, <2>4 DEF TaskNotOlder
<1>10. RelayedInOrder(s)'
  BY <1>2, <1>3 DEF RelayedInOrder
<1> QED BY <1>2, <1>6, <1>7, <1>8, <1>9, <1>10

LEMMA SentLinedUp ==
  ASSUME TypeOK, InPlace, MessagesMove, NEW s \in Stream, LinedUp(s), NEW sel \in Selector, Sent(s, sel)
  PROVE  LinedUp(s)'
<1> USE DEF LinedUp
<1>1. DeliveriesKept(s)
  BY SameDeliveries DEF Sent
<1>2. DeliveredInOrder(s)' /\ \A m : NoneNewer(s, m) => NoneNewer(s, m)'
  BY <1>1, DeliveredParts
<1>3. /\ topipe'[s] = topipe[s] /\ blocked' = blocked
      /\ relaying[s] # NoTask /\ relaying'[s] # NoTask /\ relaying'[s].msg = relaying[s].msg
  BY DEF Sent
<1>4. PICK n \in Int : n = relaying[s].msg
  BY <1>3, Numbers
<1>5. PICK item : item = [client |-> sel[2], msg |-> relaying[s].msg]
  OBVIOUS
<1>6. Longer(frompipe[s], frompipe'[s], item) /\ item.msg = n
  BY <1>4, <1>5 DEF Sent
<1>7. \A i \in DOMAIN frompipe'[s] : \/ i \in DOMAIN frompipe[s] /\ frompipe'[s][i] = frompipe[s][i]
                                     \/ i = Len(frompipe[s]) + 1 /\ frompipe'[s][i].msg = n
  BY <1>6, LongerEntries
<1>8. \A m : AllOlder(s, m) => AllOlder(s, m)'
  BY <1>1, <1>3, <1>4, <1>7, DeliveredParts DEF AllOlder
<1>9. PipeInOrder(s)' /\ PipeNewer(s)' /\ BlockedNewest(s)'
  BY <1>3, <1>8 DEF PipeInOrder, PipeNewer, BlockedNewest
<1>10. n # ACK => NoneNewer(s, n) /\ \A i \in DOMAIN frompipe[s] : frompipe[s][i].msg <= n
  BY <1>3, <1>4 DEF TaskNotOlder
<1>11. TaskNotOlder(s)'
  BY <1>2, <1>3, <1>4, <1>7, <1>10 DEF TaskNotOlder
<1>12. RelayedInOrder(s)'
  <2>1. /\ DOMAIN frompipe[s] \subseteq Int
        /\ \A i \in DOMAIN frompipe[s] : ~ (Len(frompipe[s]) + 1 <= i)
    BY DEF TypeOK
  <2> QED BY <1>2, <1>7, <1>10, <2>1 DEF RelayedInOrder
<1> QED BY <1>2, <1>9, <1>11, <1>12

LEMMA ForwardedLinedUp ==
  ASSUME TypeOK, InPlace, MessagesMove, NEW s \in Stream, LinedUp(s),
         Forwarded(s), frompipe[s][1].msg # ACK
  PROVE  LinedUp(s)'
<1> USE DEF LinedUp
<1>1. PICK n \in Int : n = frompipe[s][1].msg
  <2>1. 1 \in DOMAIN frompipe[s]
    BY DEF Forwarded, Shorter
  <2> QED BY <2>1, Numbers
<1>2. /\ topipe'[s] = topipe[s] /\ relaying'[s] = relaying[s] /\ blocked' = blocked /\ log' = log
      /\ Shorter(frompipe[s], frompipe'[s])
  BY DEF Forwarded
<1>3. /\ 1 \in DOMAIN frompipe[s]
      /\ \A i \in DOMAIN frompipe'[s] :
           i + 1 \in DOMAIN frompipe[s] /\ frompipe'[s][i] = frompipe[s][i + 1] /\ i \in Int /\ 1 < i + 1
  BY <1>2, ShorterEntries
<1>4. \A i \in DOMAIN delivered' : \/ i \in DOMAIN delivered /\ delivered'[i] = delivered[i]
                                   \/ i = Len(delivered) + 1 /\ delivered'[i].msg = n
  <2>1. CASE delivered' = delivered
    BY <2>1
  <2>2. CASE delivered' # delivered
    <3>1. PICK d : /\ d = [to |-> life[frompipe[s][1].client], msg |-> frompipe[s][1].msg]
                   /\ Longer(delivered, delivered', d)
      BY <2>2 DEF Forwarded
    <3>2. d.msg = n
      BY <1>1, <3>1
    <3> QED BY <3>1, <3>2, LongerEntries
  <2> QED BY <2>1, <2>2
<1>5. NoneNewer(s, n)
  BY <1>1, <1>3 DEF RelayedInOrder
<1>6. \A m : AllOlder(s, m) => AllOlder(s, m)'
  <2>1. \A m : AllOlder(s, m) => n < m
    BY <1>1, <1>3 DEF AllOlder
  <2> QED BY <1>2, <1>3, <1>4, <2>1 DEF AllOlder, OfStream
<1>7. \A m : NoneNewer(s, m) /\ n <= m => NoneNewer(s, m)'
  BY <1>2, <1>4 DEF NoneNewer, OfStream
<1>8. PipeInOrder(s)' /\ PipeNewer(s)' /\ BlockedNewest(s)'
  BY <1>2, <1>6 DEF PipeInOrder, PipeNewer, BlockedNewest
<1>9. TaskNotOlder(s)'
  BY <1>1, <1>2, <1>3, <1>7 DEF TaskNotOlder
<1>10. RelayedInOrder(s)'
  <2>1. \A i, j \in DOMAIN frompipe'[s] : i < j => i + 1 < j + 1
    BY <1>3
  <2>2. \A j \in DOMAIN frompipe'[s] : frompipe'[s][j].msg # ACK => n <= frompipe'[s][j].msg
    BY <1>1, <1>3 DEF RelayedInOrder
  <2> QED BY <1>3, <1>7, <2>1, <2>2 DEF RelayedInOrder
<1>11. DeliveredInOrder(s)'
  <2>1. DOMAIN delivered \subseteq Int /\ \A i \in DOMAIN delivered : ~ (Len(delivered) + 1 <= i)
    BY DEF TypeOK
  <2> QED BY <1>2, <1>4, <1>5, <2>1 DEF DeliveredInOrder, NoneNewer, OfStream
<1> QED BY <1>8, <1>9, <1>10, <1>11

LEMMA LinedUpStep ==
  ASSUME TypeOK, InPlace, AllLinedUp, MessagesMove
  PROVE  AllLinedUp'
<1> SUFFICES ASSUME NEW t \in Stream PROVE LinedUp(t)'
  BY DEF AllLinedUp
<1>0. LinedUp(t)
  BY DEF AllLinedUp
<1>1. CASE MessagesStay
  BY <1>0, <1>1, OthersLinedUp, SameDeliveries DEF MessagesStay
<1>2. ASSUME NEW s \in Stream \ {t}, OthersStay(s), delivered' = delivered,
             blocked' = blocked \/ blocked' = NoTask \/ blocked'.stream # t
      PROVE  LinedUp(t)'
  <2>1. topipe'[t] = topipe[t] /\ frompipe'[t] = frompipe[t] /\ relaying'[t] = relaying[t]
    BY <1>2 DEF OthersStay
  <2> QED BY <1>0, <1>2, <2>1, OthersLinedUp, SameDeliveries
<1>3. ASSUME NEW s \in Stream, NEW c \in Ptr, NEW x \in Subject, Published(s, c, x) PROVE LinedUp(t)'
  <2>1. CASE s = t
    BY <1>0, <1>3, <2>1, PublishedLinedUp
  <2>2. CASE s # t
    <3>1. OthersStay(s) /\ delivered' = delivered /\ (blocked' = NoTask \/ blocked'.stream # t)
      BY <1>3, <2>2 DEF Published
    <3> QED BY <1>2, <2>2, <3>1
  <2> QED BY <2>1, <2>2
<1>4. ASSUME NEW s \in Stream, Completed(s) \/ Dropped(s) \/ AckStarted(s) \/ Taken(s) \/ Finished(s)
                              \/ \E sel \in Selector : Sent(s, sel)
      PROVE  LinedUp(t)'
  <2>1. CASE s = t
    BY <1>0, <1>4, <2>1, CompletedLinedUp, DroppedLinedUp, AckLinedUp, TakenLinedUp, SentLinedUp
  <2>2. CASE s # t
    <3>1. OthersStay(s) /\ delivered' = delivered /\ (blocked' = blocked \/ blocked' = NoTask)
      BY <1>4 DEF Completed, Dropped, AckStarted, Taken, Finished, Sent
    <3> QED BY <1>2, <2>2, <3>1
  <2> QED BY <2>1, <2>2
<1>5. ASSUME NEW s \in Stream, Forwarded(s), frompipe[s][1].msg # ACK PROVE LinedUp(t)'
  <2>1. CASE s = t
    BY <1>0, <1>5, <2>1, ForwardedLinedUp
  <2>2. CASE s # t
    <3>1. DeliveriesKept(t)
      BY <1>5, <2>2, OtherDeliveries
    <3>2. /\ topipe'[t] = topipe[t] /\ frompipe'[t] = frompipe[t] /\ relaying'[t] = relaying[t]
          /\ blocked' = blocked
      BY <1>5, <2>2 DEF Forwarded, OthersStay
    <3> QED BY <1>0, <3>1, <3>2, OthersLinedUp
  <2> QED BY <2>1, <2>2
<1> QED BY <1>1, <1>3, <1>4, <1>5 DEF MessagesMove

-----------------------------------------------------------------------------
\* The references to a message

Piped(s, id) == Count(topipe[s], [sender : Ptr, msg : {id}])
Handed(s, id) == Count(frompipe[s], [client : Ptr, msg : {id}])
Busy(s, id) == IF relaying[s] # NoTask /\ relaying[s].msg = id THEN 1 ELSE 0
Stuck(id) == IF blocked # NoTask /\ blocked.item.msg = id THEN 1 ELSE 0

LEMMA HoldersSum ==
  ASSUME TypeOK, NEW s \in Stream, NEW id
  PROVE  /\ Piped(s, id) \in Nat /\ Handed(s, id) \in Nat /\ Busy(s, id) \in Nat /\ Stuck(id) \in Nat
         /\ log[id].stream = s => Holders(id) = Piped(s, id) + Handed(s, id) + Busy(s, id) + Stuck(id)
<1>1. topipe[s] \in Seq(Posted) /\ frompipe[s] \in Seq(Relayed)
  BY DEF TypeOK
<1>2. Piped(s, id) \in Nat /\ Handed(s, id) \in Nat
  BY <1>1, CountType DEF Piped, Handed
<1> QED BY <1>2 DEF Holders, Piped, Handed, Busy, Stuck

LEMMA PipedLonger ==
  ASSUME TypeOK, NEW s \in Stream, NEW id, NEW item \in Posted, Longer(topipe[s], topipe'[s], item)
  PROVE  Piped(s, id)' = Piped(s, id) + (IF item.msg = id THEN 1 ELSE 0)
<1>1. topipe[s] \in Seq(Posted)
  BY DEF TypeOK
<1>2. item \in [sender : Ptr, msg : {id}] <=> item.msg = id
  BY DEF Posted
<1>3. PICK T : T = [sender : Ptr, msg : {id}]
  OBVIOUS
<1>4. Count(topipe'[s], T) = Count(topipe[s], T) + (IF item \in T THEN 1 ELSE 0)
  BY ONLY <1>1, CountLonger, Longer(topipe[s], topipe'[s], item)
<1> QED BY <1>2, <1>3, <1>4 DEF Piped

LEMMA PipedShorter ==
  ASSUME TypeOK, NEW s \in Stream, NEW id, Shorter(topipe[s], topipe'[s])
  PROVE  Piped(s, id)' = Piped(s, id) - (IF topipe[s][1].msg = id THEN 1 ELSE 0)
<1>1. topipe[s] \in Seq(Posted)
  BY DEF TypeOK
<1>2. topipe[s][1] \in Posted
  BY <1>1 DEF Shorter
<1>3. topipe[s][1] \in [sender : Ptr, msg : {id}] <=> topipe[s][1].msg = id
  BY <1>2 DEF Posted
<1> QED BY <1>1, <1>3, CountShorter DEF Piped

LEMMA HandedLonger ==
  ASSUME TypeOK, NEW s \in Stream, NEW id, NEW item \in Relayed, Longer(frompipe[s], frompipe'[s], item)
  PROVE  Handed(s, id)' = Handed(s, id) + (IF item.msg = id THEN 1 ELSE 0)
<1>1. frompipe[s] \in Seq(Relayed)
  BY DEF TypeOK
<1>2. item \in [client : Ptr, msg : {id}] <=> item.msg = id
  BY DEF Relayed
<1>3. PICK T : T = [client : Ptr, msg : {id}]
  OBVIOUS
<1>4. Count(frompipe'[s], T) = Count(frompipe[s], T) + (IF item \in T THEN 1 ELSE 0)
  BY ONLY <1>1, CountLonger, Longer(frompipe[s], frompipe'[s], item)
<1> QED BY <1>2, <1>3, <1>4 DEF Handed

LEMMA HandedShorter ==
  ASSUME TypeOK, NEW s \in Stream, NEW id, Shorter(frompipe[s], frompipe'[s])
  PROVE  Handed(s, id)' = Handed(s, id) - (IF frompipe[s][1].msg = id THEN 1 ELSE 0)
<1>1. frompipe[s] \in Seq(Relayed)
  BY DEF TypeOK
<1>2. frompipe[s][1] \in Relayed
  BY <1>1 DEF Shorter
<1>3. frompipe[s][1] \in [client : Ptr, msg : {id}] <=> frompipe[s][1].msg = id
  BY <1>2 DEF Relayed
<1> QED BY <1>1, <1>3, CountShorter DEF Handed

\* The count of message id, of stream t, is right after the step.
LinkRight(t, id) == links'[id] = Piped(t, id)' + Handed(t, id)' + Busy(t, id)' + Stuck(id)'

LEMMA LinksOfNew ==
  ASSUME TypeOK, InPlace, NEW s \in Stream, NEW c \in Ptr, NEW x \in Subject, Published(s, c, x)
  PROVE  LinkRight(s, Len(log) + 1)
<1>1. PICK n : n = Len(log) + 1
  OBVIOUS
<1>2. PICK item : item = [sender |-> c, msg |-> n]
  OBVIOUS
<1>3. n \in Nat /\ \A k \in 0 .. Len(log) : k # n
  BY <1>1 DEF TypeOK
<1>4. item \in Posted /\ item.msg = n
  BY <1>2, <1>3 DEF Posted
<1>5. links'[n] = 1
  BY <1>1 DEF Published, Longer, InPlace
<1>6. Piped(s, n) = 0
  <2>1. topipe[s] \in Seq(Posted)
    BY DEF TypeOK
  <2>2. \A i \in DOMAIN topipe[s] : topipe[s][i].msg # n
    BY <1>3, Numbers
  <2>3. \A i \in DOMAIN topipe[s] : topipe[s][i] \notin [sender : Ptr, msg : {n}]
    BY <2>2
  <2> QED BY <2>1, <2>3, CountNone DEF Piped
<1>7. Handed(s, n)' = 0
  <2>1. frompipe[s] \in Seq(Relayed) /\ frompipe'[s] = frompipe[s]
    BY DEF TypeOK, Published
  <2>2. \A i \in DOMAIN frompipe[s] : frompipe[s][i].msg # n
    BY <1>3, Numbers
  <2>3. \A i \in DOMAIN frompipe[s] : frompipe[s][i] \notin [client : Ptr, msg : {n}]
    BY <2>2
  <2> QED BY <2>1, <2>3, CountNone DEF Handed
<1>8. Busy(s, n)' = 0
  BY <1>3, Numbers DEF Busy, Published
<1>9. CASE Longer(topipe[s], topipe'[s], item) /\ blocked' = NoTask
  <2>1. Piped(s, n)' = 1 /\ Stuck(n)' = 0
    BY <1>4, <1>6, <1>9, PipedLonger DEF Stuck
  <2>2. LinkRight(s, n)
    BY <1>5, <1>7, <1>8, <2>1 DEF LinkRight
  <2> QED BY <1>1, <2>2
<1>10. CASE topipe'[s] = topipe[s] /\ blocked' = [stream |-> s, item |-> item]
  <2>1. blocked' # NoTask
    <3>1. [stream |-> s, item |-> item] \in Waiting
      BY <1>4 DEF Waiting
    <3> QED BY <1>10, <3>1, TaskAssumption
  <2>2. Piped(s, n)' = 0 /\ Stuck(n)' = 1
    BY <1>4, <1>6, <1>10, <2>1 DEF Stuck, Piped
  <2>3. LinkRight(s, n)
    BY <1>5, <1>7, <1>8, <2>2 DEF LinkRight
  <2> QED BY <1>1, <2>3
<1> QED BY <1>1, <1>2, <1>9, <1>10 DEF Published

LEMMA LinksStep ==
  ASSUME TypeOK, InPlace, MessagesMove, ~ fault', NEW t \in Stream, NEW id \in Message, Holds(log, t, id),
         links[id] = Piped(t, id) + Handed(t, id) + Busy(t, id) + Stuck(id)
  PROVE  LinkRight(t, id)
<1>0. /\ id \in Nat /\ id # ACK /\ id <= Len(log) /\ Len(log) \in Nat /\ links[id] \in Int
      /\ DOMAIN links = 1 .. Len(log) /\ id \in DOMAIN links
  <2>1. links \in Seq(Int) /\ Len(log) \in Nat /\ Len(links) = Len(log) /\ id \in 1 .. Len(log)
    BY DEF TypeOK, InPlace, Message
  <2> QED BY ONLY <2>1 DEF ACK
<1>1. Piped(t, id) \in Nat /\ Handed(t, id) \in Nat /\ Busy(t, id) \in Nat /\ Stuck(id) \in Nat
  BY HoldersSum
<1>2. \A s : s # t => ~ Holds(log, s, id)
  BY DEF Holds
<1>3. ASSUME topipe'[t] = topipe[t], frompipe'[t] = frompipe[t], relaying'[t] = relaying[t]
      PROVE  Piped(t, id)' = Piped(t, id) /\ Handed(t, id)' = Handed(t, id) /\ Busy(t, id)' = Busy(t, id)
  BY <1>3 DEF Piped, Handed, Busy
<1>4. CASE MessagesStay
  BY <1>3, <1>4 DEF MessagesStay, LinkRight, Stuck
<1>5. ASSUME NEW s \in Stream, NEW c \in Ptr, NEW x \in Subject, Published(s, c, x) PROVE LinkRight(t, id)
  <2>1. Stuck(id)' = Stuck(id)
    BY <1>0, <1>5 DEF Published, Stuck
  <2>2. links'[id] = links[id]
    BY <1>0, <1>5 DEF Published, Longer, InPlace
  <2>3. /\ frompipe'[t] = frompipe[t] /\ relaying'[t] = relaying[t]
        /\ topipe'[t] = topipe[t] \/ (s = t /\ Longer(topipe[t], topipe'[t], [sender |-> c, msg |-> Len(log) + 1]))
    BY <1>5 DEF Published, OthersStay
  <2>4. Piped(t, id)' = Piped(t, id)
    <3>1. PICK item : item = [sender |-> c, msg |-> Len(log) + 1]
      OBVIOUS
    <3>2. item \in Posted /\ item.msg # id
      BY <1>0, <3>1 DEF Posted
    <3>3. CASE topipe'[t] = topipe[t]
      BY <3>3 DEF Piped
    <3>4. CASE Longer(topipe[t], topipe'[t], item)
      <4>1. Piped(t, id)' = Piped(t, id) + 0
        BY <3>2, <3>4, PipedLonger
      <4> QED BY <1>1, <4>1
    <3> QED BY <2>3, <3>1, <3>3, <3>4
  <2> QED BY <2>1, <2>2, <2>3, <2>4 DEF LinkRight, Handed, Busy
<1>6. ASSUME NEW s \in Stream, Completed(s) PROVE LinkRight(t, id)
  <2>1. blocked.item \in Posted /\ Holds(log, s, blocked.item.msg)
    BY <1>6 DEF Completed, TypeOK, Waiting, InPlace, OfStream
  <2>2. links'[id] = links[id] /\ Stuck(id)' = 0 /\ Stuck(id) = IF blocked.item.msg = id THEN 1 ELSE 0
    BY <1>6 DEF Completed, Stuck
  <2>3. CASE s = t
    <3>1. Handed(t, id)' = Handed(t, id) /\ Busy(t, id)' = Busy(t, id)
      BY <1>6, <2>3 DEF Completed, Handed, Busy
    <3>2. Piped(t, id)' = Piped(t, id) + (IF blocked.item.msg = id THEN 1 ELSE 0)
      BY <1>6, <2>1, <2>3, PipedLonger DEF Completed
    <3> QED BY <1>1, <2>2, <3>1, <3>2 DEF LinkRight
  <2>4. CASE s # t
    <3>1. blocked.item.msg # id
      BY <1>2, <2>1, <2>4
    <3> QED BY <1>3, <1>6, <2>2, <2>4, <3>1 DEF LinkRight, Completed, OthersStay
  <2> QED BY <2>3, <2>4
<1>7. ASSUME NEW s \in Stream, Dropped(s), fault' \/ frompipe[s][1].msg = ACK PROVE LinkRight(t, id)
  <2>1. links'[id] = links[id] /\ Stuck(id)' = Stuck(id)
    BY <1>7 DEF Dropped, Stuck
  <2>2. CASE s = t
    <3>1. Piped(t, id)' = Piped(t, id) /\ Busy(t, id)' = Busy(t, id)
      BY <1>7, <2>2 DEF Dropped, Piped, Busy
    <3>2. Handed(t, id)' = Handed(t, id)
      <4>1. frompipe[s][1].msg # id
        BY <1>0, <1>7
      <4>2. Handed(t, id)' = Handed(t, id) - 0
        BY <1>7, <2>2, <4>1, HandedShorter DEF Dropped
      <4> QED BY <1>1, <4>2
    <3> QED BY <2>1, <3>1, <3>2 DEF LinkRight
  <2>3. CASE s # t
    BY <1>3, <1>7, <2>1, <2>3 DEF LinkRight, Dropped, OthersStay
  <2> QED BY <2>2, <2>3
<1>8. ASSUME NEW s \in Stream, Forwarded(s), frompipe[s][1].msg # ACK PROVE LinkRight(t, id)
  <2>1. PICK n \in Int : n = frompipe[s][1].msg
    <3>1. 1 \in DOMAIN frompipe[s]
      BY <1>8 DEF Forwarded, Shorter
    <3> QED BY <3>1, Numbers
  <2>2. Stuck(id)' = Stuck(id) /\ links'[id] = links[id] - (IF n = id THEN 1 ELSE 0)
    <3>1. links' = [links EXCEPT ![n] = @ - 1] /\ blocked' = blocked
      BY <1>8, <2>1 DEF Forwarded
    <3>2. links'[id] = IF n = id THEN links[n] - 1 ELSE links[id]
      BY <1>0, <3>1
    <3> QED BY <1>0, <3>1, <3>2 DEF Stuck
  <2>3. CASE s = t
    <3>1. Piped(t, id)' = Piped(t, id) /\ Busy(t, id)' = Busy(t, id)
      BY <1>8, <2>3 DEF Forwarded, Piped, Busy
    <3>2. Handed(t, id)' = Handed(t, id) - (IF n = id THEN 1 ELSE 0)
      BY <1>8, <2>1, <2>3, HandedShorter DEF Forwarded
    <3> QED BY <1>1, <2>2, <3>1, <3>2 DEF LinkRight
  <2>4. CASE s # t
    <3>1. Holds(log, s, n)
      BY <1>8, <2>1 DEF InPlace, Stand, OfStream, Forwarded, Shorter
    <3>2. n # id
      BY <1>2, <2>4, <3>1
    <3>3. topipe'[t] = topipe[t] /\ frompipe'[t] = frompipe[t] /\ relaying'[t] = relaying[t]
      BY <1>8, <2>4 DEF Forwarded, OthersStay
    <3> QED BY <1>0, <1>3, <2>2, <3>2, <3>3 DEF LinkRight
  <2> QED BY <2>3, <2>4
<1>9. ASSUME NEW s \in Stream, AckStarted(s) PROVE LinkRight(t, id)
  <2>1. Busy(t, id)' = Busy(t, id)
    BY <1>0, <1>9 DEF AckStarted, OthersStay, Busy
  <2>2. topipe'[t] = topipe[t] /\ frompipe'[t] = frompipe[t] /\ links' = links /\ blocked' = blocked
    BY <1>9 DEF AckStarted, OthersStay
  <2> QED BY <2>1, <2>2 DEF LinkRight, Piped, Handed, Stuck
<1>10. ASSUME NEW s \in Stream, Taken(s) PROVE LinkRight(t, id)
  <2>1. links'[id] = links[id] /\ Stuck(id)' = Stuck(id)
    BY <1>10 DEF Taken, Stuck
  <2>2. CASE s = t
    <3>1. Handed(t, id)' = Handed(t, id)
      BY <1>10, <2>2 DEF Taken, Handed
    <3>2. Piped(t, id)' = Piped(t, id) - (IF topipe[t][1].msg = id THEN 1 ELSE 0)
      BY <1>10, <2>2, PipedShorter DEF Taken
    <3>3. Busy(t, id) = 0 /\ Busy(t, id)' = IF topipe[t][1].msg = id THEN 1 ELSE 0
      BY <1>10, <2>2 DEF Taken, Busy
    <3> QED BY <1>1, <2>1, <3>1, <3>2, <3>3 DEF LinkRight
  <2>3. CASE s # t
    BY <1>3, <1>10, <2>1, <2>3 DEF LinkRight, Taken, OthersStay
  <2> QED BY <2>2, <2>3
<1>11. ASSUME NEW s \in Stream, NEW sel \in Selector, Sent(s, sel) PROVE LinkRight(t, id)
  <2>1. PICK n \in Nat : n = relaying[s].msg
    BY <1>11, TaskTypes DEF Sent
  <2>2. Stuck(id)' = Stuck(id) /\ links'[id] = links[id] + (IF n = id THEN 1 ELSE 0)
    <3>1. links' = Link(n) /\ blocked' = blocked
      BY <1>11, <2>1 DEF Sent
    <3>2. links'[id] = IF n = id THEN links[n] + 1 ELSE links[id]
      BY <1>0, <3>1 DEF Link
    <3> QED BY <1>0, <3>1, <3>2 DEF Stuck
  <2>3. CASE s = t
    <3>1. Piped(t, id)' = Piped(t, id) /\ Busy(t, id)' = Busy(t, id)
      BY <1>11, <2>3 DEF Sent, Piped, Busy
    <3>2. PICK item : item = [client |-> sel[2], msg |-> n]
      OBVIOUS
    <3>3. item \in Relayed /\ item.msg = n
      BY <2>1, <3>2 DEF Relayed, Selector
    <3>4. Handed(t, id)' = Handed(t, id) + (IF n = id THEN 1 ELSE 0)
      BY <1>11, <2>1, <2>3, <3>2, <3>3, HandedLonger DEF Sent
    <3> QED BY <1>1, <2>2, <3>1, <3>4 DEF LinkRight
  <2>4. CASE s # t
    <3>1. n = ACK \/ Holds(log, s, n)
      BY <1>11, <2>1 DEF InPlace, Stand, OfStream, Sent
    <3>2. n # id
      BY <1>0, <1>2, <2>4, <3>1
    <3>3. topipe'[t] = topipe[t] /\ frompipe'[t] = frompipe[t] /\ relaying'[t] = relaying[t]
      BY <1>11, <2>4 DEF Sent, OthersStay
    <3> QED BY <1>0, <1>3, <2>2, <3>2, <3>3 DEF LinkRight
  <2> QED BY <2>3, <2>4
<1>12. ASSUME NEW s \in Stream, Finished(s) PROVE LinkRight(t, id)
  <2>1. PICK n \in Nat : n = relaying[s].msg
    BY <1>12, TaskTypes DEF Finished
  <2>2. Stuck(id)' = Stuck(id) /\ links'[id] = links[id] - (IF n = id THEN 1 ELSE 0)
    <3>1. links' = Unlink(n) /\ blocked' = blocked
      BY <1>12, <2>1 DEF Finished
    <3>2. links'[id] = IF n = id THEN links[n] - 1 ELSE links[id]
      BY <1>0, <3>1 DEF Unlink
    <3> QED BY <1>0, <3>1, <3>2 DEF Stuck
  <2>3. CASE s = t
    <3>1. Piped(t, id)' = Piped(t, id) /\ Handed(t, id)' = Handed(t, id)
      BY <1>12, <2>3 DEF Finished, Piped, Handed
    <3>2. Busy(t, id)' = 0 /\ Busy(t, id) = IF n = id THEN 1 ELSE 0
      BY <1>12, <2>1, <2>3 DEF Finished, Busy
    <3> QED BY <1>1, <2>2, <3>1, <3>2 DEF LinkRight
  <2>4. CASE s # t
    <3>1. n = ACK \/ Holds(log, s, n)
      BY <1>12, <2>1 DEF InPlace, Stand, OfStream, Finished
    <3>2. n # id
      BY <1>0, <1>2, <2>4, <3>1
    <3>3. topipe'[t] = topipe[t] /\ frompipe'[t] = frompipe[t] /\ relaying'[t] = relaying[t]
      BY <1>12, <2>4 DEF Finished, OthersStay
    <3> QED BY <1>0, <1>3, <2>2, <3>2, <3>3 DEF LinkRight
  <2> QED BY <2>3, <2>4
<1> QED BY <1>4, <1>5, <1>6, <1>7, <1>8, <1>9, <1>10, <1>11, <1>12 DEF MessagesMove

LEMMA LinksExactStep ==
  ASSUME TypeOK, InPlace, LinksExact, MessagesMove
  PROVE  LinksExact'
<1> SUFFICES ASSUME ~ fault', NEW id \in Message' PROVE links'[id] = Holders(id)'
  BY DEF LinksExact
<1>1. \A t : log'[id].stream = t =>
        Holders(id)' = Piped(t, id)' + Handed(t, id)' + Busy(t, id)' + Stuck(id)'
  BY DEF Holders, Piped, Handed, Busy, Stuck
<1>2. CASE id \in Message
  <2>1. PICK t \in Stream : log[id].stream = t
    BY <1>2, LogEntries
  <2>2. Holds(log, t, id) /\ log'[id].stream = t
    BY <1>2, <2>1, LogGrows DEF Holds, Message
  <2>3. links[id] = Holders(id)
    BY <1>2 DEF LinksExact, MessagesMove
  <2>4. LinkRight(t, id)
    BY <1>2, <2>1, <2>2, <2>3, HoldersSum, LinksStep
  <2> QED BY <1>1, <2>2, <2>4 DEF LinkRight
<1>3. CASE id \notin Message
  <2>1. PICK s \in Stream, c \in Ptr, x \in Subject : Published(s, c, x)
    <3>1. log' # log
      BY <1>3 DEF Message
    <3> QED BY <3>1 DEF MessagesMove, MessagesStay, Completed, Dropped, Forwarded, AckStarted, Taken,
                       Sent, Finished
  <2>2. id = Len(log) + 1 /\ log'[id].stream = s
    BY <1>3, <2>1 DEF Published, Longer, Message
  <2>3. LinkRight(s, id)
    BY <2>1, <2>2, LinksOfNew
  <2> QED BY <1>1, <2>2, <2>3 DEF LinkRight
<1> QED BY <1>2, <1>3

-----------------------------------------------------------------------------
\* The first theorems

MessagesInv == TypeOK /\ InPlace /\ AllLinedUp /\ LinksExact

LEMMA MessagesInit == Init => MessagesInv
<1> SUFFICES ASSUME Init PROVE MessagesInv
  OBVIOUS
<1>1. TypeOK
  BY InitTyped
<1>2. /\ log = <<>> /\ links = <<>> /\ delivered = <<>> /\ expected = {} /\ blocked = NoTask
      /\ \A s \in Stream : topipe[s] = <<>> /\ frompipe[s] = <<>> /\ relaying[s] = NoTask
  BY DEF Init
<1>3. InPlace
  BY <1>2 DEF InPlace, Stand
<1>4. AllLinedUp
  BY <1>2 DEF AllLinedUp, LinedUp, PipeInOrder, PipeNewer, BlockedNewest, TaskNotOlder,
              RelayedInOrder, DeliveredInOrder
<1>5. LinksExact
  BY <1>2 DEF LinksExact, Message
<1> QED BY <1>1, <1>3, <1>4, <1>5 DEF MessagesInv

\* The part of the invariant about messages: every place holds messages of its
\* stream, oldest first towards the readers, and their counts are exact
\* (mlm_msg_link, mlm_msg_unlink, s_stream_engine_handle_message).
THEOREM MessagesCorrect == Spec => []MessagesInv
<1>1. MessagesInv /\ [Next]_vars => MessagesInv'
  BY NextTyped, StepMoves, InPlaceStep, LinedUpStep, LinksExactStep DEF MessagesInv
<1> QED BY <1>1, MessagesInit, PTL DEF Spec

\* A message lives as long as a thread holds it and no longer.
THEOREM LinksExactHolds == Spec => []LinksExact
BY MessagesCorrect, PTL DEF MessagesInv

\* A reader gets the messages of a stream in the order they were published.
THEOREM StreamInOrderHolds == Spec => []StreamInOrder
<1>1. MessagesInv => StreamInOrder
  <2> SUFFICES ASSUME MessagesInv, NEW i \in DOMAIN delivered, NEW j \in DOMAIN delivered, i < j,
                      log[delivered[i].msg].stream = log[delivered[j].msg].stream
               PROVE  delivered[i].msg <= delivered[j].msg
    BY DEF StreamInOrder
  <2>1. delivered[i].msg \in Message /\ delivered[j].msg \in Message
    BY DEF MessagesInv, InPlace
  <2>2. PICK s \in Stream : log[delivered[i].msg].stream = s
    BY <2>1, LogEntries DEF MessagesInv
  <2>3. DeliveredInOrder(s)
    BY DEF MessagesInv, AllLinedUp, LinedUp
  <2> QED BY <2>1, <2>2, <2>3 DEF DeliveredInOrder, OfStream, Holds, Message
<1> QED BY <1>1, MessagesCorrect, PTL

-----------------------------------------------------------------------------
\* Counting the references of all streams

\* f[a] things for each a, with numbers of their own
Pairs(S, f) == {p \in S \X Nat : 1 <= p[2] /\ p[2] <= f[p[1]]}

\* g counts one more of a than f.
OneMore(S, f, g, a) ==
  /\ f \in [S -> Nat] /\ g \in [S -> Nat] /\ a \in S
  /\ g[a] = f[a] + 1 /\ \A b \in S : b # a => g[b] = f[b]

LEMMA PairsMore ==
  ASSUME NEW S, NEW f, NEW g, NEW a, IsFiniteSet(Pairs(S, f)), OneMore(S, f, g, a)
  PROVE  IsFiniteSet(Pairs(S, g)) /\ Cardinality(Pairs(S, g)) = Cardinality(Pairs(S, f)) + 1
<1> USE DEF OneMore
<1> DEFINE new == <<a, f[a] + 1>>
<1>1. new \in S \X Nat /\ new \notin Pairs(S, f)
  BY DEF Pairs
<1>2. ASSUME NEW p \in S \X Nat PROVE p \in Pairs(S, g) <=> p \in Pairs(S, f) \/ p = new
  <2>1. PICK b \in S, k \in Nat : p = <<b, k>>
    OBVIOUS
  <2>2. p \in Pairs(S, g) <=> 1 <= k /\ k <= g[b]
    BY <2>1 DEF Pairs
  <2>3. p \in Pairs(S, f) <=> 1 <= k /\ k <= f[b]
    BY <2>1 DEF Pairs
  <2>4. p = new <=> b = a /\ k = f[a] + 1
    BY <2>1
  <2> QED BY <2>2, <2>3, <2>4
<1>3. Pairs(S, g) \subseteq S \X Nat /\ Pairs(S, f) \subseteq S \X Nat
  BY DEF Pairs
<1> HIDE DEF new
<1>4. Pairs(S, g) = Pairs(S, f) \cup {new}
  BY <1>1, <1>2, <1>3
<1> QED BY <1>1, <1>4, FS_AddElement

LEMMA PairsLess ==
  ASSUME NEW S, NEW f, NEW g, NEW a, IsFiniteSet(Pairs(S, f)), OneMore(S, g, f, a)
  PROVE  /\ IsFiniteSet(Pairs(S, g)) /\ Cardinality(Pairs(S, f)) = Cardinality(Pairs(S, g)) + 1
         /\ Cardinality(Pairs(S, g)) \in Nat
<1>1. ASSUME NEW p \in Pairs(S, g) PROVE p \in Pairs(S, f)
  <2>1. PICK b \in S, k \in Nat : p = <<b, k>>
    BY DEF Pairs
  <2>2. 1 <= k /\ k <= g[b]
    BY <2>1 DEF Pairs
  <2>3. g[b] <= f[b] /\ f[b] \in Nat /\ g[b] \in Nat
    BY DEF OneMore
  <2>4. k <= f[b]
    BY <2>2, <2>3
  <2> QED BY <2>1, <2>2, <2>4 DEF Pairs
<1>2. IsFiniteSet(Pairs(S, g))
  BY <1>1, FS_Subset
<1>3. Cardinality(Pairs(S, f)) = Cardinality(Pairs(S, g)) + 1
  BY <1>2, PairsMore
<1> QED BY <1>2, <1>3, FS_CardinalityType

\* One more for each entry of a list: as many more as the list is long.
LEMMA PairsList ==
  ASSUME NEW S, NEW f \in [S -> Nat], NEW g \in [S -> Nat], NEW list \in Seq(S), IsFiniteSet(Pairs(S, f)),
         \A a \in S : g[a] = f[a] + Count(list, {a})
  PROVE  IsFiniteSet(Pairs(S, g)) /\ Cardinality(Pairs(S, g)) = Cardinality(Pairs(S, f)) + Len(list)
<1> DEFINE First(n) == SubSeq(list, 1, n)
           upto(n) == [a \in S |-> f[a] + Count(First(n), {a})]
           k == Len(list)
           G == {n \in 0 .. k : /\ IsFiniteSet(Pairs(S, upto(n)))
                                /\ Cardinality(Pairs(S, upto(n))) = Cardinality(Pairs(S, f)) + n}
<1>0. k \in Nat /\ Cardinality(Pairs(S, f)) \in Nat
  BY FS_CardinalityType
<1>1. ASSUME NEW n \in 0 .. k PROVE First(n) \in Seq(S) /\ Len(First(n)) = n
  OBVIOUS
<1>2. ASSUME NEW n \in 0 .. k PROVE upto(n) \in [S -> Nat]
  <2> HIDE DEF First
  <2>1. \A a \in S : Count(First(n), {a}) \in Nat
    BY <1>1, CountType
  <2> QED BY <2>1
<1>3. upto(0) = f
  <2>1. First(0) = <<>>
    OBVIOUS
  <2> HIDE DEF First
  <2> QED BY <2>1, CountEmpty
<1>4. 0 \in G
  <2> HIDE DEF upto
  <2> QED BY <1>0, <1>3
<1>5. ASSUME NEW n \in 0 .. k - 1, n \in G PROVE n + 1 \in G
  <2>0. n + 1 \in 0 .. k /\ n \in 0 .. k /\ n + 1 \in 1 .. k
    OBVIOUS
  <2>1. PICK a \in S : list[n + 1] = a
    BY <2>0
  <2>2. Longer(First(n), First(n + 1), a)
    <3>1. /\ DOMAIN First(n) = 1 .. n /\ DOMAIN First(n + 1) = 1 .. n + 1
          /\ Len(First(n)) = n /\ Len(First(n + 1)) = n + 1
      BY <2>0
    <3>2. \A i \in 1 .. n : First(n + 1)[i] = First(n)[i]
      BY <2>0
    <3>3. First(n + 1)[n + 1] = a
      BY <2>0, <2>1
    <3> HIDE DEF First
    <3> QED BY <2>0, <3>1, <3>2, <3>3 DEF Longer
  <2>3. PICK before, after : before = First(n) /\ after = First(n + 1)
    OBVIOUS
  <2>4. before \in Seq(S) /\ Longer(before, after, a)
    <3> HIDE DEF First
    <3> QED BY <1>1, <2>0, <2>2, <2>3
  <2>5. PICK fewer, more : fewer = upto(n) /\ more = upto(n + 1)
    OBVIOUS
  <2>6. fewer \in [S -> Nat] /\ more \in [S -> Nat]
    <3> HIDE DEF upto
    <3> QED BY <1>2, <2>0, <2>5
  <2>7. more[a] = fewer[a] + 1 /\ \A b \in S : b # a => more[b] = fewer[b]
    <3>1. ASSUME NEW b \in S
          PROVE  /\ Count(before, {b}) \in Nat
                 /\ Count(after, {b}) = Count(before, {b}) + (IF a \in {b} THEN 1 ELSE 0)
      <4>1. PICK T : T = {b}
        OBVIOUS
      <4>2. Count(before, T) \in Nat
        BY ONLY <2>4, CountType
      <4>3. Count(after, T) = Count(before, T) + (IF a \in T THEN 1 ELSE 0)
        BY ONLY <2>4, CountLonger
      <4> QED BY <4>1, <4>2, <4>3
    <3>2. \A b \in S : fewer[b] = f[b] + Count(before, {b}) /\ more[b] = f[b] + Count(after, {b})
      <4> HIDE DEF First
      <4> QED BY <2>3, <2>5
    <3>3. ASSUME NEW b \in S
          PROVE  (b = a => more[b] = fewer[b] + 1) /\ (b # a => more[b] = fewer[b])
      <4>1. f[b] \in Nat /\ Count(before, {b}) \in Nat
        BY <3>1
      <4>2. Count(after, {b}) = Count(before, {b}) + (IF b = a THEN 1 ELSE 0)
        BY <3>1
      <4>3. PICK m \in Nat, k1 \in Nat : m = f[b] /\ k1 = Count(before, {b})
        BY <4>1
      <4>4. fewer[b] = m + k1 /\ more[b] = m + (k1 + (IF b = a THEN 1 ELSE 0))
        <5>1. fewer[b] = f[b] + Count(before, {b}) /\ more[b] = f[b] + Count(after, {b})
          BY <3>2, Zenon
        <5> QED BY <4>2, <4>3, <5>1, Zenon
      <4> QED BY ONLY <4>3, <4>4
    <3> QED BY ONLY <3>3, a \in S
  <2> HIDE DEF upto
  <2>8. /\ IsFiniteSet(Pairs(S, upto(n + 1)))
        /\ Cardinality(Pairs(S, upto(n))) = Cardinality(Pairs(S, f)) + n
        /\ Cardinality(Pairs(S, upto(n + 1))) = Cardinality(Pairs(S, upto(n))) + 1
    <3>1. IsFiniteSet(Pairs(S, fewer)) /\ Cardinality(Pairs(S, fewer)) = Cardinality(Pairs(S, f)) + n
      BY <1>5, <2>5
    <3>2. IsFiniteSet(Pairs(S, more)) /\ Cardinality(Pairs(S, more)) = Cardinality(Pairs(S, fewer)) + 1
      <4>1. IsFiniteSet(Pairs(S, fewer))
        BY <3>1
      <4>2. OneMore(S, fewer, more, a)
        BY <2>6, <2>7 DEF OneMore
      <4> QED BY ONLY <4>1, <4>2, PairsMore
    <3> QED BY <2>5, <3>1, <3>2
  <2>9. Cardinality(Pairs(S, upto(n + 1))) = Cardinality(Pairs(S, f)) + (n + 1)
    BY <1>0, <2>8
  <2> QED BY <2>0, <2>8, <2>9
<1>6. k \in G
  <2> HIDE DEF G
  <2>1. 0 .. k \subseteq G
    BY <1>0, <1>4, <1>5, UpTo
  <2> QED BY <1>0, <2>1
<1>7. upto(k) = g
  <2>1. First(k) = list
    OBVIOUS
  <2> HIDE DEF First
  <2> QED BY <2>1
<1> QED BY <1>6, <1>7

-----------------------------------------------------------------------------
\* References: what an engine holds is counted

CancelsIn(s, c) == Count(cmdpipe[s], {Cancel(c)})
AcksIn(s, c) == Count(frompipe[s], {[client |-> c, msg |-> ACK]})
Acking(s, c) == IF AckTask(s, c) THEN 1 ELSE 0

LEMMA PendingSum ==
  ASSUME TypeOK, NEW s \in Stream, NEW c \in Ptr
  PROVE  /\ CancelsIn(s, c) \in Nat /\ AcksIn(s, c) \in Nat /\ Acking(s, c) \in 0 .. 1
         /\ Pending(s, c) = CancelsIn(s, c) + AcksIn(s, c) + Acking(s, c) /\ Pending(s, c) \in Nat
<1>1. cmdpipe[s] \in Seq(Command) /\ frompipe[s] \in Seq(Relayed)
  BY DEF TypeOK
<1>2. CancelsIn(s, c) \in Nat /\ AcksIn(s, c) \in Nat
  BY <1>1, CountType DEF CancelsIn, AcksIn
<1>3. Acking(s, c) \in 0 .. 1
  BY DEF Acking
<1>4. Pending(s, c) = CancelsIn(s, c) + AcksIn(s, c) + Acking(s, c)
  BY DEF Pending, CancelsIn, AcksIn, Acking, AckTask
<1> QED BY <1>2, <1>3, <1>4

\* A CANCEL for c is Cancel(c).
LEMMA CancelsCounted ==
  ASSUME TypeOK, NEW s \in Stream, NEW c \in Ptr, CommandsCovered(s)
  PROVE  /\ \A i \in DOMAIN cmdpipe[s] : cmdpipe[s][i] = Cancel(c) <=> CancelIn(s, c, i)
         /\ CancelsIn(s, c) > 0 <=> CancelSent(s, c)
<1>1. cmdpipe[s] \in Seq(Command)
  BY DEF TypeOK
<1>2. ASSUME NEW i \in DOMAIN cmdpipe[s] PROVE cmdpipe[s][i] = Cancel(c) <=> CancelIn(s, c, i)
  <2>1. PICK cmd \in Command : cmd = cmdpipe[s][i]
    BY <1>1
  <2>2. cmd.method = "CANCEL" => cmd.pattern = {}
    BY <2>1 DEF CommandsCovered
  <2>3. cmd = [method |-> cmd.method, client |-> cmd.client, pattern |-> cmd.pattern]
    BY DEF Command
  <2>4. cmd.method = "CANCEL" /\ cmd.client = c => cmd = Cancel(c)
    BY <2>2, <2>3 DEF Cancel
  <2>5. cmd = Cancel(c) => cmd.method = "CANCEL" /\ cmd.client = c
    BY DEF Cancel
  <2> QED BY <2>1, <2>4, <2>5 DEF CancelIn
<1>3. CancelsIn(s, c) \in Nat
  BY PendingSum
<1>4. CancelsIn(s, c) = 0 <=> \A i \in DOMAIN cmdpipe[s] : cmdpipe[s][i] \notin {Cancel(c)}
  BY <1>1, CountNone DEF CancelsIn
<1> QED BY <1>2, <1>3, <1>4 DEF CancelSent

LEMMA AcksCounted ==
  ASSUME TypeOK, NEW s \in Stream, NEW c \in Ptr
  PROVE  AcksIn(s, c) > 0 <=> \E j \in DOMAIN frompipe[s] : AckIn(s, c, j)
<1>1. frompipe[s] \in Seq(Relayed)
  BY DEF TypeOK
<1>2. ASSUME NEW i \in DOMAIN frompipe[s]
      PROVE  frompipe[s][i] = [client |-> c, msg |-> ACK] <=> AckIn(s, c, i)
  <2>1. frompipe[s][i] \in Relayed
    BY <1>1
  <2> QED BY <2>1 DEF AckIn, Relayed
<1>3. AcksIn(s, c) \in Nat
  BY PendingSum
<1>4. AcksIn(s, c) = 0 <=> \A i \in DOMAIN frompipe[s] : frompipe[s][i] \notin {[client |-> c, msg |-> ACK]}
  BY <1>1, CountNone DEF AcksIn
<1> QED BY <1>2, <1>3, <1>4

\* What the engine of s holds of client c is covered by a reference.
LEMMA HeldIsCounted ==
  ASSUME TypeOK, NEW s \in Stream, AllCovered(s), NEW c \in Ptr, c \in Held(s)
  PROVE  readers[c] # <<>> \/ Pending(s, c) > 0
<1>1. \/ Covered(s, c) \/ AckTask(s, c)
      \/ \E j \in DOMAIN frompipe[s] : AckIn(s, c, j)
  <2>1. CASE \E sel \in selectors[s] : sel[2] = c
    BY <2>1 DEF AllCovered, SelectorsCovered
  <2>2. ASSUME NEW i \in DOMAIN cmdpipe[s], cmdpipe[s][i].client = c PROVE Covered(s, c)
    <3>1. cmdpipe[s][i] \in Command
      BY DEF TypeOK
    <3>2. CASE cmdpipe[s][i].method = "COMPILE"
      BY <2>2, <3>2 DEF AllCovered, CommandsCovered, Covered, CancelSent
    <3>3. CASE cmdpipe[s][i].method = "CANCEL"
      BY <2>2, <3>3 DEF Covered, CancelSent, CancelIn
    <3> QED BY <3>1, <3>2, <3>3 DEF Command
  <2>3. ASSUME NEW i \in DOMAIN frompipe[s], frompipe[s][i].client = c
        PROVE  \/ Covered(s, c) \/ AckTask(s, c)
               \/ \E j \in DOMAIN frompipe[s] : AckIn(s, c, j)
    <3>1. CASE frompipe[s][i].msg = ACK
      BY <2>3, <3>1 DEF AckIn
    <3>2. CASE frompipe[s][i].msg # ACK
      BY <2>3, <3>2 DEF AllCovered, RelayedCovered
    <3> QED BY <3>1, <3>2
  <2>4. CASE relaying[s] # NoTask /\ \E sel \in relaying[s].todo : sel[2] = c
    BY <2>4 DEF AllCovered, TaskCovered, AckTask
  <2> QED BY <2>1, <2>2, <2>3, <2>4 DEF Held
<1>2. Reads(s, c) => readers[c] # <<>>
  BY DEF Reads
<1>3. CancelSent(s, c) => CancelsIn(s, c) > 0
  BY CancelsCounted DEF AllCovered
<1>4. (\E j \in DOMAIN frompipe[s] : AckIn(s, c, j)) => AcksIn(s, c) > 0
  BY AcksCounted
<1>5. AckTask(s, c) => Acking(s, c) = 1
  BY DEF Acking
<1> QED BY <1>1, <1>2, <1>3, <1>4, <1>5, PendingSum DEF Covered

LEMMA UnionIsPairs ==
  ASSUME NEW S, NEW f \in [S -> Nat]
  PROVE  UNION {{a} \X (1 .. f[a]) : a \in S} = Pairs(S, f)
<1>1. ASSUME NEW a \in S, NEW k \in 1 .. f[a] PROVE <<a, k>> \in Pairs(S, f)
  BY DEF Pairs
<1>2. ASSUME NEW p \in Pairs(S, f) PROVE \E a \in S : p \in {a} \X (1 .. f[a])
  <2>1. PICK a \in S, k \in Nat : p = <<a, k>>
    BY DEF Pairs
  <2>2. k \in 1 .. f[a]
    BY <2>1 DEF Pairs
  <2> QED BY <2>1, <2>2
<1> QED BY <1>1, <1>2

LEMMA HeldTypes == TypeOK => \A s \in Stream : Held(s) \subseteq Ptr
<1> SUFFICES ASSUME TypeOK, NEW s \in Stream PROVE Held(s) \subseteq Ptr
  OBVIOUS
<1>1. \A sel \in selectors[s] : sel[2] \in Ptr
  BY DEF TypeOK, Selector
<1>2. \A i \in DOMAIN cmdpipe[s] : cmdpipe[s][i].client \in Ptr
  <2>1. cmdpipe[s] \in Seq(Command) /\ \A cmd \in Command : cmd.client \in Ptr
    BY DEF TypeOK, Command
  <2> QED BY <2>1
<1>3. \A i \in DOMAIN frompipe[s] : frompipe[s][i].client \in Ptr
  <2>1. frompipe[s] \in Seq(Relayed) /\ \A item \in Relayed : item.client \in Ptr
    BY DEF TypeOK, Relayed
  <2> QED BY <2>1
<1>4. relaying[s] # NoTask => \A sel \in relaying[s].todo : sel[2] \in Ptr
  BY TaskTypes
<1> QED BY <1>1, <1>2, <1>3, <1>4 DEF Held

\* A context of which something is held has not been freed.
LEMMA HeldIsThere ==
  ASSUME TypeOK, Counted, NEW s \in Stream, AllCovered(s), NEW c \in Ptr, c \in Held(s)
  PROVE  state[c] # "free"
<1> SUFFICES ASSUME state[c] = "free" PROVE FALSE
  OBVIOUS
<1>1. readers[c] = <<>> /\ refcount[c] = 0
  BY DEF Counted, CountedAt
<1>2. Pending(s, c) > 0
  BY <1>1, HeldIsCounted
<1>3. <<s, 1>> \in AllPending(c)
  BY <1>2, PendingSum DEF AllPending
<1>4. IsFiniteSet(AllPending(c)) /\ refcount[c] = Len(readers[c]) + Cardinality(AllPending(c))
  BY DEF Counted, CountedAt
<1>5. Cardinality(AllPending(c)) = 0
  <2>1. Cardinality(AllPending(c)) \in Nat
    BY <1>4, FS_CardinalityType
  <2> QED BY <1>1, <1>4, <2>1
<1> QED BY <1>3, <1>4, <1>5, FS_EmptySet

-----------------------------------------------------------------------------
\* References: whatever an engine knows stays covered

\* A CANCEL for c is sent to the engine of s, behind all it was sent before.
SentBehind(s, c) ==
  \E j \in DOMAIN cmdpipe'[s] :
    CancelIn(s, c, j)' /\ \A i \in DOMAIN cmdpipe[s] : j > i

\* Nothing but the commands for the engine of s changes, and they only grow.
CommandsAdded(s) ==
  /\ selectors'[s] = selectors[s] /\ relaying'[s] = relaying[s] /\ frompipe'[s] = frompipe[s]
  /\ \A i \in DOMAIN cmdpipe[s] : i \in DOMAIN cmdpipe'[s] /\ cmdpipe'[s][i] = cmdpipe[s][i]
  /\ \A c \in Ptr : Reads(s, c) => Reads(s, c)' \/ SentBehind(s, c)
  /\ \A j \in DOMAIN cmdpipe'[s] : j \notin DOMAIN cmdpipe[s] =>
       \/ /\ cmdpipe'[s][j].method = "COMPILE"
          /\ \A c \in Ptr : cmdpipe'[s][j].client = c => Reads(s, c)'
       \/ cmdpipe'[s][j].method = "CANCEL" /\ cmdpipe'[s][j].pattern = {}

LEMMA AddedCovered ==
  ASSUME TypeOK, NEW s \in Stream, AllCovered(s), CommandsAdded(s)
  PROVE  AllCovered(s)'
<1>1. ASSUME NEW c \in Ptr, Covered(s, c) PROVE Covered(s, c)'
  <2>1. CASE Reads(s, c)
    BY <2>1 DEF CommandsAdded, SentBehind, Covered, CancelSent
  <2>2. CASE CancelSent(s, c)
    BY <2>2 DEF CommandsAdded, Covered, CancelSent, CancelIn
  <2> QED BY <1>1, <2>1, <2>2 DEF Covered
<1>2. selectors[s] \subseteq Selector
  BY DEF TypeOK
<1>3. SelectorsCovered(s)'
  <2>1. \A sel \in selectors[s] : sel[2] \in Ptr
    BY <1>2 DEF Selector
  <2> QED BY <1>1, <2>1 DEF AllCovered, SelectorsCovered, CommandsAdded
<1>4. CommandsCovered(s)'
  <2> SUFFICES ASSUME NEW i \in DOMAIN cmdpipe'[s]
               PROVE  /\ cmdpipe'[s][i].method = "COMPILE" =>
                           \A c \in Ptr : cmdpipe'[s][i].client = c =>
                             Reads(s, c)' \/ \E j \in DOMAIN cmdpipe'[s] : j > i /\ CancelIn(s, c, j)'
                      /\ cmdpipe'[s][i].method = "CANCEL" => cmdpipe'[s][i].pattern = {}
    BY DEF CommandsCovered
  <2>1. CASE i \notin DOMAIN cmdpipe[s]
    BY <2>1 DEF CommandsAdded
  <2>2. CASE i \in DOMAIN cmdpipe[s]
    <3>1. cmdpipe'[s][i] = cmdpipe[s][i]
      BY <2>2 DEF CommandsAdded
    <3>2. cmdpipe[s][i].method = "CANCEL" => cmdpipe[s][i].pattern = {}
      BY <2>2 DEF AllCovered, CommandsCovered
    <3>3. ASSUME NEW c \in Ptr, cmdpipe[s][i].method = "COMPILE", cmdpipe[s][i].client = c
          PROVE  Reads(s, c)' \/ \E j \in DOMAIN cmdpipe'[s] : j > i /\ CancelIn(s, c, j)'
      <4>1. CASE Reads(s, c)
        BY <2>2, <4>1 DEF CommandsAdded, SentBehind
      <4>2. ASSUME NEW j \in DOMAIN cmdpipe[s], j > i, CancelIn(s, c, j)
            PROVE  j \in DOMAIN cmdpipe'[s] /\ CancelIn(s, c, j)'
        BY <4>2 DEF CommandsAdded, CancelIn
      <4> QED BY <2>2, <3>3, <4>1, <4>2 DEF AllCovered, CommandsCovered
    <3> QED BY <3>1, <3>2, <3>3
  <2> QED BY <2>1, <2>2
<1>5. TaskCovered(s)'
  <2>1. relaying[s] # NoTask => \A sel \in relaying[s].todo : sel[2] \in Ptr
    BY TaskTypes DEF Selector
  <2> QED BY <1>1, <2>1 DEF AllCovered, TaskCovered, CommandsAdded
<1>6. RelayedCovered(s)'
  BY <1>1 DEF AllCovered, RelayedCovered, CommandsAdded, AckTask, AckIn
<1> QED BY <1>3, <1>4, <1>5, <1>6 DEF AllCovered

\* The same commands and readers cover the same.
LEMMA SameCover ==
  ASSUME NEW s \in Stream, NEW c \in Ptr, readers' = readers, cmdpipe'[s] = cmdpipe[s]
  PROVE  /\ Covered(s, c)' = Covered(s, c) /\ Reads(s, c)' = Reads(s, c)
         /\ \A j : CancelIn(s, c, j)' = CancelIn(s, c, j)
BY DEF Covered, Reads, CancelSent, CancelIn

LEMMA StillCovered ==
  ASSUME NEW s \in Stream, AllCovered(s), readers' = readers, cmdpipe'[s] = cmdpipe[s],
         selectors'[s] = selectors[s], frompipe'[s] = frompipe[s], relaying'[s] = relaying[s]
  PROVE  AllCovered(s)'
<1>1. SelectorsCovered(s)' /\ CommandsCovered(s)'
  BY DEF AllCovered, SelectorsCovered, CommandsCovered, Covered, Reads, CancelSent, CancelIn
<1>2. TaskCovered(s)' /\ RelayedCovered(s)'
  BY DEF AllCovered, TaskCovered, RelayedCovered, Covered, Reads, CancelSent, CancelIn, AckTask, AckIn
<1> QED BY <1>1, <1>2 DEF AllCovered

\* The server takes an item from the pipe.
LEMMA ForwardCovered ==
  ASSUME TypeOK, NEW s \in Stream, AllCovered(s), readers' = readers, cmdpipe'[s] = cmdpipe[s],
         selectors'[s] = selectors[s], relaying'[s] = relaying[s], Shorter(frompipe[s], frompipe'[s])
  PROVE  AllCovered(s)'
<1>1. SelectorsCovered(s)' /\ CommandsCovered(s)'
  BY DEF AllCovered, SelectorsCovered, CommandsCovered, Covered, Reads, CancelSent, CancelIn
<1>2. TaskCovered(s)'
  BY DEF AllCovered, TaskCovered, Covered, Reads, CancelSent, CancelIn
<1>3. RelayedCovered(s)'
  <2> SUFFICES ASSUME NEW i \in DOMAIN frompipe'[s], NEW c \in Ptr,
                      frompipe'[s][i].msg # ACK, frompipe'[s][i].client = c
               PROVE  \/ Covered(s, c)' \/ AckTask(s, c)'
                      \/ \E j \in DOMAIN frompipe'[s] : j > i /\ AckIn(s, c, j)'
    BY DEF RelayedCovered
  <2>1. i + 1 \in DOMAIN frompipe[s] /\ frompipe'[s][i] = frompipe[s][i + 1] /\ i \in Int
    BY ShorterEntries
  <2>2. \/ Covered(s, c) \/ AckTask(s, c)
        \/ \E j \in DOMAIN frompipe[s] : j > i + 1 /\ AckIn(s, c, j)
    BY <2>1 DEF AllCovered, RelayedCovered
  <2>3. Covered(s, c)' = Covered(s, c) /\ AckTask(s, c)' = AckTask(s, c)
    BY DEF Covered, Reads, CancelSent, CancelIn, AckTask
  <2>4. ASSUME NEW j \in DOMAIN frompipe[s], j > i + 1, AckIn(s, c, j)
        PROVE  \E k \in DOMAIN frompipe'[s] : k > i /\ AckIn(s, c, k)'
    <3>1. PICK k \in DOMAIN frompipe'[s] : k = j - 1 /\ frompipe'[s][k] = frompipe[s][j] /\ j \in Int
      <4>1. j # 1 /\ j \in Int
        BY <2>1, <2>4, ShorterEntries
      <4> QED BY <4>1, ShorterEntries
    <3>2. k > i /\ AckIn(s, c, k)'
      BY <2>1, <2>4, <3>1 DEF AckIn
    <3> QED BY <3>2
  <2> QED BY <2>2, <2>3, <2>4
<1> QED BY <1>1, <1>2, <1>3 DEF AllCovered

\* The engine takes a message.
LEMMA TakenCovered ==
  ASSUME TypeOK, InPlace, NEW s \in Stream, AllCovered(s), readers' = readers,
         cmdpipe'[s] = cmdpipe[s], selectors'[s] = selectors[s], Taken(s)
  PROVE  AllCovered(s)'
<1>1. SelectorsCovered(s)' /\ CommandsCovered(s)'
  BY DEF AllCovered, SelectorsCovered, CommandsCovered, Covered, Reads, CancelSent, CancelIn
<1>2. relaying'[s].msg # ACK
  <2>1. 1 \in DOMAIN topipe[s]
    BY DEF Taken, Shorter
  <2>2. topipe[s][1].msg \in 1 .. Len(log)
    BY <2>1 DEF InPlace, Stand, OfStream, Holds
  <2> QED BY <2>2 DEF Taken, ACK
<1>3. TaskCovered(s)'
  <2>1. \A sel \in relaying'[s].todo : sel \in selectors[s]
    BY DEF Taken, Matching
  <2>2. \A sel \in relaying'[s].todo : Covered(s, sel[2])
    BY <2>1 DEF AllCovered, SelectorsCovered
  <2>3. \A c : Covered(s, c)' = Covered(s, c)
    BY DEF Covered, Reads, CancelSent, CancelIn
  <2> QED BY <1>2, <2>2, <2>3 DEF TaskCovered
<1>4. RelayedCovered(s)'
  <2>1. frompipe'[s] = frompipe[s] /\ \A c \in Ptr : ~ AckTask(s, c)
    BY DEF Taken, AckTask
  <2> QED BY <2>1 DEF AllCovered, RelayedCovered, Covered, Reads, CancelSent, CancelIn, AckIn
<1> QED BY <1>1, <1>3, <1>4 DEF AllCovered

\* It sends an item, a message or an ACK.
LEMMA SentCovered ==
  ASSUME TypeOK, NEW s \in Stream, AllCovered(s), readers' = readers,
         cmdpipe'[s] = cmdpipe[s], selectors'[s] = selectors[s], NEW sel \in Selector, Sent(s, sel)
  PROVE  AllCovered(s)'
<1>1. SelectorsCovered(s)' /\ CommandsCovered(s)'
  BY DEF AllCovered, SelectorsCovered, CommandsCovered, Covered, Reads, CancelSent, CancelIn
<1>2. \A c \in Ptr : Covered(s, c)' = Covered(s, c)
  BY DEF Covered, Reads, CancelSent, CancelIn
<1>3. TaskCovered(s)'
  BY DEF Sent, AllCovered, TaskCovered, Covered, Reads, CancelSent, CancelIn
<1>4. RelayedCovered(s)'
  <2> SUFFICES ASSUME NEW i \in DOMAIN frompipe'[s], NEW c \in Ptr,
                      frompipe'[s][i].msg # ACK, frompipe'[s][i].client = c
               PROVE  \/ Covered(s, c)' \/ AckTask(s, c)'
                      \/ \E j \in DOMAIN frompipe'[s] : j > i /\ AckIn(s, c, j)'
    BY DEF RelayedCovered
  <2>1. PICK item : item = [client |-> sel[2], msg |-> relaying[s].msg]
    OBVIOUS
  <2>2. Longer(frompipe[s], frompipe'[s], item) /\ relaying[s] # NoTask /\ sel \in relaying[s].todo
    BY <2>1 DEF Sent
  <2>3. PICK n : n = Len(frompipe[s]) + 1 /\ n \in DOMAIN frompipe'[s] /\ frompipe'[s][n] = item
                 /\ \A k \in DOMAIN frompipe[s] : k < n
    BY <2>2, LongerEntries
  <2>4. CASE i \notin DOMAIN frompipe[s]
    <3>1. frompipe'[s][i] = item
      BY <2>2, <2>4, LongerEntries
    <3>2. relaying[s].msg # ACK /\ c = sel[2]
      BY <2>1, <3>1
    <3>3. Covered(s, c)
      BY <2>2, <3>2 DEF AllCovered, TaskCovered
    <3> QED BY <1>2, <3>3
  <2>5. CASE i \in DOMAIN frompipe[s]
    <3>1. frompipe'[s][i] = frompipe[s][i]
      BY <2>2, <2>5, LongerEntries
    <3>2. CASE Covered(s, c)
      BY <1>2, <3>2
    <3>3. ASSUME NEW j \in DOMAIN frompipe[s], j > i, AckIn(s, c, j)
          PROVE  j \in DOMAIN frompipe'[s] /\ AckIn(s, c, j)'
      BY <2>2, <3>3, LongerEntries DEF AckIn
    <3>4. CASE AckTask(s, c)
      <4>1. sel[2] = c /\ relaying[s].msg = ACK
        BY <2>2, <3>4 DEF AckTask, AllCovered, TaskCovered
      <4>2. AckIn(s, c, n)' /\ n > i
        BY <2>1, <2>3, <2>5, <4>1 DEF AckIn
      <4> QED BY <2>3, <4>2
    <3>5. \/ Covered(s, c) \/ AckTask(s, c)
          \/ \E j \in DOMAIN frompipe[s] : j > i /\ AckIn(s, c, j)
      BY <2>5, <3>1 DEF AllCovered, RelayedCovered
    <3> QED BY <3>2, <3>3, <3>4, <3>5
  <2> QED BY <2>4, <2>5
<1> QED BY <1>1, <1>3, <1>4 DEF AllCovered

\* It has finished.
LEMMA FinishedCovered ==
  ASSUME TypeOK, NEW s \in Stream, AllCovered(s), readers' = readers, cmdpipe'[s] = cmdpipe[s],
         selectors'[s] = selectors[s], Finished(s), relaying[s].todo = {}
  PROVE  AllCovered(s)'
<1>1. SelectorsCovered(s)' /\ CommandsCovered(s)' /\ TaskCovered(s)'
  BY DEF AllCovered, SelectorsCovered, CommandsCovered, TaskCovered, Covered, Reads, CancelSent,
         CancelIn, Finished
<1>2. frompipe'[s] = frompipe[s] /\ \A c \in Ptr : ~ AckTask(s, c)
  BY DEF Finished, AckTask
<1>3. RelayedCovered(s)'
  BY <1>2 DEF AllCovered, RelayedCovered, Covered, Reads, CancelSent, CancelIn, AckIn
<1> QED BY <1>1, <1>3 DEF AllCovered

\* It handles a command, the first in its pipe.
LEMMA CommandKept ==
  ASSUME TypeOK, NEW s \in Stream, Shorter(cmdpipe[s], cmdpipe'[s]), readers' = readers,
         CommandsCovered(s)
  PROVE  /\ \A c \in Ptr : Covered(s, c) /\ ~ CancelIn(s, c, 1) => Covered(s, c)'
         /\ CommandsCovered(s)'
         /\ cmdpipe[s][1].method = "COMPILE" => \A c \in Ptr : cmdpipe[s][1].client = c => Covered(s, c)'
<1>1. ASSUME NEW c \in Ptr, NEW i \in Int, NEW j \in DOMAIN cmdpipe[s], CancelIn(s, c, j), j > i, j # 1
      PROVE  \E k \in DOMAIN cmdpipe'[s] : k > i - 1 /\ CancelIn(s, c, k)'
  <2>1. PICK k \in DOMAIN cmdpipe'[s] : k = j - 1 /\ cmdpipe'[s][k] = cmdpipe[s][j] /\ j \in Int
    BY <1>1, ShorterEntries
  <2> QED BY <1>1, <2>1 DEF CancelIn
<1>2. \A c \in Ptr : Reads(s, c)' = Reads(s, c)
  BY DEF Reads
<1>3. ASSUME NEW c \in Ptr, CancelSent(s, c), ~ CancelIn(s, c, 1) PROVE CancelSent(s, c)'
  <2>1. PICK j \in DOMAIN cmdpipe[s] : CancelIn(s, c, j) /\ j # 1
    BY <1>3 DEF CancelSent
  <2>2. j > j - 1 /\ j - 1 \in Int
    BY ShorterEntries
  <2> QED BY <1>1, <2>1, <2>2 DEF CancelSent
<1>4. ASSUME NEW i \in DOMAIN cmdpipe[s], NEW c \in Ptr, cmdpipe[s][i].method = "COMPILE",
             cmdpipe[s][i].client = c
      PROVE  Reads(s, c)' \/ \E k \in DOMAIN cmdpipe'[s] : k > i - 1 /\ CancelIn(s, c, k)'
  <2>1. i \in Int /\ i >= 1
    BY DEF Shorter
  <2>2. Reads(s, c) \/ \E j \in DOMAIN cmdpipe[s] : j > i /\ CancelIn(s, c, j)
    BY <1>4 DEF CommandsCovered
  <2>3. \A j \in DOMAIN cmdpipe[s] : j > i => j # 1
    BY <2>1
  <2> QED BY <1>1, <1>2, <2>1, <2>2, <2>3
<1>5. CommandsCovered(s)'
  <2> SUFFICES ASSUME NEW i \in DOMAIN cmdpipe'[s]
               PROVE  /\ cmdpipe'[s][i].method = "COMPILE" =>
                           \A c \in Ptr : cmdpipe'[s][i].client = c =>
                             Reads(s, c)' \/ \E j \in DOMAIN cmdpipe'[s] : j > i /\ CancelIn(s, c, j)'
                      /\ cmdpipe'[s][i].method = "CANCEL" => cmdpipe'[s][i].pattern = {}
    BY DEF CommandsCovered
  <2>1. PICK k \in DOMAIN cmdpipe[s] : k = i + 1 /\ cmdpipe'[s][i] = cmdpipe[s][k] /\ k - 1 = i
    BY ShorterEntries
  <2>2. cmdpipe[s][k].method = "CANCEL" => cmdpipe[s][k].pattern = {}
    BY DEF CommandsCovered
  <2> QED BY <1>4, <2>1, <2>2
<1>6. 1 \in DOMAIN cmdpipe[s]
  BY ShorterEntries
<1> QED BY <1>2, <1>3, <1>4, <1>5, <1>6 DEF Covered, CancelSent

LEMMA CommandCovered ==
  ASSUME TypeOK, NEW s \in Stream, AllCovered(s), EngineCommand(s)
  PROVE  AllCovered(s)'
<1>1. /\ cmdpipe \in [Stream -> Seq(Command)] /\ cmdpipe[s] \in Seq(Command) /\ cmdpipe[s] # <<>>
      /\ selectors \in [Stream -> SUBSET Selector] /\ relaying \in [Stream -> Task \cup {NoTask}]
  BY DEF TypeOK, EngineCommand
<1>2. PICK cmd \in Command : cmd = cmdpipe[s][1] /\ cmd = Head(cmdpipe[s])
  BY <1>1, TailIsShorter
<1>3. Shorter(cmdpipe[s], cmdpipe'[s])
  <2>1. cmdpipe'[s] = Tail(cmdpipe[s])
    BY <1>1 DEF EngineCommand
  <2> QED BY <1>1, <2>1, TailIsShorter
<1>4. /\ readers' = readers /\ frompipe' = frompipe /\ relaying[s] = NoTask
      /\ \A c \in Ptr : ~ AckTask(s, c)
  BY DEF EngineCommand, contexts, AckTask
<1>5. /\ \A c \in Ptr : Covered(s, c) /\ ~ CancelIn(s, c, 1) => Covered(s, c)'
      /\ CommandsCovered(s)'
      /\ cmdpipe[s][1].method = "COMPILE" => \A c \in Ptr : cmdpipe[s][1].client = c => Covered(s, c)'
  BY <1>3, <1>4, CommandKept DEF AllCovered
<1>6. selectors[s] \subseteq Selector /\ \A sel \in selectors[s] : sel[2] \in Ptr
  BY <1>1 DEF Selector
<1>7. CASE cmd.method = "COMPILE"
  <2>1. selectors'[s] = selectors[s] \cup {<<cmd.pattern, cmd.client>>} /\ relaying'[s] = NoTask
    BY <1>1, <1>2, <1>4, <1>7 DEF EngineCommand, Compile
  <2>2. \A c \in Ptr : ~ CancelIn(s, c, 1)
    BY <1>2, <1>7 DEF CancelIn
  <2>3. cmd.client \in Ptr /\ Covered(s, cmd.client)'
    <3>1. PICK c \in Ptr : c = cmd.client
      BY DEF Command
    <3>2. Covered(s, c)'
      BY <1>2, <1>5, <1>7, <3>1
    <3>3. Covered(s, cmd.client)'
      BY <3>1, <3>2 DEF Covered, Reads, CancelSent, CancelIn
    <3> QED BY <3>1, <3>3
  <2>4. SelectorsCovered(s)'
    <3> SUFFICES ASSUME NEW sel \in selectors'[s] PROVE Covered(s, sel[2])'
      BY DEF SelectorsCovered
    <3>1. CASE sel \in selectors[s]
      BY <1>5, <1>6, <2>2, <3>1 DEF AllCovered, SelectorsCovered
    <3>2. CASE sel = <<cmd.pattern, cmd.client>>
      <4>1. sel[2] = cmd.client
        BY <3>2
      <4> QED BY <2>3, <4>1
    <3> QED BY <2>1, <3>1, <3>2
  <2>5. TaskCovered(s)' /\ RelayedCovered(s)'
    <3>1. TaskCovered(s)'
      BY <2>1 DEF TaskCovered
    <3>2. RelayedCovered(s)'
      BY <1>4, <1>5, <2>2 DEF AllCovered, RelayedCovered, AckIn
    <3> QED BY <3>1, <3>2
  <2> QED BY <1>5, <2>4, <2>5 DEF AllCovered
<1>8. CASE cmd.method = "CANCEL"
  <2>1. PICK a \in Ptr : a = cmd.client
    BY DEF Command
  <2>2. PICK task : task = [msg |-> ACK, todo |-> {<<cmd.pattern, a>>}]
    OBVIOUS
  <2>3. selectors'[s] = {sel \in selectors[s] : sel[2] # a} /\ relaying'[s] = task
    <3>1. /\ selectors' = [selectors EXCEPT ![s] = {sel \in @ : sel[2] # Head(cmdpipe[s]).client}]
          /\ relaying' = [relaying EXCEPT ![s] =
               [msg |-> ACK, todo |-> {<<Head(cmdpipe[s]).pattern, Head(cmdpipe[s]).client>>}]]
      BY <1>2, <1>8 DEF EngineCommand
    <3>2. selectors' = [selectors EXCEPT ![s] = {sel \in @ : sel[2] # a}]
          /\ relaying' = [relaying EXCEPT ![s] = task]
      BY <1>2, <2>1, <2>2, <3>1
    <3> QED BY <1>1, <3>2
  <2>4. task # NoTask
    <3>1. task \in Task
      BY <2>1, <2>2 DEF Task, Selector, Command, ACK
    <3> QED BY <3>1, TaskAssumption
  <2>5. \A c \in Ptr : c # a => ~ CancelIn(s, c, 1)
    BY <1>2, <2>1 DEF CancelIn
  <2>6. SelectorsCovered(s)'
    BY <1>5, <1>6, <2>3, <2>5 DEF AllCovered, SelectorsCovered
  <2>7. TaskCovered(s)'
    BY <2>2, <2>3 DEF TaskCovered
  <2>8. AckTask(s, a)'
    <3>1. task.msg = ACK /\ \E sel \in task.todo : sel[2] = a
      BY <2>2
    <3> QED BY <2>3, <2>4, <3>1 DEF AckTask
  <2>9. RelayedCovered(s)'
    <3> SUFFICES ASSUME NEW i \in DOMAIN frompipe[s], NEW c \in Ptr,
                        frompipe[s][i].msg # ACK, frompipe[s][i].client = c
                 PROVE  \/ Covered(s, c)' \/ AckTask(s, c)'
                        \/ \E j \in DOMAIN frompipe[s] : j > i /\ AckIn(s, c, j)'
      BY <1>4 DEF RelayedCovered
    <3>1. Covered(s, c) \/ \E j \in DOMAIN frompipe[s] : j > i /\ AckIn(s, c, j)
      BY <1>4 DEF AllCovered, RelayedCovered
    <3> QED BY <1>4, <1>5, <2>5, <2>8, <3>1 DEF AckIn
  <2> QED BY <1>5, <2>6, <2>7, <2>9 DEF AllCovered
<1> QED BY <1>7, <1>8 DEF Command

\* The commands of the peers add to the pipes of commands only.
LEMMA OpenAdds ==
  ASSUME TypeOK, NEW s \in Stream, NEW p \in Peer, NEW c \in Ptr, Open(p, c)
  PROVE  CommandsAdded(s)
BY DEF Open, pipes, engines, CommandsAdded, Reads

LEMMA QuietAdds ==
  ASSUME NEW s \in Stream, UNCHANGED <<cmdpipe, frompipe, engines, readers>>
  PROVE  CommandsAdded(s)
BY DEF engines, CommandsAdded, Reads

LEMMA ReadAdds ==
  ASSUME TypeOK, NEW s \in Stream, NEW c \in Ptr, NEW r \in Stream, NEW p \in Pattern,
         StreamRead(c, r, p)
  PROVE  CommandsAdded(s)
<1>1. PICK cmd : cmd = [method |-> "COMPILE", client |-> c, pattern |-> p]
  OBVIOUS
<1>2. cmd \in Command
  BY <1>1, PatternAssumption DEF Command
<1>3. /\ readers \in [Ptr -> Seq(Stream)] /\ cmdpipe \in [Stream -> Seq(Command)]
      /\ readers' = [readers EXCEPT ![c] = Append(@, r)]
      /\ cmdpipe' = [cmdpipe EXCEPT ![r] = Append(@, cmd)]
      /\ frompipe' = frompipe /\ selectors' = selectors /\ relaying' = relaying
  BY <1>1 DEF TypeOK, StreamRead, engines
<1>4. Longer(readers[c], readers'[c], r)
  <2>1. Longer(readers[c], Append(readers[c], r), r)
    BY <1>3, AppendIsLonger
  <2> QED BY <1>3, <2>1
<1>5. \A d \in Ptr : Reads(s, d) => Reads(s, d)'
  <2>1. ASSUME NEW d \in Ptr, d # c PROVE readers'[d] = readers[d]
    BY <1>3, <2>1
  <2>2. \A i \in DOMAIN readers[c] : i \in DOMAIN readers'[c] /\ readers'[c][i] = readers[c][i]
    BY <1>4, LongerEntries
  <2> QED BY <2>1, <2>2 DEF Reads
<1>6. Reads(r, c)'
  <2>1. Len(readers[c]) + 1 \in DOMAIN readers'[c] /\ readers'[c][Len(readers[c]) + 1] = r
    BY <1>4, LongerEntries
  <2> QED BY <2>1 DEF Reads
<1>7. CASE s # r
  BY <1>3, <1>5, <1>7 DEF CommandsAdded
<1>8. CASE s = r
  <2>1. Longer(cmdpipe[s], cmdpipe'[s], cmd)
    <3>1. Longer(cmdpipe[s], Append(cmdpipe[s], cmd), cmd)
      BY <1>2, <1>3, AppendIsLonger
    <3> QED BY <1>3, <1>8, <3>1
  <2>2. \A j \in DOMAIN cmdpipe'[s] : j \notin DOMAIN cmdpipe[s] => cmdpipe'[s][j] = cmd
    BY <2>1, LongerEntries
  <2>3. \A i \in DOMAIN cmdpipe[s] : i \in DOMAIN cmdpipe'[s] /\ cmdpipe'[s][i] = cmdpipe[s][i]
    BY <2>1, LongerEntries
  <2>4. cmd.method = "COMPILE" /\ \A d \in Ptr : cmd.client = d => Reads(s, d)'
    BY <1>1, <1>6, <1>8
  <2> QED BY <1>3, <1>5, <2>2, <2>3, <2>4 DEF CommandsAdded
<1> QED BY <1>7, <1>8

\* The CANCELs of a client that is dropped stand behind the rest.
LEMMA CancelReadersPipe ==
  ASSUME TypeOK, NEW s \in Stream, NEW c \in Ptr, cmdpipe' = CancelReaders(c)
  PROVE  /\ \A i \in DOMAIN cmdpipe[s] : i \in DOMAIN cmdpipe'[s] /\ cmdpipe'[s][i] = cmdpipe[s][i]
         /\ \A j \in DOMAIN cmdpipe'[s] : j \notin DOMAIN cmdpipe[s] =>
              cmdpipe'[s][j] = Cancel(c) /\ \A i \in DOMAIN cmdpipe[s] : j > i
         /\ Count(readers[c], {s}) > 0 =>
              \E j \in DOMAIN cmdpipe'[s] : j \notin DOMAIN cmdpipe[s]
<1>1. PICK n : n = Count(readers[c], {s})
  OBVIOUS
<1>2. PICK more : more = [i \in 1 .. n |-> Cancel(c)]
  OBVIOUS
<1>3. n \in Nat
  <2>1. readers[c] \in Seq(Stream)
    BY DEF TypeOK
  <2> QED BY <1>1, <2>1, CountType
<1>4. more \in Seq(Command) /\ Len(more) = n /\ \A i \in 1 .. n : more[i] = Cancel(c)
  <2>1. Cancel(c) \in Command
    BY CancelTypes
  <2> QED BY <1>2, <1>3, <2>1
<1>5. cmdpipe[s] \in Seq(Command) /\ cmdpipe'[s] = cmdpipe[s] \o more
  BY <1>1, <1>2 DEF TypeOK, CancelReaders
<1>6. PICK old \in Seq(Command) : old = cmdpipe[s]
  BY <1>5
<1>7. PICK new : new = old \o more
  OBVIOUS
<1>8. /\ DOMAIN old = 1 .. Len(old) /\ DOMAIN new = 1 .. Len(old) + n /\ Len(old) \in Nat
      /\ \A i \in 1 .. Len(old) : new[i] = old[i]
      /\ \A j \in Len(old) + 1 .. Len(old) + n : new[j] = Cancel(c)
  <2>1. /\ DOMAIN old = 1 .. Len(old) /\ Len(old) \in Nat /\ DOMAIN new = 1 .. Len(old) + n
        /\ \A i \in 1 .. Len(old) : new[i] = old[i]
    BY ONLY <1>3, <1>4, <1>7
  <2>2. ASSUME NEW j \in Len(old) + 1 .. Len(old) + n PROVE new[j] = Cancel(c)
    <3>1. j - Len(old) \in 1 .. n
      BY <1>3
    <3>2. new[j] = more[j - Len(old)]
      BY <1>3, <1>4, <1>7
    <3> QED BY <1>4, <3>1, <3>2
  <2> QED BY <2>1, <2>2
<1>9. cmdpipe[s] = old /\ cmdpipe'[s] = new
  BY <1>5, <1>6, <1>7
<1>10. n > 0 => Len(old) + 1 \in DOMAIN new /\ Len(old) + 1 \notin DOMAIN old
  BY ONLY <1>3, <1>8
<1>11. /\ \A i \in DOMAIN old : i \in DOMAIN new /\ new[i] = old[i]
       /\ \A j \in DOMAIN new : j \notin DOMAIN old =>
            new[j] = Cancel(c) /\ \A i \in DOMAIN old : j > i
  <2>1. ASSUME NEW i \in DOMAIN old PROVE i \in DOMAIN new /\ new[i] = old[i]
    BY ONLY <1>3, <1>8, <2>1
  <2>2. ASSUME NEW j \in DOMAIN new, j \notin DOMAIN old PROVE j \in Len(old) + 1 .. Len(old) + n
    BY ONLY <1>3, <1>8, <2>2
  <2>3. ASSUME NEW j \in DOMAIN new, j \notin DOMAIN old, NEW i \in DOMAIN old PROVE j > i
    BY ONLY <1>3, <1>8, <2>3
  <2> QED BY <1>8, <2>1, <2>2, <2>3
<1>12. n > 0 => \E j \in DOMAIN new : j \notin DOMAIN old
  BY <1>10
<1> QED BY ONLY <1>1, <1>9, <1>11, <1>12

LEMMA DropAdds ==
  ASSUME TypeOK, NEW s \in Stream, NEW c \in Ptr, Drop(c)
  PROVE  CommandsAdded(s)
<1>1. /\ readers \in [Ptr -> Seq(Stream)] /\ readers' = [readers EXCEPT ![c] = <<>>]
      /\ cmdpipe' = CancelReaders(c)
      /\ frompipe' = frompipe /\ selectors' = selectors /\ relaying' = relaying
  BY DEF TypeOK, Drop, engines
<1>2. ASSUME NEW d \in Ptr, d # c PROVE Reads(s, d)' = Reads(s, d)
  <2>1. readers'[d] = readers[d]
    BY <1>1, <1>2
  <2> QED BY <2>1 DEF Reads
<1>3. ASSUME Reads(s, c) PROVE SentBehind(s, c)
  <2>1. Count(readers[c], {s}) > 0
    <3>1. \E i \in DOMAIN readers[c] : readers[c][i] \in {s}
      BY <1>3 DEF Reads
    <3>2. PICK T : T = {s}
      OBVIOUS
    <3>3. readers[c] \in Seq(Stream)
      BY <1>1
    <3>4. Count(readers[c], T) \in Nat /\ Count(readers[c], T) # 0
      BY <3>1, <3>2, <3>3, CountNone, CountType
    <3> QED BY <3>2, <3>4
  <2>2. PICK j \in DOMAIN cmdpipe'[s] :
          cmdpipe'[s][j] = Cancel(c) /\ \A i \in DOMAIN cmdpipe[s] : j > i
    BY <1>1, <2>1, CancelReadersPipe
  <2>3. CancelIn(s, c, j)'
    BY <2>2 DEF CancelIn, Cancel
  <2> QED BY <2>2, <2>3 DEF SentBehind
<1>4. \A j \in DOMAIN cmdpipe'[s] : j \notin DOMAIN cmdpipe[s] =>
        cmdpipe'[s][j].method = "CANCEL" /\ cmdpipe'[s][j].pattern = {}
  <2>1. \A j \in DOMAIN cmdpipe'[s] : j \notin DOMAIN cmdpipe[s] => cmdpipe'[s][j] = Cancel(c)
    BY <1>1, CancelReadersPipe
  <2>2. Cancel(c).method = "CANCEL" /\ Cancel(c).pattern = {}
    BY DEF Cancel
  <2> QED BY <2>1, <2>2
<1>5. \A i \in DOMAIN cmdpipe[s] : i \in DOMAIN cmdpipe'[s] /\ cmdpipe'[s][i] = cmdpipe[s][i]
  BY <1>1, CancelReadersPipe
<1> QED BY <1>1, <1>2, <1>3, <1>4, <1>5 DEF CommandsAdded

\* Every step but STREAM CANCEL keeps it so.
LEMMA CoveredStep ==
  ASSUME TypeOK, InPlace, NEW t \in Stream, AllCovered(t), [Next]_vars, cancels' = cancels
  PROVE  AllCovered(t)'
<1>1. ASSUME UNCHANGED <<cmdpipe, frompipe, engines, readers>> PROVE AllCovered(t)'
  BY <1>1, QuietAdds, AddedCovered
<1>2. CASE UNCHANGED vars
  BY <1>1, <1>2 DEF vars, contexts, pipes
<1>3. ASSUME NEW p \in Peer, NEW c \in Ptr, Open(p, c) PROVE AllCovered(t)'
  BY <1>3, OpenAdds, AddedCovered
<1>4. ASSUME NEW c \in Ptr, NEW s \in Stream, StreamWrite(c, s) PROVE AllCovered(t)'
  BY <1>1, <1>4 DEF StreamWrite, pipes
<1>5. ASSUME NEW c \in Ptr, NEW s \in Stream, StreamCancel(c, s) PROVE AllCovered(t)'
  BY <1>5 DEF StreamCancel, TypeOK
<1>6. ASSUME NEW c \in Ptr, NEW s \in Stream, NEW p \in Pattern, StreamRead(c, s, p)
      PROVE  AllCovered(t)'
  BY <1>6, ReadAdds, AddedCovered
<1>7. ASSUME NEW c \in Ptr, NEW x \in Subject, StreamSend(c, x) PROVE AllCovered(t)'
  BY <1>1, <1>7 DEF StreamSend, contexts
<1>8. ASSUME NEW c \in Ptr, Drop(c) PROVE AllCovered(t)'
  BY <1>8, DropAdds, AddedCovered
<1>9. ASSUME SendCompletes PROVE AllCovered(t)'
  BY <1>1, <1>9 DEF SendCompletes, contexts
<1>10. ASSUME NEW s \in Stream, ForwardTraffic(s) PROVE AllCovered(t)'
  <2>1. UNCHANGED <<cmdpipe, selectors, relaying, readers>>
    BY <1>10 DEF ForwardTraffic, engines, contexts
  <2>2. Shorter(frompipe[s], frompipe'[s]) /\ \A r \in Stream \ {s} : frompipe'[r] = frompipe[r]
    BY <1>10, ForwardMoves DEF Dropped, Forwarded, OthersStay
  <2> QED BY <2>1, <2>2, ForwardCovered, StillCovered
<1>11. ASSUME NEW s \in Stream, EngineCommand(s) PROVE AllCovered(t)'
  <2>1. CASE s = t
    BY <1>11, <2>1, CommandCovered
  <2>2. CASE s # t
    <3>1. /\ readers' = readers /\ frompipe'[t] = frompipe[t]
          /\ cmdpipe'[t] = cmdpipe[t] /\ selectors'[t] = selectors[t] /\ relaying'[t] = relaying[t]
      BY <1>11, <2>2 DEF EngineCommand, TypeOK, contexts
    <3> QED BY <3>1, StillCovered
  <2> QED BY <2>1, <2>2
<1>12. ASSUME NEW s \in Stream, EngineMessage(s) PROVE AllCovered(t)'
  <2>1. UNCHANGED <<cmdpipe, selectors, readers>> /\ Taken(s)
    BY <1>12, MessageMoves DEF EngineMessage, contexts
  <2> QED BY <2>1, TakenCovered, StillCovered DEF Taken, OthersStay
<1>13. ASSUME NEW s \in Stream, Relay(s) PROVE AllCovered(t)'
  <2>1. PICK sel \in Selector : Sent(s, sel)
    BY <1>13, RelayMoves, TaskTypes
  <2>2. UNCHANGED <<cmdpipe, selectors, readers>>
    BY <1>13 DEF Relay, contexts
  <2> QED BY <2>1, <2>2, SentCovered, StillCovered DEF Sent, OthersStay
<1>14. ASSUME NEW s \in Stream, RelayDone(s) PROVE AllCovered(t)'
  <2>1. UNCHANGED <<cmdpipe, selectors, readers>> /\ Finished(s) /\ relaying[s].todo = {}
    BY <1>14, RelayDoneMoves DEF RelayDone, contexts, pipes
  <2> QED BY <2>1, FinishedCovered, StillCovered DEF Finished, OthersStay
<1> QED BY <1>2, <1>3, <1>4, <1>5, <1>6, <1>7, <1>8, <1>9, <1>10, <1>11, <1>12, <1>13, <1>14
        DEF Next, Server, Engine

-----------------------------------------------------------------------------
\* References: the number that is under way

LEMMA PendingPrimed ==
  ASSUME NEW s \in Stream, NEW c \in Ptr
  PROVE  Pending(s, c)' = CancelsIn(s, c)' + AcksIn(s, c)' + Acking(s, c)'
BY DEF Pending, CancelsIn, AcksIn, Acking, AckTask

LEMMA PendingStays ==
  ASSUME NEW s \in Stream, NEW c \in Ptr, cmdpipe'[s] = cmdpipe[s], frompipe'[s] = frompipe[s],
         relaying'[s] = relaying[s]
  PROVE  Pending(s, c)' = Pending(s, c)
BY DEF Pending

LEMMA ReadPending ==
  ASSUME TypeOK, NEW d \in Ptr, NEW r \in Stream, NEW p \in Pattern, StreamRead(d, r, p),
         NEW s \in Stream, NEW c \in Ptr
  PROVE  Pending(s, c)' = Pending(s, c)
<1>1. PICK cmd : cmd = [method |-> "COMPILE", client |-> d, pattern |-> p]
  OBVIOUS
<1>2. cmd \in Command
  BY <1>1, PatternAssumption DEF Command
<1>3. /\ cmdpipe \in [Stream -> Seq(Command)]
      /\ cmdpipe' = [cmdpipe EXCEPT ![r] = Append(@, cmd)]
      /\ frompipe' = frompipe /\ relaying' = relaying
  BY <1>1 DEF TypeOK, StreamRead, engines
<1>4. CASE s # r
  BY <1>3, <1>4, PendingStays
<1>5. CASE s = r
  <2>1. Longer(cmdpipe[s], cmdpipe'[s], cmd)
    <3>1. Longer(cmdpipe[s], Append(cmdpipe[s], cmd), cmd)
      BY <1>2, <1>3, AppendIsLonger
    <3> QED BY <1>3, <1>5, <3>1
  <2>2. PICK T : T = {Cancel(c)}
    OBVIOUS
  <2>3. cmd \notin T
    <3>1. cmd.method # Cancel(c).method
      BY <1>1 DEF Cancel
    <3> QED BY <2>2, <3>1
  <2>4. CancelsIn(s, c)' = CancelsIn(s, c)
    <3>1. Count(cmdpipe'[s], T) = Count(cmdpipe[s], T) + 0
      BY <1>3, <2>1, <2>3, CountLonger
    <3>2. CancelsIn(s, c) = Count(cmdpipe[s], T) /\ CancelsIn(s, c)' = Count(cmdpipe'[s], T)
      BY <2>2 DEF CancelsIn, Cancel
    <3>3. CancelsIn(s, c) \in Nat
      BY PendingSum
    <3> QED BY <3>1, <3>2, <3>3
  <2>5. AcksIn(s, c)' = AcksIn(s, c) /\ Acking(s, c)' = Acking(s, c)
    BY <1>3 DEF AcksIn, Acking, AckTask
  <2> QED BY <2>4, <2>5, PendingSum, PendingPrimed
<1> QED BY <1>4, <1>5

\* A CANCEL turns into an ACK that the engine is to send.
LEMMA CommandPending ==
  ASSUME TypeOK, NEW r \in Stream, AllCovered(r), EngineCommand(r), NEW s \in Stream, NEW c \in Ptr
  PROVE  Pending(s, c)' = Pending(s, c)
<1>1. /\ cmdpipe \in [Stream -> Seq(Command)] /\ cmdpipe[r] \in Seq(Command) /\ cmdpipe[r] # <<>>
      /\ relaying \in [Stream -> Task \cup {NoTask}] /\ frompipe' = frompipe
  BY DEF TypeOK, EngineCommand
<1>2. CASE s # r
  BY <1>1, <1>2, PendingStays DEF EngineCommand
<1>3. CASE s = r
  <2>1. PICK cmd \in Command : cmd = cmdpipe[s][1] /\ cmd = Head(cmdpipe[s])
    BY <1>1, <1>3, TailIsShorter
  <2>2. Shorter(cmdpipe[s], cmdpipe'[s])
    <3>1. cmdpipe'[s] = Tail(cmdpipe[s])
      BY <1>1, <1>3 DEF EngineCommand
    <3> QED BY <1>1, <1>3, <3>1, TailIsShorter
  <2>3. CancelsIn(s, c)' = CancelsIn(s, c) - (IF CancelIn(s, c, 1) THEN 1 ELSE 0)
    <3>1. PICK T : T = {Cancel(c)}
      OBVIOUS
    <3>2. Count(cmdpipe'[s], T) = Count(cmdpipe[s], T) - (IF cmdpipe[s][1] \in T THEN 1 ELSE 0)
      BY <1>1, <1>3, <2>2, CountShorter
    <3>3. CancelsIn(s, c) = Count(cmdpipe[s], T) /\ CancelsIn(s, c)' = Count(cmdpipe'[s], T)
      BY <3>1 DEF CancelsIn, Cancel
    <3>4. cmdpipe[s][1] \in T <=> CancelIn(s, c, 1)
      <4>1. 1 \in DOMAIN cmdpipe[s]
        BY <2>2, ShorterEntries
      <4>2. cmdpipe[s][1] = Cancel(c) <=> CancelIn(s, c, 1)
        BY <1>3, <4>1, CancelsCounted DEF AllCovered
      <4> QED BY <3>1, <4>2
    <3> QED BY <3>2, <3>3, <3>4
  <2>4. AcksIn(s, c)' = AcksIn(s, c) /\ relaying[s] = NoTask /\ Acking(s, c) = 0
    BY <1>1, <1>3 DEF AcksIn, EngineCommand, Acking, AckTask
  <2>5. Acking(s, c)' = IF CancelIn(s, c, 1) THEN 1 ELSE 0
    <3>1. CASE cmd.method = "COMPILE"
      <4>1. relaying' = relaying /\ ~ CancelIn(s, c, 1)
        BY <1>3, <2>1, <3>1 DEF EngineCommand, CancelIn
      <4> QED BY <2>4, <4>1 DEF Acking, AckTask
    <3>2. CASE cmd.method = "CANCEL"
      <4>1. PICK sel : sel = <<cmd.pattern, cmd.client>>
        OBVIOUS
      <4>2. PICK task : task = [msg |-> ACK, todo |-> {sel}]
        OBVIOUS
      <4>3. relaying' = [relaying EXCEPT ![s] = task]
        <5>1. relaying' = [relaying EXCEPT ![s] =
                [msg |-> ACK, todo |-> {<<Head(cmdpipe[s]).pattern, Head(cmdpipe[s]).client>>}]]
          BY <1>3, <2>1, <3>2 DEF EngineCommand
        <5> QED BY <2>1, <4>1, <4>2, <5>1
      <4>4. task # NoTask
        <5>1. task \in Task
          BY <4>1, <4>2 DEF Task, Selector, Command, ACK
        <5> QED BY <5>1, TaskAssumption
      <4>5. AckTask(s, c)' <=> sel[2] = c
        BY <1>1, <4>2, <4>3, <4>4 DEF AckTask
      <4>6. CancelIn(s, c, 1) <=> sel[2] = c
        BY <2>1, <3>2, <4>1 DEF CancelIn
      <4> QED BY <4>5, <4>6 DEF Acking
    <3> QED BY <3>1, <3>2 DEF Command
  <2> QED BY <2>3, <2>4, <2>5, PendingSum, PendingPrimed
<1> QED BY <1>2, <1>3

LEMMA TakenPending ==
  ASSUME TypeOK, InPlace, NEW r \in Stream, Taken(r), cmdpipe' = cmdpipe, NEW s \in Stream, NEW c \in Ptr
  PROVE  Pending(s, c)' = Pending(s, c)
<1>1. CASE s # r
  BY <1>1, PendingStays DEF Taken, OthersStay
<1>2. CASE s = r
  <2>1. relaying'[s].msg # ACK
    <3>1. 1 \in DOMAIN topipe[s]
      BY <1>2 DEF Taken, Shorter
    <3>2. topipe[s][1].msg \in 1 .. Len(log)
      BY <3>1 DEF InPlace, Stand, OfStream, Holds
    <3> QED BY <1>2, <3>2 DEF Taken, ACK
  <2>2. Acking(s, c)' = 0 /\ Acking(s, c) = 0
    BY <1>2, <2>1 DEF Acking, AckTask, Taken
  <2>3. CancelsIn(s, c)' = CancelsIn(s, c) /\ AcksIn(s, c)' = AcksIn(s, c)
    BY <1>2 DEF CancelsIn, AcksIn, Taken, Cancel
  <2> QED BY <2>2, <2>3, PendingSum, PendingPrimed
<1> QED BY <1>1, <1>2

LEMMA FinishedPending ==
  ASSUME TypeOK, NEW r \in Stream, Finished(r), relaying[r].todo = {}, cmdpipe' = cmdpipe,
         NEW s \in Stream, NEW c \in Ptr
  PROVE  Pending(s, c)' = Pending(s, c)
<1>1. CASE s # r
  BY <1>1, PendingStays DEF Finished, OthersStay
<1>2. CASE s = r
  <2>1. Acking(s, c)' = 0 /\ Acking(s, c) = 0
    BY <1>2 DEF Acking, AckTask, Finished
  <2>2. CancelsIn(s, c)' = CancelsIn(s, c) /\ AcksIn(s, c)' = AcksIn(s, c)
    BY <1>2 DEF CancelsIn, AcksIn, Finished, Cancel
  <2> QED BY <2>1, <2>2, PendingSum, PendingPrimed
<1> QED BY <1>1, <1>2

\* The ACK goes into the pipe.
LEMMA SentPending ==
  ASSUME TypeOK, NEW r \in Stream, AllCovered(r), NEW sel \in Selector, Sent(r, sel), cmdpipe' = cmdpipe,
         NEW s \in Stream, NEW c \in Ptr
  PROVE  Pending(s, c)' = Pending(s, c)
<1>1. CASE s # r
  BY <1>1, PendingStays DEF Sent, OthersStay
<1>2. CASE s = r
  <2>1. PICK item : item = [client |-> sel[2], msg |-> relaying[s].msg]
    OBVIOUS
  <2>2. PICK ack : ack = [client |-> c, msg |-> ACK]
    OBVIOUS
  <2>3. item = ack <=> relaying[s].msg = ACK /\ sel[2] = c
    BY <2>1, <2>2
  <2>4. AcksIn(s, c)' = AcksIn(s, c) + (IF item = ack THEN 1 ELSE 0)
    <3>1. PICK T : T = {ack}
      OBVIOUS
    <3>2. frompipe[s] \in Seq(Relayed) /\ Longer(frompipe[s], frompipe'[s], item)
      BY <1>2, <2>1 DEF TypeOK, Sent
    <3>3. Count(frompipe'[s], T) = Count(frompipe[s], T) + (IF item \in T THEN 1 ELSE 0)
      BY <3>2, CountLonger
    <3>4. AcksIn(s, c) = Count(frompipe[s], T) /\ AcksIn(s, c)' = Count(frompipe'[s], T)
      BY <2>2, <3>1 DEF AcksIn
    <3> QED BY <3>1, <3>3, <3>4
  <2>5. CancelsIn(s, c)' = CancelsIn(s, c)
    BY <1>2 DEF CancelsIn, Cancel
  <2>6. Acking(s, c) = Acking(s, c)' + (IF item = ack THEN 1 ELSE 0)
    <3>1. relaying[s] # NoTask /\ relaying'[s] # NoTask /\ relaying'[s].msg = relaying[s].msg
          /\ sel \in relaying[s].todo /\ relaying'[s].todo = relaying[s].todo \ {sel}
      BY <1>2 DEF Sent
    <3>2. CASE relaying[s].msg # ACK
      BY <2>3, <3>1, <3>2 DEF Acking, AckTask
    <3>3. CASE relaying[s].msg = ACK
      <4>1. \A other \in relaying[s].todo : other = sel
        BY <1>2, <3>1, <3>3 DEF AllCovered, TaskCovered
      <4>2. relaying'[s].todo = {}
        BY <3>1, <4>1
      <4>3. ~ AckTask(s, c)' /\ (AckTask(s, c) <=> sel[2] = c)
        BY <3>1, <3>3, <4>1, <4>2 DEF AckTask
      <4> QED BY <2>3, <3>3, <4>3 DEF Acking
    <3> QED BY <3>2, <3>3
  <2>7. CASE item = ack
    <3>1. Acking(s, c)' = Acking(s, c) - 1
      BY <2>6, <2>7 DEF Acking
    <3>2. AcksIn(s, c)' = AcksIn(s, c) + 1
      BY <2>4, <2>7
    <3> QED BY <2>5, <3>1, <3>2, PendingSum, PendingPrimed
  <2>8. CASE item # ack
    <3>1. Acking(s, c)' = Acking(s, c)
      BY <2>6, <2>8 DEF Acking
    <3>2. AcksIn(s, c)' = AcksIn(s, c)
      BY <2>4, <2>8, PendingSum
    <3> QED BY <2>5, <3>1, <3>2, PendingSum, PendingPrimed
  <2> QED BY <2>7, <2>8
<1> QED BY <1>1, <1>2

\* The server takes it out.
LEMMA ForwardPending ==
  ASSUME TypeOK, NEW r \in Stream, OthersStay(r), relaying'[r] = relaying[r],
         Shorter(frompipe[r], frompipe'[r]), cmdpipe' = cmdpipe, NEW s \in Stream, NEW c \in Ptr
  PROVE  Pending(s, c)' = Pending(s, c) - (IF s = r /\ AckIn(r, c, 1) THEN 1 ELSE 0)
<1>0. Pending(s, c) \in Nat
  BY PendingSum
<1>1. CASE s # r
  <2>1. Pending(s, c)' = Pending(s, c)
    BY <1>1, PendingStays DEF OthersStay
  <2> QED BY <1>0, <1>1, <2>1
<1>2. CASE s = r
  <2>1. PICK ack : ack = [client |-> c, msg |-> ACK]
    OBVIOUS
  <2>2. frompipe[s] \in Seq(Relayed) /\ frompipe[s][1] \in Relayed
    <3>1. 1 \in DOMAIN frompipe[s]
      BY <1>2, ShorterEntries
    <3> QED BY <3>1 DEF TypeOK
  <2>3. frompipe[s][1] = ack <=> AckIn(s, c, 1)
    BY <2>1, <2>2 DEF AckIn, Relayed
  <2>4. AcksIn(s, c)' = AcksIn(s, c) - (IF AckIn(s, c, 1) THEN 1 ELSE 0)
    <3>1. PICK T : T = {ack}
      OBVIOUS
    <3>2. Count(frompipe'[s], T) = Count(frompipe[s], T) - (IF frompipe[s][1] \in T THEN 1 ELSE 0)
      BY <1>2, <2>2, CountShorter
    <3>3. AcksIn(s, c) = Count(frompipe[s], T) /\ AcksIn(s, c)' = Count(frompipe'[s], T)
      BY <2>1, <3>1 DEF AcksIn
    <3> QED BY <2>3, <3>1, <3>2, <3>3
  <2>5. CancelsIn(s, c)' = CancelsIn(s, c) /\ Acking(s, c)' = Acking(s, c)
    BY <1>2 DEF CancelsIn, Cancel, Acking, AckTask
  <2> QED BY <1>2, <2>4, <2>5, PendingSum, PendingPrimed
<1> QED BY <1>1, <1>2

\* A client that is dropped turns each entry of its list into a CANCEL.
LEMMA DropPending ==
  ASSUME TypeOK, NEW d \in Ptr, Drop(d), NEW s \in Stream, NEW c \in Ptr
  PROVE  Pending(s, c)' = Pending(s, c) + (IF c = d THEN Count(readers[c], {s}) ELSE 0)
<1>1. cmdpipe' = CancelReaders(d) /\ frompipe' = frompipe /\ relaying' = relaying
  BY DEF Drop, engines
<1>2. PICK n : n = Count(readers[d], {s})
  OBVIOUS
<1>3. n \in Nat
  <2>1. readers[d] \in Seq(Stream)
    BY DEF TypeOK
  <2> QED BY <1>2, <2>1, CountType
<1>4. PICK x : x = Cancel(d)
  OBVIOUS
<1>5. cmdpipe[s] \in Seq(Command) /\ x \in Command /\ cmdpipe'[s] = cmdpipe[s] \o [i \in 1 .. n |-> x]
  BY <1>1, <1>2, <1>4, CancelTypes DEF TypeOK, CancelReaders
<1>6. CancelsIn(s, c)' = CancelsIn(s, c) + (IF c = d THEN n ELSE 0)
  <2>1. PICK T : T = {Cancel(c)}
    OBVIOUS
  <2>2. x \in T <=> c = d
    <3>1. Cancel(c).client = c /\ Cancel(d).client = d
      BY DEF Cancel
    <3> QED BY <1>4, <2>1, <3>1
  <2>3. Count(cmdpipe[s] \o [i \in 1 .. n |-> x], T) = Count(cmdpipe[s], T) + (IF x \in T THEN n ELSE 0)
    <3>1. PICK list : list = cmdpipe[s]
      OBVIOUS
    <3>2. list \in Seq(Command)
      BY <1>5, <3>1
    <3>3. Count(list \o [i \in 1 .. n |-> x], T) = Count(list, T) + (IF x \in T THEN n ELSE 0)
      BY ONLY <1>3, <1>5, <3>2, x \in Command, n \in Nat, CountMany
    <3> QED BY <3>1, <3>3
  <2>4. CancelsIn(s, c) = Count(cmdpipe[s], T) /\ CancelsIn(s, c)' = Count(cmdpipe'[s], T)
    BY <2>1 DEF CancelsIn, Cancel
  <2> QED BY <1>5, <2>2, <2>3, <2>4
<1>7. AcksIn(s, c)' = AcksIn(s, c) /\ Acking(s, c)' = Acking(s, c)
  BY <1>1 DEF AcksIn, Acking, AckTask
<1> QED BY <1>2, <1>3, <1>6, <1>7, PendingSum, PendingPrimed

-----------------------------------------------------------------------------
\* References: the counts

LEMMA AllPendingSame ==
  ASSUME NEW c \in Ptr, \A s \in Stream : Pending(s, c)' = Pending(s, c)
  PROVE  AllPending(c)' = AllPending(c)
BY DEF AllPending

LEMMA AllPendingPairs ==
  ASSUME TypeOK, NEW c \in Ptr, NEW g \in [Stream -> Nat], \A s \in Stream : g[s] = Pending(s, c)'
  PROVE  /\ [s \in Stream |-> Pending(s, c)] \in [Stream -> Nat]
         /\ AllPending(c) = Pairs(Stream, [s \in Stream |-> Pending(s, c)])
         /\ AllPending(c)' = Pairs(Stream, g)
<1>1. PICK f : f = [s \in Stream |-> Pending(s, c)]
  OBVIOUS
<1>2. f \in [Stream -> Nat] /\ \A s \in Stream : f[s] = Pending(s, c)
  BY <1>1, PendingSum
<1>3. AllPending(c) = UNION {{s} \X (1 .. f[s]) : s \in Stream}
  BY <1>2 DEF AllPending
<1>4. AllPending(c)' = UNION {{s} \X (1 .. g[s]) : s \in Stream}
  BY DEF AllPending
<1> QED BY <1>1, <1>2, <1>3, <1>4, UnionIsPairs

LEMMA AllPendingLess ==
  ASSUME TypeOK, NEW c \in Ptr, IsFiniteSet(AllPending(c)), NEW r \in Stream, Pending(r, c) > 0,
         \A s \in Stream : Pending(s, c)' = Pending(s, c) - (IF s = r THEN 1 ELSE 0)
  PROVE  /\ IsFiniteSet(AllPending(c)') /\ Cardinality(AllPending(c)') \in Nat
         /\ Cardinality(AllPending(c)) = Cardinality(AllPending(c)') + 1
<1>1. PICK f : f = [s \in Stream |-> Pending(s, c)]
  OBVIOUS
<1>2. PICK g : g = [s \in Stream |-> Pending(s, c)']
  OBVIOUS
<1>3. f \in [Stream -> Nat] /\ \A s \in Stream : f[s] = Pending(s, c)
  BY <1>1, PendingSum
<1>4. \A s \in Stream : g[s] = f[s] - (IF s = r THEN 1 ELSE 0)
  BY <1>2, <1>3
<1>5. g \in [Stream -> Nat]
  <2>1. \A s \in Stream : g[s] \in Nat
    BY <1>3, <1>4
  <2> QED BY <1>2, <2>1
<1>6. OneMore(Stream, g, f, r)
  BY <1>3, <1>4, <1>5 DEF OneMore
<1>7. AllPending(c) = Pairs(Stream, f) /\ AllPending(c)' = Pairs(Stream, g)
  BY <1>1, <1>2, <1>5, AllPendingPairs
<1> QED BY <1>6, <1>7, PairsLess

LEMMA AllPendingList ==
  ASSUME TypeOK, NEW c \in Ptr, IsFiniteSet(AllPending(c)),
         \A s \in Stream : Pending(s, c)' = Pending(s, c) + Count(readers[c], {s})
  PROVE  /\ IsFiniteSet(AllPending(c)')
         /\ Cardinality(AllPending(c)') = Cardinality(AllPending(c)) + Len(readers[c])
<1>1. PICK f : f = [s \in Stream |-> Pending(s, c)]
  OBVIOUS
<1>2. PICK g : g = [s \in Stream |-> Pending(s, c)']
  OBVIOUS
<1>3. PICK list \in Seq(Stream) : list = readers[c]
  BY DEF TypeOK
<1>4. f \in [Stream -> Nat] /\ \A s \in Stream : f[s] = Pending(s, c)
  BY <1>1, PendingSum
<1>5. \A s \in Stream : g[s] = f[s] + Count(list, {s})
  BY <1>2, <1>3, <1>4
<1>6. g \in [Stream -> Nat]
  <2>1. \A s \in Stream : Count(list, {s}) \in Nat
    BY CountType
  <2>2. ASSUME NEW s \in Stream PROVE g[s] \in Nat
    <3>1. PICK n \in Nat, k \in Nat : n = f[s] /\ k = Count(list, {s})
      BY <1>4, <2>1
    <3>2. g[s] = n + k
      BY <1>5, <3>1
    <3> QED BY <3>2
  <2> QED BY <1>2, <2>2
<1>7. AllPending(c) = Pairs(Stream, f) /\ AllPending(c)' = Pairs(Stream, g)
  BY <1>1, <1>2, <1>6, AllPendingPairs
<1>8. IsFiniteSet(Pairs(Stream, f))
  BY <1>7
<1>9. IsFiniteSet(Pairs(Stream, g)) /\ Cardinality(Pairs(Stream, g)) = Cardinality(Pairs(Stream, f)) + Len(list)
  BY ONLY <1>4, <1>5, <1>6, <1>8, list \in Seq(Stream), PairsList
<1> QED BY <1>3, <1>7, <1>9

LEMMA QuietCount ==
  ASSUME NEW c \in Ptr, CountedAt(c), \A s \in Stream : Pending(s, c)' = Pending(s, c),
         refcount'[c] = refcount[c], readers'[c] = readers[c], state'[c] = state[c]
  PROVE  CountedAt(c)'
<1>1. AllPending(c)' = AllPending(c)
  BY AllPendingSame
<1> QED BY <1>1 DEF CountedAt

LEMMA OpenCount ==
  ASSUME TypeOK, NEW p \in Peer, NEW d \in Ptr, Open(p, d), NEW c \in Ptr, CountedAt(c)
  PROVE  CountedAt(c)'
<1>1. AllPending(c)' = AllPending(c)
  <2>1. \A s \in Stream : Pending(s, c)' = Pending(s, c)
    BY PendingStays DEF Open, pipes, engines
  <2> QED BY <2>1, AllPendingSame
<1>2. refcount' = refcount /\ readers' = readers /\ state' = [state EXCEPT ![d] = "connected"]
  BY DEF Open
<1>3. state'[c] = state[c] \/ state'[c] = "connected"
  BY <1>2 DEF TypeOK
<1> QED BY <1>1, <1>2, <1>3 DEF CountedAt

LEMMA ReadCount ==
  ASSUME TypeOK, NEW d \in Ptr, NEW r \in Stream, NEW p \in Pattern, StreamRead(d, r, p),
         NEW c \in Ptr, CountedAt(c)
  PROVE  CountedAt(c)'
<1>1. AllPending(c)' = AllPending(c)
  BY ReadPending, AllPendingSame
<1>2. /\ refcount' = [refcount EXCEPT ![d] = @ + 1] /\ refcount \in [Ptr -> Int]
      /\ readers' = [readers EXCEPT ![d] = Append(@, r)] /\ readers \in [Ptr -> Seq(Stream)]
      /\ state' = state /\ state[d] = "connected"
  BY DEF StreamRead, TypeOK, Connected
<1>3. CASE c # d
  BY <1>1, <1>2, <1>3 DEF CountedAt
<1>4. CASE c = d
  <2>1. PICK list \in Seq(Stream) : list = readers[c]
    BY <1>2
  <2>2. Len(Append(list, r)) = Len(list) + 1 /\ Len(list) \in Nat
    BY <2>1
  <2>3. refcount'[c] = refcount[c] + 1 /\ Len(readers'[c]) = Len(readers[c]) + 1
    BY <1>2, <1>4, <2>1, <2>2
  <2>4. Cardinality(AllPending(c)) \in Nat
    BY FS_CardinalityType DEF CountedAt
  <2>5. state'[c] = "connected"
    BY <1>2, <1>4
  <2>6. refcount'[c] = Len(readers'[c]) + Cardinality(AllPending(c))
    <3>1. refcount[c] = Len(readers[c]) + Cardinality(AllPending(c)) /\ Len(readers[c]) \in Nat
      BY <2>1 DEF CountedAt
    <3>2. PICK n \in Nat, k \in Nat : n = Len(readers[c]) /\ k = Cardinality(AllPending(c))
      BY <2>4, <3>1
    <3> QED BY ONLY <2>3, <3>1, <3>2
  <2> QED BY <1>1, <2>5, <2>6 DEF CountedAt
<1> QED BY <1>3, <1>4

LEMMA DropCount ==
  ASSUME TypeOK, NEW d \in Ptr, Drop(d), NEW c \in Ptr, CountedAt(c)
  PROVE  CountedAt(c)'
<1>1. /\ readers' = [readers EXCEPT ![d] = <<>>] /\ readers \in [Ptr -> Seq(Stream)]
      /\ refcount \in [Ptr -> Int] /\ state[d] = "connected" /\ DestroyContext(d)
      /\ state \in [Ptr -> {"free", "connected", "zombie"}]
  BY DEF Drop, TypeOK, Connected
<1>2. CASE c # d
  <2>1. \A s \in Stream : Pending(s, c)' = Pending(s, c) + 0
    BY <1>2, DropPending
  <2>2. \A s \in Stream : Pending(s, c)' = Pending(s, c)
    BY <2>1, PendingSum
  <2>3. refcount'[c] = refcount[c] /\ readers'[c] = readers[c] /\ state'[c] = state[c]
    BY <1>1, <1>2 DEF DestroyContext, Free
  <2> QED BY <2>2, <2>3, QuietCount
<1>3. CASE c = d
  <2>1. \A s \in Stream : Pending(s, c)' = Pending(s, c) + Count(readers[c], {s})
    BY <1>3, DropPending
  <2>2. /\ IsFiniteSet(AllPending(c)')
        /\ Cardinality(AllPending(c)') = Cardinality(AllPending(c)) + Len(readers[c])
    BY <2>1, AllPendingList DEF CountedAt
  <2>3. readers'[c] = <<>> /\ Len(readers'[c]) = 0
    BY <1>1, <1>3
  <2>4. refcount'[c] = refcount[c] /\ (state'[c] = "free" => refcount'[c] = 0)
    BY <1>1, <1>3 DEF DestroyContext, Free
  <2>5. Cardinality(AllPending(c)) \in Nat /\ Len(readers[c]) \in Nat
    BY <1>1, FS_CardinalityType DEF CountedAt
  <2> QED BY <2>2, <2>3, <2>4, <2>5 DEF CountedAt
<1> QED BY <1>2, <1>3

\* The reference of an ACK is put: the context was held, so it is still there.
LEMMA ForwardCount ==
  ASSUME TypeOK, NEW r \in Stream, ForwardTraffic(r), \A d \in Ptr : CountedAt(d), AllCovered(r),
         NEW c \in Ptr
  PROVE  CountedAt(c)' /\ fault' = fault
<1>1. PICK d \in Ptr : d = frompipe[r][1].client /\ 1 \in DOMAIN frompipe[r]
  BY ForwardMoves DEF Relayed
<1>2. state[d] # "free"
  <2>1. d \in Held(r)
    BY <1>1 DEF Held
  <2>2. Counted
    BY DEF Counted
  <2> QED BY <2>1, <2>2, HeldIsThere
<1>3. Head(frompipe[r]) = frompipe[r][1]
  BY TailIsShorter DEF TypeOK, ForwardTraffic
<1>4. /\ OthersStay(r) /\ relaying'[r] = relaying[r] /\ Shorter(frompipe[r], frompipe'[r])
      /\ cmdpipe' = cmdpipe /\ readers' = readers /\ fault' = fault
  BY <1>1, <1>2, ForwardMoves DEF Dropped, Forwarded, ForwardTraffic, contexts
<1>5. \A s \in Stream :
        Pending(s, c)' = Pending(s, c) - (IF s = r /\ AckIn(r, c, 1) THEN 1 ELSE 0)
  BY <1>4, ForwardPending
<1>6. CASE ~ AckIn(r, c, 1)
  <2>1. \A s \in Stream : Pending(s, c)' = Pending(s, c)
    BY <1>5, <1>6, PendingSum
  <2>2. state'[c] = state[c] /\ refcount'[c] = refcount[c]
    <3>1. CASE frompipe[r][1].msg # ACK
      BY <1>1, <1>2, <1>3, <3>1 DEF ForwardTraffic, contexts
    <3>2. CASE frompipe[r][1].msg = ACK
      <4>1. c # d
        BY <1>1, <1>6, <3>2 DEF AckIn
      <4>2. PutClient(d)
        BY <1>1, <1>2, <1>3, <3>2 DEF ForwardTraffic
      <4> QED BY <4>1, <4>2 DEF PutClient, Free, TypeOK
    <3> QED BY <3>1, <3>2
  <2> QED BY <1>4, <2>1, <2>2, QuietCount
<1>7. CASE AckIn(r, c, 1)
  <2>1. c = d /\ PutClient(c)
    BY <1>1, <1>2, <1>3, <1>7 DEF AckIn, ForwardTraffic
  <2>2. Pending(r, c) > 0
    BY <1>1, <1>7, AcksCounted, PendingSum
  <2>3. \A s \in Stream : Pending(s, c)' = Pending(s, c) - (IF s = r THEN 1 ELSE 0)
    BY <1>5, <1>7
  <2>4. /\ IsFiniteSet(AllPending(c)') /\ Cardinality(AllPending(c)') \in Nat
        /\ Cardinality(AllPending(c)) = Cardinality(AllPending(c)') + 1
    BY <2>2, <2>3, AllPendingLess DEF CountedAt
  <2>5. readers'[c] = readers[c] /\ Len(readers[c]) \in Nat
    BY <1>4 DEF TypeOK
  <2>6. refcount'[c] = refcount[c] - 1
    BY <2>1 DEF PutClient, Free, TypeOK
  <2>7. (state'[c] = "free" => refcount'[c] = 0) /\ (state'[c] # "connected" => readers[c] = <<>>)
    BY <1>2, <2>1 DEF PutClient, Free, TypeOK, CountedAt
  <2>8. refcount'[c] = Len(readers'[c]) + Cardinality(AllPending(c)')
    <3>1. refcount[c] = Len(readers[c]) + Cardinality(AllPending(c))
      BY DEF CountedAt
    <3>2. PICK n \in Nat, k \in Nat : n = Len(readers[c]) /\ k = Cardinality(AllPending(c)')
      BY <2>4, <2>5
    <3> QED BY ONLY <2>4, <2>5, <2>6, <3>1, <3>2
  <2> QED BY <1>4, <2>4, <2>5, <2>7, <2>8 DEF CountedAt
<1> QED BY <1>4, <1>6, <1>7

LEMMA CountedStep ==
  ASSUME TypeOK, InPlace, Counted, \A s \in Stream : AllCovered(s), [Next]_vars, cancels' = cancels
  PROVE  Counted'
<1> SUFFICES ASSUME NEW c \in Ptr PROVE CountedAt(c)'
  BY DEF Counted
<1>1. CountedAt(c) /\ \A d \in Ptr : CountedAt(d)
  BY DEF Counted
<1>2. ASSUME \A s \in Stream : Pending(s, c)' = Pending(s, c), UNCHANGED <<refcount, readers, state>>
      PROVE  CountedAt(c)'
  BY <1>1, <1>2, QuietCount
<1>3. ASSUME UNCHANGED <<cmdpipe, frompipe, relaying, refcount, readers, state>>
      PROVE  CountedAt(c)'
  <2>1. \A s \in Stream : Pending(s, c)' = Pending(s, c)
    BY <1>3, PendingStays
  <2> QED BY <1>2, <1>3, <2>1
<1>4. CASE UNCHANGED vars
  BY <1>3, <1>4 DEF vars, contexts, pipes, engines
<1>5. ASSUME NEW p \in Peer, NEW d \in Ptr, Open(p, d) PROVE CountedAt(c)'
  BY <1>1, <1>5, OpenCount DEF Open
<1>6. ASSUME NEW d \in Ptr, NEW s \in Stream, StreamWrite(d, s) PROVE CountedAt(c)'
  BY <1>3, <1>6 DEF StreamWrite, pipes, engines
<1>7. ASSUME NEW d \in Ptr, NEW s \in Stream, StreamCancel(d, s) PROVE FALSE
  BY <1>7 DEF StreamCancel, TypeOK
<1>8. ASSUME NEW d \in Ptr, NEW s \in Stream, NEW p \in Pattern, StreamRead(d, s, p)
      PROVE  CountedAt(c)'
  BY <1>1, <1>8, ReadCount DEF StreamRead
<1>9. ASSUME NEW d \in Ptr, NEW x \in Subject, StreamSend(d, x) PROVE CountedAt(c)'
  BY <1>3, <1>9 DEF StreamSend, contexts, engines
<1>10. ASSUME NEW d \in Ptr, Drop(d) PROVE CountedAt(c)'
  BY <1>1, <1>10, DropCount DEF Drop
<1>11. ASSUME SendCompletes PROVE CountedAt(c)'
  BY <1>3, <1>11 DEF SendCompletes, contexts, engines
<1>12. ASSUME NEW s \in Stream, ForwardTraffic(s) PROVE CountedAt(c)'
  BY <1>1, <1>12, ForwardCount
<1>13. ASSUME NEW s \in Stream, EngineCommand(s) PROVE CountedAt(c)'
  <2>1. UNCHANGED <<refcount, readers, state>>
    BY <1>13 DEF EngineCommand, contexts
  <2> QED BY <1>2, <1>13, <2>1, CommandPending
<1>14. ASSUME NEW s \in Stream, EngineMessage(s) PROVE CountedAt(c)'
  <2>1. UNCHANGED <<refcount, readers, state, cmdpipe>>
    BY <1>14 DEF EngineMessage, contexts
  <2> QED BY <1>2, <1>14, <2>1, MessageMoves, TakenPending
<1>15. ASSUME NEW s \in Stream, Relay(s) PROVE CountedAt(c)'
  <2>1. UNCHANGED <<refcount, readers, state, cmdpipe>>
    BY <1>15 DEF Relay, contexts
  <2>2. PICK sel \in Selector : Sent(s, sel)
    BY <1>15, RelayMoves, TaskTypes
  <2> QED BY <1>2, <2>1, <2>2, SentPending
<1>16. ASSUME NEW s \in Stream, RelayDone(s) PROVE CountedAt(c)'
  <2>1. UNCHANGED <<refcount, readers, state, cmdpipe>>
    BY <1>16 DEF RelayDone, contexts, pipes
  <2> QED BY <1>2, <1>16, <2>1, RelayDoneMoves, FinishedPending
<1> QED BY <1>4, <1>5, <1>6, <1>7, <1>8, <1>9, <1>10, <1>11, <1>12, <1>13, <1>14, <1>15, <1>16
        DEF Next, Server, Engine

\* The server looks through no pointer to freed memory.
LEMMA FaultStays ==
  ASSUME TypeOK, Counted, \A s \in Stream : AllCovered(s), [Next]_vars
  PROVE  fault' = fault
<1>1. ASSUME NEW s \in Stream, ForwardTraffic(s) PROVE fault' = fault
  <2>1. PICK c \in Ptr : c = frompipe[s][1].client
    BY <1>1, ForwardMoves DEF Relayed
  <2> QED BY <1>1, <2>1, ForwardCount DEF Counted
<1>2. ASSUME NEW s \in Stream, Engine(s) PROVE fault' = fault
  BY <1>2 DEF Engine, EngineCommand, EngineMessage, Relay, RelayDone
<1>3. CASE UNCHANGED vars
  BY <1>3 DEF vars
<1>4. CASE Server
  BY <1>4 DEF Server, Open, StreamWrite, StreamCancel, StreamRead, StreamSend, Drop, SendCompletes
<1> QED BY <1>1, <1>2, <1>3, <1>4 DEF Next

\* STREAM CANCEL is counted, so that before the first there was none.
LEMMA CancelsGrow ==
  ASSUME TypeOK, [Next]_vars
  PROVE  cancels' = cancels \/ cancels' # 0
<1>1. ASSUME NEW c \in Ptr, NEW s \in Stream, StreamCancel(c, s) PROVE cancels' # 0
  BY <1>1 DEF StreamCancel, TypeOK
<1>2. CASE UNCHANGED vars
  BY <1>2 DEF vars, counters
<1>3. ASSUME \/ \E c \in Ptr, s \in Stream : StreamWrite(c, s)
             \/ \E c \in Ptr, s \in Stream, p \in Pattern : StreamRead(c, s, p)
      PROVE  cancels' = cancels
  BY <1>3 DEF StreamWrite, StreamRead, counters
<1>4. ASSUME \/ \E p \in Peer, c \in Ptr : Open(p, c)
             \/ \E c \in Ptr, x \in Subject : StreamSend(c, x)
             \/ \E c \in Ptr : Drop(c)
      PROVE  cancels' = cancels
  BY <1>4 DEF StreamSend, Drop, Open, counters
<1>5. ASSUME SendCompletes \/ \E s \in Stream : ForwardTraffic(s) \/ Engine(s)
      PROVE  cancels' = cancels
  BY <1>5 DEF SendCompletes, ForwardTraffic, Engine, EngineCommand, EngineMessage, Relay, RelayDone, counters
<1> QED BY <1>1, <1>2, <1>3, <1>4, <1>5 DEF Next, Server

RefsInv == cancels = 0 => ~ fault /\ Counted /\ \A s \in Stream : AllCovered(s)

LEMMA RefsInit == Init => RefsInv
<1> SUFFICES ASSUME Init PROVE RefsInv
  OBVIOUS
<1>1. ~ fault
  BY DEF Init
<1>2. ASSUME NEW s \in Stream PROVE AllCovered(s)
  BY DEF Init, AllCovered, SelectorsCovered, CommandsCovered, TaskCovered, RelayedCovered
<1>3. ASSUME NEW c \in Ptr PROVE CountedAt(c)
  <2>1. refcount[c] = 0 /\ readers[c] = <<>>
    BY DEF Init
  <2>2. ASSUME NEW s \in Stream PROVE Pending(s, c) = 0
    <3>1. cmdpipe[s] = <<>> /\ frompipe[s] = <<>> /\ relaying[s] = NoTask
      BY DEF Init
    <3>2. Count(<<>>, {Cancel(c)}) = 0 /\ Count(<<>>, {[client |-> c, msg |-> ACK]}) = 0
      BY CountEmpty
    <3> QED BY <3>1, <3>2 DEF Pending
  <2>3. AllPending(c) = {}
    BY <2>2 DEF AllPending
  <2> QED BY <2>1, <2>3, FS_EmptySet DEF CountedAt
<1> QED BY <1>1, <1>2, <1>3 DEF RefsInv, Counted

\* The part about references, as long as nobody sends STREAM CANCEL: behind
\* whatever an engine knows of a client there is an ACK to come, for which the
\* client still holds a reference (engine_client_get, engine_client_put).
THEOREM RefsCorrect == Spec => []RefsInv
<1>1. TypeOK /\ InPlace /\ RefsInv /\ [Next]_vars => RefsInv'
  <2> SUFFICES ASSUME TypeOK, InPlace, RefsInv, [Next]_vars, cancels' = 0
               PROVE  ~ fault' /\ Counted' /\ \A s \in Stream : AllCovered(s)'
    BY DEF RefsInv
  <2>1. cancels' = cancels /\ cancels = 0
    BY CancelsGrow
  <2>2. ~ fault /\ Counted /\ \A s \in Stream : AllCovered(s)
    BY <2>1 DEF RefsInv
  <2> QED BY <2>1, <2>2, CountedStep, CoveredStep, FaultStays
<1> QED BY <1>1, RefsInit, MessagesCorrect, PTL DEF Spec, MessagesInv

\* As long as nobody sends STREAM CANCEL, no engine holds the address of a
\* context that was freed, and the server looks through none.
THEOREM NoDanglingHolds == Spec => [](cancels = 0 => NoDangling)
<1>1. TypeOK /\ RefsInv => (cancels = 0 => NoDangling)
  BY HeldIsThere, HeldTypes DEF RefsInv, NoDangling
<1> QED BY <1>1, MessagesCorrect, RefsCorrect, PTL DEF MessagesInv

\* As long as nobody sends STREAM CANCEL, the reference count of a context is
\* the number of its READs that no ACK took back.
THEOREM RefsExactHolds == Spec => [](cancels = 0 => RefsExact)
<1>1. RefsInv => (cancels = 0 => RefsExact)
  BY DEF RefsInv, Counted, CountedAt, RefsExact
<1> QED BY <1>1, RefsCorrect, PTL

-----------------------------------------------------------------------------
\* Contexts have numbers of their own

\* What a step may do to the numbers of the contexts.
LivesMove ==
  \/ /\ UNCHANGED <<life, opens>>
     /\ \A c \in Ptr : /\ state'[c] = "free" <=> state[c] = "free"
                       /\ state'[c] = "connected" => state[c] = "connected"
  \/ /\ opens' = opens
     /\ \E c \in Ptr : /\ life' = [life EXCEPT ![c] = 0] /\ state' = [state EXCEPT ![c] = "free"]
  \/ /\ opens' = opens + 1
     /\ \E c \in Ptr : /\ state[c] = "free"
                       /\ life' = [life EXCEPT ![c] = opens + 1]
                       /\ state' = [state EXCEPT ![c] = "connected"]

LEMMA StepLives ==
  ASSUME TypeOK, [Next]_vars
  PROVE  LivesMove
<1>0. ASSUME UNCHANGED <<life, opens, state>> PROVE LivesMove
  BY <1>0 DEF LivesMove
<1>1. CASE UNCHANGED vars
  BY <1>0, <1>1 DEF vars, contexts, counters
<1>2. ASSUME NEW p \in Peer, NEW c \in Ptr, Open(p, c) PROVE LivesMove
  BY <1>2 DEF Open, LivesMove
<1>3. ASSUME NEW c \in Ptr, NEW s \in Stream, StreamWrite(c, s) \/ StreamCancel(c, s) PROVE LivesMove
  BY <1>0, <1>3 DEF StreamWrite, StreamCancel, counters
<1>4. ASSUME NEW c \in Ptr, NEW s \in Stream, NEW p \in Pattern, StreamRead(c, s, p) PROVE LivesMove
  BY <1>0, <1>4 DEF StreamRead, counters
<1>5. ASSUME NEW c \in Ptr, NEW x \in Subject, StreamSend(c, x) PROVE LivesMove
  BY <1>0, <1>5 DEF StreamSend, counters, contexts
<1>6. ASSUME NEW c \in Ptr, Drop(c) PROVE LivesMove
  <2>1. opens' = opens /\ DestroyContext(c) /\ state[c] = "connected"
    BY <1>6 DEF Drop, Connected
  <2>2. CASE refcount[c] = 0
    BY <2>1, <2>2 DEF DestroyContext, Free, LivesMove
  <2>3. CASE refcount[c] # 0
    <3>1. state' = [state EXCEPT ![c] = "zombie"] /\ life' = life
      BY <2>1, <2>3 DEF DestroyContext
    <3>2. \A d \in Ptr : /\ state'[d] = "free" <=> state[d] = "free"
                         /\ state'[d] = "connected" => state[d] = "connected"
      BY <2>1, <3>1 DEF TypeOK
    <3> QED BY <2>1, <3>1, <3>2 DEF LivesMove
  <2> QED BY <2>2, <2>3
<1>7. ASSUME SendCompletes PROVE LivesMove
  BY <1>0, <1>7 DEF SendCompletes, counters, contexts
<1>8. ASSUME NEW s \in Stream, ForwardTraffic(s) PROVE LivesMove
  <2>1. PICK c \in Ptr : c = Head(frompipe[s]).client
    <3>1. frompipe[s] \in Seq(Relayed) /\ frompipe[s] # <<>>
      BY <1>8 DEF ForwardTraffic, TypeOK
    <3>2. Head(frompipe[s]) \in Relayed
      BY <3>1
    <3> QED BY <3>2 DEF Relayed
  <2>2. opens' = opens
    BY <1>8 DEF ForwardTraffic
  <2>3. UNCHANGED <<life, state>> \/ PutClient(c)
    BY <1>8, <2>1 DEF ForwardTraffic, contexts
  <2>4. CASE PutClient(c)
    BY <1>0, <2>2, <2>4 DEF PutClient, Free, LivesMove
  <2> QED BY <1>0, <2>2, <2>3, <2>4
<1>9. ASSUME NEW s \in Stream, Engine(s) PROVE LivesMove
  BY <1>0, <1>9 DEF Engine, EngineCommand, EngineMessage, Relay, RelayDone, contexts, counters
<1> QED BY <1>1, <1>2, <1>3, <1>4, <1>5, <1>6, <1>7, <1>8, <1>9 DEF Next, Server

\* No context gets a number that another one has or had.
LEMMA LivesKept ==
  ASSUME TypeOK, LivesApart, LivesMove
  PROVE  /\ \A c \in Ptr : life'[c] <= opens' /\ (state'[c] = "free" <=> life'[c] = 0)
         /\ \A c, d \in Ptr : life'[c] = life'[d] /\ life'[c] # 0 => c = d
         /\ opens <= opens'
         /\ \A n \in 1 .. opens, c \in Ptr : life'[c] = n => life[c] = n
<1> USE DEF TypeOK, LivesApart
<1>1. CASE /\ UNCHANGED <<life, opens>>
           /\ \A c \in Ptr : state'[c] = "free" <=> state[c] = "free"
  BY <1>1
<1>2. ASSUME NEW c \in Ptr, opens' = opens, life' = [life EXCEPT ![c] = 0],
             state' = [state EXCEPT ![c] = "free"]
      PROVE  /\ \A d \in Ptr : life'[d] <= opens' /\ (state'[d] = "free" <=> life'[d] = 0)
             /\ \A d, e \in Ptr : life'[d] = life'[e] /\ life'[d] # 0 => d = e
             /\ opens <= opens'
             /\ \A n \in 1 .. opens, d \in Ptr : life'[d] = n => life[d] = n
  BY <1>2
<1>3. ASSUME NEW c \in Ptr, opens' = opens + 1, life' = [life EXCEPT ![c] = opens + 1],
             state' = [state EXCEPT ![c] = "connected"]
      PROVE  /\ \A d \in Ptr : life'[d] <= opens' /\ (state'[d] = "free" <=> life'[d] = 0)
             /\ \A d, e \in Ptr : life'[d] = life'[e] /\ life'[d] # 0 => d = e
             /\ opens <= opens'
             /\ \A n \in 1 .. opens, d \in Ptr : life'[d] = n => life[d] = n
  <2>1. \A d \in Ptr : life'[d] = IF d = c THEN opens + 1 ELSE life[d]
    BY <1>3
  <2>2. \A d \in Ptr : state'[d] = IF d = c THEN "connected" ELSE state[d]
    BY <1>3
  <2>3. \A d \in Ptr : life[d] \in Nat /\ life[d] <= opens /\ opens \in Nat
    OBVIOUS
  <2>4. \A d \in Ptr : life'[d] <= opens' /\ (state'[d] = "free" <=> life'[d] = 0)
    BY <1>3, <2>1, <2>2, <2>3
  <2>5. \A d, e \in Ptr : life'[d] = life'[e] /\ life'[d] # 0 => d = e
    BY <1>3, <2>1, <2>3
  <2>6. \A n \in 1 .. opens, d \in Ptr : life'[d] = n => life[d] = n
    BY <1>3, <2>1, <2>3
  <2> QED BY <1>3, <2>3, <2>4, <2>5, <2>6
<1> QED BY <1>1, <1>2, <1>3 DEF LivesMove

\* Subscriptions and deliveries that are due bear the numbers of contexts.
LEMMA LivesStep ==
  ASSUME TypeOK, LivesApart, [Next]_vars
  PROVE  LivesApart'
<1>1. LivesMove /\ MessagesMove
  BY StepLives, StepMoves
<1>2. opens \in Nat /\ opens' \in Nat /\ opens <= opens'
  BY <1>1, LivesKept DEF LivesMove, TypeOK
<1>3. \A c \in Ptr : state[c] = "connected" => life[c] \in 1 .. opens
  BY DEF TypeOK, LivesApart
<1>4. \A n \in 1 .. opens : n \in 1 .. opens'
  BY <1>2
<1>5. \A sub \in asked' : sub.to \in 1 .. opens
  <2>1. asked' \subseteq asked \/ \E c \in Ptr, s \in Stream, p \in Pattern : StreamRead(c, s, p)
    BY DEF Next, Server, Open, StreamWrite, StreamCancel, StreamSend, Drop, SendCompletes,
           ForwardTraffic, Engine, EngineCommand, EngineMessage, Relay, RelayDone, vars, history
  <2>2. ASSUME NEW c \in Ptr, NEW s \in Stream, NEW p \in Pattern, StreamRead(c, s, p)
        PROVE  \A sub \in asked' : sub \in asked \/ sub.to \in 1 .. opens
    <3>1. asked' = asked \cup {[to |-> life[c], stream |-> s, pattern |-> p]} /\ state[c] = "connected"
      BY <2>2 DEF StreamRead, Connected
    <3> QED BY <1>3, <3>1
  <2> QED BY <2>1, <2>2 DEF LivesApart
<1>6. \A due \in expected' : due.to \in 1 .. opens
  <2>1. expected' \subseteq expected \/ \E c \in Ptr, x \in Subject : StreamSend(c, x)
    BY DEF Next, Server, Open, StreamWrite, StreamCancel, StreamRead, Drop, SendCompletes,
           ForwardTraffic, Engine, EngineCommand, EngineMessage, Relay, RelayDone, vars, history
  <2>2. ASSUME NEW c \in Ptr, NEW x \in Subject, StreamSend(c, x)
        PROVE  \A due \in expected' : due \in expected \/ \E sub \in asked : due.to = sub.to
    BY <2>2 DEF StreamSend, Due
  <2> QED BY <2>1, <2>2 DEF LivesApart
<1>7. \A m \in Message' : log'[m].from \in 1 .. opens
  <2>1. ASSUME NEW m \in Message', m \notin Message PROVE log'[m].from \in 1 .. opens
    <3>1. PICK s \in Stream, c \in Ptr, x \in Subject : Published(s, c, x)
      <4>1. log' # log
        BY <2>1 DEF Message
      <4> QED BY <1>1, <4>1 DEF MessagesMove, MessagesStay, Completed, Dropped, Forwarded, AckStarted,
                               Taken, Sent, Finished
    <3>2. m = Len(log) + 1 /\ log'[m].from = life[c] /\ state[c] = "connected"
      BY <2>1, <3>1 DEF Published, Longer, Message
    <3> QED BY <1>3, <3>2
  <2> QED BY <1>1, <2>1, LogGrows DEF LivesApart
<1> QED BY <1>1, <1>4, <1>5, <1>6, <1>7, LivesKept DEF LivesApart

-----------------------------------------------------------------------------
\* Where messages come from

LEMMA PipeOrigin ==
  ASSUME TypeOK, MessagesMove, NEW t \in Stream, NEW i \in DOMAIN topipe'[t]
  PROVE  \/ \E k \in DOMAIN topipe[t] : topipe'[t][i] = topipe[t][k]
         \/ blocked # NoTask /\ blocked.stream = t /\ topipe'[t][i] = blocked.item
         \/ \E c \in Ptr, x \in Subject :
              Published(t, c, x) /\ topipe'[t][i] = [sender |-> c, msg |-> Len(log) + 1]
<1>1. ASSUME topipe'[t] = topipe[t] PROVE \E k \in DOMAIN topipe[t] : topipe'[t][i] = topipe[t][k]
  BY <1>1
<1>2. ASSUME NEW s \in Stream, NEW c \in Ptr, NEW x \in Subject, Published(s, c, x), topipe'[t] # topipe[t]
      PROVE  \/ \E k \in DOMAIN topipe[t] : topipe'[t][i] = topipe[t][k]
             \/ Published(t, c, x) /\ topipe'[t][i] = [sender |-> c, msg |-> Len(log) + 1]
  <2>1. s = t /\ Longer(topipe[t], topipe'[t], [sender |-> c, msg |-> Len(log) + 1])
    BY <1>2 DEF Published, OthersStay
  <2> QED BY <1>2, <2>1, LongerEntries
<1>3. ASSUME NEW s \in Stream, Completed(s), topipe'[t] # topipe[t]
      PROVE  \/ \E k \in DOMAIN topipe[t] : topipe'[t][i] = topipe[t][k]
             \/ blocked # NoTask /\ blocked.stream = t /\ topipe'[t][i] = blocked.item
  <2>1. s = t /\ Longer(topipe[t], topipe'[t], blocked.item) /\ blocked # NoTask /\ blocked.stream = t
    BY <1>3 DEF Completed, OthersStay
  <2> QED BY <2>1, LongerEntries
<1>4. ASSUME NEW s \in Stream, Taken(s), topipe'[t] # topipe[t]
      PROVE  \E k \in DOMAIN topipe[t] : topipe'[t][i] = topipe[t][k]
  <2>1. Shorter(topipe[t], topipe'[t])
    BY <1>4 DEF Taken, OthersStay
  <2> QED BY <2>1, ShorterEntries
<1>5. ASSUME \/ MessagesStay
             \/ \E s \in Stream : \/ Dropped(s) \/ Forwarded(s) \/ AckStarted(s) \/ Finished(s)
                                  \/ \E sel \in Selector : Sent(s, sel)
      PROVE  topipe'[t] = topipe[t]
  BY <1>5 DEF MessagesStay, Dropped, Forwarded, AckStarted, Finished, Sent, OthersStay
<1> QED BY <1>1, <1>2, <1>3, <1>4, <1>5 DEF MessagesMove

LEMMA BlockedOrigin ==
  ASSUME TypeOK, MessagesMove, blocked' # NoTask
  PROVE  \/ blocked # NoTask /\ blocked' = blocked
         \/ \E s \in Stream, c \in Ptr, x \in Subject :
              Published(s, c, x) /\ blocked'.item = [sender |-> c, msg |-> Len(log) + 1]
<1>1. CASE blocked' = blocked
  BY <1>1
<1>2. CASE blocked' # blocked
  <2>1. PICK s \in Stream, c \in Ptr, x \in Subject : Published(s, c, x)
    BY <1>2 DEF MessagesMove, MessagesStay, Completed, Dropped, Forwarded, AckStarted, Taken, Finished, Sent
  <2>2. blocked'.item = [sender |-> c, msg |-> Len(log) + 1]
    BY <2>1 DEF Published
  <2> QED BY <2>1, <2>2
<1> QED BY <1>1, <1>2

LEMMA TaskOrigin ==
  ASSUME TypeOK, MessagesMove, NEW t \in Stream, relaying'[t] # NoTask, relaying'[t].msg # ACK
  PROVE  \/ /\ relaying[t] # NoTask /\ relaying'[t].msg = relaying[t].msg
            /\ relaying'[t].todo \subseteq relaying[t].todo
         \/ Taken(t)
<1>1. CASE relaying'[t] = relaying[t]
  BY <1>1
<1>2. CASE relaying'[t] # relaying[t]
  <2>1. AckStarted(t) \/ Taken(t) \/ Finished(t) \/ \E sel \in Selector : Sent(t, sel)
    BY <1>2, MovesAt DEF Published, Completed, Dropped, Forwarded
  <2> QED BY <2>1 DEF AckStarted, Finished, Sent
<1> QED BY <1>1, <1>2

LEMMA ItemOrigin ==
  ASSUME TypeOK, MessagesMove, NEW t \in Stream, NEW i \in DOMAIN frompipe'[t]
  PROVE  \/ \E k \in DOMAIN frompipe[t] : frompipe'[t][i] = frompipe[t][k]
         \/ /\ relaying[t] # NoTask
            /\ \E sel \in relaying[t].todo :
                 frompipe'[t][i] = [client |-> sel[2], msg |-> relaying[t].msg]
<1>1. CASE frompipe'[t] = frompipe[t]
  BY <1>1
<1>2. CASE frompipe'[t] # frompipe[t]
  <2>1. Dropped(t) \/ Forwarded(t) \/ \E sel \in Selector : Sent(t, sel)
    BY <1>2, MovesAt DEF Published, Completed, AckStarted, Taken, Finished
  <2>2. ASSUME Shorter(frompipe[t], frompipe'[t])
        PROVE  \E k \in DOMAIN frompipe[t] : frompipe'[t][i] = frompipe[t][k]
    BY <2>2, ShorterEntries
  <2>3. ASSUME NEW sel \in Selector, Sent(t, sel)
        PROVE  \/ \E k \in DOMAIN frompipe[t] : frompipe'[t][i] = frompipe[t][k]
               \/ /\ relaying[t] # NoTask /\ sel \in relaying[t].todo
                  /\ frompipe'[t][i] = [client |-> sel[2], msg |-> relaying[t].msg]
    <3>1. /\ Longer(frompipe[t], frompipe'[t], [client |-> sel[2], msg |-> relaying[t].msg])
          /\ relaying[t] # NoTask /\ sel \in relaying[t].todo
      BY <2>3 DEF Sent
    <3> QED BY <3>1, LongerEntries
  <2> QED BY <2>1, <2>2, <2>3 DEF Dropped, Forwarded
<1> QED BY <1>1, <1>2

LEMMA DeliveryOrigin ==
  ASSUME TypeOK, MessagesMove, NEW i \in DOMAIN delivered'
  PROVE  \/ i \in DOMAIN delivered /\ delivered'[i] = delivered[i]
         \/ \E s \in Stream :
              /\ 1 \in DOMAIN frompipe[s] /\ frompipe[s][1].msg # ACK
              /\ delivered'[i] = [to |-> life[frompipe[s][1].client], msg |-> frompipe[s][1].msg]
<1>1. CASE delivered' = delivered
  BY <1>1
<1>2. CASE delivered' # delivered
  <2>1. PICK s \in Stream : Forwarded(s) /\ frompipe[s][1].msg # ACK
    BY <1>2 DEF MessagesMove, MessagesStay, Published, Completed, Dropped, AckStarted, Taken, Finished, Sent
  <2>2. 1 \in DOMAIN frompipe[s]
    BY <2>1, ShorterEntries DEF Forwarded
  <2>3. PICK d : d = [to |-> life[frompipe[s][1].client], msg |-> frompipe[s][1].msg]
    OBVIOUS
  <2>4. Longer(delivered, delivered', d)
    BY <1>2, <2>1, <2>3 DEF Forwarded
  <2>5. (i \in DOMAIN delivered /\ delivered'[i] = delivered[i]) \/ delivered'[i] = d
    BY <2>4, LongerEntries
  <2> QED BY <2>1, <2>2, <2>3, <2>5
<1> QED BY <1>1, <1>2

-----------------------------------------------------------------------------
\* Nobody is handed what it published itself

LEMMA NoEchoStep ==
  ASSUME TypeOK, InPlace, LivesApart, NoEcho, MessagesMove, LivesMove
  PROVE  NoEcho'
<1>1. ASSUME NEW m \in Message, NEW d \in Ptr, life'[d] = log'[m].from
      PROVE  life[d] = log[m].from
  BY <1>1, LogGrows, LivesKept DEF LivesApart
<1>2. ASSUME NEW s \in Stream, NEW c \in Ptr, NEW x \in Subject, Published(s, c, x), NEW d \in Ptr,
             NEW m, m = Len(log) + 1, life'[d] = log'[m].from
      PROVE  d = c
  <2>1. life'[d] = life[d] /\ log'[m].from = life[c] /\ state[c] = "connected"
    BY <1>2 DEF Published, Longer
  <2> QED BY <1>2, <2>1 DEF LivesApart
<1>3. \A s \in Stream : \A m : OfStream(s, m) => m \in Message
  BY DEF OfStream, Holds, Message
<1>4. ASSUME NEW t \in Stream PROVE QuietPipe(t)'
  <2> SUFFICES ASSUME NEW i \in DOMAIN topipe'[t], NEW d \in Ptr,
                      life'[d] = log'[topipe'[t][i].msg].from
               PROVE  d = topipe'[t][i].sender
    BY DEF QuietPipe
  <2>1. PICK m : m = topipe'[t][i].msg
    OBVIOUS
  <2>2. ASSUME NEW k \in DOMAIN topipe[t], topipe'[t][i] = topipe[t][k] PROVE d = topipe'[t][i].sender
    <3>1. m \in Message
      BY <1>3, <2>1, <2>2 DEF InPlace, Stand
    <3>2. life[d] = log[m].from
      BY <1>1, <2>1, <3>1
    <3> QED BY <2>1, <2>2, <3>2 DEF NoEcho, QuietPipe
  <2>3. CASE blocked # NoTask /\ blocked.stream = t /\ topipe'[t][i] = blocked.item
    <3>1. m \in Message
      BY <1>3, <2>1, <2>3 DEF InPlace
    <3>2. life[d] = log[m].from
      BY <1>1, <2>1, <3>1
    <3> QED BY <2>1, <2>3, <3>2 DEF NoEcho, QuietBlocked
  <2>4. ASSUME NEW c \in Ptr, NEW x \in Subject, Published(t, c, x),
               topipe'[t][i] = [sender |-> c, msg |-> Len(log) + 1]
        PROVE  d = topipe'[t][i].sender
    BY <1>2, <2>4
  <2> QED BY <2>2, <2>3, <2>4, PipeOrigin
<1>5. QuietBlocked'
  <2> SUFFICES ASSUME blocked' # NoTask, NEW d \in Ptr, life'[d] = log'[blocked'.item.msg].from
               PROVE  d = blocked'.item.sender
    BY DEF QuietBlocked
  <2>1. PICK m : m = blocked'.item.msg
    OBVIOUS
  <2>2. CASE blocked # NoTask /\ blocked' = blocked
    <3>1. m \in Message
      BY <1>3, <2>1, <2>2 DEF InPlace, TypeOK, Waiting
    <3>2. life[d] = log[m].from
      BY <1>1, <2>1, <3>1
    <3> QED BY <2>1, <2>2, <3>2 DEF NoEcho, QuietBlocked
  <2>3. ASSUME NEW s \in Stream, NEW c \in Ptr, NEW x \in Subject, Published(s, c, x),
               blocked'.item = [sender |-> c, msg |-> Len(log) + 1]
        PROVE  d = blocked'.item.sender
    BY <1>2, <2>3
  <2> QED BY <2>2, <2>3, BlockedOrigin
<1>6. ASSUME NEW t \in Stream PROVE QuietTask(t)'
  <2> SUFFICES ASSUME relaying'[t] # NoTask, relaying'[t].msg # ACK, NEW sel \in relaying'[t].todo,
                      life'[sel[2]] = log'[relaying'[t].msg].from
               PROVE  FALSE
    BY DEF QuietTask
  <2>1. PICK m : m = relaying'[t].msg
    OBVIOUS
  <2>2. CASE /\ relaying[t] # NoTask /\ relaying'[t].msg = relaying[t].msg
             /\ relaying'[t].todo \subseteq relaying[t].todo
    <3>1. m \in Message /\ sel[2] \in Ptr /\ sel \in relaying[t].todo
      BY <1>3, <2>1, <2>2, TaskTypes DEF InPlace, Stand
    <3>2. life[sel[2]] = log[m].from
      BY <1>1, <2>1, <3>1
    <3> QED BY <2>1, <2>2, <3>1, <3>2 DEF NoEcho, QuietTask
  <2>3. CASE Taken(t)
    <3>1. 1 \in DOMAIN topipe[t] /\ m = topipe[t][1].msg
      BY <2>1, <2>3, ShorterEntries DEF Taken
    <3>2. m \in Message
      BY <1>3, <3>1 DEF InPlace, Stand
    <3>3. sel \in selectors[t] /\ sel[2] # topipe[t][1].sender
      BY <2>3 DEF Taken, Matching
    <3>4. sel[2] \in Ptr
      BY <3>3 DEF TypeOK, Selector
    <3>5. life[sel[2]] = log[m].from
      BY <1>1, <2>1, <3>2, <3>4
    <3> QED BY <3>1, <3>3, <3>4, <3>5 DEF NoEcho, QuietPipe
  <2> QED BY <2>2, <2>3, TaskOrigin
<1>7. ASSUME NEW t \in Stream PROVE QuietItems(t)'
  <2> SUFFICES ASSUME NEW i \in DOMAIN frompipe'[t], frompipe'[t][i].msg # ACK,
                      life'[frompipe'[t][i].client] = log'[frompipe'[t][i].msg].from
               PROVE  FALSE
    BY DEF QuietItems
  <2>1. PICK m, d : m = frompipe'[t][i].msg /\ d = frompipe'[t][i].client
    OBVIOUS
  <2>2. ASSUME NEW k \in DOMAIN frompipe[t], frompipe'[t][i] = frompipe[t][k] PROVE FALSE
    <3>1. m \in Message /\ d \in Ptr
      <4>1. frompipe[t] \in Seq(Relayed)
        BY DEF TypeOK
      <4>2. frompipe[t][k] \in Relayed
        BY <4>1
      <4> QED BY <1>3, <2>1, <2>2, <4>2 DEF InPlace, Stand, Relayed
    <3>2. life[d] = log[m].from
      BY <1>1, <2>1, <3>1
    <3> QED BY <2>1, <2>2, <3>2 DEF NoEcho, QuietItems
  <2>3. ASSUME relaying[t] # NoTask, NEW sel \in relaying[t].todo,
               frompipe'[t][i] = [client |-> sel[2], msg |-> relaying[t].msg]
        PROVE  FALSE
    <3>1. m = relaying[t].msg /\ d = sel[2] /\ d \in Ptr /\ m # ACK
      BY <2>1, <2>3, TaskTypes
    <3>2. m \in Message
      BY <1>3, <2>3, <3>1 DEF InPlace, Stand
    <3>3. life[d] = log[m].from
      BY <1>1, <2>1, <3>1, <3>2
    <3> QED BY <2>3, <3>1, <3>3 DEF NoEcho, QuietTask
  <2> QED BY <2>2, <2>3, ItemOrigin
<1>8. QuietDeliveries'
  <2> SUFFICES ASSUME NEW i \in DOMAIN delivered', log'[delivered'[i].msg].from = delivered'[i].to
               PROVE  FALSE
    BY DEF QuietDeliveries
  <2>1. CASE i \in DOMAIN delivered /\ delivered'[i] = delivered[i]
    <3>1. PICK m : m = delivered[i].msg
      OBVIOUS
    <3>2. m \in Message /\ log'[m].from = log[m].from
      BY <2>1, <3>1, LogGrows DEF InPlace
    <3> QED BY <2>1, <3>1, <3>2 DEF NoEcho, QuietDeliveries
  <2>2. ASSUME NEW s \in Stream, 1 \in DOMAIN frompipe[s], frompipe[s][1].msg # ACK,
               delivered'[i] = [to |-> life[frompipe[s][1].client], msg |-> frompipe[s][1].msg]
        PROVE  FALSE
    <3>1. PICK m : m = frompipe[s][1].msg
      OBVIOUS
    <3>2. m \in Message
      BY <1>3, <2>2, <3>1 DEF InPlace, Stand
    <3>3. log'[m].from = log[m].from
      BY <3>2, LogGrows
    <3> QED BY <2>2, <3>1, <3>3 DEF NoEcho, QuietItems
  <2> QED BY <2>1, <2>2, DeliveryOrigin
<1> QED BY <1>4, <1>5, <1>6, <1>7, <1>8 DEF NoEcho

-----------------------------------------------------------------------------
\* Nobody is handed what it did not ask for

LEMMA CommandOrigin ==
  ASSUME TypeOK, [Next]_vars, NEW t \in Stream, NEW i \in DOMAIN cmdpipe'[t],
         cmdpipe'[t][i].method = "COMPILE"
  PROVE  \/ \E k \in DOMAIN cmdpipe[t] : cmdpipe'[t][i] = cmdpipe[t][k]
         \/ \E c \in Ptr, p \in Pattern :
              /\ StreamRead(c, t, p)
              /\ cmdpipe'[t][i] = [method |-> "COMPILE", client |-> c, pattern |-> p]
<1>0. cmdpipe \in [Stream -> Seq(Command)] /\ cmdpipe[t] \in Seq(Command)
  BY DEF TypeOK
<1>1. ASSUME cmdpipe'[t] = cmdpipe[t] PROVE \E k \in DOMAIN cmdpipe[t] : cmdpipe'[t][i] = cmdpipe[t][k]
  BY <1>1
<1>2. ASSUME NEW cmd \in Command, cmdpipe'[t] = Append(cmdpipe[t], cmd)
      PROVE  (\E k \in DOMAIN cmdpipe[t] : cmdpipe'[t][i] = cmdpipe[t][k]) \/ cmdpipe'[t][i] = cmd
  <2>1. Longer(cmdpipe[t], cmdpipe'[t], cmd)
    BY <1>0, <1>2, AppendIsLonger
  <2> QED BY <2>1, LongerEntries
<1>3. ASSUME NEW c \in Ptr, NEW s \in Stream, NEW p \in Pattern, StreamRead(c, s, p), cmdpipe'[t] # cmdpipe[t]
      PROVE  \/ \E k \in DOMAIN cmdpipe[t] : cmdpipe'[t][i] = cmdpipe[t][k]
             \/ /\ StreamRead(c, t, p)
                /\ cmdpipe'[t][i] = [method |-> "COMPILE", client |-> c, pattern |-> p]
  <2>1. PICK cmd : cmd = [method |-> "COMPILE", client |-> c, pattern |-> p]
    OBVIOUS
  <2>2. cmd \in Command
    BY <2>1, PatternAssumption DEF Command
  <2>3. cmdpipe' = [cmdpipe EXCEPT ![s] = Append(@, cmd)]
    BY <1>3, <2>1 DEF StreamRead
  <2>4. s = t /\ cmdpipe'[t] = Append(cmdpipe[t], cmd)
    BY <1>0, <1>3, <2>3
  <2> QED BY <1>2, <1>3, <2>1, <2>2, <2>4
<1>4. ASSUME NEW c \in Ptr, NEW s \in Stream, StreamCancel(c, s), cmdpipe'[t] # cmdpipe[t]
      PROVE  \E k \in DOMAIN cmdpipe[t] : cmdpipe'[t][i] = cmdpipe[t][k]
  <2>1. PICK cmd : cmd = Cancel(c)
    OBVIOUS
  <2>2. cmd \in Command /\ cmd.method = "CANCEL"
    BY <2>1, CancelTypes DEF Cancel
  <2>3. cmdpipe' = [cmdpipe EXCEPT ![s] = Append(@, cmd)]
    BY <1>4, <2>1 DEF StreamCancel
  <2>4. s = t /\ cmdpipe'[t] = Append(cmdpipe[t], cmd)
    BY <1>0, <1>4, <2>3
  <2> QED BY <1>2, <2>2, <2>4
<1>5. ASSUME NEW c \in Ptr, Drop(c)
      PROVE  \E k \in DOMAIN cmdpipe[t] : cmdpipe'[t][i] = cmdpipe[t][k]
  <2>1. cmdpipe' = CancelReaders(c)
    BY <1>5 DEF Drop
  <2>2. CASE i \in DOMAIN cmdpipe[t]
    BY <2>1, <2>2, CancelReadersPipe
  <2>3. CASE i \notin DOMAIN cmdpipe[t]
    <3>1. cmdpipe'[t][i] = Cancel(c)
      BY <2>1, <2>3, CancelReadersPipe
    <3>2. Cancel(c).method = "CANCEL"
      BY DEF Cancel
    <3> QED BY <3>1, <3>2
  <2> QED BY <2>2, <2>3
<1>6. ASSUME NEW s \in Stream, EngineCommand(s), cmdpipe'[t] # cmdpipe[t]
      PROVE  \E k \in DOMAIN cmdpipe[t] : cmdpipe'[t][i] = cmdpipe[t][k]
  <2>1. s = t /\ cmdpipe'[t] = Tail(cmdpipe[t]) /\ cmdpipe[t] # <<>>
    BY <1>0, <1>6 DEF EngineCommand
  <2>2. Shorter(cmdpipe[t], cmdpipe'[t])
    BY <1>0, <2>1, TailIsShorter
  <2> QED BY <2>2, ShorterEntries
<1>7. \/ cmdpipe' = cmdpipe
      \/ \E c \in Ptr, s \in Stream, p \in Pattern : StreamRead(c, s, p)
      \/ \E c \in Ptr, s \in Stream : StreamCancel(c, s)
      \/ \E c \in Ptr : Drop(c)
      \/ \E s \in Stream : EngineCommand(s)
  BY DEF Next, Server, Open, StreamWrite, StreamSend, SendCompletes,
         ForwardTraffic, Engine, EngineMessage, Relay, RelayDone, vars, pipes
<1> QED BY <1>1, <1>3, <1>4, <1>5, <1>6, <1>7

LEMMA SelectorOrigin ==
  ASSUME TypeOK, [Next]_vars, NEW t \in Stream, NEW sel \in selectors'[t]
  PROVE  \/ sel \in selectors[t]
         \/ /\ 1 \in DOMAIN cmdpipe[t] /\ cmdpipe[t][1].method = "COMPILE"
            /\ sel = <<cmdpipe[t][1].pattern, cmdpipe[t][1].client>>
<1>1. selectors' = selectors \/ \E s \in Stream : EngineCommand(s)
  BY DEF Next, Server, Open, StreamWrite, StreamCancel, StreamRead, StreamSend, Drop, SendCompletes,
         ForwardTraffic, Engine, EngineMessage, Relay, RelayDone, vars, engines
<1>2. ASSUME NEW s \in Stream, EngineCommand(s), sel \notin selectors[t]
      PROVE  /\ 1 \in DOMAIN cmdpipe[t] /\ cmdpipe[t][1].method = "COMPILE"
             /\ sel = <<cmdpipe[t][1].pattern, cmdpipe[t][1].client>>
  <2>1. /\ cmdpipe[s] \in Seq(Command) /\ cmdpipe[s] # <<>> /\ selectors \in [Stream -> SUBSET Selector]
    BY <1>2 DEF TypeOK, EngineCommand
  <2>2. Head(cmdpipe[s]) = cmdpipe[s][1] /\ 1 \in DOMAIN cmdpipe[s]
    BY <2>1, TailIsShorter
  <2>3. CASE Head(cmdpipe[s]).method = "COMPILE"
    <3>1. PICK new : new = <<Head(cmdpipe[s]).pattern, Head(cmdpipe[s]).client>>
      OBVIOUS
    <3>2. selectors' = [selectors EXCEPT ![s] = selectors[s] \cup {new}]
      BY <1>2, <2>3, <3>1 DEF EngineCommand, Compile
    <3>3. s = t /\ sel = new
      BY <1>2, <2>1, <3>2
    <3> QED BY <2>2, <2>3, <3>1, <3>3
  <2>4. CASE Head(cmdpipe[s]).method = "CANCEL"
    <3>1. selectors' = [selectors EXCEPT ![s] = {old \in @ : old[2] # Head(cmdpipe[s]).client}]
      BY <1>2, <2>4 DEF EngineCommand
    <3>2. selectors'[t] \subseteq selectors[t]
      BY <2>1, <3>1
    <3> QED BY <1>2, <3>2
  <2> QED BY <1>2, <2>3, <2>4 DEF EngineCommand
<1> QED BY <1>1, <1>2

\* Subscriptions are taken back by STREAM CANCEL only.
LEMMA AskedGrows ==
  ASSUME TypeOK, [Next]_vars, cancels' = cancels
  PROVE  asked \subseteq asked'
<1>1. ASSUME NEW c \in Ptr, NEW s \in Stream, StreamCancel(c, s) PROVE FALSE
  BY <1>1 DEF StreamCancel, TypeOK
<1>2. ASSUME NEW c \in Ptr, NEW s \in Stream, NEW p \in Pattern, StreamRead(c, s, p)
      PROVE  asked \subseteq asked'
  BY <1>2 DEF StreamRead
<1>3. \/ asked' = asked
      \/ \E c \in Ptr, s \in Stream : StreamCancel(c, s)
      \/ \E c \in Ptr, s \in Stream, p \in Pattern : StreamRead(c, s, p)
  BY DEF Next, Server, Open, StreamWrite, StreamSend, Drop, SendCompletes,
         ForwardTraffic, Engine, EngineCommand, EngineMessage, Relay, RelayDone, vars, history
<1> QED BY <1>1, <1>2, <1>3

\* What is held before and after a step is held of the same context.
LEMMA HeldLives ==
  ASSUME TypeOK, LivesMove, NoDangling, NoDangling', NEW t \in Stream, NEW c \in Ptr,
         c \in Held(t), c \in Held(t)'
  PROVE  life'[c] = life[c]
<1>1. state[c] # "free" /\ state'[c] # "free"
  BY DEF NoDangling
<1> QED BY <1>1 DEF LivesMove, TypeOK

LEMMA OnlyAskedStep ==
  ASSUME TypeOK, TypeOK', InPlace, [Next]_vars, LivesMove, MessagesMove, cancels' = cancels,
         NoDangling, NoDangling', NEW t \in Stream, OnlyAsked(t)
  PROVE  OnlyAsked(t)'
<1>1. ASSUME NEW c \in Ptr, c \in Held(t), c \in Held(t)', NEW x, Wants(asked, life[c], t, x)
      PROVE  Wants(asked', life'[c], t, x)
  <2>1. life'[c] = life[c]
    BY <1>1, HeldLives
  <2> QED BY <1>1, <2>1, AskedGrows DEF Wants
<1>2. \A m : OfStream(t, m) => m \in Message /\ log'[m] = log[m]
  BY LogGrows DEF OfStream, Holds, Message
<1>3. SelectorsAsked(t)'
  <2> SUFFICES ASSUME NEW sel \in selectors'[t], NEW x \in sel[1]
               PROVE  Wants(asked', life'[sel[2]], t, x)
    BY DEF SelectorsAsked
  <2>1. PICK c \in Ptr : c = sel[2]
    <3>1. selectors' \in [Stream -> SUBSET Selector]
      BY DEF TypeOK
    <3>2. sel \in Selector
      BY <3>1
    <3> QED BY <3>2 DEF Selector
  <2>2. c \in Held(t)'
    BY <2>1 DEF Held
  <2>3. CASE sel \in selectors[t]
    <3>1. c \in Held(t) /\ Wants(asked, life[c], t, x)
      BY <2>1, <2>3 DEF Held, OnlyAsked, SelectorsAsked
    <3> QED BY <1>1, <2>1, <2>2, <3>1
  <2>4. CASE /\ 1 \in DOMAIN cmdpipe[t] /\ cmdpipe[t][1].method = "COMPILE"
             /\ sel = <<cmdpipe[t][1].pattern, cmdpipe[t][1].client>>
    <3>1. cmdpipe[t][1].client = c /\ x \in cmdpipe[t][1].pattern
      BY <2>1, <2>4
    <3>2. c \in Held(t) /\ Wants(asked, life[c], t, x)
      BY <2>4, <3>1 DEF Held, OnlyAsked, CommandsAsked
    <3> QED BY <1>1, <2>1, <2>2, <3>2
  <2> QED BY <2>3, <2>4, SelectorOrigin
<1>4. CommandsAsked(t)'
  <2> SUFFICES ASSUME NEW i \in DOMAIN cmdpipe'[t], cmdpipe'[t][i].method = "COMPILE",
                      NEW x \in cmdpipe'[t][i].pattern
               PROVE  Wants(asked', life'[cmdpipe'[t][i].client], t, x)
    BY DEF CommandsAsked
  <2>1. PICK c : c = cmdpipe'[t][i].client
    OBVIOUS
  <2>2. c \in Held(t)'
    BY <2>1 DEF Held
  <2>3. ASSUME NEW k \in DOMAIN cmdpipe[t], cmdpipe'[t][i] = cmdpipe[t][k]
        PROVE  Wants(asked', life'[c], t, x)
    <3>1. c \in Held(t) /\ Wants(asked, life[c], t, x)
      BY <2>1, <2>3 DEF Held, OnlyAsked, CommandsAsked
    <3>2. c \in Ptr
      BY <3>1, HeldTypes
    <3> QED BY <1>1, <2>2, <3>1, <3>2
  <2>4. ASSUME NEW d \in Ptr, NEW p \in Pattern, StreamRead(d, t, p),
               cmdpipe'[t][i] = [method |-> "COMPILE", client |-> d, pattern |-> p]
        PROVE  Wants(asked', life'[c], t, x)
    <3>1. c = d /\ x \in p
      BY <2>1, <2>4
    <3>2. life' = life /\ asked' = asked \cup {[to |-> life[d], stream |-> t, pattern |-> p]}
      BY <2>4 DEF StreamRead, counters
    <3>3. PICK sub \in asked' : sub = [to |-> life[d], stream |-> t, pattern |-> p]
      BY <3>2
    <3> QED BY <3>1, <3>2, <3>3 DEF Wants
  <2> QED BY <2>1, <2>3, <2>4, CommandOrigin
<1>5. TaskAsked(t)'
  <2> SUFFICES ASSUME relaying'[t] # NoTask, relaying'[t].msg # ACK, NEW sel \in relaying'[t].todo
               PROVE  Wants(asked', life'[sel[2]], t, log'[relaying'[t].msg].subject)
    BY DEF TaskAsked
  <2>1. PICK c, m : c = sel[2] /\ m = relaying'[t].msg
    OBVIOUS
  <2>2. c \in Held(t)'
    BY <2>1 DEF Held
  <2>3. CASE /\ relaying[t] # NoTask /\ relaying'[t].msg = relaying[t].msg
             /\ relaying'[t].todo \subseteq relaying[t].todo
    <3>1. sel \in relaying[t].todo /\ c \in Held(t) /\ c \in Ptr
      BY <2>1, <2>3, TaskTypes DEF Held
    <3>2. Wants(asked, life[c], t, log[m].subject)
      BY <2>1, <2>3, <3>1 DEF OnlyAsked, TaskAsked
    <3>3. log'[m] = log[m]
      BY <1>2, <2>1, <2>3 DEF InPlace, Stand
    <3> QED BY <1>1, <2>1, <2>2, <3>1, <3>2, <3>3
  <2>4. CASE Taken(t)
    <3>1. 1 \in DOMAIN topipe[t] /\ m = topipe[t][1].msg
      BY <2>1, <2>4, ShorterEntries DEF Taken
    <3>2. log'[m] = log[m]
      BY <1>2, <3>1 DEF InPlace, Stand
    <3>3. sel \in selectors[t] /\ log[m].subject \in sel[1]
      BY <2>4, <3>1 DEF Taken, Matching
    <3>4. c \in Held(t) /\ c \in Ptr /\ Wants(asked, life[c], t, log[m].subject)
      <4>1. c \in Held(t)
        BY <2>1, <3>3 DEF Held
      <4>2. Wants(asked, life[c], t, log[m].subject)
        BY <2>1, <3>3 DEF OnlyAsked, SelectorsAsked
      <4> QED BY <4>1, <4>2, HeldTypes
    <3> QED BY <1>1, <2>1, <2>2, <3>2, <3>4
  <2> QED BY <2>3, <2>4, TaskOrigin
<1>6. ItemsAsked(t)'
  <2> SUFFICES ASSUME NEW i \in DOMAIN frompipe'[t], frompipe'[t][i].msg # ACK
               PROVE  Wants(asked', life'[frompipe'[t][i].client], t, log'[frompipe'[t][i].msg].subject)
    BY DEF ItemsAsked
  <2>1. PICK c, m : c = frompipe'[t][i].client /\ m = frompipe'[t][i].msg
    OBVIOUS
  <2>2. c \in Held(t)'
    BY <2>1 DEF Held
  <2>3. ASSUME NEW k \in DOMAIN frompipe[t], frompipe'[t][i] = frompipe[t][k]
        PROVE  Wants(asked', life'[c], t, log'[m].subject)
    <3>1. c \in Held(t) /\ Wants(asked, life[c], t, log[m].subject)
      BY <2>1, <2>3 DEF Held, OnlyAsked, ItemsAsked
    <3>2. log'[m] = log[m]
      BY <1>2, <2>1, <2>3 DEF InPlace, Stand
    <3> QED BY <1>1, <2>2, <3>1, <3>2, HeldTypes
  <2>4. ASSUME relaying[t] # NoTask, NEW sel \in relaying[t].todo,
               frompipe'[t][i] = [client |-> sel[2], msg |-> relaying[t].msg]
        PROVE  Wants(asked', life'[c], t, log'[m].subject)
    <3>1. c = sel[2] /\ m = relaying[t].msg /\ m # ACK
      BY <2>1, <2>4
    <3>2. c \in Held(t) /\ Wants(asked, life[c], t, log[m].subject)
      BY <2>4, <3>1 DEF Held, OnlyAsked, TaskAsked
    <3>3. log'[m] = log[m]
      BY <1>2, <2>4, <3>1 DEF InPlace, Stand
    <3> QED BY <1>1, <2>2, <3>2, <3>3, HeldTypes
  <2> QED BY <2>1, <2>3, <2>4, ItemOrigin
<1>7. DeliveriesAsked(t)'
  <2> SUFFICES ASSUME NEW i \in DOMAIN delivered', Holds(log', t, delivered'[i].msg)
               PROVE  Wants(asked', delivered'[i].to, t, log'[delivered'[i].msg].subject)
    BY DEF DeliveriesAsked, OfStream
  <2>1. PICK m : m = delivered'[i].msg
    OBVIOUS
  <2>2. CASE i \in DOMAIN delivered /\ delivered'[i] = delivered[i]
    <3>1. m \in Message
      BY <2>1, <2>2 DEF InPlace
    <3>2. Holds(log, t, m) /\ log'[m] = log[m]
      BY <2>1, <3>1, LogGrows
    <3>3. Wants(asked, delivered[i].to, t, log[m].subject)
      BY <2>1, <2>2, <3>2 DEF OnlyAsked, DeliveriesAsked, OfStream
    <3> QED BY <2>1, <2>2, <3>2, <3>3, AskedGrows DEF Wants
  <2>3. ASSUME NEW s \in Stream, 1 \in DOMAIN frompipe[s], frompipe[s][1].msg # ACK,
               delivered'[i] = [to |-> life[frompipe[s][1].client], msg |-> frompipe[s][1].msg]
        PROVE  Wants(asked', delivered'[i].to, t, log'[m].subject)
    <3>1. m = frompipe[s][1].msg
      BY <2>1, <2>3
    <3>2. Holds(log, s, m)
      BY <2>3, <3>1 DEF InPlace, Stand, OfStream
    <3>3. m \in Message
      BY <3>2 DEF Holds, Message
    <3>4. s = t /\ log'[m] = log[m]
      BY <2>1, <3>2, <3>3, LogGrows DEF Holds
    <3>5. Wants(asked, life[frompipe[s][1].client], t, log[m].subject)
      BY <2>3, <3>1, <3>4 DEF OnlyAsked, ItemsAsked
    <3> QED BY <2>3, <3>4, <3>5, AskedGrows DEF Wants
  <2> QED BY <2>1, <2>2, <2>3, DeliveryOrigin
<1> QED BY <1>3, <1>4, <1>5, <1>6, <1>7 DEF OnlyAsked

LivesInv == LivesApart /\ NoEcho
AskedInv == cancels = 0 => \A s \in Stream : OnlyAsked(s)

LEMMA LivesInit == Init => LivesInv /\ AskedInv
<1> SUFFICES ASSUME Init PROVE LivesInv /\ AskedInv
  OBVIOUS
<1>1. LivesApart
  BY DEF Init, LivesApart, Message
<1>2. NoEcho
  BY DEF Init, NoEcho, QuietPipe, QuietTask, QuietItems, QuietBlocked, QuietDeliveries
<1>3. AskedInv
  BY DEF Init, AskedInv, OnlyAsked, SelectorsAsked, CommandsAsked, TaskAsked, ItemsAsked, DeliveriesAsked
<1> QED BY <1>1, <1>2, <1>3 DEF LivesInv

\* No two contexts share a number, in whatever memory they are, and nothing is
\* on its way back to who published it (s_stream_engine_handle_message).
THEOREM LivesCorrect == Spec => []LivesInv
<1>1. TypeOK /\ InPlace /\ LivesInv /\ [Next]_vars => LivesInv'
  BY LivesStep, NoEchoStep, StepLives, StepMoves DEF LivesInv
<1> QED BY <1>1, LivesInit, MessagesCorrect, PTL DEF Spec, MessagesInv

\* While nobody sends STREAM CANCEL, whatever an engine knows or sends of a
\* client, that client has asked for (s_stream_engine_compile).
THEOREM AskedCorrect == Spec => []AskedInv
<1> DEFINE Safe == cancels = 0 => NoDangling
<1>1. TypeOK /\ TypeOK' /\ InPlace /\ Safe /\ Safe' /\ AskedInv /\ [Next]_vars => AskedInv'
  <2> SUFFICES ASSUME TypeOK, TypeOK', InPlace, Safe, Safe', AskedInv, [Next]_vars, cancels' = 0
               PROVE  \A s \in Stream : OnlyAsked(s)'
    BY DEF AskedInv
  <2>1. cancels' = cancels /\ cancels = 0
    BY CancelsGrow
  <2> QED BY <2>1, StepLives, StepMoves, OnlyAskedStep DEF AskedInv
<1> HIDE DEF Safe
<1>2. Spec => []Safe
  BY NoDanglingHolds DEF Safe
<1> QED BY <1>1, <1>2, LivesInit, MessagesCorrect, PTL DEF Spec, MessagesInv

\* Nobody gets what it published itself, and while nobody sends STREAM CANCEL,
\* nobody gets what it did not ask for, in whatever memory its context is.
THEOREM DeliveredAsAskedHolds == Spec => []DeliveredAsAsked
<1>1. TypeOK /\ InPlace /\ LivesInv /\ AskedInv => DeliveredAsAsked
  <2> SUFFICES ASSUME TypeOK, InPlace, LivesInv, AskedInv, NEW i \in DOMAIN delivered
               PROVE  /\ log[delivered[i].msg].from # delivered[i].to
                      /\ cancels = 0 => \E sub \in asked :
                           /\ sub.to = delivered[i].to
                           /\ sub.stream = log[delivered[i].msg].stream
                           /\ log[delivered[i].msg].subject \in sub.pattern
    BY DEF DeliveredAsAsked, ToSet
  <2>1. log[delivered[i].msg].from # delivered[i].to
    BY DEF LivesInv, NoEcho, QuietDeliveries
  <2>2. delivered[i].msg \in Message
    BY DEF InPlace
  <2>3. PICK s \in Stream : log[delivered[i].msg].stream = s
    BY <2>2, LogEntries
  <2>4. OfStream(s, delivered[i].msg)
    BY <2>2, <2>3 DEF OfStream, Holds, Message
  <2>5. cancels = 0 => Wants(asked, delivered[i].to, s, log[delivered[i].msg].subject)
    BY <2>4 DEF AskedInv, OnlyAsked, DeliveriesAsked
  <2> QED BY <2>1, <2>3, <2>5 DEF Wants
<1> QED BY <1>1, MessagesCorrect, LivesCorrect, AskedCorrect, PTL DEF MessagesInv

-----------------------------------------------------------------------------
\* Subscriptions are known to the engine, or about to be

\* The step takes no subscription of c to s back.
Keeps(s, c) ==
  /\ ~ CancelSent(s, c) =>
       ~ CancelSent(s, c)' /\ \A sel \in selectors[s] : sel[2] = c => sel \in selectors'[s]
  /\ \A p \in SUBSET Subject : Known(s, p, c) => Known(s, p, c)'

\* The commands for the engine of s only grow, and not by a CANCEL for c.
Extended(s, c) ==
  /\ selectors'[s] = selectors[s]
  /\ \A i \in DOMAIN cmdpipe[s] : i \in DOMAIN cmdpipe'[s] /\ cmdpipe'[s][i] = cmdpipe[s][i]
  /\ \A j \in DOMAIN cmdpipe'[s] : CancelIn(s, c, j)' => j \in DOMAIN cmdpipe[s]

LEMMA ExtendedKeeps ==
  ASSUME NEW s \in Stream, NEW c \in Ptr, Extended(s, c)
  PROVE  Keeps(s, c)
<1>1. \A j \in DOMAIN cmdpipe'[s] : CancelIn(s, c, j)' => j \in DOMAIN cmdpipe[s] /\ CancelIn(s, c, j)
  BY DEF Extended, CancelIn
<1>2. CancelSent(s, c)' => CancelSent(s, c)
  BY <1>1 DEF CancelSent
<1>3. ASSUME NEW p \in SUBSET Subject, Known(s, p, c) PROVE Known(s, p, c)'
  BY <1>1, <1>2, <1>3 DEF Known, Extended
<1> QED BY <1>2, <1>3 DEF Keeps, Extended

LEMMA AppendExtends ==
  ASSUME TypeOK, NEW s \in Stream, NEW c \in Ptr, NEW r \in Stream, NEW cmd \in Command,
         cmdpipe' = [cmdpipe EXCEPT ![r] = Append(@, cmd)], selectors' = selectors,
         s # r \/ cmd.method # "CANCEL" \/ cmd.client # c
  PROVE  Extended(s, c)
<1>1. cmdpipe \in [Stream -> Seq(Command)]
  BY DEF TypeOK
<1>2. CASE s # r
  BY <1>1, <1>2 DEF Extended
<1>3. CASE s = r
  <2>1. Longer(cmdpipe[s], cmdpipe'[s], cmd)
    <3>1. Longer(cmdpipe[s], Append(cmdpipe[s], cmd), cmd)
      BY <1>1, AppendIsLonger
    <3> QED BY <1>1, <1>3, <3>1
  <2>2. \A j \in DOMAIN cmdpipe'[s] : j \in DOMAIN cmdpipe[s] \/ cmdpipe'[s][j] = cmd
    BY <2>1, LongerEntries
  <2>3. \A i \in DOMAIN cmdpipe[s] : i \in DOMAIN cmdpipe'[s] /\ cmdpipe'[s][i] = cmdpipe[s][i]
    BY <2>1, LongerEntries
  <2> QED BY <1>3, <2>2, <2>3 DEF Extended, CancelIn
<1> QED BY <1>2, <1>3

LEMMA DropExtends ==
  ASSUME TypeOK, NEW d \in Ptr, Drop(d), NEW s \in Stream, NEW c \in Ptr \ {d}
  PROVE  Extended(s, c)
<1>1. cmdpipe' = CancelReaders(d) /\ selectors' = selectors
  BY DEF Drop, engines
<1>2. \A j \in DOMAIN cmdpipe'[s] : j \notin DOMAIN cmdpipe[s] => cmdpipe'[s][j] = Cancel(d)
  BY <1>1, CancelReadersPipe
<1>3. \A i \in DOMAIN cmdpipe[s] : i \in DOMAIN cmdpipe'[s] /\ cmdpipe'[s][i] = cmdpipe[s][i]
  BY <1>1, CancelReadersPipe
<1>4. Cancel(d).client = d
  BY DEF Cancel
<1> QED BY <1>1, <1>2, <1>3, <1>4 DEF Extended, CancelIn

\* The engine handles the first command.
LEMMA CommandKeeps ==
  ASSUME TypeOK, NEW s \in Stream, EngineCommand(s), NEW c \in Ptr
  PROVE  Keeps(s, c)
<1>1. /\ cmdpipe[s] \in Seq(Command) /\ cmdpipe[s] # <<>> /\ selectors \in [Stream -> SUBSET Selector]
      /\ cmdpipe \in [Stream -> Seq(Command)]
  BY DEF TypeOK, EngineCommand
<1>2. PICK cmd \in Command : cmd = cmdpipe[s][1] /\ cmd = Head(cmdpipe[s])
  BY <1>1, TailIsShorter
<1>3. Shorter(cmdpipe[s], cmdpipe'[s])
  <2>1. cmdpipe'[s] = Tail(cmdpipe[s])
    BY <1>1 DEF EngineCommand
  <2> QED BY <1>1, <2>1, TailIsShorter
<1>4. 1 \in DOMAIN cmdpipe[s]
  BY <1>3, ShorterEntries
<1>5. \/ cmd.method = "COMPILE" /\ selectors'[s] = selectors[s] \cup {<<cmd.pattern, cmd.client>>}
      \/ cmd.method = "CANCEL" /\ selectors'[s] = {sel \in selectors[s] : sel[2] # cmd.client}
  <2>1. CASE cmd.method = "COMPILE"
    <3>1. selectors' = [selectors EXCEPT ![s] = selectors[s] \cup {<<cmd.pattern, cmd.client>>}]
      BY <1>2, <2>1 DEF EngineCommand, Compile
    <3> QED BY <1>1, <2>1, <3>1
  <2>2. CASE cmd.method = "CANCEL"
    <3>1. selectors' = [selectors EXCEPT ![s] = {sel \in @ : sel[2] # Head(cmdpipe[s]).client}]
      BY <1>2, <2>2 DEF EngineCommand
    <3> QED BY <1>1, <1>2, <2>2, <3>1
  <2> QED BY <2>1, <2>2 DEF Command
<1>6. ASSUME NEW j \in DOMAIN cmdpipe'[s], CancelIn(s, c, j)'
      PROVE  j + 1 \in DOMAIN cmdpipe[s] /\ CancelIn(s, c, j + 1) /\ j \in Int
  <2>1. j + 1 \in DOMAIN cmdpipe[s] /\ cmdpipe'[s][j] = cmdpipe[s][j + 1] /\ j \in Int
    BY <1>3, ShorterEntries
  <2> QED BY <1>6, <2>1 DEF CancelIn
<1>7. CancelSent(s, c)' => CancelSent(s, c)
  BY <1>6 DEF CancelSent
<1>8. ASSUME ~ CancelSent(s, c), NEW sel \in selectors[s], sel[2] = c PROVE sel \in selectors'[s]
  <2>1. ~ (cmd.method = "CANCEL" /\ cmd.client = c)
    BY <1>2, <1>4, <1>8 DEF CancelSent, CancelIn
  <2> QED BY <1>5, <1>8, <2>1
<1>9. ASSUME NEW p \in SUBSET Subject, Known(s, p, c) PROVE Known(s, p, c)'
  <2>1. CASE <<p, c>> \in selectors[s] /\ ~ CancelSent(s, c)
    <3>1. <<p, c>>[2] = c
      OBVIOUS
    <3> QED BY <1>7, <1>8, <2>1, <3>1 DEF Known
  <2>2. ASSUME NEW i \in DOMAIN cmdpipe[s], cmdpipe[s][i].method = "COMPILE", cmdpipe[s][i].client = c,
               cmdpipe[s][i].pattern = p, \A j \in DOMAIN cmdpipe[s] : j > i => ~ CancelIn(s, c, j)
        PROVE  Known(s, p, c)'
    <3>1. CASE i = 1
      <4>1. <<p, c>> \in selectors'[s]
        BY <1>2, <1>5, <2>2, <3>1
      <4>2. ~ CancelSent(s, c)'
        <5> SUFFICES ASSUME NEW j \in DOMAIN cmdpipe'[s], CancelIn(s, c, j)' PROVE FALSE
          BY DEF CancelSent
        <5>1. j + 1 \in DOMAIN cmdpipe[s] /\ CancelIn(s, c, j + 1) /\ 1 < j + 1
          BY <1>3, <1>6, ShorterEntries
        <5>2. j + 1 > i
          BY <1>6, <3>1, <5>1
        <5> QED BY <2>2, <5>1, <5>2
      <4> QED BY <4>1, <4>2 DEF Known
    <3>2. CASE i # 1
      <4>1. PICK k \in DOMAIN cmdpipe'[s] : k = i - 1 /\ cmdpipe'[s][k] = cmdpipe[s][i] /\ i \in Int
        BY <1>3, <3>2, ShorterEntries
      <4>2. ASSUME NEW j \in DOMAIN cmdpipe'[s], j > k, CancelIn(s, c, j)' PROVE FALSE
        <5>1. j + 1 \in DOMAIN cmdpipe[s] /\ CancelIn(s, c, j + 1) /\ j \in Int
          BY <1>6, <4>2
        <5>2. j + 1 > i
          BY <4>1, <4>2, <5>1
        <5> QED BY <2>2, <5>1, <5>2
      <4> QED BY <2>2, <4>1, <4>2 DEF Known
    <3> QED BY <3>1, <3>2
  <2> QED BY <1>9, <2>1, <2>2 DEF Known
<1> QED BY <1>7, <1>8, <1>9 DEF Keeps

\* Only a STREAM CANCEL of c and its end take its subscriptions back.
LEMMA KeepsStep ==
  ASSUME TypeOK, [Next]_vars, NEW t \in Stream, NEW c \in Ptr
  PROVE  Keeps(t, c) \/ StreamCancel(c, t) \/ Drop(c)
<1>1. ASSUME cmdpipe'[t] = cmdpipe[t], selectors'[t] = selectors[t] PROVE Keeps(t, c)
  <2>1. Extended(t, c)
    BY <1>1 DEF Extended
  <2> QED BY <2>1, ExtendedKeeps
<1>2. ASSUME NEW d \in Ptr, NEW s \in Stream, StreamCancel(d, s) PROVE Keeps(t, c) \/ StreamCancel(c, t)
  <2>1. PICK cmd : cmd = Cancel(d)
    OBVIOUS
  <2>2. cmd \in Command /\ cmd.client = d
    BY <2>1, CancelTypes DEF Cancel
  <2>3. cmdpipe' = [cmdpipe EXCEPT ![s] = Append(@, cmd)] /\ selectors' = selectors
    BY <1>2, <2>1 DEF StreamCancel, engines
  <2> QED BY <1>2, <2>2, <2>3, AppendExtends, ExtendedKeeps
<1>3. ASSUME NEW d \in Ptr, NEW s \in Stream, NEW p \in Pattern, StreamRead(d, s, p) PROVE Keeps(t, c)
  <2>1. PICK cmd : cmd = [method |-> "COMPILE", client |-> d, pattern |-> p]
    OBVIOUS
  <2>2. cmd \in Command /\ cmd.method # "CANCEL"
    BY <2>1, PatternAssumption DEF Command
  <2>3. cmdpipe' = [cmdpipe EXCEPT ![s] = Append(@, cmd)] /\ selectors' = selectors
    BY <1>3, <2>1 DEF StreamRead, engines
  <2> QED BY <2>2, <2>3, AppendExtends, ExtendedKeeps
<1>4. ASSUME NEW d \in Ptr, Drop(d) PROVE Keeps(t, c) \/ Drop(c)
  BY <1>4, DropExtends, ExtendedKeeps
<1>5. ASSUME NEW s \in Stream, EngineCommand(s) PROVE Keeps(t, c)
  <2>1. CASE s = t
    BY <1>5, <2>1, CommandKeeps
  <2>2. CASE s # t
    <3>1. cmdpipe'[t] = cmdpipe[t] /\ selectors'[t] = selectors[t]
      BY <1>5, <2>2 DEF EngineCommand, TypeOK
    <3> QED BY <1>1, <3>1
  <2> QED BY <2>1, <2>2
<1>6. \/ UNCHANGED <<cmdpipe, selectors>>
      \/ \E d \in Ptr, s \in Stream : StreamCancel(d, s)
      \/ \E d \in Ptr, s \in Stream, p \in Pattern : StreamRead(d, s, p)
      \/ \E d \in Ptr : Drop(d)
      \/ \E s \in Stream : EngineCommand(s)
  BY DEF Next, Server, Open, StreamWrite, StreamSend, SendCompletes,
         ForwardTraffic, Engine, EngineMessage, Relay, RelayDone, vars, pipes, engines
<1> QED BY <1>1, <1>2, <1>3, <1>4, <1>5, <1>6

\* A client that is connected was so before, under the same number, or is new.
LEMMA WasConnected ==
  ASSUME TypeOK, LivesApart, LivesMove, NEW c \in Ptr, state'[c] = "connected", life'[c] \in 1 .. opens
  PROVE  state[c] = "connected" /\ life'[c] = life[c]
<1>1. life[c] = life'[c]
  BY LivesKept
<1>2. state[c] # "free"
  BY <1>1 DEF LivesApart
<1> QED BY <1>1, <1>2 DEF LivesMove, TypeOK

LEMMA KnownStep ==
  ASSUME TypeOK, LivesApart, LivesMove, SubscriptionsKnown, [Next]_vars
  PROVE  SubscriptionsKnown'
<1> SUFFICES ASSUME NEW sub \in asked', NEW c \in Ptr, state'[c] = "connected", life'[c] = sub.to
             PROVE  Known(sub.stream, sub.pattern, c)'
  BY DEF SubscriptionsKnown
<1>1. PICK s, p : s = sub.stream /\ p = sub.pattern
  OBVIOUS
<1>2. CASE sub \in asked
  <2>1. sub.to \in 1 .. opens
    BY <1>2 DEF LivesApart
  <2>2. state[c] = "connected" /\ life[c] = sub.to
    BY <2>1, WasConnected
  <2>3. Known(s, p, c) /\ s \in Stream /\ p \in SUBSET Subject
    BY <1>1, <1>2, <2>2, PatternAssumption DEF SubscriptionsKnown, TypeOK
  <2>4. CASE Keeps(s, c)
    BY <1>1, <2>3, <2>4 DEF Keeps
  <2>5. CASE StreamCancel(c, s)
    BY <1>1, <2>2, <2>5 DEF StreamCancel
  <2>6. CASE Drop(c)
    BY <2>6 DEF Drop, DestroyContext, Free, TypeOK
  <2> QED BY <2>3, <2>4, <2>5, <2>6, KeepsStep
<1>3. CASE sub \notin asked
  <2>1. \/ asked' \subseteq asked
        \/ \E d \in Ptr, r \in Stream, q \in Pattern : StreamRead(d, r, q)
    BY DEF Next, Server, Open, StreamWrite, StreamCancel, StreamSend, Drop, SendCompletes,
           ForwardTraffic, Engine, EngineCommand, EngineMessage, Relay, RelayDone, vars, history
  <2>2. PICK d \in Ptr, r \in Stream, q \in Pattern : StreamRead(d, r, q)
    BY <1>3, <2>1
  <2>3. sub = [to |-> life[d], stream |-> r, pattern |-> q]
    BY <1>3, <2>2 DEF StreamRead
  <2>4. c = d
    <3>1. life'[c] = life[d] /\ life' = life /\ state[d] = "connected"
      BY <2>2, <2>3 DEF StreamRead, counters, Connected
    <3> QED BY <3>1 DEF LivesApart
  <2>5. PICK cmd : cmd = [method |-> "COMPILE", client |-> c, pattern |-> p]
    OBVIOUS
  <2>6. s = r /\ p = q /\ cmd \in Command
    BY <1>1, <2>3, <2>5, PatternAssumption DEF Command
  <2>7. Longer(cmdpipe[s], cmdpipe'[s], cmd)
    <3>1. cmdpipe' = [cmdpipe EXCEPT ![s] = Append(@, cmd)] /\ cmdpipe \in [Stream -> Seq(Command)]
      BY <2>2, <2>4, <2>5, <2>6 DEF StreamRead, TypeOK
    <3>2. Longer(cmdpipe[s], Append(cmdpipe[s], cmd), cmd)
      BY <2>6, <3>1, AppendIsLonger
    <3> QED BY <2>6, <3>1, <3>2
  <2>8. PICK n \in DOMAIN cmdpipe'[s] :
          cmdpipe'[s][n] = cmd /\ \A j \in DOMAIN cmdpipe'[s] : ~ (j > n)
    BY <2>7 DEF Longer
  <2>9. Known(s, p, c)'
    BY <2>5, <2>8 DEF Known
  <2> QED BY <1>1, <2>9
<1> QED BY <1>2, <1>3

-----------------------------------------------------------------------------
\* No delivery that is due is forgotten

LEMMA DeliveredGrows ==
  ASSUME MessagesMove, NEW n, NEW m, Delivered(n, m)
  PROVE  Delivered(n, m)'
<1>1. delivered' = delivered \/ \E x : Longer(delivered, delivered', x)
  BY DEF MessagesMove, MessagesStay, Published, Completed, Dropped, Forwarded, AckStarted,
         Taken, Sent, Finished
<1>2. \A i \in DOMAIN delivered : i \in DOMAIN delivered' /\ delivered'[i] = delivered[i]
  BY <1>1, LongerEntries
<1> QED BY <1>2 DEF Delivered

\* An item stays in the pipe to the server until it is delivered.
LEMMA ItemArrives ==
  ASSUME MessagesMove, NEW s \in Stream, NEW c \in Ptr, NEW m, NEW n,
         m # ACK, state[c] = "connected", life[c] = n, ItemWay(s, m, c)
  PROVE  ItemWay(s, m, c)' \/ Delivered(n, m)'
<1>1. PICK i \in DOMAIN frompipe[s] : frompipe[s][i].client = c /\ frompipe[s][i].msg = m
  BY DEF ItemWay
<1>2. CASE frompipe'[s] = frompipe[s]
  BY <1>1, <1>2 DEF ItemWay
<1>3. CASE \E x : Longer(frompipe[s], frompipe'[s], x)
  <2>1. i \in DOMAIN frompipe'[s] /\ frompipe'[s][i] = frompipe[s][i]
    BY <1>1, <1>3, LongerEntries
  <2> QED BY <1>1, <2>1 DEF ItemWay
<1>4. ASSUME Shorter(frompipe[s], frompipe'[s]), i # 1 PROVE ItemWay(s, m, c)'
  <2>1. PICK k \in DOMAIN frompipe'[s] : frompipe'[s][k] = frompipe[s][i]
    BY <1>1, <1>4, ShorterEntries
  <2> QED BY <1>1, <2>1 DEF ItemWay
<1>5. CASE Forwarded(s) /\ i = 1
  <2>1. Longer(delivered, delivered', [to |-> n, msg |-> m])
    BY <1>1, <1>5 DEF Forwarded
  <2>2. PICK k \in DOMAIN delivered' : delivered'[k] = [to |-> n, msg |-> m]
    BY <2>1, LongerEntries
  <2>3. \E j \in DOMAIN delivered' : delivered'[j].to = n /\ delivered'[j].msg = m
    BY <2>2
  <2> QED BY <2>3 DEF Delivered
<1>6. CASE /\ Dropped(s)
           /\ state[frompipe[s][1].client] = "free" \/ frompipe[s][1].msg = ACK
  BY <1>1, <1>4, <1>6 DEF Dropped
<1>7. CASE Forwarded(s)
  BY <1>4, <1>5, <1>7 DEF Forwarded
<1>8. \/ frompipe'[s] = frompipe[s] \/ \E x : Longer(frompipe[s], frompipe'[s], x)
      \/ /\ Dropped(s)
         /\ state[frompipe[s][1].client] = "free" \/ frompipe[s][1].msg = ACK
      \/ Forwarded(s)
  BY MovesAt DEF Published, Completed, AckStarted, Taken, Finished, Sent
<1> QED BY <1>2, <1>3, <1>6, <1>7, <1>8

\* The engine sends the message to all who are to get it.
LEMMA TaskArrives ==
  ASSUME MessagesMove, NEW s \in Stream, NEW c \in Ptr, NEW m, TaskWay(s, m, c)
  PROVE  TaskWay(s, m, c)' \/ ItemWay(s, m, c)'
<1>1. CASE relaying'[s] = relaying[s]
  BY <1>1 DEF TaskWay
<1>2. ASSUME NEW sel \in Selector, Sent(s, sel) PROVE TaskWay(s, m, c)' \/ ItemWay(s, m, c)'
  <2>1. PICK other \in relaying[s].todo : other[2] = c /\ relaying[s].msg = m
    BY DEF TaskWay
  <2>2. CASE other = sel
    <3>1. Longer(frompipe[s], frompipe'[s], [client |-> c, msg |-> m])
      BY <1>2, <2>1, <2>2 DEF Sent
    <3>2. PICK k \in DOMAIN frompipe'[s] : frompipe'[s][k] = [client |-> c, msg |-> m]
      BY <3>1, LongerEntries
    <3>3. \E j \in DOMAIN frompipe'[s] : frompipe'[s][j].client = c /\ frompipe'[s][j].msg = m
      BY <3>2
    <3> QED BY <3>3 DEF ItemWay
  <2>3. CASE other # sel
    <3>1. relaying'[s] # NoTask /\ relaying'[s].msg = m /\ other \in relaying'[s].todo
      BY <1>2, <2>1, <2>3 DEF Sent
    <3> QED BY <2>1, <3>1 DEF TaskWay
  <2> QED BY <2>2, <2>3
<1>3. ~ (AckStarted(s) \/ Taken(s) \/ Finished(s))
  BY DEF TaskWay, AckStarted, Taken, Finished
<1>4. relaying'[s] = relaying[s] \/ \E sel \in Selector : Sent(s, sel)
  BY <1>3, MovesAt DEF Published, Completed, Dropped, Forwarded
<1> QED BY <1>1, <1>2, <1>4

\* A message in the pipe to the engine is taken for whom it is wanted.
LEMMA PipeArrives ==
  ASSUME MessagesMove, NEW s \in Stream, NEW c \in Ptr, NEW m, Wanted(s, m, c), PipeWay(s, m, c)
  PROVE  PipeWay(s, m, c)' \/ TaskWay(s, m, c)'
<1>1. PICK i \in DOMAIN topipe[s] : topipe[s][i].msg = m /\ topipe[s][i].sender # c
  BY DEF PipeWay
<1>2. CASE topipe'[s] = topipe[s]
  BY <1>1, <1>2 DEF PipeWay
<1>3. CASE \E x : Longer(topipe[s], topipe'[s], x)
  <2>1. i \in DOMAIN topipe'[s] /\ topipe'[s][i] = topipe[s][i]
    BY <1>1, <1>3, LongerEntries
  <2> QED BY <1>1, <2>1 DEF PipeWay
<1>4. CASE Taken(s)
  <2>1. CASE i = 1
    <3>1. relaying'[s] # NoTask /\ relaying'[s].msg = m
          /\ relaying'[s].todo = Matching(s, topipe[s][1].sender, log[m].subject)
      BY <1>1, <1>4, <2>1 DEF Taken
    <3>2. PICK sel \in selectors[s] : sel[2] = c /\ log[m].subject \in sel[1]
      BY DEF Wanted
    <3>3. sel \in relaying'[s].todo
      BY <1>1, <2>1, <3>1, <3>2 DEF Matching
    <3> QED BY <3>1, <3>2, <3>3 DEF TaskWay
  <2>2. CASE i # 1
    <3>1. PICK k \in DOMAIN topipe'[s] : topipe'[s][k] = topipe[s][i]
      BY <1>1, <1>4, <2>2, ShorterEntries DEF Taken
    <3> QED BY <1>1, <3>1 DEF PipeWay
  <2> QED BY <2>1, <2>2
<1>5. topipe'[s] = topipe[s] \/ (\E x : Longer(topipe[s], topipe'[s], x)) \/ Taken(s)
  BY MovesAt DEF Published, Completed, Dropped, Forwarded, AckStarted, Finished, Sent
<1> QED BY <1>2, <1>3, <1>4, <1>5

\* The message of a blocked send goes into the pipe.
LEMMA BlockedArrives ==
  ASSUME InPlace, MessagesMove, NEW s \in Stream, NEW c \in Ptr, NEW m,
         OfStream(s, m), BlockedWay(m, c)
  PROVE  BlockedWay(m, c)' \/ PipeWay(s, m, c)'
<1>1. blocked.stream = s
  BY DEF InPlace, BlockedWay, OfStream, Holds
<1>2. CASE blocked' = blocked
  BY <1>2 DEF BlockedWay
<1>3. ASSUME NEW r \in Stream, Completed(r) PROVE PipeWay(s, m, c)'
  <2>1. Longer(topipe[s], topipe'[s], blocked.item)
    BY <1>1, <1>3 DEF Completed
  <2>2. PICK k \in DOMAIN topipe'[s] : topipe'[s][k] = blocked.item
    BY <2>1, LongerEntries
  <2> QED BY <2>2 DEF PipeWay, BlockedWay
<1>4. blocked # NoTask
  BY DEF BlockedWay
<1>5. blocked' = blocked \/ \E r \in Stream : Completed(r)
  BY <1>4 DEF MessagesMove, MessagesStay, Published, Dropped, Forwarded, AckStarted, Taken,
              Finished, Sent
<1> QED BY <1>2, <1>3, <1>5

LEMMA WayStep ==
  ASSUME TypeOK, InPlace, MessagesMove, NEW s \in Stream, NEW c \in Ptr, NEW m, NEW n, OfStream(s, m),
         state[c] = "connected", life[c] = n, Keeps(s, c), OnItsWay(s, m, c)
  PROVE  OnItsWay(s, m, c)' \/ Delivered(n, m)'
<1>1. m # ACK /\ m \in Message
  BY DEF OfStream, Holds, Message, ACK
<1>2. ASSUME Wanted(s, m, c) PROVE Wanted(s, m, c)'
  <2>1. log'[m] = log[m]
    BY <1>1, LogGrows
  <2>2. ~ CancelSent(s, c)' /\ \A sel \in selectors[s] : sel[2] = c => sel \in selectors'[s]
    BY <1>2 DEF Keeps, Wanted
  <2> QED BY <1>2, <2>1, <2>2 DEF Wanted
<1>3. CASE ItemWay(s, m, c)
  BY <1>1, <1>3, ItemArrives DEF OnItsWay
<1>4. CASE TaskWay(s, m, c)
  BY <1>4, TaskArrives DEF OnItsWay
<1>5. CASE Wanted(s, m, c) /\ PipeWay(s, m, c)
  BY <1>2, <1>5, PipeArrives DEF OnItsWay
<1>6. CASE Wanted(s, m, c) /\ BlockedWay(m, c)
  BY <1>2, <1>6, BlockedArrives DEF OnItsWay
<1> QED BY <1>3, <1>4, <1>5, <1>6 DEF OnItsWay

\* A client leaves by Drop only.
LEMMA ConnectedStays ==
  ASSUME [Next]_vars, NEW c \in Ptr, state[c] = "connected", TypeOK
  PROVE  (state'[c] = "connected" /\ life'[c] = life[c]) \/ Drop(c)
<1>1. ASSUME NEW p \in Peer, NEW d \in Ptr, Open(p, d)
      PROVE  state'[c] = "connected" /\ life'[c] = life[c]
  BY <1>1 DEF Open, TypeOK
<1>2. ASSUME NEW d \in Ptr, Drop(d), d # c PROVE state'[c] = "connected" /\ life'[c] = life[c]
  BY <1>2 DEF Drop, DestroyContext, Free, TypeOK
<1>3. ASSUME NEW s \in Stream, ForwardTraffic(s)
      PROVE  state'[c] = "connected" /\ life'[c] = life[c]
  <2>1. CASE UNCHANGED <<state, life>>
    BY <2>1
  <2>2. CASE PutClient(frompipe[s][1].client)
    BY <2>2 DEF PutClient, Free, TypeOK
  <2>3. frompipe[s][1] = Head(frompipe[s])
    BY <1>3, TailIsShorter DEF ForwardTraffic, TypeOK
  <2>4. UNCHANGED <<state, life>> \/ PutClient(Head(frompipe[s]).client)
    BY <1>3 DEF ForwardTraffic, contexts
  <2> QED BY <2>1, <2>2, <2>3, <2>4
<1>4. \/ UNCHANGED <<state, life>>
      \/ \E p \in Peer, d \in Ptr : Open(p, d)
      \/ \E d \in Ptr : Drop(d)
      \/ \E s \in Stream : ForwardTraffic(s)
  <2>1. ASSUME NEW d \in Ptr, NEW s \in Stream, StreamWrite(d, s) \/ StreamCancel(d, s)
        PROVE  UNCHANGED <<state, life>>
    BY <2>1 DEF StreamWrite, StreamCancel, counters
  <2>2. ASSUME NEW d \in Ptr, NEW s \in Stream, NEW p \in Pattern, StreamRead(d, s, p)
        PROVE  UNCHANGED <<state, life>>
    BY <2>2 DEF StreamRead, counters
  <2>3. ASSUME \/ SendCompletes \/ \E d \in Ptr, x \in Subject : StreamSend(d, x)
               \/ \E s \in Stream : Engine(s)
        PROVE  UNCHANGED <<state, life>>
    BY <2>3 DEF StreamSend, SendCompletes, Engine, EngineCommand, EngineMessage, Relay, RelayDone,
                contexts, counters
  <2>4. CASE UNCHANGED vars
    BY <2>4 DEF vars, contexts, counters
  <2> QED BY <2>1, <2>2, <2>3, <2>4 DEF Next, Server
<1> QED BY <1>1, <1>2, <1>3, <1>4

\* A delivery becomes due when its message is published.
LEMMA ExpectedOrigin ==
  ASSUME [Next]_vars, NEW due \in expected'
  PROVE  \/ due \in expected
         \/ \E c \in Ptr, x \in Subject : StreamSend(c, x) /\ due \in Due(c, writer[c], x, Len(log) + 1)
<1>1. ASSUME NEW c \in Ptr, NEW x \in Subject, StreamSend(c, x)
      PROVE  due \in expected \/ due \in Due(c, writer[c], x, Len(log) + 1)
  BY <1>1 DEF StreamSend
<1>2. \/ expected' \subseteq expected
      \/ \E c \in Ptr, x \in Subject : StreamSend(c, x)
  BY DEF Next, Server, Open, StreamWrite, StreamRead, StreamCancel, Drop, SendCompletes,
         ForwardTraffic, Engine, EngineCommand, EngineMessage, Relay, RelayDone, vars, history
<1> QED BY <1>1, <1>2

\* When it does, its message waits for an engine that knows the reader.
LEMMA DueOnItsWay ==
  ASSUME TypeOK, SubscriptionsKnown, NEW c \in Ptr, NEW x \in Subject, StreamSend(c, x),
         NEW due \in Due(c, writer[c], x, Len(log) + 1), NEW s \in Stream, OfStream(s, due.msg)'
  PROVE  \E d \in Ptr : state'[d] = "connected" /\ life'[d] = due.to /\ OnItsWay(s, due.msg, d)'
<1>1. PICK id : id = Len(log) + 1
  OBVIOUS
<1>2. PICK sub \in asked, d \in Ptr \ {c} :
        /\ due.to = sub.to /\ due.msg = id /\ sub.stream = writer[c] /\ x \in sub.pattern
        /\ Connected(d) /\ life[d] = sub.to
        /\ \A i \in DOMAIN cmdpipe[writer[c]] : cmdpipe[writer[c]][i].client # d
  BY <1>1 DEF Due
<1>3. PICK p : p = sub.pattern
  OBVIOUS
<1>4. writer[c] \in Stream /\ Published(writer[c], c, x)
  BY SendMoves
<1>5. log'[id] = [stream |-> writer[c], from |-> life[c], subject |-> x]
  BY <1>1, <1>4 DEF Published, Longer
<1>6. s = writer[c] /\ log'[id].subject = x
  BY <1>2, <1>5 DEF OfStream, Holds
<1>7. state' = state /\ life' = life /\ cmdpipe' = cmdpipe /\ selectors' = selectors
  BY DEF StreamSend, contexts, counters, engines
<1>8. <<p, d>> \in selectors[s] /\ ~ CancelSent(s, d)
  BY <1>2, <1>3, <1>6 DEF SubscriptionsKnown, Known, Connected
<1>9. Wanted(s, id, d)'
  <2>1. ~ CancelSent(s, d)'
    BY <1>7, <1>8 DEF CancelSent, CancelIn
  <2>2. PICK sel \in selectors'[s] : sel[2] = d /\ x \in sel[1]
    <3>1. <<p, d>>[1] = p /\ <<p, d>>[2] = d
      OBVIOUS
    <3> QED BY <1>2, <1>3, <1>7, <1>8, <3>1
  <2> QED BY <1>6, <2>1, <2>2 DEF Wanted
<1>10. PipeWay(s, id, d)' \/ BlockedWay(id, d)'
  <2>1. PICK item : item = [sender |-> c, msg |-> id]
    OBVIOUS
  <2>2. item.msg = id /\ item.sender # d
    BY <2>1
  <2>3. CASE Longer(topipe[s], topipe'[s], item)
    <3>1. PICK k \in DOMAIN topipe'[s] : topipe'[s][k] = item
      BY <2>3, LongerEntries
    <3> QED BY <2>2, <3>1 DEF PipeWay
  <2>4. CASE blocked' = [stream |-> s, item |-> item]
    <3>1. blocked' # NoTask
      <4>1. item \in Posted
        BY <1>1, <2>1 DEF Posted, TypeOK
      <4>2. blocked' \in Waiting
        BY <2>4, <4>1 DEF Waiting
      <4> QED BY <4>2, TaskAssumption
    <3>2. blocked'.item = item
      BY <2>4
    <3> QED BY <2>2, <3>1, <3>2 DEF BlockedWay
  <2>5. Longer(topipe[s], topipe'[s], item) \/ blocked' = [stream |-> s, item |-> item]
    BY <1>1, <1>4, <1>6, <2>1 DEF Published
  <2> QED BY <2>3, <2>4, <2>5
<1>11. OnItsWay(s, id, d)'
  BY <1>9, <1>10 DEF OnItsWay
<1>12. state'[d] = "connected" /\ life'[d] = due.to
  BY <1>2, <1>7 DEF Connected
<1> QED BY <1>2, <1>11, <1>12

LEMMA NoneForgottenStep ==
  ASSUME TypeOK, InPlace, SubscriptionsKnown, NoneForgotten, [Next]_vars
  PROVE  NoneForgotten'
<1> SUFFICES ASSUME NEW due \in expected', NEW s \in Stream, OfStream(s, due.msg)'
             PROVE  \/ Delivered(due.to, due.msg)'
                    \/ \E c \in Ptr :
                         /\ state'[c] = "connected" /\ life'[c] = due.to
                         /\ OnItsWay(s, due.msg, c)'
  BY DEF NoneForgotten
<1>1. MessagesMove
  BY StepMoves
<1>2. ASSUME due \in expected, Delivered(due.to, due.msg) PROVE Delivered(due.to, due.msg)'
  BY <1>1, <1>2, DeliveredGrows
<1>3. ASSUME due \in expected, NEW c \in Ptr, state[c] = "connected", life[c] = due.to,
             OnItsWay(s, due.msg, c)
      PROVE  \/ Delivered(due.to, due.msg)'
             \/ state'[c] = "connected" /\ life'[c] = due.to /\ OnItsWay(s, due.msg, c)'
  <2>1. due.msg \in Message
    BY <1>3 DEF InPlace
  <2>2. OfStream(s, due.msg)
    BY <1>1, <2>1, LogGrows DEF OfStream
  <2>3. ~ Drop(c)
    BY <1>3 DEF Drop
  <2>4. ~ StreamCancel(c, s)
    BY <1>3, <2>2 DEF StreamCancel, OfStream, Holds
  <2>5. Keeps(s, c)
    BY <2>3, <2>4, KeepsStep
  <2>6. state'[c] = "connected" /\ life'[c] = due.to
    BY <1>3, <2>3, ConnectedStays
  <2> QED BY <1>1, <1>3, <2>2, <2>5, <2>6, WayStep
<1>4. CASE due \in expected
  <2>1. due.msg \in Message
    BY <1>4 DEF InPlace
  <2>2. OfStream(s, due.msg)
    BY <1>1, <2>1, LogGrows DEF OfStream
  <2> QED BY <1>2, <1>3, <1>4, <2>2 DEF NoneForgotten
<1>5. CASE due \notin expected
  BY <1>5, ExpectedOrigin, DueOnItsWay
<1> QED BY <1>4, <1>5

KnownInv == SubscriptionsKnown /\ NoneForgotten

\* The engine knows the subscriptions of those who stay, or hears of them, and
\* every delivery that is due is made or on its way.
THEOREM KnownCorrect == Spec => []KnownInv
<1>1. Init => KnownInv
  BY DEF Init, KnownInv, SubscriptionsKnown, NoneForgotten
<1>2. TypeOK /\ InPlace /\ LivesInv /\ KnownInv /\ [Next]_vars => KnownInv'
  BY KnownStep, NoneForgottenStep, StepLives DEF KnownInv, LivesInv
<1> QED BY <1>1, <1>2, MessagesCorrect, LivesCorrect, PTL DEF Spec, MessagesInv

\* Once a stream is drained, every delivery that became due, to a client that
\* has neither left nor cancelled, has been made: nothing is lost between the
\* server, the engine and the blocked send.
THEOREM NoneMissedHolds == Spec => []NoneMissed
<1>1. TypeOK /\ InPlace /\ KnownInv => NoneMissed
  <2> SUFFICES ASSUME TypeOK, InPlace, KnownInv, NEW due \in expected,
                      Drained(log[due.msg].stream)
               PROVE  due \in ToSet(delivered)
    BY DEF NoneMissed
  <2>1. due.msg \in Message
    BY DEF InPlace
  <2>2. PICK s \in Stream : s = log[due.msg].stream
    BY <2>1, LogEntries
  <2>3. OfStream(s, due.msg)
    BY <2>1, <2>2 DEF OfStream, Holds, Message
  <2>4. \A c \in Ptr : ~ OnItsWay(s, due.msg, c)
    BY <2>2 DEF Drained, OnItsWay, ItemWay, TaskWay, PipeWay, BlockedWay
  <2>5. Delivered(due.to, due.msg)
    BY <2>3, <2>4 DEF KnownInv, NoneForgotten
  <2>6. PICK i \in DOMAIN delivered : delivered[i].to = due.to /\ delivered[i].msg = due.msg
    BY <2>5 DEF Delivered
  <2>7. due \in [to : Nat, msg : Nat]
    BY DEF TypeOK
  <2>8. delivered[i] \in [to : Nat, msg : Nat]
    <3>1. PICK S : S = [to : Nat, msg : Nat]
      OBVIOUS
    <3>2. delivered \in Seq(S)
      BY <3>1 DEF TypeOK
    <3>3. delivered[i] \in S
      BY ONLY <2>6, <3>2
    <3> QED BY <3>1, <3>3
  <2>9. delivered[i] = due
    BY <2>6, <2>7, <2>8
  <2> QED BY <2>9 DEF ToSet
<1> QED BY <1>1, MessagesCorrect, KnownCorrect, PTL DEF MessagesInv

-----------------------------------------------------------------------------
\* The tables, from the first connection to the end of the server thread

\* The registry refers to the context that has the address.
Registered ==
  /\ registry # NoPtr => state[registry] # "free"
  /\ \A c \in Ptr : address[c] = "address" <=> registry = c

\* The table of zombies refers to zombies.
Listed ==
  \A p \in Peer : zombies[p] # NoPtr => state[zombies[p]] = "zombie" /\ peer[zombies[p]] = p

\* Of a peer there is one context that serves it.
OnePerPeer ==
  \A c, d \in Ptr : Connected(c) /\ Connected(d) /\ peer[c] = peer[d] => c = d

\* A peer that is served while its zombie lives has come back.
CameBack ==
  \A c, d \in Ptr :
    Connected(c) /\ state[d] = "zombie" /\ peer[c] = peer[d] => peer[c] \in displaced

\* A zombie is in the table, or another one of its peer was.
ListedOrDisplaced ==
  \A c \in Ptr : state[c] = "zombie" => zombies[peer[c]] = c \/ peer[c] \in displaced

TableTypes ==
  /\ state \in [Ptr -> {"free", "connected", "zombie"}]
  /\ peer \in [Ptr -> Peer \cup {NoPeer}]
  /\ zombies \in [Peer -> Ptr \cup {NoPtr}]
  /\ address \in [Ptr -> {NULL, "", "address"}]
  /\ registry \in Ptr \cup {NoPtr}
  /\ \A c \in Ptr : state[c] # "free" => peer[c] \in Peer

\* How far the end has come.
Progress ==
  /\ phase \in {"serving", "clients", "zombies", "streams", "ended"}
  /\ phase \in {"zombies", "streams", "ended"} => \A c \in Ptr : ~ Connected(c)
  /\ phase \in {"streams", "ended"} => \A p \in Peer : zombies[p] = NoPtr

\* TablesExact is kept because a context that goes takes its own entries with
\* it, and FreedAtEnd because a zombie that no table has was displaced.
TablesInv ==
  /\ TableTypes /\ Registered /\ Listed
  /\ OnePerPeer /\ CameBack /\ ListedOrDisplaced
  /\ Progress

-----------------------------------------------------------------------------
\* What a step may do to the tables

\* A peer that is not served gets a context.
Opens(p, c) ==
  /\ p \in Peer /\ c \in Ptr /\ state[c] = "free" /\ phase = "serving"
  /\ ~\E d \in Ptr : Connected(d) /\ peer[d] = p
  /\ state' = [state EXCEPT ![c] = "connected"]
  /\ peer' = [peer EXCEPT ![c] = p]
  /\ \/ address' = [address EXCEPT ![c] = ""] /\ UNCHANGED registry
     \/ /\ registry = NoPtr
        /\ address' = [address EXCEPT ![c] = "address"]
        /\ registry' = c
  /\ displaced' = IF \E d \in Ptr : state[d] = "zombie" /\ peer[d] = p
                  THEN displaced \cup {p} ELSE displaced
  /\ UNCHANGED <<zombies, phase>>

\* A context is freed, with its entries.
Frees(c) ==
  /\ c \in Ptr /\ state[c] # "free"
  /\ state' = [state EXCEPT ![c] = "free"]
  /\ peer' = [peer EXCEPT ![c] = NoPeer]
  /\ \/ Connected(c) /\ UNCHANGED zombies
     \/ state[c] = "zombie" /\ zombies' = [zombies EXCEPT ![peer[c]] = NoPtr]
  /\ ClientTerminate(c)
  /\ UNCHANGED <<displaced, phase>>

\* A context becomes a zombie.
Parks(c) ==
  /\ c \in Ptr /\ Connected(c)
  /\ state' = [state EXCEPT ![c] = "zombie"]
  /\ zombies' = [zombies EXCEPT ![peer[c]] = IF @ = NoPtr THEN c ELSE @]
  /\ UNCHANGED registration \/ (registry # NoPtr /\ Unregister)
  /\ UNCHANGED <<peer, displaced, phase>>

\* No context changes.
Leaves ==
  /\ UNCHANGED <<state, peer, zombies, displaced>>
  /\ UNCHANGED registration \/ (registry # NoPtr /\ Unregister)
  /\ \/ UNCHANGED phase
     \/ Advance("serving", "clients")
     \/ Advance("clients", "zombies") /\ \A c \in Ptr : ~ Connected(c)
     \/ Advance("zombies", "streams") /\ \A p \in Peer : zombies[p] = NoPtr
     \/ Advance("streams", "ended")

TablesMove ==
  \/ \E p \in Peer, c \in Ptr : Opens(p, c)
  \/ \E c \in Ptr : Frees(c) \/ Parks(c)
  \/ Leaves

-----------------------------------------------------------------------------
\* Each movement keeps the invariant

\* An entry that goes leaves the registry empty.
LEMMA Unregistered ==
  ASSUME TableTypes, Registered, registry # NoPtr, Unregister
  PROVE  /\ registry' = NoPtr
         /\ address' \in [Ptr -> {NULL, "", "address"}]
         /\ \A c \in Ptr : address'[c] # "address"
<1>1. registry \in Ptr
  BY DEF TableTypes
<1> QED BY <1>1, NullAssumption DEF Unregister, Registered, TableTypes

LEMMA ListedZombie ==
  ASSUME TablesInv, NEW p \in Peer, NEW z, z = zombies[p], z # NoPtr
  PROVE  z \in Ptr /\ state[z] = "zombie" /\ peer[z] = p
<1>1. zombies \in [Peer -> Ptr \cup {NoPtr}] /\ Listed
  BY DEF TablesInv, TableTypes
<1>2. z \in Ptr
  BY <1>1
<1>3. state[z] = "zombie" /\ peer[z] = p
  BY <1>1 DEF Listed
<1> QED BY <1>2, <1>3

LEMMA OpensKeeps ==
  ASSUME TablesInv, NEW p \in Peer, NEW c \in Ptr, Opens(p, c)
  PROVE  TablesInv'
<1> USE DEF Opens, Connected
<1>1. TableTypes'
  BY NamesAssumption DEF TablesInv, TableTypes
<1>2. Registered'
  <2>1. registry # c
    BY NamesAssumption DEF TablesInv, Registered
  <2>2. \A d \in Ptr : d # NoPtr
    BY NamesAssumption
  <2>3. registry' # NoPtr => state'[registry'] # "free"
    BY <2>1 DEF TablesInv, TableTypes, Registered
  <2>4. \A d \in Ptr : address'[d] = "address" <=> registry' = d
    BY <2>1, <2>2, NullAssumption DEF TablesInv, TableTypes, Registered
  <2> QED BY <2>3, <2>4 DEF Registered
<1>3. Listed'
  <2> SUFFICES ASSUME NEW q \in Peer, zombies[q] # NoPtr
               PROVE  state'[zombies[q]] = "zombie" /\ peer'[zombies[q]] = q
    BY DEF Listed
  <2>1. PICK z : z = zombies[q]
    OBVIOUS
  <2>2. z \in Ptr /\ state[z] = "zombie" /\ peer[z] = q
    BY ONLY TablesInv, q \in Peer, <2>1, zombies[q] # NoPtr, ListedZombie
  <2>3. state'[z] = "zombie" /\ peer'[z] = q
    BY <2>2 DEF TablesInv, TableTypes
  <2> QED BY <2>1, <2>3
<1>4. OnePerPeer'
  BY DEF TablesInv, TableTypes, OnePerPeer
<1>5. CameBack'
  BY DEF TablesInv, TableTypes, CameBack
<1>6. ListedOrDisplaced'
  BY DEF TablesInv, TableTypes, ListedOrDisplaced
<1>7. Progress'
  BY DEF TablesInv, Progress
<1> QED BY <1>1, <1>2, <1>3, <1>4, <1>5, <1>6, <1>7 DEF TablesInv

LEMMA FreesKeeps ==
  ASSUME TablesInv, NEW c \in Ptr, Frees(c)
  PROVE  TablesInv'
<1> USE DEF Connected
<1>1. peer[c] \in Peer
  BY DEF TablesInv, TableTypes, Frees
<1>2. /\ address' \in [Ptr -> {NULL, "", "address"}] /\ registry' \in {registry, NoPtr}
      /\ registry' # c
      /\ \A d \in Ptr : address'[d] = "address" <=> registry' = d
  <2>1. CASE address[c] = "address" /\ Unregister
    <3>1. registry = c /\ registry # NoPtr
      BY <2>1, NamesAssumption DEF TablesInv, Registered
    <3> QED BY <2>1, <3>1, Unregistered, NamesAssumption DEF TablesInv
  <2>2. CASE address[c] = "" /\ address' = [address EXCEPT ![c] = NULL] /\ UNCHANGED registry
    BY <2>2, NullAssumption DEF TablesInv, TableTypes, Registered
  <2>3. CASE address[c] = NULL /\ UNCHANGED registration
    BY <2>3, NullAssumption DEF TablesInv, TableTypes, Registered, registration
  <2> QED BY <2>1, <2>2, <2>3 DEF Frees, ClientTerminate
<1>3. zombies' \in [Peer -> Ptr \cup {NoPtr}] /\ \A p \in Peer : zombies'[p] \in {zombies[p], NoPtr}
  BY <1>1 DEF TablesInv, TableTypes, Frees
<1>4. TableTypes'
  BY <1>2, <1>3 DEF TablesInv, TableTypes, Frees
<1>5. Registered'
  BY <1>2, NamesAssumption DEF TablesInv, TableTypes, Registered, Frees
<1>6. Listed'
  <2>1. \A p \in Peer : zombies'[p] # c
    <3> SUFFICES ASSUME NEW p \in Peer, zombies'[p] = c PROVE FALSE
      OBVIOUS
    <3>1. c # NoPtr
      BY NamesAssumption
    <3>2. zombies[p] = c
      BY <1>3, <3>1
    <3>3. state[c] = "zombie" /\ peer[c] = p
      BY <3>1, <3>2 DEF TablesInv, Listed
    <3> QED BY <3>1, <3>3 DEF Frees, TablesInv, TableTypes
  <2> SUFFICES ASSUME NEW q \in Peer, zombies'[q] # NoPtr
               PROVE  state'[zombies'[q]] = "zombie" /\ peer'[zombies'[q]] = q
    BY DEF Listed
  <2>2. zombies'[q] = zombies[q] /\ zombies[q] # c
    BY <1>3, <2>1
  <2>3. zombies[q] \in Ptr /\ state[zombies[q]] = "zombie" /\ peer[zombies[q]] = q
    BY <2>2 DEF TablesInv, TableTypes, Listed
  <2> QED BY <2>2, <2>3 DEF TablesInv, TableTypes, Frees
<1>7. OnePerPeer' /\ CameBack'
  BY DEF TablesInv, TableTypes, OnePerPeer, CameBack, Frees
<1>8. ListedOrDisplaced'
  BY <1>1, NamesAssumption DEF TablesInv, TableTypes, ListedOrDisplaced, Frees
<1>9. Progress'
  BY <1>3 DEF TablesInv, TableTypes, Progress, Frees
<1> QED BY <1>4, <1>5, <1>6, <1>7, <1>8, <1>9 DEF TablesInv

LEMMA SameRegistration ==
  ASSUME TablesInv, UNCHANGED registration \/ (registry # NoPtr /\ Unregister),
         registry # NoPtr => state'[registry] # "free"
  PROVE  /\ Registered'
         /\ address' \in [Ptr -> {NULL, "", "address"}] /\ registry' \in Ptr \cup {NoPtr}
<1>1. CASE UNCHANGED registration
  BY <1>1 DEF TablesInv, TableTypes, Registered, registration
<1>2. CASE registry # NoPtr /\ Unregister
  BY <1>2, Unregistered, NamesAssumption DEF TablesInv, Registered
<1> QED BY <1>1, <1>2

LEMMA ParksKeeps ==
  ASSUME TablesInv, NEW c \in Ptr, Parks(c)
  PROVE  TablesInv'
<1> USE DEF Connected
<1>1. peer[c] \in Peer
  BY DEF TablesInv, TableTypes, Parks
<1>2. registry # NoPtr => state'[registry] # "free"
  BY DEF TablesInv, TableTypes, Registered, Parks
<1>3. Registered' /\ address' \in [Ptr -> {NULL, "", "address"}] /\ registry' \in Ptr \cup {NoPtr}
  BY <1>2, SameRegistration DEF Parks
<1>4. TableTypes'
  BY <1>1, <1>3 DEF TablesInv, TableTypes, Parks
<1>5. Listed'
  <2> SUFFICES ASSUME NEW q \in Peer, zombies'[q] # NoPtr
               PROVE  state'[zombies'[q]] = "zombie" /\ peer'[zombies'[q]] = q
    BY DEF Listed
  <2>1. CASE zombies'[q] = zombies[q]
    <3>1. zombies[q] \in Ptr /\ state[zombies[q]] = "zombie" /\ peer[zombies[q]] = q
      BY <2>1 DEF TablesInv, TableTypes, Listed
    <3> QED BY <2>1, <3>1 DEF TablesInv, TableTypes, Parks
  <2>2. CASE zombies'[q] # zombies[q]
    <3>1. q = peer[c] /\ zombies'[q] = c
      BY <1>1, <2>2 DEF TablesInv, TableTypes, Parks
    <3> QED BY <3>1 DEF TablesInv, TableTypes, Parks
  <2> QED BY <2>1, <2>2
<1>6. OnePerPeer'
  BY DEF TablesInv, TableTypes, OnePerPeer, Parks
<1>7. CameBack'
  BY DEF TablesInv, TableTypes, OnePerPeer, CameBack, Parks
<1>8. ListedOrDisplaced'
  <2> SUFFICES ASSUME NEW d \in Ptr, state'[d] = "zombie", peer[d] \notin displaced
               PROVE  zombies'[peer[d]] = d
    BY DEF ListedOrDisplaced, Parks
  <2>1. state[d] # "free" /\ peer[d] \in Peer
    BY DEF TablesInv, TableTypes, Parks
  <2>2. CASE d = c
    <3>1. PICK e : e = zombies[peer[c]]
      OBVIOUS
    <3>2. e # NoPtr => e \in Ptr /\ state[e] = "zombie" /\ peer[e] = peer[c]
      BY ONLY TablesInv, <1>1, <3>1, ListedZombie
    <3>3. e = NoPtr
      BY <2>2, <3>2 DEF TablesInv, CameBack, Parks
    <3> QED BY <1>1, <2>2, <3>1, <3>3 DEF TablesInv, TableTypes, Parks
  <2>3. CASE d # c
    <3>1. zombies[peer[d]] = d
      BY <2>3 DEF TablesInv, TableTypes, ListedOrDisplaced, Parks
    <3> QED BY <2>1, <3>1, NamesAssumption DEF TablesInv, TableTypes, Parks
  <2> QED BY <2>2, <2>3
<1>9. Progress'
  BY <1>1 DEF TablesInv, TableTypes, Progress, Parks
<1> QED BY <1>3, <1>4, <1>5, <1>6, <1>7, <1>8, <1>9 DEF TablesInv

LEMMA LeavesKeeps ==
  ASSUME TablesInv, Leaves
  PROVE  TablesInv'
<1> USE DEF Connected
<1>1. registry # NoPtr => state'[registry] # "free"
  BY DEF TablesInv, Registered, Leaves
<1>2. Registered' /\ address' \in [Ptr -> {NULL, "", "address"}] /\ registry' \in Ptr \cup {NoPtr}
  BY <1>1, SameRegistration DEF Leaves
<1>3. TableTypes'
  BY <1>2 DEF TablesInv, TableTypes, Leaves
<1>4. Listed' /\ OnePerPeer' /\ CameBack' /\ ListedOrDisplaced'
  BY DEF TablesInv, Listed, OnePerPeer, CameBack, ListedOrDisplaced, Leaves
<1>5. Progress'
  BY DEF TablesInv, Progress, Leaves, Advance
<1> QED BY <1>2, <1>3, <1>4, <1>5 DEF TablesInv

-----------------------------------------------------------------------------
\* Each step is a movement

\* While the broker serves, it is Streams.
ServingInv == phase = "serving" => TypeOK /\ stopping = NoStream

LEMMA ServesStreams ==
  ASSUME ServingInv, ShutdownNext, phase = "serving"
  PROVE  [Next]_vars
<1>1. CASE Serving
  BY <1>1, Zenon DEF Serving, DropAs, OpenAs, ForwardAs, Next, Server
<1>2. CASE Begin
  BY <1>2 DEF Begin
<1>3. CASE Destroying
  BY <1>3 DEF ServingInv, Destroying, DestroyClient, DestroyZombie, StopEngine, ClientsGone,
     ZombiesGone, EngineGone, End, Advance
<1>4. CASE \E s \in Stream : EngineRuns(s)
  <2>1. PICK s \in Stream : EngineRuns(s)
    BY <1>4
  <2>2. ~ EngineEnds(s)
    <3>1. ASSUME cmdpipe[s] # <<>> PROVE Head(cmdpipe[s]) \in Command
      <4>1. PICK pipe : pipe = cmdpipe[s]
        OBVIOUS
      <4>2. pipe \in Seq(Command) /\ pipe # <<>>
        BY <3>1, <4>1 DEF ServingInv, TypeOK
      <4> QED BY ONLY <4>1, <4>2
    <3>2. Term.client \notin Ptr
      BY NamesAssumption DEF Term
    <3> QED BY <3>1, <3>2, Zenon DEF EngineEnds, Command
  <2>3. Engine(s)
    BY <2>1, <2>2 DEF EngineRuns
  <2> QED BY <2>3 DEF Next
<1> QED BY <1>1, <1>2, <1>3, <1>4 DEF ShutdownNext

LEMMA ServingKept ==
  ASSUME ServingInv, [ShutdownNext]_allVars
  PROVE  ServingInv'
<1>1. CASE UNCHANGED allVars
  <2>1. UNCHANGED vars /\ UNCHANGED phase /\ UNCHANGED stopping
    BY <1>1 DEF allVars, ending
  <2> QED BY <2>1, NextTyped DEF ServingInv
<1>2. CASE ShutdownNext /\ phase' = "serving"
  <2>1. phase = "serving" /\ stopping' = stopping
    BY <1>2 DEF ShutdownNext, Serving, DropAs, OpenAs, ForwardAs, Begin, Destroying, DestroyClient,
       DestroyZombie, StopEngine, ClientsGone, ZombiesGone, EngineGone, End, EngineRuns, EngineEnds,
       Advance, ending, ServingInv
  <2> QED BY <1>2, <2>1, ServesStreams, NextTyped DEF ServingInv
<1> QED BY <1>1, <1>2 DEF ServingInv

\* A context that is dropped, or destroyed at the end, is freed or parked.
LEMMA DestroyMoves ==
  ASSUME TablesInv, NEW c \in Ptr, Connected(c), DestroyContext(c), UNCHANGED <<displaced, phase>>,
         \/ IF Finalized(c) THEN ClientTerminate(c) ELSE UNCHANGED registration
         \/ address[c] = "address" /\ Unregister
  PROVE  Frees(c) \/ Parks(c)
<1>1. registry # NoPtr \/ address[c] # "address"
  BY NamesAssumption DEF TablesInv, Registered
<1>2. CASE refcount[c] = 0
  <2>1. Finalized(c)
    BY <1>2 DEF DestroyContext, Free, Finalized, Connected, TablesInv, TableTypes
  <2> QED BY <1>2, <2>1 DEF DestroyContext, Free, Frees, ClientTerminate, Connected
<1>3. CASE refcount[c] # 0
  <2>1. ~ Finalized(c)
    BY <1>3 DEF DestroyContext, Finalized, Connected, TablesInv, TableTypes
  <2> QED BY <1>1, <1>3, <2>1 DEF DestroyContext, Parks, Connected
<1> QED BY <1>2, <1>3

LEMMA ForwardMovesTables ==
  ASSUME TablesInv, TypeOK, phase' = phase, NEW s \in Stream, ForwardAs(s)
  PROVE  TablesMove
<1>1. PICK c : c = Head(frompipe[s]).client
  OBVIOUS
<1>2. c \in Ptr
  <2>1. PICK pipe : pipe = frompipe[s]
    OBVIOUS
  <2>2. pipe \in Seq(Relayed) /\ pipe # <<>>
    BY <2>1 DEF TypeOK, ForwardAs, ForwardTraffic
  <2>3. Head(pipe) \in Relayed
    BY ONLY <2>2
  <2> QED BY <1>1, <2>1, <2>3 DEF Relayed
<1>3. UNCHANGED displaced
  BY DEF ForwardAs
<1>4. UNCHANGED contexts \/ (state[c] # "free" /\ PutClient(c))
  BY <1>1 DEF ForwardAs, ForwardTraffic
<1>5. IF \E d \in Ptr : Finalized(d) THEN ClientTerminate(c) ELSE UNCHANGED registration
  BY <1>1 DEF ForwardAs
<1>6. CASE UNCHANGED <<state, peer, zombies>>
  <2>1. ~ \E d \in Ptr : Finalized(d)
    BY <1>6 DEF Finalized
  <2> QED BY <1>3, <1>5, <1>6, <2>1 DEF TablesMove, Leaves
<1>7. CASE PutClient(c) /\ refcount[c] = 1 /\ state[c] = "zombie"
  <2>1. Finalized(c)
    BY <1>2, <1>7 DEF PutClient, Free, Finalized, TablesInv, TableTypes
  <2> QED BY <1>2, <1>3, <1>5, <1>7, <2>1 DEF PutClient, Free, TablesMove, Frees
<1> QED BY <1>4, <1>6, <1>7 DEF PutClient, contexts

LEMMA ServingMoves ==
  ASSUME TablesInv, ServingInv, Serving
  PROVE  TablesMove
<1>1. TypeOK /\ phase = "serving"
  BY DEF Serving, ServingInv
<1>2. CASE \E c \in Ptr : DropAs(c)
  <2>1. PICK c \in Ptr : DropAs(c)
    BY <1>2
  <2>2. Connected(c) /\ DestroyContext(c) /\ UNCHANGED <<displaced, phase>>
    BY <2>1 DEF DropAs, Drop, ending
  <2>3. \/ IF Finalized(c) THEN ClientTerminate(c) ELSE UNCHANGED registration
        \/ address[c] = "address" /\ Unregister
    BY <2>1 DEF DropAs
  <2> QED BY <2>2, <2>3, DestroyMoves DEF TablesMove
<1>3. CASE \E c \in Ptr, p \in Peer : OpenAs(p, c)
  <2>1. PICK c \in Ptr, p \in Peer : OpenAs(p, c)
    BY <1>3
  <2>2. Opens(p, c)
    BY <1>1, <2>1 DEF OpenAs, Open, Opens, ending, Connected
  <2> QED BY <2>2 DEF TablesMove
<1>4. CASE \E s \in Stream : ForwardAs(s)
  <2>1. PICK s \in Stream : ForwardAs(s)
    BY <1>4
  <2>2. phase' = phase
    BY <2>1 DEF ForwardAs, ending
  <2> QED BY <1>1, <2>1, <2>2, ForwardMovesTables
<1>5. CASE /\ \/ \E c \in Ptr :
                \/ \E s \in Stream : StreamWrite(c, s)
                \/ \E s \in Stream, pattern \in Pattern : StreamRead(c, s, pattern)
                \/ \E subject \in Subject : StreamSend(c, subject)
              \/ SendCompletes
           /\ UNCHANGED <<ending, registration, displaced>>
  <2>1. UNCHANGED <<state, peer, zombies>>
    BY <1>5 DEF StreamWrite, StreamRead, StreamSend, SendCompletes, contexts
  <2> QED BY <1>5, <2>1 DEF TablesMove, Leaves, ending
<1> QED BY <1>2, <1>3, <1>4, <1>5 DEF Serving

LEMMA DestroyingMoves ==
  ASSUME TablesInv, Destroying
  PROVE  TablesMove
<1>1. ASSUME NEW c \in Ptr, DestroyClient(c) PROVE TablesMove
  <2>1. Connected(c) /\ DestroyContext(c) /\ UNCHANGED <<displaced, phase>>
    BY <1>1 DEF DestroyClient, Untouched
  <2>2. IF Finalized(c) THEN ClientTerminate(c) ELSE UNCHANGED registration
    BY <1>1 DEF DestroyClient
  <2> QED BY <2>1, <2>2, DestroyMoves DEF TablesMove
<1>2. ASSUME NEW p \in Peer, DestroyZombie(p) PROVE TablesMove
  <2>1. PICK c : c = zombies[p]
    OBVIOUS
  <2>2. c \in Ptr /\ state[c] = "zombie" /\ peer[c] = p
    BY <1>2, <2>1, ListedZombie DEF DestroyZombie
  <2>3. Frees(c)
    BY <1>2, <2>1, <2>2 DEF DestroyZombie, Free, Untouched, Frees
  <2> QED BY <2>2, <2>3 DEF TablesMove
<1>3. CASE ClientsGone \/ ZombiesGone
  BY <1>3 DEF ClientsGone, ZombiesGone, vars, contexts, TablesMove, Leaves, Advance
<1>4. CASE EngineGone \/ \E s \in Stream : StopEngine(s)
  BY <1>4 DEF EngineGone, StopEngine, contexts, TablesMove, Leaves
<1>5. CASE End
  BY <1>5 DEF End, vars, contexts, TablesMove, Leaves, Advance
<1> QED BY <1>1, <1>2, <1>3, <1>4, <1>5 DEF Destroying

LEMMA StepMovesTables ==
  ASSUME TablesInv, ServingInv, [ShutdownNext]_allVars
  PROVE  TablesMove
<1>1. CASE UNCHANGED allVars
  BY <1>1 DEF allVars, vars, contexts, ending, registration, TablesMove, Leaves
<1>2. CASE Serving
  BY <1>2, ServingMoves
<1>3. CASE Begin
  BY <1>3 DEF Begin, vars, contexts, TablesMove, Leaves, Advance
<1>4. CASE Destroying
  BY <1>4, DestroyingMoves
<1>5. CASE \E s \in Stream : EngineRuns(s)
  <2>1. UNCHANGED <<state, peer, zombies, registration, displaced, phase>>
    BY <1>5 DEF EngineRuns, EngineEnds, Engine, EngineCommand, EngineMessage, Relay, RelayDone,
       contexts, ending
  <2> QED BY <2>1 DEF TablesMove, Leaves
<1> QED BY <1>1, <1>2, <1>3, <1>4, <1>5 DEF ShutdownNext

-----------------------------------------------------------------------------
\* The theorems

\* While the broker serves, each of its steps is one of the server thread and
\* the engines in Streams: nothing is taken apart before the reactor ended.
THEOREM ServingCorrect == ShutdownSpec => []ServingInv
<1>1. ShutdownInit => ServingInv
  BY InitTyped DEF ShutdownInit, ServingInv
<1>2. ServingInv /\ [ShutdownNext]_allVars => ServingInv'
  BY ServingKept
<1> QED BY <1>1, <1>2, PTL DEF ShutdownSpec

\* The invariant of the tables, from the first OPEN to the end
\* (s_client_destroy, engine_client_put, s_server_destroy, client_terminate).
THEOREM TablesCorrect == ShutdownSpec => []TablesInv
<1>1. ShutdownInit => TablesInv
  <2> SUFFICES ASSUME ShutdownInit PROVE TablesInv
    OBVIOUS
  <2>1. /\ state = [c \in Ptr |-> "free"] /\ peer = [c \in Ptr |-> NoPeer]
        /\ zombies = [p \in Peer |-> NoPtr] /\ address = [c \in Ptr |-> NULL]
        /\ registry = NoPtr /\ phase = "serving"
    BY DEF ShutdownInit, Init
  <2>2. TableTypes
    BY <2>1 DEF TableTypes
  <2>3. Registered /\ Listed
    BY <2>1, NamesAssumption, NullAssumption DEF Registered, Listed
  <2>4. OnePerPeer /\ CameBack /\ ListedOrDisplaced
    BY <2>1 DEF OnePerPeer, CameBack, ListedOrDisplaced, Connected
  <2>5. Progress
    BY <2>1 DEF Progress
  <2> QED BY <2>2, <2>3, <2>4, <2>5 DEF TablesInv
<1>2. TablesInv /\ ServingInv /\ [ShutdownNext]_allVars => TablesInv'
  BY StepMovesTables, OpensKeeps, FreesKeeps, ParksKeeps, LeavesKeeps DEF TablesMove, Frees, Parks
<1> QED BY <1>1, <1>2, ServingCorrect, PTL DEF ShutdownSpec

\* No table ever refers to a context that is gone, while the broker serves
\* and while it is taken apart: nothing is freed twice.
THEOREM TablesExactHolds == ShutdownSpec => []TablesExact
<1>1. TablesInv => TablesExact
  BY DEF TablesInv, Registered, Listed, TablesExact
<1> QED BY <1>1, TablesCorrect, PTL

\* At the end all contexts are freed, but for those of peers that came back
\* while their zombie lived.
THEOREM FreedAtEndHolds == ShutdownSpec => []FreedAtEnd
<1>1. TablesInv => FreedAtEnd
  <2> SUFFICES ASSUME TablesInv, phase = "ended", NEW c \in Ptr, state[c] # "free"
               PROVE  peer[c] \in displaced
    BY DEF FreedAtEnd
  <2>1. state[c] = "zombie" /\ peer[c] \in Peer /\ zombies[peer[c]] = NoPtr
    BY DEF TablesInv, TableTypes, Progress, Connected
  <2> QED BY <2>1, NamesAssumption DEF TablesInv, ListedOrDisplaced
<1> QED BY <1>1, TablesCorrect, PTL
=============================================================================
