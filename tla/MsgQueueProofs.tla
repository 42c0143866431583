--------------------------- MODULE MsgQueueProofs ---------------------------
(***************************************************************************)
(* Proofs about MsgQueue and Mailbox, for any sizes, limits, messages and  *)
(* reloads: first the queue, then the actor around it.                     *)
(***************************************************************************)
EXTENDS Mailbox, TLAPS, Lemmas

LEMMA MessageFacts ==
  ASSUME NEW msg \in Message
  PROVE  msg.id \in Nat /\ msg.size \in Size /\ msg.size \in Nat
<1>1. msg.id \in 1 .. MaxMessages /\ msg.size \in Size
  BY DEF Message
<1>2. msg.id \in Nat
  BY <1>1, MessagesAssumption
<1> QED BY <1>1, <1>2, SizeAssumption

\* The same for all messages of a list.
LEMMA ListFacts ==
  ASSUME NEW list \in Seq(Message)
  PROVE  \A i \in 1 .. Len(list) : list[i].id \in Nat /\ list[i].size \in Nat
<1>1. \A i \in 1 .. Len(list) : list[i] \in Message
  OBVIOUS
<1> QED BY <1>1, MessageFacts

-----------------------------------------------------------------------------
\* Sums over lists

\* The recursive function in Total.
IsSum(list, sum) ==
  sum = [n \in 0 .. Len(list) |-> IF n = 0 THEN 0 ELSE sum[n - 1] + list[n].size]

\* Total is the last of the partial sums, which are numbers.
LEMMA TotalIsLast ==
  ASSUME NEW list \in Seq(Message)
  PROVE  \E sum \in [0 .. Len(list) -> Nat] :
           /\ sum[0] = 0
           /\ \A n \in 1 .. Len(list) : sum[n] = sum[n - 1] + list[n].size
           /\ Queue!Total(list) = sum[Len(list)]
<1> DEFINE k == Len(list)
           step == [vn \in Nat \X (1 .. k) |-> vn[1] + list[vn[2]].size]
           chosen == CHOOSE f : f = [n \in 0 .. k |-> IF n = 0 THEN 0
                                                      ELSE f[n - 1] + list[n].size]
<1>1. k \in Nat
  OBVIOUS
<1>2. \A n \in 1 .. k : list[n].size \in Nat
  BY ListFacts
<1>3. step \in [Nat \X (1 .. k) -> Nat]
  BY <1>2
<1>4. PICK f \in [0 .. k -> Nat] :
        f[0] = 0 /\ \A n \in 1 .. k : f[n] = step[<<f[n - 1], n>>]
  <2> HIDE DEF step, k
  <2> QED BY <1>1, <1>3, NatRecursion
<1>5. \A n \in 1 .. k : f[n] = f[n - 1] + list[n].size
  <2> SUFFICES ASSUME NEW n \in 1 .. k PROVE f[n] = f[n - 1] + list[n].size
    OBVIOUS
  <2>1. f[n - 1] \in Nat
    BY <1>1
  <2> QED BY <1>4, <2>1
<1>6. IsSum(list, f)
  <2>1. ASSUME NEW n \in 0 .. k
        PROVE  f[n] = IF n = 0 THEN 0 ELSE f[n - 1] + list[n].size
    <3>1. n # 0 => n \in 1 .. k
      BY <1>1
    <3> QED BY <1>4, <1>5, <3>1
  <2> QED BY <2>1 DEF IsSum
<1>7. IsSum(list, chosen) /\ Queue!Total(list) = chosen[k]
  BY <1>6, Zenon DEF IsSum, Queue!Total
<1>8. /\ chosen[0] = 0
      /\ \A n \in 1 .. k : chosen[n] = chosen[n - 1] + list[n].size
      /\ DOMAIN chosen = 0 .. k /\ chosen = [n \in 0 .. k |-> chosen[n]]
  <2> HIDE DEF chosen
  <2> QED BY <1>1, <1>7 DEF IsSum
<1> HIDE DEF chosen
<1>9. \A n \in 0 .. k : chosen[n] \in Nat
  <2> DEFINE G == {n \in 0 .. k : chosen[n] \in Nat}
  <2>1. 0 \in G
    BY <1>1, <1>8
  <2>2. ASSUME NEW n \in 0 .. k - 1, n \in G PROVE n + 1 \in G
    <3>1. n + 1 \in 1 .. k /\ (n + 1) - 1 = n
      BY <1>1
    <3>2. chosen[n + 1] = chosen[n] + list[n + 1].size
      BY <1>8, <3>1
    <3> QED BY <1>2, <2>2, <3>1, <3>2
  <2>3. 0 .. k \subseteq G
    <3> HIDE DEF G, k
    <3> QED BY <1>1, <2>1, <2>2, UpTo
  <2> QED BY <2>3
<1> QED BY <1>7, <1>8, <1>9

LEMMA TotalEmpty == Queue!Total(<<>>) = 0
<1>1. <<>> \in Seq(Message) /\ Len(<<>>) = 0
  OBVIOUS
<1> QED BY <1>1, TotalIsLast

\* A message that joins adds its size.
LEMMA TotalAppend ==
  ASSUME NEW list \in Seq(Message), NEW msg \in Message
  PROVE  /\ Queue!Total(list) \in Nat
         /\ Queue!Total(Append(list, msg)) = Queue!Total(list) + msg.size
<1> DEFINE longer == Append(list, msg)
           k == Len(list)
<1>1. /\ longer \in Seq(Message) /\ Len(longer) = k + 1 /\ k \in Nat
      /\ \A i \in 1 .. k : list[i] = longer[i]
      /\ longer[k + 1] = msg
  OBVIOUS
<1> HIDE DEF longer
<1>2. PICK sum \in [0 .. k -> Nat] :
        /\ sum[0] = 0
        /\ \A n \in 1 .. k : sum[n] = sum[n - 1] + list[n].size
        /\ Queue!Total(list) = sum[k]
  BY TotalIsLast
<1>3. PICK sum2 \in [0 .. k + 1 -> Nat] :
        /\ sum2[0] = 0
        /\ \A n \in 1 .. k + 1 : sum2[n] = sum2[n - 1] + longer[n].size
        /\ Queue!Total(longer) = sum2[k + 1]
  BY <1>1, TotalIsLast
<1> DEFINE G == {n \in 0 .. k : sum[n] = sum2[n]}
<1>4. 0 \in G
  BY <1>1, <1>2, <1>3
<1>5. ASSUME NEW n \in 0 .. k - 1, n \in G PROVE n + 1 \in G
  <2>1. n + 1 \in 1 .. k /\ n + 1 \in 1 .. k + 1 /\ (n + 1) - 1 = n
    BY <1>1
  <2>2. /\ sum[n + 1] = sum[n] + list[n + 1].size
        /\ sum2[n + 1] = sum2[n] + list[n + 1].size
    BY <1>1, <1>2, <1>3, <2>1
  <2> QED BY <1>5, <2>1, <2>2
<1>6. 0 .. k \subseteq G
  <2> HIDE DEF G, k
  <2> QED BY <1>1, <1>4, <1>5, UpTo
<1>7. sum[k] = sum2[k]
  BY <1>1, <1>6
<1>8. sum2[k + 1] = sum2[k] + msg.size
  <2>1. k + 1 \in 1 .. k + 1 /\ (k + 1) - 1 = k
    BY <1>1
  <2>2. sum2[k + 1] = sum2[(k + 1) - 1] + longer[k + 1].size
    BY <1>3, <2>1
  <2> HIDE DEF k
  <2> QED BY <1>1, <2>1, <2>2
<1>9. sum[k] \in Nat
  BY <1>1
<1> QED BY <1>2, <1>3, <1>7, <1>8, <1>9 DEF longer

\* A message that leaves, from whatever place, takes its size along.
LEMMA TotalRemoved ==
  ASSUME NEW list \in Seq(Message), NEW j \in 1 .. Len(list)
  PROVE  Queue!Total(Removed(list, j)) = Queue!Total(list) - list[j].size
<1> DEFINE shorter == Removed(list, j)
           k == Len(list)
<1>1. /\ shorter \in Seq(Message) /\ Len(shorter) = k - 1 /\ k \in Nat
      /\ \A i \in 1 .. k - 1 : shorter[i] = IF i < j THEN list[i] ELSE list[i + 1]
  BY RemovedFacts
<1> HIDE DEF shorter
<1>2. PICK sum \in [0 .. k -> Nat] :
        /\ sum[0] = 0
        /\ \A n \in 1 .. k : sum[n] = sum[n - 1] + list[n].size
        /\ Queue!Total(list) = sum[k]
  BY TotalIsLast
<1>3. PICK sum2 \in [0 .. k - 1 -> Nat] :
        /\ sum2[0] = 0
        /\ \A n \in 1 .. k - 1 : sum2[n] = sum2[n - 1] + shorter[n].size
        /\ Queue!Total(shorter) = sum2[k - 1]
  BY <1>1, TotalIsLast
<1>4. \A n \in 1 .. k : list[n].size \in Nat
  BY ListFacts
<1> DEFINE G == {n \in 0 .. k - 1 :
                   sum2[n] = IF n < j THEN sum[n] ELSE sum[n + 1] - list[j].size}
<1>5. 0 \in G
  BY <1>1, <1>2, <1>3
<1>6. ASSUME NEW n \in 0 .. (k - 1) - 1, n \in G PROVE n + 1 \in G
  <2>0. sum2[n] = IF n < j THEN sum[n] ELSE sum[n + 1] - list[j].size
    BY <1>6
  <2>1. /\ n + 1 \in 1 .. k - 1 /\ n + 1 \in 1 .. k /\ n + 2 \in 1 .. k
        /\ (n + 1) - 1 = n /\ (n + 2) - 1 = n + 1 /\ (n + 1) + 1 = n + 2
        /\ n \in Int /\ j \in Int
    BY <1>1
  <2>2. /\ sum[n + 1] = sum[n] + list[n + 1].size
        /\ sum[n + 2] = sum[n + 1] + list[n + 2].size
        /\ sum2[n + 1] = sum2[n] + shorter[n + 1].size
    BY <1>2, <1>3, <2>1
  <2>3. /\ sum[n] \in Nat /\ sum[n + 1] \in Nat /\ sum[n + 2] \in Nat
        /\ sum2[n] \in Nat /\ list[n + 1].size \in Nat /\ list[n + 2].size \in Nat
        /\ list[j].size \in Nat
    <3>1. n \in 0 .. k /\ n + 1 \in 0 .. k /\ n + 2 \in 0 .. k /\ n \in 0 .. k - 1
          /\ j \in 1 .. k
      BY ONLY <2>1, <1>1
    <3> HIDE DEF k
    <3> QED BY <1>4, <2>1, <3>1
  <2>4. shorter[n + 1] = IF n + 1 < j THEN list[n + 1] ELSE list[n + 2]
    BY <1>1, <2>1
  <2>5. /\ sum[n + 2] - list[n + 1].size = sum[n] + list[n + 2].size
        /\ sum[n + 2] - list[j].size = (sum[n + 1] - list[j].size) + list[n + 2].size
    <3>1. PICK a : a = sum[n]
      OBVIOUS
    <3>2. PICK b : b = list[n + 1].size
      OBVIOUS
    <3>3. PICK c : c = list[n + 2].size
      OBVIOUS
    <3>4. PICK d : d = sum[n + 1]
      OBVIOUS
    <3>5. PICK e : e = sum[n + 2]
      OBVIOUS
    <3>6. PICK f : f = list[j].size
      OBVIOUS
    <3>7. /\ {a, b, c, f} \subseteq Nat
          /\ d = a + b /\ e = d + c
      BY <2>2, <2>3, <3>1, <3>2, <3>3, <3>4, <3>5, <3>6
    <3>8. e - b = a + c /\ e - f = (d - f) + c
      BY ONLY <3>7
    <3> QED BY <3>1, <3>2, <3>3, <3>4, <3>5, <3>6, <3>8, Zenon
  <2>6. sum2[n + 1] = IF n + 1 < j THEN sum[n + 1] ELSE sum[n + 2] - list[j].size
    <3>1. CASE n + 1 < j
      <4>1. n < j
        BY ONLY <2>1, <3>1
      <4> QED BY ONLY <2>0, <2>2, <2>4, <3>1, <4>1
    <3>2. CASE n + 1 = j
      <4>1. n < j /\ ~ (n + 1 < j) /\ list[j].size = list[n + 1].size
        BY ONLY <2>1, <3>2
      <4>2. sum2[n + 1] = sum[n] + list[n + 2].size
        BY ONLY <2>0, <2>2, <2>4, <4>1
      <4>3. sum[n + 2] - list[n + 1].size = sum[n] + list[n + 2].size
        BY <2>5
      <4> QED BY ONLY <4>1, <4>2, <4>3
    <3>3. CASE n + 1 > j
      <4>1. ~ (n < j) /\ ~ (n + 1 < j)
        BY ONLY <2>1, <3>3
      <4>2. sum2[n + 1] = (sum[n + 1] - list[j].size) + list[n + 2].size
        BY ONLY <2>0, <2>2, <2>4, <4>1
      <4>3. sum[n + 2] - list[j].size = (sum[n + 1] - list[j].size) + list[n + 2].size
        BY <2>5
      <4> QED BY ONLY <4>1, <4>2, <4>3
    <3> QED BY ONLY <2>1, <3>1, <3>2, <3>3
  <2>7. n + 1 \in 0 .. k - 1
    BY ONLY <2>1
  <2> QED BY <2>1, <2>6, <2>7
<1>7. 0 .. k - 1 \subseteq G
  <2>1. k - 1 \in Nat
    BY <1>1
  <2> HIDE DEF G, k
  <2> QED BY <1>5, <1>6, <2>1, UpTo
<1>8. k - 1 \in G
  <2>1. k - 1 \in 0 .. k - 1
    BY <1>1
  <2> HIDE DEF G
  <2> QED BY <1>7, <2>1
<1>9. CASE j = k
  <2>1. sum2[k - 1] = sum[k - 1] /\ sum[k] = sum[k - 1] + list[k].size
    BY <1>1, <1>2, <1>8, <1>9
  <2>2. sum[k - 1] \in Nat /\ list[k].size \in Nat
    <3>1. k - 1 \in 0 .. k /\ k \in 1 .. k
      BY <1>1, <1>9
    <3> QED BY <1>4, <3>1
  <2> QED BY <1>2, <1>3, <1>9, <2>1, <2>2 DEF shorter
<1>10. CASE j # k
  <2>1. sum2[k - 1] = sum[(k - 1) + 1] - list[j].size /\ (k - 1) + 1 = k
    BY <1>1, <1>8, <1>10
  <2> QED BY <1>2, <1>3, <2>1 DEF shorter
<1> QED BY <1>9, <1>10

-----------------------------------------------------------------------------
\* The inductive invariant

TypeInv ==
  /\ owner \in {"mailbox", "service"}
  /\ contents \in Seq(Message)
  /\ size_warn \in Nat \cup {Unlimited} /\ size_limit \in Nat \cup {Unlimited}
  /\ warned \in BOOLEAN /\ walking \in BOOLEAN /\ relieved \in BOOLEAN
  /\ cursor \in Nat
  /\ latest.id \in Nat
  /\ unseen \subseteq Message

\* The running total is the sum it stands for.
TotalExact == messages_size = Queue!Total(contents)

\* Messages are told apart by when they came.
InOrder ==
  /\ \A i \in DOMAIN contents : contents[i].id <= latest.id
  /\ \A i, j \in DOMAIN contents : i < j => contents[i].id < contents[j].id
  /\ \A msg \in unseen : msg.id <= latest.id

\* The walk has yet to come to none of the messages up to its cursor.
PassedSeen ==
  /\ walking => owner = "service" /\ cursor \in DOMAIN contents
  /\ \A i \in DOMAIN contents : (walking => i <= cursor) => contents[i] \notin unseen

\* A soft limit that may be reported was never reported since it was low.
SilentRelieved == warned \/ relieved

Inv == TypeInv /\ TotalExact /\ InOrder /\ PassedSeen /\ SilentRelieved

LEMMA InitInv == Init => Inv
<1> SUFFICES ASSUME Init PROVE Inv
  OBVIOUS
<1>1. TypeInv
  <2>1. contents \in Seq(Message) /\ latest.id \in Nat /\ cursor \in Nat
    BY DEF Init
  <2> QED BY <2>1 DEF Init, TypeInv
<1>2. TotalExact
  BY TotalEmpty DEF Init, TotalExact
<1>3. InOrder /\ PassedSeen /\ SilentRelieved
  BY DEF Init, InOrder, PassedSeen, SilentRelieved
<1> QED BY <1>1, <1>2, <1>3 DEF Inv

LEMMA EnqueueKeeps == ASSUME Inv, NEW size \in Size, Enqueue(size) PROVE Inv'
<1>1. CASE ~ Fits(size)
  <2>1. /\ UNCHANGED <<owner, contents, messages_size, size_warn, size_limit, warned,
                       cursor, walking, unseen, relieved>>
        /\ latest' = [id |-> latest.id + 1, size |-> size]
    BY <1>1 DEF Enqueue, config, walk
  <2>2. latest.id \in Nat /\ latest'.id = latest.id + 1
    BY <2>1 DEF Inv, TypeInv
  <2>3. InOrder'
    <3>1. /\ \A i \in DOMAIN contents : contents[i].id \in Nat
          /\ \A msg \in unseen : msg.id \in Nat
      BY ListFacts, MessageFacts DEF Inv, TypeInv
    <3>2. /\ \A i \in DOMAIN contents : contents[i].id <= latest'.id
          /\ \A msg \in unseen : msg.id <= latest'.id
      BY <2>2, <3>1 DEF Inv, InOrder
    <3> QED BY <2>1, <3>2 DEF Inv, InOrder
  <2> QED BY <2>1, <2>2, <2>3 DEF Inv, TypeInv, TotalExact, PassedSeen, SilentRelieved
<1>2. CASE Fits(size)
  <2> DEFINE k == Len(contents)
  <2>1. /\ ~walking /\ latest.id < MaxMessages /\ latest.id \in Nat
        /\ contents \in Seq(Message)
    BY DEF Enqueue, Inv, TypeInv
  <2>2. /\ contents' = Append(contents, latest')
        /\ messages_size' = messages_size + size
        /\ warned' = (warned \/ Warns(size))
        /\ relieved' = (relieved /\ ~Warns(size))
        /\ latest' = [id |-> latest.id + 1, size |-> size]
        /\ UNCHANGED <<owner, size_warn, size_limit, cursor, walking, unseen, reloads>>
    BY <1>2 DEF Enqueue, config, walk
  <2>3. latest' \in Message
    BY <2>1, <2>2, MessagesAssumption DEF Message
  <2>4. /\ contents' \in Seq(Message) /\ DOMAIN contents' = 1 .. k + 1
        /\ \A i \in 1 .. k : contents'[i] = contents[i]
        /\ contents'[k + 1] = latest' /\ k \in Nat
    BY <2>1, <2>2, <2>3
  <2>5. TypeInv'
    BY <2>1, <2>2, <2>4 DEF Inv, TypeInv
  <2>6. TotalExact'
    BY <2>1, <2>2, <2>3, TotalAppend DEF Inv, TotalExact
  <2>7. InOrder'
    <3>1. \A i \in 1 .. k : contents[i].id \in Nat /\ contents[i].id <= latest.id
      BY <2>1, ListFacts DEF Inv, InOrder
    <3>2. latest'.id = latest.id + 1
      BY <2>2
    <3>3. \A i \in 1 .. k + 1 : contents'[i].id <= latest'.id
      BY <2>1, <2>4, <3>1, <3>2
    <3>4. ASSUME NEW i \in 1 .. k + 1, NEW j \in 1 .. k + 1, i < j
          PROVE  contents'[i].id < contents'[j].id
      <4>1. CASE j = k + 1
        BY <2>1, <2>4, <3>1, <3>2, <3>4, <4>1
      <4>2. CASE j # k + 1
        BY <2>1, <2>4, <3>4, <4>2 DEF Inv, InOrder
      <4> QED BY <4>1, <4>2
    <3>5. \A msg \in unseen : msg.id <= latest'.id
      <4>1. \A msg \in unseen : msg.id \in Nat /\ msg.id <= latest.id
        BY MessageFacts DEF Inv, TypeInv, InOrder
      <4> QED BY <2>1, <3>2, <4>1
    <3> QED BY <2>2, <2>4, <3>3, <3>4, <3>5 DEF InOrder
  <2>8. PassedSeen'
    <3>1. latest' \notin unseen
      BY <2>1, <2>2 DEF Inv, InOrder
    <3> QED BY <2>1, <2>2, <2>4, <3>1 DEF Inv, PassedSeen
  <2>9. SilentRelieved'
    BY <2>2 DEF Inv, SilentRelieved, Warns
  <2> QED BY <2>5, <2>6, <2>7, <2>8, <2>9 DEF Inv
<1> QED BY <1>1, <1>2

\* What s_dequeue does to the queue, whoever calls it.
LEMMA DetachFacts ==
  ASSUME Inv, NEW i \in DOMAIN contents, Detach(i)
  PROVE  /\ contents' \in Seq(Message) /\ Len(contents') = Len(contents) - 1
         /\ \A j \in 1 .. Len(contents) - 1 :
              contents'[j] = IF j < i THEN contents[j] ELSE contents[j + 1]
         /\ TotalExact' /\ SilentRelieved'
         /\ \A j \in DOMAIN contents' : contents'[j].id <= latest.id
         /\ \A j, k \in DOMAIN contents' : j < k => contents'[j].id < contents'[k].id
<1> DEFINE n == Len(contents)
<1>1. contents \in Seq(Message) /\ n \in Nat /\ i \in 1 .. n
  BY DEF Inv, TypeInv
<1>2. contents' = Removed(contents, i)
  BY DEF Detach, RemoveAt, Removed
<1>3. /\ contents' \in Seq(Message) /\ Len(contents') = n - 1
      /\ \A j \in 1 .. n - 1 :
           contents'[j] = IF j < i THEN contents[j] ELSE contents[j + 1]
  BY <1>1, <1>2, RemovedFacts
<1>4. TotalExact'
  BY <1>1, <1>2, TotalRemoved DEF Detach, TotalWithout, Inv, TotalExact
<1>5. SilentRelieved'
  BY DEF Detach, Inv, SilentRelieved
<1>6. \A j \in 1 .. n : contents[j].id \in Nat /\ contents[j].id <= latest.id
  BY <1>1, ListFacts DEF Inv, InOrder
<1>7. \A j, k \in 1 .. n : j < k => contents[j].id < contents[k].id
  BY <1>1 DEF Inv, InOrder
<1>8. DOMAIN contents' = 1 .. n - 1
  BY <1>3
<1>9. \A j \in 1 .. n - 1 : contents'[j].id <= latest.id
  <2> SUFFICES ASSUME NEW j \in 1 .. n - 1 PROVE contents'[j].id <= latest.id
    OBVIOUS
  <2>1. j \in 1 .. n /\ j + 1 \in 1 .. n
    BY <1>1
  <2> QED BY <1>3, <1>6, <2>1
<1>10. ASSUME NEW j \in 1 .. n - 1, NEW k \in 1 .. n - 1, j < k
       PROVE  contents'[j].id < contents'[k].id
  <2> DEFINE a == IF j < i THEN j ELSE j + 1
             b == IF k < i THEN k ELSE k + 1
  <2>1. a \in 1 .. n /\ b \in 1 .. n /\ a < b
    BY <1>1, <1>10
  <2>2. contents'[j] = contents[a] /\ contents'[k] = contents[b]
    BY <1>3
  <2> QED BY <1>7, <2>1, <2>2
<1> QED BY <1>3, <1>4, <1>5, <1>8, <1>9, <1>10

LEMMA DequeueKeeps == ASSUME Inv, Dequeue PROVE Inv'
<1> DEFINE n == Len(contents)
<1>1. 1 \in DOMAIN contents /\ Detach(1) /\ owner = "mailbox" /\ n \in Nat
  BY DEF Dequeue, Inv, TypeInv
<1>2. UNCHANGED <<owner, size_warn, size_limit, cursor, walking, unseen, latest>>
  BY DEF Dequeue, config, walk
<1>3. /\ contents' \in Seq(Message) /\ Len(contents') = n - 1
      /\ \A j \in 1 .. n - 1 : contents'[j] = contents[j + 1]
      /\ TotalExact' /\ SilentRelieved'
      /\ \A j \in DOMAIN contents' : contents'[j].id <= latest.id
      /\ \A j, k \in DOMAIN contents' : j < k => contents'[j].id < contents'[k].id
  BY <1>1, DetachFacts
<1>4. TypeInv'
  BY <1>1, <1>2, <1>3 DEF Inv, TypeInv, Detach
<1>5. InOrder'
  BY <1>2, <1>3 DEF Inv, InOrder
<1>6. PassedSeen'
  <2>1. ~walking
    BY <1>1 DEF Inv, PassedSeen
  <2>2. \A j \in 1 .. n : contents[j] \notin unseen
    BY <1>1, <2>1 DEF Inv, PassedSeen
  <2>3. \A j \in DOMAIN contents' : j \in 1 .. n - 1 /\ j + 1 \in 1 .. n
    BY <1>1, <1>3
  <2> QED BY <1>2, <1>3, <2>1, <2>2, <2>3 DEF PassedSeen
<1> QED BY <1>3, <1>4, <1>5, <1>6 DEF Inv

LEMMA FirstKeeps == ASSUME Inv, First PROVE Inv'
<1> DEFINE n == Len(contents)
<1>1. /\ contents \in Seq(Message) /\ n \in Nat /\ 1 \in 1 .. n /\ owner = "service"
      /\ walking' = TRUE /\ cursor' = 1 /\ unseen' = ToSet(Tail(contents))
      /\ UNCHANGED <<owner, contents, messages_size, size_warn, size_limit, warned,
                     latest, relieved>>
  BY DEF First, config, Inv, TypeInv
<1>2. \A msg \in unseen' : \E j \in 2 .. n : msg = contents[j]
  <2> SUFFICES ASSUME NEW msg \in unseen' PROVE \E j \in 2 .. n : msg = contents[j]
    OBVIOUS
  <2>1. PICK k \in DOMAIN Tail(contents) : msg = Tail(contents)[k]
    BY <1>1 DEF ToSet
  <2>2. k + 1 \in 2 .. n /\ msg = contents[k + 1]
    BY <1>1, <2>1
  <2> QED BY <2>2
<1>3. \A j \in 2 .. n : j \in 1 .. n
  OBVIOUS
<1>4. TypeInv'
  <2>1. unseen' \subseteq Message
    BY <1>1, <1>2, <1>3
  <2> QED BY <1>1, <2>1 DEF Inv, TypeInv
<1>5. TotalExact' /\ SilentRelieved'
  BY <1>1 DEF Inv, TotalExact, SilentRelieved
<1>6. InOrder'
  BY <1>1, <1>2, <1>3 DEF Inv, InOrder
<1>7. PassedSeen'
  <2>1. \A i \in 1 .. n : contents[i].id \in Nat
    BY <1>1, ListFacts
  <2>2. ASSUME contents[1] \in unseen' PROVE FALSE
    <3>1. PICK j \in 2 .. n : contents[1] = contents[j]
      BY <1>2, <2>2
    <3>2. contents[1].id < contents[j].id
      BY <1>1, <1>3 DEF Inv, InOrder
    <3>3. contents[1].id \in Nat
      BY <1>1, <2>1
    <3> QED BY <3>1, <3>2, <3>3
  <2>3. \A i \in 1 .. n : i <= 1 => i = 1
    OBVIOUS
  <2> QED BY <1>1, <2>2, <2>3 DEF PassedSeen
<1> QED BY <1>4, <1>5, <1>6, <1>7 DEF Inv

\* The walk goes on from a position that it has passed, in the list as it is
\* now.
LEMMA GoOnFacts ==
  ASSUME Inv, walking, NEW list \in Seq(Message), NEW position \in 0 .. Len(list),
         GoOn(position, list), owner' = owner, contents' = list,
         \A i \in 1 .. position : list[i] \notin unseen
  PROVE  PassedSeen' /\ unseen' \subseteq unseen /\ cursor' \in Nat /\ walking' \in BOOLEAN
<1> DEFINE n == Len(list)
<1>1. n \in Nat /\ position \in Nat /\ position <= n /\ DOMAIN list = 1 .. n
  OBVIOUS
<1>2. owner = "service"
  BY DEF Inv, PassedSeen
<1>3. CASE position < n
  <2>1. /\ walking' = TRUE /\ cursor' = position + 1
        /\ unseen' = unseen \ {list[position + 1]}
    BY <1>3 DEF GoOn
  <2>2. position + 1 \in 1 .. n
    BY <1>1, <1>3
  <2>3. ASSUME NEW i \in 1 .. n, i <= position + 1 PROVE list[i] \notin unseen'
    <3>1. i \in 1 .. position \/ i = position + 1
      BY <1>1, <2>3
    <3> QED BY <2>1, <3>1
  <2> QED BY <1>1, <1>2, <2>1, <2>2, <2>3 DEF PassedSeen
<1>4. CASE position = n
  <2>1. ~ (position < Len(list))
    BY <1>1, <1>4
  <2>2. cursor' = 0 /\ unseen' = unseen
    BY <2>1, Zenon DEF GoOn
  <2>3. walking' = (position < Len(list))
    BY ONLY GoOn(position, list), Zenon DEF GoOn
  <2>4. walking' = FALSE
    <3>1. (position < Len(list)) = FALSE
      BY <1>1, <1>4
    <3> QED BY ONLY <2>3, <3>1, Zenon
  <2> QED BY <1>1, <1>4, <2>2, <2>4 DEF PassedSeen
<1>5. position < n \/ position = n
  <2> HIDE DEF n
  <2> QED BY ONLY <1>1
<1> QED BY <1>3, <1>4, <1>5

LEMMA TakeAndNextKeeps == ASSUME Inv, TakeAndNext PROVE Inv'
<1> DEFINE n == Len(contents)
<1>1. /\ walking /\ cursor \in 1 .. n /\ n \in Nat /\ DOMAIN contents = 1 .. n
      /\ Detach(cursor) /\ GoOn(cursor - 1, contents')
      /\ UNCHANGED <<owner, size_warn, size_limit, latest>>
  BY DEF TakeAndNext, CursorBack, config, Inv, TypeInv, PassedSeen
<1>2. /\ contents' \in Seq(Message) /\ Len(contents') = n - 1
      /\ \A j \in 1 .. n - 1 :
           contents'[j] = IF j < cursor THEN contents[j] ELSE contents[j + 1]
      /\ TotalExact' /\ SilentRelieved'
      /\ \A j \in DOMAIN contents' : contents'[j].id <= latest.id
      /\ \A j, k \in DOMAIN contents' : j < k => contents'[j].id < contents'[k].id
  BY <1>1, DetachFacts
<1>3. /\ PassedSeen' /\ unseen' \subseteq unseen /\ cursor' \in Nat
      /\ walking' \in BOOLEAN
  <2>1. cursor - 1 \in 0 .. Len(contents')
    BY <1>1, <1>2
  <2>2. ASSUME NEW i \in 1 .. cursor - 1 PROVE contents'[i] \notin unseen
    <3>1. i \in 1 .. n /\ i \in 1 .. n - 1 /\ i < cursor /\ i <= cursor
      BY <1>1
    <3>2. contents'[i] = contents[i]
      BY <1>2, <3>1
    <3> QED BY <1>1, <3>1, <3>2 DEF Inv, PassedSeen
  <2> QED BY <1>1, <1>2, <2>1, <2>2, GoOnFacts
<1>4. TypeInv'
  BY <1>1, <1>2, <1>3 DEF Inv, TypeInv, Detach
<1>5. InOrder'
  BY <1>1, <1>2, <1>3 DEF Inv, InOrder
<1> QED BY <1>2, <1>3, <1>4, <1>5 DEF Inv

LEMMA SkipKeeps == ASSUME Inv, Skip PROVE Inv'
<1> DEFINE n == Len(contents)
<1>1. /\ walking /\ cursor \in 0 .. n /\ n \in Nat /\ contents \in Seq(Message)
      /\ DOMAIN contents = 1 .. n /\ GoOn(cursor, contents)
      /\ UNCHANGED <<owner, contents, messages_size, size_warn, size_limit, warned,
                     latest, relieved>>
  BY DEF Skip, config, Inv, TypeInv, PassedSeen
<1>2. /\ PassedSeen' /\ unseen' \subseteq unseen /\ cursor' \in Nat
      /\ walking' \in BOOLEAN
  <2>1. \A i \in 1 .. cursor : contents[i] \notin unseen
    <3>1. \A i \in 1 .. cursor : i \in 1 .. n /\ i <= cursor
      BY <1>1
    <3> QED BY <1>1, <3>1 DEF Inv, PassedSeen
  <2> QED BY <1>1, <2>1, GoOnFacts
<1>3. TypeInv'
  BY <1>1, <1>2 DEF Inv, TypeInv
<1>4. TotalExact' /\ SilentRelieved'
  BY <1>1 DEF Inv, TotalExact, SilentRelieved
<1>5. InOrder'
  BY <1>1, <1>2 DEF Inv, InOrder
<1> QED BY <1>2, <1>3, <1>4, <1>5 DEF Inv

LEMMA ConfigureKeeps == ASSUME Inv, Configure PROVE Inv'
<1>1. /\ UNCHANGED <<owner, contents, messages_size, warned, cursor, walking, unseen,
                     latest>>
      /\ relieved' = TRUE
      /\ size_warn' \in Limit \cup {size_warn} /\ size_limit' \in Limit \cup {size_limit}
  BY DEF Configure, LimitGet, walk
<1>2. size_warn' \in Nat \cup {Unlimited} /\ size_limit' \in Nat \cup {Unlimited}
  BY <1>1, SizeAssumption DEF Limit, Inv, TypeInv
<1> QED BY <1>1, <1>2 DEF Inv, TypeInv, TotalExact, InOrder, PassedSeen, SilentRelieved

\* Every step keeps the invariant.
LEMMA NextKeepsInv == Inv /\ [Next]_vars => Inv'
<1> SUFFICES ASSUME Inv, [Next]_vars PROVE Inv'
  OBVIOUS
<1>1. CASE \E size \in Size : Enqueue(size)
  BY <1>1, EnqueueKeeps
<1>2. CASE Dequeue
  BY <1>2, DequeueKeeps
<1>3. CASE First
  BY <1>3, FirstKeeps
<1>4. CASE TakeAndNext
  BY <1>4, TakeAndNextKeeps
<1>5. CASE Skip
  BY <1>5, SkipKeeps
<1>6. CASE Configure
  BY <1>6, ConfigureKeeps
<1>7. CASE UNCHANGED vars
  BY <1>7 DEF vars, config, walk, Inv, TypeInv, TotalExact, InOrder, PassedSeen,
              SilentRelieved
<1> QED BY <1>1, <1>2, <1>3, <1>4, <1>5, <1>6, <1>7 DEF Next

\* The invariant holds in every state.
THEOREM InvHolds == Spec => []Inv
BY InitInv, NextKeepsInv, PTL DEF Spec

-----------------------------------------------------------------------------
\* What follows

\* A walk through a queue comes to every message that was in it when the walk
\* began and that is there still, whatever messages were taken out on the way
\* (mlm_msgq_first, mlm_msgq_next, mlm_msgq_dequeue_cursor).
THEOREM WalkIsComplete == Spec => []WalkComplete
<1>1. Inv => WalkComplete
  <2> SUFFICES ASSUME Inv, ~walking, NEW msg \in unseen, msg \in ToSet(contents)
               PROVE  FALSE
    BY DEF WalkComplete
  <2>1. PICK i \in DOMAIN contents : msg = contents[i]
    BY DEF ToSet
  <2> QED BY <2>1 DEF Inv, PassedSeen
<1> QED BY InvHolds, <1>1, PTL

\* The soft limit is reported once each time the queue grows over it
\* (mlm_msgq_enqueue, s_dequeue).
THEOREM ReportedOnce == Spec => WarnedOnce
<1>1. Inv => \A size \in Size : Enqueue(size) /\ Fits(size) /\ Warns(size) => relieved
  BY DEF Inv, SilentRelieved, Warns
<1>2. Spec => [][\A size \in Size :
                   Enqueue(size) /\ Fits(size) /\ Warns(size) => relieved]_vars
  BY InvHolds, <1>1, PTL
<1> QED BY <1>2, Zenon DEF WarnedOnce

\* Every step of the queue is one of the abstract queue, or none.
LEMMA QueueStep == Inv /\ [Next]_vars => [Queue!Next]_<<contents, size_limit, latest>>
<1> DEFINE qvars == <<contents, size_limit, latest>>
<1> SUFFICES ASSUME Inv, [Next]_vars PROVE [Queue!Next]_qvars
  OBVIOUS
<1>1. CASE \E size \in Size : Enqueue(size)
  <2>1. PICK size \in Size : Enqueue(size)
    BY <1>1
  <2>2. /\ latest' = [id |-> latest.id + 1, size |-> size]
        /\ latest.id \in Nat /\ latest.id < MaxMessages
        /\ UNCHANGED size_limit
    BY <2>1 DEF Enqueue, Inv, TypeInv, config
  <2>3. latest' \in Message
    BY <2>2, MessagesAssumption DEF Message
  <2>4. Queue!Room(latest') <=> Fits(size)
    BY <2>2 DEF Queue!Room, Fits, Inv, TotalExact
  <2>5. contents' = IF Fits(size) THEN Append(contents, latest') ELSE contents
    BY <2>1 DEF Enqueue
  <2>6. Queue!Put(latest')
    BY <2>2, <2>4, <2>5 DEF Queue!Put
  <2> QED BY <2>3, <2>6 DEF Queue!Next
<1>2. CASE Dequeue
  <2>1. 1 \in DOMAIN contents /\ Queue!Take(1)
    BY <1>2 DEF Dequeue, Detach, RemoveAt, Queue!Take, Queue!RemoveAt, config, Inv, TypeInv
  <2> QED BY <2>1 DEF Queue!Next
<1>3. CASE TakeAndNext
  <2>1. cursor \in DOMAIN contents /\ Queue!Take(cursor)
    BY <1>3 DEF TakeAndNext, Detach, RemoveAt, Queue!Take, Queue!RemoveAt, config, Inv,
                PassedSeen
  <2> QED BY <2>1 DEF Queue!Next
<1>4. CASE Configure
  <2>1. size_limit' \in Limit \cup {size_limit} /\ UNCHANGED <<contents, latest>>
    BY <1>4 DEF Configure, LimitGet
  <2>2. size_limit' \in Nat \cup {Unlimited}
    BY <2>1, SizeAssumption DEF Limit, Inv, TypeInv
  <2> QED BY <2>1, <2>2 DEF Queue!Next, Queue!SetLimit
<1>5. CASE First \/ Skip \/ UNCHANGED vars
  BY <1>5 DEF First, Skip, vars, config
<1> QED BY <1>1, <1>2, <1>3, <1>4, <1>5 DEF Next

\* The queue implements the abstract one: the running total, which every
\* step updates by one size, decides as the sum over the messages would.
THEOREM ImplementsBoundedQueue == Spec => IsBoundedQueue
<1>1. Init => Queue!Init
  BY DEF Init, Queue!Init
<1> QED BY InvHolds, <1>1, QueueStep, PTL DEF Spec, IsBoundedQueue, Queue!Spec

-----------------------------------------------------------------------------
\* The actor: what becomes of a list when commands are handled

IsStore(command) == command.method = "STORE"

Commands == {Store(msg) : msg \in Message} \cup {Ask(method) : method \in {"QUERY", "CONFIGURE"}}

LEMMA CommandFacts ==
  ASSUME NEW command \in Commands
  PROVE  /\ IsStore(command) => command.msg \in Message
         /\ ~IsStore(command) <=> command.method \in {"QUERY", "CONFIGURE"}
BY DEF Commands, Store, Ask, IsStore

\* One command is handled.
Handled(list, command, limit) ==
  IF IsStore(command) THEN Keep(list, command.msg, limit) ELSE list

LEMMA HandledType ==
  ASSUME NEW list \in Seq(Message), NEW command \in Commands, NEW limit
  PROVE  Handled(list, command, limit) \in Seq(Message)
<1>1. CASE IsStore(command)
  <2>1. command.msg \in Message
    BY <1>1, CommandFacts
  <2>2. Append(list, command.msg) \in Seq(Message)
    BY <2>1
  <2> QED BY <2>2, Zenon DEF Handled, Keep
<1>2. CASE ~IsStore(command)
  BY <1>2, Zenon DEF Handled
<1> QED BY <1>1, <1>2

\* The recursive function in AfterStores.
IsSeen(list, commands, limit, seen) ==
  seen = [n \in 0 .. Len(commands) |->
            IF n = 0 THEN list
            ELSE IF commands[n].method = "STORE"
                 THEN Keep(seen[n - 1], commands[n].msg, limit)
                 ELSE seen[n - 1]]

\* The lists that the commands leave one by one.
Leave(list, commands, limit, seen) ==
  /\ seen \in [0 .. Len(commands) -> Seq(Message)]
  /\ seen[0] = list
  /\ \A n \in 1 .. Len(commands) : seen[n] = Handled(seen[n - 1], commands[n], limit)

\* AfterStores is the last of the lists that the commands leave one by one.
LEMMA AfterIsLast ==
  ASSUME NEW list \in Seq(Message), NEW commands \in Seq(Commands), NEW limit
  PROVE  \E seen : /\ Leave(list, commands, limit, seen)
                   /\ AfterStores(list, commands, limit) = seen[Len(commands)]
<1>0. PICK k : k = Len(commands)
  OBVIOUS
<1> DEFINE step == [vn \in Seq(Message) \X (1 .. k) |->
                      Handled(vn[1], commands[vn[2]], limit)]
           chosen == CHOOSE f : f = [n \in 0 .. k |->
                       IF n = 0 THEN list
                       ELSE IF commands[n].method = "STORE"
                            THEN Keep(f[n - 1], commands[n].msg, limit)
                            ELSE f[n - 1]]
<1>1. k \in Nat /\ \A n \in 1 .. k : commands[n] \in Commands
  BY <1>0
<1>2. PICK V : V = Seq(Message)
  OBVIOUS
<1>3. step \in [V \X (1 .. k) -> V]
  <2> SUFFICES ASSUME NEW vn \in V \X (1 .. k)
               PROVE  Handled(vn[1], commands[vn[2]], limit) \in V
    BY <1>2
  <2>1. vn[1] \in Seq(Message) /\ vn[2] \in 1 .. k
    BY <1>2
  <2> QED BY <1>1, <1>2, <2>1, HandledType, Zenon
<1>4. PICK f \in [0 .. k -> V] :
        f[0] = list /\ \A n \in 1 .. k : f[n] = step[<<f[n - 1], n>>]
  <2>1. list \in V
    BY <1>2
  <2>2. k \in Nat
    BY <1>1
  <2> HIDE DEF step
  <2>3. PICK f : Iterates(V, list, k, step, f)
    BY <1>3, <2>1, <2>2, PrimitiveRecursion, Zenon
  <2> QED BY <2>3, Zenon DEF Iterates
<1>5. ASSUME NEW n \in 1 .. k
      PROVE  f[n] = Handled(f[n - 1], commands[n], limit) /\ f[n - 1] \in Seq(Message)
  <2>1. n - 1 \in 0 .. k
    BY <1>1
  <2>2. f[n - 1] \in V
    BY <2>1
  <2>3. <<f[n - 1], n>> \in Seq(Message) \X (1 .. k)
    BY <1>2, <2>2
  <2>4. step[<<f[n - 1], n>>] = Handled(f[n - 1], commands[n], limit)
    BY <2>3
  <2>5. f[n] = step[<<f[n - 1], n>>]
    BY <1>4
  <2> QED BY <1>2, <2>2, <2>4, <2>5
<1>6. IsSeen(list, commands, limit, f)
  <2>1. ASSUME NEW n \in 0 .. k
        PROVE  f[n] = IF n = 0 THEN list
                      ELSE IF commands[n].method = "STORE"
                           THEN Keep(f[n - 1], commands[n].msg, limit)
                           ELSE f[n - 1]
    <3>1. CASE n = 0
      BY <1>4, <3>1
    <3>2. CASE n # 0
      <4>1. n \in 1 .. k
        BY <1>1, <3>2
      <4>2. f[n] = Handled(f[n - 1], commands[n], limit)
        BY <1>5, <4>1
      <4> QED BY <3>2, <4>2, Zenon DEF Handled, IsStore
    <3> QED BY <3>1, <3>2
  <2>2. f = [n \in 0 .. k |-> f[n]]
    OBVIOUS
  <2> QED BY <1>0, <2>1, <2>2, Zenon DEF IsSeen
<1>7. IsSeen(list, commands, limit, chosen) /\ AfterStores(list, commands, limit) = chosen[k]
  BY <1>0, <1>6, Zenon DEF IsSeen, AfterStores
<1> HIDE DEF chosen
<1>8. /\ DOMAIN chosen = 0 .. k /\ chosen = [n \in 0 .. k |-> chosen[n]]
      /\ chosen[0] = list
  BY <1>0, <1>1, <1>7 DEF IsSeen
<1>9. ASSUME NEW n \in 1 .. k PROVE chosen[n] = Handled(chosen[n - 1], commands[n], limit)
  <2>1. n \in 0 .. k /\ n # 0
    BY <1>1
  <2> QED BY <1>0, <1>7, <2>1, Zenon DEF IsSeen, Handled, IsStore
<1>10. \A n \in 0 .. k : chosen[n] \in Seq(Message)
  <2> DEFINE G == {n \in 0 .. k : chosen[n] \in Seq(Message)}
  <2>1. 0 \in G
    BY <1>1, <1>8
  <2>2. ASSUME NEW n \in 0 .. k - 1, n \in G PROVE n + 1 \in G
    <3>1. n + 1 \in 1 .. k /\ n + 1 \in 0 .. k /\ (n + 1) - 1 = n
      BY <1>1
    <3>2. chosen[n + 1] = Handled(chosen[n], commands[n + 1], limit)
      BY <1>9, <3>1
    <3>3. Handled(chosen[n], commands[n + 1], limit) \in Seq(Message)
      BY <1>1, <2>2, <3>1, HandledType
    <3> QED BY <3>1, <3>2, <3>3
  <2>3. 0 .. k \subseteq G
    <3> HIDE DEF G
    <3> QED BY <1>1, <2>1, <2>2, UpTo
  <2> QED BY <2>3
<1>11. Leave(list, commands, limit, chosen)
  BY <1>0, <1>8, <1>9, <1>10 DEF Leave
<1> QED BY <1>0, <1>7, <1>11

LEMMA AfterType ==
  ASSUME NEW list \in Seq(Message), NEW commands \in Seq(Commands), NEW limit
  PROVE  AfterStores(list, commands, limit) \in Seq(Message)
<1>1. PICK seen : Leave(list, commands, limit, seen)
                  /\ AfterStores(list, commands, limit) = seen[Len(commands)]
  BY AfterIsLast, Zenon
<1>2. Len(commands) \in 0 .. Len(commands)
  OBVIOUS
<1>3. seen[Len(commands)] \in Seq(Message)
  BY <1>1, <1>2 DEF Leave
<1> QED BY <1>1, <1>3

LEMMA AfterNone ==
  ASSUME NEW list \in Seq(Message), NEW limit
  PROVE  AfterStores(list, <<>>, limit) = list
<1>1. PICK none : none = <<>>
  OBVIOUS
<1>2. none \in Seq(Commands)
  BY <1>1
<1>3. PICK seen : Leave(list, none, limit, seen)
                  /\ AfterStores(list, none, limit) = seen[Len(none)]
  BY <1>2, AfterIsLast, Zenon
<1>4. Len(none) = 0
  BY <1>1
<1>5. AfterStores(list, none, limit) = list
  BY <1>3, <1>4 DEF Leave
<1> QED BY <1>1, <1>5

\* A command behind the others is handled last.
LEMMA AfterAppend ==
  ASSUME NEW list \in Seq(Message), NEW commands \in Seq(Commands),
         NEW command \in Commands, NEW limit
  PROVE  AfterStores(list, Append(commands, command), limit)
           = Handled(AfterStores(list, commands, limit), command, limit)
<1>0. PICK k : k = Len(commands)
  OBVIOUS
<1>1. PICK longer : longer = Append(commands, command)
  OBVIOUS
<1>2. /\ longer \in Seq(Commands) /\ Len(longer) = k + 1 /\ k \in Nat
      /\ longer[k + 1] = command /\ \A n \in 1 .. k : longer[n] = commands[n]
  BY <1>0, <1>1
<1>3. PICK a : /\ Leave(list, commands, limit, a)
               /\ AfterStores(list, commands, limit) = a[Len(commands)]
  BY AfterIsLast, Zenon
<1>31. longer \in Seq(Commands)
  BY <1>2
<1>4. PICK b : /\ Leave(list, longer, limit, b)
               /\ AfterStores(list, longer, limit) = b[Len(longer)]
  BY <1>31, AfterIsLast, Zenon
<1> DEFINE G == {n \in 0 .. k : a[n] = b[n]}
<1>5. 0 \in G
  BY <1>0, <1>2, <1>3, <1>4 DEF Leave
<1>6. ASSUME NEW n \in 0 .. k - 1, n \in G PROVE n + 1 \in G
  <2>1. n + 1 \in 1 .. k /\ n + 1 \in 1 .. k + 1 /\ (n + 1) - 1 = n /\ n + 1 \in 0 .. k
    BY <1>2
  <2>2. /\ a[n + 1] = Handled(a[n], commands[n + 1], limit)
        /\ b[n + 1] = Handled(b[n], commands[n + 1], limit)
    BY <1>0, <1>2, <1>3, <1>4, <2>1 DEF Leave
  <2> QED BY <1>6, <2>1, <2>2
<1>7. 0 .. k \subseteq G
  <2> HIDE DEF G
  <2> QED BY <1>2, <1>5, <1>6, UpTo
<1>8. a[k] = b[k]
  BY <1>2, <1>7
<1>9. b[k + 1] = Handled(b[k], command, limit)
  <2>1. k + 1 \in 1 .. k + 1 /\ (k + 1) - 1 = k
    BY <1>2
  <2> QED BY <1>2, <1>4, <2>1 DEF Leave
<1> QED BY <1>0, <1>1, <1>2, <1>3, <1>4, <1>8, <1>9

\* The command in front of the others is handled first.
LEMMA AfterFirst ==
  ASSUME NEW list \in Seq(Message), NEW commands \in Seq(Commands), commands # <<>>,
         NEW limit
  PROVE  AfterStores(list, commands, limit)
           = AfterStores(Handled(list, Head(commands), limit), Tail(commands), limit)
<1>0. PICK k : k = Len(commands) - 1
  OBVIOUS
<1>1. PICK rest : rest = Tail(commands)
  OBVIOUS
<1>2. PICK first : first = Head(commands)
  OBVIOUS
<1>3. /\ rest \in Seq(Commands) /\ Len(rest) = k /\ k \in Nat /\ Len(commands) = k + 1
      /\ first = commands[1] /\ first \in Commands
      /\ \A n \in 1 .. k : rest[n] = commands[n + 1]
  BY <1>0, <1>1, <1>2
<1>4. PICK later : later = Handled(list, first, limit)
  OBVIOUS
<1>5. later \in Seq(Message)
  BY <1>3, <1>4, HandledType
<1>6. PICK a : /\ Leave(list, commands, limit, a)
               /\ AfterStores(list, commands, limit) = a[Len(commands)]
  BY AfterIsLast, Zenon
<1>61. rest \in Seq(Commands)
  BY <1>3
<1>7. PICK b : /\ Leave(later, rest, limit, b)
               /\ AfterStores(later, rest, limit) = b[Len(rest)]
  BY <1>5, <1>61, AfterIsLast, Zenon
<1> DEFINE G == {n \in 0 .. k : a[n + 1] = b[n]}
<1>8. 0 \in G
  <2>1. 1 \in 1 .. k + 1 /\ 1 - 1 = 0 /\ 0 + 1 = 1 /\ 0 \in 0 .. k
    BY <1>3
  <2>2. a[1] = Handled(a[0], commands[1], limit)
    BY <1>6, <2>1 DEF Leave
  <2> QED BY <1>3, <1>4, <1>6, <1>7, <2>1, <2>2 DEF Leave
<1>9. ASSUME NEW n \in 0 .. k - 1, n \in G PROVE n + 1 \in G
  <2>1. /\ n + 1 \in 1 .. k /\ (n + 1) + 1 \in 1 .. k + 1 /\ n + 1 \in 0 .. k
        /\ (n + 1) - 1 = n /\ ((n + 1) + 1) - 1 = n + 1
    BY <1>3
  <2>2. /\ a[(n + 1) + 1] = Handled(a[n + 1], commands[(n + 1) + 1], limit)
        /\ b[n + 1] = Handled(b[n], rest[n + 1], limit)
        /\ rest[n + 1] = commands[(n + 1) + 1]
    BY <1>3, <1>6, <1>7, <2>1 DEF Leave
  <2> QED BY <1>9, <2>1, <2>2
<1>10. 0 .. k \subseteq G
  <2> HIDE DEF G
  <2> QED BY <1>3, <1>8, <1>9, UpTo
<1>11. a[k + 1] = b[k]
  BY <1>3, <1>10
<1> QED BY <1>1, <1>2, <1>3, <1>4, <1>6, <1>7, <1>11

-----------------------------------------------------------------------------
\* The pipe

TypeLink == pipe \in Seq(Commands) /\ replies \in Seq({"mail", "NULL", "done"})

\* A command whose reply is awaited has nothing behind it.
AskedIsLast ==
  /\ \A i \in 1 .. Len(pipe) - 1 : IsStore(pipe[i])
  /\ waiting = NoCommand => \A i \in 1 .. Len(pipe) : IsStore(pipe[i])

\* Each mail under way carries the number it is to have in the queue.
Numbered ==
  \A i \in 1 .. Len(pipe) : IsStore(pipe[i]) => pipe[i].msg.id = latest.id + i

OneReply ==
  /\ Len(replies) <= 1
  /\ replies # <<>> => pipe = <<>>
  /\ waiting = NoCommand => replies = <<>>

NoActor == owner = "service" => pipe = <<>> /\ replies = <<>> /\ waiting = NoCommand

LinkInv == TypeLink /\ AskedIsLast /\ Numbered /\ OneReply /\ NoActor

\* The mails under way are the first k commands, and the last of them was sent
\* last.
LEMMA StoresAre ==
  ASSUME NEW commands \in Seq(Commands), NEW k \in 0 .. Len(commands),
         \A i \in 1 .. k : IsStore(commands[i]),
         \A i \in k + 1 .. Len(commands) : ~IsStore(commands[i])
  PROVE  /\ {i \in DOMAIN commands : commands[i].method = "STORE"} = 1 .. k
         /\ k # 0 => Max(1 .. k) = k
<1>1. \A i \in DOMAIN commands : commands[i].method = "STORE" <=> i \in 1 .. k
  <2> SUFFICES ASSUME NEW i \in DOMAIN commands
               PROVE  IsStore(commands[i]) <=> i \in 1 .. k
    BY DEF IsStore
  <2>1. i \in 1 .. k \/ i \in k + 1 .. Len(commands)
    OBVIOUS
  <2>2. \A j \in k + 1 .. Len(commands) : j \notin 1 .. k
    OBVIOUS
  <2> QED BY <2>1, <2>2
<1>2. 1 .. k \subseteq DOMAIN commands
  OBVIOUS
<1>3. {i \in DOMAIN commands : commands[i].method = "STORE"} = 1 .. k
  BY <1>1, <1>2, Zenon
<1>4. ASSUME k # 0 PROVE Max(1 .. k) = k
  <2>1. k \in 1 .. k /\ \A y \in 1 .. k : k >= y
    BY <1>4
  <2>2. \A x \in 1 .. k : (\A y \in 1 .. k : x >= y) => x = k
    BY <1>4
  <2> QED BY <2>1, <2>2 DEF Max
<1> QED BY <1>3, <1>4

\* LastSent, of any commands and any mail that came last.
LastOf(commands, last) ==
  LET stores == {i \in DOMAIN commands : commands[i].method = "STORE"}
  IN IF stores = {} THEN last ELSE commands[Max(stores)].msg

LEMMA LastOfAre ==
  ASSUME NEW commands \in Seq(Commands), NEW k \in 0 .. Len(commands), NEW last,
         \A i \in 1 .. k : IsStore(commands[i]),
         \A i \in k + 1 .. Len(commands) : ~IsStore(commands[i])
  PROVE  LastOf(commands, last) = IF k = 0 THEN last ELSE commands[k].msg
<1>1. PICK stores : stores = {i \in DOMAIN commands : commands[i].method = "STORE"}
  OBVIOUS
<1>2. stores = 1 .. k /\ (k # 0 => Max(1 .. k) = k)
  BY <1>1, StoresAre
<1>3. LastOf(commands, last) = IF stores = {} THEN last ELSE commands[Max(stores)].msg
  BY <1>1, Zenon DEF LastOf
<1>4. stores = {} <=> k = 0
  BY <1>2
<1> QED BY <1>2, <1>3, <1>4, Zenon

LEMMA LastNone == ASSUME NEW last PROVE LastOf(<<>>, last) = last
<1>1. PICK none : none = <<>>
  OBVIOUS
<1>2. none \in Seq(Commands) /\ Len(none) = 0
  BY <1>1
<1>3. /\ 0 \in 0 .. Len(none) /\ \A i \in 1 .. 0 : IsStore(none[i])
      /\ \A i \in 0 + 1 .. Len(none) : ~IsStore(none[i])
  BY <1>2
<1>4. LastOf(none, last) = last
  BY <1>2, <1>3, LastOfAre
<1> QED BY <1>1, <1>4

LEMMA LastAppend ==
  ASSUME NEW commands \in Seq(Commands), NEW command \in Commands, NEW last,
         \A i \in 1 .. Len(commands) : IsStore(commands[i])
  PROVE  LastOf(Append(commands, command), last)
           = IF IsStore(command) THEN command.msg ELSE LastOf(commands, last)
<1>1. PICK n : n = Len(commands)
  OBVIOUS
<1>2. PICK longer : longer = Append(commands, command)
  OBVIOUS
<1>3. /\ longer \in Seq(Commands) /\ Len(longer) = n + 1 /\ n \in Nat
      /\ longer[n + 1] = command /\ \A i \in 1 .. n : longer[i] = commands[i]
  BY <1>1, <1>2
<1>4. LastOf(commands, last) = IF n = 0 THEN last ELSE commands[n].msg
  <2>1. n \in 0 .. Len(commands) /\ \A i \in n + 1 .. Len(commands) : ~IsStore(commands[i])
    BY <1>1, <1>3
  <2> QED BY <1>1, <2>1, LastOfAre
<1>5. CASE IsStore(command)
  <2>1. \A i \in 1 .. n + 1 : IsStore(longer[i])
    <3>1. \A i \in 1 .. n + 1 : i \in 1 .. n \/ i = n + 1
      BY <1>3
    <3> QED BY <1>1, <1>3, <1>5, <3>1
  <2>2. /\ n + 1 \in 0 .. Len(longer) /\ n + 1 # 0
        /\ \A i \in (n + 1) + 1 .. Len(longer) : ~IsStore(longer[i])
    BY <1>3
  <2>3. LastOf(longer, last) = longer[n + 1].msg
    BY <1>3, <2>1, <2>2, LastOfAre
  <2> QED BY <1>2, <1>3, <1>5, <2>3
<1>6. CASE ~IsStore(command)
  <2>1. \A i \in 1 .. n : IsStore(longer[i])
    BY <1>1, <1>3
  <2>2. n \in 0 .. Len(longer) /\ \A i \in n + 1 .. Len(longer) : ~IsStore(longer[i])
    <3>1. \A i \in n + 1 .. Len(longer) : i = n + 1
      BY <1>3
    <3> QED BY <1>3, <1>6, <3>1
  <2>3. LastOf(longer, last) = IF n = 0 THEN last ELSE longer[n].msg
    BY <1>3, <2>1, <2>2, LastOfAre
  <2>4. n # 0 => longer[n] = commands[n]
    BY <1>3
  <2> QED BY <1>2, <1>4, <1>6, <2>3, <2>4, Zenon
<1> QED BY <1>5, <1>6

LEMMA LastTail ==
  ASSUME NEW commands \in Seq(Commands), commands # <<>>, NEW last,
         \A i \in 1 .. Len(commands) - 1 : IsStore(commands[i]), IsStore(commands[1])
  PROVE  LastOf(commands, last) = LastOf(Tail(commands), commands[1].msg)
<1>1. PICK n : n = Len(commands) - 1
  OBVIOUS
<1>2. PICK rest : rest = Tail(commands)
  OBVIOUS
<1>3. PICK first : first = commands[1].msg
  OBVIOUS
<1>4. /\ rest \in Seq(Commands) /\ Len(rest) = n /\ n \in Nat /\ Len(commands) = n + 1
      /\ \A i \in 1 .. n : rest[i] = commands[i + 1]
  BY <1>1, <1>2
<1>5. PICK k \in {n, n + 1} : /\ \A i \in 1 .. k : IsStore(commands[i])
                              /\ \A i \in k + 1 .. n + 1 : ~IsStore(commands[i])
                              /\ k # 0
  <2>1. \A i \in 1 .. n + 1 : i \in 1 .. n \/ i = n + 1
    BY <1>4
  <2>2. CASE IsStore(commands[n + 1])
    <3>1. \A i \in 1 .. n + 1 : IsStore(commands[i])
      BY <1>1, <2>1, <2>2
    <3>2. \A i \in (n + 1) + 1 .. n + 1 : ~IsStore(commands[i])
      BY <1>4
    <3>3. n + 1 # 0
      BY <1>4
    <3> QED BY <3>1, <3>2, <3>3
  <2>3. CASE ~IsStore(commands[n + 1])
    <3>1. \A i \in n + 1 .. n + 1 : i = n + 1
      BY <1>4
    <3>2. n # 0
      BY <2>3
    <3> QED BY <1>1, <2>3, <3>1, <3>2
  <2> QED BY <2>2, <2>3
<1>6. k \in 0 .. n + 1 /\ k - 1 \in 0 .. n /\ k \in Nat
  BY <1>4, <1>5
<1>7. LastOf(commands, last) = commands[k].msg
  <2>1. /\ k \in 0 .. Len(commands) /\ \A i \in 1 .. k : IsStore(commands[i])
        /\ \A i \in k + 1 .. Len(commands) : ~IsStore(commands[i])
    BY <1>4, <1>5, <1>6, Zenon
  <2>2. LastOf(commands, last) = IF k = 0 THEN last ELSE commands[k].msg
    BY <2>1, LastOfAre, Zenon
  <2> QED BY <1>5, <2>2, Zenon
<1>8. LastOf(rest, first) = IF k - 1 = 0 THEN first ELSE rest[k - 1].msg
  <2>1. \A i \in 1 .. k - 1 : IsStore(rest[i])
    <3>1. \A i \in 1 .. k - 1 : i \in 1 .. n /\ i + 1 \in 1 .. k
      BY <1>4, <1>6
    <3> QED BY <1>4, <1>5, <3>1
  <2>2. \A i \in (k - 1) + 1 .. n : ~IsStore(rest[i])
    <3>1. \A i \in (k - 1) + 1 .. n : i \in 1 .. n /\ i + 1 \in k + 1 .. n + 1
      BY <1>4, <1>5, <1>6
    <3> QED BY <1>4, <1>5, <3>1
  <2>3. k - 1 \in 0 .. Len(rest) /\ n = Len(rest)
    BY <1>4, <1>6
  <2>4. PICK h : h = k - 1
    OBVIOUS
  <2>5. /\ h \in 0 .. Len(rest) /\ \A i \in 1 .. h : IsStore(rest[i])
        /\ \A i \in h + 1 .. Len(rest) : ~IsStore(rest[i])
    BY <2>1, <2>2, <2>3, <2>4, Zenon
  <2>6. LastOf(rest, first) = IF h = 0 THEN first ELSE rest[h].msg
    BY <1>4, <2>5, LastOfAre, Zenon
  <2> QED BY <2>4, <2>6, Zenon
<1>9. k - 1 # 0 => rest[k - 1] = commands[k]
  <2>1. k - 1 # 0 => k - 1 \in 1 .. n /\ (k - 1) + 1 = k
    BY <1>6
  <2> QED BY <1>4, <2>1
<1>10. k - 1 = 0 => commands[k].msg = first
  BY <1>3, <1>6
<1> QED BY <1>2, <1>3, <1>7, <1>8, <1>9, <1>10

\* What the server thread sees, as a function of the commands under way.
LEMMA Views ==
  /\ AsSeen = AfterStores(contents, pipe, size_limit)
  /\ AsSeen' = AfterStores(contents', pipe', size_limit')
  /\ LastSent = LastOf(pipe, latest)
  /\ LastSent' = LastOf(pipe', latest')
BY Zenon DEF AsSeen, LastSent, LastOf, Stores

\* With nothing under way it sees the queue as it is.
LEMMA ViewOfEmpty == ASSUME Inv, pipe = <<>> PROVE AsSeen = contents /\ LastSent = latest
BY AfterNone, LastNone, Views DEF Inv, TypeInv

LEMMA ViewOfEmptyNext ==
  ASSUME Inv', pipe' = <<>> PROVE AsSeen' = contents' /\ LastSent' = latest'
<1>1. PICK list \in Seq(Message) : list = contents'
  BY DEF Inv, TypeInv
<1>2. AfterStores(list, <<>>, size_limit') = list
  <2>1. PICK limit : limit = size_limit'
    OBVIOUS
  <2> QED BY <2>1, AfterNone
<1>3. LastOf(<<>>, latest') = latest'
  <2>1. PICK last : last = latest'
    OBVIOUS
  <2> QED BY <2>1, LastNone
<1> QED BY <1>1, <1>2, <1>3, Views

\* A step of the queue, when the server thread sees it before and after.
LEMMA SameView ==
  ASSUME Inv, [Next]_vars, AsSeen = contents, LastSent = latest,
         AsSeen' = contents', LastSent' = latest'
  PROVE  [ServerView!Next]_<<AsSeen, size_limit, LastSent>>
<1>1. /\ AsSeen = contents /\ LastSent = latest
      /\ AsSeen' = contents' /\ LastSent' = latest'
  OBVIOUS
<1>2. CASE UNCHANGED <<contents, size_limit, latest>>
  BY <1>1, <1>2
<1>3. CASE \E msg \in Message : Queue!Put(msg)
  <2>1. PICK msg \in Message : Queue!Put(msg)
    BY <1>3
  <2>2. ServerView!Room(msg) <=> Queue!Room(msg)
    BY <1>1, Zenon DEF ServerView!Room, Queue!Room, ServerView!Total, Queue!Total
  <2>3. ServerView!Put(msg)
    BY <1>1, <2>1, <2>2 DEF ServerView!Put, Queue!Put
  <2> QED BY <2>3 DEF ServerView!Next
<1>4. CASE \E i \in DOMAIN contents : Queue!Take(i)
  <2>1. PICK i \in DOMAIN contents : Queue!Take(i)
    BY <1>4
  <2>2. ServerView!Take(i)
    BY <1>1, <2>1, Zenon DEF ServerView!Take, Queue!Take, ServerView!RemoveAt, Queue!RemoveAt
  <2> QED BY <1>1, <2>2 DEF ServerView!Next
<1>5. CASE Queue!SetLimit
  <2>1. ServerView!SetLimit
    BY <1>1, <1>5 DEF ServerView!SetLimit, Queue!SetLimit
  <2> QED BY <2>1 DEF ServerView!Next
<1> QED BY <1>2, <1>3, <1>4, <1>5, QueueStep DEF Queue!Next

\* What a step does: it keeps the invariants, is a step of the queue, and one
\* of the abstract queue that the server thread sees.
Good == Inv' /\ LinkInv' /\ [Next]_vars /\ [ServerView!Next]_<<AsSeen, size_limit, LastSent>>

LEMMA UnchangedKeepsInv == ASSUME Inv, UNCHANGED vars PROVE Inv'
BY NextKeepsInv

\* A command is sent: the abstract queue does what it will do when the command
\* is handled.
LEMMA SendViews ==
  ASSUME Inv, LinkInv, waiting = NoCommand, UNCHANGED vars,
         NEW command \in Commands, pipe' = Append(pipe, command)
  PROVE  /\ AsSeen' = Handled(AsSeen, command, size_limit)
         /\ LastSent' = IF IsStore(command) THEN command.msg ELSE LastSent
         /\ AsSeen \in Seq(Message) /\ UNCHANGED size_limit
<1>1. contents \in Seq(Message) /\ pipe \in Seq(Commands)
  BY DEF Inv, TypeInv, LinkInv, TypeLink
<1>2. \A i \in 1 .. Len(pipe) : IsStore(pipe[i])
  BY DEF LinkInv, AskedIsLast
<1>3. contents' = contents /\ size_limit' = size_limit /\ latest' = latest
  BY DEF vars, config
<1>4. AsSeen' = AfterStores(contents, Append(pipe, command), size_limit)
  BY <1>3, Views
<1>5. LastSent' = LastOf(Append(pipe, command), latest)
  BY <1>3, Views
<1>6. AfterStores(contents, Append(pipe, command), size_limit)
        = Handled(AfterStores(contents, pipe, size_limit), command, size_limit)
  BY <1>1, AfterAppend
<1>7. LastOf(Append(pipe, command), latest)
        = IF IsStore(command) THEN command.msg ELSE LastOf(pipe, latest)
  BY <1>1, <1>2, LastAppend
<1>8. AfterStores(contents, pipe, size_limit) \in Seq(Message)
  BY <1>1, AfterType
<1> QED BY <1>3, <1>4, <1>5, <1>6, <1>7, <1>8, Views

LEMMA LastSentIs ==
  ASSUME LinkInv, waiting = NoCommand
  PROVE  LastSent = IF pipe = <<>> THEN latest ELSE pipe[Len(pipe)].msg
<1>1. pipe \in Seq(Commands) /\ \A i \in 1 .. Len(pipe) : IsStore(pipe[i])
  BY DEF LinkInv, TypeLink, AskedIsLast
<1>2. PICK k : k = Len(pipe)
  OBVIOUS
<1>3. /\ k \in 0 .. Len(pipe) /\ \A i \in k + 1 .. Len(pipe) : ~IsStore(pipe[i])
      /\ (k = 0 <=> pipe = <<>>)
  BY <1>1, <1>2
<1>4. LastOf(pipe, latest) = IF k = 0 THEN latest ELSE pipe[k].msg
  BY <1>1, <1>2, <1>3, LastOfAre
<1> QED BY <1>2, <1>3, <1>4, Views

LEMMA SendStoreGood == ASSUME Inv, LinkInv, NEW size \in Size, SendStore(size) PROVE Good
<1> DEFINE n == Len(pipe)
<1>1. PICK msg : msg = [id |-> LastSent.id + 1, size |-> size]
  OBVIOUS
<1>2. /\ waiting = NoCommand /\ owner = "mailbox" /\ LastSent.id < MaxMessages
      /\ pipe' = Append(pipe, Store(msg))
      /\ UNCHANGED <<replies, waiting>> /\ UNCHANGED vars
  BY <1>1 DEF SendStore, Free
<1>3. pipe \in Seq(Commands) /\ n \in Nat /\ latest.id \in Nat
  BY DEF Inv, TypeInv, LinkInv, TypeLink
<1>4. \A i \in 1 .. n : IsStore(pipe[i])
  BY <1>2 DEF LinkInv, AskedIsLast
<1>5. LastSent.id = latest.id + n
  <2>1. CASE pipe = <<>>
    BY <1>2, <1>3, <2>1, LastSentIs
  <2>2. CASE pipe # <<>>
    <3>1. n \in 1 .. n
      BY <1>3, <2>2
    <3> QED BY <1>2, <1>4, <2>2, <3>1, LastSentIs DEF LinkInv, Numbered
  <2> QED BY <2>1, <2>2
<1>6. msg \in Message /\ msg.id = latest.id + (n + 1)
  <2>1. PICK id : id = LastSent.id + 1
    OBVIOUS
  <2>2. id \in 1 .. MaxMessages /\ id = latest.id + (n + 1)
    <3>1. PICK a : a = latest.id
      OBVIOUS
    <3>2. PICK b : b = LastSent.id
      OBVIOUS
    <3>3. /\ a \in Nat /\ n \in Nat /\ b = a + n /\ b < MaxMessages /\ id = b + 1
          /\ MaxMessages \in Nat
      BY <1>2, <1>3, <1>5, <2>1, <3>1, <3>2, MessagesAssumption, Zenon
    <3>4. id \in 1 .. MaxMessages /\ id = a + (n + 1)
      BY ONLY <3>3
    <3> QED BY <3>1, <3>4
  <2>3. msg = [id |-> id, size |-> size]
    BY <1>1, <2>1
  <2> QED BY <2>2, <2>3 DEF Message
<1>7. Store(msg) \in Commands /\ IsStore(Store(msg)) /\ Store(msg).msg = msg
  BY <1>6 DEF Commands, Store, IsStore
<1>8. PICK command \in Commands : command = Store(msg)
  BY <1>7
<1>9. /\ pipe' \in Seq(Commands) /\ Len(pipe') = n + 1 /\ pipe'[n + 1] = command
      /\ \A i \in 1 .. n : pipe'[i] = pipe[i]
      /\ pipe' # <<>>
  BY <1>2, <1>3, <1>8
<1>10. LinkInv'
  <2>1. latest' = latest /\ owner' = owner
    BY <1>2 DEF vars
  <2>2. \A i \in 1 .. n + 1 : i \in 1 .. n \/ i = n + 1
    BY <1>3
  <2>3. \A i \in 1 .. n + 1 : IsStore(pipe'[i])
    BY <1>4, <1>7, <1>8, <1>9, <2>2
  <2>4. AskedIsLast'
    <3>1. \A i \in 1 .. Len(pipe') - 1 : i \in 1 .. n + 1
      BY <1>3, <1>9
    <3> QED BY <1>9, <2>3, <3>1 DEF AskedIsLast
  <2>5. Numbered'
    <3>1. \A i \in 1 .. n + 1 : pipe'[i].msg.id = latest.id + i
      <4>1. \A i \in 1 .. n : pipe[i].msg.id = latest.id + i
        BY <1>4 DEF LinkInv, Numbered
      <4>2. command.msg.id = latest.id + (n + 1)
        BY <1>6, <1>7, <1>8
      <4> QED BY <1>9, <2>2, <4>1, <4>2
    <3> QED BY <1>9, <2>1, <3>1 DEF Numbered
  <2>6. OneReply' /\ NoActor' /\ TypeLink'
    <3>1. replies = <<>> /\ replies' = <<>>
      BY <1>2 DEF LinkInv, OneReply
    <3> QED BY <1>2, <1>9, <2>1, <3>1 DEF LinkInv, TypeLink, OneReply, NoActor
  <2> QED BY <2>4, <2>5, <2>6 DEF LinkInv
<1>11. [ServerView!Next]_<<AsSeen, size_limit, LastSent>>
  <2>1. /\ AsSeen' = Handled(AsSeen, command, size_limit)
        /\ LastSent' = IF IsStore(command) THEN command.msg ELSE LastSent
        /\ UNCHANGED size_limit
    BY <1>2, <1>8, SendViews
  <2>2. AsSeen' = Keep(AsSeen, msg, size_limit) /\ LastSent' = msg
    BY <1>7, <1>8, <2>1, Zenon DEF Handled
  <2>3. Keep(AsSeen, msg, size_limit) =
          IF ServerView!Room(msg) THEN Append(AsSeen, msg) ELSE AsSeen
    BY Zenon DEF Keep, ServerView!Room, ServerView!Total, Queue!Total
  <2>4. ServerView!Put(msg)
    BY <2>1, <2>2, <2>3, Zenon DEF ServerView!Put
  <2> QED BY <1>6, <2>4 DEF ServerView!Next
<1> QED BY <1>2, <1>10, <1>11, UnchangedKeepsInv DEF Good

LEMMA SendAskGood ==
  ASSUME Inv, LinkInv, NEW method \in {"QUERY", "CONFIGURE"}, Free,
         pipe' = Append(pipe, Ask(method)), waiting' = method,
         UNCHANGED <<vars, replies>>
  PROVE  Good
<1> DEFINE n == Len(pipe)
<1>1. /\ waiting = NoCommand /\ waiting' # NoCommand /\ owner = "mailbox"
      /\ replies' = replies /\ UNCHANGED vars
  BY DEF Free, NoCommand
<1>2. PICK command \in Commands : command = Ask(method) /\ ~IsStore(command)
  BY DEF Commands, Ask, IsStore
<1>3. pipe \in Seq(Commands) /\ n \in Nat
  BY DEF LinkInv, TypeLink
<1>4. /\ pipe' \in Seq(Commands) /\ Len(pipe') = n + 1 /\ pipe'[n + 1] = command
      /\ \A i \in 1 .. n : pipe'[i] = pipe[i]
      /\ pipe' # <<>>
  BY <1>2, <1>3
<1>5. LinkInv'
  <2>1. latest' = latest /\ owner' = owner
    BY <1>1 DEF vars
  <2>2. \A i \in 1 .. n : IsStore(pipe[i])
    BY <1>1 DEF LinkInv, AskedIsLast
  <2>3. AskedIsLast'
    <3>1. \A i \in 1 .. Len(pipe') - 1 : i \in 1 .. n
      BY <1>3, <1>4
    <3> QED BY <1>1, <1>4, <2>2, <3>1 DEF AskedIsLast
  <2>4. Numbered'
    <3>1. \A i \in 1 .. n + 1 : IsStore(pipe'[i]) => i \in 1 .. n
      BY <1>2, <1>3, <1>4
    <3> QED BY <1>4, <2>1, <3>1 DEF LinkInv, Numbered
  <2>5. OneReply' /\ NoActor' /\ TypeLink'
    <3>1. replies = <<>> /\ replies' = <<>>
      BY <1>1 DEF LinkInv, OneReply
    <3> QED BY <1>1, <1>4, <2>1, <3>1 DEF LinkInv, TypeLink, OneReply, NoActor
  <2> QED BY <2>3, <2>4, <2>5 DEF LinkInv
<1>6. UNCHANGED <<AsSeen, size_limit, LastSent>>
  <2>1. /\ AsSeen' = Handled(AsSeen, command, size_limit)
        /\ LastSent' = IF IsStore(command) THEN command.msg ELSE LastSent
        /\ UNCHANGED size_limit
    BY <1>1, <1>2, SendViews
  <2> QED BY <1>2, <2>1, Zenon DEF Handled
<1> QED BY <1>1, <1>5, <1>6, UnchangedKeepsInv DEF Good

LEMMA TakeReplyGood == ASSUME Inv, LinkInv, TakeReply PROVE Good
<1>1. /\ replies # <<>> /\ replies' = Tail(replies) /\ waiting' = NoCommand
      /\ pipe' = pipe /\ UNCHANGED vars
  BY DEF TakeReply
<1>2. pipe = <<>> /\ pipe' = <<>>
  BY <1>1 DEF LinkInv, OneReply
<1>3. replies' = <<>>
  BY <1>1 DEF LinkInv, TypeLink, OneReply
<1>4. Inv'
  BY <1>1, UnchangedKeepsInv
<1>5. LinkInv'
  <2>1. pipe' \in Seq(Commands) /\ replies' \in Seq({"mail", "NULL", "done"})
        /\ Len(pipe') = 0 /\ Len(replies') = 0
    BY <1>2, <1>3
  <2> QED BY <1>1, <1>2, <1>3, <2>1
          DEF LinkInv, TypeLink, AskedIsLast, Numbered, OneReply, NoActor
<1>6. [ServerView!Next]_<<AsSeen, size_limit, LastSent>>
  BY <1>1, <1>2, <1>4, ViewOfEmpty, ViewOfEmptyNext, SameView
<1> QED BY <1>1, <1>4, <1>5, <1>6 DEF Good

LEMMA HandleStoreGood == ASSUME Inv, LinkInv, HandleStore PROVE Good
<1> DEFINE n == Len(pipe) - 1
<1>1. PICK first : first = pipe[1]
  OBVIOUS
<1>2. PICK msg : msg = first.msg
  OBVIOUS
<1>3. /\ pipe # <<>> /\ pipe' = Tail(pipe) /\ Enqueue(msg.size) /\ first = Head(pipe)
      /\ IsStore(first) /\ UNCHANGED <<replies, waiting>>
  BY <1>1, <1>2 DEF HandleStore, Handling, IsStore, LinkInv, TypeLink
<1>4. pipe \in Seq(Commands) /\ n \in Nat /\ 1 \in 1 .. Len(pipe) /\ Len(pipe) = n + 1
  BY <1>3 DEF LinkInv, TypeLink
<1>5. msg \in Message /\ msg.id = latest.id + 1
  <2>1. first \in Commands
    BY <1>1, <1>4
  <2> QED BY <1>1, <1>2, <1>3, <1>4, <2>1, CommandFacts DEF LinkInv, Numbered
<1>6. Inv' /\ [Next]_vars
  <2>1. msg.size \in Size
    BY <1>5, MessageFacts
  <2> QED BY <1>3, <2>1, EnqueueKeeps DEF Next
<1>7. /\ latest' = [id |-> latest.id + 1, size |-> msg.size]
      /\ contents' = IF Fits(msg.size) THEN Append(contents, latest') ELSE contents
      /\ size_limit' = size_limit /\ owner' = owner
  BY <1>3 DEF Enqueue, config
<1>8. latest' = msg /\ latest'.id = latest.id + 1
  <2>1. \A m \in Message : m = [id |-> m.id, size |-> m.size]
    BY DEF Message
  <2> QED BY <1>5, <1>7, <2>1
<1>9. PICK rest : rest = Tail(pipe)
  OBVIOUS
<1>10. /\ rest \in Seq(Commands) /\ Len(rest) = n /\ pipe' = rest
       /\ \A i \in 1 .. n : rest[i] = pipe[i + 1]
  BY <1>3, <1>4, <1>9
<1>11. LinkInv'
  <2>1. \A i \in 1 .. n : i + 1 \in 1 .. Len(pipe)
    BY <1>4
  <2>2. \A i \in 1 .. n - 1 : i \in 1 .. n /\ i + 1 \in 1 .. Len(pipe) - 1
    BY <1>4
  <2>3. AskedIsLast'
    BY <1>3, <1>10, <2>1, <2>2 DEF LinkInv, AskedIsLast
  <2>4. Numbered'
    <3>1. ASSUME NEW i \in 1 .. n, IsStore(rest[i])
          PROVE  rest[i].msg.id = latest'.id + i
      <4>1. pipe[i + 1].msg.id = latest.id + (i + 1)
        BY <1>10, <2>1, <3>1 DEF LinkInv, Numbered
      <4>2. latest.id \in Nat
        BY DEF Inv, TypeInv
      <4>3. latest.id + (i + 1) = (latest.id + 1) + i
        BY <1>4, <4>2
      <4> QED BY <1>8, <1>10, <4>1, <4>3, Zenon
    <3> QED BY <1>10, <3>1 DEF Numbered
  <2>5. OneReply' /\ NoActor' /\ TypeLink'
    <3>1. replies = <<>> /\ replies' = <<>> /\ owner # "service"
      BY <1>3 DEF LinkInv, OneReply, NoActor
    <3> QED BY <1>3, <1>7, <1>10, <3>1 DEF LinkInv, TypeLink, OneReply, NoActor
  <2> QED BY <2>3, <2>4, <2>5 DEF LinkInv
<1>12. UNCHANGED <<AsSeen, size_limit, LastSent>>
  <2>1. contents' = Handled(contents, first, size_limit)
    <3>1. Fits(msg.size) <=> \/ size_limit = Unlimited
                             \/ Queue!Total(contents) + msg.size <= size_limit
      BY DEF Fits, Inv, TotalExact
    <3> QED BY <1>2, <1>3, <1>7, <1>8, <3>1, Zenon DEF Handled, Keep
  <2>2. AfterStores(contents, pipe, size_limit)
          = AfterStores(Handled(contents, Head(pipe), size_limit), Tail(pipe), size_limit)
    BY <1>3, <1>4, AfterFirst DEF Inv, TypeInv
  <2>3. AsSeen' = AsSeen
    BY <1>3, <1>7, <2>1, <2>2, Views
  <2>4. LastSent' = LastSent
    <3>1. LastOf(pipe, latest) = LastOf(Tail(pipe), pipe[1].msg)
      <4>1. \A i \in 1 .. Len(pipe) - 1 : IsStore(pipe[i])
        BY DEF LinkInv, AskedIsLast
      <4> QED BY <1>1, <1>3, <1>4, <4>1, LastTail
    <3> QED BY <1>1, <1>2, <1>3, <1>8, <3>1, Views
  <2> QED BY <1>7, <2>3, <2>4
<1> QED BY <1>6, <1>11, <1>12 DEF Good

\* A command that is not a STORE comes to the actor when there is no other.
LEMMA AskedAlone ==
  ASSUME LinkInv, pipe # <<>>, ~IsStore(Head(pipe))
  PROVE  /\ Tail(pipe) = <<>> /\ replies = <<>> /\ waiting # NoCommand
         /\ owner # "service" /\ Len(pipe) = 1
<1>1. pipe \in Seq(Commands) /\ Len(pipe) \in Nat /\ 1 \in 1 .. Len(pipe) /\ Head(pipe) = pipe[1]
  BY DEF LinkInv, TypeLink
<1>2. Len(pipe) = 1
  <2>1. ASSUME Len(pipe) # 1 PROVE FALSE
    <3>1. PICK n : n = Len(pipe)
      OBVIOUS
    <3>2. n \in Nat /\ 1 \in 1 .. n /\ n # 1
      BY <1>1, <2>1, <3>1, Zenon
    <3>3. 1 \in 1 .. n - 1
      BY ONLY <3>2
    <3>4. 1 \in 1 .. Len(pipe) - 1
      BY <3>1, <3>3, Zenon
    <3> QED BY <1>1, <3>4, Zenon DEF LinkInv, AskedIsLast
  <2> QED BY <2>1
<1>3. Tail(pipe) = <<>>
  <2>1. PICK list \in Seq(Commands) : list = pipe
    BY <1>1
  <2>2. list \in Seq(Commands) /\ Len(list) = 1
    BY <1>2, <2>1
  <2>3. PICK rest : rest = Tail(list)
    OBVIOUS
  <2>4. rest \in Seq(Commands) /\ Len(rest) = 0
    BY <2>2, <2>3
  <2>5. rest = <<>>
    BY ONLY <2>4
  <2> QED BY <2>1, <2>3, <2>5
<1>4. waiting # NoCommand
  BY <1>1 DEF LinkInv, AskedIsLast
<1> QED BY <1>2, <1>3, <1>4 DEF LinkInv, OneReply, NoActor

\* A command is answered: the queue makes a step or none.
LEMMA AnsweredGood ==
  ASSUME Inv, LinkInv, [Next]_vars, pipe # <<>>, ~IsStore(Head(pipe)),
         pipe' = Tail(pipe), waiting' = waiting, owner' = owner, latest' = latest,
         NEW reply \in {"mail", "NULL", "done"}, replies' = Append(replies, reply)
  PROVE  Good
<1>1. /\ pipe' = <<>> /\ replies = <<>> /\ waiting' # NoCommand /\ owner' # "service"
  BY AskedAlone
<1>2. Inv'
  BY NextKeepsInv
<1>3. replies' \in Seq({"mail", "NULL", "done"}) /\ Len(replies') = 1
  BY <1>1
<1>4. LinkInv'
  <2>1. pipe' \in Seq(Commands) /\ Len(pipe') = 0
    <3>1. PICK none : none = pipe'
      OBVIOUS
    <3>2. none = <<>>
      BY <1>1, <3>1
    <3>3. none \in Seq(Commands) /\ Len(none) = 0
      BY ONLY <3>2
    <3> QED BY <3>1, <3>3
  <2> QED BY <1>1, <1>3, <2>1
          DEF LinkInv, TypeLink, AskedIsLast, Numbered, OneReply, NoActor
<1>5. LastSent = latest /\ LastSent' = latest' /\ AsSeen' = contents'
  <2>1. LastSent = latest
    <3>1. LastOf(pipe, latest) = latest
      <4>1. pipe \in Seq(Commands) /\ Len(pipe) = 1 /\ pipe[1] = Head(pipe)
        BY AskedAlone DEF LinkInv, TypeLink
      <4>2. /\ 0 \in 0 .. Len(pipe) /\ \A i \in 1 .. 0 : IsStore(pipe[i])
            /\ \A i \in 0 + 1 .. Len(pipe) : ~IsStore(pipe[i])
        BY <4>1
      <4> QED BY <4>1, <4>2, LastOfAre
    <3> QED BY <3>1, Views
  <2> QED BY <1>1, <1>2, <2>1, ViewOfEmptyNext
<1>6. AsSeen = contents
  <2>1. PICK command \in Commands : command = Head(pipe) /\ pipe = Append(<<>>, command)
    BY AskedAlone DEF LinkInv, TypeLink
  <2>2. contents \in Seq(Message) /\ <<>> \in Seq(Commands)
    BY DEF Inv, TypeInv
  <2>3. AfterStores(contents, Append(<<>>, command), size_limit)
          = Handled(AfterStores(contents, <<>>, size_limit), command, size_limit)
    BY <2>2, AfterAppend
  <2>4. AfterStores(contents, <<>>, size_limit) = contents
    BY <2>2, AfterNone
  <2> QED BY <2>1, <2>3, <2>4, Views DEF Handled
<1>7. [ServerView!Next]_<<AsSeen, size_limit, LastSent>>
  BY <1>5, <1>6, SameView
<1> QED BY <1>2, <1>4, <1>7 DEF Good

LEMMA HandleQueryGood == ASSUME Inv, LinkInv, HandleQuery PROVE Good
<1>1. /\ pipe # <<>> /\ Head(pipe).method = "QUERY" /\ pipe' = Tail(pipe)
      /\ waiting' = waiting /\ Answer
  BY DEF HandleQuery, Handling
<1>2. ~IsStore(Head(pipe))
  BY <1>1 DEF IsStore
<1>3. CASE Dequeue /\ replies' = Append(replies, "mail")
  <2>1. [Next]_vars /\ owner' = owner /\ latest' = latest
    BY <1>3 DEF Next, Dequeue
  <2> QED BY <1>1, <1>2, <1>3, <2>1, AnsweredGood
<1>4. CASE replies' = Append(replies, "NULL") /\ UNCHANGED vars
  <2>1. owner' = owner /\ latest' = latest
    BY <1>4 DEF vars
  <2> QED BY <1>1, <1>2, <1>4, <2>1, AnsweredGood
<1> QED BY <1>1, <1>3, <1>4 DEF Answer

LEMMA HandleConfigureGood == ASSUME Inv, LinkInv, HandleConfigure PROVE Good
<1>1. /\ pipe # <<>> /\ Head(pipe).method = "CONFIGURE" /\ pipe' = Tail(pipe)
      /\ waiting' = waiting /\ Configure /\ replies' = Append(replies, "done")
  BY DEF HandleConfigure, Handling
<1>2. ~IsStore(Head(pipe))
  BY <1>1 DEF IsStore
<1>3. [Next]_vars /\ owner' = owner /\ latest' = latest
  BY <1>1 DEF Next, Configure
<1> QED BY <1>1, <1>2, <1>3, AnsweredGood

\* A service has no actor.
LEMMA OwnerGood == ASSUME Inv, LinkInv, owner = "service", Next, UNCHANGED link PROVE Good
<1>1. /\ pipe = <<>> /\ replies = <<>> /\ waiting = NoCommand
      /\ pipe' = <<>> /\ replies' = <<>> /\ waiting' = NoCommand
  BY DEF LinkInv, NoActor, link
<1>2. Inv'
  BY NextKeepsInv
<1>3. LinkInv'
  <2>1. pipe' \in Seq(Commands) /\ Len(pipe') = 0
    <3>1. PICK none : none = pipe'
      OBVIOUS
    <3>2. none = <<>>
      BY <1>1, <3>1
    <3>3. none \in Seq(Commands) /\ Len(none) = 0
      BY ONLY <3>2
    <3> QED BY <3>1, <3>3
  <2>2. replies' \in Seq({"mail", "NULL", "done"}) /\ Len(replies') = 0
    BY <1>1
  <2> QED BY <1>1, <2>1, <2>2
          DEF LinkInv, TypeLink, AskedIsLast, Numbered, OneReply, NoActor
<1>4. [ServerView!Next]_<<AsSeen, size_limit, LastSent>>
  BY <1>1, <1>2, ViewOfEmpty, ViewOfEmptyNext, SameView
<1> QED BY <1>2, <1>3, <1>4 DEF Good

LEMMA StepGood == Inv /\ LinkInv /\ [MailboxNext]_allVars => Good
<1> SUFFICES ASSUME Inv, LinkInv, [MailboxNext]_allVars PROVE Good
  OBVIOUS
<1>1. CASE \E size \in Size : SendStore(size)
  BY <1>1, SendStoreGood
<1>2. CASE SendQuery
  BY <1>2, SendAskGood DEF SendQuery
<1>3. CASE SendConfigure
  BY <1>3, SendAskGood DEF SendConfigure
<1>4. CASE TakeReply
  BY <1>4, TakeReplyGood
<1>5. CASE Actor
  BY <1>5, HandleStoreGood, HandleQueryGood, HandleConfigureGood DEF Actor
<1>6. CASE owner = "service" /\ Next /\ UNCHANGED link
  BY <1>6, OwnerGood
<1>7. CASE UNCHANGED allVars
  <2>1. UNCHANGED vars /\ UNCHANGED <<pipe, replies, waiting>>
    BY <1>7 DEF allVars, link
  <2>2. UNCHANGED <<owner, contents, size_limit, latest>>
    BY <2>1 DEF vars, config
  <2>3. LinkInv'
    BY <2>1, <2>2, Zenon DEF LinkInv, TypeLink, AskedIsLast, Numbered, OneReply, NoActor
  <2>4. UNCHANGED <<AsSeen, size_limit, LastSent>>
    BY <2>1, <2>2, Views
  <2> QED BY <2>1, <2>3, <2>4, UnchangedKeepsInv DEF Good
<1> QED BY <1>1, <1>2, <1>3, <1>4, <1>5, <1>6, <1>7 DEF MailboxNext

LEMMA InitLink == MailboxInit => Inv /\ LinkInv
<1> SUFFICES ASSUME MailboxInit PROVE Inv /\ LinkInv
  OBVIOUS
<1>1. Inv
  BY InitInv DEF MailboxInit
<1>2. pipe = <<>> /\ replies = <<>> /\ waiting = NoCommand
  BY DEF MailboxInit
<1>3. LinkInv
  BY <1>2 DEF LinkInv, TypeLink, AskedIsLast, Numbered, OneReply, NoActor
<1> QED BY <1>1, <1>3

\* Nothing is behind a command whose reply is awaited, and each mail under way
\* carries the number that it is to have in the queue.
THEOREM LinkHolds == MailboxSpec => [](Inv /\ LinkInv)
<1>1. Inv /\ LinkInv /\ [MailboxNext]_allVars => Inv' /\ LinkInv'
  BY StepGood DEF Good
<1> QED BY InitLink, <1>1, PTL DEF MailboxSpec

\* The actor works with its queue as MsgQueue says, so that what holds of the
\* queue holds of the queue in the actor (s_self_handle_command).
THEOREM ActorUsesQueue == MailboxSpec => Spec
<1>1. MailboxInit => Init
  BY DEF MailboxInit
<1>2. Inv /\ LinkInv /\ [MailboxNext]_allVars => [Next]_vars
  BY StepGood DEF Good
<1> QED BY LinkHolds, <1>1, <1>2, PTL DEF MailboxSpec, Spec

\* To the server thread, which does not wait when it stores a message, the
\* mailbox in its thread is a bounded queue: the refinement maps the queue to
\* what it will be when the STOREs under way have been handled
\* (s_self_handle_command, server_configuration).
THEOREM MailboxIsQueue == MailboxSpec => ActorIsTransparent
<1>1. MailboxInit => ServerView!Init
  <2> SUFFICES ASSUME MailboxInit PROVE ServerView!Init
    OBVIOUS
  <2>1. Inv /\ pipe = <<>>
    BY InitLink DEF MailboxInit
  <2>2. AsSeen = contents /\ LastSent = latest
    BY <2>1, ViewOfEmpty
  <2> QED BY <2>2 DEF MailboxInit, Init, ServerView!Init
<1>2. Inv /\ LinkInv /\ [MailboxNext]_allVars
        => [ServerView!Next]_<<AsSeen, size_limit, LastSent>>
  BY StepGood DEF Good
<1> QED BY LinkHolds, <1>1, <1>2, PTL DEF MailboxSpec, ActorIsTransparent, ServerView!Spec
=============================================================================
