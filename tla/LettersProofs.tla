--------------------------- MODULE LettersProofs ---------------------------
(***************************************************************************)
(* Proofs about Codec and Letters, for every value of their constants.     *)
(***************************************************************************)
EXTENDS Letters, TLAPS, Lemmas, SequenceTheorems

-----------------------------------------------------------------------------
\* Message objects

\* Numbers of two and of four octets, and texts, for the provers by name.
Number16 == {n \in Nat : n <= 65535}
Number32 == {n \in Nat : n \div 16777216 <= 255}
Texts == {text \in Seq(Octet) : IsText(text)}

ProtoFields == TextFields \cup NumberFields \cup {"id", "content", "routing_id"}

\* What a field of an object may hold.
Held(f) ==
  CASE f \in TextFields -> Texts
    [] f = "timeout" -> Number32
    [] f \in {"status_code", "amount"} -> Number16
    [] f = "id" -> Range(Id) \cup {"none"}
    [] f = "content" -> Seq(Seq(Octet)) \cup {NoContent}
    [] OTHER -> Client \cup {NoRoute}

Object == {o \in [ProtoFields -> UNION {Held(f) : f \in ProtoFields}] :
             \A f \in ProtoFields : o[f] \in Held(f)}

LEMMA FieldsAre ==
  /\ TextFields \subseteq ProtoFields /\ NumberFields \subseteq ProtoFields
  /\ {"id", "content", "routing_id"} \subseteq ProtoFields
  /\ \A f \in TextFields : Held(f) = Texts
  /\ Held("timeout") = Number32
  /\ Held("status_code") = Number16 /\ Held("amount") = Number16
  /\ Held("id") = Range(Id) \cup {"none"}
  /\ Held("content") = Seq(Seq(Octet)) \cup {NoContent}
  /\ Held("routing_id") = Client \cup {NoRoute}
BY Zenon DEF ProtoFields, TextFields, NumberFields, Held

\* One field of an object is set.
With(o, f, v) == [o EXCEPT ![f] = v]

LEMMA ObjectSet ==
  ASSUME NEW o \in Object, NEW f \in ProtoFields, NEW v \in Held(f)
  PROVE  /\ With(o, f, v) \in Object
         /\ \A g \in ProtoFields : With(o, f, v)[g] = IF g = f THEN v ELSE o[g]
<1>1. o \in [ProtoFields -> UNION {Held(g) : g \in ProtoFields}]
      /\ \A g \in ProtoFields : o[g] \in Held(g)
  BY Zenon DEF Object
<1>2. v \in UNION {Held(g) : g \in ProtoFields}
  BY Zenon
<1>3. PICK new : new = With(o, f, v) /\ new = [o EXCEPT ![f] = v]
  BY Zenon DEF With
<1>4. new \in [ProtoFields -> UNION {Held(g) : g \in ProtoFields}]
  BY <1>1, <1>2, <1>3, Zenon
<1>5. \A g \in ProtoFields : new[g] = IF g = f THEN v ELSE o[g]
  BY <1>1, <1>3, Zenon
<1>6. new \in Object
  BY <1>1, <1>4, <1>5, Zenon DEF Object
<1> QED BY <1>3, <1>5, <1>6, Zenon

Reads(o, f, v, p) == \A g \in ProtoFields : p[g] = IF g = f THEN v ELSE o[g]

LEMMA SetReads ==
  ASSUME NEW o \in Object, NEW f \in ProtoFields, NEW v \in Held(f)
  PROVE  Reads(o, f, v, With(o, f, v))
BY ObjectSet, ZenonT(30) DEF Reads

LEMMA SetStays ==
  ASSUME NEW o \in Object, NEW f \in ProtoFields, NEW v \in Held(f)
  PROVE  With(o, f, v) \in Object
BY ObjectSet, Zenon

LEMMA ObjectFields ==
  ASSUME NEW o \in Object
  PROVE  /\ DOMAIN o = ProtoFields /\ o = [f \in ProtoFields |-> o[f]]
         /\ \A f \in TextFields : o[f] \in Seq(Octet) /\ IsText(o[f])
         /\ o.timeout \in Number32
         /\ o.status_code \in Number16 /\ o.amount \in Number16
         /\ o.id \in Range(Id) \cup {"none"}
         /\ o.content \in Seq(Seq(Octet)) \cup {NoContent}
         /\ o.routing_id \in Client \cup {NoRoute}
<1>1. o \in [ProtoFields -> UNION {Held(f) : f \in ProtoFields}]
      /\ \A f \in ProtoFields : o[f] \in Held(f)
  BY Zenon DEF Object
<1>2. \A f \in TextFields : o[f] \in Seq(Octet) /\ IsText(o[f])
  BY <1>1, FieldsAre, Zenon DEF Texts
<1>3. {"timeout", "status_code", "amount", "id", "content", "routing_id"} \subseteq ProtoFields
  BY Zenon DEF ProtoFields, NumberFields
<1> QED BY <1>1, <1>2, <1>3, FieldsAre, Zenon

\* What mlm_proto_new has in a field.
Zero(f) ==
  CASE f \in TextFields -> <<>>
    [] f \in NumberFields -> 0
    [] f = "id" -> "none"
    [] OTHER -> NULL

LEMMA NewProtoIsObject == NewProto \in Object
<1>1. NewProto = [f \in ProtoFields |-> Zero(f)]
  BY Zenon DEF NewProto, ProtoFields, Zero
<1>2. ASSUME NEW f \in ProtoFields PROVE Zero(f) \in Held(f)
  <2>1. CASE f \in TextFields
    <3>0. f \notin NumberFields /\ f # "id"
      BY <2>1 DEF NumberFields, TextFields
    <3>1. PICK none : none = <<>> /\ Zero(f) = none
      BY <2>1, <3>0, Zenon DEF Zero
    <3>2. none \in Texts
      BY <3>1 DEF Texts, IsText
    <3>3. Held(f) = Texts
      BY <2>1, FieldsAre, Zenon
    <3> QED BY <3>1, <3>2, <3>3
  <2>2. CASE f \in NumberFields
    <3>1. f \notin TextFields /\ f # "id"
      BY <2>2 DEF NumberFields, TextFields
    <3>2. Zero(f) = 0
      BY <2>2, <3>1, Zenon DEF Zero
    <3>3. 0 \in Number32 /\ 0 \in Number16
      BY DEF Number32, Number16
    <3> QED BY <2>2, <3>2, <3>3, FieldsAre, Zenon DEF NumberFields
  <2>3. CASE f = "id"
    <3>1. "id" \notin TextFields /\ "id" \notin NumberFields
      BY DEF TextFields, NumberFields
    <3>2. Zero(f) = "none"
      BY <2>3, <3>1, Zenon DEF Zero
    <3> QED BY <2>3, <3>2, FieldsAre, Zenon
  <2>4. CASE f = "content" \/ f = "routing_id"
    <3>1. f \notin TextFields /\ f \notin NumberFields /\ f # "id"
      BY <2>4 DEF TextFields, NumberFields
    <3>2. Zero(f) = NULL
      BY <3>1, Zenon DEF Zero
    <3> QED BY <2>4, <3>2, FieldsAre, Zenon DEF NoContent, NoRoute
  <2> QED BY <2>1, <2>2, <2>3, <2>4, Zenon DEF ProtoFields
<1>3. \A f \in ProtoFields : Zero(f) \in UNION {Held(g) : g \in ProtoFields}
  BY <1>2, Zenon
<1>4. PICK new : new = [f \in ProtoFields |-> Zero(f)]
  OBVIOUS
<1>5. new \in [ProtoFields -> UNION {Held(g) : g \in ProtoFields}]
      /\ \A f \in ProtoFields : new[f] = Zero(f)
  BY <1>3, <1>4, Zenon
<1> QED BY <1>1, <1>2, <1>4, <1>5, Zenon DEF Object

-----------------------------------------------------------------------------
\* Numbers and texts in a frame

LEMMA FrontBack ==
  ASSUME NEW S, NEW front \in Seq(S), NEW back \in Seq(S)
  PROVE  /\ front \o back \in Seq(S)
         /\ Len(front \o back) = Len(front) + Len(back)
         /\ SubSeq(front \o back, 1, Len(front)) = front
         /\ SubSeq(front \o back, Len(front) + 1, Len(front \o back)) = back
<1>1. PICK all : all = front \o back
  OBVIOUS
<1>2. PICK k, l : k = Len(front) /\ l = Len(back)
  OBVIOUS
<1>3. /\ all \in Seq(S) /\ Len(all) = k + l /\ k \in Nat /\ l \in Nat
      /\ \A i \in 1 .. k : all[i] = front[i]
      /\ \A i \in 1 .. l : all[k + i] = back[i]
  BY <1>1, <1>2, JoinEntries
<1>4. SubSeq(all, 1, k) = front
  <2>1. /\ SubSeq(all, 1, k) \in Seq(S) /\ Len(SubSeq(all, 1, k)) = k
        /\ \A i \in 1 .. k : SubSeq(all, 1, k)[i] = all[i]
    BY <1>3
  <2>2. PICK part : part = SubSeq(all, 1, k)
    OBVIOUS
  <2>3. part = front
    <3> SUFFICES /\ part \in Seq(S) /\ front \in Seq(S) /\ Len(part) = Len(front)
                 /\ \A i \in 1 .. Len(part) : part[i] = front[i]
      BY SeqEqual, Zenon
    <3> QED BY <1>2, <1>3, <2>1, <2>2
  <2> QED BY <2>2, <2>3
<1>5. SubSeq(all, k + 1, k + l) = back
  <2>1. /\ SubSeq(all, k + 1, k + l) \in Seq(S) /\ Len(SubSeq(all, k + 1, k + l)) = l
        /\ \A i \in 1 .. l : SubSeq(all, k + 1, k + l)[i] = all[k + i]
    BY <1>3
  <2>2. PICK part : part = SubSeq(all, k + 1, k + l)
    OBVIOUS
  <2>3. part = back
    <3> SUFFICES /\ part \in Seq(S) /\ back \in Seq(S) /\ Len(part) = Len(back)
                 /\ \A i \in 1 .. Len(part) : part[i] = back[i]
      BY SeqEqual, Zenon
    <3> QED BY <1>2, <1>3, <2>1, <2>2
  <2> QED BY <2>2, <2>3
<1> QED BY <1>1, <1>2, <1>3, <1>4, <1>5

LEMMA OctetIs == \A n : n \in Octet <=> n \in Int /\ 0 <= n /\ n <= 255
<1>1. PICK b : b = 255
  OBVIOUS
<1>2. Octet = 0 .. b
  BY <1>1, Zenon DEF Octet
<1> QED BY <1>1, <1>2

LEMMA Octets ==
  ASSUME NEW n \in Int
  PROVE  n % 256 \in Octet
<1>1. n % 256 \in Int /\ 0 <= n % 256 /\ n % 256 <= 255
  OBVIOUS
<1> QED BY <1>1, OctetIs

LEMMA TwoOctets ==
  ASSUME NEW n \in Number16
  PROVE  /\ Put2(n) \in Seq(Octet) /\ Len(Put2(n)) = 2
         /\ Get2(Put2(n)) = n
<1>1. (n \div 256) % 256 \in Octet /\ n % 256 \in Octet
  BY Octets DEF Number16
<1>2. 256 * ((n \div 256) % 256) + (n % 256) = n
  <2>1. n \in Nat /\ n <= 65535
    BY DEF Number16
  <2>2. (n \div 256) \in Nat /\ (n \div 256) <= 255
    BY <2>1
  <2>3. (n \div 256) % 256 = n \div 256
    BY <2>2
  <2> QED BY <2>1, <2>3
<1> QED BY <1>1, <1>2 DEF Put2, Get2

LEMMA FourOctets ==
  ASSUME NEW n \in Number32
  PROVE  /\ Put4(n) \in Seq(Octet) /\ Len(Put4(n)) = 4
         /\ Get4(Put4(n)) = n
<1>1. /\ (n \div 16777216) % 256 \in Octet /\ (n \div 65536) % 256 \in Octet
      /\ (n \div 256) % 256 \in Octet /\ n % 256 \in Octet
  BY Octets DEF Number32
<1>2. PICK a, b, c, d : /\ a = (n \div 16777216) % 256 /\ b = (n \div 65536) % 256
                        /\ c = (n \div 256) % 256 /\ d = n % 256
  OBVIOUS
<1>3. /\ a \in Octet /\ b \in Octet /\ c \in Octet /\ d \in Octet
  BY <1>1, <1>2
<1>4. Put4(n) = <<a, b>> \o <<c, d>>
  BY <1>2 DEF Put4, Put2
<1>5. PICK high, low : high = <<a, b>> /\ low = <<c, d>>
  OBVIOUS
<1>6. /\ high \in Seq(Octet) /\ Len(high) = 2 /\ high[1] = a /\ high[2] = b
      /\ low \in Seq(Octet) /\ Len(low) = 2 /\ low[1] = c /\ low[2] = d
  BY <1>3, <1>5
<1>7. PICK all : all = high \o low
  OBVIOUS
<1>8. /\ all \in Seq(Octet) /\ Len(all) = 4 /\ all[1] = a /\ all[2] = b
      /\ SubSeq(all, 3, 4) = low
  <2>1. /\ all \in Seq(Octet) /\ Len(all) = Len(high) + Len(low)
        /\ SubSeq(all, Len(high) + 1, Len(all)) = low
    <3>1. high \in Seq(Octet) /\ low \in Seq(Octet)
      BY <1>6
    <3> QED BY <1>7, <3>1, FrontBack
  <2>2. all[1] = a /\ all[2] = b
    BY <1>6, <1>7
  <2>3. Len(all) = 4 /\ SubSeq(all, 3, 4) = low
    BY <1>6, <2>1
  <2> QED BY <2>1, <2>2, <2>3
<1>9. Get4(all) = 16777216 * a + 65536 * b + (256 * c + d)
  BY <1>6, <1>8 DEF Get4, Get2
<1>10. 16777216 * a + 65536 * b + (256 * c + d) = n
  <2>1. n \in Nat /\ n \div 16777216 <= 255
    BY DEF Number32
  <2>2. PICK n3, n2, n1 : /\ n3 = n \div 16777216 /\ n2 = n \div 65536 /\ n1 = n \div 256
                          /\ n3 \in Nat /\ n2 \in Nat /\ n1 \in Nat
    BY <2>1
  <2>3. n = 256 * n1 + d
    BY <1>2, <2>1, <2>2
  <2>4. n1 = 256 * n2 + c
    BY <1>2, <2>1, <2>2
  <2>5. n2 = 256 * n3 + b
    BY <1>2, <2>1, <2>2
  <2>6. a = n3
    BY <1>2, <2>1, <2>2
  <2> QED BY <2>2, <2>3, <2>4, <2>5, <2>6, <1>3, OctetIs
<1>11. Put4(n) = all
  BY <1>4, <1>5, <1>7
<1> QED BY <1>8, <1>9, <1>10, <1>11

LEMMA TextOctets ==
  ASSUME NEW text \in Texts
  PROVE  /\ PutText(text) \in Seq(Octet)
         /\ Len(PutText(text)) = TextSize(text)
         /\ PutText(text) # <<>> /\ PutText(text)[1] = Len(text)
         /\ Tail(PutText(text)) = text
<1>0. text \in Seq(Octet) /\ Len(text) <= 255 /\ Len(text) \in Nat
  BY DEF Texts, IsText
<1>1. Len(text) \in Octet /\ Len(text) % 256 = Len(text)
  <2>1. PICK k : k = Len(text)
    OBVIOUS
  <2>2. k \in Nat /\ k <= 255
    BY <1>0, <2>1
  <2>3. k % 256 = k
    BY <2>2
  <2> QED BY <2>1, <2>2, <2>3, OctetIs
<1>2. PICK all : all = <<Len(text)>> \o text
  OBVIOUS
<1>3. /\ all \in Seq(Octet) /\ Len(all) = 1 + Len(text) /\ all[1] = Len(text)
      /\ all # <<>> /\ Tail(all) = text
  BY <1>0, <1>1, <1>2
<1>4. PutText(text) = all
  BY <1>1, <1>2 DEF PutText, Put1
<1> QED BY <1>3, <1>4 DEF TextSize

LEMMA OpeningOctets ==
  /\ PutText(MALAMUTE) \o Put2(Version) \in Seq(Octet)
  /\ Len(PutText(MALAMUTE) \o Put2(Version)) = 11
  /\ MALAMUTE \in Seq(Octet) /\ Len(MALAMUTE) = 8 /\ TextSize(MALAMUTE) = 9
<1>1. MALAMUTE \in Seq(Octet) /\ Len(MALAMUTE) = 8
  <2>1. 77 \in Octet /\ 65 \in Octet /\ 76 \in Octet /\ 85 \in Octet /\ 84 \in Octet
            /\ 69 \in Octet
    BY OctetIs
  <2> QED BY <2>1 DEF MALAMUTE
<1>2. PICK name : name = MALAMUTE
  OBVIOUS
<1>9. PICK put : put = PutText(name)
  OBVIOUS
<1>3. put \in Seq(Octet) /\ Len(put) = 9
  <2>1. name \in Texts
    <3>1. name \in Seq(Octet) /\ Len(name) = 8
      BY <1>1, <1>2, Zenon
    <3>2. Len(name) <= 255
      BY <3>1
    <3> QED BY <3>1, <3>2, Zenon DEF Texts, IsText
  <2>2. put \in Seq(Octet) /\ Len(put) = TextSize(name)
    BY <1>9, <2>1, TextOctets, Zenon
  <2> QED BY <1>1, <1>2, <2>2 DEF TextSize
<1>4. PICK one : one = Version
  OBVIOUS
<1>5. one \in Number16
  BY <1>4 DEF Version, Number16
<1>6. Put2(one) \in Seq(Octet) /\ Len(Put2(one)) = 2
  BY <1>5, TwoOctets, Zenon
<1>7. PICK version : version = Put2(one)
  OBVIOUS
<1>8. put \o version \in Seq(Octet) /\ Len(put \o version) = 9 + 2
  <2>1. version \in Seq(Octet) /\ Len(version) = 2
    BY <1>6, <1>7
  <2>2. put \o version \in Seq(Octet) /\ Len(put \o version) = Len(put) + Len(version)
    BY <1>3, <2>1, ConcatProperties, Zenon
  <2> QED BY <1>3, <2>1, <2>2
<1>10. TextSize(MALAMUTE) = 9
  BY <1>1 DEF TextSize
<1> QED BY <1>1, <1>2, <1>4, <1>7, <1>8, <1>9, <1>10

-----------------------------------------------------------------------------
\* One field is read back

Item ==
  {Text(f) : f \in TextFields} \cup {Two("status_code"), Two("amount"), Four("timeout"),
   Opening}

\* What is written for this item, and the object in which it was read.
Written(m, item) ==
  CASE item.as = "two" -> Put2(m[item.field])
    [] item.as = "four" -> Put4(m[item.field])
    [] item.as = "opening" -> PutText(MALAMUTE) \o Put2(Version)
    [] OTHER -> PutText(m[item.field])
Taken(m, o, item) ==
  IF item.as = "opening" THEN o ELSE [o EXCEPT ![item.field] = m[item.field]]

LEMMA ItemFacts ==
  ASSUME NEW item \in Item
  PROVE  \/ item.as = "text" /\ item.field \in TextFields
         \/ item.as = "two" /\ item.field \in {"status_code", "amount"}
         \/ item.as = "four" /\ item.field = "timeout"
         \/ item.as = "opening" /\ item.field = ""
<1>1. CASE \E f \in TextFields : item = Text(f)
  <2>1. PICK f \in TextFields : item = Text(f)
    BY <1>1
  <2>2. item.as = "text" /\ item.field = f
    BY <2>1 DEF Text
  <2> QED BY <2>2
<1>2. CASE item \in {Two("status_code"), Two("amount")}
  <2>1. Two("status_code").as = "two" /\ Two("status_code").field = "status_code"
    BY DEF Two
  <2>2. Two("amount").as = "two" /\ Two("amount").field = "amount"
    BY DEF Two
  <2> QED BY <1>2, <2>1, <2>2, Zenon
<1>3. CASE item = Four("timeout")
  BY <1>3 DEF Four
<1>4. CASE item = Opening
  BY <1>4 DEF Opening
<1> QED BY <1>1, <1>2, <1>3, <1>4, Zenon DEF Item

\* What is written has as many octets as are read, and the value comes back.
LEMMA WrittenFacts ==
  ASSUME NEW m \in Object, NEW item \in Item, NEW tail \in Seq(Octet)
  PROVE  /\ Written(m, item) \in Seq(Octet)
         /\ Extent(item, Written(m, item) \o tail) = Len(Written(m, item))
         /\ item.as = "opening" => Written(m, item) = PutText(MALAMUTE) \o Put2(Version)
         /\ item.as # "opening" => Value(item, Written(m, item)) = m[item.field]
         /\ item.as = "text" => Len(Written(m, item)) = TextSize(m[item.field])
         /\ item.as = "two" => Len(Written(m, item)) = 2
         /\ item.as = "four" => Len(Written(m, item)) = 4
         /\ item.as = "opening" => Len(Written(m, item)) = 11
<1>1. CASE item.as = "text" /\ item.field \in TextFields
  <2>1. PICK text : text = m[item.field]
    OBVIOUS
  <2>2. text \in Texts /\ text \in Seq(Octet)
    BY <1>1, <2>1, ObjectFields, Zenon DEF Texts
  <2>3. Written(m, item) = PutText(text)
    BY <1>1, <2>1 DEF Written
  <2>4. PICK w : w = PutText(text)
    OBVIOUS
  <2>5. /\ w \in Seq(Octet) /\ Len(w) = TextSize(text)
        /\ w # <<>> /\ w[1] = Len(text) /\ Tail(w) = text
    BY <2>2, <2>4, TextOctets
  <2>6. w \o tail # <<>> /\ Head(w \o tail) = Len(text)
    BY ONLY <2>5, tail \in Seq(Octet)
  <2>7. Extent(item, w \o tail) = 1 + Len(text)
    BY <1>1, <2>6, Zenon DEF Extent
  <2>8. Value(item, w) = Tail(w)
    BY <1>1, Zenon DEF Value
  <2> QED BY <1>1, <2>1, <2>3, <2>4, <2>5, <2>7, <2>8, Zenon DEF TextSize
<1>2. CASE item.as = "two" /\ item.field \in {"status_code", "amount"}
  <2>1. PICK n : n = m[item.field]
    OBVIOUS
  <2>2. n \in Number16
    BY <1>2, <2>1, ObjectFields, Zenon
  <2>3. Written(m, item) = Put2(n)
    BY <1>2, <2>1 DEF Written
  <2>4. /\ Put2(n) \in Seq(Octet) /\ Len(Put2(n)) = 2 /\ Get2(Put2(n)) = n
    BY <2>2, TwoOctets
  <2>5. Extent(item, Put2(n) \o tail) = 2 /\ Value(item, Put2(n)) = Get2(Put2(n))
    BY <1>2, Zenon DEF Extent, Value
  <2> QED BY <1>2, <2>1, <2>3, <2>4, <2>5, Zenon
<1>3. CASE item.as = "four" /\ item.field = "timeout"
  <2>1. PICK n : n = m.timeout
    OBVIOUS
  <2>2. n \in Number32
    BY <2>1, ObjectFields, Zenon
  <2>3. Written(m, item) = Put4(n)
    BY <1>3, <2>1 DEF Written
  <2>4. /\ Put4(n) \in Seq(Octet) /\ Len(Put4(n)) = 4 /\ Get4(Put4(n)) = n
    BY <2>2, FourOctets
  <2>5. Extent(item, Put4(n) \o tail) = 4 /\ Value(item, Put4(n)) = Get4(Put4(n))
    BY <1>3, Zenon DEF Extent, Value
  <2> QED BY <1>3, <2>1, <2>3, <2>4, <2>5, Zenon
<1>4. CASE item.as = "opening" /\ item.field = ""
  <2>1. Written(m, item) = PutText(MALAMUTE) \o Put2(Version)
    BY <1>4 DEF Written
  <2>2. PICK w : w = PutText(MALAMUTE) \o Put2(Version)
    OBVIOUS
  <2>3. w \in Seq(Octet) /\ Len(w) = 11
    BY <2>2, OpeningOctets
  <2>4. Extent(item, w \o tail) = 1 + Len(MALAMUTE) + 2
    BY <1>4, Zenon DEF Extent
  <2>5. 1 + Len(MALAMUTE) + 2 = 11
    BY OpeningOctets
  <2> QED BY <1>4, <2>1, <2>2, <2>3, <2>4, <2>5, Zenon
<1> QED BY <1>1, <1>2, <1>3, <1>4, ItemFacts, Zenon

Reading(o, rest) == [o |-> o, rest |-> rest, malformed |-> FALSE]

LEMMA ReadingFields ==
  ASSUME NEW r, r = [f \in DOMAIN r |-> r[f]], DOMAIN r = {"o", "rest", "malformed"},
         NEW o, r.o = o, NEW rest, r.rest = rest, NEW malformed, r.malformed = malformed
  PROVE  r = [o |-> o, rest |-> rest, malformed |-> malformed]
OBVIOUS

WithRead(r, new, left) == [r EXCEPT !.o = new, !.rest = left]

LEMMA ReadingSet ==
  ASSUME NEW o, NEW rest, NEW new, NEW left
  PROVE  WithRead(Reading(o, rest), new, left) = Reading(new, left)
<1>0. PICK r : r = Reading(o, rest)
  OBVIOUS
<1>1. /\ r = [f \in DOMAIN r |-> r[f]] /\ DOMAIN r = {"o", "rest", "malformed"}
      /\ r.malformed = FALSE
  BY <1>0 DEF Reading
<1>2. PICK s : s = [r EXCEPT !.o = new, !.rest = left]
  OBVIOUS
<1>5. s = WithRead(Reading(o, rest), new, left)
  BY <1>0, <1>2, Zenon DEF WithRead
<1>3. /\ s = [f \in DOMAIN s |-> s[f]] /\ DOMAIN s = {"o", "rest", "malformed"}
      /\ s.o = new /\ s.rest = left /\ s.malformed = r.malformed
  BY ONLY <1>1, <1>2
<1>4. s = [o |-> new, rest |-> left, malformed |-> r.malformed]
  BY <1>3, ReadingFields, Zenon
<1> QED BY <1>1, <1>4, <1>5, Zenon DEF Reading

\* The content comes into the object that was read.
LEMMA ContentSet ==
  ASSUME NEW o, NEW rest, NEW content
  PROVE  [Reading(o, rest) EXCEPT !.o.content = content]
           = Reading([o EXCEPT !.content = content], rest)
<1>0. PICK r : r = Reading(o, rest)
  OBVIOUS
<1>1. /\ r = [f \in DOMAIN r |-> r[f]] /\ DOMAIN r = {"o", "rest", "malformed"}
      /\ r.malformed = FALSE /\ r.o = o /\ r.rest = rest
  BY <1>0 DEF Reading
<1>2. PICK s, new : /\ s = [r EXCEPT !.o.content = content]
                    /\ new = [o EXCEPT !.content = content]
  OBVIOUS
<1>3. s = [r EXCEPT !.o = new]
  BY <1>1, <1>2, Zenon
<1>4. /\ s = [f \in DOMAIN s |-> s[f]] /\ DOMAIN s = {"o", "rest", "malformed"}
      /\ s.o = new /\ s.rest = rest /\ s.malformed = r.malformed
  BY ONLY <1>1, <1>3
<1>5. s = [o |-> new, rest |-> rest, malformed |-> r.malformed]
  BY <1>4, ReadingFields, Zenon
<1> QED BY <1>0, <1>1, <1>2, <1>5, Zenon DEF Reading

\* The field is read, and what was written behind it is left.
LEMMA GetIsWritten ==
  ASSUME NEW m \in Object, NEW o, NEW item \in Item, NEW tail \in Seq(Octet)
  PROVE  Get(Reading(o, Written(m, item) \o tail), item) = Reading(Taken(m, o, item), tail)
<1>1. PICK w : w = Written(m, item)
  OBVIOUS
<1>2. PICK rest : rest = w \o tail
  OBVIOUS
<1>3. w \in Seq(Octet) /\ Extent(item, rest) = Len(w)
  BY <1>1, <1>2, WrittenFacts, Zenon
<1>4. /\ rest \in Seq(Octet) /\ Len(rest) = Len(w) + Len(tail)
      /\ SubSeq(rest, 1, Len(w)) = w
      /\ SubSeq(rest, Len(w) + 1, Len(rest)) = tail
  BY <1>2, <1>3, FrontBack
<1>5. ~ (Len(w) > Len(rest))
  BY <1>3, <1>4
<1>6. PICK reading : reading = Reading(o, rest)
  OBVIOUS
<1>7. reading.o = o /\ reading.rest = rest /\ reading.malformed = FALSE
      /\ reading = [o |-> o, rest |-> rest, malformed |-> FALSE]
  BY <1>6, Zenon DEF Reading
<1>8. item.as = "opening" => w = PutText(MALAMUTE) \o Put2(Version)
  BY <1>1, WrittenFacts, Zenon
<1>9. item.as # "opening" => Value(item, w) = m[item.field]
  BY <1>1, WrittenFacts, Zenon
<1>10. Get(reading, item) =
         [reading EXCEPT
             !.o = IF item.as = "opening" THEN @
                   ELSE [@ EXCEPT ![item.field] = Value(item, w)],
             !.rest = SubSeq(@, Len(w) + 1, Len(@))]
  BY <1>3, <1>4, <1>5, <1>7, <1>8, Zenon DEF Get
<1>11. Get(reading, item) = WithRead(reading, Taken(m, o, item), tail)
  BY <1>4, <1>7, <1>9, <1>10, Zenon DEF Taken, WithRead
<1>12. WithRead(reading, Taken(m, o, item), tail) = Reading(Taken(m, o, item), tail)
  <2>1. PICK new : new = Taken(m, o, item)
    OBVIOUS
  <2>2. WithRead(Reading(o, rest), new, tail) = Reading(new, tail)
    BY ONLY ReadingSet
  <2> QED BY <1>6, <2>1, <2>2, Zenon
<1> QED BY <1>1, <1>2, <1>6, <1>11, <1>12, Zenon

-----------------------------------------------------------------------------
\* All fields are read back

\* What of the written fields is left when each of them is read.
Leaves(m, items, left) ==
  /\ left \in [0 .. Len(items) -> Seq(Octet)]
  /\ left[Len(items)] = <<>>
  /\ \A n \in 1 .. Len(items) : left[n - 1] = Written(m, items[n]) \o left[n]

\* The fields that n items name are those of m, the others stay.
ReadOf(m, o, items, n) ==
  [f \in ProtoFields |-> IF \E i \in 1 .. n : items[i].field = f THEN m[f] ELSE o[f]]

LEMMA ReadNone ==
  ASSUME NEW m, NEW o \in Object, NEW items
  PROVE  ReadOf(m, o, items, 0) = o
<1>1. \A i \in 1 .. 0 : FALSE
  OBVIOUS
<1>2. ReadOf(m, o, items, 0) = [f \in ProtoFields |-> o[f]]
  BY <1>1, Zenon DEF ReadOf
<1> QED BY <1>2, ObjectFields, Zenon

LEMMA ReadOneMore ==
  ASSUME NEW m \in Object, NEW o \in Object, NEW items \in Seq(Item),
         NEW n \in 1 .. Len(items)
  PROVE  Taken(m, ReadOf(m, o, items, n - 1), items[n]) = ReadOf(m, o, items, n)
<1>1. \A i \in 1 .. n : i \in 1 .. n - 1 \/ i = n
  OBVIOUS
<1>2. n \in 1 .. n /\ \A i \in 1 .. n - 1 : i \in 1 .. n
  OBVIOUS
<1>3. items[n] \in Item
  OBVIOUS
<1>4. PICK before, after : /\ before = ReadOf(m, o, items, n - 1)
                           /\ after = ReadOf(m, o, items, n)
  OBVIOUS
<1>5. /\ before = [f \in ProtoFields |-> before[f]] /\ after = [f \in ProtoFields |-> after[f]]
      /\ DOMAIN before = ProtoFields /\ DOMAIN after = ProtoFields
  BY <1>4, Zenon DEF ReadOf
<1>6. ASSUME NEW f \in ProtoFields
      PROVE  after[f] = IF items[n].field = f THEN m[f] ELSE before[f]
  <2>1. after[f] = IF \E i \in 1 .. n : items[i].field = f THEN m[f] ELSE o[f]
    BY <1>4, Zenon DEF ReadOf
  <2>2. before[f] = IF \E i \in 1 .. n - 1 : items[i].field = f THEN m[f] ELSE o[f]
    BY <1>4, Zenon DEF ReadOf
  <2> QED BY <1>1, <1>2, <2>1, <2>2, Zenon
<1>7. CASE items[n].as = "opening"
  <2>1. items[n].field \notin ProtoFields
    BY <1>3, <1>7, ItemFacts, Zenon DEF ProtoFields, TextFields, NumberFields
  <2>2. \A f \in ProtoFields : after[f] = before[f]
    BY <1>6, <2>1, Zenon
  <2>3. after = before
    BY <1>5, <2>2, Zenon
  <2> QED BY <1>4, <1>7, <2>3, Zenon DEF Taken
<1>8. CASE items[n].as # "opening"
  <2>1. PICK new : new = [before EXCEPT ![items[n].field] = m[items[n].field]]
    OBVIOUS
  <2>2. \A f \in ProtoFields : new[f] = IF items[n].field = f THEN m[f] ELSE before[f]
    BY <1>5, <2>1, Zenon
  <2>3. DOMAIN new = ProtoFields /\ new = [f \in ProtoFields |-> new[f]]
    BY <1>5, <2>1, Zenon
  <2>4. \A f \in ProtoFields : new[f] = after[f]
    BY <1>6, <2>2, Zenon
  <2>5. new = after
    BY <1>5, <2>3, <2>4, Zenon
  <2> QED BY <1>4, <1>8, <2>1, <2>5, Zenon DEF Taken
<1> QED BY <1>7, <1>8

\* The recursive function in GetAll.
IsGot(reading, items, got) ==
  got = [n \in 0 .. Len(items) |->
           IF n = 0 THEN reading ELSE Get(got[n - 1], items[n])]

LEMMA GetAllIsWritten ==
  ASSUME NEW m \in Object, NEW o \in Object, NEW items \in Seq(Item), NEW left,
         Leaves(m, items, left)
  PROVE  GetAll(Reading(o, left[0]), items)
           = Reading(ReadOf(m, o, items, Len(items)), <<>>)
<1>0. PICK k : k = Len(items)
  OBVIOUS
<1>1. k \in Nat /\ \A n \in 1 .. k : items[n] \in Item /\ n \in 0 .. k /\ n - 1 \in 0 .. k
  BY <1>0
<1>2. PICK reading : reading = Reading(o, left[0])
  OBVIOUS
<1> DEFINE good == [n \in 0 .. k |-> Reading(ReadOf(m, o, items, n), left[n])]
           got == CHOOSE f : f = [n \in 0 .. k |->
                    IF n = 0 THEN reading ELSE Get(f[n - 1], items[n])]
<1>3. good[0] = reading
  <2>1. 0 \in 0 .. k
    BY <1>1
  <2> QED BY <1>2, <2>1, ReadNone, Zenon
<1>4. ASSUME NEW n \in 1 .. k PROVE good[n] = Get(good[n - 1], items[n])
  <2>1. n \in 0 .. k /\ n - 1 \in 0 .. k /\ items[n] \in Item
    BY <1>1
  <2>2. left[n] \in Seq(Octet) /\ left[n - 1] = Written(m, items[n]) \o left[n]
    BY <1>0, <2>1, Zenon DEF Leaves
  <2>3. Get(Reading(ReadOf(m, o, items, n - 1), left[n - 1]), items[n])
          = Reading(Taken(m, ReadOf(m, o, items, n - 1), items[n]), left[n])
    <3>1. PICK before, item, tail : /\ before = ReadOf(m, o, items, n - 1)
                                    /\ item = items[n] /\ tail = left[n]
      OBVIOUS
    <3>2. item \in Item /\ tail \in Seq(Octet) /\ left[n - 1] = Written(m, item) \o tail
      BY <2>1, <2>2, <3>1
    <3>3. Get(Reading(before, Written(m, item) \o tail), item)
            = Reading(Taken(m, before, item), tail)
      BY <3>2, GetIsWritten, Zenon
    <3> QED BY <3>1, <3>2, <3>3, Zenon
  <2>4. Taken(m, ReadOf(m, o, items, n - 1), items[n]) = ReadOf(m, o, items, n)
    BY <1>0, ReadOneMore, Zenon
  <2> QED BY <2>1, <2>3, <2>4, Zenon
<1>5. IsGot(reading, items, good)
  <2>1. ASSUME NEW n \in 0 .. k
        PROVE  good[n] = IF n = 0 THEN reading ELSE Get(good[n - 1], items[n])
    <3> HIDE DEF good
    <3>1. CASE n = 0
      BY <1>3, <3>1, Zenon
    <3>2. CASE n # 0
      <4>1. n \in 1 .. k
        BY <1>1, <3>2
      <4> QED BY <1>4, <3>2, <4>1, Zenon
    <3> QED BY <3>1, <3>2
  <2>2. good = [n \in 0 .. k |-> good[n]]
    BY Zenon
  <2> HIDE DEF good
  <2> QED BY <1>0, <2>1, <2>2, Zenon DEF IsGot
<1>6. IsGot(reading, items, got) /\ GetAll(reading, items) = got[k]
  <2> HIDE DEF good
  <2> QED BY <1>0, <1>5, Zenon DEF IsGot, GetAll
<1> HIDE DEF got
<1>7. \A n \in 0 .. k : got[n] = good[n]
  <2> DEFINE G == {n \in 0 .. k : got[n] = good[n]}
  <2>1. 0 \in G
    <3>1. 0 \in 0 .. k
      BY <1>1
    <3>2. got[0] = reading
      BY <1>0, <1>6, <3>1, Zenon DEF IsGot
    <3> QED BY <1>3, <3>1, <3>2, Zenon
  <2>2. ASSUME NEW n \in 0 .. k - 1, n \in G PROVE n + 1 \in G
    <3>1. n + 1 \in 1 .. k /\ n + 1 \in 0 .. k /\ (n + 1) - 1 = n /\ n + 1 # 0
      BY <1>1
    <3>2. got[n + 1] = Get(got[n], items[n + 1])
      BY <1>0, <1>6, <3>1, Zenon DEF IsGot
    <3>3. good[n + 1] = Get(good[n], items[n + 1])
      <4> HIDE DEF good
      <4> QED BY <1>4, <3>1, Zenon
    <3>4. got[n] = good[n]
      BY <2>2, Zenon
    <3> QED BY <3>1, <3>2, <3>3, <3>4, Zenon
  <2>3. 0 .. k \subseteq G
    <3> HIDE DEF G
    <3> QED BY <1>1, <2>1, <2>2, UpTo
  <2> QED BY <2>3, Zenon
<1>8. k \in 0 .. k
  BY <1>1
<1>9. got[k] = Reading(ReadOf(m, o, items, k), <<>>)
  BY <1>0, <1>7, <1>8, Zenon DEF Leaves
<1> QED BY <1>0, <1>2, <1>6, <1>9, Zenon

-----------------------------------------------------------------------------
\* What is written is what the items say

Spells(m, items, octets, named) ==
  /\ items \in Seq(Item) /\ octets \in Seq(Octet)
  /\ named = {items[i].field : i \in 1 .. Len(items)}
  /\ \E left : Leaves(m, items, left) /\ left[0] = octets

LEMMA SpellNone ==
  ASSUME NEW m
  PROVE  Spells(m, <<>>, <<>>, {})
<1>1. PICK none : none = <<>>
  OBVIOUS
<1>2. none \in Seq(Item) /\ none \in Seq(Octet) /\ Len(none) = 0
  BY <1>1
<1>3. \A i \in 1 .. 0 : FALSE
  OBVIOUS
<1>4. {} = {none[i].field : i \in 1 .. Len(none)}
  BY <1>2, <1>3
<1>5. PICK left : left = [n \in 0 .. 0 |-> none]
  OBVIOUS
<1>6. left \in [0 .. 0 -> Seq(Octet)] /\ left[0] = none
  BY <1>2, <1>5
<1>7. Leaves(m, none, left)
  BY <1>1, <1>2, <1>3, <1>6, Zenon DEF Leaves
<1> QED BY <1>1, <1>2, <1>4, <1>6, <1>7, Zenon DEF Spells

LEMMA SpellMore ==
  ASSUME NEW m \in Object, NEW a \in Item, NEW items, NEW octets, NEW named,
         Spells(m, items, octets, named)
  PROVE  /\ Spells(m, <<a>> \o items, Written(m, a) \o octets, {a.field} \cup named)
         /\ Len(Written(m, a) \o octets) = Len(Written(m, a)) + Len(octets)
<1>1. /\ items \in Seq(Item) /\ octets \in Seq(Octet)
      /\ named = {items[i].field : i \in 1 .. Len(items)}
  BY Zenon DEF Spells
<1>2. PICK left : Leaves(m, items, left) /\ left[0] = octets
  BY Zenon DEF Spells
<1>3. PICK w : w = Written(m, a)
  OBVIOUS
<1>4. w \in Seq(Octet)
  <2>1. <<>> \in Seq(Octet)
    OBVIOUS
  <2> QED BY <1>3, <2>1, WrittenFacts, Zenon
<1>5. w \o octets \in Seq(Octet) /\ Len(w \o octets) = Len(w) + Len(octets)
  BY ONLY <1>1, <1>4, JoinEntries
<1>6. PICK all : all = <<a>> \o items
  OBVIOUS
<1>7. PICK k \in Nat : k = Len(items)
  BY <1>1
<1>8. /\ all \in Seq(Item) /\ Len(all) = 1 + k /\ all[1] = a
      /\ \A i \in DOMAIN all : i # 1 => i - 1 \in DOMAIN items /\ all[i] = items[i - 1]
  BY <1>1, <1>6, <1>7, HeadedBy
<1>9. /\ DOMAIN all = 1 .. k + 1 /\ DOMAIN items = 1 .. k
  BY <1>1, <1>7, <1>8
<1>10. {a.field} \cup named = {all[i].field : i \in 1 .. Len(all)}
  <2>1. ASSUME NEW x \in {a.field} \cup named
        PROVE  x \in {all[i].field : i \in 1 .. k + 1}
    <3>1. CASE x = a.field
      BY <3>1, <1>8, <1>7
    <3>2. CASE x \in named
      <4>1. PICK i \in 1 .. k : x = items[i].field
        BY <1>1, <1>7, <3>2, Zenon
      <4>2. i + 1 \in 1 .. k + 1 /\ (i + 1) - 1 = i /\ i + 1 # 1
        BY <1>7
      <4>3. all[i + 1] = items[i]
        BY <1>8, <1>9, <4>2, Zenon
      <4> QED BY <4>1, <4>2, <4>3, Zenon
    <3> QED BY <3>1, <3>2
  <2>2. ASSUME NEW i \in 1 .. k + 1 PROVE all[i].field \in {a.field} \cup named
    <3>1. CASE i = 1
      BY <3>1, <1>8
    <3>2. CASE i # 1
      <4>1. i - 1 \in 1 .. k /\ all[i] = items[i - 1]
        BY <1>8, <1>9, <3>2
      <4> QED BY <1>1, <1>7, <4>1, Zenon
    <3> QED BY <3>1, <3>2
  <2>3. Len(all) = k + 1
    BY <1>7, <1>8
  <2> QED BY <2>1, <2>2, <2>3, Zenon
<1> DEFINE more == [n \in 0 .. k + 1 |-> IF n = 0 THEN w \o octets ELSE left[n - 1]]
<1>11. left \in [0 .. k -> Seq(Octet)] /\ left[k] = <<>>
       /\ \A n \in 1 .. k : left[n - 1] = Written(m, items[n]) \o left[n]
  BY <1>2, <1>7, Zenon DEF Leaves
<1>12. /\ more \in [0 .. k + 1 -> Seq(Octet)]
       /\ more[0] = w \o octets /\ \A n \in 1 .. k + 1 : more[n] = left[n - 1]
  <2>1. \A n \in 0 .. k + 1 : n # 0 => n - 1 \in 0 .. k
    BY <1>7
  <2>2. 0 \in 0 .. k + 1 /\ \A n \in 1 .. k + 1 : n \in 0 .. k + 1 /\ n # 0
    BY <1>7
  <2>3. \A n \in 0 .. k + 1 :
          (IF n = 0 THEN w \o octets ELSE left[n - 1]) \in Seq(Octet)
    BY <1>5, <1>11, <2>1, Zenon
  <2> QED BY <2>2, <2>3, Zenon
<1> HIDE DEF more
<1>13. ASSUME NEW n \in 1 .. k + 1 PROVE more[n - 1] = Written(m, all[n]) \o more[n]
  <2>1. CASE n = 1
    <3>1. 1 \in 1 .. k + 1 /\ 1 - 1 = 0
      BY <1>7
    <3>2. more[1] = left[0] /\ more[0] = w \o octets
      BY <1>12, <3>1, Zenon
    <3> QED BY <1>2, <1>3, <1>8, <2>1, <3>1, <3>2, Zenon
  <2>2. CASE n # 1
    <3>1. n - 1 \in 1 .. k /\ n - 1 \in 1 .. k + 1
      BY <1>7, <2>2
    <3>2. PICK p : p = n - 1
      OBVIOUS
    <3>3. more[n] = left[p] /\ more[p] = left[p - 1] /\ all[n] = items[p]
      BY <1>8, <1>9, <1>12, <2>2, <3>1, <3>2, Zenon
    <3>4. left[p - 1] = Written(m, items[p]) \o left[p]
      BY <1>11, <3>1, <3>2, Zenon
    <3> QED BY <3>2, <3>3, <3>4, Zenon
  <2> QED BY <2>1, <2>2
<1>14. more[k + 1] = <<>>
  <2>1. k + 1 \in 1 .. k + 1 /\ (k + 1) - 1 = k
    BY <1>7
  <2> QED BY <1>11, <1>12, <2>1, Zenon
<1>15. Len(all) = k + 1
  BY <1>7, <1>8
<1>16. Leaves(m, all, more)
  BY <1>12, <1>13, <1>14, <1>15, Zenon DEF Leaves
<1>17. Spells(m, all, w \o octets, {a.field} \cup named)
  BY <1>5, <1>8, <1>10, <1>12, <1>16, Zenon DEF Spells
<1> QED BY <1>3, <1>5, <1>6, <1>17, Zenon

LEMMA SpellOne ==
  ASSUME NEW m \in Object, NEW a \in Item
  PROVE  Spells(m, <<a>>, Written(m, a), {a.field})
<1>1. PICK w : w = Written(m, a)
  OBVIOUS
<1>2. w \in Seq(Octet)
  BY <1>1, SpellNone, WrittenFacts, Zenon DEF Spells
<1>3. w \o <<>> = w /\ <<a>> \o <<>> = <<a>> /\ {a.field} \cup {} = {a.field}
  BY <1>2
<1>4. Spells(m, <<a>> \o <<>>, w \o <<>>, {a.field} \cup {})
  BY <1>1, SpellNone, SpellMore, Zenon
<1> QED BY <1>1, <1>3, <1>4, Zenon

\* A list is x and then the others if its entries are.
LEMMA HeadFirstIs ==
  ASSUME NEW S, NEW x \in S, NEW more \in Seq(S), NEW all \in Seq(S),
         Len(all) = 1 + Len(more), all[1] = x,
         \A i \in 1 .. Len(more) : all[i + 1] = more[i]
  PROVE  <<x>> \o more = all
<1>1. PICK joined : joined = <<x>> \o more
  OBVIOUS
<1>2. /\ joined \in Seq(S) /\ Len(joined) = 1 + Len(more) /\ joined[1] = x
      /\ \A i \in DOMAIN joined : i # 1 => i - 1 \in DOMAIN more /\ joined[i] = more[i - 1]
  BY <1>1, HeadedBy
<1>3. PICK k \in Nat : k = Len(more)
  OBVIOUS
<1>4. DOMAIN joined = 1 .. 1 + k /\ DOMAIN more = 1 .. k
  BY <1>2, <1>3
<1>5. ASSUME NEW i \in 1 .. 1 + k PROVE joined[i] = all[i]
  <2>1. CASE i = 1
    BY <1>2, <2>1, Zenon
  <2>2. CASE i # 1
    <3>1. i - 1 \in 1 .. k /\ (i - 1) + 1 = i
      BY <2>2, <1>3
    <3>2. joined[i] = more[i - 1] /\ all[(i - 1) + 1] = more[i - 1]
      BY <1>2, <1>3, <1>4, <2>2, <3>1, Zenon
    <3> QED BY <3>1, <3>2, Zenon
  <2> QED BY <2>1, <2>2
<1>6. Len(joined) = Len(all) /\ \A i \in 1 .. Len(joined) : joined[i] = all[i]
  BY <1>2, <1>3, <1>5, Zenon
<1> QED BY <1>1, <1>2, <1>6, SeqEqual, Zenon

LEMMA TwoList ==
  ASSUME NEW S, NEW a \in S, NEW b \in S
  PROVE  <<a>> \o <<b>> = <<a, b>>
<1>1. PICK more, all : more = <<b>> /\ all = <<a, b>>
  OBVIOUS
<1>2. /\ more \in Seq(S) /\ Len(more) = 1 /\ more[1] = b
      /\ all \in Seq(S) /\ Len(all) = 2 /\ all[1] = a /\ all[2] = b
  BY <1>1
<1>3. Len(all) = 1 + Len(more) /\ \A i \in 1 .. Len(more) : all[i + 1] = more[i]
  BY <1>2
<1> QED BY <1>1, <1>2, <1>3, HeadFirstIs, Zenon

LEMMA ThreeList ==
  ASSUME NEW S, NEW a \in S, NEW b \in S, NEW c \in S
  PROVE  <<a>> \o <<b, c>> = <<a, b, c>>
<1>1. PICK more, all : more = <<b, c>> /\ all = <<a, b, c>>
  OBVIOUS
<1>2. /\ more \in Seq(S) /\ Len(more) = 2 /\ more[1] = b /\ more[2] = c
      /\ all \in Seq(S) /\ Len(all) = 3 /\ all[1] = a /\ all[2] = b /\ all[3] = c
  BY <1>1
<1>3. Len(all) = 1 + Len(more) /\ \A i \in 1 .. Len(more) : all[i + 1] = more[i]
  BY <1>2
<1> QED BY <1>1, <1>2, <1>3, HeadFirstIs, Zenon

LEMMA FourList ==
  ASSUME NEW S, NEW a \in S, NEW b \in S, NEW c \in S, NEW d \in S
  PROVE  <<a>> \o <<b, c, d>> = <<a, b, c, d>>
<1>1. PICK more, all : more = <<b, c, d>> /\ all = <<a, b, c, d>>
  OBVIOUS
<1>2. /\ more \in Seq(S) /\ Len(more) = 3
      /\ more[1] = b /\ more[2] = c /\ more[3] = d
      /\ all \in Seq(S) /\ Len(all) = 4
      /\ all[1] = a /\ all[2] = b /\ all[3] = c /\ all[4] = d
  BY <1>1
<1>3. Len(all) = 1 + Len(more) /\ \A i \in 1 .. Len(more) : all[i + 1] = more[i]
  BY <1>2
<1> QED BY <1>1, <1>2, <1>3, HeadFirstIs, Zenon

LEMMA SpellTwo ==
  ASSUME NEW m \in Object, NEW a \in Item, NEW b \in Item
  PROVE  /\ Spells(m, <<a, b>>, Written(m, a) \o Written(m, b), {a.field, b.field})
         /\ Len(Written(m, a) \o Written(m, b)) = Len(Written(m, a)) + Len(Written(m, b))
<1>1. <<a>> \o <<b>> = <<a, b>>
  BY TwoList, Zenon
<1>2. {a.field} \cup {b.field} = {a.field, b.field}
  BY Zenon
<1>3. Spells(m, <<b>>, Written(m, b), {b.field})
  BY SpellOne, Zenon
<1>4. /\ Spells(m, <<a>> \o <<b>>, Written(m, a) \o Written(m, b), {a.field} \cup {b.field})
      /\ Len(Written(m, a) \o Written(m, b)) = Len(Written(m, a)) + Len(Written(m, b))
  BY <1>3, SpellMore, Zenon
<1> QED BY <1>1, <1>2, <1>4, Zenon

LEMMA SpellThree ==
  ASSUME NEW m \in Object, NEW a \in Item, NEW b \in Item, NEW c \in Item
  PROVE  /\ Spells(m, <<a, b, c>>, Written(m, a) \o Written(m, b) \o Written(m, c),
                   {a.field, b.field, c.field})
         /\ Len(Written(m, a) \o Written(m, b) \o Written(m, c))
              = Len(Written(m, a)) + (Len(Written(m, b)) + Len(Written(m, c)))
<1>1. <<a>> \o <<b, c>> = <<a, b, c>>
  BY ThreeList, Zenon
<1>2. {a.field} \cup {b.field, c.field} = {a.field, b.field, c.field}
  BY Zenon
<1>3. PICK u, v, w : u = Written(m, a) /\ v = Written(m, b) /\ w = Written(m, c)
  OBVIOUS
<1>4. u \in Seq(Octet) /\ v \in Seq(Octet) /\ w \in Seq(Octet)
  BY <1>3, SpellOne, Zenon DEF Spells
<1>5. (u \o v) \o w = u \o (v \o w)
  BY ONLY <1>4, ConcatAssociative
<1>6. Spells(m, <<b, c>>, v \o w, {b.field, c.field}) /\ Len(v \o w) = Len(v) + Len(w)
  BY <1>3, SpellTwo, Zenon
<1>7. /\ Spells(m, <<a>> \o <<b, c>>, u \o (v \o w), {a.field} \cup {b.field, c.field})
      /\ Len(u \o (v \o w)) = Len(u) + Len(v \o w)
  <2>1. PICK octets, items, named :
          octets = v \o w /\ items = <<b, c>> /\ named = {b.field, c.field}
    OBVIOUS
  <2>2. Spells(m, items, octets, named)
    BY <1>6, <2>1, Zenon
  <2>3. /\ Spells(m, <<a>> \o items, Written(m, a) \o octets, {a.field} \cup named)
        /\ Len(Written(m, a) \o octets) = Len(Written(m, a)) + Len(octets)
    BY <2>2, SpellMore, Zenon
  <2> QED BY <1>3, <2>1, <2>3, Zenon
<1> QED BY <1>1, <1>2, <1>3, <1>5, <1>6, <1>7, Zenon

LEMMA SpellFour ==
  ASSUME NEW m \in Object, NEW a \in Item, NEW b \in Item, NEW c \in Item, NEW d \in Item
  PROVE  /\ Spells(m, <<a, b, c, d>>,
                   Written(m, a) \o Written(m, b) \o Written(m, c) \o Written(m, d),
                   {a.field, b.field, c.field, d.field})
         /\ Len(Written(m, a) \o Written(m, b) \o Written(m, c) \o Written(m, d))
              = Len(Written(m, a)) + (Len(Written(m, b))
                  + (Len(Written(m, c)) + Len(Written(m, d))))
<1>1. <<a>> \o <<b, c, d>> = <<a, b, c, d>>
  BY FourList, Zenon
<1>2. {a.field} \cup {b.field, c.field, d.field} = {a.field, b.field, c.field, d.field}
  BY Zenon
<1>3. PICK u, v, w, x : /\ u = Written(m, a) /\ v = Written(m, b) /\ w = Written(m, c)
                        /\ x = Written(m, d)
  OBVIOUS
<1>4. u \in Seq(Octet) /\ v \in Seq(Octet) /\ w \in Seq(Octet) /\ x \in Seq(Octet)
  BY <1>3, SpellOne, Zenon DEF Spells
<1>5. ((u \o v) \o w) \o x = u \o ((v \o w) \o x)
  <2>1. (u \o v) \o w = u \o (v \o w)
    BY ONLY <1>4, ConcatAssociative
  <2>2. v \o w \in Seq(Octet)
    BY <1>4, ConcatProperties, Zenon
  <2>3. (u \o (v \o w)) \o x = u \o ((v \o w) \o x)
    BY ONLY <1>4, <2>2, ConcatAssociative, SMTT(30)
  <2> QED BY <2>1, <2>3, Zenon
<1>6. /\ Spells(m, <<b, c, d>>, v \o w \o x, {b.field, c.field, d.field})
      /\ Len(v \o w \o x) = Len(v) + (Len(w) + Len(x))
  BY <1>3, SpellThree, Zenon
<1>7. /\ Spells(m, <<a>> \o <<b, c, d>>, u \o (v \o w \o x),
                {a.field} \cup {b.field, c.field, d.field})
      /\ Len(u \o (v \o w \o x)) = Len(u) + Len(v \o w \o x)
  <2>1. PICK octets, items, named :
          /\ octets = v \o w \o x /\ items = <<b, c, d>>
          /\ named = {b.field, c.field, d.field}
    OBVIOUS
  <2>2. Spells(m, items, octets, named)
    BY <1>6, <2>1, Zenon
  <2>3. /\ Spells(m, <<a>> \o items, Written(m, a) \o octets, {a.field} \cup named)
        /\ Len(Written(m, a) \o octets) = Len(Written(m, a)) + Len(octets)
    BY <2>2, SpellMore, ZenonT(30)
  <2> QED BY <1>3, <2>1, <2>3, Zenon
<1> QED BY <1>1, <1>2, <1>3, <1>5, <1>6, <1>7, Zenon

-----------------------------------------------------------------------------
\* Every message

LEMMA ItemsAre ==
  ASSUME NEW m \in Object
  PROVE  /\ \A f \in TextFields :
              /\ Text(f) \in Item /\ Text(f).field = f
              /\ Written(m, Text(f)) = PutText(m[f])
              /\ Len(Written(m, Text(f))) = TextSize(m[f]) /\ TextSize(m[f]) \in Nat
         /\ \A f \in {"status_code", "amount"} :
              /\ Two(f) \in Item /\ Two(f).field = f
              /\ Written(m, Two(f)) = Put2(m[f]) /\ Len(Written(m, Two(f))) = 2
         /\ Four("timeout") \in Item /\ Four("timeout").field = "timeout"
         /\ Written(m, Four("timeout")) = Put4(m.timeout)
         /\ Len(Written(m, Four("timeout"))) = 4
         /\ Opening \in Item /\ Opening.field = ""
         /\ Written(m, Opening) = PutText(MALAMUTE) \o Put2(Version)
         /\ Len(Written(m, Opening)) = 11
<1>1. PICK none : none = <<>>
  OBVIOUS
<1>2. none \in Seq(Octet)
  BY <1>1
<1>3. ASSUME NEW f \in TextFields
      PROVE  /\ Text(f) \in Item /\ Text(f).field = f
             /\ Written(m, Text(f)) = PutText(m[f])
             /\ Len(Written(m, Text(f))) = TextSize(m[f]) /\ TextSize(m[f]) \in Nat
  <2>1. Text(f) \in Item /\ Text(f).field = f /\ Text(f).as = "text"
    BY Zenon DEF Item, Text
  <2>2. Written(m, Text(f)) = PutText(m[f])
    BY <2>1, Zenon DEF Written
  <2>3. Len(Written(m, Text(f))) = TextSize(m[f])
    BY <1>2, <2>1, WrittenFacts, Zenon
  <2>4. m[f] \in Seq(Octet)
    BY ObjectFields, Zenon
  <2>5. TextSize(m[f]) \in Nat
    BY <2>4 DEF TextSize
  <2> QED BY <2>1, <2>2, <2>3, <2>5
<1>4. ASSUME NEW f \in {"status_code", "amount"}
      PROVE  /\ Two(f) \in Item /\ Two(f).field = f
             /\ Written(m, Two(f)) = Put2(m[f]) /\ Len(Written(m, Two(f))) = 2
  <2>1. Two(f) \in Item /\ Two(f).field = f /\ Two(f).as = "two"
    BY Zenon DEF Item, Two
  <2>2. Written(m, Two(f)) = Put2(m[f])
    BY <2>1, Zenon DEF Written
  <2> QED BY <1>2, <2>1, <2>2, WrittenFacts, Zenon
<1>5. /\ Four("timeout") \in Item /\ Four("timeout").field = "timeout"
      /\ Four("timeout").as = "four"
  BY Zenon DEF Item, Four
<1>6. Written(m, Four("timeout")) = Put4(m.timeout)
  BY <1>5, Zenon DEF Written
<1>7. Opening \in Item /\ Opening.field = "" /\ Opening.as = "opening"
  BY Zenon DEF Item, Opening
<1> QED BY <1>2, <1>3, <1>4, <1>5, <1>6, <1>7, WrittenFacts, Zenon

LEMMA IdsAre ==
  /\ DOMAIN Id = 1 .. 18
  /\ Range(Id) =
       {"CONNECTION OPEN", "CONNECTION PING", "CONNECTION PONG", "CONNECTION CLOSE",
               "STREAM WRITE", "STREAM READ", "STREAM SEND", "STREAM DELIVER",
               "MAILBOX SEND", "MAILBOX DELIVER", "SERVICE SEND", "SERVICE OFFER",
               "SERVICE DELIVER", "OK", "ERROR", "CREDIT", "CONFIRM", "STREAM CANCEL"}
<1>1. DOMAIN Id = 1 .. 18
  BY DEF Id
<1>2. \A n : n \in 1 .. 18 <=> n \in {1, 2, 3, 4, 5, 6, 7, 8, 9, 10, 11, 12, 13, 14, 15,
                                      16, 17, 18}
  OBVIOUS
<1>3. Range(Id) = {Id[n] : n \in {1, 2, 3, 4, 5, 6, 7, 8, 9, 10, 11, 12, 13, 14, 15,
                                  16, 17, 18}}
  BY <1>1, <1>2, Zenon DEF Range
<1>4. /\ Id[1] = "CONNECTION OPEN" /\ Id[2] = "CONNECTION PING" /\ Id[3] = "CONNECTION PONG"
      /\ Id[4] = "CONNECTION CLOSE" /\ Id[5] = "STREAM WRITE" /\ Id[6] = "STREAM READ"
      /\ Id[7] = "STREAM SEND" /\ Id[8] = "STREAM DELIVER" /\ Id[9] = "MAILBOX SEND"
      /\ Id[10] = "MAILBOX DELIVER" /\ Id[11] = "SERVICE SEND" /\ Id[12] = "SERVICE OFFER"
      /\ Id[13] = "SERVICE DELIVER" /\ Id[14] = "OK" /\ Id[15] = "ERROR"
      /\ Id[16] = "CREDIT" /\ Id[17] = "CONFIRM" /\ Id[18] = "STREAM CANCEL"
  BY DEF Id
<1>5. Range(Id) = {Id[1], Id[2], Id[3], Id[4], Id[5], Id[6], Id[7], Id[8], Id[9], Id[10],
                   Id[11], Id[12], Id[13], Id[14], Id[15], Id[16], Id[17], Id[18]}
  BY ONLY <1>3, Zenon
<1> QED BY <1>1, <1>4, <1>5, Zenon

\* The number of a message says which it is.
LEMMA NumberOfId ==
  ASSUME NEW id \in Range(Id)
  PROVE  IdNumber(id) \in 1 .. 18 /\ Id[IdNumber(id)] = id
<1>1. DOMAIN Id = 1 .. 18
  BY IdsAre, Zenon
<1>2. \E n \in DOMAIN Id : Id[n] = id
  BY Zenon DEF Range
<1> QED BY <1>1, <1>2, Zenon DEF IdNumber

Spelt(m) ==
  /\ \E named : /\ Spells(m, Layout(m.id), Fields(m), named)
                /\ named \cap ProtoFields = Carried(m.id) \ {"content"}
  /\ FrameSize(m) = 3 + Len(Fields(m))

\* What the four tables say of one message is the same.
LEMMA SpeltIf ==
  ASSUME NEW m, NEW items, NEW octets, NEW named,
         Spells(m, items, octets, named),
         Layout(m.id) = items, Fields(m) = octets, FrameSize(m) = 3 + Len(octets),
         named \cap ProtoFields = Carried(m.id) \ {"content"}
  PROVE  Spelt(m)
BY Zenon DEF Spelt

LEMMA FieldNames ==
  /\ "" \notin ProtoFields
  /\ {"address", "stream", "pattern", "subject", "sender", "tracker", "status_reason",
      "timeout", "status_code", "amount", "content", "id", "routing_id"} = ProtoFields
  /\ {"address", "stream", "pattern", "subject", "sender", "tracker", "status_reason"}
       = TextFields
BY DEF ProtoFields, TextFields, NumberFields

LEMMA TextNames ==
  /\ "address" \in TextFields /\ "stream" \in TextFields /\ "pattern" \in TextFields
  /\ "subject" \in TextFields /\ "sender" \in TextFields /\ "tracker" \in TextFields
  /\ "status_reason" \in TextFields
BY DEF TextFields

LEMMA SpeltConnectionOpen ==
  ASSUME NEW m \in Object, m.id = "CONNECTION OPEN"
  PROVE  Spelt(m)
<1>1. Layout(m.id) = <<Opening, Text("address")>>
  BY Zenon DEF Layout
<1>2. Fields(m) = (PutText(MALAMUTE) \o Put2(Version)) \o PutText(m.address)
  BY Zenon DEF Fields
<1>3. FrameSize(m) = 3 + (TextSize(MALAMUTE) + 2 + TextSize(m.address))
  BY Zenon DEF FrameSize
<1>4. Carried(m.id) = {"address"}
  BY Zenon DEF Carried
<1>5. {"", "address"} \cap ProtoFields = {"address"} \ {"content"}
  BY FieldNames
<1>a. PICK a : /\ a = Opening /\ a \in Item /\ a.field = ""
               /\ Written(m, a) = (PutText(MALAMUTE) \o Put2(Version)) /\ Len(Written(m, a)) = 11
  BY ItemsAre, TextNames, Zenon
<1>b. PICK b : /\ b = Text("address") /\ b \in Item /\ b.field = "address"
               /\ Written(m, b) = PutText(m.address) /\ Len(Written(m, b)) = TextSize(m.address)
  BY ItemsAre, TextNames, Zenon
<1>6. a \in Item /\ b \in Item
  BY <1>a, <1>b, Zenon
<1>7. PICK octets : octets = Written(m, a) \o Written(m, b)
  OBVIOUS
<1>8. Spells(m, <<a, b>>, octets, {a.field, b.field}) /\ Len(octets) = Len(Written(m, a)) + Len(Written(m, b))
  BY <1>6, <1>7, SpellTwo, Zenon
<1>9. Len(octets) = 11 + TextSize(m.address)
  BY <1>a, <1>b, <1>8, Zenon
<1>10. (TextSize(MALAMUTE) + 2 + TextSize(m.address)) = 11 + TextSize(m.address)
  <2>1. TextSize(m.address) \in Nat
    BY ItemsAre, TextNames, Zenon
  <2>2. TextSize(MALAMUTE) = 9
    BY OpeningOctets, Zenon
  <2>3. PICK e : e = TextSize(m.address)
    OBVIOUS
  <2> QED BY ONLY <2>1, <2>2, <2>3
<1>11. octets = (PutText(MALAMUTE) \o Put2(Version)) \o PutText(m.address)
  BY <1>a, <1>b, <1>7, Zenon
<1>12. Layout(m.id) = <<a, b>> /\ Fields(m) = octets
  BY <1>1, <1>2, <1>11, <1>a, <1>b, Zenon
<1>13. {a.field, b.field} \cap ProtoFields = Carried(m.id) \ {"content"}
  BY <1>4, <1>5, <1>a, <1>b, Zenon
<1>14. FrameSize(m) = 3 + Len(octets)
  BY <1>3, <1>9, <1>10, Zenon
<1> QED BY <1>8, <1>12, <1>13, <1>14, SpeltIf, Zenon

LEMMA SpeltStreamWrite ==
  ASSUME NEW m \in Object, m.id \in {"STREAM WRITE", "STREAM CANCEL"}
  PROVE  Spelt(m)
<1>1. Layout(m.id) = <<Text("stream")>>
  BY Zenon DEF Layout
<1>2. Fields(m) = PutText(m.stream)
  BY Zenon DEF Fields
<1>3. FrameSize(m) = 3 + TextSize(m.stream)
  BY Zenon DEF FrameSize
<1>4. Carried(m.id) = {"stream"}
  BY Zenon DEF Carried
<1>5. {"stream"} \cap ProtoFields = {"stream"} \ {"content"}
  BY FieldNames
<1>a. PICK a : /\ a = Text("stream") /\ a \in Item /\ a.field = "stream"
               /\ Written(m, a) = PutText(m.stream) /\ Len(Written(m, a)) = TextSize(m.stream)
  BY ItemsAre, TextNames, Zenon
<1>6. a \in Item
  BY <1>a, Zenon
<1>7. PICK octets : octets = Written(m, a)
  OBVIOUS
<1>8. Spells(m, <<a>>, octets, {a.field}) /\ Len(octets) = Len(Written(m, a))
  BY <1>6, <1>7, SpellOne, Zenon
<1>9. Len(octets) = TextSize(m.stream)
  BY <1>a, <1>8, Zenon
<1>10. TextSize(m.stream) = TextSize(m.stream)
  OBVIOUS
<1>11. octets = PutText(m.stream)
  BY <1>a, <1>7, Zenon
<1>12. Layout(m.id) = <<a>> /\ Fields(m) = octets
  BY <1>1, <1>2, <1>11, <1>a, Zenon
<1>13. {a.field} \cap ProtoFields = Carried(m.id) \ {"content"}
  BY <1>4, <1>5, <1>a, Zenon
<1>14. FrameSize(m) = 3 + Len(octets)
  BY <1>3, <1>9, <1>10, Zenon
<1> QED BY <1>8, <1>12, <1>13, <1>14, SpeltIf, Zenon

LEMMA SpeltStreamRead ==
  ASSUME NEW m \in Object, m.id = "STREAM READ"
  PROVE  Spelt(m)
<1>1. Layout(m.id) = <<Text("stream"), Text("pattern")>>
  BY Zenon DEF Layout
<1>2. Fields(m) = PutText(m.stream) \o PutText(m.pattern)
  BY Zenon DEF Fields
<1>3. FrameSize(m) = 3 + (TextSize(m.stream) + TextSize(m.pattern))
  BY Zenon DEF FrameSize
<1>4. Carried(m.id) = {"stream", "pattern"}
  BY Zenon DEF Carried
<1>5. {"stream", "pattern"} \cap ProtoFields = {"stream", "pattern"} \ {"content"}
  BY FieldNames
<1>a. PICK a : /\ a = Text("stream") /\ a \in Item /\ a.field = "stream"
               /\ Written(m, a) = PutText(m.stream) /\ Len(Written(m, a)) = TextSize(m.stream)
  BY ItemsAre, TextNames, Zenon
<1>b. PICK b : /\ b = Text("pattern") /\ b \in Item /\ b.field = "pattern"
               /\ Written(m, b) = PutText(m.pattern) /\ Len(Written(m, b)) = TextSize(m.pattern)
  BY ItemsAre, TextNames, Zenon
<1>6. a \in Item /\ b \in Item
  BY <1>a, <1>b, Zenon
<1>7. PICK octets : octets = Written(m, a) \o Written(m, b)
  OBVIOUS
<1>8. Spells(m, <<a, b>>, octets, {a.field, b.field}) /\ Len(octets) = Len(Written(m, a)) + Len(Written(m, b))
  BY <1>6, <1>7, SpellTwo, Zenon
<1>9. Len(octets) = TextSize(m.stream) + TextSize(m.pattern)
  BY <1>a, <1>b, <1>8, Zenon
<1>10. (TextSize(m.stream) + TextSize(m.pattern)) = TextSize(m.stream) + TextSize(m.pattern)
  <2>1. TextSize(m.stream) \in Nat /\ TextSize(m.pattern) \in Nat
    BY ItemsAre, TextNames, Zenon
  <2>3. PICK e, f : e = TextSize(m.stream) /\ f = TextSize(m.pattern)
    OBVIOUS
  <2> QED BY ONLY <2>1, <2>3
<1>11. octets = PutText(m.stream) \o PutText(m.pattern)
  BY <1>a, <1>b, <1>7, Zenon
<1>12. Layout(m.id) = <<a, b>> /\ Fields(m) = octets
  BY <1>1, <1>2, <1>11, <1>a, <1>b, Zenon
<1>13. {a.field, b.field} \cap ProtoFields = Carried(m.id) \ {"content"}
  BY <1>4, <1>5, <1>a, <1>b, Zenon
<1>14. FrameSize(m) = 3 + Len(octets)
  BY <1>3, <1>9, <1>10, Zenon
<1> QED BY <1>8, <1>12, <1>13, <1>14, SpeltIf, Zenon

LEMMA SpeltStreamSend ==
  ASSUME NEW m \in Object, m.id = "STREAM SEND"
  PROVE  Spelt(m)
<1>1. Layout(m.id) = <<Text("subject")>>
  BY Zenon DEF Layout
<1>2. Fields(m) = PutText(m.subject)
  BY Zenon DEF Fields
<1>3. FrameSize(m) = 3 + TextSize(m.subject)
  BY Zenon DEF FrameSize
<1>4. Carried(m.id) = {"subject", "content"}
  BY Zenon DEF Carried
<1>5. {"subject"} \cap ProtoFields = {"subject", "content"} \ {"content"}
  BY FieldNames
<1>a. PICK a : /\ a = Text("subject") /\ a \in Item /\ a.field = "subject"
               /\ Written(m, a) = PutText(m.subject) /\ Len(Written(m, a)) = TextSize(m.subject)
  BY ItemsAre, TextNames, Zenon
<1>6. a \in Item
  BY <1>a, Zenon
<1>7. PICK octets : octets = Written(m, a)
  OBVIOUS
<1>8. Spells(m, <<a>>, octets, {a.field}) /\ Len(octets) = Len(Written(m, a))
  BY <1>6, <1>7, SpellOne, Zenon
<1>9. Len(octets) = TextSize(m.subject)
  BY <1>a, <1>8, Zenon
<1>10. TextSize(m.subject) = TextSize(m.subject)
  OBVIOUS
<1>11. octets = PutText(m.subject)
  BY <1>a, <1>7, Zenon
<1>12. Layout(m.id) = <<a>> /\ Fields(m) = octets
  BY <1>1, <1>2, <1>11, <1>a, Zenon
<1>13. {a.field} \cap ProtoFields = Carried(m.id) \ {"content"}
  BY <1>4, <1>5, <1>a, Zenon
<1>14. FrameSize(m) = 3 + Len(octets)
  BY <1>3, <1>9, <1>10, Zenon
<1> QED BY <1>8, <1>12, <1>13, <1>14, SpeltIf, Zenon

LEMMA SpeltStreamDeliver ==
  ASSUME NEW m \in Object, m.id = "STREAM DELIVER"
  PROVE  Spelt(m)
<1>1. Layout(m.id) = <<Text("address"), Text("sender"), Text("subject")>>
  BY Zenon DEF Layout
<1>2. Fields(m) = PutText(m.address) \o PutText(m.sender) \o PutText(m.subject)
  BY Zenon DEF Fields
<1>3. FrameSize(m) = 3 + (TextSize(m.address) + TextSize(m.sender) + TextSize(m.subject))
  BY Zenon DEF FrameSize
<1>4. Carried(m.id) = {"address", "sender", "subject", "content"}
  BY Zenon DEF Carried
<1>5. {"address", "sender", "subject"} \cap ProtoFields = {"address", "sender", "subject", "content"} \ {"content"}
  BY FieldNames
<1>a. PICK a : /\ a = Text("address") /\ a \in Item /\ a.field = "address"
               /\ Written(m, a) = PutText(m.address) /\ Len(Written(m, a)) = TextSize(m.address)
  BY ItemsAre, TextNames, Zenon
<1>b. PICK b : /\ b = Text("sender") /\ b \in Item /\ b.field = "sender"
               /\ Written(m, b) = PutText(m.sender) /\ Len(Written(m, b)) = TextSize(m.sender)
  BY ItemsAre, TextNames, Zenon
<1>c. PICK c : /\ c = Text("subject") /\ c \in Item /\ c.field = "subject"
               /\ Written(m, c) = PutText(m.subject) /\ Len(Written(m, c)) = TextSize(m.subject)
  BY ItemsAre, TextNames, Zenon
<1>6. a \in Item /\ b \in Item /\ c \in Item
  BY <1>a, <1>b, <1>c, Zenon
<1>7. PICK octets : octets = Written(m, a) \o Written(m, b) \o Written(m, c)
  OBVIOUS
<1>8. Spells(m, <<a, b, c>>, octets, {a.field, b.field, c.field}) /\ Len(octets) = Len(Written(m, a)) + (Len(Written(m, b)) + Len(Written(m, c)))
  BY <1>6, <1>7, SpellThree, Zenon
<1>9. Len(octets) = TextSize(m.address) + (TextSize(m.sender) + TextSize(m.subject))
  BY <1>a, <1>b, <1>c, <1>8, Zenon
<1>10. (TextSize(m.address) + TextSize(m.sender) + TextSize(m.subject)) = TextSize(m.address) + (TextSize(m.sender) + TextSize(m.subject))
  <2>1. TextSize(m.address) \in Nat /\ TextSize(m.sender) \in Nat /\ TextSize(m.subject) \in Nat
    BY ItemsAre, TextNames, Zenon
  <2>3. PICK e, f, g : e = TextSize(m.address) /\ f = TextSize(m.sender) /\ g = TextSize(m.subject)
    OBVIOUS
  <2> QED BY ONLY <2>1, <2>3
<1>11. octets = PutText(m.address) \o PutText(m.sender) \o PutText(m.subject)
  BY <1>a, <1>b, <1>c, <1>7, Zenon
<1>12. Layout(m.id) = <<a, b, c>> /\ Fields(m) = octets
  BY <1>1, <1>2, <1>11, <1>a, <1>b, <1>c, Zenon
<1>13. {a.field, b.field, c.field} \cap ProtoFields = Carried(m.id) \ {"content"}
  BY <1>4, <1>5, <1>a, <1>b, <1>c, Zenon
<1>14. FrameSize(m) = 3 + Len(octets)
  BY <1>3, <1>9, <1>10, Zenon
<1> QED BY <1>8, <1>12, <1>13, <1>14, SpeltIf, Zenon

LEMMA SpeltMailboxSend ==
  ASSUME NEW m \in Object, m.id \in {"MAILBOX SEND", "SERVICE SEND"}
  PROVE  Spelt(m)
<1>1. Layout(m.id) = <<Text("address"), Text("subject"), Text("tracker"), Four("timeout")>>
  BY Zenon DEF Layout
<1>2. Fields(m) = PutText(m.address) \o PutText(m.subject) \o PutText(m.tracker) \o Put4(m.timeout)
  BY Zenon DEF Fields
<1>3. FrameSize(m) = 3 + (TextSize(m.address) + TextSize(m.subject) + TextSize(m.tracker) + 4)
  BY Zenon DEF FrameSize
<1>4. Carried(m.id) = {"address", "subject", "tracker", "timeout", "content"}
  BY Zenon DEF Carried
<1>5. {"address", "subject", "tracker", "timeout"} \cap ProtoFields = {"address", "subject", "tracker", "timeout", "content"} \ {"content"}
  BY FieldNames
<1>a. PICK a : /\ a = Text("address") /\ a \in Item /\ a.field = "address"
               /\ Written(m, a) = PutText(m.address) /\ Len(Written(m, a)) = TextSize(m.address)
  BY ItemsAre, TextNames, Zenon
<1>b. PICK b : /\ b = Text("subject") /\ b \in Item /\ b.field = "subject"
               /\ Written(m, b) = PutText(m.subject) /\ Len(Written(m, b)) = TextSize(m.subject)
  BY ItemsAre, TextNames, Zenon
<1>c. PICK c : /\ c = Text("tracker") /\ c \in Item /\ c.field = "tracker"
               /\ Written(m, c) = PutText(m.tracker) /\ Len(Written(m, c)) = TextSize(m.tracker)
  BY ItemsAre, TextNames, Zenon
<1>d. PICK d : /\ d = Four("timeout") /\ d \in Item /\ d.field = "timeout"
               /\ Written(m, d) = Put4(m.timeout) /\ Len(Written(m, d)) = 4
  BY ItemsAre, TextNames, Zenon
<1>6. a \in Item /\ b \in Item /\ c \in Item /\ d \in Item
  BY <1>a, <1>b, <1>c, <1>d, Zenon
<1>7. PICK octets : octets = Written(m, a) \o Written(m, b) \o Written(m, c) \o Written(m, d)
  OBVIOUS
<1>8. Spells(m, <<a, b, c, d>>, octets, {a.field, b.field, c.field, d.field}) /\ Len(octets) = Len(Written(m, a)) + (Len(Written(m, b)) + (Len(Written(m, c)) + Len(Written(m, d))))
  <2>1. a \in Item
    BY <1>6, Zenon
  <2>2. b \in Item
    BY <1>6, Zenon
  <2>3. c \in Item
    BY <1>6, Zenon
  <2>4. d \in Item
    BY <1>6, Zenon
  <2> QED BY ONLY <1>7, <2>1, <2>2, <2>3, <2>4, SpellFour, m \in Object
<1>9. Len(octets) = TextSize(m.address) + (TextSize(m.subject) + (TextSize(m.tracker) + 4))
  BY <1>a, <1>b, <1>c, <1>d, <1>8, Zenon
<1>10. (TextSize(m.address) + TextSize(m.subject) + TextSize(m.tracker) + 4) = TextSize(m.address) + (TextSize(m.subject) + (TextSize(m.tracker) + 4))
  <2>1. TextSize(m.address) \in Nat /\ TextSize(m.subject) \in Nat /\ TextSize(m.tracker) \in Nat
    BY ItemsAre, TextNames, Zenon
  <2>3. PICK e, f, g : e = TextSize(m.address) /\ f = TextSize(m.subject) /\ g = TextSize(m.tracker)
    OBVIOUS
  <2> QED BY ONLY <2>1, <2>3
<1>11. octets = PutText(m.address) \o PutText(m.subject) \o PutText(m.tracker) \o Put4(m.timeout)
  BY <1>a, <1>b, <1>c, <1>d, <1>7, Zenon
<1>12. Layout(m.id) = <<a, b, c, d>> /\ Fields(m) = octets
  BY <1>1, <1>2, <1>11, <1>a, <1>b, <1>c, <1>d, Zenon
<1>13. {a.field, b.field, c.field, d.field} \cap ProtoFields = Carried(m.id) \ {"content"}
  BY <1>4, <1>5, <1>a, <1>b, <1>c, <1>d, Zenon
<1>14. FrameSize(m) = 3 + Len(octets)
  BY <1>3, <1>9, <1>10, Zenon
<1> QED BY <1>8, <1>12, <1>13, <1>14, SpeltIf, Zenon

LEMMA SpeltMailboxDeliver ==
  ASSUME NEW m \in Object, m.id \in {"MAILBOX DELIVER", "SERVICE DELIVER"}
  PROVE  Spelt(m)
<1>1. Layout(m.id) = <<Text("sender"), Text("address"), Text("subject"), Text("tracker")>>
  BY Zenon DEF Layout
<1>2. Fields(m) = PutText(m.sender) \o PutText(m.address) \o PutText(m.subject) \o PutText(m.tracker)
  BY Zenon DEF Fields, DeliveryFields
<1>3. FrameSize(m) = 3 + (TextSize(m.sender) + TextSize(m.address) + TextSize(m.subject) + TextSize(m.tracker))
  BY Zenon DEF FrameSize
<1>4. Carried(m.id) = {"sender", "address", "subject", "tracker", "content"}
  BY Zenon DEF Carried
<1>5. {"sender", "address", "subject", "tracker"} \cap ProtoFields = {"sender", "address", "subject", "tracker", "content"} \ {"content"}
  BY FieldNames
<1>a. PICK a : /\ a = Text("sender") /\ a \in Item /\ a.field = "sender"
               /\ Written(m, a) = PutText(m.sender) /\ Len(Written(m, a)) = TextSize(m.sender)
  BY ItemsAre, TextNames, Zenon
<1>b. PICK b : /\ b = Text("address") /\ b \in Item /\ b.field = "address"
               /\ Written(m, b) = PutText(m.address) /\ Len(Written(m, b)) = TextSize(m.address)
  BY ItemsAre, TextNames, Zenon
<1>c. PICK c : /\ c = Text("subject") /\ c \in Item /\ c.field = "subject"
               /\ Written(m, c) = PutText(m.subject) /\ Len(Written(m, c)) = TextSize(m.subject)
  BY ItemsAre, TextNames, Zenon
<1>d. PICK d : /\ d = Text("tracker") /\ d \in Item /\ d.field = "tracker"
               /\ Written(m, d) = PutText(m.tracker) /\ Len(Written(m, d)) = TextSize(m.tracker)
  BY ItemsAre, TextNames, Zenon
<1>6. a \in Item /\ b \in Item /\ c \in Item /\ d \in Item
  BY <1>a, <1>b, <1>c, <1>d, Zenon
<1>7. PICK octets : octets = Written(m, a) \o Written(m, b) \o Written(m, c) \o Written(m, d)
  OBVIOUS
<1>8. Spells(m, <<a, b, c, d>>, octets, {a.field, b.field, c.field, d.field}) /\ Len(octets) = Len(Written(m, a)) + (Len(Written(m, b)) + (Len(Written(m, c)) + Len(Written(m, d))))
  <2>1. a \in Item
    BY <1>6, Zenon
  <2>2. b \in Item
    BY <1>6, Zenon
  <2>3. c \in Item
    BY <1>6, Zenon
  <2>4. d \in Item
    BY <1>6, Zenon
  <2> QED BY ONLY <1>7, <2>1, <2>2, <2>3, <2>4, SpellFour, m \in Object
<1>9. Len(octets) = TextSize(m.sender) + (TextSize(m.address) + (TextSize(m.subject) + TextSize(m.tracker)))
  BY <1>a, <1>b, <1>c, <1>d, <1>8, Zenon
<1>10. (TextSize(m.sender) + TextSize(m.address) + TextSize(m.subject) + TextSize(m.tracker)) = TextSize(m.sender) + (TextSize(m.address) + (TextSize(m.subject) + TextSize(m.tracker)))
  <2>1. TextSize(m.sender) \in Nat /\ TextSize(m.address) \in Nat /\ TextSize(m.subject) \in Nat /\ TextSize(m.tracker) \in Nat
    BY ItemsAre, TextNames, Zenon
  <2>3. PICK e, f, g, h : e = TextSize(m.sender) /\ f = TextSize(m.address) /\ g = TextSize(m.subject) /\ h = TextSize(m.tracker)
    OBVIOUS
  <2> QED BY ONLY <2>1, <2>3
<1>11. octets = PutText(m.sender) \o PutText(m.address) \o PutText(m.subject) \o PutText(m.tracker)
  BY <1>a, <1>b, <1>c, <1>d, <1>7, Zenon
<1>12. Layout(m.id) = <<a, b, c, d>> /\ Fields(m) = octets
  BY <1>1, <1>2, <1>11, <1>a, <1>b, <1>c, <1>d, Zenon
<1>13. {a.field, b.field, c.field, d.field} \cap ProtoFields = Carried(m.id) \ {"content"}
  BY <1>4, <1>5, <1>a, <1>b, <1>c, <1>d, Zenon
<1>14. FrameSize(m) = 3 + Len(octets)
  BY <1>3, <1>9, <1>10, Zenon
<1> QED BY <1>8, <1>12, <1>13, <1>14, SpeltIf, Zenon

LEMMA SpeltServiceOffer ==
  ASSUME NEW m \in Object, m.id = "SERVICE OFFER"
  PROVE  Spelt(m)
<1>1. Layout(m.id) = <<Text("address"), Text("pattern")>>
  BY Zenon DEF Layout
<1>2. Fields(m) = PutText(m.address) \o PutText(m.pattern)
  BY Zenon DEF Fields
<1>3. FrameSize(m) = 3 + (TextSize(m.address) + TextSize(m.pattern))
  BY Zenon DEF FrameSize
<1>4. Carried(m.id) = {"address", "pattern"}
  BY Zenon DEF Carried
<1>5. {"address", "pattern"} \cap ProtoFields = {"address", "pattern"} \ {"content"}
  BY FieldNames
<1>a. PICK a : /\ a = Text("address") /\ a \in Item /\ a.field = "address"
               /\ Written(m, a) = PutText(m.address) /\ Len(Written(m, a)) = TextSize(m.address)
  BY ItemsAre, TextNames, Zenon
<1>b. PICK b : /\ b = Text("pattern") /\ b \in Item /\ b.field = "pattern"
               /\ Written(m, b) = PutText(m.pattern) /\ Len(Written(m, b)) = TextSize(m.pattern)
  BY ItemsAre, TextNames, Zenon
<1>6. a \in Item /\ b \in Item
  BY <1>a, <1>b, Zenon
<1>7. PICK octets : octets = Written(m, a) \o Written(m, b)
  OBVIOUS
<1>8. Spells(m, <<a, b>>, octets, {a.field, b.field}) /\ Len(octets) = Len(Written(m, a)) + Len(Written(m, b))
  BY <1>6, <1>7, SpellTwo, Zenon
<1>9. Len(octets) = TextSize(m.address) + TextSize(m.pattern)
  BY <1>a, <1>b, <1>8, Zenon
<1>10. (TextSize(m.address) + TextSize(m.pattern)) = TextSize(m.address) + TextSize(m.pattern)
  <2>1. TextSize(m.address) \in Nat /\ TextSize(m.pattern) \in Nat
    BY ItemsAre, TextNames, Zenon
  <2>3. PICK e, f : e = TextSize(m.address) /\ f = TextSize(m.pattern)
    OBVIOUS
  <2> QED BY ONLY <2>1, <2>3
<1>11. octets = PutText(m.address) \o PutText(m.pattern)
  BY <1>a, <1>b, <1>7, Zenon
<1>12. Layout(m.id) = <<a, b>> /\ Fields(m) = octets
  BY <1>1, <1>2, <1>11, <1>a, <1>b, Zenon
<1>13. {a.field, b.field} \cap ProtoFields = Carried(m.id) \ {"content"}
  BY <1>4, <1>5, <1>a, <1>b, Zenon
<1>14. FrameSize(m) = 3 + Len(octets)
  BY <1>3, <1>9, <1>10, Zenon
<1> QED BY <1>8, <1>12, <1>13, <1>14, SpeltIf, Zenon

LEMMA SpeltOk ==
  ASSUME NEW m \in Object, m.id \in {"OK", "ERROR"}
  PROVE  Spelt(m)
<1>1. Layout(m.id) = <<Two("status_code"), Text("status_reason")>>
  BY Zenon DEF Layout
<1>2. Fields(m) = Put2(m.status_code) \o PutText(m.status_reason)
  BY Zenon DEF Fields
<1>3. FrameSize(m) = 3 + (2 + TextSize(m.status_reason))
  BY Zenon DEF FrameSize
<1>4. Carried(m.id) = {"status_code", "status_reason"}
  BY Zenon DEF Carried
<1>5. {"status_code", "status_reason"} \cap ProtoFields = {"status_code", "status_reason"} \ {"content"}
  BY FieldNames
<1>a. PICK a : /\ a = Two("status_code") /\ a \in Item /\ a.field = "status_code"
               /\ Written(m, a) = Put2(m.status_code) /\ Len(Written(m, a)) = 2
  BY ItemsAre, TextNames, Zenon
<1>b. PICK b : /\ b = Text("status_reason") /\ b \in Item /\ b.field = "status_reason"
               /\ Written(m, b) = PutText(m.status_reason) /\ Len(Written(m, b)) = TextSize(m.status_reason)
  BY ItemsAre, TextNames, Zenon
<1>6. a \in Item /\ b \in Item
  BY <1>a, <1>b, Zenon
<1>7. PICK octets : octets = Written(m, a) \o Written(m, b)
  OBVIOUS
<1>8. Spells(m, <<a, b>>, octets, {a.field, b.field}) /\ Len(octets) = Len(Written(m, a)) + Len(Written(m, b))
  BY <1>6, <1>7, SpellTwo, Zenon
<1>9. Len(octets) = 2 + TextSize(m.status_reason)
  BY <1>a, <1>b, <1>8, Zenon
<1>10. (2 + TextSize(m.status_reason)) = 2 + TextSize(m.status_reason)
  <2>1. TextSize(m.status_reason) \in Nat
    BY ItemsAre, TextNames, Zenon
  <2>3. PICK e : e = TextSize(m.status_reason)
    OBVIOUS
  <2> QED BY ONLY <2>1, <2>3
<1>11. octets = Put2(m.status_code) \o PutText(m.status_reason)
  BY <1>a, <1>b, <1>7, Zenon
<1>12. Layout(m.id) = <<a, b>> /\ Fields(m) = octets
  BY <1>1, <1>2, <1>11, <1>a, <1>b, Zenon
<1>13. {a.field, b.field} \cap ProtoFields = Carried(m.id) \ {"content"}
  BY <1>4, <1>5, <1>a, <1>b, Zenon
<1>14. FrameSize(m) = 3 + Len(octets)
  BY <1>3, <1>9, <1>10, Zenon
<1> QED BY <1>8, <1>12, <1>13, <1>14, SpeltIf, Zenon

LEMMA SpeltCredit ==
  ASSUME NEW m \in Object, m.id = "CREDIT"
  PROVE  Spelt(m)
<1>1. Layout(m.id) = <<Two("amount")>>
  BY Zenon DEF Layout
<1>2. Fields(m) = Put2(m.amount)
  BY Zenon DEF Fields
<1>3. FrameSize(m) = 3 + 2
  BY Zenon DEF FrameSize
<1>4. Carried(m.id) = {"amount"}
  BY Zenon DEF Carried
<1>5. {"amount"} \cap ProtoFields = {"amount"} \ {"content"}
  BY FieldNames
<1>a. PICK a : /\ a = Two("amount") /\ a \in Item /\ a.field = "amount"
               /\ Written(m, a) = Put2(m.amount) /\ Len(Written(m, a)) = 2
  BY ItemsAre, TextNames, Zenon
<1>6. a \in Item
  BY <1>a, Zenon
<1>7. PICK octets : octets = Written(m, a)
  OBVIOUS
<1>8. Spells(m, <<a>>, octets, {a.field}) /\ Len(octets) = Len(Written(m, a))
  BY <1>6, <1>7, SpellOne, Zenon
<1>9. Len(octets) = 2
  BY <1>a, <1>8, Zenon
<1>10. 2 = 2
  OBVIOUS
<1>11. octets = Put2(m.amount)
  BY <1>a, <1>7, Zenon
<1>12. Layout(m.id) = <<a>> /\ Fields(m) = octets
  BY <1>1, <1>2, <1>11, <1>a, Zenon
<1>13. {a.field} \cap ProtoFields = Carried(m.id) \ {"content"}
  BY <1>4, <1>5, <1>a, Zenon
<1>14. FrameSize(m) = 3 + Len(octets)
  BY <1>3, <1>9, <1>10, Zenon
<1> QED BY <1>8, <1>12, <1>13, <1>14, SpeltIf, Zenon

LEMMA SpeltConfirm ==
  ASSUME NEW m \in Object, m.id = "CONFIRM"
  PROVE  Spelt(m)
<1>1. Layout(m.id) = <<Text("tracker"), Two("status_code"), Text("status_reason")>>
  BY Zenon DEF Layout
<1>2. Fields(m) = PutText(m.tracker) \o Put2(m.status_code) \o PutText(m.status_reason)
  BY Zenon DEF Fields
<1>3. FrameSize(m) = 3 + (TextSize(m.tracker) + 2 + TextSize(m.status_reason))
  BY Zenon DEF FrameSize
<1>4. Carried(m.id) = {"tracker", "status_code", "status_reason"}
  BY Zenon DEF Carried
<1>5. {"tracker", "status_code", "status_reason"} \cap ProtoFields = {"tracker", "status_code", "status_reason"} \ {"content"}
  BY FieldNames
<1>a. PICK a : /\ a = Text("tracker") /\ a \in Item /\ a.field = "tracker"
               /\ Written(m, a) = PutText(m.tracker) /\ Len(Written(m, a)) = TextSize(m.tracker)
  BY ItemsAre, TextNames, Zenon
<1>b. PICK b : /\ b = Two("status_code") /\ b \in Item /\ b.field = "status_code"
               /\ Written(m, b) = Put2(m.status_code) /\ Len(Written(m, b)) = 2
  BY ItemsAre, TextNames, Zenon
<1>c. PICK c : /\ c = Text("status_reason") /\ c \in Item /\ c.field = "status_reason"
               /\ Written(m, c) = PutText(m.status_reason) /\ Len(Written(m, c)) = TextSize(m.status_reason)
  BY ItemsAre, TextNames, Zenon
<1>6. a \in Item /\ b \in Item /\ c \in Item
  BY <1>a, <1>b, <1>c, Zenon
<1>7. PICK octets : octets = Written(m, a) \o Written(m, b) \o Written(m, c)
  OBVIOUS
<1>8. Spells(m, <<a, b, c>>, octets, {a.field, b.field, c.field}) /\ Len(octets) = Len(Written(m, a)) + (Len(Written(m, b)) + Len(Written(m, c)))
  BY <1>6, <1>7, SpellThree, Zenon
<1>9. Len(octets) = TextSize(m.tracker) + (2 + TextSize(m.status_reason))
  BY <1>a, <1>b, <1>c, <1>8, Zenon
<1>10. (TextSize(m.tracker) + 2 + TextSize(m.status_reason)) = TextSize(m.tracker) + (2 + TextSize(m.status_reason))
  <2>1. TextSize(m.tracker) \in Nat /\ TextSize(m.status_reason) \in Nat
    BY ItemsAre, TextNames, Zenon
  <2>3. PICK e, f : e = TextSize(m.tracker) /\ f = TextSize(m.status_reason)
    OBVIOUS
  <2> QED BY ONLY <2>1, <2>3
<1>11. octets = PutText(m.tracker) \o Put2(m.status_code) \o PutText(m.status_reason)
  BY <1>a, <1>b, <1>c, <1>7, Zenon
<1>12. Layout(m.id) = <<a, b, c>> /\ Fields(m) = octets
  BY <1>1, <1>2, <1>11, <1>a, <1>b, <1>c, Zenon
<1>13. {a.field, b.field, c.field} \cap ProtoFields = Carried(m.id) \ {"content"}
  BY <1>4, <1>5, <1>a, <1>b, <1>c, Zenon
<1>14. FrameSize(m) = 3 + Len(octets)
  BY <1>3, <1>9, <1>10, Zenon
<1> QED BY <1>8, <1>12, <1>13, <1>14, SpeltIf, Zenon

LEMMA SpeltConnectionPing ==
  ASSUME NEW m \in Object, m.id \in {"CONNECTION PING", "CONNECTION PONG", "CONNECTION CLOSE"}
  PROVE  Spelt(m)
<1>1. Layout(m.id) = <<>>
  BY Zenon DEF Layout
<1>2. Fields(m) = <<>>
  BY Zenon DEF Fields
<1>3. FrameSize(m) = 3 + 0
  BY Zenon DEF FrameSize
<1>4. Carried(m.id) = {}
  BY Zenon DEF Carried
<1>5. {} \cap ProtoFields = {} \ {"content"}
  BY FieldNames
<1>6. Spells(m, <<>>, <<>>, {})
  BY SpellNone
<1>7. 0 = Len(<<>>)
  OBVIOUS
<1> QED BY <1>1, <1>2, <1>3, <1>4, <1>5, <1>6, <1>7, SpeltIf, Zenon

LEMMA AllSpelt ==
  ASSUME NEW m \in Object, m.id \in Range(Id)
  PROVE  Spelt(m)
BY IdsAre, SpeltConnectionOpen, SpeltStreamWrite, SpeltStreamRead, SpeltStreamSend,
   SpeltStreamDeliver, SpeltMailboxSend, SpeltMailboxDeliver, SpeltServiceOffer,
   SpeltOk, SpeltCredit, SpeltConfirm, SpeltConnectionPing, Zenon

-----------------------------------------------------------------------------
\* The frames of a message

Frame == [octets : Seq(Octet), more : BOOLEAN]
First(m) == Signature \o Put1(IdNumber(m.id)) \o Fields(m)

LEMMA FrameIs ==
  ASSUME NEW text \in Seq(Octet), NEW mark \in BOOLEAN
  PROVE  /\ [octets |-> text, more |-> mark] \in Frame
         /\ [octets |-> text, more |-> mark].octets = text
         /\ [octets |-> text, more |-> mark].more = mark
<1>1. PICK S, B : S = Seq(Octet) /\ B = BOOLEAN
  OBVIOUS
<1>2. text \in S /\ mark \in B
  BY <1>1, Zenon
<1>3. [octets |-> text, more |-> mark] \in [octets : S, more : B]
  BY ONLY <1>2
<1>4. /\ [octets |-> text, more |-> mark].octets = text
      /\ [octets |-> text, more |-> mark].more = mark
  BY Zenon
<1> QED BY <1>1, <1>3, <1>4, Zenon DEF Frame

\* The frames of a message: the one with the fields, then the content.
LEMMA FramesAre ==
  ASSUME NEW m \in Object, m.id \in Range(Id)
  PROVE  /\ Bodies(m) \in Seq(Seq(Octet)) /\ First(m) \in Seq(Octet)
         /\ Frames(m) \in Seq(Frame) /\ Len(Frames(m)) = 1 + Len(Bodies(m))
         /\ Frames(m)[1].octets = First(m)
         /\ \A i \in 1 .. Len(Bodies(m)) : Frames(m)[i + 1].octets = Bodies(m)[i]
         /\ \A i \in 1 .. Len(Frames(m)) : Frames(m)[i].more <=> i < Len(Frames(m))
<1>1. Bodies(m) \in Seq(Seq(Octet))
  <2>1. m.content \in Seq(Seq(Octet)) \cup {NoContent}
    BY ObjectFields, Zenon
  <2>2. PICK none, lone : none = <<>> /\ lone = <<none>>
    OBVIOUS
  <2>3. none \in Seq(Octet)
    BY <2>2
  <2>4. PICK S : S = Seq(Octet)
    OBVIOUS
  <2>5. none \in Seq(S) /\ lone \in Seq(S)
    BY <2>2, <2>3, <2>4
  <2> QED BY <2>1, <2>2, <2>4, <2>5, Zenon DEF Bodies
<1>2. First(m) \in Seq(Octet)
  <2>1. IdNumber(m.id) \in Int
    BY NumberOfId
  <2>2. Put1(IdNumber(m.id)) \in Seq(Octet)
    BY <2>1, Octets DEF Put1
  <2>3. Signature \in Seq(Octet)
    BY DEF Signature, Octet
  <2>4. Fields(m) \in Seq(Octet)
    BY AllSpelt, Zenon DEF Spelt, Spells
  <2>5. Signature \o Put1(IdNumber(m.id)) \in Seq(Octet)
    BY <2>2, <2>3, ConcatProperties, Zenon
  <2> QED BY <2>4, <2>5, ConcatProperties, Zenon DEF First
<1>3. PICK S : S = Seq(Octet)
  OBVIOUS
<1>4. PICK octets, bodies : octets = <<First(m)>> \o bodies /\ bodies = Bodies(m)
  OBVIOUS
<1>5. PICK k \in Nat : k = Len(bodies)
  BY <1>1, <1>4
<1>6. /\ octets \in Seq(S) /\ Len(octets) = 1 + k /\ octets[1] = First(m)
      /\ \A i \in DOMAIN octets : i # 1 => octets[i] = bodies[i - 1]
  <2>1. bodies \in Seq(S) /\ First(m) \in S
    BY <1>1, <1>2, <1>3, <1>4, Zenon
  <2> QED BY <1>4, <1>5, <2>1, HeadedBy
<1>7. PICK frames : frames = [i \in DOMAIN octets |->
                                [octets |-> octets[i], more |-> i < Len(octets)]]
  OBVIOUS
<1>8. frames = Frames(m)
  BY <1>4, <1>7, Zenon DEF Frames, First
<1>9. DOMAIN octets = 1 .. 1 + k
  BY <1>6
<1>10. ASSUME NEW i \in 1 .. 1 + k
       PROVE  /\ frames[i] \in Frame /\ frames[i].octets = octets[i]
              /\ frames[i].more <=> i < 1 + k
  <2>1. PICK text, more : text = octets[i] /\ more = (i < 1 + k)
    OBVIOUS
  <2>2. text \in Seq(Octet) /\ more \in BOOLEAN
    BY <1>3, <1>6, <1>9, <2>1
  <2>3. frames[i] = [octets |-> text, more |-> more]
    BY <1>6, <1>7, <1>9, <2>1, Zenon
  <2>4. frames[i] \in Frame /\ frames[i].octets = text /\ frames[i].more = more
    <3>1. text \in Seq(Octet)
      BY <2>2, Zenon
    <3>2. more \in BOOLEAN
      BY <2>2, Zenon
    <3>3. PICK frame : frame = [octets |-> text, more |-> more]
      OBVIOUS
    <3>4. frame \in Frame
      BY <3>1, <3>2, <3>3, FrameIs, Zenon
    <3>5. frame.octets = text
      BY <3>1, <3>2, <3>3, FrameIs, Zenon
    <3>6. frame.more = more
      BY <3>1, <3>2, <3>3, FrameIs, Zenon
    <3> QED BY <2>3, <3>3, <3>4, <3>5, <3>6, Zenon
  <2> QED BY <2>1, <2>4, Zenon
<1>11. \A i \in 1 .. 1 + k : frames[i] \in Frame
  BY <1>10, Zenon
<1>12. frames = [i \in 1 .. 1 + k |-> frames[i]]
  BY <1>7, <1>9, Zenon
<1>13. PICK T : T = Frame
  OBVIOUS
<1>14. frames \in Seq(T) /\ Len(frames) = 1 + k
  <2>1. frames \in [1 .. 1 + k -> T]
    BY <1>11, <1>12, <1>13, Zenon
  <2> QED BY ONLY <1>5, <2>1
<1>15. frames[1].octets = First(m)
  <2>1. 1 \in 1 .. 1 + k
    BY <1>5
  <2> QED BY <1>6, <1>10, <2>1, Zenon
<1>16. ASSUME NEW i \in 1 .. k PROVE frames[i + 1].octets = bodies[i]
  <2>1. i + 1 \in 1 .. 1 + k /\ (i + 1) - 1 = i /\ i + 1 # 1
    BY <1>5
  <2>2. octets[i + 1] = bodies[(i + 1) - 1]
    BY <1>6, <1>9, <2>1, Zenon
  <2>3. frames[i + 1].octets = octets[i + 1]
    BY <1>10, <2>1, Zenon
  <2> QED BY <2>1, <2>2, <2>3, Zenon
<1>17. \A i \in 1 .. 1 + k : frames[i].more <=> i < 1 + k
  BY <1>10, Zenon
<1> QED BY <1>1, <1>2, <1>4, <1>5, <1>8, <1>13, <1>14, <1>15, <1>16, <1>17, Zenon

\* The first frame, taken apart.
LEMMA FirstIs ==
  ASSUME NEW m \in Object, m.id \in Range(Id)
  PROVE  /\ SubSeq(First(m), 1, 2) = Signature
         /\ First(m)[3] = IdNumber(m.id)
         /\ SubSeq(First(m), 4, Len(First(m))) = Fields(m)
         /\ Len(First(m)) = FrameSize(m)
<1>1. PICK k, f : k = IdNumber(m.id) /\ f = Fields(m)
  OBVIOUS
<1>2. k \in 1 .. 18
  BY <1>1, NumberOfId
<1>3. f \in Seq(Octet)
  BY <1>1, AllSpelt, Zenon DEF Spelt, Spells
<1>4. PICK front : front = <<170, 168, k>>
  OBVIOUS
<1>5. front \in Seq(Octet) /\ Len(front) = 3 /\ front[3] = k
      /\ SubSeq(front, 1, 2) = Signature
  <2>1. 170 \in Octet /\ 168 \in Octet /\ k \in Octet
    BY <1>2, OctetIs
  <2>2. front \in Seq(Octet) /\ Len(front) = 3 /\ front[3] = k
    BY <1>4, <2>1
  <2>3. PICK h, a, b : h = SubSeq(front, 1, 2) /\ a = 170 /\ b = 168
    OBVIOUS
  <2>4. h \in Seq(Octet) /\ Len(h) = 2 /\ h[1] = a /\ h[2] = b
    BY <1>4, <2>1, <2>3
  <2>5. h = <<a, b>>
    BY ONLY <2>4
  <2> QED BY <2>2, <2>3, <2>5 DEF Signature
<1>6. First(m) = front \o f
  <2>1. k % 256 = k
    BY <1>2
  <2>2. Signature \o Put1(k) = front
    <3>1. PICK a, b : a = 170 /\ b = 168
      OBVIOUS
    <3>2. <<a>> \o <<b, k>> = <<a, b, k>> /\ <<a>> \o <<b>> = <<a, b>>
          /\ <<b>> \o <<k>> = <<b, k>>
      <4>1. a \in Int /\ b \in Int /\ k \in Int
        BY <1>2, <3>1
      <4> QED BY ONLY <4>1, ThreeList, TwoList
    <3>3. (<<a>> \o <<b>>) \o <<k>> = <<a>> \o (<<b>> \o <<k>>)
      <4>1. <<a>> \in Seq(Int) /\ <<b>> \in Seq(Int) /\ <<k>> \in Seq(Int)
        BY <1>2, <3>1
      <4> QED BY ONLY <4>1, ConcatAssociative
    <3>4. Put1(k) = <<k>>
      BY <2>1, Zenon DEF Put1
    <3>5. Signature = <<a, b>>
      BY <3>1 DEF Signature
    <3>6. front = <<a, b, k>>
      BY <1>4, <3>1
    <3> QED BY <3>2, <3>3, <3>4, <3>5, <3>6, Zenon
  <2> QED BY <1>1, <2>2, Zenon DEF First
<1>7. PICK all : all = front \o f
  OBVIOUS
<1>8. /\ Len(all) = 3 + Len(f) /\ SubSeq(all, 4, Len(all)) = f
      /\ SubSeq(all, 1, 3) = front
  <2>1. /\ Len(all) = Len(front) + Len(f)
        /\ SubSeq(all, 1, Len(front)) = front
        /\ SubSeq(all, Len(front) + 1, Len(all)) = f
    <3>1. front \in Seq(Octet)
      BY <1>5, Zenon
    <3> QED BY ONLY <1>3, <1>7, <3>1, FrontBack
  <2>2. 3 + 1 = 4
    OBVIOUS
  <2> QED BY <1>5, <2>1, <2>2, Zenon
<1>9. all[3] = k /\ SubSeq(all, 1, 2) = Signature
  <2>1. SubSeq(all, 1, 2) = SubSeq(front, 1, 2)
    <3>1. 1 \in 1 .. Len(front) /\ 2 \in 1 .. Len(front)
      BY <1>5
    <3> QED BY <1>3, <1>5, <1>7, <3>1, SubSeqOfConcat1, Zenon
  <2>2. all[3] = front[3]
    <3>1. 3 \in 1 .. Len(front)
      BY <1>5
    <3> QED BY <1>3, <1>5, <1>7, <3>1, JoinEntries, ZenonT(30)
  <2> QED BY <1>5, <2>1, <2>2, Zenon
<1>10. FrameSize(m) = 3 + Len(f)
  BY <1>1, AllSpelt, Zenon DEF Spelt
<1> QED BY <1>1, <1>6, <1>7, <1>8, <1>9, <1>10, Zenon

-----------------------------------------------------------------------------
\* What is received

Content(m) == IF m.content = NoContent THEN << <<>> >> ELSE m.content

\* An object after a message was received into it.
Merged(m, o) ==
  [f \in ProtoFields |->
     CASE f = "id" -> m.id
       [] f = "content" /\ f \in Carried(m.id) -> Content(m)
       [] f \in Carried(m.id) \ {"content"} -> m[f]
       [] OTHER -> o[f]]

LEMMA CarriedFacts ==
  ASSUME NEW id \in Range(Id)
  PROVE  /\ "content" \in Carried(id) <=> id \in WithContent
         /\ "id" \notin Carried(id) /\ Carried(id) \subseteq ProtoFields
<1>1. \A f \in {"address", "stream", "pattern", "subject", "sender", "tracker",
                "status_reason", "timeout", "status_code", "amount", "content"} :
        f \in ProtoFields /\ f # "id"
  BY FieldNames
<1>2. CASE id \in WithContent
  BY <1>1, <1>2, Zenon DEF WithContent, Carried
<1>3. CASE id \notin WithContent
  <2>1. id \in {"CONNECTION OPEN", "CONNECTION PING", "CONNECTION PONG",
                "CONNECTION CLOSE", "STREAM WRITE", "STREAM READ", "SERVICE OFFER",
                "OK", "ERROR", "CREDIT", "CONFIRM", "STREAM CANCEL"}
    BY <1>3, IdsAre, Zenon DEF WithContent
  <2> QED BY <1>1, <1>3, <2>1, Zenon DEF Carried
<1> QED BY <1>2, <1>3

LEMMA ReceivedIs ==
  ASSUME NEW m \in Object, m.id \in Range(Id), NEW o \in Object
  PROVE  Receive(o, Frames(m)) = Reading(Merged(m, o), <<>>)
<1>1. PICK frames : frames = Frames(m)
  OBVIOUS
<1>2. PICK items, named :
        /\ items = Layout(m.id) /\ Spells(m, items, Fields(m), named)
        /\ named \cap ProtoFields = Carried(m.id) \ {"content"}
  BY AllSpelt, Zenon DEF Spelt
<1>3. PICK left : Leaves(m, items, left) /\ left[0] = Fields(m)
  BY <1>2, Zenon DEF Spells
<1>4. /\ items \in Seq(Item) /\ named = {items[i].field : i \in 1 .. Len(items)}
  BY <1>2, Zenon DEF Spells
<1>5. frames[1].octets = First(m)
  BY <1>1, FramesAre, Zenon
<1>6. /\ SubSeq(First(m), 1, 2) = Signature /\ Id[First(m)[3]] = m.id
      /\ SubSeq(First(m), 4, Len(First(m))) = Fields(m)
  BY FirstIs, NumberOfId, Zenon
<1>7. PICK known : known = [o EXCEPT !.id = m.id]
  OBVIOUS
<1>8. /\ known \in Object
      /\ \A f \in ProtoFields : known[f] = IF f = "id" THEN m.id ELSE o[f]
  <2>1. "id" \in ProtoFields /\ m.id \in Held("id")
    BY FieldsAre, Zenon
  <2>2. known = With(o, "id", m.id)
    BY <1>7, Zenon DEF With
  <2>3. /\ With(o, "id", m.id) \in Object
        /\ \A g \in ProtoFields : With(o, "id", m.id)[g] = IF g = "id" THEN m.id ELSE o[g]
    BY <2>1, ObjectSet, ZenonT(30)
  <2> QED BY <2>2, <2>3, Zenon
<1>9. PICK reading : reading = Reading(known, Fields(m))
  OBVIOUS
<1>10. [o |-> [o EXCEPT !.id = m.id], rest |-> Fields(m), malformed |-> Signature # Signature]
         = reading
  BY <1>7, <1>9, Zenon DEF Reading
<1>11. PICK read : read = ReadOf(m, known, items, Len(items))
  OBVIOUS
<1>12. GetAll(reading, items) = Reading(read, <<>>)
  <2>1. known \in Object
    BY <1>8, Zenon
  <2>2. items \in Seq(Item)
    BY <1>4, Zenon
  <2>3. Leaves(m, items, left)
    BY <1>3, Zenon
  <2>4. GetAll(Reading(known, left[0]), items)
          = Reading(ReadOf(m, known, items, Len(items)), <<>>)
    BY ONLY <2>1, <2>2, <2>3, m \in Object, GetAllIsWritten
  <2> QED BY <1>3, <1>9, <1>11, <2>4, Zenon
<1>13. PICK got : got = Reading(read, <<>>)
  OBVIOUS
<1>14. ~got.malformed /\ got.o = read /\ got.rest = <<>>
  BY <1>13, Zenon DEF Reading
<1>15. Receive(o, frames) =
         IF m.id \notin WithContent THEN got
         ELSE [got EXCEPT !.o.content =
                 [i \in 1 .. Len(frames) - 1 |-> frames[i + 1].octets]]
  BY <1>2, <1>5, <1>6, <1>10, <1>12, <1>13, <1>14, Zenon DEF Receive
<1>16. DOMAIN read = ProtoFields /\ read = [f \in ProtoFields |-> read[f]]
  BY <1>11, Zenon DEF ReadOf
<1>17. ASSUME NEW f \in ProtoFields
       PROVE  read[f] = IF f \in Carried(m.id) \ {"content"} THEN m[f] ELSE known[f]
  <2>1. read[f] = IF \E i \in 1 .. Len(items) : items[i].field = f THEN m[f] ELSE known[f]
    BY <1>11, Zenon DEF ReadOf
  <2>2. f \in named <=> f \in Carried(m.id) \ {"content"}
    BY <1>2, Zenon
  <2> QED BY <1>4, <2>1, <2>2, Zenon
<1>18. ASSUME NEW f \in ProtoFields, ~(f = "content" /\ f \in Carried(m.id))
       PROVE  read[f] = Merged(m, o)[f]
  <2>1. Merged(m, o)[f] = CASE f = "id" -> m.id
                            [] f = "content" /\ f \in Carried(m.id) -> Content(m)
                            [] f \in Carried(m.id) \ {"content"} -> m[f]
                            [] OTHER -> o[f]
    BY Zenon DEF Merged
  <2>2. CASE f = "id"
    <3>1. f \notin Carried(m.id)
      BY <2>2, CarriedFacts, Zenon
    <3> QED BY <1>8, <1>17, <2>1, <2>2, <3>1, Zenon
  <2>3. CASE f # "id"
    BY <1>8, <1>17, <1>18, <2>1, <2>3, Zenon
  <2> QED BY <2>2, <2>3
<1>19. PICK merged : merged = Merged(m, o)
  OBVIOUS
<1>20. DOMAIN merged = ProtoFields /\ merged = [f \in ProtoFields |-> merged[f]]
  BY <1>19, Zenon DEF Merged
<1>21. CASE m.id \notin WithContent
  <2>1. "content" \notin Carried(m.id)
    BY <1>21, CarriedFacts, Zenon
  <2>2. \A f \in ProtoFields : read[f] = merged[f]
    BY <1>18, <1>19, <2>1, Zenon
  <2>3. read = merged
    BY <1>16, <1>20, <2>2, Zenon
  <2> QED BY <1>1, <1>13, <1>15, <1>19, <1>21, <2>3, Zenon
<1>22. CASE m.id \in WithContent
  <2>1. "content" \in Carried(m.id)
    BY <1>22, CarriedFacts, Zenon
  <2>2. PICK content : content = [i \in 1 .. Len(frames) - 1 |-> frames[i + 1].octets]
    OBVIOUS
  <2>3. content = Bodies(m)
    <3>1. PICK bodies, S : bodies = Bodies(m) /\ S = Seq(Octet)
      OBVIOUS
    <3>2. bodies \in Seq(S)
      BY <3>1, FramesAre, Zenon
    <3>3. Len(frames) = 1 + Len(bodies)
      BY <1>1, <3>1, FramesAre, Zenon
    <3>4. Len(frames) - 1 = Len(bodies) /\ bodies = [i \in 1 .. Len(bodies) |-> bodies[i]]
      BY ONLY <3>2, <3>3
    <3>5. \A i \in 1 .. Len(bodies) : frames[i + 1].octets = bodies[i]
      BY <1>1, <3>1, FramesAre, Zenon
    <3>6. content = [i \in 1 .. Len(bodies) |-> bodies[i]]
      BY <2>2, <3>4, <3>5, Zenon
    <3> QED BY <3>1, <3>4, <3>6, Zenon
  <2>4. Bodies(m) = Content(m)
    BY <1>22, Zenon DEF Bodies, Content
  <2>5. PICK full : full = [read EXCEPT !.content = content]
    OBVIOUS
  <2>6. \A f \in ProtoFields : full[f] = IF f = "content" THEN content ELSE read[f]
    BY <1>16, <2>5, Zenon
  <2>7. DOMAIN full = ProtoFields /\ full = [f \in ProtoFields |-> full[f]]
    BY <1>16, <2>5, Zenon
  <2>8. merged["content"] = Content(m)
    BY <1>19, <2>1, FieldsAre, Zenon DEF Merged
  <2>9. \A f \in ProtoFields : full[f] = merged[f]
    BY <1>18, <1>19, <2>3, <2>4, <2>6, <2>8, Zenon
  <2>10. full = merged
    BY <1>20, <2>7, <2>9, Zenon
  <2>11. [got EXCEPT !.o.content = content] = Reading(full, <<>>)
    BY <1>13, <2>5, ContentSet
  <2> QED BY <1>1, <1>15, <1>19, <1>22, <2>2, <2>10, <2>11, Zenon
<1> QED BY <1>21, <1>22

-----------------------------------------------------------------------------
\* The text form

TextForm(id) == ZplOfStreams(id) \cup ZplOfMail(id) \cup ZplOfReplies(id)

\* What the text form writes and what it requires is what the message carries.
LEMMA TablesAgree ==
  ASSUME NEW id \in Range(Id)
  PROVE  TextForm(id) = Carried(id) /\ Required(id) = Carried(id)
<1>1. CASE id = "CONNECTION OPEN"
  <2>1. TextForm(id) = Carried(id)
    BY <1>1, Zenon DEF TextForm, ZplOfStreams, ZplOfMail, ZplOfReplies, Carried
  <2>2. Required(id) = Carried(id)
    BY <1>1, Zenon DEF Required, FromZplStreams, FromZplMailbox,
          FromZplService, FromZplReplies, Carried
  <2> QED BY <2>1, <2>2
<1>2. CASE id = "CONNECTION PING"
  <2>1. TextForm(id) = Carried(id)
    BY <1>2, Zenon DEF TextForm, ZplOfStreams, ZplOfMail, ZplOfReplies, Carried
  <2>2. Required(id) = Carried(id)
    BY <1>2, Zenon DEF Required, FromZplStreams, FromZplMailbox,
          FromZplService, FromZplReplies, Carried
  <2> QED BY <2>1, <2>2
<1>3. CASE id = "CONNECTION PONG"
  <2>1. TextForm(id) = Carried(id)
    BY <1>3, Zenon DEF TextForm, ZplOfStreams, ZplOfMail, ZplOfReplies, Carried
  <2>2. Required(id) = Carried(id)
    BY <1>3, Zenon DEF Required, FromZplStreams, FromZplMailbox,
          FromZplService, FromZplReplies, Carried
  <2> QED BY <2>1, <2>2
<1>4. CASE id = "CONNECTION CLOSE"
  <2>1. TextForm(id) = Carried(id)
    BY <1>4, Zenon DEF TextForm, ZplOfStreams, ZplOfMail, ZplOfReplies, Carried
  <2>2. Required(id) = Carried(id)
    BY <1>4, Zenon DEF Required, FromZplStreams, FromZplMailbox,
          FromZplService, FromZplReplies, Carried
  <2> QED BY <2>1, <2>2
<1>5. CASE id = "STREAM WRITE"
  <2>1. TextForm(id) = Carried(id)
    BY <1>5, Zenon DEF TextForm, ZplOfStreams, ZplOfMail, ZplOfReplies, Carried
  <2>2. Required(id) = Carried(id)
    BY <1>5, Zenon DEF Required, FromZplStreams, FromZplMailbox,
          FromZplService, FromZplReplies, Carried
  <2> QED BY <2>1, <2>2
<1>6. CASE id = "STREAM CANCEL"
  <2>1. TextForm(id) = Carried(id)
    BY <1>6, Zenon DEF TextForm, ZplOfStreams, ZplOfMail, ZplOfReplies, Carried
  <2>2. Required(id) = Carried(id)
    BY <1>6, Zenon DEF Required, FromZplStreams, FromZplMailbox,
          FromZplService, FromZplReplies, Carried
  <2> QED BY <2>1, <2>2
<1>7. CASE id = "STREAM READ"
  <2>1. TextForm(id) = Carried(id)
    BY <1>7, Zenon DEF TextForm, ZplOfStreams, ZplOfMail, ZplOfReplies, Carried
  <2>2. Required(id) = Carried(id)
    BY <1>7, Zenon DEF Required, FromZplStreams, FromZplMailbox,
          FromZplService, FromZplReplies, Carried
  <2> QED BY <2>1, <2>2
<1>8. CASE id = "STREAM SEND"
  <2>1. TextForm(id) = Carried(id)
    BY <1>8, Zenon DEF TextForm, ZplOfStreams, ZplOfMail, ZplOfReplies, Carried
  <2>2. Required(id) = Carried(id)
    BY <1>8, Zenon DEF Required, FromZplStreams, FromZplMailbox,
          FromZplService, FromZplReplies, Carried
  <2> QED BY <2>1, <2>2
<1>9. CASE id = "STREAM DELIVER"
  <2>1. TextForm(id) = Carried(id)
    BY <1>9, Zenon DEF TextForm, ZplOfStreams, ZplOfMail, ZplOfReplies, Carried
  <2>2. Required(id) = Carried(id)
    BY <1>9, Zenon DEF Required, FromZplStreams, FromZplMailbox,
          FromZplService, FromZplReplies, Carried
  <2> QED BY <2>1, <2>2
<1>10. CASE id = "MAILBOX SEND"
  <2>1. TextForm(id) = Carried(id)
    BY <1>10, Zenon DEF TextForm, ZplOfStreams, ZplOfMail, ZplOfReplies, Carried
  <2>2. Required(id) = Carried(id)
    BY <1>10, Zenon DEF Required, FromZplStreams, FromZplMailbox,
          FromZplService, FromZplReplies, Carried
  <2> QED BY <2>1, <2>2
<1>11. CASE id = "SERVICE SEND"
  <2>1. TextForm(id) = Carried(id)
    BY <1>11, Zenon DEF TextForm, ZplOfStreams, ZplOfMail, ZplOfReplies, Carried
  <2>2. Required(id) = Carried(id)
    BY <1>11, Zenon DEF Required, FromZplStreams, FromZplMailbox,
          FromZplService, FromZplReplies, Carried
  <2> QED BY <2>1, <2>2
<1>12. CASE id = "MAILBOX DELIVER"
  <2>1. TextForm(id) = Carried(id)
    BY <1>12, Zenon DEF TextForm, ZplOfStreams, ZplOfMail, ZplOfReplies, Carried
  <2>2. Required(id) = Carried(id)
    BY <1>12, Zenon DEF Required, FromZplStreams, FromZplMailbox,
          FromZplService, FromZplReplies, Carried
  <2> QED BY <2>1, <2>2
<1>13. CASE id = "SERVICE DELIVER"
  <2>1. TextForm(id) = Carried(id)
    BY <1>13, Zenon DEF TextForm, ZplOfStreams, ZplOfMail, ZplOfReplies, Carried
  <2>2. Required(id) = Carried(id)
    BY <1>13, Zenon DEF Required, FromZplStreams, FromZplMailbox,
          FromZplService, FromZplReplies, Carried
  <2> QED BY <2>1, <2>2
<1>14. CASE id = "SERVICE OFFER"
  <2>1. TextForm(id) = Carried(id)
    BY <1>14, Zenon DEF TextForm, ZplOfStreams, ZplOfMail, ZplOfReplies, Carried
  <2>2. Required(id) = Carried(id)
    BY <1>14, Zenon DEF Required, FromZplStreams, FromZplMailbox,
          FromZplService, FromZplReplies, Carried
  <2> QED BY <2>1, <2>2
<1>15. CASE id = "OK"
  <2>1. TextForm(id) = Carried(id)
    BY <1>15, Zenon DEF TextForm, ZplOfStreams, ZplOfMail, ZplOfReplies, Carried
  <2>2. Required(id) = Carried(id)
    BY <1>15, Zenon DEF Required, FromZplStreams, FromZplMailbox,
          FromZplService, FromZplReplies, Carried
  <2> QED BY <2>1, <2>2
<1>16. CASE id = "ERROR"
  <2>1. TextForm(id) = Carried(id)
    BY <1>16, Zenon DEF TextForm, ZplOfStreams, ZplOfMail, ZplOfReplies, Carried
  <2>2. Required(id) = Carried(id)
    BY <1>16, Zenon DEF Required, FromZplStreams, FromZplMailbox,
          FromZplService, FromZplReplies, Carried
  <2> QED BY <2>1, <2>2
<1>17. CASE id = "CREDIT"
  <2>1. TextForm(id) = Carried(id)
    BY <1>17, Zenon DEF TextForm, ZplOfStreams, ZplOfMail, ZplOfReplies, Carried
  <2>2. Required(id) = Carried(id)
    BY <1>17, Zenon DEF Required, FromZplStreams, FromZplMailbox,
          FromZplService, FromZplReplies, Carried
  <2> QED BY <2>1, <2>2
<1>18. CASE id = "CONFIRM"
  <2>1. TextForm(id) = Carried(id)
    BY <1>18, Zenon DEF TextForm, ZplOfStreams, ZplOfMail, ZplOfReplies, Carried
  <2>2. Required(id) = Carried(id)
    BY <1>18, Zenon DEF Required, FromZplStreams, FromZplMailbox,
          FromZplService, FromZplReplies, Carried
  <2> QED BY <2>1, <2>2
<1> QED BY <1>1, <1>2, <1>3, <1>4, <1>5, <1>6, <1>7, <1>8, <1>9,
          <1>10, <1>11, <1>12, <1>13, <1>14, <1>15, <1>16, <1>17, <1>18, IdsAre, Zenon

\* What the text form gives back is the message.
LEMMA TextFormKeeps ==
  ASSUME NEW m \in Object, m.id \in Range(Id)
  PROVE  /\ Complete(Zpl(m))
         /\ \A f \in Carried(m.id) \cup {"id", "routing_id"} : FromZpl(Zpl(m))[f] = m[f]
<1>1. PICK routing : routing = IF m.routing_id = NoRoute THEN {} ELSE {"routing_id"}
  OBVIOUS
<1>2. PICK fields : fields = Carried(m.id)
  OBVIOUS
<1>3. TextForm(m.id) = fields /\ Required(m.id) = fields
  BY <1>2, TablesAgree, Zenon
<1>4. PICK zpl : zpl = [f \in {"id"} \cup routing \cup fields |-> m[f]]
  OBVIOUS
<1>5. zpl = Zpl(m)
  BY <1>1, <1>3, <1>4, Zenon DEF Zpl, TextForm
<1>6. DOMAIN zpl = {"id"} \cup routing \cup fields
      /\ \A f \in {"id"} \cup routing \cup fields : zpl[f] = m[f]
  BY <1>4, Zenon
<1>7. zpl.id = m.id
  BY <1>6, Zenon
<1>8. Complete(zpl)
  BY <1>3, <1>6, <1>7, Zenon DEF Complete
<1>9. PICK read : read = Required(zpl.id) \cup {"id"} \cup ({"routing_id"} \cap DOMAIN zpl)
  OBVIOUS
<1>10. FromZpl(zpl) = [f \in DOMAIN NewProto |-> IF f \in read THEN zpl[f] ELSE NewProto[f]]
  BY <1>8, <1>9, Zenon DEF FromZpl
<1>11. DOMAIN NewProto = ProtoFields
  BY NewProtoIsObject, ObjectFields, Zenon
<1>12. \A f \in ProtoFields :
         FromZpl(zpl)[f] = IF f \in read THEN zpl[f] ELSE NewProto[f]
  BY <1>10, <1>11, Zenon
<1>13. fields \subseteq ProtoFields /\ "id" \in ProtoFields /\ "routing_id" \in ProtoFields
  BY <1>2, CarriedFacts, FieldsAre, Zenon
<1>14. fields \cup {"id"} \subseteq read
  BY <1>3, <1>7, <1>9, Zenon
<1>15. \A f \in fields \cup {"id"} : FromZpl(zpl)[f] = m[f]
  BY <1>6, <1>12, <1>13, <1>14, Zenon
<1>16. FromZpl(zpl)["routing_id"] = m.routing_id
  <2>1. CASE m.routing_id = NoRoute
    <3>1. CASE "routing_id" \in read
      <4>1. "routing_id" \in {"id"} \cup routing \cup fields
        BY <1>3, <1>6, <1>7, <1>9, <3>1, Zenon
      <4> QED BY <1>6, <1>12, <1>13, <3>1, <4>1, Zenon
    <3>2. CASE "routing_id" \notin read
      <4>1. NewProto.routing_id = NULL
        <5>1. "routing_id" \in ProtoFields
          BY <1>13, Zenon
        <5>2. "routing_id" \notin TextFields /\ "routing_id" \notin NumberFields
          BY DEF TextFields, NumberFields
        <5> QED BY <5>1, <5>2, Zenon DEF NewProto, ProtoFields
      <4> QED BY <1>12, <1>13, <2>1, <3>2, <4>1, Zenon DEF NoRoute
    <3> QED BY <3>1, <3>2
  <2>2. CASE m.routing_id # NoRoute
    <3>1. "routing_id" \in DOMAIN zpl
      BY <1>1, <1>6, <2>2, Zenon
    <3> QED BY <1>6, <1>9, <1>12, <1>13, <3>1, Zenon
  <2> QED BY <2>1, <2>2
<1> QED BY <1>2, <1>5, <1>8, <1>15, <1>16, Zenon

\* A copy is the object itself.
LEMMA DupIsSame ==
  ASSUME NEW m \in Object
  PROVE  Dup(m) = m
<1>1. \A f \in TextFields : Fitting(m[f]) = m[f]
  <2> SUFFICES ASSUME NEW f \in TextFields PROVE Fitting(m[f]) = m[f]
    OBVIOUS
  <2>1. PICK text : text = m[f]
    OBVIOUS
  <2>2. text \in Seq(Octet) /\ Len(text) <= 255
    BY <2>1, ObjectFields, Zenon DEF IsText
  <2>3. ~ (Len(text) > 255)
    BY <2>2
  <2> QED BY <2>1, <2>3, Zenon DEF Fitting
<1>2. PICK a, b, c, d, e, f, g :
        /\ a = m.address /\ b = m.stream /\ c = m.pattern /\ d = m.subject
        /\ e = m.sender /\ f = m.tracker /\ g = m.status_reason
  OBVIOUS
<1>3. /\ Fitting(m.address) = a /\ Fitting(m.stream) = b /\ Fitting(m.pattern) = c
      /\ Fitting(m.subject) = d /\ Fitting(m.sender) = e /\ Fitting(m.tracker) = f
      /\ Fitting(m.status_reason) = g
  BY <1>1, <1>2, TextNames, Zenon
<1>4. PICK copy : copy = [m EXCEPT !.address = a, !.stream = b, !.pattern = c, !.subject = d,
                                   !.sender = e, !.tracker = f, !.status_reason = g]
  OBVIOUS
<1>5. copy = Dup(m)
  BY <1>3, <1>4, Zenon DEF Dup
<1>6. DOMAIN m = ProtoFields /\ m = [h \in ProtoFields |-> m[h]]
  BY ObjectFields, Zenon
<1>7. copy = m
  BY ONLY <1>2, <1>4, <1>6
<1> QED BY <1>5, <1>7, Zenon

-----------------------------------------------------------------------------
\* Sending and receiving

LEMMA AsMessageIsObject ==
  ASSUME server \in Object, NEW m \in AsMessage
  PROVE  m \in Object /\ m.id \in Range(Id)
<1>1. PICK id \in Range(Id) : m = With(server, "id", id)
  BY Zenon DEF AsMessage, With
<1>2. "id" \in ProtoFields /\ id \in Held("id")
  BY FieldsAre, Zenon
<1>3. /\ With(server, "id", id) \in Object
      /\ \A g \in ProtoFields : With(server, "id", id)[g] = IF g = "id" THEN id ELSE server[g]
  BY <1>2, ObjectSet, ZenonT(30)
<1> QED BY <1>1, <1>2, <1>3, Zenon

LEMMA RoundTripHolds ==
  ASSUME server \in Object, proto \in [Client -> Object]
  PROVE  RoundTrip
<1>1. ASSUME NEW m \in AsMessage, NEW r \in Range(proto)
      PROVE  LET got == Receive(r, Frames(m))
                 content == IF m.content = NoContent THEN << <<>> >> ELSE m.content
             IN /\ ~got.malformed /\ got.rest = <<>>
                /\ \A f \in DOMAIN m :
                     got.o[f] = CASE f = "id" -> m.id
                                  [] f = "content" /\ f \in Carried(m.id) -> content
                                  [] f \in Carried(m.id) \ {"content"} -> m[f]
                                  [] OTHER -> r[f]
  <2>1. m \in Object /\ m.id \in Range(Id)
    BY AsMessageIsObject, Zenon
  <2>2. r \in Object
    BY Zenon DEF Range
  <2>3. PICK got : got = Receive(r, Frames(m))
    OBVIOUS
  <2>4. got = Reading(Merged(m, r), <<>>)
    BY <2>1, <2>2, <2>3, ReceivedIs, Zenon
  <2>5. ~got.malformed /\ got.rest = <<>> /\ got.o = Merged(m, r)
    BY <2>4, Zenon DEF Reading
  <2>6. DOMAIN m = ProtoFields
    BY <2>1, ObjectFields, Zenon
  <2>7. ASSUME NEW f \in ProtoFields
        PROVE  Merged(m, r)[f] = CASE f = "id" -> m.id
                                   [] f = "content" /\ f \in Carried(m.id) ->
                                        IF m.content = NoContent THEN << <<>> >> ELSE m.content
                                   [] f \in Carried(m.id) \ {"content"} -> m[f]
                                   [] OTHER -> r[f]
    BY Zenon DEF Merged, Content
  <2> QED BY <2>3, <2>5, <2>6, <2>7, Zenon
<1>2. ASSUME NEW m \in AsMessage
      PROVE  /\ Dup(m) = m /\ Complete(Zpl(m))
             /\ \A f \in Carried(m.id) \cup {"id", "routing_id"} : FromZpl(Zpl(m))[f] = m[f]
  <2>1. m \in Object /\ m.id \in Range(Id)
    BY AsMessageIsObject, Zenon
  <2> QED BY <2>1, DupIsSame, TextFormKeeps, Zenon
<1> QED BY <1>1, <1>2, Zenon DEF RoundTrip

LEMMA ExactFitHolds ==
  ASSUME server \in Object
  PROVE  ExactFit
<1> SUFFICES ASSUME NEW m \in AsMessage
             PROVE  /\ Len(Frames(m)[1].octets) = FrameSize(m)
                    /\ \A i \in DOMAIN Frames(m) : Frames(m)[i].more <=> i # Len(Frames(m))
  BY Zenon DEF ExactFit
<1>1. m \in Object /\ m.id \in Range(Id)
  BY AsMessageIsObject, Zenon
<1>2. Len(Frames(m)[1].octets) = FrameSize(m)
  BY <1>1, FramesAre, FirstIs, Zenon
<1>3. PICK frames : frames = Frames(m)
  OBVIOUS
<1>4. frames \in Seq(Frame) /\ \A i \in 1 .. Len(frames) : frames[i].more <=> i < Len(frames)
  BY <1>1, <1>3, FramesAre, Zenon
<1>5. DOMAIN frames = 1 .. Len(frames) /\ Len(frames) \in Nat
  BY <1>4
<1>6. ASSUME NEW i \in DOMAIN frames PROVE frames[i].more <=> i # Len(frames)
  <2>1. i < Len(frames) <=> i # Len(frames)
    BY <1>5
  <2> QED BY <1>4, <1>5, <2>1, Zenon
<1> QED BY <1>2, <1>3, <1>6, Zenon

-----------------------------------------------------------------------------
\* Channels

\* The frames of one message: only the last one ends it.
Whole(fs) ==
  /\ fs \in Seq(Frame) /\ Len(fs) >= 1
  /\ \A j \in 1 .. Len(fs) : fs[j].more <=> j < Len(fs)

\* A channel is cut into these messages: it ends where one ends, and wherever one may
\* begin one of them lies.
Begins(channel, i) == i = 1 \/ ~channel[i - 1].more
Lies(channel, i, fs) ==
  /\ i + Len(fs) <= Len(channel) + 1
  /\ \A j \in 1 .. Len(fs) : channel[i + (j - 1)] = fs[j]
Cut(channel, Fs) ==
  /\ channel \in Seq(Frame)
  /\ channel # <<>> => ~channel[Len(channel)].more
  /\ \A i \in 1 .. Len(channel) : Begins(channel, i) => \E fs \in Fs : Lies(channel, i, fs)

LEMMA CutNone ==
  ASSUME NEW Fs
  PROVE  Cut(<<>>, Fs)
<1>1. PICK none : none = <<>>
  OBVIOUS
<1>2. none \in Seq(Frame) /\ Len(none) = 0
  BY <1>1
<1>3. \A i \in 1 .. Len(none) : FALSE
  BY <1>2
<1> QED BY <1>1, <1>2, <1>3, Zenon DEF Cut

LEMMA CutMore ==
  ASSUME NEW Fs, NEW Gs, Fs \subseteq Gs, NEW channel, Cut(channel, Fs)
  PROVE  Cut(channel, Gs)
BY Zenon DEF Cut

\* A message behind the others.
LEMMA CutAppend ==
  ASSUME NEW Fs, \A gs \in Fs : Whole(gs), NEW channel, Cut(channel, Fs), NEW fs \in Fs
  PROVE  Cut(channel \o fs, Fs)
<1>1. channel \in Seq(Frame) /\ fs \in Seq(Frame)
  BY Zenon DEF Cut, Whole
<1>2. PICK k, l : k = Len(channel) /\ l = Len(fs)
  OBVIOUS
<1>3. PICK all : all = channel \o fs
  OBVIOUS
<1>4. k \in Nat /\ l \in Nat /\ l >= 1
  BY <1>1, <1>2 DEF Whole
<1>5. /\ all \in Seq(Frame) /\ Len(all) = k + l
      /\ \A i \in 1 .. k : all[i] = channel[i]
      /\ \A j \in 1 .. l : all[k + j] = fs[j]
  BY <1>1, <1>2, <1>3, JoinEntries
<1>6. \A j \in 1 .. l : fs[j].more <=> j < l
  BY <1>2, Zenon DEF Whole
<1>7. ~all[Len(all)].more
  <2>1. l \in 1 .. l /\ ~ (l < l)
    BY <1>4
  <2> QED BY <1>5, <1>6, <2>1, Zenon
<1>8. ASSUME NEW i \in 1 .. k + l, Begins(all, i)
      PROVE  \E gs \in Fs : Lies(all, i, gs)
  <2>1. CASE i \in 1 .. k
    <3>1. Begins(channel, i)
      <4>1. i = 1 \/ i - 1 \in 1 .. k
        BY <1>4, <2>1
      <4> QED BY <1>5, <1>8, <4>1, Zenon DEF Begins
    <3>2. PICK gs \in Fs : Lies(channel, i, gs)
      BY <1>2, <2>1, <3>1, Zenon DEF Cut
    <3>3. /\ i + Len(gs) <= k + 1
          /\ \A j \in 1 .. Len(gs) : channel[i + (j - 1)] = gs[j]
      BY <1>2, <3>2, Zenon DEF Lies
    <3>4. gs \in Seq(Frame)
      BY Zenon DEF Whole
    <3>5. PICK n \in Nat : n = Len(gs)
      BY <3>4
    <3>6. i + n <= (k + l) + 1
      BY <1>4, <3>3, <3>5
    <3>7. \A j \in 1 .. n : i + (j - 1) \in 1 .. k
      BY <1>4, <2>1, <3>3, <3>5
    <3>8. \A j \in 1 .. n : all[i + (j - 1)] = gs[j]
      BY <1>5, <3>3, <3>5, <3>7, Zenon
    <3> QED BY <1>5, <3>5, <3>6, <3>8, Zenon DEF Lies
  <2>2. CASE i \notin 1 .. k
    <3>1. i = k + 1
      <4>1. SUFFICES ASSUME i # k + 1 PROVE FALSE
        OBVIOUS
      <4>2. PICK j : j = (i - 1) - k
        OBVIOUS
      <4>3. j \in 1 .. l /\ j < l /\ i - 1 = k + j /\ i # 1
        BY <1>4, <2>2, <4>1, <4>2
      <4>4. all[i - 1].more
        BY <1>5, <1>6, <4>3, Zenon
      <4> QED BY <1>8, <4>3, <4>4, Zenon DEF Begins
    <3>2. i + l <= (k + l) + 1
      BY <1>4, <3>1
    <3>3. ASSUME NEW j \in 1 .. l PROVE all[i + (j - 1)] = fs[j]
      <4>1. i + (j - 1) = k + j
        BY <1>4, <3>1
      <4> QED BY <1>5, <4>1, Zenon
    <3> QED BY <1>2, <1>5, <3>2, <3>3, Zenon DEF Lies
  <2> QED BY <2>1, <2>2
<1> QED BY <1>3, <1>5, <1>7, <1>8, Zenon DEF Cut

\* The message at the head is one of them, and the rest is cut as well.
LEMMA CutHead ==
  ASSUME NEW Fs, \A gs \in Fs : Whole(gs), NEW channel, Cut(channel, Fs), HasMessage(channel)
  PROVE  HeadMessage(channel) \in Fs /\ Cut(Rest(channel), Fs)
<1>1. channel \in Seq(Frame)
  BY Zenon DEF Cut
<1>2. PICK k \in Nat : k = Len(channel) /\ DOMAIN channel = 1 .. k
  BY <1>1
<1>3. 1 \in 1 .. k
  BY <1>2 DEF HasMessage
<1>4. PICK fs \in Fs : Lies(channel, 1, fs)
  BY <1>2, <1>3, Zenon DEF Cut, Begins
<1>5. PICK l : l = Len(fs)
  OBVIOUS
<1>6. /\ fs \in Seq(Frame) /\ l \in Nat /\ l >= 1
      /\ \A j \in 1 .. l : fs[j].more <=> j < l
  <2>1. Whole(fs)
    BY Zenon
  <2>2. fs \in Seq(Frame) /\ \A j \in 1 .. l : fs[j].more <=> j < l
    BY <1>5, <2>1, Zenon DEF Whole
  <2>3. l >= 1 /\ l \in Nat
    BY <1>5, <2>1, <2>2 DEF Whole
  <2> QED BY <2>2, <2>3
<1>7. l <= k /\ \A j \in 1 .. l : channel[j] = fs[j]
  <2>1. 1 + l <= k + 1 /\ \A j \in 1 .. l : channel[1 + (j - 1)] = fs[j]
    BY <1>2, <1>4, <1>5, Zenon DEF Lies
  <2>2. \A j \in 1 .. l : 1 + (j - 1) = j
    OBVIOUS
  <2>3. l <= k
    BY <1>6, <2>1
  <2> QED BY <2>1, <2>2, <2>3, Zenon
<1>8. PICK last : last = CHOOSE i \in DOMAIN channel :
                           ~channel[i].more /\ \A j \in 1 .. i - 1 : channel[j].more
  OBVIOUS
<1>9. last = l
  <2>1. l \in 1 .. l /\ ~ (l < l) /\ l \in 1 .. k
    BY <1>6, <1>7
  <2>2. \A j \in 1 .. l - 1 : j \in 1 .. l /\ j < l
    BY <1>6
  <2>3. ~channel[l].more /\ \A j \in 1 .. l - 1 : channel[j].more
    BY <1>6, <1>7, <2>1, <2>2, Zenon
  <2>4. /\ last \in 1 .. k /\ ~channel[last].more
        /\ \A j \in 1 .. last - 1 : channel[j].more
    BY <1>2, <1>8, <2>1, <2>3, Zenon
  <2>5. ~ (last < l)
    <3>1. SUFFICES ASSUME last < l PROVE FALSE
      OBVIOUS
    <3>2. last \in 1 .. l
      BY <1>6, <2>4, <3>1
    <3> QED BY <1>6, <1>7, <2>4, <3>1, <3>2, Zenon
  <2>6. ~ (l < last)
    <3>1. SUFFICES ASSUME l < last PROVE FALSE
      OBVIOUS
    <3>2. l \in 1 .. last - 1
      BY <1>6, <2>4, <3>1
    <3> QED BY <2>3, <2>4, <3>2, Zenon
  <2> QED BY <1>6, <2>4, <2>5, <2>6
<1>10. HeadMessage(channel) = SubSeq(channel, 1, l)
  BY <1>8, <1>9, Zenon DEF HeadMessage
<1>11. SubSeq(channel, 1, l) = fs
  <2>1. PICK head : head = SubSeq(channel, 1, l)
    OBVIOUS
  <2>2. /\ head \in Seq(Frame) /\ Len(head) = l
        /\ \A j \in 1 .. l : head[j] = channel[j]
    BY <1>1, <1>2, <1>6, <1>7, <2>1
  <2>3. \A j \in 1 .. l : head[j] = fs[j]
    BY <1>7, <2>2, Zenon
  <2>4. head = fs
    BY <1>5, <1>6, <2>2, <2>3, SeqEqual, Zenon
  <2> QED BY <2>1, <2>4
<1>12. PICK rest : rest = SubSeq(channel, l + 1, k)
  OBVIOUS
<1>13. rest = Rest(channel)
  BY <1>2, <1>5, <1>10, <1>11, <1>12, Zenon DEF Rest
<1>14. /\ rest \in Seq(Frame) /\ Len(rest) = k - l
       /\ \A i \in 1 .. k - l : rest[i] = channel[l + i]
  BY <1>1, <1>2, <1>6, <1>7, <1>12
<1>15. rest # <<>> => ~rest[Len(rest)].more
  <2> SUFFICES ASSUME rest # <<>> PROVE ~rest[Len(rest)].more
    OBVIOUS
  <2>1. k - l >= 1
    BY <1>14
  <2>2. k - l \in 1 .. k - l /\ l + (k - l) = k /\ k # 0
    BY <1>6, <2>1
  <2>3. channel # <<>>
    BY <1>2, <2>2
  <2>4. ~channel[k].more
    BY <1>2, <2>3, Zenon DEF Cut
  <2> QED BY <1>14, <2>2, <2>4, Zenon
<1>16. ASSUME NEW i \in 1 .. k - l, Begins(rest, i)
       PROVE  \E gs \in Fs : Lies(rest, i, gs)
  <2>1. l + i \in 1 .. k
    BY <1>6
  <2>2. Begins(channel, l + i)
    <3>1. CASE i = 1
      <4>1. (l + i) - 1 = l /\ l \in 1 .. l /\ ~ (l < l)
        BY <1>6, <3>1
      <4> QED BY <1>6, <1>7, <4>1, Zenon DEF Begins
    <3>2. CASE i # 1
      <4>1. i - 1 \in 1 .. k - l /\ l + (i - 1) = (l + i) - 1
        BY <1>6, <3>2
      <4>2. ~rest[i - 1].more
        BY <1>16, <3>2, Zenon DEF Begins
      <4> QED BY <1>14, <4>1, <4>2, Zenon DEF Begins
    <3> QED BY <3>1, <3>2
  <2>3. PICK gs \in Fs : Lies(channel, l + i, gs)
    BY <1>2, <2>1, <2>2, Zenon DEF Cut
  <2>4. gs \in Seq(Frame)
    BY Zenon DEF Whole
  <2>5. PICK n \in Nat : n = Len(gs)
    BY <2>4
  <2>6. /\ (l + i) + n <= k + 1
        /\ \A j \in 1 .. n : channel[(l + i) + (j - 1)] = gs[j]
    BY <1>2, <2>3, <2>5, Zenon DEF Lies
  <2>7. i + n <= (k - l) + 1
    BY <1>6, <2>6
  <2>8. \A j \in 1 .. n : i + (j - 1) \in 1 .. k - l /\ l + (i + (j - 1)) = (l + i) + (j - 1)
    BY <1>6, <2>7
  <2>9. \A j \in 1 .. n : rest[i + (j - 1)] = gs[j]
    BY <1>14, <2>6, <2>8, Zenon
  <2> QED BY <1>14, <2>5, <2>7, <2>9, Zenon DEF Lies
<1>17. Cut(rest, Fs)
  BY <1>14, <1>15, <1>16, Zenon DEF Cut
<1> QED BY <1>4, <1>10, <1>11, <1>13, <1>17, Zenon

-----------------------------------------------------------------------------
\* Letters on their way

\* What was sent so far: who sent the letter, how, and to which address.
Posts == {"STREAM SEND", "MAILBOX SEND", "SERVICE SEND"}
Post ==
  {p \in [from : Client, id : Posts, address : Texts] :
     p.id = "STREAM SEND" => p.address = StreamName}
History == {ls \in Seq(Post) : Len(ls) <= Len(Letter)}

\* An object or a delivery that has letter n, a client that may have it.
Bears(ls, r, n) ==
  /\ r.id = DeliverOf(ls[n].id)
  /\ r.sender = AddressOf[ls[n].from] /\ r.address = ls[n].address
  /\ r.subject = Letter[n].subject /\ r.content = Letter[n].content
MayHave(ls, c, n) ==
  /\ ls[n].id = "MAILBOX SEND" => AddressOf[c] = ls[n].address
  /\ ls[n].id = "STREAM SEND" => c # ls[n].from
Kept(ls, c, r) == \E n \in DOMAIN ls : Bears(ls, r, n) /\ MayHave(ls, c, n)

\* The command by which client c sends letter n.
Asks(ls, c, m, n) ==
  /\ ls[n].from = c /\ ls[n].id = m.id
  /\ m.subject = Letter[n].subject /\ m.content = Letter[n].content
  /\ m.id # "STREAM SEND" => m.address = ls[n].address

\* The messages on the way from client c, and to it.
Ups(ls, c) ==
  {m \in Object :
     /\ m.id \in Range(Id)
     /\ m.id = "CONNECTION OPEN" => m.address = AddressOf[c]
     /\ m.id \in Posts => \E n \in DOMAIN ls : Asks(ls, c, m, n)}
Downs(ls, c) ==
  {m \in Object : m.id \in Range(Id) /\ (m.id \in Delivers => Kept(ls, c, m))}
FramesOf(ms) == {Frames(m) : m \in ms}

\* Letter n as the broker keeps it.
Mail(ls, n, tracker) ==
  [sender |-> AddressOf[ls[n].from], address |-> ls[n].address,
   subject |-> Letter[n].subject, tracker |-> tracker, content |-> Letter[n].content]
Trackers == Texts \cup {NoText}
Mails(ls, id) == {Mail(ls, n, t) : n \in {k \in DOMAIN ls : ls[k].id = id}, t \in Trackers}
Traffic(ls) ==
  {item \in [client : Client \cup {NoRoute}, msg : Mails(ls, "STREAM SEND")] :
     item.client # NoRoute => AddressOf[item.client] # item.msg.sender}

\* What an application may have received.
Arrived(ls, c) == {Passed(o) : o \in {r \in Object : Kept(ls, c, r)}}

LEMMA NullFacts == NULL \notin Texts /\ NULL \notin Seq(Seq(Octet)) /\ NULL \notin Client
BY NullAssumption, ClientAssumption, Zenon DEF Texts, NoRoute

LEMMA TextFacts ==
  ASSUME NEW text \in Texts
  PROVE  Fitting(text) = text /\ text # NoText /\ text \in Seq(Octet)
<1>1. text \in Seq(Octet) /\ Len(text) <= 255
  BY Zenon DEF Texts, IsText
<1>2. ~ (Len(text) > 255)
  BY <1>1
<1> QED BY <1>1, <1>2, NullFacts, Zenon DEF Fitting, NoText

LEMMA NamesAreTexts ==
  /\ \A c \in Client : AddressOf[c] \in Texts
  /\ StreamName \in Texts /\ ServiceName \in Texts /\ EmptyPattern \in Texts
BY NameAssumption, Zenon DEF Texts, IsText

WrittenLetters ==
  [subject : Seq(Octet), tracker : Seq(Octet), timeout : Nat, content : Seq(Seq(Octet))]

Timely(n) == n \div 16777216 <= 255

LEMMA LettersAre ==
  /\ Letter \in Seq(WrittenLetters)
  /\ \A n \in DOMAIN Letter :
       IsText(Letter[n].subject) /\ IsText(Letter[n].tracker) /\ Timely(Letter[n].timeout)
BY LetterAssumption, SMT DEF WrittenLetters, Timely

LEMMA TimelyIs ==
  ASSUME NEW n \in Nat, Timely(n)
  PROVE  n \in Number32
BY SMT DEF Timely, Number32

LEMMA LetterFacts ==
  ASSUME NEW n \in DOMAIN Letter
  PROVE  /\ Letter[n].subject \in Texts /\ Letter[n].tracker \in Texts
         /\ Letter[n].timeout \in Number32
         /\ Letter[n].content \in Seq(Seq(Octet)) /\ Letter[n].content # NoContent
<1>1. PICK S : S = WrittenLetters
  OBVIOUS
<1>2. Letter \in Seq(S)
  BY <1>1, LettersAre, Zenon
<1>3. Letter[n] \in S
  BY <1>2
<1>4. PICK letter : letter = Letter[n]
  OBVIOUS
<1>5. /\ letter.subject \in Seq(Octet) /\ letter.tracker \in Seq(Octet)
      /\ letter.timeout \in Nat /\ letter.content \in Seq(Seq(Octet))
  BY <1>1, <1>3, <1>4, Zenon DEF WrittenLetters
<1>6. IsText(letter.subject) /\ IsText(letter.tracker) /\ Timely(letter.timeout)
  BY <1>4, LettersAre, Zenon
<1>7. letter.timeout \in Number32
  BY <1>5, <1>6, TimelyIs, Zenon
<1>8. letter.subject \in Texts /\ letter.tracker \in Texts
  BY <1>5, <1>6, Zenon DEF Texts
<1>9. letter.content # NoContent
  BY <1>5, NullFacts, Zenon DEF NoContent
<1> QED BY <1>4, <1>5, <1>7, <1>8, <1>9, Zenon

LEMMA HistoryFacts ==
  ASSUME NEW ls \in History, NEW n \in DOMAIN ls
  PROVE  /\ n \in DOMAIN Letter
         /\ ls[n].from \in Client /\ ls[n].id \in Posts /\ ls[n].address \in Texts
         /\ ls[n].id = "STREAM SEND" => ls[n].address = StreamName
<1>1. PICK S, P : S = WrittenLetters /\ P = Post
  OBVIOUS
<1>2. Letter \in Seq(S) /\ ls \in Seq(P) /\ Len(ls) <= Len(Letter)
  BY <1>1, LettersAre, Zenon DEF History
<1>3. n \in DOMAIN Letter /\ ls[n] \in P
  BY <1>2
<1> QED BY <1>1, <1>3, Zenon DEF Post

LEMMA DeliverIds ==
  /\ DeliverOf("STREAM SEND") = "STREAM DELIVER"
  /\ DeliverOf("MAILBOX SEND") = "MAILBOX DELIVER"
  /\ DeliverOf("SERVICE SEND") = "SERVICE DELIVER"
  /\ Posts \subseteq WithContent /\ Delivers \subseteq WithContent
  /\ WithContent \subseteq Range(Id) /\ "OK" \in Range(Id) /\ "ERROR" \in Range(Id)
  /\ "OK" \notin Delivers /\ "ERROR" \notin Delivers
  /\ \A id \in Posts : DeliverOf(id) \in Delivers
BY IdsAre, Zenon DEF DeliverOf, Posts, WithContent, Delivers

LEMMA MailHas ==
  ASSUME NEW ls, NEW id, NEW msg \in Mails(ls, id)
  PROVE  \E n \in DOMAIN ls : ls[n].id = id /\ \E t \in Trackers : msg = Mail(ls, n, t)
BY SMT DEF Mails

LEMMA MailIs ==
  ASSUME NEW ls, NEW n \in DOMAIN ls, NEW t \in Trackers
  PROVE  Mail(ls, n, t) \in Mails(ls, ls[n].id)
BY SMT DEF Mails

\* More was sent.
Extends(ls, more) == \A n \in DOMAIN ls : n \in DOMAIN more /\ more[n] = ls[n]

LEMMA AllGrow ==
  ASSUME NEW ls, NEW more, Extends(ls, more)
  PROVE  /\ \A c : Ups(ls, c) \subseteq Ups(more, c) /\ Downs(ls, c) \subseteq Downs(more, c)
         /\ \A id : Mails(ls, id) \subseteq Mails(more, id)
         /\ Traffic(ls) \subseteq Traffic(more)
         /\ \A c : Arrived(ls, c) \subseteq Arrived(more, c)
<1>1. ASSUME NEW c, NEW r, Kept(ls, c, r) PROVE Kept(more, c, r)
  BY <1>1, Zenon DEF Kept, Bears, MayHave, Extends
<1>2. ASSUME NEW c, NEW m \in Ups(ls, c) PROVE m \in Ups(more, c)
  BY <1>2, Zenon DEF Ups, Asks, Extends
<1>3. ASSUME NEW c, NEW m \in Downs(ls, c) PROVE m \in Downs(more, c)
  BY <1>1, <1>3, Zenon DEF Downs
<1>4. ASSUME NEW id, NEW msg \in Mails(ls, id) PROVE msg \in Mails(more, id)
  <2>0. PICK n \in DOMAIN ls : ls[n].id = id /\ \E t \in Trackers : msg = Mail(ls, n, t)
    BY ONLY MailHas, msg \in Mails(ls, id)
  <2>1. PICK t \in Trackers : msg = Mail(ls, n, t)
    BY <2>0, Zenon
  <2>2. n \in DOMAIN more /\ more[n] = ls[n]
    BY Zenon DEF Extends
  <2>3. Mail(more, n, t) = Mail(ls, n, t)
    BY <2>2, Zenon DEF Mail
  <2>4. Mail(more, n, t) \in Mails(more, more[n].id)
    BY <2>2, MailIs, Zenon
  <2> QED BY <2>0, <2>1, <2>2, <2>3, <2>4, Zenon
<1>5. ASSUME NEW item \in Traffic(ls) PROVE item \in Traffic(more)
  <2>1. PICK S, R, C : /\ S = Mails(ls, "STREAM SEND") /\ R = Mails(more, "STREAM SEND")
                       /\ C = Client \cup {NoRoute}
    OBVIOUS
  <2>2. item \in [client : C, msg : S] /\ S \subseteq R
    BY <1>4, <2>1, Zenon DEF Traffic
  <2>3. item \in [client : C, msg : R]
    BY ONLY <2>2
  <2> QED BY <2>1, <2>3, Zenon DEF Traffic
<1>6. ASSUME NEW c, NEW r \in Arrived(ls, c) PROVE r \in Arrived(more, c)
  BY <1>1, <1>6, Zenon DEF Arrived
<1> QED BY <1>2, <1>3, <1>4, <1>5, <1>6, Zenon

LEMMA MessagesAreWhole ==
  ASSUME NEW ms, \A m \in ms : m \in Object /\ m.id \in Range(Id)
  PROVE  \A fs \in FramesOf(ms) : Whole(fs)
<1> SUFFICES ASSUME NEW m \in ms PROVE Whole(Frames(m))
  BY Zenon DEF FramesOf
<1>1. PICK fs, k : fs = Frames(m) /\ k = Len(Bodies(m))
  OBVIOUS
<1>2. /\ Bodies(m) \in Seq(Seq(Octet)) /\ fs \in Seq(Frame) /\ Len(fs) = 1 + k
      /\ \A i \in 1 .. Len(fs) : fs[i].more <=> i < Len(fs)
  BY <1>1, FramesAre, Zenon
<1>3. k \in Nat
  BY <1>1, <1>2
<1>4. Len(fs) >= 1
  BY <1>2, <1>3
<1> QED BY <1>1, <1>2, <1>4, Zenon DEF Whole

LEMMA ChannelsAreWhole ==
  ASSUME NEW ls, NEW c
  PROVE  /\ \A fs \in FramesOf(Ups(ls, c)) : Whole(fs)
         /\ \A fs \in FramesOf(Downs(ls, c)) : Whole(fs)
<1>1. \A m \in Ups(ls, c) : m \in Object /\ m.id \in Range(Id)
  BY Zenon DEF Ups
<1>2. \A m \in Downs(ls, c) : m \in Object /\ m.id \in Range(Id)
  BY Zenon DEF Downs
<1> QED BY <1>1, <1>2, MessagesAreWhole, Zenon

-----------------------------------------------------------------------------
\* What the broker says

\* The channels to the clients.
Wires(ls) ==
  {w \in [Client -> Seq(Frame)] : \A c \in Client : Cut(w[c], FramesOf(Downs(ls, c)))}

Speech(o, d, f) == [o |-> o, down |-> d, offers |-> f]
Speeches(ls) == {Speech(o, d, f) : o \in Object, d \in Wires(ls), f \in Seq(Client)}

LEMMA SpeechFields ==
  ASSUME NEW r, r = [f \in DOMAIN r |-> r[f]], DOMAIN r = {"o", "down", "offers"},
         NEW o, r.o = o, NEW d, r.down = d, NEW f, r.offers = f
  PROVE  r = Speech(o, d, f)
BY DEF Speech

LEMMA SpeechIs ==
  ASSUME NEW o, NEW d, NEW f
  PROVE  /\ Speech(o, d, f).o = o /\ Speech(o, d, f).down = d /\ Speech(o, d, f).offers = f
         /\ Speech(o, d, f) = [h \in DOMAIN Speech(o, d, f) |-> Speech(o, d, f)[h]]
         /\ DOMAIN Speech(o, d, f) = {"o", "down", "offers"}
BY DEF Speech

Holding(s, p) == [s EXCEPT !.o = p]
Sending(s, p, e) == [s EXCEPT !.o = p, !.down = e]
Offering(s, g) == [s EXCEPT !.offers = g]

LEMMA SpeechHeld ==
  ASSUME NEW o, NEW d, NEW f, NEW p
  PROVE  Holding(Speech(o, d, f), p) = Speech(p, d, f)
<1>1. PICK r : r = Speech(o, d, f)
  OBVIOUS
<1>2. /\ r = [h \in DOMAIN r |-> r[h]] /\ DOMAIN r = {"o", "down", "offers"}
      /\ r.o = o /\ r.down = d /\ r.offers = f
  BY <1>1, SpeechIs
<1>3. PICK s : s = [r EXCEPT !.o = p]
  OBVIOUS
<1>4. /\ s = [h \in DOMAIN s |-> s[h]] /\ DOMAIN s = {"o", "down", "offers"}
      /\ s.o = p /\ s.down = d /\ s.offers = f
  BY ONLY <1>2, <1>3
<1>5. s = Speech(p, d, f)
  BY ONLY <1>4, SpeechFields
<1> QED BY <1>1, <1>3, <1>5, Zenon DEF Holding, Sending, Offering

LEMMA SpeechSent ==
  ASSUME NEW o, NEW d, NEW f, NEW p, NEW e
  PROVE  Sending(Speech(o, d, f), p, e) = Speech(p, e, f)
<1>1. PICK r : r = Speech(o, d, f)
  OBVIOUS
<1>2. /\ r = [h \in DOMAIN r |-> r[h]] /\ DOMAIN r = {"o", "down", "offers"}
      /\ r.o = o /\ r.down = d /\ r.offers = f
  BY <1>1, SpeechIs
<1>3. PICK s : s = [r EXCEPT !.o = p, !.down = e]
  OBVIOUS
<1>4. /\ s = [h \in DOMAIN s |-> s[h]] /\ DOMAIN s = {"o", "down", "offers"}
      /\ s.o = p /\ s.down = e /\ s.offers = f
  BY ONLY <1>2, <1>3
<1>5. s = Speech(p, e, f)
  BY ONLY <1>4, SpeechFields
<1> QED BY <1>1, <1>3, <1>5, Zenon DEF Holding, Sending, Offering

LEMMA SpeechOffered ==
  ASSUME NEW o, NEW d, NEW f, NEW g
  PROVE  Offering(Speech(o, d, f), g) = Speech(o, d, g)
<1>1. PICK r : r = Speech(o, d, f)
  OBVIOUS
<1>2. /\ r = [h \in DOMAIN r |-> r[h]] /\ DOMAIN r = {"o", "down", "offers"}
      /\ r.o = o /\ r.down = d /\ r.offers = f
  BY <1>1, SpeechIs
<1>3. PICK s : s = [r EXCEPT !.offers = g]
  OBVIOUS
<1>4. /\ s = [h \in DOMAIN s |-> s[h]] /\ DOMAIN s = {"o", "down", "offers"}
      /\ s.o = o /\ s.down = d /\ s.offers = g
  BY ONLY <1>2, <1>3
<1>5. s = Speech(o, d, g)
  BY ONLY <1>4, SpeechFields
<1> QED BY <1>1, <1>3, <1>5, Zenon DEF Holding, Sending, Offering

\* An object that is sent to client c.
Addressed(o, id, c) == With(With(o, "id", id), "routing_id", c)
Tagged(o, id, c, p) ==
  \A f \in ProtoFields :
    p[f] = IF f = "routing_id" THEN c ELSE IF f = "id" THEN id ELSE o[f]

LEMMA AddressedIs ==
  ASSUME NEW o \in Object, NEW id \in Range(Id), NEW c \in Client
  PROVE  Addressed(o, id, c) \in Object /\ Tagged(o, id, c, Addressed(o, id, c))
<1>1. "id" \in ProtoFields /\ id \in Held("id")
  BY FieldsAre, Zenon
<1>2. "routing_id" \in ProtoFields /\ c \in Held("routing_id")
  BY FieldsAre, Zenon
<1>3. With(o, "id", id) \in Object
  BY <1>1, ObjectSet, Zenon
<1>4. \A f \in ProtoFields : With(o, "id", id)[f] = IF f = "id" THEN id ELSE o[f]
  BY <1>1, ObjectSet, ZenonT(30)
<1>5. PICK p : p = With(o, "id", id)
  OBVIOUS
<1>6. p \in Object /\ \A f \in ProtoFields : p[f] = IF f = "id" THEN id ELSE o[f]
  BY <1>3, <1>4, <1>5, Zenon
<1>7. With(p, "routing_id", c) \in Object
  BY <1>2, <1>6, ObjectSet, Zenon
<1>8. \A f \in ProtoFields :
           With(p, "routing_id", c)[f] = IF f = "routing_id" THEN c ELSE p[f]
  BY <1>2, <1>6, ObjectSet, Zenon
<1> QED BY <1>5, <1>6, <1>7, <1>8, Zenon DEF Addressed, Tagged

\* Say, when the message may go to that client.
LEMMA SayIs ==
  ASSUME NEW ls, NEW o \in Object, NEW d \in Wires(ls), NEW f \in Seq(Client),
         NEW id \in Range(Id), NEW c \in Client, Addressed(o, id, c) \in Downs(ls, c)
  PROVE  \E e \in Wires(ls) :
           Say(Speech(o, d, f), id, c) = Speech(Addressed(o, id, c), e, f)
<1>1. PICK p : p = Addressed(o, id, c)
  OBVIOUS
<1>2. p = [o EXCEPT !.id = id, !.routing_id = c]
  BY <1>1, Zenon DEF Addressed, With
<1>3. PICK said : said = Speech(o, d, f)
  OBVIOUS
<1>4. said.o = o /\ said.down = d
  <2>1. Speech(o, d, f).o = o /\ Speech(o, d, f).down = d
    BY ONLY SpeechIs
  <2> QED BY <1>3, <2>1, Zenon
<1>5. PICK e : e = [d EXCEPT ![c] = d[c] \o Frames(p)]
  OBVIOUS
<1>6. Say(said, id, c) = Sending(said, p, e)
  BY <1>2, <1>4, <1>5, Zenon DEF Say, Sending
<1>7. e \in Wires(ls)
  <2>1. d \in [Client -> Seq(Frame)] /\ \A b \in Client : Cut(d[b], FramesOf(Downs(ls, b)))
    BY Zenon DEF Wires
  <2>2. Frames(p) \in FramesOf(Downs(ls, c))
    BY <1>1, Zenon DEF FramesOf
  <2>3. PICK longer : longer = d[c] \o Frames(p)
    OBVIOUS
  <2>4. Cut(longer, FramesOf(Downs(ls, c)))
    BY <2>1, <2>2, <2>3, ChannelsAreWhole, CutAppend, Zenon
  <2>5. longer \in Seq(Frame)
    BY <2>4, Zenon DEF Cut
  <2>6. e = [d EXCEPT ![c] = longer]
    BY <1>5, <2>3, Zenon
  <2>7. e \in [Client -> Seq(Frame)] /\ \A b \in Client : e[b] = IF b = c THEN longer ELSE d[b]
    BY <2>1, <2>5, <2>6, Zenon
  <2>8. \A b \in Client : Cut(e[b], FramesOf(Downs(ls, b)))
    BY <2>1, <2>4, <2>7, Zenon
  <2> QED BY <2>7, <2>8, Zenon DEF Wires
<1>8. Sending(said, p, e) = Speech(p, e, f)
  <2>1. Sending(Speech(o, d, f), p, e) = Speech(p, e, f)
    BY ONLY SpeechSent
  <2> QED BY <1>3, <2>1, Zenon
<1> QED BY <1>1, <1>3, <1>6, <1>7, <1>8, Zenon

\* The letter comes into the object.
Loaded(ls, n, o) ==
  /\ o \in Object
  /\ o.sender = AddressOf[ls[n].from] /\ o.address = ls[n].address
  /\ o.subject = Letter[n].subject /\ o.content = Letter[n].content

LEMMA LoadedIs ==
  ASSUME NEW ls \in History, NEW n \in DOMAIN ls, NEW t, NEW o \in Object
  PROVE  Loaded(ls, n, SetProto(Mail(ls, n, t), o))
<1>1. PICK a, b, s, k : /\ a = AddressOf[ls[n].from] /\ b = ls[n].address
                        /\ s = Letter[n].subject /\ k = Letter[n].content
  OBVIOUS
<1>2. /\ a \in Texts /\ b \in Texts /\ s \in Texts
      /\ k \in Seq(Seq(Octet)) /\ k # NoContent
  BY <1>1, HistoryFacts, LetterFacts, NamesAreTexts, Zenon
<1>3. PICK msg : msg = Mail(ls, n, t)
  OBVIOUS
<1>4. msg.sender = a /\ msg.address = b /\ msg.subject = s /\ msg.content = k
  BY <1>1, <1>3, Zenon DEF Mail
<1>5. Fitting(a) = a /\ Fitting(b) = b /\ Fitting(s) = s
  BY <1>2, TextFacts, Zenon
<1>6. PICK p, q, r, u :
        /\ p = With(o, "sender", a) /\ q = With(p, "address", b)
        /\ r = With(q, "subject", s) /\ u = With(r, "content", k)
  OBVIOUS
<1>7. u = SetProto(msg, o)
  BY <1>2, <1>4, <1>5, <1>6, Zenon DEF SetProto, With
<1>8. /\ "sender" \in ProtoFields /\ a \in Held("sender")
      /\ "address" \in ProtoFields /\ b \in Held("address")
      /\ "subject" \in ProtoFields /\ s \in Held("subject")
      /\ "content" \in ProtoFields /\ k \in Held("content")
  BY <1>2, FieldsAre, TextNames, Zenon
<1>9. p \in Object /\ \A f \in ProtoFields : p[f] = IF f = "sender" THEN a ELSE o[f]
  <2>1. "sender" \in ProtoFields /\ a \in Held("sender")
    BY <1>8, Zenon
  <2>2. With(o, "sender", a) \in Object
    BY <2>1, SetStays, Zenon
  <2>3. Reads(o, "sender", a, With(o, "sender", a))
    BY <2>1, SetReads, Zenon
  <2> QED BY <1>6, <2>2, <2>3, Zenon DEF Reads
<1>10. q \in Object /\ \A f \in ProtoFields : q[f] = IF f = "address" THEN b ELSE p[f]
  <2>1. "address" \in ProtoFields /\ b \in Held("address") /\ p \in Object
    BY <1>8, <1>9, Zenon
  <2>2. With(p, "address", b) \in Object
    BY <2>1, SetStays, Zenon
  <2>3. Reads(p, "address", b, With(p, "address", b))
    BY <2>1, SetReads, Zenon
  <2> QED BY <1>6, <2>2, <2>3, Zenon DEF Reads
<1>11. r \in Object /\ \A f \in ProtoFields : r[f] = IF f = "subject" THEN s ELSE q[f]
  <2>1. "subject" \in ProtoFields /\ s \in Held("subject") /\ q \in Object
    BY <1>8, <1>10, Zenon
  <2>2. With(q, "subject", s) \in Object
    BY <2>1, SetStays, Zenon
  <2>3. Reads(q, "subject", s, With(q, "subject", s))
    BY <2>1, SetReads, Zenon
  <2> QED BY <1>6, <2>2, <2>3, Zenon DEF Reads
<1>12. u \in Object /\ \A f \in ProtoFields : u[f] = IF f = "content" THEN k ELSE r[f]
  <2>1. "content" \in ProtoFields /\ k \in Held("content") /\ r \in Object
    BY <1>8, <1>11, Zenon
  <2>2. With(r, "content", k) \in Object
    BY <2>1, SetStays, Zenon
  <2>3. Reads(r, "content", k, With(r, "content", k))
    BY <2>1, SetReads, Zenon
  <2> QED BY <1>6, <2>2, <2>3, Zenon DEF Reads
<1>13. u.sender = a /\ u.address = b /\ u.subject = s /\ u.content = k
  BY <1>8, <1>9, <1>10, <1>11, <1>12, Zenon
<1> QED BY <1>1, <1>3, <1>7, <1>12, <1>13, Zenon DEF Loaded

LEMMA SpeechHas ==
  ASSUME NEW ls, NEW said \in Speeches(ls)
  PROVE  /\ said.o \in Object /\ said.down \in Wires(ls) /\ said.offers \in Seq(Client)
         /\ said = Speech(said.o, said.down, said.offers)
<1>1. \E o \in Object, d \in Wires(ls), f \in Seq(Client) : said = Speech(o, d, f)
  BY SMT DEF Speeches
<1>2. PICK o \in Object, d \in Wires(ls), f \in Seq(Client) : said = Speech(o, d, f)
  BY <1>1, Zenon
<1>3. Speech(o, d, f).o = o /\ Speech(o, d, f).down = d /\ Speech(o, d, f).offers = f
  BY ONLY SpeechIs
<1> QED BY <1>2, <1>3, Zenon

LEMMA SpeechIn ==
  ASSUME NEW ls, NEW o \in Object, NEW d \in Wires(ls), NEW f \in Seq(Client)
  PROVE  Speech(o, d, f) \in Speeches(ls)
BY SMT DEF Speeches

\* Letters that may be delivered to client c as message id.
Deliverable(ls, id, c) ==
  UNION {{Mail(ls, n, t) : t \in Trackers} :
           n \in {k \in DOMAIN ls : DeliverOf(ls[k].id) = id /\ MayHave(ls, c, k)}}

LEMMA DeliverableIs ==
  ASSUME NEW ls, NEW n \in DOMAIN ls, NEW t \in Trackers, NEW c, MayHave(ls, c, n)
  PROVE  Mail(ls, n, t) \in Deliverable(ls, DeliverOf(ls[n].id), c)
<1>1. PICK id : id = DeliverOf(ls[n].id)
  OBVIOUS
<1>2. PICK N : N = {k \in DOMAIN ls : DeliverOf(ls[k].id) = id /\ MayHave(ls, c, k)}
  OBVIOUS
<1>3. n \in N
  BY <1>1, <1>2, Zenon
<1>4. Mail(ls, n, t) \in UNION {{Mail(ls, k, u) : u \in Trackers} : k \in N}
  BY ONLY <1>3, t \in Trackers
<1> QED BY <1>1, <1>2, <1>4, Zenon DEF Deliverable

LEMMA DeliverIs ==
  ASSUME NEW ls \in History, NEW said \in Speeches(ls), NEW id, NEW c \in Client,
         NEW msg \in Deliverable(ls, id, c)
  PROVE  /\ Deliver(said, id, c, msg) \in Speeches(ls)
         /\ Deliver(said, id, c, msg).offers = said.offers
<1>1. PICK n \in DOMAIN ls : /\ DeliverOf(ls[n].id) = id /\ MayHave(ls, c, n)
                             /\ \E t \in Trackers : msg = Mail(ls, n, t)
  BY Zenon DEF Deliverable
<1>2. PICK t \in Trackers : msg = Mail(ls, n, t)
  BY <1>1, Zenon
<1>3. PICK o, d, f : /\ o = said.o /\ d = said.down /\ f = said.offers
                     /\ o \in Object /\ d \in Wires(ls) /\ f \in Seq(Client)
                     /\ said = Speech(o, d, f)
  BY SpeechHas, Zenon
<1>4. PICK p : p = SetProto(msg, o)
  OBVIOUS
<1>5. /\ p \in Object /\ p.sender = AddressOf[ls[n].from] /\ p.address = ls[n].address
      /\ p.subject = Letter[n].subject /\ p.content = Letter[n].content
  <2>1. Loaded(ls, n, SetProto(Mail(ls, n, t), o))
    BY <1>3, LoadedIs, Zenon
  <2> QED BY <1>2, <1>4, <2>1, Zenon DEF Loaded
<1>6. id \in Range(Id) /\ id \in Delivers
  BY <1>1, HistoryFacts, DeliverIds, Zenon
<1>7. PICK a : a = Addressed(p, id, c)
  OBVIOUS
<1>8. /\ a \in Object
      /\ \A g \in ProtoFields : a[g] = IF g = "routing_id" THEN c ELSE IF g = "id" THEN id ELSE p[g]
  <2>1. p \in Object
    BY <1>5, Zenon
  <2>2. Addressed(p, id, c) \in Object
    BY <1>6, <2>1, AddressedIs, Zenon
  <2>3. Tagged(p, id, c, Addressed(p, id, c))
    BY <1>6, <2>1, AddressedIs, Zenon
  <2> QED BY <1>7, <2>2, <2>3, Zenon DEF Tagged
<1>9. /\ a.id = id /\ a.sender = p.sender /\ a.address = p.address
      /\ a.subject = p.subject /\ a.content = p.content
  BY <1>8, FieldNames, Zenon
<1>10. Kept(ls, c, a)
  BY <1>1, <1>5, <1>9, Zenon DEF Kept, Bears
<1>11. a \in Downs(ls, c)
  BY <1>6, <1>8, <1>9, <1>10, Zenon DEF Downs
<1>12. PICK e \in Wires(ls) : Say(Speech(p, d, f), id, c) = Speech(a, e, f)
  <2>1. p \in Object /\ id \in Range(Id) /\ Addressed(p, id, c) \in Downs(ls, c)
    BY <1>5, <1>6, <1>7, <1>11, Zenon
  <2>2. d \in Wires(ls) /\ f \in Seq(Client)
    BY <1>3, Zenon
  <2>3. \E e \in Wires(ls) : Say(Speech(p, d, f), id, c) = Speech(Addressed(p, id, c), e, f)
    BY ONLY <2>1, <2>2, c \in Client, SayIs
  <2> QED BY <1>7, <2>3, Zenon
<1>13. Deliver(said, id, c, msg) = Say(Holding(said, p), id, c)
  BY <1>3, <1>4, Zenon DEF Deliver, Holding
<1>14. Holding(Speech(o, d, f), p) = Speech(p, d, f)
  BY ONLY SpeechHeld
<1>15. Deliver(said, id, c, msg) = Speech(a, e, f)
  BY <1>3, <1>12, <1>13, <1>14, Zenon
<1>16. Speech(a, e, f) \in Speeches(ls)
  BY <1>3, <1>8, SpeechIn, Zenon
<1>17. Speech(a, e, f).offers = f
  BY ONLY SpeechIs
<1> QED BY <1>3, <1>15, <1>16, <1>17, Zenon

\* The first of a list goes last.
LEMMA TurnTaken ==
  ASSUME NEW S, NEW list \in Seq(S), list # <<>>
  PROVE  /\ Head(list) \in S /\ Append(Tail(list), Head(list)) \in Seq(S)
         /\ Append(Tail(list), Head(list)) # <<>>
<1>1. PICK first, rest : first = Head(list) /\ rest = Tail(list)
  OBVIOUS
<1>2. first \in S /\ rest \in Seq(S)
  BY <1>1
<1>3. Append(rest, first) \in Seq(S) /\ Len(Append(rest, first)) = Len(rest) + 1
      /\ Len(rest) \in Nat
  BY ONLY <1>2
<1>4. Append(rest, first) # <<>>
  <2>1. Len(<<>>) = 0
    OBVIOUS
  <2> QED BY <1>3, <2>1
<1> QED BY <1>1, <1>2, <1>3, <1>4

ServiceMails(ls) == Mails(ls, "SERVICE SEND")

\* Those to whom a message can be dispatched.
Ready(ls) == {said \in Speeches(ls) : said.offers # <<>>}

LEMMA DispatchIs ==
  ASSUME NEW ls \in History, NEW said \in Ready(ls), NEW msg \in ServiceMails(ls)
  PROVE  Dispatch(said, msg) \in Ready(ls)
<1>1. said \in Speeches(ls) /\ said.offers # <<>> /\ said.offers \in Seq(Client)
  BY SpeechHas, Zenon DEF Ready
<1>2. PICK f : f = said.offers
  OBVIOUS
<1>3. Head(f) \in Client /\ Append(Tail(f), Head(f)) \in Seq(Client)
      /\ Append(Tail(f), Head(f)) # <<>>
  <2>1. f \in Seq(Client) /\ f # <<>>
    BY <1>1, <1>2
  <2> QED BY <2>1, TurnTaken, Zenon
<1>4. PICK id : id = "SERVICE SEND"
  OBVIOUS
<1>5. PICK n \in DOMAIN ls : ls[n].id = id /\ \E t \in Trackers : msg = Mail(ls, n, t)
  <2>1. msg \in Mails(ls, id)
    BY <1>4, Zenon DEF ServiceMails
  <2> QED BY ONLY <2>1, MailHas
<1>6. MayHave(ls, Head(f), n) /\ DeliverOf(ls[n].id) = "SERVICE DELIVER"
  BY <1>4, <1>5, DeliverIds, Zenon DEF MayHave
<1>7. msg \in Deliverable(ls, "SERVICE DELIVER", Head(f))
  <2>1. PICK t \in Trackers : msg = Mail(ls, n, t)
    BY <1>5, Zenon
  <2>2. Mail(ls, n, t) \in Deliverable(ls, DeliverOf(ls[n].id), Head(f))
    BY <1>6, DeliverableIs, Zenon
  <2> QED BY <1>6, <2>1, <2>2, Zenon
<1>8. PICK done : done = Deliver(said, "SERVICE DELIVER", Head(f), msg)
  OBVIOUS
<1>9. done \in Speeches(ls) /\ done.offers = f
  <2>1. said \in Speeches(ls) /\ Head(f) \in Client
    BY <1>1, <1>3, Zenon
  <2>2. done \in Speeches(ls)
    BY <1>7, <1>8, <2>1, DeliverIs, Zenon
  <2>3. done.offers = said.offers
    BY <1>7, <1>8, <2>1, DeliverIs, ZenonT(30)
  <2> QED BY <1>2, <2>2, <2>3, Zenon
<1>10. PICK o, d : o \in Object /\ d \in Wires(ls) /\ done = Speech(o, d, f)
  BY <1>9, SpeechHas, Zenon
<1>11. PICK g : g = Append(Tail(f), Head(f))
  OBVIOUS
<1>12. Dispatch(said, msg) = Offering(done, g)
  BY <1>2, <1>8, <1>9, <1>11, Zenon DEF Dispatch, Offering
<1>13. Offering(Speech(o, d, f), g) = Speech(o, d, g)
  BY ONLY SpeechOffered
<1>14. Speech(o, d, g) \in Speeches(ls)
  BY <1>3, <1>10, <1>11, SpeechIn, Zenon
<1>15. Speech(o, d, g).offers = g
  BY ONLY SpeechIs
<1> QED BY <1>3, <1>10, <1>11, <1>12, <1>13, <1>14, <1>15, Zenon DEF Ready

\* The recursive function in DeliverAll.
AreDelivered(said, id, c, list, after) ==
  after = [n \in 0 .. Len(list) |-> IF n = 0 THEN said ELSE Deliver(after[n - 1], id, c, list[n])]

LEMMA DeliverAllIs ==
  ASSUME NEW ls \in History, NEW said \in Speeches(ls), NEW id, NEW c \in Client,
         NEW M, M = Deliverable(ls, id, c), NEW list \in Seq(M)
  PROVE  DeliverAll(said, id, c, list) \in Speeches(ls)
<1>1. PICK k, V : k = Len(list) /\ V = Speeches(ls)
  OBVIOUS
<1>2. k \in Nat /\ said \in V /\ \A n \in 1 .. k : list[n] \in M
  BY <1>1
<1>3. ASSUME NEW v \in V, NEW n \in 1 .. k PROVE Deliver(v, id, c, list[n]) \in V
  BY <1>1, <1>2, DeliverIs, Zenon
<1> DEFINE step == [vn \in V \X (1 .. k) |-> Deliver(vn[1], id, c, list[vn[2]])]
           chosen == CHOOSE after : after = [n \in 0 .. k |-> IF n = 0 THEN said ELSE Deliver(after[n - 1], id, c, list[n])]
<1>4. step \in [V \X (1 .. k) -> V]
  <2> SUFFICES ASSUME NEW vn \in V \X (1 .. k)
               PROVE  Deliver(vn[1], id, c, list[vn[2]]) \in V
    BY Zenon
  <2>1. vn[1] \in V /\ vn[2] \in 1 .. k
    OBVIOUS
  <2> QED BY <1>3, <2>1, Zenon
<1>5. PICK f : Iterates(V, said, k, step, f)
  <2> HIDE DEF step
  <2> QED BY <1>2, <1>4, PrimitiveRecursion, Zenon
<1>6. ASSUME NEW n \in 1 .. k PROVE f[n] = Deliver(f[n - 1], id, c, list[n])
  <2>1. n - 1 \in 0 .. k
    BY <1>2
  <2>2. f[n - 1] \in V
    BY <1>5, <2>1, Zenon DEF Iterates
  <2>3. <<f[n - 1], n>> \in V \X (1 .. k)
    BY <2>2
  <2>4. step[<<f[n - 1], n>>] = Deliver(f[n - 1], id, c, list[n])
    BY <2>3
  <2>5. f[n] = step[<<f[n - 1], n>>]
    BY <1>5, Zenon DEF Iterates
  <2> QED BY <2>4, <2>5, Zenon
<1>7. AreDelivered(said, id, c, list, f)
  <2>1. ASSUME NEW n \in 0 .. k
        PROVE  f[n] = IF n = 0 THEN said ELSE Deliver(f[n - 1], id, c, list[n])
    <3>1. CASE n = 0
      BY <1>5, <3>1, Zenon DEF Iterates
    <3>2. CASE n # 0
      <4>1. n \in 1 .. k
        BY <1>2, <3>2
      <4> QED BY <1>6, <3>2, <4>1, Zenon
    <3> QED BY <3>1, <3>2
  <2>2. f = [n \in 0 .. k |-> f[n]]
    BY <1>5, Zenon DEF Iterates
  <2> QED BY <1>1, <2>1, <2>2, Zenon DEF AreDelivered
<1>8. AreDelivered(said, id, c, list, chosen) /\ DeliverAll(said, id, c, list) = chosen[k]
  BY <1>1, <1>7, Zenon DEF AreDelivered, DeliverAll
<1> HIDE DEF chosen
<1>9. chosen[0] = said
  <2>1. 0 \in 0 .. k
    BY <1>2
  <2> QED BY <1>1, <1>8, <2>1, Zenon DEF AreDelivered
<1>10. ASSUME NEW n \in 1 .. k, chosen[n - 1] \in V PROVE chosen[n] \in V
  <2>1. n \in 0 .. k /\ n # 0
    BY <1>2
  <2>2. chosen[n] = Deliver(chosen[n - 1], id, c, list[n])
    BY <1>1, <1>8, <2>1, Zenon DEF AreDelivered
  <2> QED BY <1>3, <1>10, <2>2, Zenon
<1>11. chosen[k] \in V
  <2>1. \A n \in 0 .. k : chosen[n] \in V
    BY <1>2, <1>9, <1>10, StaysWithin
  <2>2. k \in 0 .. k
    BY <1>2
  <2> QED BY <2>1, <2>2, Zenon
<1> QED BY <1>1, <1>8, <1>11, Zenon

\* The recursive function in DispatchAll.
AreDispatched(said, list, after) ==
  after = [n \in 0 .. Len(list) |-> IF n = 0 THEN said ELSE Dispatch(after[n - 1], list[n])]

LEMMA DispatchAllIs ==
  ASSUME NEW ls \in History, NEW said \in Ready(ls),
         NEW M, M = ServiceMails(ls), NEW list \in Seq(M)
  PROVE  DispatchAll(said, list) \in Ready(ls)
<1>1. PICK k, V : k = Len(list) /\ V = Ready(ls)
  OBVIOUS
<1>2. k \in Nat /\ said \in V /\ \A n \in 1 .. k : list[n] \in M
  BY <1>1
<1>3. ASSUME NEW v \in V, NEW n \in 1 .. k PROVE Dispatch(v, list[n]) \in V
  BY <1>1, <1>2, DispatchIs, Zenon
<1> DEFINE step == [vn \in V \X (1 .. k) |-> Dispatch(vn[1], list[vn[2]])]
           chosen == CHOOSE after : after = [n \in 0 .. k |-> IF n = 0 THEN said ELSE Dispatch(after[n - 1], list[n])]
<1>4. step \in [V \X (1 .. k) -> V]
  <2> SUFFICES ASSUME NEW vn \in V \X (1 .. k)
               PROVE  Dispatch(vn[1], list[vn[2]]) \in V
    BY Zenon
  <2>1. vn[1] \in V /\ vn[2] \in 1 .. k
    OBVIOUS
  <2> QED BY <1>3, <2>1, Zenon
<1>5. PICK f : Iterates(V, said, k, step, f)
  <2> HIDE DEF step
  <2> QED BY <1>2, <1>4, PrimitiveRecursion, Zenon
<1>6. ASSUME NEW n \in 1 .. k PROVE f[n] = Dispatch(f[n - 1], list[n])
  <2>1. n - 1 \in 0 .. k
    BY <1>2
  <2>2. f[n - 1] \in V
    BY <1>5, <2>1, Zenon DEF Iterates
  <2>3. <<f[n - 1], n>> \in V \X (1 .. k)
    BY <2>2
  <2>4. step[<<f[n - 1], n>>] = Dispatch(f[n - 1], list[n])
    BY <2>3
  <2>5. f[n] = step[<<f[n - 1], n>>]
    BY <1>5, Zenon DEF Iterates
  <2> QED BY <2>4, <2>5, Zenon
<1>7. AreDispatched(said, list, f)
  <2>1. ASSUME NEW n \in 0 .. k
        PROVE  f[n] = IF n = 0 THEN said ELSE Dispatch(f[n - 1], list[n])
    <3>1. CASE n = 0
      BY <1>5, <3>1, Zenon DEF Iterates
    <3>2. CASE n # 0
      <4>1. n \in 1 .. k
        BY <1>2, <3>2
      <4> QED BY <1>6, <3>2, <4>1, Zenon
    <3> QED BY <3>1, <3>2
  <2>2. f = [n \in 0 .. k |-> f[n]]
    BY <1>5, Zenon DEF Iterates
  <2> QED BY <1>1, <2>1, <2>2, Zenon DEF AreDispatched
<1>8. AreDispatched(said, list, chosen) /\ DispatchAll(said, list) = chosen[k]
  BY <1>1, <1>7, Zenon DEF AreDispatched, DispatchAll
<1> HIDE DEF chosen
<1>9. chosen[0] = said
  <2>1. 0 \in 0 .. k
    BY <1>2
  <2> QED BY <1>1, <1>8, <2>1, Zenon DEF AreDispatched
<1>10. ASSUME NEW n \in 1 .. k, chosen[n - 1] \in V PROVE chosen[n] \in V
  <2>1. n \in 0 .. k /\ n # 0
    BY <1>2
  <2>2. chosen[n] = Dispatch(chosen[n - 1], list[n])
    BY <1>1, <1>8, <2>1, Zenon DEF AreDispatched
  <2> QED BY <1>3, <1>10, <2>2, Zenon
<1>11. chosen[k] \in V
  <2>1. \A n \in 0 .. k : chosen[n] \in V
    BY <1>2, <1>9, <1>10, StaysWithin
  <2>2. k \in 0 .. k
    BY <1>2
  <2> QED BY <2>1, <2>2, Zenon
<1> QED BY <1>1, <1>8, <1>11, Zenon

Added(kept, x, wanted) == IF x \in wanted THEN Append(kept, x) ELSE kept

LEMMA AddedIs ==
  ASSUME NEW M, NEW wanted, NEW kept \in Seq(M \cap wanted), NEW x \in M
  PROVE  Added(kept, x, wanted) \in Seq(M \cap wanted)
<1>1. CASE x \in wanted
  <2>1. PICK S : S = M \cap wanted
    OBVIOUS
  <2>2. kept \in Seq(S) /\ x \in S
    BY <1>1, <2>1
  <2>3. Append(kept, x) \in Seq(S)
    BY ONLY <2>2
  <2> QED BY <1>1, <2>1, <2>3, Zenon DEF Added
<1>2. CASE x \notin wanted
  BY <1>2, Zenon DEF Added
<1> QED BY <1>1, <1>2

\* The recursive function in Among.
AreAmong(list, wanted, after) ==
  after = [n \in 0 .. Len(list) |-> IF n = 0 THEN <<>>
                             ELSE IF list[n] \in wanted
                                  THEN Append(after[n - 1], list[n]) ELSE after[n - 1]]

LEMMA AmongIs ==
  ASSUME NEW M, NEW list \in Seq(M), NEW wanted
  PROVE  Among(list, wanted) \in Seq(M \cap wanted)
<1>1. PICK k, V : k = Len(list) /\ V = Seq(M \cap wanted)
  OBVIOUS
<1>2. k \in Nat /\ <<>> \in V /\ \A n \in 1 .. k : list[n] \in M
  BY <1>1
<1>3. ASSUME NEW v \in V, NEW n \in 1 .. k PROVE Added(v, list[n], wanted) \in V
  BY <1>1, <1>2, AddedIs, Zenon
<1> DEFINE step == [vn \in V \X (1 .. k) |-> Added(vn[1], list[vn[2]], wanted)]
           chosen == CHOOSE after : after = [n \in 0 .. k |->
                             IF n = 0 THEN <<>>
                             ELSE IF list[n] \in wanted
                                  THEN Append(after[n - 1], list[n]) ELSE after[n - 1]]
<1>4. step \in [V \X (1 .. k) -> V]
  <2> SUFFICES ASSUME NEW vn \in V \X (1 .. k)
               PROVE  Added(vn[1], list[vn[2]], wanted) \in V
    BY Zenon
  <2>1. vn[1] \in V /\ vn[2] \in 1 .. k
    OBVIOUS
  <2> QED BY <1>3, <2>1, Zenon
<1>5. PICK f : Iterates(V, <<>>, k, step, f)
  <2> HIDE DEF step
  <2> QED BY <1>2, <1>4, PrimitiveRecursion, Zenon
<1>6. ASSUME NEW n \in 1 .. k PROVE f[n] = Added(f[n - 1], list[n], wanted)
  <2>1. n - 1 \in 0 .. k
    BY <1>2
  <2>2. f[n - 1] \in V
    BY <1>5, <2>1, Zenon DEF Iterates
  <2>3. <<f[n - 1], n>> \in V \X (1 .. k)
    BY <2>2
  <2>4. step[<<f[n - 1], n>>] = Added(f[n - 1], list[n], wanted)
    BY <2>3
  <2>5. f[n] = step[<<f[n - 1], n>>]
    BY <1>5, Zenon DEF Iterates
  <2> QED BY <2>4, <2>5, Zenon
<1>7. AreAmong(list, wanted, f)
  <2>1. ASSUME NEW n \in 0 .. k
        PROVE  f[n] = IF n = 0 THEN <<>> ELSE Added(f[n - 1], list[n], wanted)
    <3>1. CASE n = 0
      BY <1>5, <3>1, Zenon DEF Iterates
    <3>2. CASE n # 0
      <4>1. n \in 1 .. k
        BY <1>2, <3>2
      <4> QED BY <1>6, <3>2, <4>1, Zenon
    <3> QED BY <3>1, <3>2
  <2>2. f = [n \in 0 .. k |-> f[n]]
    BY <1>5, Zenon DEF Iterates
  <2> QED BY <1>1, <2>1, <2>2, Zenon DEF AreAmong, Added
<1>8. AreAmong(list, wanted, chosen) /\ Among(list, wanted) = chosen[k]
  BY <1>1, <1>7, Zenon DEF AreAmong, Added, Among
<1> HIDE DEF chosen
<1>9. chosen[0] = <<>>
  <2>1. 0 \in 0 .. k
    BY <1>2
  <2> QED BY <1>1, <1>8, <2>1, Zenon DEF AreAmong, Added
<1>10. ASSUME NEW n \in 1 .. k, chosen[n - 1] \in V PROVE chosen[n] \in V
  <2>1. n \in 0 .. k /\ n # 0
    BY <1>2
  <2>2. chosen[n] = Added(chosen[n - 1], list[n], wanted)
    BY <1>1, <1>8, <2>1, Zenon DEF AreAmong, Added
  <2> QED BY <1>3, <1>10, <2>2, Zenon
<1>11. chosen[k] \in V
  <2>1. \A n \in 0 .. k : chosen[n] \in V
    BY <1>2, <1>9, <1>10, StaysWithin
  <2>2. k \in 0 .. k
    BY <1>2
  <2> QED BY <2>1, <2>2, Zenon
<1> QED BY <1>1, <1>8, <1>11, Zenon

-----------------------------------------------------------------------------
\* What is received

LEMMA CarriedOf ==
  /\ Carried("CONNECTION OPEN") = {"address"}
  /\ \A id \in Posts \cup Delivers : "subject" \in Carried(id) /\ "content" \in Carried(id)
  /\ \A id \in Posts : id # "STREAM SEND" => "address" \in Carried(id)
  /\ \A id \in Delivers : "sender" \in Carried(id) /\ "address" \in Carried(id)
<1>1. Carried("CONNECTION OPEN") = {"address"}
  BY Zenon DEF Carried
<1>2. /\ Carried("STREAM SEND") = {"subject", "content"}
      /\ Carried("MAILBOX SEND") = {"address", "subject", "tracker", "timeout", "content"}
      /\ Carried("SERVICE SEND") = {"address", "subject", "tracker", "timeout", "content"}
  BY Zenon DEF Carried
<1>3. /\ Carried("STREAM DELIVER") = {"address", "sender", "subject", "content"}
      /\ Carried("MAILBOX DELIVER") = {"sender", "address", "subject", "tracker", "content"}
      /\ Carried("SERVICE DELIVER") = {"sender", "address", "subject", "tracker", "content"}
  BY Zenon DEF Carried
<1>4. \A id \in Posts : "subject" \in Carried(id) /\ "content" \in Carried(id)
  BY <1>2, Zenon DEF Posts
<1>5. \A id \in Delivers : "subject" \in Carried(id) /\ "content" \in Carried(id)
  BY <1>3, Zenon DEF Delivers
<1>6. \A id \in Posts : id # "STREAM SEND" => "address" \in Carried(id)
  BY <1>2, Zenon DEF Posts
<1>7. \A id \in Delivers : "sender" \in Carried(id) /\ "address" \in Carried(id)
  BY <1>3, Zenon DEF Delivers
<1> QED BY <1>1, <1>4, <1>5, <1>6, <1>7, Zenon

LEMMA ContentIs ==
  ASSUME NEW m \in Object
  PROVE  /\ Content(m) \in Held("content")
         /\ m.content # NoContent => Content(m) = m.content
<1>1. m.content \in Seq(Seq(Octet)) \cup {NoContent}
  BY ObjectFields, Zenon
<1>2. CASE m.content = NoContent
  <2>1. PICK S : S = Seq(Octet)
    OBVIOUS
  <2>2. <<>> \in S
    BY <2>1
  <2>3. << <<>> >> \in Seq(S)
    BY ONLY <2>2
  <2>4. Content(m) = << <<>> >>
    BY <1>2, Zenon DEF Content
  <2>5. Content(m) \in Seq(Seq(Octet))
    BY <2>1, <2>3, <2>4
  <2> QED BY <1>2, <2>5, FieldsAre, Zenon
<1>3. CASE m.content # NoContent
  BY <1>1, <1>3, FieldsAre, Zenon DEF Content
<1> QED BY <1>2, <1>3, Zenon

LEMMA MergedIs ==
  ASSUME NEW m \in Object, m.id \in Range(Id), NEW o \in Object
  PROVE  /\ Merged(m, o) \in Object /\ Merged(m, o).id = m.id
         /\ \A f \in Carried(m.id) \ {"content"} : Merged(m, o)[f] = m[f]
         /\ "content" \in Carried(m.id) => Merged(m, o).content = Content(m)
<1>1. PICK p : p = Merged(m, o)
  OBVIOUS
<1>2. DOMAIN p = ProtoFields /\ p = [f \in ProtoFields |-> p[f]]
  BY <1>1, Zenon DEF Merged
<1>3. "id" \notin Carried(m.id) /\ Carried(m.id) \subseteq ProtoFields
  BY CarriedFacts, Zenon
<1>4. "id" \in ProtoFields /\ "content" \in ProtoFields /\ "content" # "id"
  BY FieldNames
<1>5. p["id"] = m.id
  BY <1>1, <1>4, Zenon DEF Merged
<1>6. "content" \in Carried(m.id) => p["content"] = Content(m)
  BY <1>1, <1>4, Zenon DEF Merged
<1>7. \A f \in Carried(m.id) \ {"content"} : p[f] = m[f]
  BY <1>1, <1>3, Zenon DEF Merged
<1>8. \A f \in ProtoFields : f # "id" /\ f \notin Carried(m.id) => p[f] = o[f]
  BY <1>1, Zenon DEF Merged
<1>9. \A f \in ProtoFields : m[f] \in Held(f) /\ o[f] \in Held(f)
  BY Zenon DEF Object
<1>10. ASSUME NEW f \in ProtoFields PROVE p[f] \in Held(f)
  <2>1. CASE f = "id"
    BY <1>5, <1>9, <2>1, Zenon
  <2>2. CASE f = "content" /\ f \in Carried(m.id)
    BY <1>6, <2>2, ContentIs, Zenon
  <2>3. CASE f \in Carried(m.id) \ {"content"}
    BY <1>7, <1>9, <2>3, Zenon
  <2>4. CASE f # "id" /\ f \notin Carried(m.id)
    BY <1>8, <1>9, <2>4, Zenon
  <2> QED BY <2>1, <2>2, <2>3, <2>4, Zenon
<1>11. p \in Object
  <2>1. \A f \in ProtoFields : p[f] \in UNION {Held(g) : g \in ProtoFields}
    BY <1>10, Zenon
  <2>2. p \in [ProtoFields -> UNION {Held(g) : g \in ProtoFields}]
    BY <1>2, <2>1, Zenon
  <2> QED BY <1>10, <2>2, Zenon DEF Object
<1> QED BY <1>1, <1>5, <1>6, <1>7, <1>11, Zenon

\* A command arrives as it was sent, and so does a delivery.
LEMMA UpReceived ==
  ASSUME NEW ls \in History, NEW c \in Client, NEW m \in Ups(ls, c), NEW o \in Object
  PROVE  Merged(m, o) \in Ups(ls, c)
<1>1. m \in Object /\ m.id \in Range(Id)
  BY Zenon DEF Ups
<1>2. PICK p : p = Merged(m, o)
  OBVIOUS
<1>3. p \in Object
  BY <1>1, <1>2, MergedIs, Zenon
<1>4. p.id = m.id
  BY <1>1, <1>2, MergedIs, Zenon
<1>5. \A f \in Carried(m.id) \ {"content"} : p[f] = m[f]
  BY <1>1, <1>2, MergedIs, Zenon
<1>6. "content" \in Carried(m.id) => p.content = Content(m)
  BY <1>1, <1>2, MergedIs, Zenon
<1>7. ASSUME p.id = "CONNECTION OPEN" PROVE p.address = AddressOf[c]
  <2>1. m.id = "CONNECTION OPEN"
    BY <1>4, <1>7, Zenon
  <2>2. m.address = AddressOf[c]
    BY <2>1, Zenon DEF Ups
  <2>3. Carried(m.id) = {"address"}
    BY <2>1, CarriedOf, Zenon
  <2>4. "address" \in Carried(m.id) \ {"content"}
    BY <2>3
  <2>5. p["address"] = m["address"]
    BY <1>5, <2>4, Zenon
  <2> QED BY <2>2, <2>5, Zenon
<1>8. ASSUME p.id \in Posts PROVE \E n \in DOMAIN ls : Asks(ls, c, p, n)
  <2>1. m.id \in Posts
    BY <1>4, <1>8, Zenon
  <2>2. PICK n \in DOMAIN ls : Asks(ls, c, m, n)
    BY <2>1, Zenon DEF Ups
  <2>3. "subject" \in Carried(m.id) /\ "content" \in Carried(m.id)
    BY <2>1, CarriedOf, Zenon
  <2>4. m.id # "STREAM SEND" => "address" \in Carried(m.id)
    BY <2>1, CarriedOf, Zenon
  <2>5. p.subject = m.subject
    BY <1>5, <2>3, Zenon
  <2>6. m.id # "STREAM SEND" => p.address = m.address
    BY <1>5, <2>4, Zenon
  <2>7. m.content = Letter[n].content /\ Letter[n].content # NoContent
    BY <2>2, HistoryFacts, LetterFacts, Zenon DEF Asks
  <2>8. p.content = m.content
    BY <1>1, <1>6, <2>3, <2>7, ContentIs, Zenon
  <2>9. Asks(ls, c, p, n)
    BY <1>4, <2>2, <2>5, <2>6, <2>8, Zenon DEF Asks
  <2> QED BY <2>9, Zenon
<1>9. p.id \in Range(Id)
  BY <1>1, <1>4, Zenon
<1> QED BY <1>2, <1>3, <1>7, <1>8, <1>9, Zenon DEF Ups

LEMMA DownReceived ==
  ASSUME NEW ls \in History, NEW c \in Client, NEW m \in Downs(ls, c), NEW o \in Object
  PROVE  Merged(m, o) \in Downs(ls, c)
<1>1. m \in Object /\ m.id \in Range(Id)
  BY Zenon DEF Downs
<1>2. PICK p : p = Merged(m, o)
  OBVIOUS
<1>3. p \in Object
  BY <1>1, <1>2, MergedIs, Zenon
<1>4. p.id = m.id
  BY <1>1, <1>2, MergedIs, Zenon
<1>5. \A f \in Carried(m.id) \ {"content"} : p[f] = m[f]
  BY <1>1, <1>2, MergedIs, Zenon
<1>6. "content" \in Carried(m.id) => p.content = Content(m)
  BY <1>1, <1>2, MergedIs, Zenon
<1>7. ASSUME p.id \in Delivers PROVE Kept(ls, c, p)
  <2>1. m.id \in Delivers
    BY <1>4, <1>7, Zenon
  <2>2. PICK n \in DOMAIN ls : Bears(ls, m, n) /\ MayHave(ls, c, n)
    BY <2>1, Zenon DEF Downs, Kept
  <2>3. /\ "subject" \in Carried(m.id) /\ "content" \in Carried(m.id)
        /\ "sender" \in Carried(m.id) /\ "address" \in Carried(m.id)
    BY <2>1, CarriedOf, Zenon
  <2>4. p.subject = m.subject /\ p.sender = m.sender /\ p.address = m.address
    BY <1>5, <2>3, Zenon
  <2>5. m.content = Letter[n].content /\ Letter[n].content # NoContent
    BY <2>2, HistoryFacts, LetterFacts, Zenon DEF Bears
  <2>6. p.content = m.content
    BY <1>1, <1>6, <2>3, <2>5, ContentIs, Zenon
  <2>7. Bears(ls, p, n)
    BY <1>4, <2>2, <2>4, <2>6, Zenon DEF Bears
  <2> QED BY <2>2, <2>7, Zenon DEF Kept
<1>8. p.id \in Range(Id)
  BY <1>1, <1>4, Zenon
<1> QED BY <1>2, <1>3, <1>7, <1>8, Zenon DEF Downs

\* The message at the head of a channel, received into any object.
LEMMA UpHead ==
  ASSUME NEW ls \in History, NEW c \in Client, NEW channel,
         Cut(channel, FramesOf(Ups(ls, c))), HasMessage(channel), NEW o \in Object
  PROVE  /\ Receive(o, HeadMessage(channel)).o \in Ups(ls, c)
         /\ Cut(Rest(channel), FramesOf(Ups(ls, c)))
<1>1. HeadMessage(channel) \in FramesOf(Ups(ls, c)) /\ Cut(Rest(channel), FramesOf(Ups(ls, c)))
  BY ChannelsAreWhole, CutHead, Zenon
<1>2. PICK m \in Ups(ls, c) : HeadMessage(channel) = Frames(m)
  BY <1>1, Zenon DEF FramesOf
<1>3. m \in Object /\ m.id \in Range(Id)
  BY Zenon DEF Ups
<1>4. Receive(o, Frames(m)) = Reading(Merged(m, o), <<>>)
  BY ONLY <1>3, o \in Object, ReceivedIs
<1>5. Reading(Merged(m, o), <<>>).o = Merged(m, o)
  BY Zenon DEF Reading
<1>6. Merged(m, o) \in Ups(ls, c)
  BY UpReceived, Zenon
<1> QED BY <1>1, <1>2, <1>4, <1>5, <1>6, Zenon

LEMMA DownHead ==
  ASSUME NEW ls \in History, NEW c \in Client, NEW channel,
         Cut(channel, FramesOf(Downs(ls, c))), HasMessage(channel), NEW o \in Object
  PROVE  /\ Receive(o, HeadMessage(channel)).o \in Downs(ls, c)
         /\ Cut(Rest(channel), FramesOf(Downs(ls, c)))
<1>1. /\ HeadMessage(channel) \in FramesOf(Downs(ls, c))
      /\ Cut(Rest(channel), FramesOf(Downs(ls, c)))
  BY ChannelsAreWhole, CutHead, Zenon
<1>2. PICK m \in Downs(ls, c) : HeadMessage(channel) = Frames(m)
  BY <1>1, Zenon DEF FramesOf
<1>3. m \in Object /\ m.id \in Range(Id)
  BY Zenon DEF Downs
<1>4. Receive(o, Frames(m)) = Reading(Merged(m, o), <<>>)
  BY ONLY <1>3, o \in Object, ReceivedIs
<1>5. Reading(Merged(m, o), <<>>).o = Merged(m, o)
  BY Zenon DEF Reading
<1>6. Merged(m, o) \in Downs(ls, c)
  BY DownReceived, Zenon
<1> QED BY <1>1, <1>2, <1>4, <1>5, <1>6, Zenon

-----------------------------------------------------------------------------
\* The steps of the broker, by what they say

LEMMA StatusCodes == SUCCESS \in Number16 /\ FAILED \in Number16 /\ COMMAND_INVALID \in Number16
BY DEF SUCCESS, FAILED, COMMAND_INVALID, Number16

\* An answer.
LEMMA ReplyIs ==
  ASSUME NEW ls, NEW said \in Speeches(ls), NEW id \in {"OK", "ERROR"}, NEW c \in Client
  PROVE  /\ Say(said, id, c) \in Speeches(ls)
         /\ Say(said, id, c).offers = said.offers
<1>1. PICK o, d, f : /\ o = said.o /\ d = said.down /\ f = said.offers
                     /\ o \in Object /\ d \in Wires(ls) /\ f \in Seq(Client)
                     /\ said = Speech(o, d, f)
  BY SpeechHas, Zenon
<1>2. id \in Range(Id) /\ id \notin Delivers
  BY DeliverIds, Zenon
<1>3. PICK a : a = Addressed(o, id, c)
  OBVIOUS
<1>4. a \in Object
  <2>1. o \in Object
    BY <1>1, Zenon
  <2> QED BY <1>2, <1>3, <2>1, AddressedIs, Zenon
<1>5. Tagged(o, id, c, a)
  <2>1. o \in Object
    BY <1>1, Zenon
  <2> QED BY <1>2, <1>3, <2>1, AddressedIs, Zenon
<1>6. a.id = id
  BY <1>5, FieldNames, Zenon DEF Tagged
<1>7. a \in Downs(ls, c)
  BY <1>2, <1>4, <1>6, Zenon DEF Downs
<1>8. PICK e \in Wires(ls) : Say(Speech(o, d, f), id, c) = Speech(a, e, f)
  <2>1. o \in Object /\ id \in Range(Id) /\ Addressed(o, id, c) \in Downs(ls, c)
    BY <1>1, <1>2, <1>3, <1>7, Zenon
  <2>2. d \in Wires(ls) /\ f \in Seq(Client)
    BY <1>1, Zenon
  <2>3. \E e \in Wires(ls) : Say(Speech(o, d, f), id, c) = Speech(Addressed(o, id, c), e, f)
    BY ONLY <2>1, <2>2, c \in Client, SayIs
  <2> QED BY <1>3, <2>3, Zenon
<1>9. Speech(a, e, f) \in Speeches(ls)
  BY <1>1, <1>4, SpeechIn, Zenon
<1>10. Speech(a, e, f).offers = f
  BY ONLY SpeechIs
<1> QED BY <1>1, <1>8, <1>9, <1>10, Zenon

\* The broker has the command n of a known client; the message it makes of it.
LEMMA AskedMail ==
  ASSUME NEW ls \in History, NEW c, NEW o \in Object, NEW n \in DOMAIN ls, Asks(ls, c, o, n),
         o.id # "STREAM SEND", NEW t
  PROVE  MsgNew(AddressOf[c], o.address, o, t) = Mail(ls, n, t)
<1>1. /\ c = ls[n].from /\ o.address = ls[n].address
      /\ o.subject = Letter[n].subject /\ o.content = Letter[n].content
  BY Zenon DEF Asks
<1> QED BY <1>1, Zenon DEF MsgNew, Mail

LEMMA AskedStream ==
  ASSUME NEW ls \in History, NEW c, NEW o \in Object, NEW n \in DOMAIN ls, Asks(ls, c, o, n),
         o.id = "STREAM SEND", NEW t
  PROVE  MsgNew(AddressOf[c], StreamName, o, t) = Mail(ls, n, t)
<1>1. /\ c = ls[n].from /\ StreamName = ls[n].address
      /\ o.subject = Letter[n].subject /\ o.content = Letter[n].content
  BY HistoryFacts, Zenon DEF Asks
<1> QED BY <1>1, Zenon DEF MsgNew, Mail

\* One field of the message object is set, between two messages.
LEMMA HeldIs ==
  ASSUME NEW ls, NEW o \in Object, NEW d \in Wires(ls), NEW f \in Seq(Client),
         NEW g \in ProtoFields, NEW v \in Held(g)
  PROVE  Speech(With(o, g, v), d, f) \in Speeches(ls)
BY SetStays, SpeechIn, Zenon

-----------------------------------------------------------------------------
\* The invariant

UpWires(ls) ==
  {w \in [Client -> Seq(Frame)] : \A c \in Client : Cut(w[c], FramesOf(Ups(ls, c)))}

MailboxMails(ls) == Mails(ls, "MAILBOX SEND")

\* What the broker says goes to those it is for.
BrokerInv == server \in Object /\ down \in Wires(sent) /\ offers \in Seq(Client)

\* A client is registered under its own address.
AddressInv ==
  /\ addresses \in [Client -> Texts \cup {NoText}]
  /\ \A c \in Client : addresses[c] # NoText => addresses[c] = AddressOf[c]

\* What waits in the broker is letters.
StoredInv ==
  /\ mailbox \in Seq(MailboxMails(sent)) /\ queue \in Seq(ServiceMails(sent))
  /\ traffic \in Seq(Traffic(sent))

AppInv ==
  /\ app \in [Client -> UNION {Seq(Arrived(sent, c)) : c \in Client}]
  /\ \A c \in Client : app[c] \in Seq(Arrived(sent, c))

\* Everything that is under way is a letter as it was written, or holds none.
LettersInv ==
  /\ sent \in History
  /\ proto \in [Client -> Object]
  /\ up \in UpWires(sent)
  /\ BrokerInv
  /\ AddressInv
  /\ readers \in Seq(Client)
  /\ StoredInv
  /\ AppInv

LEMMA EmptyStays ==
  ASSUME NEW S
  PROVE  <<>> \in Seq(S)
OBVIOUS

LEMMA InitLetters == Init => LettersInv
<1> SUFFICES ASSUME Init PROVE LettersInv
  OBVIOUS
<1> USE DEF Init
<1>1. sent \in History
  <2>1. PICK none, k : none = <<>> /\ k = Len(Letter)
    OBVIOUS
  <2>2. none \in Seq(Post)
    BY <2>1, EmptyStays, Zenon
  <2>3. Letter \in Seq(WrittenLetters)
    BY LettersAre, Zenon
  <2>4. k \in Nat
    BY ONLY <2>1, <2>3
  <2>5. Len(none) <= k
    BY ONLY <2>1, <2>4
  <2> QED BY <2>1, <2>2, <2>5, Zenon DEF History
<1>2. proto \in [Client -> Object]
  BY NewProtoIsObject, Zenon
<1>3. up \in UpWires(sent) /\ down \in Wires(sent)
  <2>1. \A c \in Client : up[c] = <<>> /\ down[c] = <<>>
    BY Zenon
  <2>2. <<>> \in Seq(Frame)
    BY EmptyStays, Zenon
  <2>3. up \in [Client -> Seq(Frame)] /\ down \in [Client -> Seq(Frame)]
    BY <2>2, Zenon
  <2> QED BY <2>1, <2>3, CutNone, Zenon DEF UpWires, Wires
<1>4. BrokerInv
  BY <1>3, NewProtoIsObject, EmptyStays, Zenon DEF BrokerInv
<1>5. AddressInv
  BY Zenon DEF AddressInv
<1>6. readers \in Seq(Client)
  BY EmptyStays, Zenon
<1>7. StoredInv
  BY EmptyStays, Zenon DEF StoredInv
<1>8. AppInv
  <2>1. \A c \in Client : app[c] = <<>>
    BY Zenon
  <2>2. \A c \in Client : app[c] \in Seq(Arrived(sent, c))
    BY <2>1, EmptyStays, Zenon
  <2>3. \A c \in Client : <<>> \in UNION {Seq(Arrived(sent, b)) : b \in Client}
    BY EmptyStays, Zenon
  <2>4. app \in [Client -> UNION {Seq(Arrived(sent, b)) : b \in Client}]
    BY <2>3, Zenon
  <2> QED BY <2>2, <2>4, Zenon DEF AppInv
<1> QED BY <1>1, <1>2, <1>3, <1>4, <1>5, <1>6, <1>7, <1>8, Zenon DEF LettersInv

\* The broker takes a command of client c.
LEMMA TakingIs ==
  ASSUME LettersInv, NEW c \in Client, NEW ids, Taking(c, ids)
  PROVE  /\ Incoming(c) \in Ups(sent, c) /\ Incoming(c).id \in ids
         /\ up' \in UpWires(sent)
         /\ proto' = proto /\ sent' = sent /\ app' = app
<1>1. /\ sent \in History /\ server \in Object
      /\ up \in [Client -> Seq(Frame)] /\ \A b \in Client : Cut(up[b], FramesOf(Ups(sent, b)))
  BY Zenon DEF LettersInv, BrokerInv, UpWires
<1>2. PICK channel : channel = up[c]
  OBVIOUS
<1>3. HasMessage(channel) /\ Cut(channel, FramesOf(Ups(sent, c)))
  BY <1>1, <1>2, Zenon DEF Taking
<1>4. PICK o : o = With(server, "routing_id", c)
  OBVIOUS
<1>5. o \in Object
  <2>1. "routing_id" \in ProtoFields /\ c \in Held("routing_id")
    BY FieldsAre, Zenon
  <2> QED BY <1>1, <1>4, <2>1, SetStays, Zenon
<1>6. Incoming(c) = Receive(o, HeadMessage(channel)).o
  BY <1>2, <1>4, Zenon DEF Incoming, With
<1>7. Receive(o, HeadMessage(channel)).o \in Ups(sent, c)
  BY <1>1, <1>3, <1>5, UpHead, Zenon
<1>8. Cut(Rest(channel), FramesOf(Ups(sent, c)))
  BY <1>1, <1>3, <1>5, UpHead, Zenon
<1>9. PICK left : left = Rest(channel)
  OBVIOUS
<1>10. left \in Seq(Frame)
  BY <1>8, <1>9, Zenon DEF Cut
<1>11. up' = [up EXCEPT ![c] = left]
  BY <1>2, <1>9, Zenon DEF Taking
<1>12. up' \in [Client -> Seq(Frame)]
  BY <1>1, <1>10, <1>11, Zenon
<1>13. \A b \in Client : Cut(up'[b], FramesOf(Ups(sent, b)))
  BY <1>1, <1>8, <1>9, <1>11, Zenon
<1>14. up' \in UpWires(sent)
  BY <1>12, <1>13, Zenon DEF UpWires
<1> QED BY <1>6, <1>7, <1>14, Zenon DEF Taking, clients

LEMMA EndsIs ==
  ASSUME NEW said \in Speeches(sent), Ends(said), sent' = sent
  PROVE  BrokerInv'
<1>1. said.o \in Object /\ said.down \in Wires(sent) /\ said.offers \in Seq(Client)
  BY SpeechHas, Zenon
<1> QED BY <1>1, Zenon DEF Ends, BrokerInv

\* A handler of the broker: it takes a command, says what it says, and leaves
\* its tables in order.
LEMMA ServedIs ==
  ASSUME LettersInv, NEW c \in Client, NEW ids, Taking(c, ids), BrokerInv',
         AddressInv', readers' \in Seq(Client), StoredInv'
  PROVE  LettersInv'
<1>1. /\ up' \in UpWires(sent)
      /\ proto' = proto /\ sent' = sent /\ app' = app
  BY TakingIs, Zenon
<1> QED BY <1>1, Zenon DEF LettersInv, AppInv

\* What the broker may start to say.
LEMMA SaidIs ==
  ASSUME LettersInv, NEW o \in Object
  PROVE  Said(o) \in Speeches(sent) /\ Said(o) = Speech(o, down, offers)
<1>1. Said(o) = Speech(o, down, offers)
  BY Zenon DEF Said, Speech
<1>2. down \in Wires(sent) /\ offers \in Seq(Client)
  BY Zenon DEF LettersInv, BrokerInv
<1> QED BY <1>1, <1>2, SpeechIn, Zenon

LEMMA IncomingFacts ==
  ASSUME LettersInv, NEW c \in Client, NEW ids, Taking(c, ids)
  PROVE  /\ Incoming(c) \in Object /\ Incoming(c).id \in ids
         /\ Incoming(c).id = "CONNECTION OPEN" => Incoming(c).address = AddressOf[c]
         /\ Incoming(c).id \in Posts => \E n \in DOMAIN sent : Asks(sent, c, Incoming(c), n)
         /\ sent' = sent
<1>1. Incoming(c) \in Ups(sent, c) /\ Incoming(c).id \in ids /\ sent' = sent
  BY TakingIs, Zenon
<1> QED BY <1>1, Zenon DEF Ups

\* An answer with a status.
LEMMA AnswerIs ==
  ASSUME LettersInv, NEW c \in Client, NEW o \in Object, NEW code \in Number16,
         NEW id \in {"OK", "ERROR"}
  PROVE  /\ Say(Said([o EXCEPT !.status_code = code]), id, c) \in Speeches(sent)
         /\ Say(Said([o EXCEPT !.status_code = code]), id, c).offers = offers
<1>1. PICK p : p = With(o, "status_code", code)
  OBVIOUS
<1>2. p \in Object
  <2>1. "status_code" \in ProtoFields
    BY FieldNames
  <2>2. Held("status_code") = Number16
    BY FieldsAre, Zenon
  <2>3. code \in Held("status_code")
    BY <2>2, Zenon
  <2> QED BY <1>1, <2>1, <2>3, SetStays, Zenon
<1>3. p = [o EXCEPT !.status_code = code]
  BY <1>1, Zenon DEF With
<1>4. Said(p) \in Speeches(sent)
  BY <1>2, SaidIs, Zenon
<1>5. Said(p).offers = offers
  BY Zenon DEF Said
<1>6. Say(Said(p), id, c) \in Speeches(sent)
  BY <1>4, ReplyIs, Zenon
<1>7. Say(Said(p), id, c).offers = Said(p).offers
  BY <1>4, ReplyIs, Zenon
<1> QED BY <1>3, <1>5, <1>6, <1>7, Zenon

-----------------------------------------------------------------------------
\* Each step of the broker keeps the invariant

LEMMA StoredStays ==
  ASSUME LettersInv, sent' = sent, UNCHANGED stores
  PROVE  StoredInv'
BY Zenon DEF LettersInv, StoredInv, stores

LEMMA AddressStays ==
  ASSUME LettersInv, UNCHANGED addresses
  PROVE  AddressInv'
BY Zenon DEF LettersInv, AddressInv

\* The messages for an address, at the client that has just got it.
LEMMA MailToIs ==
  ASSUME NEW ls \in History, NEW c \in Client, NEW msg \in MailboxMails(ls),
         msg.address = AddressOf[c]
  PROVE  msg \in Deliverable(ls, "MAILBOX DELIVER", c)
<1>1. PICK id : id = "MAILBOX SEND"
  OBVIOUS
<1>2. PICK n \in DOMAIN ls : ls[n].id = id /\ \E t \in Trackers : msg = Mail(ls, n, t)
  <2>1. msg \in Mails(ls, id)
    BY <1>1, Zenon DEF MailboxMails
  <2> QED BY ONLY <2>1, MailHas
<1>3. PICK t \in Trackers : msg = Mail(ls, n, t)
  BY <1>2, Zenon
<1>4. ls[n].address = AddressOf[c]
  BY <1>3, Zenon DEF Mail
<1>5. MayHave(ls, c, n)
  BY <1>1, <1>2, <1>4, Zenon DEF MayHave
<1>6. DeliverOf(ls[n].id) = "MAILBOX DELIVER"
  BY <1>1, <1>2, DeliverIds, Zenon
<1>7. Mail(ls, n, t) \in Deliverable(ls, DeliverOf(ls[n].id), c)
  BY <1>5, DeliverableIs, Zenon
<1> QED BY <1>3, <1>6, <1>7, Zenon

LEMMA SubsetLists ==
  ASSUME NEW S, NEW T, S \subseteq T, NEW list \in Seq(S)
  PROVE  list \in Seq(T)
OBVIOUS

LEMMA OpenKeeps ==
  ASSUME LettersInv, NEW c \in Client, ServeOpen(c)
  PROVE  LettersInv'
<1>1. PICK ids : ids = {"CONNECTION OPEN"}
  OBVIOUS
<1>2. Taking(c, ids)
  BY <1>1, Zenon DEF ServeOpen
<1>3. PICK o : o = Incoming(c)
  OBVIOUS
<1>4. o \in Object /\ o.id \in ids /\ sent' = sent
  BY <1>2, <1>3, IncomingFacts, Zenon
<1>5. o.address = AddressOf[c]
  <2>1. o.id = "CONNECTION OPEN"
    BY <1>1, <1>4, Zenon
  <2> QED BY <1>2, <1>3, <2>1, IncomingFacts, Zenon
<1>6. PICK own : own = {m \in Range(mailbox) : m.address = o.address}
  OBVIOUS
<1>7. PICK ok : ok = Say(Said([o EXCEPT !.status_code = SUCCESS]), "OK", c)
  OBVIOUS
<1>8. PICK kept, mine : /\ kept = Among(mailbox, Range(mailbox) \ own)
                        /\ mine = Among(mailbox, own)
  OBVIOUS
<1>9. /\ addresses' = [addresses EXCEPT ![c] = o.address]
      /\ mailbox' = kept
      /\ Ends(DeliverAll(ok, "MAILBOX DELIVER", c, mine))
      /\ readers' = readers /\ queue' = queue /\ traffic' = traffic
  BY <1>3, <1>6, <1>7, <1>8, Zenon DEF ServeOpen
<1>10. PICK M : M = MailboxMails(sent)
  OBVIOUS
<1>11. mailbox \in Seq(M) /\ sent \in History
  BY <1>10, Zenon DEF LettersInv, StoredInv
<1>12. kept \in Seq(M)
  <2>1. kept \in Seq(M \cap (Range(mailbox) \ own))
    BY <1>8, <1>11, AmongIs, Zenon
  <2>2. M \cap (Range(mailbox) \ own) \subseteq M
    OBVIOUS
  <2> QED BY <2>1, <2>2, SubsetLists, Zenon
<1>13. PICK D : D = Deliverable(sent, "MAILBOX DELIVER", c)
  OBVIOUS
<1>14. mine \in Seq(D)
  <2>1. mine \in Seq(M \cap own)
    BY <1>8, <1>11, AmongIs, Zenon
  <2>2. ASSUME NEW msg \in M \cap own PROVE msg \in D
    <3>1. msg \in MailboxMails(sent) /\ msg.address = AddressOf[c]
      BY <1>5, <1>6, <1>10, Zenon
    <3> QED BY <1>11, <1>13, <3>1, MailToIs, Zenon
  <2>3. M \cap own \subseteq D
    BY <2>2, Zenon
  <2> QED BY <2>1, <2>3, SubsetLists, Zenon
<1>15. ok \in Speeches(sent)
  <2>1. SUCCESS \in Number16 /\ o \in Object /\ "OK" \in {"OK", "ERROR"}
    BY <1>4, StatusCodes
  <2> QED BY <1>7, <2>1, AnswerIs, Zenon
<1>16. DeliverAll(ok, "MAILBOX DELIVER", c, mine) \in Speeches(sent)
  BY <1>11, <1>13, <1>14, <1>15, DeliverAllIs, Zenon
<1>17. BrokerInv'
  BY <1>4, <1>9, <1>16, EndsIs, Zenon
<1>18. AddressInv'
  <2>1. /\ addresses \in [Client -> Texts \cup {NoText}]
        /\ \A b \in Client : addresses[b] # NoText => addresses[b] = AddressOf[b]
    BY Zenon DEF LettersInv, AddressInv
  <2>2. AddressOf[c] \in Texts \cup {NoText}
    BY NamesAreTexts, Zenon
  <2>3. addresses' = [addresses EXCEPT ![c] = AddressOf[c]]
    BY <1>5, <1>9, Zenon
  <2>4. addresses' \in [Client -> Texts \cup {NoText}]
    BY <2>1, <2>2, <2>3, Zenon
  <2>5. \A b \in Client : addresses'[b] # NoText => addresses'[b] = AddressOf[b]
    BY <2>1, <2>3, Zenon
  <2> QED BY <2>4, <2>5, Zenon DEF AddressInv
<1>19. readers' \in Seq(Client)
  BY <1>9, Zenon DEF LettersInv
<1>20. StoredInv'
  <2>1. queue' \in Seq(ServiceMails(sent')) /\ traffic' \in Seq(Traffic(sent'))
    BY <1>4, <1>9, Zenon DEF LettersInv, StoredInv
  <2>2. mailbox' \in Seq(MailboxMails(sent'))
    BY <1>4, <1>9, <1>10, <1>12, Zenon
  <2> QED BY <2>1, <2>2, Zenon DEF StoredInv
<1> QED BY <1>2, <1>17, <1>18, <1>19, <1>20, ServedIs, Zenon

LEMMA WriteKeeps ==
  ASSUME LettersInv, NEW c \in Client, ServeWrite(c)
  PROVE  LettersInv'
<1>1. PICK ids : ids = {"STREAM WRITE"}
  OBVIOUS
<1>2. Taking(c, ids)
  BY <1>1, Zenon DEF ServeWrite
<1>3. PICK o : o = Incoming(c)
  OBVIOUS
<1>4. o \in Object /\ sent' = sent
  BY <1>2, <1>3, IncomingFacts, Zenon
<1>5. PICK ok : ok = Say(Said([o EXCEPT !.status_code = SUCCESS]), "OK", c)
  OBVIOUS
<1>6. Ends(ok) /\ readers' = readers /\ UNCHANGED stores /\ UNCHANGED addresses
  BY <1>3, <1>5, Zenon DEF ServeWrite
<1>7. ok \in Speeches(sent)
  <2>1. SUCCESS \in Number16 /\ o \in Object /\ "OK" \in {"OK", "ERROR"}
    BY <1>4, StatusCodes
  <2> QED BY <1>5, <2>1, AnswerIs, Zenon
<1>8. BrokerInv'
  BY <1>4, <1>6, <1>7, EndsIs, Zenon
<1>9. AddressInv' /\ StoredInv'
  BY <1>4, <1>6, AddressStays, StoredStays, Zenon
<1>10. readers' \in Seq(Client)
  BY <1>6, Zenon DEF LettersInv
<1> QED BY <1>2, <1>8, <1>9, <1>10, ServedIs, Zenon

LEMMA ReadKeeps ==
  ASSUME LettersInv, NEW c \in Client, ServeRead(c)
  PROVE  LettersInv'
<1>1. PICK ids : ids = {"STREAM READ"}
  OBVIOUS
<1>2. Taking(c, ids)
  BY <1>1, Zenon DEF ServeRead
<1>3. PICK o : o = Incoming(c)
  OBVIOUS
<1>4. o \in Object /\ sent' = sent
  BY <1>2, <1>3, IncomingFacts, Zenon
<1>5. PICK ok : ok = Say(Said([o EXCEPT !.status_code = SUCCESS]), "OK", c)
  OBVIOUS
<1>6. Ends(ok) /\ readers' = Append(readers, c) /\ UNCHANGED stores /\ UNCHANGED addresses
  BY <1>3, <1>5, Zenon DEF ServeRead
<1>7. ok \in Speeches(sent)
  <2>1. SUCCESS \in Number16 /\ o \in Object /\ "OK" \in {"OK", "ERROR"}
    BY <1>4, StatusCodes
  <2> QED BY <1>5, <2>1, AnswerIs, Zenon
<1>8. BrokerInv'
  BY <1>4, <1>6, <1>7, EndsIs, Zenon
<1>9. AddressInv' /\ StoredInv'
  BY <1>4, <1>6, AddressStays, StoredStays, Zenon
<1>10. readers' \in Seq(Client)
  <2>1. readers \in Seq(Client)
    BY Zenon DEF LettersInv
  <2>2. Append(readers, c) \in Seq(Client)
    BY ONLY <2>1, c \in Client
  <2> QED BY <1>6, <2>2, Zenon
<1> QED BY <1>2, <1>8, <1>9, <1>10, ServedIs, Zenon

LEMMA UnknownKeeps ==
  ASSUME LettersInv, NEW c \in Client, ServeUnknown(c)
  PROVE  LettersInv'
<1>1. PICK ids : ids = Range(Id) \ {"CONNECTION OPEN", "CONNECTION CLOSE"}
  OBVIOUS
<1>2. Taking(c, ids)
  BY <1>1, Zenon DEF ServeUnknown
<1>3. PICK o : o = Incoming(c)
  OBVIOUS
<1>4. o \in Object /\ sent' = sent
  BY <1>2, <1>3, IncomingFacts, Zenon
<1>5. PICK no : no = Say(Said([o EXCEPT !.status_code = COMMAND_INVALID]), "ERROR", c)
  OBVIOUS
<1>6. Ends(no) /\ readers' = readers /\ UNCHANGED stores /\ UNCHANGED addresses
  BY <1>3, <1>5, Zenon DEF ServeUnknown
<1>7. no \in Speeches(sent)
  <2>1. COMMAND_INVALID \in Number16 /\ o \in Object /\ "ERROR" \in {"OK", "ERROR"}
    BY <1>4, StatusCodes
  <2> QED BY <1>5, <2>1, AnswerIs, Zenon
<1>8. BrokerInv'
  BY <1>4, <1>6, <1>7, EndsIs, Zenon
<1>9. AddressInv' /\ StoredInv'
  BY <1>4, <1>6, AddressStays, StoredStays, Zenon
<1>10. readers' \in Seq(Client)
  BY <1>6, Zenon DEF LettersInv
<1> QED BY <1>2, <1>8, <1>9, <1>10, ServedIs, Zenon

\* After OK the service has an offer, and its queue is handed out.
LEMMA OfferKeeps ==
  ASSUME LettersInv, NEW c \in Client, ServeOffer(c)
  PROVE  LettersInv'
<1>1. PICK ids : ids = {"SERVICE OFFER"}
  OBVIOUS
<1>2. Taking(c, ids)
  BY <1>1, Zenon DEF ServeOffer
<1>3. PICK o : o = Incoming(c)
  OBVIOUS
<1>4. o \in Object /\ sent' = sent
  BY <1>2, <1>3, IncomingFacts, Zenon
<1>5. PICK more : more = Append(offers, c)
  OBVIOUS
<1>6. PICK ok : ok = Say([Said(o) EXCEPT !.offers = Append(@, c)], "OK", c)
  OBVIOUS
<1>7. /\ Ends(DispatchAll(ok, queue)) /\ queue' = <<>>
      /\ UNCHANGED addresses /\ readers' = readers /\ mailbox' = mailbox /\ traffic' = traffic
  BY <1>3, <1>6, Zenon DEF ServeOffer
<1>8. /\ sent \in History /\ down \in Wires(sent) /\ offers \in Seq(Client)
      /\ readers \in Seq(Client) /\ queue \in Seq(ServiceMails(sent))
      /\ mailbox \in Seq(MailboxMails(sent)) /\ traffic \in Seq(Traffic(sent))
  BY Zenon DEF LettersInv, BrokerInv, StoredInv
<1>9. more \in Seq(Client) /\ more # <<>>
  <2>1. offers \in Seq(Client)
    BY <1>8, Zenon
  <2>2. Append(offers, c) \in Seq(Client) /\ Len(Append(offers, c)) = Len(offers) + 1
        /\ Len(offers) \in Nat
    BY ONLY <2>1, c \in Client
  <2>3. Append(offers, c) # <<>>
    <3>1. Len(<<>>) = 0
      OBVIOUS
    <3> QED BY <2>2, <3>1
  <2> QED BY <1>5, <2>2, <2>3, Zenon
<1>10. [Said(o) EXCEPT !.offers = Append(@, c)] = Speech(o, down, more)
  <2>1. Said(o) = Speech(o, down, offers)
    BY <1>4, SaidIs, Zenon
  <2>2. Said(o).offers = offers
    BY Zenon DEF Said
  <2>3. [Said(o) EXCEPT !.offers = Append(@, c)] = Offering(Said(o), more)
    BY <1>5, <2>2, Zenon DEF Offering
  <2>4. Offering(Speech(o, down, offers), more) = Speech(o, down, more)
    BY ONLY SpeechOffered
  <2> QED BY <2>1, <2>3, <2>4, Zenon
<1>11. PICK said : said = Speech(o, down, more)
  OBVIOUS
<1>12. said \in Speeches(sent)
  BY <1>4, <1>8, <1>9, <1>11, SpeechIn, Zenon
<1>13. said.offers = more
  <2>1. Speech(o, down, more).offers = more
    BY ONLY SpeechIs
  <2> QED BY <1>11, <2>1, Zenon
<1>14. ok = Say(said, "OK", c)
  BY <1>6, <1>10, <1>11, Zenon
<1>15. ok \in Ready(sent)
  <2>1. "OK" \in {"OK", "ERROR"}
    OBVIOUS
  <2>2. ok \in Speeches(sent)
    BY <1>12, <1>14, <2>1, ReplyIs, Zenon
  <2>3. ok.offers = more
    BY <1>12, <1>13, <1>14, <2>1, ReplyIs, Zenon
  <2> QED BY <1>9, <2>2, <2>3, Zenon DEF Ready
<1>16. DispatchAll(ok, queue) \in Ready(sent)
  <2>1. PICK M : M = ServiceMails(sent)
    OBVIOUS
  <2>2. queue \in Seq(M)
    BY <1>8, <2>1, Zenon
  <2> QED BY <1>8, <1>15, <2>1, <2>2, DispatchAllIs, Zenon
<1>17. BrokerInv'
  <2>1. DispatchAll(ok, queue) \in Speeches(sent)
    BY <1>16, Zenon DEF Ready
  <2> QED BY <1>4, <1>7, <2>1, EndsIs, Zenon
<1>18. AddressInv'
  BY <1>7, AddressStays, Zenon
<1>19. StoredInv'
  <2>1. queue' \in Seq(ServiceMails(sent'))
    BY <1>7, EmptyStays, Zenon
  <2>2. mailbox' \in Seq(MailboxMails(sent')) /\ traffic' \in Seq(Traffic(sent'))
    BY <1>4, <1>7, <1>8, Zenon
  <2> QED BY <2>1, <2>2, Zenon DEF StoredInv
<1>20. readers' \in Seq(Client)
  BY <1>7, <1>8, Zenon
<1> QED BY <1>2, <1>17, <1>18, <1>19, <1>20, ServedIs, Zenon

\* A list of clients without this one.
LEMMA OthersAre ==
  ASSUME NEW list \in Seq(Client), NEW c
  PROVE  Others(list, c) \in Seq(Client \cap (Client \ {c})) /\ Others(list, c) \in Seq(Client)
<1>1. Others(list, c) \in Seq(Client \cap (Client \ {c}))
  BY AmongIs, Zenon DEF Others
<1>2. Client \cap (Client \ {c}) \subseteq Client
  OBVIOUS
<1> QED BY <1>1, <1>2, SubsetLists, Zenon

\* The content has left the object.
LEMMA EmptiedIs ==
  ASSUME NEW o \in Object
  PROVE  WithoutContent(o) \in Object
<1>1. WithoutContent(o) = With(o, "content", NoContent)
  BY Zenon DEF WithoutContent, With
<1>2. "content" \in ProtoFields
  BY FieldNames
<1>3. NoContent \in Held("content")
  BY FieldsAre, Zenon
<1> QED BY <1>1, <1>2, <1>3, SetStays, Zenon

\* What the engine has for the readers of a letter to the stream.
LEMMA TrafficFor ==
  ASSUME NEW ls \in History, NEW c \in Client, NEW n \in DOMAIN ls,
         ls[n].id = "STREAM SEND", ls[n].from = c, NEW d \in Client \ {c}
  PROVE  [client |-> d, msg |-> Mail(ls, n, NoText)] \in Traffic(ls)
<1>1. PICK id : id = "STREAM SEND"
  OBVIOUS
<1>2. PICK msg : msg = Mail(ls, n, NoText)
  OBVIOUS
<1>3. msg \in Mails(ls, id)
  <2>1. NoText \in Trackers
    BY Zenon DEF Trackers
  <2>2. Mail(ls, n, NoText) \in Mails(ls, ls[n].id)
    BY <2>1, MailIs, Zenon
  <2> QED BY <1>1, <1>2, <2>2, Zenon
<1>4. msg.sender = AddressOf[c]
  BY <1>2, Zenon DEF Mail
<1>5. AddressOf[d] # AddressOf[c] /\ d \in Client /\ c \in Client
  BY AddressAssumption
<1>6. PICK item : item = [client |-> d, msg |-> msg]
  OBVIOUS
<1>7. item.client = d /\ item.msg = msg
  BY <1>6, Zenon
<1>8. PICK Ms : Ms = Mails(ls, id)
  OBVIOUS
<1>9. item \in [client : Client \cup {NoRoute}, msg : Ms]
  BY <1>3, <1>5, <1>6, <1>8, Zenon
<1>10. AddressOf[item.client] # item.msg.sender
  BY <1>4, <1>5, <1>7, Zenon
<1> QED BY <1>1, <1>2, <1>6, <1>8, <1>9, <1>10, Zenon DEF Traffic

LEMMA StreamSendKeeps ==
  ASSUME LettersInv, NEW c \in Client, ServeStreamSend(c)
  PROVE  LettersInv'
<1>1. PICK ids : ids = {"STREAM SEND"}
  OBVIOUS
<1>2. Taking(c, ids) /\ Known(c)
  BY <1>1, Zenon DEF ServeStreamSend
<1>3. PICK o : o = Incoming(c)
  OBVIOUS
<1>4. o \in Object /\ o.id \in ids /\ sent' = sent
  BY <1>2, <1>3, IncomingFacts, Zenon
<1>5. PICK n \in DOMAIN sent : Asks(sent, c, o, n)
  <2>1. o.id \in Posts
    BY <1>1, <1>4, Zenon DEF Posts
  <2> QED BY <1>2, <1>3, <2>1, IncomingFacts, Zenon
<1>6. PICK msg : msg = MsgNew(addresses[c], StreamName, o, NoText)
  OBVIOUS
<1>7. PICK others : others = Others(readers, c)
  OBVIOUS
<1>8. PICK more : more = [i \in DOMAIN others |-> [client |-> others[i], msg |-> msg]]
  OBVIOUS
<1>9. /\ traffic' = traffic \o more
      /\ Ends(Said(WithoutContent(o)))
      /\ UNCHANGED addresses /\ readers' = readers /\ mailbox' = mailbox /\ queue' = queue
  BY <1>3, <1>6, <1>7, <1>8, Zenon DEF ServeStreamSend
<1>10. /\ sent \in History /\ readers \in Seq(Client) /\ queue \in Seq(ServiceMails(sent))
       /\ mailbox \in Seq(MailboxMails(sent)) /\ traffic \in Seq(Traffic(sent))
  BY Zenon DEF LettersInv, StoredInv
<1>11. addresses[c] = AddressOf[c]
  BY <1>2, Zenon DEF LettersInv, AddressInv, Known
<1>12. sent[n].id = "STREAM SEND" /\ sent[n].from = c
  BY <1>1, <1>4, <1>5, Zenon DEF Asks
<1>13. msg = Mail(sent, n, NoText)
  <2>1. o.id = "STREAM SEND"
    BY <1>1, <1>4, Zenon
  <2>2. MsgNew(AddressOf[c], StreamName, o, NoText) = Mail(sent, n, NoText)
    BY <1>4, <1>5, <1>10, <2>1, AskedStream, Zenon
  <2> QED BY <1>6, <1>11, <2>2, Zenon
<1>14. PICK T : T = Traffic(sent)
  OBVIOUS
<1>15. more \in Seq(T)
  <2>1. PICK R : R = Client \cap (Client \ {c})
    OBVIOUS
  <2>2. others \in Seq(R)
    BY <1>7, <1>10, <2>1, OthersAre, Zenon
  <2>3. ASSUME NEW d \in R PROVE [client |-> d, msg |-> msg] \in T
    <3>1. d \in Client \ {c}
      BY <2>1
    <3>2. [client |-> d, msg |-> Mail(sent, n, NoText)] \in Traffic(sent)
      BY <1>5, <1>10, <1>12, <3>1, TrafficFor, Zenon
    <3> QED BY <1>13, <1>14, <3>2, Zenon
  <2>4. PICK k \in Nat : k = Len(others) /\ DOMAIN others = 1 .. k
                         /\ \A i \in 1 .. k : others[i] \in R
    BY <2>2
  <2>5. \A i \in 1 .. k : [client |-> others[i], msg |-> msg] \in T
    BY <2>3, <2>4, Zenon
  <2>6. more \in [1 .. k -> T]
    BY <1>8, <2>4, <2>5, Zenon
  <2> QED BY ONLY <2>4, <2>6
<1>16. traffic' \in Seq(T)
  <2>1. traffic \in Seq(T)
    BY <1>10, <1>14, Zenon
  <2>2. traffic \o more \in Seq(T)
    BY <1>15, <2>1, JoinEntries, Zenon
  <2> QED BY <1>9, <2>2, Zenon
<1>17. BrokerInv'
  <2>1. Said(WithoutContent(o)) \in Speeches(sent)
    BY <1>4, EmptiedIs, SaidIs, Zenon
  <2> QED BY <1>4, <1>9, <2>1, EndsIs, Zenon
<1>18. AddressInv'
  BY <1>9, AddressStays, Zenon
<1>19. StoredInv'
  BY <1>4, <1>9, <1>10, <1>14, <1>16, Zenon DEF StoredInv
<1>20. readers' \in Seq(Client)
  BY <1>9, <1>10, Zenon
<1> QED BY <1>2, <1>17, <1>18, <1>19, <1>20, ServedIs, Zenon

\* The message that the broker makes of a command to an address or a service.
LEMMA AskedFor ==
  ASSUME LettersInv, NEW c \in Client, NEW ids, Taking(c, ids), Known(c),
         ids \subseteq Posts \ {"STREAM SEND"}
  PROVE  \E n \in DOMAIN sent :
           /\ sent[n].id = Incoming(c).id /\ sent[n].address = Incoming(c).address
           /\ Incoming(c).tracker \in Trackers
           /\ MsgNew(addresses[c], Incoming(c).address, Incoming(c), Incoming(c).tracker)
                = Mail(sent, n, Incoming(c).tracker)
<1>1. PICK o : o = Incoming(c)
  OBVIOUS
<1>2. o \in Object /\ o.id \in ids
  BY <1>1, IncomingFacts, Zenon
<1>3. o.id \in Posts /\ o.id # "STREAM SEND"
  BY <1>2, Zenon
<1>4. PICK n \in DOMAIN sent : Asks(sent, c, o, n)
  BY <1>1, <1>3, IncomingFacts, Zenon
<1>5. sent \in History
  BY Zenon DEF LettersInv
<1>6. addresses[c] = AddressOf[c]
  BY Zenon DEF LettersInv, AddressInv, Known
<1>7. MsgNew(AddressOf[c], o.address, o, o.tracker) = Mail(sent, n, o.tracker)
  BY <1>2, <1>3, <1>4, <1>5, AskedMail, Zenon
<1>8. o.tracker \in Trackers
  <2>1. "tracker" \in ProtoFields
    BY FieldNames
  <2>2. o["tracker"] \in Held("tracker")
    BY <1>2, <2>1, Zenon DEF Object
  <2>3. Held("tracker") = Texts
    BY FieldsAre, TextNames, Zenon
  <2> QED BY <2>2, <2>3, Zenon DEF Trackers
<1>9. sent[n].id = o.id /\ sent[n].address = o.address
  BY <1>3, <1>4, Zenon DEF Asks
<1> QED BY <1>1, <1>6, <1>7, <1>8, <1>9, Zenon

LEMMA MailboxSendKeeps ==
  ASSUME LettersInv, NEW c \in Client, ServeMailboxSend(c)
  PROVE  LettersInv'
<1>1. PICK ids : ids = {"MAILBOX SEND"}
  OBVIOUS
<1>2. Taking(c, ids) /\ Known(c)
  BY <1>1, Zenon DEF ServeMailboxSend
<1>3. PICK o : o = Incoming(c)
  OBVIOUS
<1>4. o \in Object /\ o.id \in ids /\ sent' = sent
  BY <1>2, <1>3, IncomingFacts, Zenon
<1>5. PICK msg : msg = MsgNew(addresses[c], o.address, o, o.tracker)
  OBVIOUS
<1>6. PICK n \in DOMAIN sent :
        /\ sent[n].id = o.id /\ sent[n].address = o.address
        /\ o.tracker \in Trackers /\ msg = Mail(sent, n, o.tracker)
  <2>1. ids \subseteq Posts \ {"STREAM SEND"}
    BY <1>1 DEF Posts
  <2> QED BY <1>2, <1>3, <1>5, <2>1, AskedFor, Zenon
<1>7. PICK said : said = Said(WithoutContent(o))
  OBVIOUS
<1>8. said \in Speeches(sent)
  BY <1>4, <1>7, EmptiedIs, SaidIs, Zenon
<1>9. /\ \/ \E d \in Client :
              /\ addresses[d] = o.address
              /\ Ends(Deliver(said, "MAILBOX DELIVER", d, msg))
              /\ mailbox' = mailbox
         \/ mailbox' = Append(mailbox, msg) /\ Ends(said)
      /\ UNCHANGED addresses /\ readers' = readers /\ queue' = queue /\ traffic' = traffic
  BY <1>3, <1>5, <1>7, Zenon DEF ServeMailboxSend
<1>10. /\ sent \in History /\ readers \in Seq(Client) /\ queue \in Seq(ServiceMails(sent))
       /\ mailbox \in Seq(MailboxMails(sent)) /\ traffic \in Seq(Traffic(sent))
  BY Zenon DEF LettersInv, StoredInv
<1>11. PICK M : M = MailboxMails(sent)
  OBVIOUS
<1>12. msg \in M
  <2>1. Mail(sent, n, o.tracker) \in Mails(sent, sent[n].id)
    BY <1>6, MailIs, Zenon
  <2>2. sent[n].id = "MAILBOX SEND"
    BY <1>1, <1>4, <1>6, Zenon
  <2> QED BY <1>6, <1>11, <2>1, <2>2, Zenon DEF MailboxMails
<1>13. AddressInv' /\ readers' \in Seq(Client)
  BY <1>9, <1>10, AddressStays, Zenon
<1>14. queue' \in Seq(ServiceMails(sent')) /\ traffic' \in Seq(Traffic(sent'))
  BY <1>4, <1>9, <1>10, Zenon
<1>15. ASSUME NEW d \in Client, addresses[d] = o.address,
              Ends(Deliver(said, "MAILBOX DELIVER", d, msg)), mailbox' = mailbox
       PROVE  BrokerInv' /\ mailbox' \in Seq(MailboxMails(sent'))
  <2>1. msg.address = o.address
    BY <1>6, Zenon DEF Mail
  <2>2. addresses[d] # NoText
    <3>1. sent[n].address \in Texts
      BY <1>10, HistoryFacts, Zenon
    <3> QED BY <1>6, <1>15, <3>1, TextFacts, Zenon
  <2>3. addresses[d] = AddressOf[d]
    BY <2>2, Zenon DEF LettersInv, AddressInv
  <2>4. msg \in Deliverable(sent, "MAILBOX DELIVER", d)
    <3>1. msg \in MailboxMails(sent) /\ msg.address = AddressOf[d]
      BY <1>11, <1>12, <1>15, <2>1, <2>3, Zenon
    <3> QED BY <1>10, <3>1, MailToIs, Zenon
  <2>5. Deliver(said, "MAILBOX DELIVER", d, msg) \in Speeches(sent)
    BY <1>8, <1>10, <2>4, DeliverIs, Zenon
  <2>6. BrokerInv'
    BY <1>4, <1>15, <2>5, EndsIs, Zenon
  <2>7. mailbox' \in Seq(MailboxMails(sent'))
    BY <1>4, <1>10, <1>15, Zenon
  <2> QED BY <2>6, <2>7
<1>16. ASSUME mailbox' = Append(mailbox, msg), Ends(said)
       PROVE  BrokerInv' /\ mailbox' \in Seq(MailboxMails(sent'))
  <2>1. BrokerInv'
    BY <1>4, <1>8, <1>16, EndsIs, Zenon
  <2>2. mailbox \in Seq(M)
    BY <1>10, <1>11, Zenon
  <2>3. Append(mailbox, msg) \in Seq(M)
    BY ONLY <1>12, <2>2
  <2>4. mailbox' \in Seq(MailboxMails(sent'))
    BY <1>4, <1>11, <1>16, <2>3, Zenon
  <2> QED BY <2>1, <2>4
<1>17. BrokerInv' /\ mailbox' \in Seq(MailboxMails(sent'))
  BY <1>9, <1>15, <1>16, Zenon
<1>18. StoredInv'
  BY <1>14, <1>17, Zenon DEF StoredInv
<1> QED BY <1>2, <1>13, <1>17, <1>18, ServedIs, Zenon

LEMMA ServiceSendKeeps ==
  ASSUME LettersInv, NEW c \in Client, ServeServiceSend(c)
  PROVE  LettersInv'
<1>1. PICK ids : ids = {"SERVICE SEND"}
  OBVIOUS
<1>2. Taking(c, ids) /\ Known(c)
  BY <1>1, Zenon DEF ServeServiceSend
<1>3. PICK o : o = Incoming(c)
  OBVIOUS
<1>4. o \in Object /\ o.id \in ids /\ sent' = sent
  BY <1>2, <1>3, IncomingFacts, Zenon
<1>5. PICK msg : msg = MsgNew(addresses[c], o.address, o, o.tracker)
  OBVIOUS
<1>6. PICK n \in DOMAIN sent :
        /\ sent[n].id = o.id /\ sent[n].address = o.address
        /\ o.tracker \in Trackers /\ msg = Mail(sent, n, o.tracker)
  <2>1. ids \subseteq Posts \ {"STREAM SEND"}
    BY <1>1 DEF Posts
  <2> QED BY <1>2, <1>3, <1>5, <2>1, AskedFor, Zenon
<1>7. PICK said : said = Said(WithoutContent(o))
  OBVIOUS
<1>8. said \in Speeches(sent) /\ said.offers = offers
  <2>1. said \in Speeches(sent)
    BY <1>4, <1>7, EmptiedIs, SaidIs, Zenon
  <2>2. said.offers = offers
    BY <1>7, Zenon DEF Said
  <2> QED BY <2>1, <2>2
<1>9. /\ \/ offers # <<>> /\ Ends(Dispatch(said, msg)) /\ queue' = queue
         \/ queue' = Append(queue, msg) /\ Ends(said)
      /\ UNCHANGED addresses /\ readers' = readers /\ mailbox' = mailbox /\ traffic' = traffic
  BY <1>3, <1>5, <1>7, Zenon DEF ServeServiceSend
<1>10. /\ sent \in History /\ readers \in Seq(Client) /\ queue \in Seq(ServiceMails(sent))
       /\ mailbox \in Seq(MailboxMails(sent)) /\ traffic \in Seq(Traffic(sent))
  BY Zenon DEF LettersInv, StoredInv
<1>11. PICK M : M = ServiceMails(sent)
  OBVIOUS
<1>12. msg \in M
  <2>1. Mail(sent, n, o.tracker) \in Mails(sent, sent[n].id)
    BY <1>6, MailIs, Zenon
  <2>2. sent[n].id = "SERVICE SEND"
    BY <1>1, <1>4, <1>6, Zenon
  <2> QED BY <1>6, <1>11, <2>1, <2>2, Zenon DEF ServiceMails
<1>13. AddressInv' /\ readers' \in Seq(Client)
  BY <1>9, <1>10, AddressStays, Zenon
<1>14. mailbox' \in Seq(MailboxMails(sent')) /\ traffic' \in Seq(Traffic(sent'))
  BY <1>4, <1>9, <1>10, Zenon
<1>15. ASSUME offers # <<>>, Ends(Dispatch(said, msg)), queue' = queue
       PROVE  BrokerInv' /\ queue' \in Seq(ServiceMails(sent'))
  <2>1. said \in Ready(sent)
    BY <1>8, <1>15, Zenon DEF Ready
  <2>2. Dispatch(said, msg) \in Ready(sent)
    BY <1>10, <1>11, <1>12, <2>1, DispatchIs, Zenon
  <2>3. Dispatch(said, msg) \in Speeches(sent)
    BY <2>2, Zenon DEF Ready
  <2>4. BrokerInv'
    BY <1>4, <1>15, <2>3, EndsIs, Zenon
  <2>5. queue' \in Seq(ServiceMails(sent'))
    BY <1>4, <1>10, <1>15, Zenon
  <2> QED BY <2>4, <2>5
<1>16. ASSUME queue' = Append(queue, msg), Ends(said)
       PROVE  BrokerInv' /\ queue' \in Seq(ServiceMails(sent'))
  <2>1. BrokerInv'
    BY <1>4, <1>8, <1>16, EndsIs, Zenon
  <2>2. queue \in Seq(M)
    BY <1>10, <1>11, Zenon
  <2>3. Append(queue, msg) \in Seq(M)
    BY ONLY <1>12, <2>2
  <2>4. queue' \in Seq(ServiceMails(sent'))
    BY <1>4, <1>11, <1>16, <2>3, Zenon
  <2> QED BY <2>1, <2>4
<1>17. BrokerInv' /\ queue' \in Seq(ServiceMails(sent'))
  BY <1>9, <1>15, <1>16, Zenon
<1>18. StoredInv'
  BY <1>14, <1>17, Zenon DEF StoredInv
<1> QED BY <1>2, <1>13, <1>17, <1>18, ServedIs, Zenon

\* What the engine has for a client that went.
Dead(item, c) ==
  IF item.client = c THEN [item EXCEPT !.client = NoRoute] ELSE item

LEMMA DeadIs ==
  ASSUME NEW ls, NEW item \in Traffic(ls), NEW c
  PROVE  Dead(item, c) \in Traffic(ls)
<1>1. PICK Ms : Ms = Mails(ls, "STREAM SEND")
  OBVIOUS
<1>2. /\ item \in [client : Client \cup {NoRoute}, msg : Ms]
      /\ item.client # NoRoute => AddressOf[item.client] # item.msg.sender
  BY <1>1, Zenon DEF Traffic
<1>3. PICK dead : dead = [item EXCEPT !.client = NoRoute]
  OBVIOUS
<1>4. dead \in [client : Client \cup {NoRoute}, msg : Ms] /\ dead.client = NoRoute
  BY ONLY <1>2, <1>3
<1>5. dead \in Traffic(ls)
  BY <1>1, <1>4, Zenon DEF Traffic
<1> QED BY <1>3, <1>5, Zenon DEF Dead

LEMMA DeregisterKeeps ==
  ASSUME LettersInv, NEW c \in Client, NEW ids, Taking(c, ids),
         NEW said \in Speeches(sent), Deregister(c, said)
  PROVE  LettersInv'
<1>1. PICK o, d, f : /\ o = said.o /\ d = said.down /\ f = said.offers
                     /\ o \in Object /\ d \in Wires(sent) /\ f \in Seq(Client)
                     /\ said = Speech(o, d, f)
  BY SpeechHas, Zenon
<1>2. sent' = sent
  BY TakingIs, Zenon
<1>3. PICK p, g : p = With(o, "status_code", SUCCESS) /\ g = Others(f, c)
  OBVIOUS
<1>4. p \in Object /\ g \in Seq(Client)
  <2>1. "status_code" \in ProtoFields
    BY FieldNames
  <2>2. Held("status_code") = Number16
    BY FieldsAre, Zenon
  <2>3. SUCCESS \in Held("status_code")
    BY <2>2, StatusCodes, Zenon
  <2>4. p \in Object
    BY <1>1, <1>3, <2>1, <2>3, SetStays, Zenon
  <2>5. g \in Seq(Client)
    BY <1>1, <1>3, OthersAre, Zenon
  <2> QED BY <2>4, <2>5
<1>5. PICK last : last = [said EXCEPT !.o.status_code = SUCCESS, !.offers = Others(@, c)]
  OBVIOUS
<1>6. /\ Ends(last)
      /\ addresses' = [addresses EXCEPT ![c] = NoText]
      /\ readers' = Others(readers, c)
      /\ traffic' = [i \in DOMAIN traffic |-> Dead(traffic[i], c)]
      /\ mailbox' = mailbox /\ queue' = queue
  BY <1>5, Zenon DEF Deregister, Dead
<1>7. last = Speech(p, d, g)
  <2>1. last = Offering(Holding(said, p), g)
    BY <1>1, <1>3, <1>5, Zenon DEF Offering, Holding, With
  <2>2. Holding(Speech(o, d, f), p) = Speech(p, d, f)
    BY ONLY SpeechHeld
  <2>3. Offering(Speech(p, d, f), g) = Speech(p, d, g)
    BY ONLY SpeechOffered
  <2> QED BY <1>1, <2>1, <2>2, <2>3, Zenon
<1>8. BrokerInv'
  <2>1. last \in Speeches(sent)
    BY <1>1, <1>4, <1>7, SpeechIn, Zenon
  <2> QED BY <1>2, <1>6, <2>1, EndsIs, Zenon
<1>9. AddressInv'
  <2>1. /\ addresses \in [Client -> Texts \cup {NoText}]
        /\ \A b \in Client : addresses[b] # NoText => addresses[b] = AddressOf[b]
    BY Zenon DEF LettersInv, AddressInv
  <2>2. addresses' \in [Client -> Texts \cup {NoText}]
    BY <1>6, <2>1, Zenon
  <2>3. \A b \in Client : addresses'[b] # NoText => addresses'[b] = AddressOf[b]
    BY <1>6, <2>1, Zenon
  <2> QED BY <2>2, <2>3, Zenon DEF AddressInv
<1>10. readers' \in Seq(Client)
  <2>1. readers \in Seq(Client)
    BY Zenon DEF LettersInv
  <2> QED BY <1>6, <2>1, OthersAre, Zenon
<1>11. StoredInv'
  <2>1. PICK T : T = Traffic(sent)
    OBVIOUS
  <2>2. traffic \in Seq(T)
    BY <2>1, Zenon DEF LettersInv, StoredInv
  <2>3. PICK k \in Nat : DOMAIN traffic = 1 .. k /\ \A i \in 1 .. k : traffic[i] \in T
    BY <2>2
  <2>4. \A i \in 1 .. k : Dead(traffic[i], c) \in T
    BY <2>1, <2>3, DeadIs, Zenon
  <2>5. PICK rest : rest = [i \in DOMAIN traffic |-> Dead(traffic[i], c)]
    OBVIOUS
  <2>6. rest \in [1 .. k -> T]
    BY <2>3, <2>4, <2>5, Zenon
  <2>7. rest \in Seq(T)
    BY ONLY <2>3, <2>6
  <2>8. traffic' \in Seq(Traffic(sent'))
    BY <1>2, <1>6, <2>1, <2>5, <2>7, Zenon
  <2>9. mailbox' \in Seq(MailboxMails(sent')) /\ queue' \in Seq(ServiceMails(sent'))
    BY <1>2, <1>6, Zenon DEF LettersInv, StoredInv
  <2> QED BY <2>8, <2>9, Zenon DEF StoredInv
<1> QED BY <1>8, <1>9, <1>10, <1>11, ServedIs, Zenon

LEMMA CloseKeeps ==
  ASSUME LettersInv, NEW c \in Client, ServeClose(c)
  PROVE  LettersInv'
<1>1. PICK ids : ids = {"CONNECTION CLOSE"}
  OBVIOUS
<1>2. Taking(c, ids)
  BY <1>1, Zenon DEF ServeClose
<1>3. PICK o : o = Incoming(c)
  OBVIOUS
<1>4. o \in Object
  BY <1>2, <1>3, IncomingFacts, Zenon
<1>5. PICK ok : ok = Say(Said(o), "OK", c)
  OBVIOUS
<1>6. ok \in Speeches(sent)
  <2>1. "OK" \in {"OK", "ERROR"}
    OBVIOUS
  <2>2. Said(o) \in Speeches(sent)
    BY <1>4, SaidIs, Zenon
  <2> QED BY <1>5, <2>1, <2>2, ReplyIs, Zenon
<1>7. Deregister(c, ok)
  BY <1>3, <1>5, Zenon DEF ServeClose
<1> QED BY <1>2, <1>6, <1>7, DeregisterKeeps, Zenon

LEMMA RefusedKeeps ==
  ASSUME LettersInv, NEW c \in Client, ServeStreamSendRefused(c)
  PROVE  LettersInv'
<1>1. PICK ids : ids = {"STREAM SEND"}
  OBVIOUS
<1>2. Taking(c, ids)
  BY <1>1, Zenon DEF ServeStreamSendRefused
<1>3. PICK o : o = Incoming(c)
  OBVIOUS
<1>4. o \in Object
  BY <1>2, <1>3, IncomingFacts, Zenon
<1>5. PICK no : no = Say(Said([o EXCEPT !.status_code = FAILED]), "ERROR", c)
  OBVIOUS
<1>6. no \in Speeches(sent)
  <2>1. FAILED \in Number16 /\ o \in Object /\ "ERROR" \in {"OK", "ERROR"}
    BY <1>4, StatusCodes
  <2> QED BY <1>5, <2>1, AnswerIs, Zenon
<1>7. Deregister(c, no)
  BY <1>3, <1>5, Zenon DEF ServeStreamSendRefused
<1> QED BY <1>2, <1>6, <1>7, DeregisterKeeps, Zenon

LEMMA ForwardKeeps ==
  ASSUME LettersInv, Forward
  PROVE  LettersInv'
<1>1. /\ traffic # <<>> /\ traffic' = Tail(traffic)
      /\ proto' = proto /\ up' = up /\ UNCHANGED addresses /\ readers' = readers
      /\ mailbox' = mailbox /\ queue' = queue /\ sent' = sent /\ app' = app
  BY Zenon DEF Forward, clients
<1>2. /\ sent \in History /\ server \in Object /\ down \in Wires(sent) /\ offers \in Seq(Client)
  BY Zenon DEF LettersInv, BrokerInv
<1>3. PICK T, item : T = Traffic(sent) /\ item = Head(traffic)
  OBVIOUS
<1>4. traffic \in Seq(T)
  BY <1>3, Zenon DEF LettersInv, StoredInv
<1>5. item \in T /\ Tail(traffic) \in Seq(T)
  <2>1. traffic \in Seq(T) /\ traffic # <<>>
    BY <1>1, <1>4, Zenon
  <2>2. Head(traffic) \in T /\ Tail(traffic) \in Seq(T)
    BY ONLY <2>1
  <2> QED BY <1>3, <2>2, Zenon
<1>6. BrokerInv'
  <2>1. CASE item.client = NoRoute
    <3>1. server' = server /\ down' = down /\ offers' = offers
      BY <1>3, <2>1, Zenon DEF Forward
    <3> QED BY <1>1, <1>2, <3>1, Zenon DEF BrokerInv
  <2>2. CASE item.client # NoRoute
    <3>1. PICK c, msg : c = item.client /\ msg = item.msg
      OBVIOUS
    <3>2. Ends(Deliver(Said(server), "STREAM DELIVER", c, msg))
      BY <1>3, <2>2, <3>1, Zenon DEF Forward
    <3>3. PICK id : id = "STREAM SEND"
      OBVIOUS
    <3>4. PICK Ms : Ms = Mails(sent, id)
      OBVIOUS
    <3>5. item \in [client : Client \cup {NoRoute}, msg : Ms]
          /\ AddressOf[item.client] # item.msg.sender
      BY <1>3, <1>5, <2>2, <3>3, <3>4, Zenon DEF Traffic
    <3>6. c \in Client /\ msg \in Ms /\ AddressOf[c] # msg.sender
      BY <2>2, <3>1, <3>5
    <3>7. PICK n \in DOMAIN sent : sent[n].id = id /\ \E t \in Trackers : msg = Mail(sent, n, t)
      <4>1. msg \in Mails(sent, id)
        BY <3>4, <3>6, Zenon
      <4> QED BY ONLY <4>1, MailHas
    <3>8. PICK t \in Trackers : msg = Mail(sent, n, t)
      BY <3>7, Zenon
    <3>9. msg.sender = AddressOf[sent[n].from]
      BY <3>8, Zenon DEF Mail
    <3>10. MayHave(sent, c, n)
      BY <3>3, <3>6, <3>7, <3>9, Zenon DEF MayHave
    <3>11. DeliverOf(sent[n].id) = "STREAM DELIVER"
      BY <3>3, <3>7, DeliverIds, Zenon
    <3>12. Mail(sent, n, t) \in Deliverable(sent, DeliverOf(sent[n].id), c)
      BY <3>10, DeliverableIs, Zenon
    <3>13. Said(server) \in Speeches(sent)
      BY <1>2, SaidIs, Zenon
    <3>14. msg \in Deliverable(sent, "STREAM DELIVER", c)
      BY <3>8, <3>11, <3>12, Zenon
    <3>15. Deliver(Said(server), "STREAM DELIVER", c, msg) \in Speeches(sent)
      BY <1>2, <3>6, <3>13, <3>14, DeliverIs, Zenon
    <3> QED BY <1>1, <3>2, <3>15, EndsIs, Zenon
  <2> QED BY <2>1, <2>2
<1>7. AddressInv'
  BY <1>1, AddressStays, Zenon
<1>8. StoredInv'
  <2>1. traffic' \in Seq(Traffic(sent'))
    BY <1>1, <1>3, <1>5, Zenon
  <2>2. mailbox' \in Seq(MailboxMails(sent')) /\ queue' \in Seq(ServiceMails(sent'))
    BY <1>1, Zenon DEF LettersInv, StoredInv
  <2> QED BY <2>1, <2>2, Zenon DEF StoredInv
<1> QED BY <1>1, <1>6, <1>7, <1>8, Zenon DEF LettersInv, AppInv

LEMMA ServerKeeps ==
  ASSUME LettersInv, NEW c \in Client, ServerNext(c)
  PROVE  LettersInv'
BY OpenKeeps, WriteKeeps, ReadKeeps, OfferKeeps, StreamSendKeeps, MailboxSendKeeps,
   ServiceSendKeeps, CloseKeeps, RefusedKeeps, UnknownKeeps, Zenon DEF ServerNext

-----------------------------------------------------------------------------
\* Each step of a client keeps the invariant

\* More letters were sent: what is under way stays under way.
LEMMA WiresGrow ==
  ASSUME NEW ls, NEW more, Extends(ls, more)
  PROVE  UpWires(ls) \subseteq UpWires(more) /\ Wires(ls) \subseteq Wires(more)
<1>1. \A c : Ups(ls, c) \subseteq Ups(more, c)
  BY AllGrow, Zenon
<1>2. \A c : Downs(ls, c) \subseteq Downs(more, c)
  BY AllGrow, Zenon
<1>3. ASSUME NEW c
      PROVE  /\ FramesOf(Ups(ls, c)) \subseteq FramesOf(Ups(more, c))
             /\ FramesOf(Downs(ls, c)) \subseteq FramesOf(Downs(more, c))
  BY <1>1, <1>2, Zenon DEF FramesOf
<1>4. ASSUME NEW w \in UpWires(ls) PROVE w \in UpWires(more)
  <2>1. w \in [Client -> Seq(Frame)] /\ \A c \in Client : Cut(w[c], FramesOf(Ups(ls, c)))
    BY Zenon DEF UpWires
  <2>2. \A c \in Client : Cut(w[c], FramesOf(Ups(more, c)))
    BY <1>3, <2>1, CutMore, Zenon
  <2> QED BY <2>1, <2>2, Zenon DEF UpWires
<1>5. ASSUME NEW w \in Wires(ls) PROVE w \in Wires(more)
  <2>1. w \in [Client -> Seq(Frame)] /\ \A c \in Client : Cut(w[c], FramesOf(Downs(ls, c)))
    BY Zenon DEF Wires
  <2>2. \A c \in Client : Cut(w[c], FramesOf(Downs(more, c)))
    BY <1>3, <2>1, CutMore, Zenon
  <2> QED BY <2>1, <2>2, Zenon DEF Wires
<1> QED BY <1>4, <1>5, Zenon

LEMMA StoresGrow ==
  ASSUME StoredInv, NEW more, Extends(sent, more), sent' = more, UNCHANGED stores
  PROVE  StoredInv'
<1>1. Mails(sent, "MAILBOX SEND") \subseteq Mails(more, "MAILBOX SEND")
  BY AllGrow, Zenon
<1>2. Mails(sent, "SERVICE SEND") \subseteq Mails(more, "SERVICE SEND")
  BY AllGrow, Zenon
<1>3. Traffic(sent) \subseteq Traffic(more)
  BY AllGrow, Zenon
<1>4. mailbox' = mailbox /\ queue' = queue /\ traffic' = traffic
  BY Zenon DEF stores
<1>5. mailbox \in Seq(MailboxMails(more))
  <2>1. MailboxMails(sent) \subseteq MailboxMails(more) /\ mailbox \in Seq(MailboxMails(sent))
    BY <1>1, Zenon DEF MailboxMails, StoredInv
  <2> QED BY <2>1, SubsetLists, Zenon
<1>6. queue \in Seq(ServiceMails(more))
  <2>1. ServiceMails(sent) \subseteq ServiceMails(more) /\ queue \in Seq(ServiceMails(sent))
    BY <1>2, Zenon DEF ServiceMails, StoredInv
  <2> QED BY <2>1, SubsetLists, Zenon
<1>7. traffic \in Seq(Traffic(more))
  <2>1. traffic \in Seq(Traffic(sent))
    BY Zenon DEF StoredInv
  <2> QED BY <1>3, <2>1, SubsetLists, Zenon
<1> QED BY <1>4, <1>5, <1>6, <1>7, Zenon DEF StoredInv

LEMMA AppGrows ==
  ASSUME AppInv, NEW more, Extends(sent, more), sent' = more, app' = app
  PROVE  AppInv'
<1>1. \A c \in Client : app[c] \in Seq(Arrived(more, c))
  <2>1. \A c : Arrived(sent, c) \subseteq Arrived(more, c)
    BY AllGrow, Zenon
  <2> QED BY <2>1, SubsetLists, Zenon DEF AppInv
<1>2. DOMAIN app = Client /\ app = [c \in Client |-> app[c]]
  BY Zenon DEF AppInv
<1>3. \A c \in Client : app[c] \in UNION {Seq(Arrived(more, b)) : b \in Client}
  BY <1>1, Zenon
<1>4. app \in [Client -> UNION {Seq(Arrived(more, b)) : b \in Client}]
  BY <1>2, <1>3, Zenon
<1> QED BY <1>1, <1>4, Zenon DEF AppInv

\* Client c sends its object, perhaps with one more letter.
LEMMA SendKeeps ==
  ASSUME LettersInv, NEW c \in Client, NEW more \in History, sent' = more, Extends(sent, more),
         NEW o \in Ups(more, c), Sends(c, o), UNCHANGED broker, UNCHANGED stores, app' = app
  PROVE  LettersInv'
<1>1. /\ proto \in [Client -> Object] /\ up \in UpWires(sent) /\ down \in Wires(sent)
      /\ server \in Object /\ offers \in Seq(Client) /\ readers \in Seq(Client)
      /\ StoredInv /\ AppInv
  BY Zenon DEF LettersInv, BrokerInv
<1>2. up \in UpWires(more) /\ down \in Wires(more)
  BY <1>1, WiresGrow, Zenon
<1>3. proto' \in [Client -> Object]
  <2>1. o \in Object
    BY Zenon DEF Ups
  <2> QED BY <1>1, <2>1, Zenon DEF Sends
<1>4. up' \in UpWires(more)
  <2>1. up \in [Client -> Seq(Frame)] /\ \A b \in Client : Cut(up[b], FramesOf(Ups(more, b)))
    BY <1>2, Zenon DEF UpWires
  <2>2. Frames(o) \in FramesOf(Ups(more, c))
    BY Zenon DEF FramesOf
  <2>3. PICK longer : longer = up[c] \o Frames(o)
    OBVIOUS
  <2>4. Cut(longer, FramesOf(Ups(more, c)))
    BY <2>1, <2>2, <2>3, ChannelsAreWhole, CutAppend, Zenon
  <2>5. longer \in Seq(Frame)
    BY <2>4, Zenon DEF Cut
  <2>6. up' = [up EXCEPT ![c] = longer]
    BY <2>3, Zenon DEF Sends
  <2>7. up' \in [Client -> Seq(Frame)]
    BY <2>1, <2>5, <2>6, Zenon
  <2>8. \A b \in Client : Cut(up'[b], FramesOf(Ups(more, b)))
    BY <2>1, <2>4, <2>6, Zenon
  <2> QED BY <2>7, <2>8, Zenon DEF UpWires
<1>5. /\ server' = server /\ offers' = offers /\ readers' = readers /\ UNCHANGED addresses
      /\ down' = down
  BY Zenon DEF broker, Sends
<1>6. BrokerInv'
  BY <1>1, <1>2, <1>5, Zenon DEF BrokerInv
<1>7. AddressInv'
  BY <1>5, AddressStays, Zenon
<1>8. StoredInv' /\ AppInv'
  BY <1>1, StoresGrow, AppGrows, Zenon
<1> QED BY <1>1, <1>3, <1>4, <1>5, <1>6, <1>7, <1>8, Zenon DEF LettersInv

LEMMA ExtendsSelf ==
  ASSUME NEW ls
  PROVE  Extends(ls, ls)
BY Zenon DEF Extends

\* A command that posts nothing.
LEMMA CommandKeeps ==
  ASSUME LettersInv, NEW c \in Client, NEW o \in Object, o.id \in Range(Id) \ Posts,
         o.id = "CONNECTION OPEN" => o.address = AddressOf[c], Command(c, o)
  PROVE  LettersInv'
<1>1. o \in Ups(sent, c)
  BY Zenon DEF Ups
<1>2. /\ Sends(c, o) /\ UNCHANGED broker /\ UNCHANGED stores
      /\ sent' = sent /\ app' = app
  BY Zenon DEF Command
<1>3. sent \in History /\ Extends(sent, sent)
  BY ExtendsSelf, Zenon DEF LettersInv
<1> QED BY <1>1, <1>2, <1>3, SendKeeps, Zenon

\* The object of a client with its message set.
LEMMA NamedIs ==
  ASSUME NEW o \in Object, NEW id \in Range(Id)
  PROVE  With(o, "id", id) \in Object /\ With(o, "id", id).id = id
<1>1. "id" \in ProtoFields
  BY FieldNames
<1>2. Held("id") = Range(Id) \cup {"none"}
  BY FieldsAre, Zenon
<1>3. id \in Held("id")
  BY <1>2, Zenon
<1>4. With(o, "id", id) \in Object
  BY <1>1, <1>3, SetStays, Zenon
<1>5. Reads(o, "id", id, With(o, "id", id))
  BY <1>1, <1>3, SetReads, Zenon
<1> QED BY <1>1, <1>4, <1>5, Zenon DEF Reads

\* One text of it is set.
LEMMA WithText ==
  ASSUME NEW o \in Object, NEW f \in TextFields, NEW text \in Texts
  PROVE  /\ With(o, f, Fitting(text)) \in Object
         /\ Reads(o, f, text, With(o, f, Fitting(text)))
<1>1. f \in ProtoFields
  BY FieldsAre, Zenon
<1>2. Held(f) = Texts
  BY FieldsAre, Zenon
<1>3. text \in Held(f)
  BY <1>2, Zenon
<1>4. Fitting(text) = text
  BY TextFacts, Zenon
<1>5. With(o, f, text) \in Object
  BY <1>1, <1>3, SetStays, Zenon
<1>6. Reads(o, f, text, With(o, f, text))
  BY <1>1, <1>3, SetReads, Zenon
<1> QED BY <1>4, <1>5, <1>6, Zenon

LEMMA ConnectKeeps ==
  ASSUME LettersInv, NEW c \in Client, CallConnect(c)
  PROVE  LettersInv'
<1>1. proto[c] \in Object
  BY Zenon DEF LettersInv
<1>2. PICK id : id = "CONNECTION OPEN"
  OBVIOUS
<1>3. id \in Range(Id) /\ id \notin Posts
  <2>1. id \in Range(Id)
    BY <1>2, IdsAre, Zenon
  <2>2. id \notin Posts
    BY <1>2 DEF Posts
  <2> QED BY <2>1, <2>2
<1>4. PICK named, o : /\ named = With(proto[c], "id", id)
                      /\ o = With(named, "address", Fitting(AddressOf[c]))
  OBVIOUS
<1>5. named \in Object /\ named.id = id
  BY <1>1, <1>3, <1>4, NamedIs, Zenon
<1>6. "address" \in TextFields /\ AddressOf[c] \in Texts
  BY TextNames, NamesAreTexts, Zenon
<1>7. o \in Object
  BY <1>4, <1>5, <1>6, WithText, Zenon
<1>8. Reads(named, "address", AddressOf[c], o)
  BY <1>4, <1>5, <1>6, WithText, Zenon
<1>9. o.address = AddressOf[c] /\ o.id = id
  BY <1>5, <1>8, FieldNames, Zenon DEF Reads
<1>10. Command(c, o)
  BY <1>2, <1>4, Zenon DEF CallConnect, With
<1> QED BY <1>3, <1>7, <1>9, <1>10, CommandKeeps, Zenon

LEMMA ProducerKeeps ==
  ASSUME LettersInv, NEW c \in Client, CallSetProducer(c)
  PROVE  LettersInv'
<1>1. proto[c] \in Object
  BY Zenon DEF LettersInv
<1>2. PICK id : id = "STREAM WRITE"
  OBVIOUS
<1>3. id \in Range(Id) /\ id \notin Posts /\ id # "CONNECTION OPEN"
  <2>1. id \in Range(Id)
    BY <1>2, IdsAre, Zenon
  <2>2. id \notin Posts /\ id # "CONNECTION OPEN"
    BY <1>2 DEF Posts
  <2> QED BY <2>1, <2>2
<1>4. PICK named, o : /\ named = With(proto[c], "id", id)
                      /\ o = With(named, "stream", Fitting(StreamName))
  OBVIOUS
<1>5. named \in Object /\ named.id = id
  BY <1>1, <1>3, <1>4, NamedIs, Zenon
<1>6. "stream" \in TextFields /\ StreamName \in Texts
  BY TextNames, NamesAreTexts, Zenon
<1>7. o \in Object
  BY <1>4, <1>5, <1>6, WithText, Zenon
<1>8. Reads(named, "stream", StreamName, o)
  BY <1>4, <1>5, <1>6, WithText, Zenon
<1>9. o.id = id
  BY <1>5, <1>8, FieldNames, Zenon DEF Reads
<1>10. Command(c, o)
  BY <1>2, <1>4, Zenon DEF CallSetProducer, With
<1> QED BY <1>3, <1>7, <1>9, <1>10, CommandKeeps, Zenon

\* Two texts are set.
Named(id) == {o \in Object : o.id = id}
Titled(o, id, f, text, g, word) ==
  With(With(With(o, "id", id), f, Fitting(text)), g, Fitting(word))

LEMMA TwoTextsSet ==
  ASSUME NEW o \in Object, NEW id \in Range(Id), NEW f \in TextFields, NEW text \in Texts,
         NEW g \in TextFields, NEW word \in Texts
  PROVE  Titled(o, id, f, text, g, word) \in Named(id)
<1>1. PICK named, first, p : /\ named = With(o, "id", id)
                             /\ first = With(named, f, Fitting(text))
                             /\ p = With(first, g, Fitting(word))
  OBVIOUS
<1>2. named \in Object /\ named.id = id
  BY <1>1, NamedIs, Zenon
<1>3. first \in Object
  BY <1>1, <1>2, WithText, Zenon
<1>4. Reads(named, f, text, first)
  BY <1>1, <1>2, WithText, Zenon
<1>5. p \in Object
  BY <1>1, <1>3, WithText, Zenon
<1>6. Reads(first, g, word, p)
  BY <1>1, <1>3, WithText, Zenon
<1>7. "id" \in ProtoFields /\ f # "id" /\ g # "id"
  BY DEF ProtoFields, TextFields
<1>8. p.id = id
  BY <1>2, <1>4, <1>6, <1>7, Zenon DEF Reads
<1> QED BY <1>1, <1>5, <1>8, Zenon DEF Titled, Named

LEMMA ConsumerKeeps ==
  ASSUME LettersInv, NEW c \in Client, CallSetConsumer(c)
  PROVE  LettersInv'
<1>1. proto[c] \in Object
  BY Zenon DEF LettersInv
<1>2. PICK id : id = "STREAM READ"
  OBVIOUS
<1>3. id \in Range(Id) /\ id \notin Posts /\ id # "CONNECTION OPEN"
  <2>1. id \in Range(Id)
    BY <1>2, IdsAre, Zenon
  <2>2. id \notin Posts /\ id # "CONNECTION OPEN"
    BY <1>2 DEF Posts
  <2> QED BY <2>1, <2>2
<1>4. PICK o : o = Titled(proto[c], id, "stream", StreamName, "pattern", EmptyPattern)
  OBVIOUS
<1>5. "stream" \in TextFields /\ "pattern" \in TextFields
      /\ StreamName \in Texts /\ EmptyPattern \in Texts
  BY TextNames, NamesAreTexts, Zenon
<1>6. o \in Named(id)
  BY <1>1, <1>3, <1>4, <1>5, TwoTextsSet, Zenon
<1>7. o \in Object /\ o.id = id
  BY <1>6, Zenon DEF Named
<1>8. Command(c, o)
  BY <1>2, <1>4, Zenon DEF CallSetConsumer, Titled, With
<1> QED BY <1>3, <1>7, <1>8, CommandKeeps, Zenon

LEMMA WorkerKeeps ==
  ASSUME LettersInv, NEW c \in Client, CallSetWorker(c)
  PROVE  LettersInv'
<1>1. proto[c] \in Object
  BY Zenon DEF LettersInv
<1>2. PICK id : id = "SERVICE OFFER"
  OBVIOUS
<1>3. id \in Range(Id) /\ id \notin Posts /\ id # "CONNECTION OPEN"
  <2>1. id \in Range(Id)
    BY <1>2, IdsAre, Zenon
  <2>2. id \notin Posts /\ id # "CONNECTION OPEN"
    BY <1>2 DEF Posts
  <2> QED BY <2>1, <2>2
<1>4. PICK o : o = Titled(proto[c], id, "address", ServiceName, "pattern", EmptyPattern)
  OBVIOUS
<1>5. "address" \in TextFields /\ "pattern" \in TextFields
      /\ ServiceName \in Texts /\ EmptyPattern \in Texts
  BY TextNames, NamesAreTexts, Zenon
<1>6. o \in Named(id)
  BY <1>1, <1>3, <1>4, <1>5, TwoTextsSet, Zenon
<1>7. o \in Object /\ o.id = id
  BY <1>6, Zenon DEF Named
<1>8. Command(c, o)
  BY <1>2, <1>4, Zenon DEF CallSetWorker, Titled, With
<1> QED BY <1>3, <1>7, <1>8, CommandKeeps, Zenon

LEMMA DestroyKeeps ==
  ASSUME LettersInv, NEW c \in Client, CallDestroy(c)
  PROVE  LettersInv'
<1>1. proto[c] \in Object
  BY Zenon DEF LettersInv
<1>2. PICK id : id = "CONNECTION CLOSE"
  OBVIOUS
<1>3. id \in Range(Id) /\ id \notin Posts /\ id # "CONNECTION OPEN"
  <2>1. id \in Range(Id)
    BY <1>2, IdsAre, Zenon
  <2>2. id \notin Posts /\ id # "CONNECTION OPEN"
    BY <1>2 DEF Posts
  <2> QED BY <2>1, <2>2
<1>4. PICK o : o = With(proto[c], "id", id)
  OBVIOUS
<1>5. o \in Object /\ o.id = id
  BY <1>1, <1>3, <1>4, NamedIs, Zenon
<1>6. Command(c, o)
  BY <1>2, <1>4, Zenon DEF CallDestroy, With
<1> QED BY <1>3, <1>5, <1>6, CommandKeeps, Zenon

\* One more letter is sent.
LEMMA OneMore ==
  ASSUME NEW ls \in History, Len(ls) < Len(Letter), NEW p \in Post
  PROVE  /\ Append(ls, p) \in History /\ Extends(ls, Append(ls, p))
         /\ Len(ls) + 1 \in DOMAIN Append(ls, p) /\ Append(ls, p)[Len(ls) + 1] = p
         /\ Len(ls) + 1 \in DOMAIN Letter
<1>1. PICK k : k = Len(Letter)
  OBVIOUS
<1>2. k \in Nat /\ DOMAIN Letter = 1 .. k
  <2>1. Letter \in Seq(WrittenLetters)
    BY LettersAre, Zenon
  <2> QED BY ONLY <1>1, <2>1
<1>3. ls \in Seq(Post) /\ Len(ls) < k
  BY <1>1, Zenon DEF History
<1>4. PICK more : more = Append(ls, p)
  OBVIOUS
<1>5. /\ more \in Seq(Post) /\ Len(more) = Len(ls) + 1 /\ more[Len(ls) + 1] = p
      /\ \A n \in DOMAIN ls : n \in DOMAIN more /\ more[n] = ls[n]
  BY ONLY <1>3, <1>4, p \in Post
<1>6. Len(more) <= k /\ Len(ls) + 1 \in 1 .. k /\ Len(ls) + 1 \in DOMAIN more
  BY ONLY <1>2, <1>3, <1>5
<1> QED BY <1>1, <1>2, <1>4, <1>5, <1>6, Zenon DEF History, Extends

\* A letter is sent: one more of the history, and its command on the way.
LEMMA PostKeeps ==
  ASSUME LettersInv, NEW c \in Client, NEW id \in Posts, NEW address \in Texts,
         id = "STREAM SEND" => address = StreamName,
         Posting(c, id, address), NEW o \in Object, o.id = id,
         o.subject = Letter[Len(sent) + 1].subject,
         o.content = Letter[Len(sent) + 1].content,
         id # "STREAM SEND" => o.address = address,
         Sends(c, o)
  PROVE  LettersInv'
<1>1. PICK p, k, more : /\ p = [from |-> c, id |-> id, address |-> address]
                        /\ k = Len(sent) + 1 /\ more = Append(sent, p)
  OBVIOUS
<1>2. p.from = c /\ p.id = id /\ p.address = address
  BY <1>1, Zenon
<1>3. p \in Post
  <2>1. p \in [from : Client, id : Posts, address : Texts]
    BY <1>1, Zenon
  <2> QED BY <1>2, <2>1, Zenon DEF Post
<1>4. sent \in History /\ Len(sent) < Len(Letter)
  BY Zenon DEF LettersInv, Posting
<1>5. more \in History
  BY <1>1, <1>3, <1>4, OneMore, Zenon
<1>6. Extends(sent, more)
  BY <1>1, <1>3, <1>4, OneMore, Zenon
<1>7. k \in DOMAIN more /\ more[k] = p
  BY <1>1, <1>3, <1>4, OneMore, Zenon
<1>8. Asks(more, c, o, k)
  BY <1>1, <1>2, <1>7, Zenon DEF Asks
<1>9. o \in Ups(more, c)
  <2>1. o.id \in Range(Id)
    BY DeliverIds, Zenon
  <2>2. o.id # "CONNECTION OPEN"
    BY DEF Posts
  <2> QED BY <1>7, <1>8, <2>1, <2>2, Zenon DEF Ups
<1>10. sent' = more /\ app' = app /\ UNCHANGED broker /\ UNCHANGED stores
  BY <1>1, Zenon DEF Posting
<1> QED BY <1>5, <1>6, <1>9, <1>10, SendKeeps, Zenon

LEMMA NextLetter ==
  ASSUME LettersInv, Len(sent) < Len(Letter)
  PROVE  Len(sent) + 1 \in DOMAIN Letter
<1>1. PICK k : k = Len(Letter)
  OBVIOUS
<1>2. k \in Nat /\ DOMAIN Letter = 1 .. k
  <2>1. Letter \in Seq(WrittenLetters)
    BY LettersAre, Zenon
  <2> QED BY ONLY <1>1, <2>1
<1>3. sent \in Seq(Post) /\ Len(sent) < k
  BY <1>1, Zenon DEF LettersInv, History
<1>4. Len(sent) + 1 \in 1 .. k
  BY ONLY <1>2, <1>3
<1> QED BY <1>2, <1>4, Zenon

LEMMA WithContentIs ==
  ASSUME NEW o \in Object, NEW content \in Seq(Seq(Octet))
  PROVE  With(o, "content", content) \in Object
         /\ Reads(o, "content", content, With(o, "content", content))
<1>1. "content" \in ProtoFields
  BY FieldNames
<1>2. Held("content") = Seq(Seq(Octet)) \cup {NoContent}
  BY FieldsAre, Zenon
<1>3. content \in Held("content")
  BY <1>2, Zenon
<1>4. With(o, "content", content) \in Object
  BY <1>1, <1>3, SetStays, Zenon
<1>5. Reads(o, "content", content, With(o, "content", content))
  BY <1>1, <1>3, SetReads, Zenon
<1> QED BY <1>4, <1>5, Zenon

LEMMA WithTimeout ==
  ASSUME NEW o \in Object, NEW timeout \in Number32
  PROVE  With(o, "timeout", timeout) \in Object
         /\ Reads(o, "timeout", timeout, With(o, "timeout", timeout))
<1>1. "timeout" \in ProtoFields
  BY FieldNames
<1>2. Held("timeout") = Number32
  BY FieldsAre, Zenon
<1>3. timeout \in Held("timeout")
  BY <1>2, Zenon
<1>4. With(o, "timeout", timeout) \in Object
  BY <1>1, <1>3, SetStays, Zenon
<1>5. Reads(o, "timeout", timeout, With(o, "timeout", timeout))
  BY <1>1, <1>3, SetReads, Zenon
<1> QED BY <1>4, <1>5, Zenon

LEMMA StreamKeeps ==
  ASSUME LettersInv, NEW c \in Client, StreamSend(c)
  PROVE  LettersInv'
<1>1. proto[c] \in Object
  BY Zenon DEF LettersInv
<1>2. PICK id, k : id = "STREAM SEND" /\ k = Len(sent) + 1
  OBVIOUS
<1>3. Posting(c, id, StreamName) /\ k \in DOMAIN Letter
  <2>1. Posting(c, id, StreamName)
    BY <1>2, Zenon DEF StreamSend
  <2>2. Len(sent) < Len(Letter)
    BY <2>1, Zenon DEF Posting
  <2> QED BY <1>2, <2>1, <2>2, NextLetter, Zenon
<1>4. id \in Posts /\ id \in Range(Id)
  <2>1. id \in Posts
    BY <1>2 DEF Posts
  <2> QED BY <2>1, DeliverIds, Zenon
<1>5. PICK s, x : s = Letter[k].subject /\ x = Letter[k].content
  OBVIOUS
<1>6. s \in Texts /\ x \in Seq(Seq(Octet))
  BY <1>3, <1>5, LetterFacts, Zenon
<1>7. PICK a, b, o : /\ a = With(proto[c], "id", id)
                     /\ b = With(a, "subject", Fitting(s))
                     /\ o = With(b, "content", x)
  OBVIOUS
<1>8. a \in Object /\ a.id = id
  BY <1>1, <1>4, <1>7, NamedIs, Zenon
<1>9. "subject" \in TextFields
  BY TextNames, Zenon
<1>10. b \in Object
  BY <1>6, <1>7, <1>8, <1>9, WithText, Zenon
<1>11. Reads(a, "subject", s, b)
  BY <1>6, <1>7, <1>8, <1>9, WithText, Zenon
<1>12. o \in Object
  BY <1>6, <1>7, <1>10, WithContentIs, Zenon
<1>13. Reads(b, "content", x, o)
  BY <1>6, <1>7, <1>10, WithContentIs, Zenon
<1>14. o.id = id /\ o.subject = s /\ o.content = x
  BY <1>8, <1>11, <1>13, FieldNames, Zenon DEF Reads
<1>15. Sends(c, o)
  BY <1>2, <1>5, <1>7, Zenon DEF StreamSend, With
<1>16. StreamName \in Texts
  BY NamesAreTexts, Zenon
<1> QED BY <1>2, <1>3, <1>4, <1>5, <1>12, <1>14, <1>15, <1>16, PostKeeps, Zenon

LEMMA PostToKeeps ==
  ASSUME LettersInv, NEW c \in Client, NEW id \in Posts \ {"STREAM SEND"},
         NEW address \in Texts, PostTo(c, id, address)
  PROVE  LettersInv'
<1>1. proto[c] \in Object
  BY Zenon DEF LettersInv
<1>2. PICK k : k = Len(sent) + 1
  OBVIOUS
<1>3. Posting(c, id, address) /\ k \in DOMAIN Letter
  <2>1. Posting(c, id, address)
    BY Zenon DEF PostTo
  <2>2. Len(sent) < Len(Letter)
    BY <2>1, Zenon DEF Posting
  <2> QED BY <1>2, <2>1, <2>2, NextLetter, Zenon
<1>4. id \in Posts /\ id # "STREAM SEND" /\ id \in Range(Id)
  BY DeliverIds, Zenon
<1>5. PICK s, t, w, x : /\ s = Letter[k].subject /\ t = Letter[k].tracker
                        /\ w = Letter[k].timeout /\ x = Letter[k].content
  OBVIOUS
<1>6. s \in Texts /\ t \in Texts /\ w \in Number32 /\ x \in Seq(Seq(Octet))
  BY <1>3, <1>5, LetterFacts, Zenon
<1>7. PICK a, b, d, e, g, o :
        /\ a = With(proto[c], "id", id)
        /\ b = With(a, "address", Fitting(address))
        /\ d = With(b, "subject", Fitting(s))
        /\ e = With(d, "tracker", Fitting(t))
        /\ g = With(e, "timeout", w)
        /\ o = With(g, "content", x)
  OBVIOUS
<1>8. a \in Object /\ a.id = id
  BY <1>1, <1>4, <1>7, NamedIs, Zenon
<1>9. "address" \in TextFields /\ "subject" \in TextFields /\ "tracker" \in TextFields
  BY TextNames, Zenon
<1>10. b \in Object
  BY <1>7, <1>8, <1>9, WithText, Zenon
<1>11. Reads(a, "address", address, b)
  BY <1>7, <1>8, <1>9, WithText, Zenon
<1>12. d \in Object
  BY <1>6, <1>7, <1>9, <1>10, WithText, Zenon
<1>13. Reads(b, "subject", s, d)
  BY <1>6, <1>7, <1>9, <1>10, WithText, Zenon
<1>14. e \in Object
  BY <1>6, <1>7, <1>9, <1>12, WithText, Zenon
<1>15. Reads(d, "tracker", t, e)
  BY <1>6, <1>7, <1>9, <1>12, WithText, Zenon
<1>16. g \in Object
  BY <1>6, <1>7, <1>14, WithTimeout, Zenon
<1>17. Reads(e, "timeout", w, g)
  BY <1>6, <1>7, <1>14, WithTimeout, Zenon
<1>18. o \in Object
  BY <1>6, <1>7, <1>16, WithContentIs, Zenon
<1>19. Reads(g, "content", x, o)
  BY <1>6, <1>7, <1>16, WithContentIs, Zenon
<1>20. o.id = id /\ o.address = address
  BY <1>8, <1>11, <1>13, <1>15, <1>17, <1>19, FieldNames, Zenon DEF Reads
<1>21. o.subject = s /\ o.content = x
  BY <1>13, <1>15, <1>17, <1>19, FieldNames, Zenon DEF Reads
<1>22. Sends(c, o)
  BY <1>2, <1>5, <1>7, Zenon DEF PostTo, With
<1> QED BY <1>2, <1>3, <1>4, <1>5, <1>18, <1>20, <1>21, <1>22, PostKeeps, Zenon

\* A client receives what is for it.
LEMMA ReceivesKeeps ==
  ASSUME LettersInv, NEW c \in Client, ClientReceives(c)
  PROVE  LettersInv'
<1>1. /\ sent \in History /\ server \in Object /\ offers \in Seq(Client)
      /\ proto \in [Client -> Object] /\ down \in Wires(sent) /\ up \in UpWires(sent)
      /\ readers \in Seq(Client) /\ StoredInv /\ AppInv
  BY Zenon DEF LettersInv, BrokerInv
<1>2. /\ up' = up /\ UNCHANGED broker /\ UNCHANGED stores /\ sent' = sent
  BY Zenon DEF ClientReceives
<1>3. /\ server' = server /\ offers' = offers /\ readers' = readers /\ UNCHANGED addresses
  BY <1>2, Zenon DEF broker
<1>4. PICK channel, o : channel = down[c] /\ o = Receive(proto[c], HeadMessage(channel)).o
  OBVIOUS
<1>5. down \in [Client -> Seq(Frame)] /\ \A b \in Client : Cut(down[b], FramesOf(Downs(sent, b)))
  BY <1>1, Zenon DEF Wires
<1>6. HasMessage(channel) /\ Cut(channel, FramesOf(Downs(sent, c))) /\ proto[c] \in Object
  BY <1>1, <1>4, <1>5, Zenon DEF ClientReceives
<1>7. o \in Downs(sent, c)
  BY <1>1, <1>4, <1>6, DownHead, Zenon
<1>8. Cut(Rest(channel), FramesOf(Downs(sent, c)))
  BY <1>1, <1>6, DownHead, Zenon
<1>9. PICK left : left = Rest(channel)
  OBVIOUS
<1>10. left \in Seq(Frame)
  BY <1>8, <1>9, Zenon DEF Cut
<1>11. down' = [down EXCEPT ![c] = left]
  BY <1>4, <1>9, Zenon DEF ClientReceives
<1>12. down' \in Wires(sent)
  <2>1. down' \in [Client -> Seq(Frame)]
    BY <1>5, <1>10, <1>11, Zenon
  <2>2. \A b \in Client : Cut(down'[b], FramesOf(Downs(sent, b)))
    BY <1>5, <1>8, <1>9, <1>11, Zenon
  <2> QED BY <2>1, <2>2, Zenon DEF Wires
<1>13. BrokerInv'
  BY <1>1, <1>2, <1>3, <1>12, Zenon DEF BrokerInv
<1>14. AddressInv' /\ StoredInv'
  BY <1>2, <1>3, AddressStays, StoredStays, Zenon
<1>15. o \in Object /\ (o.id \in Delivers => Kept(sent, c, o))
  BY <1>7, Zenon DEF Downs
<1>16. ClientConfirmed(c, o) \/ ClientRefused(c, o) \/ ClientDelivered(c, o)
  BY <1>4, Zenon DEF ClientReceives
<1>17. AppInv' /\ proto' \in [Client -> Object]
  <2>1. CASE ClientConfirmed(c, o)
    <3>1. app' = app
      BY <2>1, Zenon DEF ClientConfirmed
    <3>2. proto' = [proto EXCEPT ![c] = NewProto] \/ proto' = [proto EXCEPT ![c] = o]
      BY <2>1, Zenon DEF ClientConfirmed
    <3>3. proto' \in [Client -> Object]
      BY <1>1, <1>15, <3>2, NewProtoIsObject, Zenon
    <3> QED BY <1>1, <1>2, <3>1, <3>3, Zenon DEF AppInv
  <2>2. CASE ClientRefused(c, o)
    <3>1. app' = app /\ proto' = [proto EXCEPT ![c] = o]
      BY <2>2, Zenon DEF ClientRefused
    <3>2. proto' \in [Client -> Object]
      BY <1>1, <1>15, <3>1, Zenon
    <3> QED BY <1>1, <1>2, <3>1, <3>2, Zenon DEF AppInv
  <2>3. CASE ClientDelivered(c, o)
    <3>1. CASE phase[c] = "CONNECTION CLOSE"
      <4>1. app' = app /\ proto' = [proto EXCEPT ![c] = o]
        BY <2>3, <3>1, Zenon DEF ClientDelivered
      <4>2. proto' \in [Client -> Object]
        BY <1>1, <1>15, <4>1, Zenon
      <4> QED BY <1>1, <1>2, <4>1, <4>2, Zenon DEF AppInv
    <3>2. CASE phase[c] # "CONNECTION CLOSE"
      <4>1. /\ proto' = [proto EXCEPT ![c] = WithoutContent(o)]
            /\ app' = [app EXCEPT ![c] = Append(@, Passed(o))]
            /\ o.id \in Delivers
        BY <2>3, <3>2, Zenon DEF ClientDelivered
      <4>2. WithoutContent(o) \in Object
        BY <1>15, EmptiedIs, Zenon
      <4>3. proto' \in [Client -> Object]
        BY <1>1, <4>1, <4>2, Zenon
      <4>4. PICK A, r, longer : A = Arrived(sent, c) /\ r = Passed(o) /\ longer = Append(app[c], r)
        OBVIOUS
      <4>5. r \in A
        BY <1>15, <4>1, <4>4, Zenon DEF Arrived
      <4>6. app[c] \in Seq(A)
        BY <1>1, <4>4, Zenon DEF AppInv
      <4>7. Append(app[c], r) \in Seq(A)
        BY ONLY <4>5, <4>6
      <4>8. longer \in Seq(Arrived(sent, c))
        BY <4>4, <4>7, Zenon
      <4>9. app' = [app EXCEPT ![c] = longer]
        BY <4>1, <4>4, Zenon
      <4>10. longer \in UNION {Seq(Arrived(sent, b)) : b \in Client}
        BY <4>8, Zenon
      <4>11. app \in [Client -> UNION {Seq(Arrived(sent, b)) : b \in Client}]
             /\ \A b \in Client : app[b] \in Seq(Arrived(sent, b))
        BY <1>1, Zenon DEF AppInv
      <4>12. app' \in [Client -> UNION {Seq(Arrived(sent, b)) : b \in Client}]
        BY <4>9, <4>10, <4>11, Zenon
      <4>13. \A b \in Client : app'[b] \in Seq(Arrived(sent, b))
        BY <4>8, <4>9, <4>11, Zenon
      <4>14. AppInv'
        BY <1>2, <4>12, <4>13, Zenon DEF AppInv
      <4> QED BY <4>3, <4>14
    <3> QED BY <3>1, <3>2
  <2> QED BY <1>16, <2>1, <2>2, <2>3
<1> QED BY <1>1, <1>2, <1>3, <1>13, <1>14, <1>17, Zenon DEF LettersInv

-----------------------------------------------------------------------------
\* The theorems

LEMMA ClientKeeps ==
  ASSUME LettersInv, NEW c \in Client, ClientNext(c)
  PROVE  LettersInv'
<1>1. ASSUME NEW d \in Client \ {c}, PostTo(c, "MAILBOX SEND", AddressOf[d]) PROVE LettersInv'
  <2>1. PICK id : id = "MAILBOX SEND"
    OBVIOUS
  <2>2. id \in Posts \ {"STREAM SEND"}
    BY <2>1 DEF Posts
  <2>3. AddressOf[d] \in Texts
    BY NamesAreTexts, Zenon
  <2> QED BY <1>1, <2>1, <2>2, <2>3, PostToKeeps, Zenon
<1>2. ASSUME PostTo(c, "SERVICE SEND", ServiceName) PROVE LettersInv'
  <2>1. PICK id : id = "SERVICE SEND"
    OBVIOUS
  <2>2. id \in Posts \ {"STREAM SEND"}
    BY <2>1 DEF Posts
  <2>3. ServiceName \in Texts
    BY NamesAreTexts, Zenon
  <2> QED BY <1>2, <2>1, <2>2, <2>3, PostToKeeps, Zenon
<1> QED BY <1>1, <1>2, ConnectKeeps, ProducerKeeps, ConsumerKeeps, WorkerKeeps, DestroyKeeps,
           StreamKeeps, ReceivesKeeps, Zenon DEF ClientNext

LEMMA StutterKeeps ==
  ASSUME LettersInv, UNCHANGED vars
  PROVE  LettersInv'
<1>1. /\ proto' = proto /\ up' = up /\ down' = down /\ server' = server /\ offers' = offers
      /\ UNCHANGED addresses /\ readers' = readers /\ UNCHANGED stores
      /\ sent' = sent /\ app' = app
  BY Zenon DEF vars, clients, wires, broker
<1>2. AddressInv' /\ StoredInv'
  BY <1>1, AddressStays, StoredStays, Zenon
<1> QED BY <1>1, <1>2, Zenon DEF LettersInv, BrokerInv, AppInv

\* Whatever waits anywhere between two applications is a letter as it was
\* written, or a command or an answer that holds none (mlm_proto_send and
\* mlm_proto_recv of the client and of the broker, mlm_msg_new,
\* mlm_msg_set_proto).
THEOREM LettersHold == Spec => []LettersInv
<1>1. Init => LettersInv
  BY InitLetters
<1>2. LettersInv /\ [Next]_vars => LettersInv'
  <2> SUFFICES ASSUME LettersInv, [Next]_vars PROVE LettersInv'
    OBVIOUS
  <2>1. CASE Forward
    BY <2>1, ForwardKeeps, Zenon
  <2>2. ASSUME NEW c \in Client, ClientNext(c) PROVE LettersInv'
    BY <2>2, ClientKeeps, Zenon
  <2>3. ASSUME NEW c \in Client, ServerNext(c) PROVE LettersInv'
    BY <2>3, ServerKeeps, Zenon
  <2>4. CASE UNCHANGED vars
    BY <2>4, StutterKeeps, Zenon
  <2> QED BY <2>1, <2>2, <2>3, <2>4, Zenon DEF Next
<1> QED BY <1>1, <1>2, PTL DEF Spec

\* Whatever the broker has in its message object, sending it as any message
\* and receiving it into the object of any client sets the fields of that
\* message and no other; so do the copies (mlm_proto_send, mlm_proto_recv,
\* mlm_proto_dup, mlm_proto_zpl, mlm_proto_new_zpl).
THEOREM RoundTripAlways == Spec => []RoundTrip
<1>1. LettersInv => RoundTrip
  <2> SUFFICES ASSUME LettersInv PROVE RoundTrip
    OBVIOUS
  <2>1. server \in Object /\ proto \in [Client -> Object]
    BY Zenon DEF LettersInv, BrokerInv
  <2> QED BY <2>1, RoundTripHolds, Zenon
<1> QED BY <1>1, LettersHold, PTL

\* The frame that mlm_proto_send measures is as large as what it then writes
\* without a check, and only the last frame ends the message.
THEOREM ExactFitAlways == Spec => []ExactFit
<1>1. LettersInv => ExactFit
  <2> SUFFICES ASSUME LettersInv PROVE ExactFit
    OBVIOUS
  <2>1. server \in Object
    BY Zenon DEF LettersInv, BrokerInv
  <2> QED BY <2>1, ExactFitHolds, Zenon
<1> QED BY <1>1, LettersHold, PTL

\* Through all the objects it shares with other messages, a letter arrives as
\* it was written, at a client that may have it (mlm_msg_new,
\* mlm_msg_set_proto, get_message_to_deliver).
THEOREM LetterKeptAlways == Spec => []LetterKept
<1>1. LettersInv => LetterKept
  <2> SUFFICES ASSUME LettersInv, NEW c \in Client, NEW r \in Range(app[c])
               PROVE  \E n \in DOMAIN sent : IsLetter(c, r, n)
    BY Zenon DEF LetterKept
  <2>1. app[c] \in Seq(Arrived(sent, c))
    BY Zenon DEF LettersInv, AppInv
  <2>2. PICK A, list : A = Arrived(sent, c) /\ list = app[c]
    OBVIOUS
  <2>3. list \in Seq(A)
    BY <2>1, <2>2, Zenon
  <2>4. PICK i \in DOMAIN list : r = list[i]
    BY <2>2, Zenon DEF Range
  <2>5. r \in A
    BY ONLY <2>3, <2>4
  <2>6. PICK o \in Object : Kept(sent, c, o) /\ r = Passed(o)
    BY <2>2, <2>5, Zenon DEF Arrived
  <2>7. PICK n \in DOMAIN sent : Bears(sent, o, n) /\ MayHave(sent, c, n)
    BY <2>6, Zenon DEF Kept
  <2>8. /\ r.id = o.id /\ r.sender = o.sender /\ r.address = o.address
        /\ r.subject = o.subject /\ r.content = o.content
    BY <2>6, Zenon DEF Passed
  <2>9. IsLetter(c, r, n)
    BY <2>7, <2>8, Zenon DEF IsLetter, Bears, MayHave
  <2> QED BY <2>9, Zenon
<1> QED BY <1>1, LettersHold, PTL
=============================================================================
