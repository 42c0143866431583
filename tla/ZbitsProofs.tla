---------------------------- MODULE ZbitsProofs ----------------------------
(***************************************************************************)
(* Proofs about Zbits, for any bitmaps, sizes and bits: all that TLC       *)
(* checks holds without the bounds of its instances.                       *)
(***************************************************************************)
EXTENDS Zbits, TLAPS, Lemmas

\* What is in the file is a bitmap of one word, all of it in use.
FileCovered ==
  /\ file # {} => size = 64
  /\ \A f \in file : saved = {f.octets} /\ \A i \in f.octets : i \div 8 < f.used

\* The inductive invariant.
Inv == TypeOK /\ UsedCovers /\ FileCovered

-----------------------------------------------------------------------------
\* Octets and words

\* A size is a number of words.
LEMMA SizeFacts ==
  ASSUME size \in Sizes
  PROVE  /\ size \in Nat /\ size >= 64
         /\ Octets \in Nat /\ size = 8 * Octets /\ Octets >= 8
BY SizesAssumption DEF Octets

\* Every bit lies in an octet of the array.
LEMMA OctetOf ==
  ASSUME size \in Sizes, NEW i \in All
  PROVE  i \in Nat /\ i < size /\ i \div 8 \in 0 .. Octets - 1
BY SizeFacts DEF All

\* An octet in use is in a word that is worked on.
LEMMA InWords ==
  ASSUME size \in Sizes, NEW i \in All, NEW n \in Nat, i \div 8 < n
  PROVE  i \in Words(n)
BY OctetOf DEF Words

\* The larger and the smaller of two numbers.
LEMMA LargerFacts ==
  ASSUME NEW i \in Int, NEW j \in Int
  PROVE  /\ Larger(i, j) \in {i, j} /\ Larger(i, j) >= i /\ Larger(i, j) >= j
         /\ Smaller(i, j) \in {i, j} /\ Smaller(i, j) <= i /\ Smaller(i, j) <= j
BY DEF Larger, Smaller

\* What is found first, and last.
LEMMA LeastFacts ==
  ASSUME NEW T, T \subseteq Nat
  PROVE  /\ T = {} => Least(T) = -1
         /\ T # {} => Least(T) \in T /\ \A y \in T : Least(T) <= y
BY LeastElement DEF Least, Min

LEMMA GreatestFacts ==
  ASSUME NEW k \in Int, NEW T, T \subseteq 0 .. k
  PROVE  /\ T = {} => Greatest(T) = -1
         /\ T # {} => Greatest(T) \in T /\ \A y \in T : Greatest(T) >= y
<1>1. CASE T = {}
  BY <1>1 DEF Greatest
<1>2. CASE T # {}
  <2>1. PICK z \in T : TRUE
    BY <1>2
  <2>2. k \in Nat
    BY <2>1
  <2>3. \E x \in T : \A y \in T : x >= y
    BY <1>2, <2>2, GreatestElement
  <2> QED BY <1>2, <2>3 DEF Greatest, Max
<1> QED BY <1>1, <1>2

-----------------------------------------------------------------------------
\* What operations leave

\* Words reach behind the octets they are taken for.
LEMMA WordsFacts ==
  ASSUME size \in Sizes, NEW n \in 0 .. Octets
  PROVE  /\ Words(n) \subseteq All
         /\ \A i \in All : i \div 8 < n => i \in Words(n)
BY SizeFacts, OctetOf DEF Words

\* A bitmap that gets new contents, all in the octets it gets with them.
LEMMA ContentsKeep ==
  ASSUME TypeOK, UsedCovers, NEW m \in Map,
         NEW set, set \subseteq All, NEW n \in 0 .. Octets,
         \A i \in set : i \div 8 < n, Contents(m, set, n)
  PROVE  /\ data' \in [Map -> SUBSET All] /\ used' \in [Map -> 0 .. Octets]
         /\ \A w \in Map : \A i \in data'[w] : i \div 8 < used'[w]
BY DEF TypeOK, UsedCovers, Contents

\* An operation that does nothing else keeps the invariant.
LEMMA OnlyKeeps ==
  ASSUME Inv, NEW m \in Map,
         NEW set, set \subseteq All, NEW n \in 0 .. Octets,
         \A i \in set : i \div 8 < n, Only(m, set, n)
  PROVE  Inv'
<1>1. /\ data' \in [Map -> SUBSET All] /\ used' \in [Map -> 0 .. Octets]
      /\ \A w \in Map : \A i \in data'[w] : i \div 8 < used'[w]
  BY ContentsKeep DEF Inv, Only
<1> QED BY <1>1 DEF Inv, TypeOK, UsedCovers, FileCovered, Only, Octets, All

\* The octets a bit is set in are in the array.
LEMMA UsedWithFacts ==
  ASSUME TypeOK, UsedCovers, NEW m \in Map, NEW i \in All
  PROVE  /\ UsedWith(m, i) \in 0 .. Octets
         /\ \A j \in data[m] \cup {i} : j \div 8 < UsedWith(m, i)
<1>1. used[m] \in 0 .. Octets /\ data[m] \subseteq All /\ size \in Sizes
  BY DEF TypeOK
<1>2. i \div 8 \in 0 .. Octets - 1
  BY <1>1, OctetOf
<1>3. Octets \in Nat
  BY <1>1, SizeFacts
<1>4. /\ UsedWith(m, i) \in {used[m], i \div 8 + 1}
      /\ UsedWith(m, i) >= used[m] /\ UsedWith(m, i) >= i \div 8 + 1
  BY <1>1, <1>2, LargerFacts DEF UsedWith
<1>5. ASSUME NEW j \in data[m] PROVE j \div 8 < UsedWith(m, i)
  <2>1. j \div 8 < used[m]
    BY DEF UsedCovers
  <2>2. j \div 8 \in 0 .. Octets - 1
    BY <1>1, OctetOf
  <2> QED BY <1>1, <1>2, <1>3, <1>4, <2>1, <2>2
<1> QED BY <1>1, <1>2, <1>3, <1>4, <1>5

-----------------------------------------------------------------------------
\* What searches find

\* No search forwards leaves the octet behind the array.
LEMMA AheadFacts ==
  ASSUME TypeOK, NEW m \in Map, NEW c \in 0 .. size + 7
  PROVE  HereAndAhead(m, c) \subseteq c .. size + 7
<1>1. used[m] \in 0 .. Octets /\ size \in Sizes
  BY DEF TypeOK
<1>2. size \in Nat /\ Octets \in Nat /\ size = 8 * Octets
  BY <1>1, SizeFacts
<1>3. c \div 8 \in 0 .. Octets
  BY <1>2
<1>4. Larger(c \div 8, used[m]) \in 0 .. Octets
  BY <1>1, <1>3, LargerFacts
<1>5. 8 * Larger(c \div 8, used[m]) + 7 <= size + 7
  BY <1>2, <1>4
<1> QED BY <1>2, <1>4, <1>5 DEF HereAndAhead

\* The first and the last of some places in a range, or none.
LEMMA RangeFacts ==
  ASSUME NEW k \in Nat, NEW T, T \subseteq 0 .. k
  PROVE  Least(T) \in -1 .. k /\ Greatest(T) \in -1 .. k
<1>1. T \subseteq Nat /\ k \in Int
  OBVIOUS
<1>2. Least(T) = -1 \/ Least(T) \in T
  BY <1>1, LeastFacts, Zenon
<1>3. Greatest(T) = -1 \/ Greatest(T) \in T
  BY <1>1, GreatestFacts, Zenon
<1>4. -1 \in -1 .. k /\ \A x \in T : x \in -1 .. k
  OBVIOUS
<1> QED BY <1>2, <1>3, <1>4, Zenon

\* What is found is in the array, or in the octet behind it, or nothing.
LEMMA FoundFacts ==
  ASSUME TypeOK, NEW m \in Map, NEW c \in 0 .. size + 7, NEW beyond
  PROVE  /\ NextOne(m, c, beyond) \in -1 .. size + 7
         /\ NextZero(m, c, beyond) \in -1 .. size + 7
         /\ PrevOne(m, c, beyond) \in -1 .. size + 7
         /\ PrevZero(m, c, beyond) \in -1 .. size + 7
<1> DEFINE Place == -1 .. size + 7
<1>1. size \in Nat /\ c \in Nat /\ c <= size + 7
  BY SizeFacts DEF TypeOK
<1>2. HereAndAhead(m, c) \subseteq c .. size + 7
  BY AheadFacts
<1>3. NextOne(m, c, beyond) \in Place
  <2>1. {i \in Ahead(m, c) : IsSet(m, i, beyond)} \subseteq 0 .. size + 7
    BY <1>1, <1>2 DEF Ahead
  <2> QED BY <1>1, <2>1, RangeFacts DEF NextOne
<1>4. NextZero(m, c, beyond) \in Place
  <2>1. {i \in HereAndAhead(m, c) : ~IsSet(m, i, beyond)} \subseteq 0 .. size + 7
    BY <1>1, <1>2
  <2> QED BY <1>1, <2>1, RangeFacts DEF NextZero
<1>5. PrevOne(m, c, beyond) \in Place
  <2>1. {i \in 0 .. c - 1 : IsSet(m, i, beyond)} \subseteq 0 .. c
    BY <1>1
  <2> QED BY <1>1, <2>1, RangeFacts DEF PrevOne
<1>6. PrevZero(m, c, beyond) \in Place
  <2>1. BehindOrHere(m, c) \subseteq 0 .. c
    BY <1>1 DEF BehindOrHere
  <2>2. {i \in BehindOrHere(m, c) : ~IsSet(m, i, beyond)} \subseteq 0 .. c
    BY <2>1
  <2> QED BY <1>1, <2>2, RangeFacts DEF PrevZero
<1> QED BY <1>3, <1>4, <1>5, <1>6

\* The same for searches from either end.
LEMMA EndFacts ==
  ASSUME TypeOK, NEW m \in Map, NEW beyond
  PROVE  /\ FirstOne(m, beyond) \in -1 .. size + 7
         /\ FirstZero(m, beyond) \in -1 .. size + 7
         /\ LastOne(m) \in -1 .. size + 7
         /\ 0 \in 0 .. size + 7 /\ size - 1 \in 0 .. size + 7
<1>1. size \in Nat /\ size >= 64
  BY SizeFacts DEF TypeOK
<1>2. 0 \in 0 .. size + 7 /\ size - 1 \in 0 .. size + 7
  BY <1>1
<1>3. /\ NextOne(m, 0, beyond) \in -1 .. size + 7
      /\ NextZero(m, 0, beyond) \in -1 .. size + 7
  BY <1>2, FoundFacts
<1>4. PrevOne(m, size - 1, {}) \in -1 .. size + 7
  BY <1>2, FoundFacts
<1>5. 0 \in -1 .. size + 7
  BY <1>1
<1> QED BY <1>2, <1>3, <1>4, <1>5 DEF FirstOne, FirstZero, LastOne

-----------------------------------------------------------------------------
\* The invariant

LEMMA InitInv == ASSUME Init PROVE Inv
<1>1. Octets \in Nat /\ size \in Nat
  BY SizeFacts DEF Init
<1>2. 0 \in 0 .. Octets /\ 0 \in 0 .. size + 7
  BY <1>1
<1>3. TypeOK
  BY <1>2 DEF Init, TypeOK
<1> QED BY <1>3 DEF Init, Inv, UsedCovers, FileCovered

\* Two bitmaps are combined in no more octets than there are, and all that
\* either has in use are worked on.
LEMMA CombinedFacts ==
  ASSUME Inv, NEW m \in Map, NEW s \in Map
  PROVE  LET n == Larger(used[m], used[s])
         IN /\ n \in 0 .. Octets
            /\ \A i \in data[m] \cup data[s] : i \div 8 < n
            /\ data[m] \subseteq All /\ data[s] \cap Words(n) = data[s]
<1> DEFINE n == Larger(used[m], used[s])
<1>1. /\ size \in Sizes /\ Octets \in Nat
      /\ used[m] \in 0 .. Octets /\ used[s] \in 0 .. Octets
      /\ data[m] \subseteq All /\ data[s] \subseteq All
  BY SizeFacts DEF Inv, TypeOK
<1>2. n \in 0 .. Octets /\ n >= used[m] /\ n >= used[s]
  BY <1>1, LargerFacts
<1>3. ASSUME NEW i \in data[m] \cup data[s] PROVE i \div 8 < n
  <2>1. i \div 8 < used[m] \/ i \div 8 < used[s]
    BY DEF Inv, UsedCovers
  <2>2. i \div 8 \in 0 .. Octets - 1
    BY <1>1, OctetOf
  <2> QED BY <1>1, <1>2, <2>1, <2>2
<1>4. \A i \in data[s] : i \in Words(n)
  BY <1>1, <1>2, <1>3, WordsFacts
<1> QED BY <1>1, <1>2, <1>3, <1>4

\* A change keeps it.
LEMMA ChangeKeeps == ASSUME Inv, NEW m \in Map, Change(m) PROVE Inv'
<1>1. /\ size \in Sizes /\ Octets \in Nat
      /\ used[m] \in 0 .. Octets /\ data[m] \subseteq All
      /\ \A i \in data[m] : i \div 8 < used[m]
  BY SizeFacts DEF Inv, TypeOK, UsedCovers
<1>2. ASSUME NEW i \in Index \cap All, Set(m, i) PROVE Inv'
  <2>1. /\ UsedWith(m, i) \in 0 .. Octets
        /\ \A j \in data[m] \cup {i} : j \div 8 < UsedWith(m, i)
    BY UsedWithFacts DEF Inv
  <2>2. data[m] \cup {i} \subseteq All
    BY <1>1
  <2> QED BY <1>2, <2>1, <2>2, OnlyKeeps DEF Set
<1>3. ASSUME NEW i \in Index \cap All, Clear(m, i) PROVE Inv'
  <2>1. data[m] \ {i} \subseteq All /\ \A j \in data[m] \ {i} : j \div 8 < used[m]
    BY <1>1
  <2> QED BY <1>1, <1>3, <2>1, OnlyKeeps DEF Clear
<1>4. CASE Erase(m)
  <2>1. 0 \in 0 .. Octets
    BY <1>1
  <2> QED BY <1>4, <2>1, OnlyKeeps DEF Erase
<1>5. CASE Not(m)
  <2> DEFINE set == (Words(used[m]) \ data[m]) \cup (All \ Words(used[m]))
  <2>1. set \subseteq All /\ Octets \in 0 .. Octets
    BY <1>1, WordsFacts
  <2>2. \A i \in set : i \div 8 < Octets
    BY <1>1, <2>1, OctetOf
  <2> QED BY <1>5, <2>1, <2>2, OnlyKeeps DEF Not
<1>6. ASSUME NEW s \in Map, And(m, s) PROVE Inv'
  <2> DEFINE set == data[m] \cap data[s] \cap Words(Smaller(used[m], used[s]))
  <2>1. set \subseteq All /\ \A i \in set : i \div 8 < used[m]
    BY <1>1
  <2> QED BY <1>1, <1>6, <2>1, OnlyKeeps DEF And
<1>7. ASSUME NEW s \in Map, Or(m, s) PROVE Inv'
  <2> DEFINE n == Larger(used[m], used[s])
             set == data[m] \cup (data[s] \cap Words(n))
  <2>1. /\ n \in 0 .. Octets /\ \A i \in set : i \div 8 < n
        /\ set \subseteq All
    BY <1>1, CombinedFacts DEF Inv, TypeOK
  <2> QED BY <1>7, <2>1, OnlyKeeps DEF Or
<1>8. ASSUME NEW s \in Map, Xor(m, s) PROVE Inv'
  <2> DEFINE n == Larger(used[m], used[s])
             other == data[s] \cap Words(n)
             set == (data[m] \ other) \cup (other \ data[m])
  <2>1. /\ n \in 0 .. Octets /\ \A i \in set : i \div 8 < n
        /\ set \subseteq All
    BY <1>1, CombinedFacts DEF Inv, TypeOK
  <2> QED BY <1>8, <2>1, OnlyKeeps DEF Xor
<1> QED BY <1>2, <1>3, <1>4, <1>5, <1>6, <1>7, <1>8 DEF Change

\* A search leaves the cursor in the array or in the octet behind it.
LEMMA SearchKeeps ==
  ASSUME Inv, NEW m \in Map, NEW found \in -1 .. size + 7,
         NEW otherwise \in 0 .. size + 7, Search(m, found, otherwise),
         UNCHANGED size
  PROVE  cursor' \in [Map -> 0 .. size' + 7]
<1>1. (IF found = -1 THEN otherwise ELSE found) \in 0 .. size + 7
  OBVIOUS
<1> QED BY <1>1 DEF Inv, TypeOK, Search

LEMMA MovesKeep ==
  ASSUME Inv, NEW m \in Map, NEW found \in -1 .. size + 7,
         NEW otherwise \in 0 .. size + 7, Moves(m, found, otherwise)
  PROVE  Inv'
<1>1. cursor' \in [Map -> 0 .. size' + 7]
  BY SearchKeeps DEF Moves
<1> QED BY <1>1 DEF Inv, TypeOK, UsedCovers, FileCovered, Moves, Octets, All

\* So does a search that is one of Next.
LEMMA SearchInKeeps == ASSUME Inv, NEW m \in Map, SearchIn(m) PROVE Inv'
<1> DEFINE c == cursor[m]
<1>1. TypeOK /\ c \in 0 .. size + 7
  BY DEF Inv, TypeOK
<1>2. 0 \in 0 .. size + 7 /\ size - 1 \in 0 .. size + 7
  BY <1>1, EndFacts
<1>3. CASE First(m) \/ FirstZeroBit(m)
  BY <1>1, <1>2, <1>3, EndFacts, MovesKeep DEF First, FirstZeroBit
<1>4. CASE Last(m)
  <2>1. (IF size - 1 \in data[m] THEN size - 1 ELSE LastOne(m)) \in -1 .. size + 7
    BY <1>1, <1>2, EndFacts, SizeFacts DEF TypeOK
  <2> QED BY <1>2, <1>4, <2>1, MovesKeep DEF Last
<1>5. CASE NextBit(m) \/ PrevBit(m) \/ NextZeroBit(m)
  BY <1>1, <1>5, FoundFacts, MovesKeep DEF NextBit, PrevBit, NextZeroBit
<1>6. CASE PrevZeroBit(m)
  <2>1. PICK beyond \in Beyond :
          /\ Search(m, PrevZero(m, c, beyond), c)
          /\ failed' = RunsAway(m, c, beyond)
          /\ UNCHANGED <<size, data, used, file, saved>>
    BY <1>6 DEF PrevZeroBit
  <2>2. PrevZero(m, c, beyond) \in -1 .. size + 7
    BY <1>1, FoundFacts
  <2>3. cursor' \in [Map -> 0 .. size' + 7]
    BY <1>1, <2>1, <2>2, SearchKeeps
  <2>4. failed' \in BOOLEAN
    BY <2>1 DEF RunsAway
  <2> QED BY <2>1, <2>3, <2>4
          DEF Inv, TypeOK, UsedCovers, FileCovered, Octets, All
<1>7. CASE Insert(m)
  <2>1. PICK beyond \in Beyond :
          LET found == FirstZero(m, beyond)
          IN /\ Search(m, found, 0)
             /\ IF found \in All THEN Contents(m, data[m] \cup {found}, UsedWith(m, found))
                ELSE UNCHANGED <<data, used>>
             /\ failed' = (found >= size)
             /\ UNCHANGED <<size, file, saved>>
    BY <1>7 DEF Insert
  <2> DEFINE found == FirstZero(m, beyond)
  <2>2. found \in -1 .. size + 7
    BY <1>1, EndFacts
  <2>3. cursor' \in [Map -> 0 .. size' + 7]
    BY <1>2, <2>1, <2>2, SearchKeeps
  <2>4. /\ data' \in [Map -> SUBSET All] /\ used' \in [Map -> 0 .. Octets]
        /\ \A w \in Map : \A i \in data'[w] : i \div 8 < used'[w]
    <3>1. CASE found \in All
      <4>1. Contents(m, data[m] \cup {found}, UsedWith(m, found))
        BY <2>1, <3>1
      <4>2. /\ UsedWith(m, found) \in 0 .. Octets
            /\ \A j \in data[m] \cup {found} : j \div 8 < UsedWith(m, found)
        BY <3>1, UsedWithFacts DEF Inv
      <4>3. data[m] \cup {found} \subseteq All
        BY <3>1 DEF Inv, TypeOK
      <4> HIDE DEF found
      <4> QED BY <4>1, <4>2, <4>3, ContentsKeep DEF Inv
    <3>2. CASE found \notin All
      BY <2>1, <3>2 DEF Inv, TypeOK, UsedCovers
    <3> QED BY <3>1, <3>2
  <2>5. failed' \in BOOLEAN
    BY <2>1
  <2> QED BY <2>1, <2>3, <2>4, <2>5
          DEF Inv, TypeOK, UsedCovers, FileCovered, Octets, All
<1> QED BY <1>3, <1>4, <1>5, <1>6, <1>7 DEF SearchIn

\* A file takes a bitmap of one word, all of it and with what it has in use.
LEMMA FputKeeps == ASSUME Inv, NEW m \in Map, Fput(m) PROVE Inv'
<1>1. size = 64 /\ size \in Sizes
  BY FileSizesAssumption DEF Fput
<1>2. /\ data[m] \subseteq All /\ used[m] \in 0 .. Octets
      /\ \A i \in data[m] : i \div 8 < used[m]
  BY DEF Inv, TypeOK, UsedCovers
<1>3. All = FirstWord
  BY <1>1 DEF All, FirstWord
<1>4. data[m] \cap FirstWord = data[m]
  BY <1>2, <1>3
<1>5. /\ file' = {[used |-> used[m], octets |-> data[m]]} /\ saved' = {data[m]}
      /\ UNCHANGED <<size, data, used, cursor, failed>>
  BY <1>4 DEF Fput
<1>6. /\ file' \subseteq [used : 0 .. Octets', octets : SUBSET FirstWord]
      /\ saved' \subseteq SUBSET All'
  <2>1. Octets' = Octets /\ All' = All
    BY <1>5 DEF Octets, All
  <2>2. [used |-> used[m], octets |-> data[m]] \in [used : 0 .. Octets, octets : SUBSET FirstWord]
    BY <1>2, <1>3
  <2>3. data[m] \in SUBSET All
    BY <1>2
  <2> QED BY <1>5, <2>1, <2>2, <2>3
<1>7. FileCovered'
  BY <1>1, <1>2, <1>5 DEF FileCovered
<1> QED BY <1>5, <1>6, <1>7 DEF Inv, TypeOK, UsedCovers, Octets, All

\* What is read is all there is, in the octets that came with it.
LEMMA FgetFacts ==
  ASSUME Inv, NEW m \in Map, NEW f \in file
  PROVE  /\ f.octets \subseteq All /\ f.used \in 0 .. Octets
         /\ \A i \in f.octets : i \div 8 < f.used
         /\ (data[m] \ FirstWord) \cup f.octets = f.octets
         /\ saved = {f.octets}
<1>1. size = 64 /\ saved = {f.octets} /\ \A i \in f.octets : i \div 8 < f.used
  BY DEF Inv, FileCovered
<1>2. f.used \in 0 .. Octets /\ f.octets \subseteq FirstWord /\ data[m] \subseteq All
  BY DEF Inv, TypeOK
<1>3. All = FirstWord
  BY <1>1 DEF All, FirstWord
<1> QED BY <1>1, <1>2, <1>3

LEMMA FgetKeeps == ASSUME Inv, NEW m \in Map, Fget(m) PROVE Inv'
<1>1. PICK f \in file : Only(m, (data[m] \ FirstWord) \cup f.octets, f.used)
  BY DEF Fget
<1> QED BY <1>1, FgetFacts, OnlyKeeps

LEMMA StepInv == ASSUME Inv, [Next]_vars PROVE Inv'
<1>1. CASE UNCHANGED vars
  BY <1>1 DEF vars, Inv, TypeOK, UsedCovers, FileCovered, Octets, All
<1>2. CASE Next
  BY <1>2, ChangeKeeps, SearchInKeeps, FputKeeps, FgetKeeps DEF Next
<1> QED BY <1>1, <1>2

LEMMA InvHolds == Spec => []Inv
BY InitInv, StepInv, PTL DEF Spec

-----------------------------------------------------------------------------
\* Whatever is done to a bitmap, its octets in use stay in the array, its
\* cursor in it or in the octet behind (zbits_set, zbits_next).
THEOREM TypesHold == Spec => []TypeOK
BY InvHolds, PTL DEF Inv

\* No bit is ever set in an octet that is not in use: what every operation
\* takes for granted that leaves such octets out (zbits_ones, zbits_or).
THEOREM UsedCoversHolds == Spec => []UsedCovers
BY InvHolds, PTL DEF Inv

-----------------------------------------------------------------------------
\* Answers

\* The first is the one that is least.
LEMMA LeastIs ==
  ASSUME NEW T, T \subseteq Nat, NEW x \in T, \A y \in T : x <= y
  PROVE  Least(T) = x
<1>1. Least(T) \in T /\ \A y \in T : Least(T) <= y
  BY LeastFacts
<1>2. Least(T) <= x /\ x <= Least(T) /\ x \in Nat /\ Least(T) \in Nat
  BY <1>1
<1> QED BY <1>2

\* A search that looks through places in their order finds what is first
\* anywhere, if that is among them and nothing outside the array precedes it.
LEMMA SameFirst ==
  ASSUME NEW T, NEW U, T \subseteq Nat, U \subseteq Nat, U # {},
         Least(U) \in T, \A y \in T : y \in U \/ y >= Least(U)
  PROVE  Least(T) = Least(U)
<1>1. Least(U) \in U /\ \A y \in U : Least(U) <= y
  BY LeastFacts
<1>2. \A y \in T : Least(U) <= y
  BY <1>1
<1> QED BY <1>2, LeastIs

\* What bounds a search forwards from a place in the array.
LEMMA ReachFacts ==
  ASSUME Inv, NEW m \in Map, NEW c \in All
  PROVE  LET reach == Larger(c \div 8, used[m])
         IN /\ size \in Nat /\ Octets \in Nat /\ size = 8 * Octets
            /\ c \in Nat /\ c < size /\ data[m] \subseteq All /\ All \subseteq Nat
            /\ used[m] \in 0 .. Octets /\ reach \in 0 .. Octets
            /\ reach >= used[m]
            /\ used[m] < Octets => reach < Octets
            /\ c \in data[m] => reach = used[m]
<1>1. /\ size \in Sizes /\ data[m] \subseteq All /\ used[m] \in 0 .. Octets
  BY DEF Inv, TypeOK
<1>2. /\ size \in Nat /\ Octets \in Nat /\ size = 8 * Octets
  BY <1>1, SizeFacts
<1>3. c \in Nat /\ c < size /\ c \div 8 \in 0 .. Octets - 1
  BY <1>1, OctetOf
<1>4. All \subseteq Nat
  BY <1>2 DEF All
<1>5. c \in data[m] => c \div 8 < used[m]
  BY DEF Inv, UsedCovers
<1> QED BY <1>1, <1>2, <1>3, <1>4, <1>5 DEF Larger

\* The next one from any place in the array.
LEMMA NextOneIs ==
  ASSUME Inv, NEW m \in Map, NEW c \in All, NEW beyond,
         {i \in data[m] : i > c} # {} \/ used[m] < Octets
  PROVE  NextOne(m, c, beyond) = Least({i \in data[m] : i > c})
<1> DEFINE above == {i \in data[m] : i > c}
           found == {i \in Ahead(m, c) : IsSet(m, i, beyond)}
           reach == Larger(c \div 8, used[m])
<1>1. /\ size \in Nat /\ Octets \in Nat /\ size = 8 * Octets
      /\ c \in Nat /\ c < size /\ data[m] \subseteq All /\ All \subseteq Nat
      /\ used[m] \in 0 .. Octets /\ reach \in 0 .. Octets
      /\ reach >= used[m]
      /\ used[m] < Octets => reach < Octets
  BY ReachFacts
<1>2. \A y : y \in found <=> y \in c + 1 .. 8 * reach + 7 /\ IsSet(m, y, beyond)
  BY <1>1 DEF Ahead, HereAndAhead
<1>3. \A y \in found : y \in Nat /\ y > c /\ y <= 8 * reach + 7
                       /\ (y < size => y \in above)
  BY <1>1, <1>2 DEF IsSet
<1>4. CASE above # {}
  <2>1. above \subseteq Nat
    BY <1>1
  <2>2. Least(above) \in above /\ \A y \in above : Least(above) <= y
    BY <1>4, <2>1, LeastFacts, Zenon
  <2> DEFINE x == Least(above)
  <2>3. x \in data[m] /\ x > c /\ x \in Nat /\ x < size
    BY <1>1, <2>2 DEF All
  <2>4. x \div 8 < used[m]
    BY <2>3 DEF Inv, UsedCovers
  <2>5. x \in found
    <3> HIDE DEF x
    <3>1. x \in c + 1 .. 8 * reach + 7
      <4> HIDE DEF reach
      <4> QED BY <1>1, <2>3, <2>4
    <3>2. IsSet(m, x, beyond)
      BY <2>3 DEF IsSet
    <3> QED BY <1>2, <3>1, <3>2
  <2>6. ASSUME NEW y \in found PROVE y \in above \/ y >= x
    <3> HIDE DEF x, found, above
    <3> QED BY <1>1, <1>3, <2>3
  <2>7. found \subseteq Nat
    BY <1>3
  <2>8. Least(found) = Least(above)
    <3> HIDE DEF found, above
    <3> QED BY <1>4, <2>1, <2>5, <2>6, <2>7, SameFirst
  <2> QED BY <2>8 DEF NextOne
<1>5. CASE above = {}
  <2>1. reach < Octets
    BY <1>1, <1>5
  <2>2. ASSUME NEW y \in found PROVE FALSE
    <3>1. y < size
      <4> HIDE DEF reach, found
      <4> QED BY <1>1, <1>3, <2>1
    <3> QED BY <1>3, <1>5, <3>1
  <2> QED BY <1>5, <2>2 DEF NextOne
<1> QED BY <1>4, <1>5

\* The next zero from any one.
LEMMA NextZeroIs ==
  ASSUME Inv, NEW m \in Map, NEW c \in data[m], NEW beyond,
         {i \in All \ data[m] : i > c} # {}
  PROVE  NextZero(m, c, beyond) = Least({i \in All \ data[m] : i > c})
<1> DEFINE zeros == {i \in All \ data[m] : i > c}
           found == {i \in HereAndAhead(m, c) : ~IsSet(m, i, beyond)}
           reach == Larger(c \div 8, used[m])
<1>1. c \in All
  BY DEF Inv, TypeOK
<1>2. /\ size \in Nat /\ Octets \in Nat /\ size = 8 * Octets
      /\ c \in Nat /\ c < size /\ data[m] \subseteq All /\ All \subseteq Nat
      /\ used[m] \in 0 .. Octets /\ reach = used[m]
  BY <1>1, ReachFacts
<1>3. \A y : y \in found <=> y \in c .. 8 * reach + 7 /\ ~IsSet(m, y, beyond)
  BY <1>2 DEF HereAndAhead
<1>4. \A y \in found : y \in Nat /\ (y < size => y \in zeros)
  <2>1. ASSUME NEW y \in found PROVE y \in Nat /\ (y < size => y \in zeros)
    <3>1. y \in Nat /\ y >= c /\ ~IsSet(m, y, beyond)
      BY <1>2, <1>3
    <3>2. y < size => y \notin data[m]
      BY <3>1 DEF IsSet
    <3>3. y < size => y # c /\ y \in All
      BY <1>2, <3>1, <3>2 DEF All
    <3> QED BY <1>2, <3>1, <3>2, <3>3
  <2> QED BY <2>1
<1>5. zeros \subseteq Nat
  BY <1>2
<1>6. Least(zeros) \in zeros /\ \A y \in zeros : Least(zeros) <= y
  BY <1>5, LeastFacts, Zenon
<1> DEFINE x == Least(zeros)
<1>7. x \in All /\ x \notin data[m] /\ x > c /\ x \in Nat /\ x < size
  BY <1>2, <1>6 DEF All
<1>8. x <= 8 * used[m] + 7
  <2>1. CASE used[m] = Octets
    <3> HIDE DEF x
    <3> QED BY <1>2, <1>7, <2>1
  <2>2. CASE used[m] < Octets
    <3> DEFINE z == 8 * used[m]
    <3>1. z \in Nat /\ z < size /\ z \div 8 = used[m]
      BY <1>2, <2>2
    <3>2. z \in All
      BY <1>2, <3>1 DEF All
    <3>3. z \notin data[m]
      BY <1>2, <3>1 DEF Inv, UsedCovers
    <3>4. c \div 8 < used[m]
      BY DEF Inv, UsedCovers
    <3>5. z > c
      BY <1>2, <3>4
    <3>6. z \in zeros
      BY <3>2, <3>3, <3>5
    <3>7. x <= z
      <4> HIDE DEF z, zeros
      <4> QED BY <1>6, <3>6
    <3> HIDE DEF x
    <3> QED BY <1>2, <1>7, <3>7
  <2> QED BY <1>2, <2>1, <2>2
<1>9. x \in found
  <2> HIDE DEF x
  <2>1. x \in c .. 8 * reach + 7
    BY <1>2, <1>7, <1>8
  <2>2. ~IsSet(m, x, beyond)
    BY <1>7 DEF IsSet
  <2> QED BY <1>3, <2>1, <2>2
<1>10. \A y \in found : y \in zeros \/ y >= x
  <2> HIDE DEF x, found, zeros
  <2> QED BY <1>2, <1>4, <1>7
<1>11. Least(found) = Least(zeros)
  <2> found \subseteq Nat
    BY <1>4
  <2> HIDE DEF found, zeros
  <2> QED BY <1>5, <1>6, <1>9, <1>10, SameFirst
<1> QED BY <1>11 DEF NextZero

\* The first of some places is 0 if 0 is one of them.
LEMMA ZeroIsLeast == ASSUME NEW T, T \subseteq Nat, 0 \in T PROVE Min(T) = 0
<1>1. \A y \in T : 0 <= y
  OBVIOUS
<1>2. Least(T) = 0
  BY <1>1, LeastIs, Zenon
<1> QED BY <1>2 DEF Least

LEMMA FirstOneIs ==
  ASSUME Inv, NEW m \in Map, NEW beyond, data[m] # {}
  PROVE  FirstOne(m, beyond) = Min(data[m])
<1>1. data[m] \subseteq Nat /\ 0 \in All
  BY SizeFacts DEF Inv, TypeOK, All
<1>2. CASE 0 \in data[m]
  BY <1>1, <1>2, ZeroIsLeast DEF FirstOne
<1>3. CASE 0 \notin data[m]
  <2>1. \A i \in data[m] : i > 0
    BY <1>1, <1>3
  <2>2. {i \in data[m] : i > 0} = data[m]
    BY <2>1
  <2>3. NextOne(m, 0, beyond) = Least(data[m])
    BY <1>1, <2>2, NextOneIs
  <2> QED BY <1>3, <2>3 DEF FirstOne, Least
<1> QED BY <1>2, <1>3

LEMMA FirstZeroIs ==
  ASSUME Inv, NEW m \in Map, NEW beyond, data[m] # All
  PROVE  FirstZero(m, beyond) = Min(All \ data[m])
<1>1. data[m] \subseteq All /\ All \subseteq Nat /\ 0 \in All
  BY SizeFacts DEF Inv, TypeOK, All
<1>2. CASE 0 \notin data[m]
  BY <1>1, <1>2, ZeroIsLeast DEF FirstZero
<1>3. CASE 0 \in data[m]
  <2>1. \A i \in All \ data[m] : i > 0
    BY <1>1, <1>3
  <2>2. {i \in All \ data[m] : i > 0} = All \ data[m] /\ All \ data[m] # {}
    BY <1>1, <2>1
  <2>3. NextZero(m, 0, beyond) = Least(All \ data[m])
    BY <1>3, <2>2, NextZeroIs
  <2> QED BY <1>3, <2>2, <2>3 DEF FirstZero, Least
<1> QED BY <1>2, <1>3

\* A search backwards reads nothing behind its start.
LEMMA PrevOneIs ==
  ASSUME Inv, NEW m \in Map, NEW c \in All, NEW beyond
  PROVE  PrevOne(m, c, beyond) = Greatest({i \in data[m] : i < c})
<1>1. data[m] \subseteq Nat /\ c \in Nat /\ c < size /\ size \in Nat
  BY SizeFacts DEF Inv, TypeOK, All
<1>2. {i \in 0 .. c - 1 : IsSet(m, i, beyond)} = {i \in data[m] : i < c}
  BY <1>1 DEF IsSet
<1> QED BY <1>2 DEF PrevOne

\* Whatever was done before, the ones are counted right, and the searches
\* from where the last one ended find what is nearest (zbits_ones,
\* zbits_first, zbits_next, zbits_prev, zbits_first_zero, zbits_next_zero).
THEOREM AnswersHold == Spec => []AnswersExact
<1>1. ASSUME Inv PROVE AnswersExact
  <2> SUFFICES ASSUME NEW m \in Map, NEW beyond \in Beyond
      PROVE  LET c == cursor[m]
                 above == {i \in data[m] : i > c}
                 zeros == {i \in All \ data[m] : i > c}
                 inside == c < size
             IN /\ Ones(m) = Cardinality(data[m])
                /\ inside /\ (above # {} \/ used[m] < Octets)
                     => NextOne(m, c, beyond) = Least(above)
                /\ c \in data[m] /\ zeros # {} => NextZero(m, c, beyond) = Min(zeros)
                /\ inside => PrevOne(m, c, beyond) = Greatest({i \in data[m] : i < c})
                /\ data[m] # {} => FirstOne(m, beyond) = Min(data[m])
                /\ data[m] # All => FirstZero(m, beyond) = Min(All \ data[m])
    BY DEF AnswersExact
  <2> DEFINE c == cursor[m]
  <2>1. c < size => c \in All
    BY <1>1, SizeFacts DEF Inv, TypeOK, All
  <2>2. Ones(m) = Cardinality(data[m])
    <3>1. {i \in data[m] : i \div 8 < used[m]} = data[m]
      BY <1>1 DEF Inv, UsedCovers
    <3> QED BY <3>1 DEF Ones
  <2>3. ASSUME c < size, {i \in data[m] : i > c} # {} \/ used[m] < Octets
        PROVE  NextOne(m, c, beyond) = Least({i \in data[m] : i > c})
    BY <1>1, <2>1, <2>3, NextOneIs
  <2>4. ASSUME c \in data[m], {i \in All \ data[m] : i > c} # {}
        PROVE  NextZero(m, c, beyond) = Min({i \in All \ data[m] : i > c})
    BY <1>1, <2>4, NextZeroIs DEF Least
  <2>5. ASSUME c < size
        PROVE  PrevOne(m, c, beyond) = Greatest({i \in data[m] : i < c})
    BY <1>1, <2>1, <2>5, PrevOneIs
  <2>6. /\ data[m] # {} => FirstOne(m, beyond) = Min(data[m])
        /\ data[m] # All => FirstZero(m, beyond) = Min(All \ data[m])
    BY <1>1, FirstOneIs, FirstZeroIs
  <2> QED BY <2>2, <2>3, <2>4, <2>5, <2>6
<1> QED BY <1>1, InvHolds, PTL

-----------------------------------------------------------------------------
\* The refinement

\* A change is one that a set of bits may see.
LEMMA ChangeRefines == ASSUME Inv, NEW m \in Map, Change(m) PROVE Sets!Next
<1>1. /\ size \in Sizes /\ Octets \in Nat
      /\ used[m] \in 0 .. Octets /\ data[m] \subseteq All
      /\ \A i \in data[m] : i \div 8 < used[m]
  BY SizeFacts DEF Inv, TypeOK, UsedCovers
<1>2. ASSUME NEW set, NEW n, Only(m, set, n)
      PROVE  Sets!Become(m, set) /\ UNCHANGED size
  BY <1>2 DEF Only, Contents, Sets!Become
<1>3. ASSUME NEW i \in Index \cap All, Set(m, i) \/ Clear(m, i) PROVE Sets!Next
  BY <1>2, <1>3 DEF Set, Clear, All, Sets!Next, Sets!Edit, Sets!All
<1>4. CASE Erase(m)
  BY <1>2, <1>4 DEF Erase, Sets!Next
<1>5. CASE Not(m)
  <2>1. data[m] \subseteq Words(used[m]) /\ Words(used[m]) \subseteq All
    BY <1>1, WordsFacts
  <2>2. (Words(used[m]) \ data[m]) \cup (All \ Words(used[m])) = All \ data[m]
    BY <2>1
  <2>3. Sets!Become(m, Sets!All \ data[m]) /\ UNCHANGED size
    BY <1>2, <1>5, <2>2 DEF Not, All, Sets!All
  <2> QED BY <2>3 DEF Sets!Next
<1>6. ASSUME NEW s \in Map, And(m, s) PROVE Sets!Next
  <2> DEFINE n == Smaller(used[m], used[s])
  <2>1. used[s] \in 0 .. Octets /\ \A i \in data[s] : i \div 8 < used[s]
    BY DEF Inv, TypeOK, UsedCovers
  <2>2. n \in 0 .. Octets /\ n \in {used[m], used[s]}
    BY <1>1, <2>1, LargerFacts
  <2>3. \A i \in data[m] \cap data[s] : i \in Words(n)
    <3> HIDE DEF n
    <3> QED BY <1>1, <2>1, <2>2, WordsFacts
  <2>4. data[m] \cap data[s] \cap Words(n) = data[m] \cap data[s]
    BY <2>3
  <2>5. Sets!Become(m, data[m] \cap data[s]) /\ UNCHANGED size
    BY <1>2, <1>6, <2>4 DEF And
  <2> QED BY <2>5 DEF Sets!Next, Sets!Combine
<1>7. ASSUME NEW s \in Map, Or(m, s) \/ Xor(m, s) PROVE Sets!Next
  <2>1. data[s] \cap Words(Larger(used[m], used[s])) = data[s]
    BY CombinedFacts
  <2>2. /\ \/ Sets!Become(m, data[m] \cup data[s])
           \/ Sets!Become(m, (data[m] \ data[s]) \cup (data[s] \ data[m]))
        /\ UNCHANGED size
    BY <1>2, <1>7, <2>1 DEF Or, Xor
  <2> QED BY <2>2 DEF Sets!Next, Sets!Combine
<1> QED BY <1>3, <1>4, <1>5, <1>6, <1>7 DEF Change

\* What zbits_insert sets is the first bit that is not set, if there is one.
LEMMA InsertRefines ==
  ASSUME Inv, NEW m \in Map, Insert(m)
  PROVE  Sets!Next \/ UNCHANGED <<size, data, saved>>
<1>1. PICK beyond \in Beyond :
        LET found == FirstZero(m, beyond)
        IN /\ IF found \in All THEN Contents(m, data[m] \cup {found}, UsedWith(m, found))
              ELSE UNCHANGED <<data, used>>
           /\ UNCHANGED <<size, saved>>
  BY DEF Insert
<1> DEFINE x == FirstZero(m, beyond)
<1>2. CASE x \notin All
  BY <1>1, <1>2
<1>3. CASE x \in All
  <2>1. data[m] \subseteq All /\ All \subseteq Nat /\ size \in Nat
    BY SizeFacts DEF Inv, TypeOK, All
  <2>2. data[m] # All
    <3> SUFFICES ASSUME data[m] = All PROVE FALSE
      OBVIOUS
    <3>1. 0 \in All
      BY SizeFacts DEF Inv, TypeOK, All
    <3>2. x = NextZero(m, 0, beyond)
      BY <3>1 DEF FirstZero
    <3> DEFINE found == {i \in HereAndAhead(m, 0) : ~IsSet(m, i, beyond)}
    <3>3. 0 \in 0 .. size + 7
      BY <2>1
    <3>4. found \subseteq Nat
      BY <2>1, <3>3, AheadFacts DEF Inv
    <3>5. x = Least(found)
      BY <3>2 DEF NextZero
    <3>6. x # -1
      BY <1>3, <2>1
    <3>7. x \in found
      BY <3>4, <3>5, <3>6, LeastFacts
    <3>8. x \notin data[m]
      <4>1. ~IsSet(m, x, beyond)
        BY <3>7
      <4>2. x < size
        <5> HIDE DEF x
        <5> QED BY <1>3, <2>1 DEF All
      <4> HIDE DEF x
      <4> QED BY <4>1, <4>2 DEF IsSet
    <3> QED BY <1>3, <3>8
  <2>3. x = Least(All \ data[m]) /\ All \ data[m] # {} /\ All \ data[m] \subseteq Nat
    BY <2>1, <2>2, FirstZeroIs DEF Least
  <2>4. x \in All \ data[m] /\ \A y \in All \ data[m] : x <= y
    BY <2>3, LeastFacts
  <2>5. 0 .. x - 1 \subseteq data[m]
    <3> HIDE DEF x
    <3>1. ASSUME NEW y \in 0 .. x - 1 PROVE y \in data[m]
      <4>1. y \in All /\ y < x
        BY <2>1, <2>4 DEF All
      <4> QED BY <2>1, <2>4, <4>1
    <3> QED BY <3>1
  <2>6. Sets!Become(m, data[m] \cup {x}) /\ UNCHANGED size
    BY <1>1, <1>3 DEF Contents, Sets!Become
  <2>7. Sets!Insert(m)
    <3> HIDE DEF x
    <3> QED BY <2>4, <2>5, <2>6 DEF Sets!Insert, Sets!All, All
  <2> QED BY <2>6, <2>7 DEF Sets!Next
<1> QED BY <1>2, <1>3

\* zbits keeps what a set of bits promises, although most operations leave
\* out the octets that are not in use (zbits_and, zbits_or, zbits_xor,
\* zbits_not, zbits_insert, zbits_fput, zbits_fget).
THEOREM RefinesBitSet == Spec => IsBitSet
<1>1. Init => Sets!Init
  BY DEF Init, Sets!Init
<1>2. ASSUME Inv, [Next]_vars PROVE [Sets!Next]_<<size, data, saved>>
  <2>1. CASE UNCHANGED vars
    BY <2>1 DEF vars
  <2>2. ASSUME NEW m \in Map, Change(m) PROVE Sets!Next
    BY <1>2, <2>2, ChangeRefines
  <2>3. ASSUME NEW m \in Map, SearchIn(m)
        PROVE  Sets!Next \/ UNCHANGED <<size, data, saved>>
    <3>1. CASE Insert(m)
      BY <1>2, <3>1, InsertRefines
    <3>2. CASE ~Insert(m)
      BY <2>3, <3>2 DEF SearchIn, First, Last, NextBit, PrevBit, FirstZeroBit,
                        NextZeroBit, PrevZeroBit, Moves
    <3> QED BY <3>1, <3>2
  <2>4. ASSUME NEW m \in Map, Fput(m) PROVE Sets!Next
    BY <2>4 DEF Fput, Sets!Next, Sets!Save
  <2>5. ASSUME NEW m \in Map, Fget(m) PROVE Sets!Next
    <3>1. PICK f \in file : Only(m, (data[m] \ FirstWord) \cup f.octets, f.used)
      BY <2>5 DEF Fget
    <3>2. (data[m] \ FirstWord) \cup f.octets = f.octets /\ saved = {f.octets}
      BY <1>2, FgetFacts
    <3>3. Sets!Become(m, f.octets) /\ UNCHANGED size
      BY <3>1, <3>2 DEF Only, Contents, Sets!Become
    <3> QED BY <3>2, <3>3 DEF Sets!Next, Sets!Load
  <2> QED BY <1>2, <2>1, <2>2, <2>3, <2>4, <2>5 DEF Next
<1> QED BY <1>1, <1>2, InvHolds, PTL DEF Spec, IsBitSet, Sets!Spec
=============================================================================
