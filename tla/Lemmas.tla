------------------------------- MODULE Lemmas -------------------------------
(***************************************************************************)
(* Facts about numbers, recursive functions and lists that the proofs of   *)
(* several components use.  No induction theorem of the library takes an   *)
(* operator here, so induction goes by sets: a set of numbers that holds   *)
(* 0, and with each number the next.                                       *)
(***************************************************************************)
EXTENDS Integers, Sequences, TLAPS, WellFoundedInduction

-----------------------------------------------------------------------------
\* Numbers

\* Every non-empty set of naturals has a least element.
LEMMA LeastElement ==
  ASSUME NEW T, T \subseteq Nat, T # {}
  PROVE  \E x \in T : \A y \in T : x <= y
<1> DEFINE R == {ss \in Nat \X Nat : ss[1] < ss[2]}
<1>1. R = OpToRel(<, Nat)
  BY Zenon DEF OpToRel
<1>2. PICK x \in T : \A y \in T : ~ (<<y, x>> \in R)
  <2> HIDE DEF R
  <2> QED BY WFMin, NatLessThanWellFounded, <1>1, Zenon
<1>3. \A y \in T : ~ (y < x)
  BY <1>2
<1> QED BY <1>3

\* Every non-empty set of naturals that has a bound has a greatest element.
LEMMA GreatestElement ==
  ASSUME NEW k \in Nat, NEW T, T \subseteq 0 .. k, T # {}
  PROVE  \E x \in T : \A y \in T : x >= y
<1> DEFINE U == {k - x : x \in T}
<1>1. U \subseteq Nat /\ U # {}
  <2>1. \A x \in T : k - x \in Nat
    OBVIOUS
  <2>2. PICK z \in T : TRUE
    OBVIOUS
  <2>3. k - z \in U
    OBVIOUS
  <2> QED BY <2>1, <2>3
<1>2. PICK u \in U : \A v \in U : u <= v
  <2> HIDE DEF U
  <2> QED BY <1>1, LeastElement
<1>3. PICK x \in T : u = k - x
  OBVIOUS
<1>4. ASSUME NEW y \in T PROVE x >= y
  <2>1. k - y \in U
    OBVIOUS
  <2>2. k - x <= k - y
    <3> HIDE DEF U
    <3> QED BY <1>2, <1>3, <2>1
  <2> QED BY <2>2
<1> QED BY <1>4

\* Induction up to k.
LEMMA UpTo ==
  ASSUME NEW k \in Nat, NEW G, 0 \in G,
         \A m \in 0 .. k - 1 : m \in G => m + 1 \in G
  PROVE  0 .. k \subseteq G
<1> DEFINE T == {m \in 0 .. k : m \notin G}
<1>1. SUFFICES ASSUME T # {} PROVE FALSE
  OBVIOUS
<1>2. PICK m \in T : \A y \in T : m <= y
  <2>1. T \subseteq Nat
    OBVIOUS
  <2> HIDE DEF T
  <2> QED BY LeastElement, <1>1, <2>1
<1>3. m \in 0 .. k /\ m # 0 /\ m \notin G
  OBVIOUS
<1>4. m - 1 \in 0 .. k - 1
  BY <1>3
<1>5. m - 1 \notin T
  <2> HIDE DEF T
  <2> QED BY <1>2, <1>3
<1>6. m - 1 \in G
  BY <1>4, <1>5
<1>7. (m - 1) + 1 = m
  BY <1>3
<1> QED BY <1>3, <1>4, <1>6, <1>7

-----------------------------------------------------------------------------
\* Recursive functions

\* Function f is given by its value at 0 and by each value from the last.
Iterates(V, base, k, step, f) ==
  /\ f \in [0 .. k -> V]
  /\ f[0] = base
  /\ \A n \in 1 .. k : f[n] = step[<<f[n - 1], n>>]

\* There is such a function.
LEMMA PrimitiveRecursion ==
  ASSUME NEW V, NEW base \in V, NEW k \in Nat, NEW step \in [V \X (1 .. k) -> V]
  PROVE  \E f : Iterates(V, base, k, step, f)
<1> DEFINE Upto(m) == \E f \in [0 .. m -> V] :
                        f[0] = base /\ \A n \in 1 .. m : f[n] = step[<<f[n - 1], n>>]
           G == {m \in 0 .. k : Upto(m)}
<1>1. 0 \in G
  <2> DEFINE f == [n \in 0 .. 0 |-> base]
  <2>1. f \in [0 .. 0 -> V] /\ f[0] = base
    OBVIOUS
  <2>2. Upto(0)
    <3> HIDE DEF f
    <3> QED BY <2>1
  <2> QED BY <2>2
<1>2. ASSUME NEW m \in 0 .. k - 1, m \in G PROVE m + 1 \in G
  <2>1. PICK g \in [0 .. m -> V] :
          g[0] = base /\ \A n \in 1 .. m : g[n] = step[<<g[n - 1], n>>]
    BY <1>2
  <2> DEFINE last == step[<<g[m], m + 1>>]
             f == [n \in 0 .. m + 1 |-> IF n <= m THEN g[n] ELSE last]
  <2>2. last \in V
    <3>1. g[m] \in V /\ m + 1 \in 1 .. k
      OBVIOUS
    <3>2. <<g[m], m + 1>> \in V \X (1 .. k)
      BY <3>1
    <3> QED BY <3>2
  <2>3. /\ f \in [0 .. m + 1 -> V]
        /\ \A n \in 0 .. m : f[n] = g[n]
        /\ f[m + 1] = last
    <3> HIDE DEF last
    <3> QED BY <2>2
  <2>4. ASSUME NEW n \in 1 .. m + 1 PROVE f[n] = step[<<f[n - 1], n>>]
    <3> HIDE DEF f
    <3>1. CASE n = m + 1
      <4>1. f[n - 1] = g[m]
        BY <2>3, <3>1
      <4> QED BY <2>3, <3>1, <4>1
    <3>2. CASE n # m + 1
      <4>1. n \in 1 .. m /\ n \in 0 .. m /\ n - 1 \in 0 .. m
        BY <3>2
      <4> QED BY <2>1, <2>3, <4>1
    <3> QED BY <3>1, <3>2
  <2>5. f[0] = base
    <3> HIDE DEF f
    <3>1. 0 \in 0 .. m
      OBVIOUS
    <3> QED BY <2>1, <2>3, <3>1
  <2>6. Upto(m + 1)
    <3> HIDE DEF f
    <3> QED BY <2>3, <2>4, <2>5
  <2> QED BY <2>6
<1>3. 0 .. k \subseteq G
  <2> HIDE DEF G
  <2> QED BY <1>1, <1>2, UpTo
<1>4. Upto(k)
  BY <1>3
<1> QED BY <1>4, Zenon DEF Iterates

\* The same for numbers, from 0 on.
LEMMA NatRecursion ==
  ASSUME NEW k \in Nat, NEW step \in [Nat \X (1 .. k) -> Nat]
  PROVE  \E f \in [0 .. k -> Nat] :
           f[0] = 0 /\ \A n \in 1 .. k : f[n] = step[<<f[n - 1], n>>]
<1>1. PICK V : V = Nat
  OBVIOUS
<1>2. 0 \in V /\ step \in [V \X (1 .. k) -> V]
  BY <1>1
<1>3. PICK f : Iterates(V, 0, k, step, f)
  BY <1>2, PrimitiveRecursion, Zenon
<1> QED BY <1>1, <1>3 DEF Iterates

\* A function whose values stay in V from one to the next.
LEMMA StaysWithin ==
  ASSUME NEW V, NEW k \in Nat, NEW f, f[0] \in V,
         \A n \in 1 .. k : f[n - 1] \in V => f[n] \in V
  PROVE  \A n \in 0 .. k : f[n] \in V
<1> DEFINE G == {n \in 0 .. k : f[n] \in V}
<1>1. 0 \in G
  OBVIOUS
<1>2. ASSUME NEW n \in 0 .. k - 1, n \in G PROVE n + 1 \in G
  <2>1. n + 1 \in 1 .. k /\ n + 1 \in 0 .. k /\ (n + 1) - 1 = n
    OBVIOUS
  <2> QED BY <1>2, <2>1
<1>3. 0 .. k \subseteq G
  <2> HIDE DEF G
  <2> QED BY <1>1, <1>2, UpTo
<1> QED BY <1>3

-----------------------------------------------------------------------------
\* Lists

\* The list without element k (RemoveAt): what is before it stays, what is
\* behind it moves up.
Removed(list, k) == SubSeq(list, 1, k - 1) \o SubSeq(list, k + 1, Len(list))

LEMMA RemovedFacts ==
  ASSUME NEW S, NEW list \in Seq(S), NEW k \in 1 .. Len(list)
  PROVE  /\ Removed(list, k) \in Seq(S)
         /\ Len(Removed(list, k)) = Len(list) - 1
         /\ \A i \in 1 .. Len(list) - 1 :
              Removed(list, k)[i] = IF i < k THEN list[i] ELSE list[i + 1]
<1> DEFINE front == SubSeq(list, 1, k - 1)
           back == SubSeq(list, k + 1, Len(list))
<1>1. /\ front \in Seq(S) /\ Len(front) = k - 1
      /\ \A i \in 1 .. k - 1 : front[i] = list[i]
  OBVIOUS
<1>2. /\ back \in Seq(S) /\ Len(back) = Len(list) - k
      /\ \A i \in 1 .. Len(list) - k : back[i] = list[i + k]
  OBVIOUS
<1>3. Removed(list, k) = front \o back
  BY DEF Removed
<1> HIDE DEF front, back
<1>4. front \in Seq(S) /\ back \in Seq(S)
  BY <1>1, <1>2
<1>5. front \o back \in Seq(S) /\ Len(front \o back) = Len(front) + Len(back)
  BY ONLY <1>4
<1>6. ASSUME NEW i \in 1 .. Len(list) - 1
      PROVE  (front \o back)[i] = IF i < k THEN list[i] ELSE list[i + 1]
  <2>1. CASE i < k
    <3>1. (front \o back)[i] = front[i]
      BY <2>1, <1>1, <1>2
    <3> QED BY <3>1, <2>1, <1>1
  <2>2. CASE ~ (i < k)
    <3>1. (front \o back)[i] = back[i - (k - 1)]
      BY <2>2, <1>1, <1>2
    <3>2. i - (k - 1) \in 1 .. Len(list) - k
      BY <2>2
    <3> QED BY <3>1, <3>2, <2>2, <1>2
  <2> QED BY <2>1, <2>2
<1> QED BY <1>1, <1>2, <1>3, <1>5, <1>6

-----------------------------------------------------------------------------
\* Lists that get an entry at the end or lose the first

\* The list has got x at its end; it has lost its first entry.
Longer(old, new, x) ==
  /\ DOMAIN new = 1 .. Len(old) + 1 /\ DOMAIN old = 1 .. Len(old) /\ Len(old) \in Nat
  /\ Len(new) = Len(old) + 1
  /\ new[Len(old) + 1] = x /\ \A i \in 1 .. Len(old) : new[i] = old[i]
Shorter(old, new) ==
  /\ DOMAIN new = 1 .. Len(old) - 1 /\ DOMAIN old = 1 .. Len(old) /\ Len(old) \in Nat
  /\ Len(old) > 0 /\ Len(new) = Len(old) - 1
  /\ \A i \in 1 .. Len(old) - 1 : new[i] = old[i + 1]

LEMMA AppendIsLonger ==
  ASSUME NEW S, NEW list \in Seq(S), NEW x \in S
  PROVE  Longer(list, Append(list, x), x)
BY DEF Longer

LEMMA TailIsShorter ==
  ASSUME NEW S, NEW list \in Seq(S), list # <<>>
  PROVE  Shorter(list, Tail(list)) /\ Head(list) = list[1] /\ 1 \in DOMAIN list
BY DEF Shorter

LEMMA LongerEntries ==
  ASSUME NEW old, NEW new, NEW x, Longer(old, new, x)
  PROVE  /\ \A i \in DOMAIN new :
              \/ i \in DOMAIN old /\ new[i] = old[i]
              \/ i = Len(old) + 1 /\ new[i] = x
         /\ \A i \in DOMAIN old : i \in DOMAIN new /\ new[i] = old[i]
         /\ Len(old) + 1 \in DOMAIN new /\ new[Len(old) + 1] = x
         /\ \A i \in DOMAIN old : i < Len(old) + 1
BY DEF Longer

LEMMA ShorterEntries ==
  ASSUME NEW old, NEW new, Shorter(old, new)
  PROVE  /\ \A i \in DOMAIN new : i + 1 \in DOMAIN old /\ new[i] = old[i + 1] /\ i \in Int
         /\ \A i \in DOMAIN new : \E k \in DOMAIN old : new[i] = old[k]
         /\ \A k \in DOMAIN old : k # 1 => k - 1 \in DOMAIN new /\ new[k - 1] = old[k]
         /\ 1 \in DOMAIN old /\ \A i \in DOMAIN new : 1 < i + 1
         /\ DOMAIN new \subseteq Int /\ DOMAIN old \subseteq Int
BY DEF Shorter

LEMMA JoinEntries ==
  ASSUME NEW S, NEW front \in Seq(S), NEW back \in Seq(S)
  PROVE  /\ front \o back \in Seq(S) /\ Len(front \o back) = Len(front) + Len(back)
         /\ \A i \in 1 .. Len(front) : (front \o back)[i] = front[i]
         /\ \A i \in 1 .. Len(back) : (front \o back)[Len(front) + i] = back[i]
OBVIOUS

\* A list with one more entry in front of it.
LEMMA HeadedBy ==
  ASSUME NEW S, NEW x \in S, NEW more \in Seq(S), NEW all, all = <<x>> \o more
  PROVE  /\ all \in Seq(S) /\ Len(all) = 1 + Len(more) /\ all[1] = x
         /\ \A i \in DOMAIN all : i # 1 => i - 1 \in DOMAIN more /\ all[i] = more[i - 1]
<1>1. PICK k \in Nat : k = Len(more)
  OBVIOUS
<1>2. PICK one : one = <<x>>
  OBVIOUS
<1>3. one \in Seq(S) /\ one[1] = x
  BY <1>2
<1>4. PICK n \in Nat : n = Len(one) /\ n = 1
  BY <1>2
<1>5. /\ all \in Seq(S) /\ Len(all) = n + k
      /\ \A i \in 1 .. n : all[i] = one[i]
      /\ \A i \in 1 .. k : all[n + i] = more[i]
  <2>1. n = Len(one) /\ all = one \o more
    BY <1>2, <1>4
  <2> QED BY ONLY <1>1, <1>3, <2>1, more \in Seq(S), JoinEntries
<1>6. /\ all \in Seq(S) /\ Len(all) = 1 + k
      /\ all[1] = x /\ \A i \in 1 .. k : all[1 + i] = more[i]
  BY ONLY <1>3, <1>4, <1>5
<1>7. \A i \in 1 .. 1 + k : i # 1 => i - 1 \in 1 .. k /\ 1 + (i - 1) = i
  BY <1>1
<1>8. DOMAIN all = 1 .. 1 + k /\ DOMAIN more = 1 .. k
  BY <1>1, <1>6
<1> QED BY <1>1, <1>6, <1>7, <1>8

LEMMA AppendIsJoin ==
  ASSUME NEW S, NEW list \in Seq(S), NEW x \in S
  PROVE  Append(list, x) = list \o <<x>>
OBVIOUS
=============================================================================
