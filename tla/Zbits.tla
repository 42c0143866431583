------------------------------- MODULE Zbits -------------------------------
(***************************************************************************)
(* Bitmaps of a fixed size, a draft class.  A bitmap is an array of        *)
(* octets, worked on 64 bits at a time, with the number of octets that are *)
(* in use, so that operations need not touch the rest, and a cursor for    *)
(* searching.                                                              *)
(*                                                                         *)
(* The array is given here by the numbers of the bits that are set; bit i  *)
(* is in octet i \div 8.  A search may read the one octet behind the       *)
(* array, where anything may be.  A search backwards may leave the array   *)
(* at its other end, and a failed assertion ends the program: nothing is   *)
(* said of what follows.                                                   *)
(*                                                                         *)
(* All bitmaps of a program are of one size.  Only those of one word are   *)
(* written to files: of a larger one a file would hold the first word.     *)
(***************************************************************************)
EXTENDS Integers, FiniteSetsExt

CONSTANTS
  Map,       \* bitmaps
  Sizes,     \* how many bits they may have
  FileSizes, \* the sizes at which they are written to a file and read again
  Index,     \* the bits that callers set and clear
  Beyond,    \* what may be in the octet behind an array
  MaxSearches \* bound on the searches, zbits_insert included

ASSUME SizesAssumption == \A n \in Sizes : n \in Nat \ {0} /\ n % 64 = 0
ASSUME FileSizesAssumption == FileSizes \subseteq Sizes \cap {64}
ASSUME IndexAssumption == Index \subseteq Nat
ASSUME BeyondAssumption == Beyond \subseteq SUBSET (0 .. 7)
ASSUME SearchesAssumption == MaxSearches \in Nat

VARIABLES
  size,    \* the bits that a bitmap has
  data,    \* the bits that are set in each bitmap
  used,    \* the number of octets in use
  cursor,  \* where the last search ended
  file,    \* what was written last, if anything: a size and eight octets
  saved,   \* history: the bitmap that was written last, if any
  failed,  \* the program died or read where it must not
  searches \* how many, for the bound

vars == <<size, data, used, cursor, file, saved, failed, searches>>

Octets == size \div 8
All == 0 .. size - 1

Init ==
  /\ size \in Sizes
  /\ data = [m \in Map |-> {}] /\ used = [m \in Map |-> 0]
  /\ cursor = [m \in Map |-> 0]
  /\ file = {} /\ saved = {}
  /\ failed = FALSE /\ searches = 0

-----------------------------------------------------------------------------
\* Changes

Larger(i, j) == IF i > j THEN i ELSE j
Smaller(i, j) == IF i < j THEN i ELSE j

Contents(m, set, octets) ==
  /\ ~failed
  /\ data' = [data EXCEPT ![m] = set]
  /\ used' = [used EXCEPT ![m] = octets]

Only(m, set, octets) ==
  Contents(m, set, octets) /\ UNCHANGED <<size, cursor, file, saved, failed, searches>>

UsedWith(m, i) == Larger(used[m], i \div 8 + 1)

Set(m, i) == Only(m, data[m] \cup {i}, UsedWith(m, i))

Clear(m, i) == Only(m, data[m] \ {i}, used[m])

Erase(m) == Only(m, {}, 0)

\* The bits in the words that n octets lie in.
Words(n) == {i \in All : i \div 64 < (n + 7) \div 8}

\* What follows the words both have in use is set to zero; the number of
\* octets in use stays.
And(m, s) ==
  Only(m, data[m] \cap data[s] \cap Words(Smaller(used[m], used[s])), used[m])

\* Mutant: the words the source has in use and the other has not are left.
OrInOwn(m, s) ==
  Only(m, data[m] \cup (data[s] \cap Words(used[m])), Larger(used[m], used[s]))

Or(m, s) ==
  LET n == Larger(used[m], used[s])
  IN Only(m, data[m] \cup (data[s] \cap Words(n)), n)

Xor(m, s) ==
  LET n == Larger(used[m], used[s])
      other == data[s] \cap Words(n)
  IN Only(m, (data[m] \ other) \cup (other \ data[m]), n)

\* Words in use are complemented, the others set to ones.
Not(m) ==
  Only(m, (Words(used[m]) \ data[m]) \cup (All \ Words(used[m])), Octets)

Ones(m) == Cardinality({i \in data[m] : i \div 8 < used[m]})

-----------------------------------------------------------------------------
\* Searches, from place c

Least(places) == IF places = {} THEN -1 ELSE Min(places)
Greatest(places) == IF places = {} THEN -1 ELSE Max(places)

IsSet(m, i, beyond) == IF i < size THEN i \in data[m] ELSE i - size \in beyond

\* Forwards: the rest of the octet, then up to the octet behind those in use.
\* The mask for ones hides the place itself, the mask for zeros does not.
HereAndAhead(m, c) == c .. 8 * Larger(c \div 8, used[m]) + 7
Ahead(m, c) == HereAndAhead(m, c) \ {c}

NextOne(m, c, beyond) == Least({i \in Ahead(m, c) : IsSet(m, i, beyond)})
NextZero(m, c, beyond) == Least({i \in HereAndAhead(m, c) : ~IsSet(m, i, beyond)})
PrevOne(m, c, beyond) == Greatest({i \in 0 .. c - 1 : IsSet(m, i, beyond)})

FirstOne(m, beyond) == IF 0 \in data[m] THEN 0 ELSE NextOne(m, 0, beyond)
FirstZero(m, beyond) == IF 0 \notin data[m] THEN 0 ELSE NextZero(m, 0, beyond)

\* The last bit is found, but 0 is returned for it.
LastOne(m) == IF size - 1 \in data[m] THEN 0 ELSE PrevOne(m, size - 1, {})

\* The mask leaves the place itself; octets not in use are not left.
BehindOrHere(m, c) == IF c \div 8 < used[m] THEN 0 .. c ELSE 8 * (c \div 8) .. c
PrevZero(m, c, beyond) == Greatest({i \in BehindOrHere(m, c) : ~IsSet(m, i, beyond)})

\* When no zero precedes, the search leaves the array.
RunsAway(m, c, beyond) == c \div 8 < used[m] /\ PrevZero(m, c, beyond) = -1

Search(m, found, otherwise) ==
  /\ ~failed
  /\ searches < MaxSearches /\ searches' = searches + 1
  /\ cursor' = [cursor EXCEPT ![m] = IF found = -1 THEN otherwise ELSE found]

Moves(m, found, otherwise) ==
  Search(m, found, otherwise) /\ UNCHANGED <<size, data, used, file, saved, failed>>

First(m) == \E beyond \in Beyond : Moves(m, FirstOne(m, beyond), 0)

Last(m) ==
  Moves(m, IF size - 1 \in data[m] THEN size - 1 ELSE LastOne(m), size - 1)

NextBit(m) == \E beyond \in Beyond : Moves(m, NextOne(m, cursor[m], beyond), cursor[m])
PrevBit(m) == \E beyond \in Beyond : Moves(m, PrevOne(m, cursor[m], beyond), cursor[m])
FirstZeroBit(m) == \E beyond \in Beyond : Moves(m, FirstZero(m, beyond), 0)
NextZeroBit(m) == \E beyond \in Beyond : Moves(m, NextZero(m, cursor[m], beyond), cursor[m])

PrevZeroBit(m) ==
  \E beyond \in Beyond :
    /\ Search(m, PrevZero(m, cursor[m], beyond), cursor[m])
    /\ failed' = RunsAway(m, cursor[m], beyond)
    /\ UNCHANGED <<size, data, used, file, saved>>

\* zbits_set refuses a bit behind the array.
Insert(m) ==
  \E beyond \in Beyond :
    LET found == FirstZero(m, beyond)
    IN /\ Search(m, found, 0)
       /\ IF found \in All THEN Contents(m, data[m] \cup {found}, UsedWith(m, found))
          ELSE UNCHANGED <<data, used>>
       /\ failed' = (found >= size)
       /\ UNCHANGED <<size, file, saved>>

-----------------------------------------------------------------------------
\* Files: as many octets of the array are written as its address has.

FirstWord == 0 .. 63

Fput(m) ==
  /\ size \in FileSizes /\ ~failed
  /\ file' = {[used |-> used[m], octets |-> data[m] \cap FirstWord]}
  /\ saved' = {data[m]}
  /\ UNCHANGED <<size, data, used, cursor, failed, searches>>

\* Mutant: the number of octets in use stays.
FgetOctets(m) ==
  \E f \in file : Only(m, (data[m] \ FirstWord) \cup f.octets, used[m])

Fget(m) ==
  \E f \in file : Only(m, (data[m] \ FirstWord) \cup f.octets, f.used)

-----------------------------------------------------------------------------
Change(m) ==
  \/ \E i \in Index \cap All : Set(m, i) \/ Clear(m, i)
  \/ Erase(m) \/ Not(m)
  \/ \E s \in Map : And(m, s) \/ Or(m, s) \/ Xor(m, s)

SearchIn(m) ==
  \/ First(m) \/ Last(m) \/ NextBit(m) \/ PrevBit(m)
  \/ FirstZeroBit(m) \/ NextZeroBit(m) \/ PrevZeroBit(m) \/ Insert(m)

Next == \E m \in Map : Change(m) \/ SearchIn(m) \/ Fput(m) \/ Fget(m)

Spec == Init /\ [][Next]_vars

-----------------------------------------------------------------------------
\* Types of the variables; a cursor may lie in the octet behind the array.
TypeOK ==
  /\ size \in Sizes
  /\ data \in [Map -> SUBSET All] /\ used \in [Map -> 0 .. Octets]
  /\ cursor \in [Map -> 0 .. size + 7]
  /\ file \subseteq [used : 0 .. Octets, octets : SUBSET FirstWord]
  /\ saved \subseteq SUBSET All
  /\ failed \in BOOLEAN

\* Every bit that is set lies in an octet in use: all operations skip what
\* is not (zbits_set, zbits_not and those that combine two bitmaps keep
\* `used' up, zbits_ones, zbits_next and zbits_or rely on it).
UsedCovers == \A m \in Map : \A i \in data[m] : i \div 8 < used[m]

\* What is asked of a bitmap after any sequence of calls is answered right.
\* zbits_ones counts all bits.  From any place where a search ended the next
\* finds the nearest bit there is, and none when there is none, unless the
\* array is in use to its end.  A search for the next zero must start at a
\* one, or it finds its start (zbits_first, zbits_next, zbits_prev,
\* zbits_first_zero, zbits_next_zero).
AnswersExact ==
  \A m \in Map, beyond \in Beyond :
    LET c == cursor[m]
        above == {i \in data[m] : i > c}
        zeros == {i \in All \ data[m] : i > c}
        inside == c < size
    IN /\ Ones(m) = Cardinality(data[m])
       /\ inside /\ (above # {} \/ used[m] < Octets) => NextOne(m, c, beyond) = Least(above)
       /\ c \in data[m] /\ zeros # {} => NextZero(m, c, beyond) = Min(zeros)
       /\ inside => PrevOne(m, c, beyond) = Greatest({i \in data[m] : i < c})
       /\ data[m] # {} => FirstOne(m, beyond) = Min(data[m])
       /\ data[m] # All => FirstZero(m, beyond) = Min(All \ data[m])

\* A bitmap is a set of bits: whatever the words in use, each operation does
\* what it does to sets.
Sets == INSTANCE BitSet WITH bits <- data
IsBitSet == Sets!Spec
=============================================================================
