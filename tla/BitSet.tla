------------------------------- MODULE BitSet -------------------------------
(***************************************************************************)
(* What bitmaps promise: each is a set of bits, the operations are those   *)
(* of sets, searching changes nothing, and a bitmap that was saved can be  *)
(* loaded.  Zbits is the detailed specification of zbits.                  *)
(***************************************************************************)
EXTENDS Integers

CONSTANTS
  Map,    \* bitmaps
  Sizes,  \* how many bits they may have
  Index   \* the bits that callers set and clear

VARIABLES
  size,   \* the bits that a bitmap has
  bits,   \* the bits that are set in each bitmap
  saved   \* the bitmap in the file, if there is one

All == 0 .. size - 1

Init == size \in Sizes /\ bits = [m \in Map |-> {}] /\ saved = {}

Become(m, set) == bits' = [bits EXCEPT ![m] = set] /\ UNCHANGED saved

Edit(m) == \E i \in Index \cap All : Become(m, bits[m] \cup {i}) \/ Become(m, bits[m] \ {i})

Combine(m, s) ==
  \/ Become(m, bits[m] \cap bits[s])
  \/ Become(m, bits[m] \cup bits[s])
  \/ Become(m, (bits[m] \ bits[s]) \cup (bits[s] \ bits[m]))

\* The first bit that is not set.
Insert(m) ==
  \E i \in All \ bits[m] : 0 .. i - 1 \subseteq bits[m] /\ Become(m, bits[m] \cup {i})

Save(m) == saved' = {bits[m]} /\ UNCHANGED bits
Load(m) == \E set \in saved : Become(m, set)

Next ==
  /\ UNCHANGED size
  /\ \E m \in Map :
       \/ Edit(m) \/ Insert(m)
       \/ \E s \in Map : Combine(m, s)
       \/ Become(m, {}) \/ Become(m, All \ bits[m])
       \/ Save(m) \/ Load(m)

Spec == Init /\ [][Next]_<<size, bits, saved>>
=============================================================================
