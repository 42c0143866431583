----------------------------- MODULE MCLetters -----------------------------
(***************************************************************************)
(* Instances of Letters for TLC.  Names are as short as they can be, but   *)
(* for one subject, which is as long as it can be.                         *)
(***************************************************************************)
EXTENDS Letters

CONSTANTS alice, bob

TwoClients == {alice, bob}
Initials == [c \in Client |-> IF c = alice THEN <<97>> ELSE <<98>>]
Weather == <<119>>
Printer == <<112>>
Everything == <<>>

Written(subject, tracker, timeout, content) ==
  [subject |-> subject, tracker |-> tracker, timeout |-> timeout, content |-> content]

Longest == [i \in 1 .. 255 |-> 120]

\* A content of two frames, one of them empty, and a content of none.
TwoLetters ==
  <<Written(<<49>>, <<116>>, 16909060, << <<49>>, <<>> >>),
    Written(Longest, <<>>, 0, <<>>)>>
=============================================================================
