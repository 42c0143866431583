------------------------------ MODULE MCZbits ------------------------------
(* Instances of Zbits for TLC.  The bits are at the edges of an octet    *)
(* and of words; others come by zbits_not.                                *)
EXTENDS Zbits

CONSTANTS a, b

Both == {a, b}
OneWordOrTwo == {64, 128}
OneWord == {64}
Edges == {7, 127}
Neighbours == {{}, {2}}
============================================================================
