----------------------------- MODULE MCSession -----------------------------
(***************************************************************************)
(* Instances of Session for TLC.                                           *)
(***************************************************************************)
EXTENDS Session

Command(id, name) == [id |-> id, name |-> name]

WriterAndReader == {Command("STREAM WRITE", "a"), Command("STREAM READ", "b")}
ReadAndCancel == {Command("STREAM READ", "b"), Command("STREAM CANCEL", "b")}
=============================================================================
