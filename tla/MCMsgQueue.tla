---------------------------- MODULE MCMsgQueue ----------------------------
(* A small instance of Mailbox and MsgQueue: an empty message, and limits *)
(* that three messages reach, hit exactly and exceed.                     *)
EXTENDS Mailbox

Sizes == {0, 1, 2}
Settings == {0, 2, 3}
===========================================================================
