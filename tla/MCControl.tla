----------------------------- MODULE MCControl -----------------------------
(* Small instances of Control. *)
EXTENDS Control

CONSTANTS malamute, other

TwoFiles == {malamute, other}

\* The name of the first file denotes the second one where the daemon goes.
InWorkdir == [f \in TwoFiles |-> other]

\* The file of the program, one for small mailboxes and one without expiry.
Values(expiry, mailbox, service, endpoint) ==
  [key \in Key |->
     CASE key = "server/timeout" -> expiry
       [] key = "mlm_server/mailbox/size-limit" -> mailbox
       [] key = "mlm_server/service/queue/size-limit" -> service
       [] key = "mlm_server/bind/endpoint" -> endpoint]
ByDefault == Values(5, Unset, Unset, 9999)
Contents == {ByDefault, Values(Unset, 10, 20, AnyPort), Values(0, 10, NoLimit, Unset)}

Settings == {<<"server/timeout", 5>>, <<"server/timeout", 0>>,
             <<"mlm_server/mailbox/size-limit", 10>>}
=============================================================================
