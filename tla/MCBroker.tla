------------------------------ MODULE MCBroker ------------------------------
(* Small instances of Broker. *)
EXTENDS Broker

CONSTANTS p1, p2, alice, echo, x, y

TwoPeers == {p1, p2}
AliceOrNone == {alice, Anonymous}
OneService == {echo}
TwoSubjects == {x, y}
OverlappingPatterns == {{x}, {x, y}}

MailCommands == {"CONNECTION_OPEN", "CONNECTION_CLOSE", "MAILBOX_SEND"}
ServiceCommands == {"CONNECTION_OPEN", "SERVICE_SEND", "SERVICE_OFFER", "CONFIRM"}
AllCommands == MailCommands \cup ServiceCommands
=============================================================================
