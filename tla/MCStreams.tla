----------------------------- MODULE MCStreams -----------------------------
(* Small instances of Streams. *)
EXTENDS Streams, TLC

CONSTANTS p1, p2, c1, c2, weather, traffic, x, y

TwoPeers == {p1, p2}
TwoPtrs == {c1, c2}
OneStream == {weather}
TwoStreams == {weather, traffic}
OneSubject == {x}
TwoSubjects == {x, y}
OnePattern == {{x}}

Subscribing == {"CONNECTION_OPEN", "STREAM_READ"}
AllCommands == Subscribing \cup {"STREAM_WRITE", "STREAM_SEND", "STREAM_CANCEL"}

Symmetric == Permutations(Peer) \cup Permutations(Ptr)
=============================================================================
