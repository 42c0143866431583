----------------------------- MODULE MCShutdown -----------------------------
(* Small instances of Shutdown. *)
EXTENDS Shutdown

CONSTANTS p1, p2, c1, c2, weather, x

TwoPeers == {p1, p2}
TwoPtrs == {c1, c2}
OneStream == {weather}
OneSubject == {x}
OnePattern == {{x}}

Publishing == {"CONNECTION_OPEN", "STREAM_READ", "STREAM_WRITE", "STREAM_SEND"}
=============================================================================
