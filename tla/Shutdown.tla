------------------------------ MODULE Shutdown ------------------------------
(***************************************************************************)
(* The end of the broker: what s_server_destroy takes apart, and in which  *)
(* order, while the stream engines still run.                              *)
(*                                                                         *)
(* The reactor has ended: no handler runs, so that nobody reads what the   *)
(* engines send.  Contexts go first, without being deregistered, then the  *)
(* zombies, then the engines one after the other: each is told to end and  *)
(* waited for.  The registry of addresses, which refers to the contexts,   *)
(* goes last.                                                              *)
(*                                                                         *)
(* Until then this is module Streams with the addresses of the clients:    *)
(* there is one, and clients without.                                      *)
(***************************************************************************)
EXTENDS Streams

CONSTANT
  NULL  \* an address that is not set, or was freed

ASSUME NullAssumption == NULL \notin {"", "address"}

VARIABLES
  phase,     \* what the server thread is at
  registry,  \* the context registered for the address, or NoPtr
  address,   \* of a context: NULL, "" or the address
  stopping,  \* the stream whose engine is waited for
  alive,     \* streams whose engines run
  displaced  \* history: routing ids that came back while their zombie lived

ending == <<phase, stopping, alive>>
registration == <<registry, address>>
allVars == <<vars, ending, registration, displaced>>

Advance(from, to) == phase = from /\ phase' = to

ShutdownInit ==
  /\ Init
  /\ phase = "serving" /\ stopping = NoStream /\ alive = Stream
  /\ registry = NoPtr /\ address = [c \in Ptr |-> NULL]
  /\ displaced = {}

-----------------------------------------------------------------------------
\* While the broker serves

\* Registered under the address, if no other is, or without one.
OpenAs(p, c) ==
  /\ Open(p, c)
  /\ \/ address' = [address EXCEPT ![c] = ""] /\ UNCHANGED registry
     \/ /\ registry = NoPtr
        /\ address' = [address EXCEPT ![c] = "address"]
        /\ registry' = c
  /\ displaced' = IF \E d \in Ptr : state[d] = "zombie" /\ peer[d] = p
                  THEN displaced \cup {p} ELSE displaced
  /\ UNCHANGED ending

\* The destructor of a registry entry frees the address of its context.
Unregister ==
  /\ registry' = NoPtr
  /\ address' = [address EXCEPT ![registry] = NULL]

\* client_terminate of context c, whose address is still set if the broker
\* did not deregister it.
ClientTerminate(c) ==
  \/ address[c] = "address" /\ Unregister
  \/ address[c] = "" /\ address' = [address EXCEPT ![c] = NULL] /\ UNCHANGED registry
  \/ address[c] = NULL /\ UNCHANGED registration

Finalized(c) == state[c] # "free" /\ state'[c] = "free"

\* Deregistered, then destroyed or turned into a zombie.
DropAs(c) ==
  /\ Drop(c)
  /\ IF address[c] = "address" THEN Unregister
     ELSE IF Finalized(c) THEN ClientTerminate(c)
     ELSE UNCHANGED registration
  /\ UNCHANGED <<ending, displaced>>

ForwardAs(s) ==
  /\ ForwardTraffic(s)
  /\ IF \E c \in Ptr : Finalized(c) THEN ClientTerminate(Head(frompipe[s]).client)
     ELSE UNCHANGED registration
  /\ UNCHANGED <<ending, displaced>>

Serving ==
  /\ phase = "serving"
  /\ \/ \E c \in Ptr : DropAs(c) \/ \E p \in Peer : OpenAs(p, c)
     \/ \E s \in Stream : ForwardAs(s)
     \/ /\ \/ \E c \in Ptr :
                \/ \E s \in Stream : StreamWrite(c, s)
                \/ \E s \in Stream, pattern \in Pattern : StreamRead(c, s, pattern)
                \/ \E subject \in Subject : StreamSend(c, subject)
           \/ SendCompletes
        /\ UNCHANGED <<ending, registration, displaced>>

-----------------------------------------------------------------------------
\* The end

Untouched == UNCHANGED <<pipes, engines, links, blocked, fault, opens, cancels,
                         history, displaced, alive>>

\* The command $TERM of the owner ends the reactor.
Begin ==
  /\ Reactor
  /\ Advance("serving", "clients")
  /\ UNCHANGED <<vars, registration, stopping, alive, displaced>>

\* zhash_destroy (&self->clients): s_client_destroy for each.
DestroyClient(c) ==
  /\ phase = "clients" /\ Connected(c)
  /\ DestroyContext(c)
  /\ readers' = [readers EXCEPT ![c] = IF refcount[c] = 0 THEN <<>> ELSE @]
  /\ IF Finalized(c) THEN ClientTerminate(c) ELSE UNCHANGED registration
  /\ UNCHANGED <<phase, stopping>> /\ Untouched

ClientsGone ==
  /\ ~ \E c \in Ptr : Connected(c)
  /\ Advance("clients", "zombies")
  /\ UNCHANGED <<vars, registration, stopping, alive, displaced>>

\* The zombies in the table are destroyed, whoever refers to them.
DestroyZombie(p) ==
  LET c == zombies[p]
  IN /\ phase = "zombies" /\ c # NoPtr
     /\ Free(c)
     /\ zombies' = [zombies EXCEPT ![p] = NoPtr]
     /\ readers' = [readers EXCEPT ![c] = <<>>]
     /\ ClientTerminate(c)
     /\ UNCHANGED <<phase, stopping>> /\ Untouched

ZombiesGone ==
  /\ \A p \in Peer : zombies[p] = NoPtr
  /\ Advance("zombies", "streams")
  /\ UNCHANGED <<vars, registration, stopping, alive, displaced>>

Term == [method |-> "$TERM", client |-> NoPtr, pattern |-> {}]

\* Mutant: the engine is waited for, but not told.
StopUntold(s) ==
  /\ phase = "streams" /\ stopping = NoStream /\ s \in alive
  /\ stopping' = s
  /\ UNCHANGED <<vars, phase, alive, registration, displaced>>

\* s_stream_destroy: $TERM follows the commands in the pipe.
StopEngine(s) ==
  /\ phase = "streams" /\ stopping = NoStream /\ s \in alive
  /\ stopping' = s
  /\ cmdpipe' = [cmdpipe EXCEPT ![s] = Append(@, Term)]
  /\ UNCHANGED <<contexts, topipe, frompipe, engines, links, blocked, fault, counters,
                 history, phase, alive, registration, displaced>>

\* The engine has ended: its pipes go with all that is in them.
EngineGone ==
  /\ stopping # NoStream /\ stopping \notin alive
  /\ stopping' = NoStream
  /\ topipe' = [topipe EXCEPT ![stopping] = <<>>]
  /\ frompipe' = [frompipe EXCEPT ![stopping] = <<>>]
  /\ UNCHANGED <<contexts, cmdpipe, engines, links, blocked, fault, counters, history,
                 phase, alive, registration, displaced>>

\* The registry is destroyed with what is left in it.
End ==
  /\ alive = {} /\ stopping = NoStream
  /\ Advance("streams", "ended")
  /\ IF registry = NoPtr THEN UNCHANGED registration ELSE Unregister
  /\ UNCHANGED <<vars, stopping, alive, displaced>>

\* The engine handles $TERM.
EngineEnds(s) ==
  /\ s \in alive
  /\ relaying[s] = NoTask /\ cmdpipe[s] # <<>> /\ Head(cmdpipe[s]) = Term
  /\ cmdpipe' = [cmdpipe EXCEPT ![s] = <<>>]
  /\ selectors' = [selectors EXCEPT ![s] = {}]
  /\ alive' = alive \ {s}
  /\ UNCHANGED <<contexts, topipe, frompipe, relaying, links, blocked, fault, counters,
                 history, phase, stopping, registration, displaced>>

EngineRuns(s) ==
  \/ s \in alive /\ Engine(s) /\ UNCHANGED <<ending, registration, displaced>>
  \/ EngineEnds(s)

Destroying ==
  \/ \E c \in Ptr : DestroyClient(c)
  \/ \E p \in Peer : DestroyZombie(p)
  \/ \E s \in Stream : StopEngine(s)
  \/ ClientsGone \/ ZombiesGone \/ EngineGone \/ End

ShutdownNext == Serving \/ Begin \/ Destroying \/ \E s \in Stream : EngineRuns(s)

\* The server thread goes on when it can, and so does each engine.
ShutdownSpec ==
  /\ ShutdownInit /\ [][ShutdownNext]_allVars
  /\ WF_allVars(Destroying)
  /\ \A s \in Stream : WF_allVars(EngineRuns(s))

-----------------------------------------------------------------------------
\* The tables of the server thread refer to contexts that are there.  The
\* registry refers to the only one that has the address: neither a context
\* that goes in any of the three ways nor one that outlives its table takes
\* the entry of another with it, or leaves one behind that
\* s_client_local_destroy would follow (client_terminate).  An entry of the
\* table of zombies is a zombie of that routing id, so that nothing is freed
\* twice (s_client_destroy, engine_client_put).
TablesExact ==
  /\ registry # NoPtr => state[registry] # "free"
  /\ \A c \in Ptr : address[c] = "address" <=> registry = c
  /\ \A p \in Peer : zombies[p] # NoPtr =>
       state[zombies[p]] = "zombie" /\ peer[zombies[p]] = p

\* At the end no context is left ("Forcibly destroy any zombie clients as we
\* are shutting down", s_server_destroy), but for those of routing ids that
\* came back while their zombie lived: the table has no room for another.
FreedAtEnd ==
  phase = "ended" => \A c \in Ptr : state[c] = "free" \/ peer[c] \in displaced

\* The broker comes to an end when it is told to, whatever its engines are
\* in the middle of (s_stream_destroy).  So it is while the pipes have room
\* for what the engines send; MALAMUTE.md says of the broker that it is
\* "designed to never crash, nor block".
ShutdownEnds == phase = "clients" ~> phase = "ended"
=============================================================================
