------------------------------ MODULE Control ------------------------------
(***************************************************************************)
(* The configuration of the broker: where it comes from and what of it is  *)
(* in force.                                                               *)
(*                                                                         *)
(* The engine keeps a configuration tree.  The owner of the actor replaces *)
(* it (LOAD), changes it (SET), writes it to a file (SAVE) and binds       *)
(* endpoints; a monitor loads the file again when somebody has edited it.  *)
(* The settings in force are copies: the timeout of clients in the engine, *)
(* the limits of the queues for services and of the mailboxes, the port of *)
(* the last bind, and a second pointer to the tree.                        *)
(*                                                                         *)
(* The limits of the mailboxes belong to another thread, the mailbox       *)
(* actor.  The server sends it the address of the tree and waits for the   *)
(* answer; the actor reads the tree at that address when it comes to it.   *)
(*                                                                         *)
(* The program malamute starts the actor with one LOAD of a file that it   *)
(* creates when there is none.                                             *)
(***************************************************************************)
EXTENDS Integers, FiniteSets, Sequences

CONSTANTS
  File, NoFile,
  Elsewhere,   \* the file that a name denotes in the directory of the daemon
  Content,     \* what the owner writes into a file
  Default,     \* what the program writes into a file that is not there
  Missing,     \* a file that is not there or is no configuration
  Setting,     \* the <<key, value>> pairs that the owner SETs
  Unset,       \* a key that is not in the tree
  NoLimit,     \* "max"
  MaxCommands, \* bound on the commands of the owner, starts among them
  MaxEdits     \* bound on the edits of files

Mailboxes == "mlm_server/mailbox/size-limit"
Services == "mlm_server/service/queue/size-limit"
LimitKey == {Mailboxes, Services}
Key == LimitKey \cup {"server/timeout", "mlm_server/bind/endpoint"}

\* A port, or AnyPort for an endpoint that ends in *.
AnyPort == 0
NotBound == -1

ASSUME ContentAssumption ==
  /\ Default \in Content
  /\ \A v \in Content : DOMAIN v = Key
  /\ \A setting \in Setting : setting[1] \in Key
ASSUME FileAssumption == NoFile \notin File /\ Missing \notin Content
ASSUME ElsewhereAssumption == Elsewhere \in [File -> File]

VARIABLES
  disk,      \* the content of each file
  version,   \* counts the times a file was written
  tree,      \* the configuration tree: number, file, version loaded, values
  seen,      \* number of the tree that server_t.config points to
  timeout,   \* default client timeout
  limits,    \* the limits in force, by key
  bound,     \* the ports the router is bound to
  port,      \* what PORT returns
  pipe,      \* CONFIGUREs on their way to the mailbox actor: numbers of trees
  answers,   \* the answers on their way back
  waiting,   \* the server thread waits for an answer
  loading,   \* the file of a LOAD on its way to the actor, or NoFile
  applied,   \* history: the values that were applied last
  commands, edits

files == <<disk, version>>
settings == <<timeout, limits, bound, port, seen>>
talk == <<pipe, answers, waiting>>
vars == <<files, tree, settings, talk, loading, applied, commands, edits>>

-----------------------------------------------------------------------------
\* Helpers

Nothing == [key \in Key |-> Unset]

Root(number) == [number |-> number, file |-> NoFile, version |-> 0, values |-> Nothing]

Loaded(f) ==
  [number |-> tree.number + 1, file |-> f, version |-> version[f], values |-> disk[f]]

\* s_server_config_global: sixty seconds, if nothing is said.
TimeoutOf(values) ==
  IF values["server/timeout"] = Unset THEN 60 ELSE values["server/timeout"]

\* s_limit_get
LimitOf(values, key) == IF values[key] = Unset THEN NoLimit ELSE values[key]

\* zsock_bind
Bind(endpoint) ==
  IF endpoint = AnyPort
  THEN \E p \in {100 + Cardinality(bound)} : port' = p /\ bound' = bound \cup {p}
  ELSE IF endpoint \in bound
  THEN port' = NotBound /\ UNCHANGED bound
  ELSE port' = endpoint /\ bound' = bound \cup {endpoint}

\* Mutant: the mailbox actor is told, but not waited for.
ConfigureAndGoOn(number) == pipe' = Append(pipe, number) /\ UNCHANGED <<answers, waiting>>

\* The end of server_configuration: the address of the tree goes to the mailbox
\* actor, and the server waits.
Configure(number) == pipe' = Append(pipe, number) /\ waiting' = TRUE /\ UNCHANGED answers

\* s_server_config_service, and server_configuration up to where it waits.
Apply(values, number) ==
  /\ IF values["mlm_server/bind/endpoint"] = Unset
     THEN UNCHANGED <<bound, port>>
     ELSE Bind(values["mlm_server/bind/endpoint"])
  /\ timeout' = TimeoutOf(values)
  /\ seen' = number
  /\ limits' = [limits EXCEPT ![Services] = LimitOf(values, Services)]
  /\ Configure(number)
  /\ applied' = values

-----------------------------------------------------------------------------
\* Commands of the owner

Command ==
  /\ ~waiting /\ loading = NoFile
  /\ commands < MaxCommands /\ commands' = commands + 1

\* s_server_new: a root that holds nothing.
Fresh ==
  /\ tree' = Root(tree.number + 1)
  /\ seen' = tree.number + 1
  /\ timeout' = TimeoutOf(Nothing)
  /\ limits' = [key \in LimitKey |-> NoLimit]
  /\ bound' = {} /\ port' = 0
  /\ pipe' = <<>> /\ answers' = 0 /\ waiting' = FALSE
  /\ applied' = Nothing

\* main: the broker starts, after whatever ended the last one.  Where the file
\* wants a daemon, main has changed the directory before the actor gets the name
\* to load; the file it writes itself wants none.  A main that fails at that, or
\* at becoming another user, starts nothing: no step at all.
Start(f) ==
  /\ commands < MaxCommands /\ commands' = commands + 1
  /\ Fresh
  /\ \/ /\ disk[f] = Missing
        /\ disk' = [disk EXCEPT ![f] = Default]
        /\ version' = [version EXCEPT ![f] = @ + 1]
        /\ loading' = f
     \/ /\ disk[f] # Missing
        /\ loading' \in {f, Elsewhere[f]}
        /\ UNCHANGED files
  /\ UNCHANGED edits

\* LOAD, CONFIGURE: the old tree is destroyed first.
LoadFile(f) ==
  /\ ~waiting
  /\ IF disk[f] # Missing
     THEN /\ tree' = Loaded(f)
          /\ Apply(disk[f], tree.number + 1)
     ELSE /\ tree' = Root(tree.number + 1)
          /\ UNCHANGED <<settings, talk, applied>>
  /\ UNCHANGED <<files, edits>>

Load(f) == Command /\ LoadFile(f) /\ UNCHANGED loading

TakeLoad ==
  /\ loading # NoFile
  /\ LoadFile(loading)
  /\ loading' = NoFile
  /\ UNCHANGED commands

\* SET: of all settings, the timeout alone is read again.
Set(setting) ==
  /\ Command
  /\ tree' = [tree EXCEPT !.values[setting[1]] = setting[2]]
  /\ timeout' = TimeoutOf(tree'.values)
  /\ UNCHANGED <<files, seen, limits, bound, port, talk, loading, applied, edits>>

\* SAVE.  zconfig_save does not take its own writing for an edit.
Save(f) ==
  /\ Command
  /\ disk' = [disk EXCEPT ![f] = tree.values]
  /\ version' = [version EXCEPT ![f] = @ + 1]
  /\ tree' = IF tree.file = f THEN [tree EXCEPT !.version = version'[f]] ELSE tree
  /\ UNCHANGED <<settings, talk, loading, applied, edits>>

\* BIND
BindTo(endpoint) ==
  /\ Command
  /\ Bind(endpoint)
  /\ UNCHANGED <<files, tree, timeout, limits, seen, talk, loading, applied, edits>>

Owner ==
  \/ \E f \in File : Start(f) \/ Load(f) \/ Save(f)
  \/ \E setting \in Setting : Set(setting)
  \/ \E v \in Content : BindTo(v["mlm_server/bind/endpoint"])
                        /\ v["mlm_server/bind/endpoint"] # Unset

-----------------------------------------------------------------------------
\* The rest of the reactor

\* Somebody edits a file, breaks it or takes it away.
Edit(f, v) ==
  /\ edits < MaxEdits /\ edits' = edits + 1
  /\ disk[f] # v
  /\ disk' = [disk EXCEPT ![f] = v]
  /\ version' = [version EXCEPT ![f] = @ + 1]
  /\ UNCHANGED <<tree, settings, talk, loading, applied, commands>>

\* Mutant: the change is forgotten, the old values are applied again.
ReloadedStale(f) == [tree EXCEPT !.number = @ + 1, !.version = version[f]]

\* zconfig_reload
Reloaded(f) == Loaded(f)

\* s_watch_server_config: nothing happens while the file cannot be read.
Watch ==
  /\ ~waiting
  /\ tree.file # NoFile
  /\ version[tree.file] # tree.version
  /\ disk[tree.file] # Missing
  /\ tree' = Reloaded(tree.file)
  /\ Apply(tree'.values, tree'.number)
  /\ UNCHANGED <<files, loading, commands, edits>>

-----------------------------------------------------------------------------
\* The two threads

\* What is at the address of a tree: freed memory may hold anything.
Readable(number) ==
  IF number = tree.number THEN {tree.values} ELSE Content \cup {Nothing}

\* CONFIGURE in the mailbox actor.
MailboxConfigures ==
  /\ pipe # <<>>
  /\ \E values \in Readable(Head(pipe)) :
       limits' = [limits EXCEPT ![Mailboxes] = LimitOf(values, Mailboxes)]
  /\ pipe' = Tail(pipe)
  /\ answers' = answers + 1
  /\ UNCHANGED <<files, tree, timeout, seen, bound, port, waiting, loading, applied,
                 commands, edits>>

\* The server thread goes on.
TakeAnswer ==
  /\ waiting /\ answers > 0
  /\ waiting' = FALSE
  /\ answers' = answers - 1
  /\ UNCHANGED <<files, tree, settings, pipe, loading, applied, commands, edits>>

-----------------------------------------------------------------------------
Init ==
  /\ disk \in [File -> Content \cup {Missing}]
  /\ version = [f \in File |-> 1]
  /\ tree = Root(1) /\ seen = 1
  /\ timeout = TimeoutOf(Nothing)
  /\ limits = [key \in LimitKey |-> NoLimit]
  /\ bound = {} /\ port = 0
  /\ pipe = <<>> /\ answers = 0 /\ waiting = FALSE
  /\ loading = NoFile
  /\ applied = Nothing
  /\ commands = 0 /\ edits = 0

Next ==
  \/ Owner \/ TakeLoad \/ Watch
  \/ MailboxConfigures \/ TakeAnswer
  \/ \E f \in File, v \in Content \cup {Missing} : Edit(f, v)

\* The reactor takes commands and runs its monitor every second; the mailbox
\* actor reads its pipe, and the server thread the answer it waits for.
Spec ==
  /\ Init /\ [][Next]_vars
  /\ WF_vars(TakeLoad) /\ WF_vars(Watch)
  /\ WF_vars(MailboxConfigures) /\ WF_vars(TakeAnswer)

-----------------------------------------------------------------------------
\* Properties

\* "Wait for the mailbox to reconfigure itself so that the zconfig object is not
\* in use after we return" (server_configuration, mlm_server.c).  As long as the
\* mailbox actor may still read a tree, that tree is there and holds what was
\* applied; whenever the server thread goes on, the services, which it limits
\* itself, and the mailboxes are under one configuration, the one applied last,
\* also after that tree was changed or is lost.  server_t.config is the "Current
\* loaded configuration" (mlm_server.c), unless a LOAD failed: that destroys
\* the tree the pointer shows, while SAVE and the monitor, which replace or
\* change the tree as well, keep it exact.
OneConfiguration ==
  /\ \A i \in DOMAIN pipe : pipe[i] = tree.number /\ tree.values = applied
  /\ ~waiting => \A key \in LimitKey : limits[key] = LimitOf(applied, key)
  /\ tree.file # NoFile => seen = tree.number

InForce(v) ==
  /\ timeout = TimeoutOf(v)
  /\ \A key \in LimitKey : limits[key] = LimitOf(v, key)

\* Something that f holds is to be applied: at a start, or after an edit.
Due(f) == loading = f \/ (tree.file = f /\ version[f] # tree.version)

\* What the file says at the start, and what an edit of the loaded file says,
\* is in force in the end, unless the file changes again or another is loaded
\* (main, s_watch_server_config).
FileApplied ==
  \A f \in File, v \in Content :
    (Due(f) /\ disk[f] = v) ~>
      (InForce(v) \/ disk[f] # v \/ (loading # f /\ tree.file # f))
=============================================================================
