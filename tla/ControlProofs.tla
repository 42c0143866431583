--------------------------- MODULE ControlProofs ---------------------------
(***************************************************************************)
(* Proofs about Control, for any files, contents, settings and bounds.     *)
(***************************************************************************)
EXTENDS Control, TLAPS

TreeShape == DOMAIN tree = {"number", "file", "version", "values"}
LimitShape == DOMAIN limits = LimitKey

\* The three stages of the talk of the server thread with the mailbox actor.
\* Only from the first does the server thread go on, and in the second alone
\* does the mailbox actor still have a tree to read.
InStep == \A key \in LimitKey : limits[key] = LimitOf(applied, key)

Idle == ~waiting /\ pipe = <<>> /\ answers = 0 /\ InStep
Asked ==
  /\ waiting /\ pipe = <<tree.number>> /\ answers = 0
  /\ tree.values = applied
  /\ limits[Services] = LimitOf(applied, Services)
Answered == waiting /\ pipe = <<>> /\ answers = 1 /\ InStep

PointerExact == tree.file # NoFile => seen = tree.number

Inv ==
  /\ TreeShape /\ LimitShape
  /\ Idle \/ Asked \/ Answered
  /\ PointerExact

LEMMA InvIsEnough == Inv => OneConfiguration
<1> SUFFICES ASSUME Inv PROVE OneConfiguration
  OBVIOUS
<1>1. ASSUME NEW i \in DOMAIN pipe
      PROVE  pipe[i] = tree.number /\ tree.values = applied
  BY DEF Inv, Idle, Asked, Answered
<1>2. ~waiting => InStep
  BY DEF Inv, Idle, Asked, Answered
<1> QED BY <1>1, <1>2 DEF Inv, OneConfiguration, PointerExact, InStep

\* A step that leaves both threads and the tree they share alone.
LEMMA SameTalk ==
  ASSUME Inv, TreeShape', UNCHANGED talk, UNCHANGED <<limits, seen, applied>>,
         tree'.number = tree.number, tree'.file = tree.file,
         tree'.values = tree.values \/ ~waiting
  PROVE  Inv'
<1>1. LimitShape' /\ PointerExact'
  BY DEF Inv, LimitShape, PointerExact
<1>2. InStep' <=> InStep
  BY DEF InStep, LimitOf
<1>3. Idle' \/ Asked' \/ Answered'
  BY <1>2 DEF Inv, Idle, Asked, Answered, talk, LimitOf
<1> QED BY <1>1, <1>3 DEF Inv

\* A tree that was just read, and is applied by a server thread that is idle.
LEMMA AppliedTree ==
  ASSUME Inv, ~waiting, NEW values, NEW number, Apply(values, number),
         TreeShape', tree'.number = number, tree'.values = values
  PROVE  Inv'
<1>1. Idle
  BY DEF Inv, Asked, Answered
<1>2. /\ seen' = number /\ applied' = values
      /\ limits' = [limits EXCEPT ![Services] = LimitOf(values, Services)]
      /\ pipe' = Append(pipe, number) /\ waiting' = TRUE /\ answers' = answers
  BY DEF Apply, Configure
<1>3. LimitShape' /\ limits'[Services] = LimitOf(applied', Services)
  BY <1>2 DEF Inv, LimitShape, LimitKey, LimitOf
<1>4. pipe' = <<tree'.number>>
  BY <1>1, <1>2 DEF Idle
<1>5. Asked'
  BY <1>1, <1>2, <1>3, <1>4 DEF Idle, Asked, LimitOf
<1> QED BY <1>2, <1>3, <1>5 DEF Inv, PointerExact

\* A tree that belongs to no file, while the server thread is idle.
LEMMA RootTree ==
  ASSUME NEW number, tree' = Root(number), LimitShape', Idle'
  PROVE  Inv'
BY DEF Root, Inv, TreeShape, PointerExact

LEMMA NoLimits ==
  ASSUME NEW limit, limit = [key \in LimitKey |-> NoLimit]
  PROVE  \A key \in LimitKey : limit[key] = LimitOf(Nothing, key)
BY DEF LimitOf, Nothing, LimitKey, Key

LEMMA InitInv == Init => Inv
<1> SUFFICES ASSUME Init PROVE Inv
  OBVIOUS
<1>1. InStep
  BY NoLimits DEF Init, InStep
<1> QED BY <1>1 DEF Init, Root, Inv, TreeShape, LimitShape, Idle, PointerExact

\* LOAD of a file, by the owner or at the start.
LEMMA LoadFileKeeps == ASSUME Inv, NEW f, LoadFile(f) PROVE Inv'
<1>1. ~waiting
  BY DEF LoadFile
<1>2. CASE disk[f] # Missing
  <2>1. tree' = Loaded(f) /\ Apply(disk[f], tree.number + 1)
    BY <1>2 DEF LoadFile
  <2>2. TreeShape' /\ tree'.number = tree.number + 1 /\ tree'.values = disk[f]
    BY <2>1 DEF Loaded, TreeShape
  <2> QED BY <1>1, <2>1, <2>2, AppliedTree
<1>3. CASE disk[f] = Missing
  <2>1. tree' = Root(tree.number + 1) /\ UNCHANGED <<limits, applied>> /\ UNCHANGED talk
    BY <1>3 DEF LoadFile, settings
  <2>2. LimitShape' /\ Idle'
    BY <1>1, <2>1 DEF Inv, LimitShape, Idle, Asked, Answered, InStep, LimitOf, talk
  <2> QED BY <2>1, <2>2, RootTree
<1> QED BY <1>2, <1>3

\* The mailbox actor reads the tree the server thread waits with.
LEMMA MailboxKeeps == ASSUME Inv, MailboxConfigures PROVE Inv'
<1>1. Asked
  BY DEF Inv, Idle, Answered, MailboxConfigures
<1>2. Head(pipe) = tree.number /\ Tail(pipe) = <<>>
  <2>1. pipe = <<tree.number>>
    BY <1>1 DEF Asked
  <2> QED BY <2>1
<1>3. PICK values \in Readable(Head(pipe)) :
        limits' = [limits EXCEPT ![Mailboxes] = LimitOf(values, Mailboxes)]
  BY DEF MailboxConfigures
<1>4. values = applied
  BY <1>1, <1>2, <1>3 DEF Readable, Asked
<1>5. /\ UNCHANGED <<tree, seen, waiting, applied>>
      /\ pipe' = Tail(pipe) /\ answers' = answers + 1
  BY DEF MailboxConfigures
<1>6. LimitShape'
  BY <1>3 DEF Inv, LimitShape
<1>7. InStep'
  <2> SUFFICES ASSUME NEW key \in LimitKey PROVE limits'[key] = LimitOf(applied', key)
    BY DEF InStep
  <2>1. CASE key = Mailboxes
    BY <1>3, <1>4, <1>5, <2>1 DEF Inv, LimitShape, LimitOf
  <2>2. CASE key = Services
    <3>1. Services # Mailboxes
      BY DEF Services, Mailboxes
    <3> QED BY <1>1, <1>3, <1>5, <2>2, <3>1 DEF Asked, Inv, LimitShape, LimitOf
  <2> QED BY <2>1, <2>2 DEF LimitKey
<1>8. Answered'
  BY <1>1, <1>2, <1>5, <1>7 DEF Asked, Answered
<1> QED BY <1>5, <1>6, <1>8 DEF Inv, TreeShape, PointerExact

LEMMA NextKeepsInv == Inv /\ [Next]_vars => Inv'
<1> SUFFICES ASSUME Inv, [Next]_vars PROVE Inv'
  OBVIOUS
<1>1. ASSUME NEW f \in File, Start(f) PROVE Inv'
  <2>1. /\ tree' = Root(tree.number + 1) /\ limits' = [key \in LimitKey |-> NoLimit]
        /\ applied' = Nothing
        /\ pipe' = <<>> /\ answers' = 0 /\ waiting' = FALSE
    BY <1>1 DEF Start, Fresh
  <2>2. \A key \in LimitKey : limits'[key] = LimitOf(Nothing, key)
    BY <2>1, NoLimits
  <2>3. LimitShape' /\ Idle'
    BY <2>1, <2>2 DEF LimitShape, Idle, InStep, LimitOf
  <2> QED BY <2>1, <2>3, RootTree
<1>2. ASSUME NEW f \in File, Load(f) PROVE Inv'
  BY <1>2, LoadFileKeeps DEF Load
<1>3. CASE TakeLoad
  BY <1>3, LoadFileKeeps DEF TakeLoad
<1>4. ASSUME NEW f \in File, Save(f) PROVE Inv'
  <2>1. /\ tree' = IF tree.file = f THEN [tree EXCEPT !.version = version'[f]] ELSE tree
        /\ UNCHANGED <<limits, seen, applied>> /\ UNCHANGED talk
    BY <1>4 DEF Save, settings
  <2>2. /\ TreeShape' /\ tree'.number = tree.number /\ tree'.file = tree.file
        /\ tree'.values = tree.values
    BY <2>1 DEF Inv, TreeShape
  <2> QED BY <2>1, <2>2, SameTalk
<1>5. ASSUME NEW setting \in Setting, Set(setting) PROVE Inv'
  <2>1. /\ tree' = [tree EXCEPT !.values[setting[1]] = setting[2]]
        /\ UNCHANGED <<limits, seen, applied>> /\ UNCHANGED talk /\ ~waiting
    BY <1>5 DEF Set, Command
  <2>2. TreeShape' /\ tree'.number = tree.number /\ tree'.file = tree.file
    BY <2>1 DEF Inv, TreeShape
  <2> QED BY <2>1, <2>2, SameTalk
<1>6. ASSUME NEW endpoint, BindTo(endpoint) PROVE Inv'
  <2>1. UNCHANGED <<tree, limits, seen, applied>> /\ UNCHANGED talk
    BY <1>6 DEF BindTo
  <2> QED BY <2>1, SameTalk DEF Inv, TreeShape
<1>7. CASE Watch
  <2>1. ~waiting /\ tree' = Loaded(tree.file) /\ Apply(tree'.values, tree'.number)
    BY <1>7 DEF Watch, Reloaded
  <2>2. TreeShape'
    BY <2>1 DEF Loaded, TreeShape
  <2> QED BY <2>1, <2>2, AppliedTree
<1>8. CASE MailboxConfigures
  BY <1>8, MailboxKeeps
<1>9. CASE TakeAnswer
  <2>1. /\ waiting /\ answers > 0 /\ waiting' = FALSE /\ answers' = answers - 1
        /\ UNCHANGED <<tree, limits, seen, applied, pipe>>
    BY <1>9 DEF TakeAnswer, settings
  <2>2. Answered
    BY <2>1 DEF Inv, Idle, Asked
  <2>3. Idle'
    BY <2>1, <2>2 DEF Answered, Idle, InStep, LimitOf
  <2> QED BY <2>1, <2>3 DEF Inv, TreeShape, LimitShape, PointerExact
<1>10. ASSUME NEW f \in File, NEW v, Edit(f, v) PROVE Inv'
  <2>1. UNCHANGED <<tree, limits, seen, applied>> /\ UNCHANGED talk
    BY <1>10 DEF Edit, settings
  <2> QED BY <2>1, SameTalk DEF Inv, TreeShape
<1>11. CASE UNCHANGED vars
  <2>1. UNCHANGED <<tree, limits, seen, applied>> /\ UNCHANGED talk
    BY <1>11 DEF vars, settings
  <2> QED BY <2>1, SameTalk DEF Inv, TreeShape
<1> QED
  BY <1>1, <1>2, <1>3, <1>4, <1>5, <1>6, <1>7, <1>8, <1>9, <1>10, <1>11 DEF Next, Owner

\* The mailbox actor never reads a tree that was freed or changed since it was
\* told of it; whenever the server thread goes on, the limits of the services,
\* which it sets, and those of the mailboxes, which the actor sets, are of the
\* configuration applied last; and the pointer of the server is exact unless a
\* LOAD failed (server_configuration).
THEOREM OneConfigurationHolds == Spec => []OneConfiguration
BY InitInv, NextKeepsInv, InvIsEnough, PTL DEF Spec
=============================================================================
