--------------------------- MODULE SessionsProofs ---------------------------
(***************************************************************************)
(* What is proved of the session commands, for any number of commands,     *)
(* processes, names and arguments: types, Recorded and EndedHaveEnded.     *)
(***************************************************************************)
EXTENDS Sessions, TLAPS

\* Before a command has made an id, and while it may still save what it has loaded.
Young      == {"off", "load", "ready"}
Holding    == Young \cup {"save", "write"}
Writing(f) == pc[f] \in {"save", "write"}

KernelOK ==
  /\ proc   \in [Pid -> {"free", "claude", "zombie", "other"}]
  /\ parent \in [Pid -> Fry \cup {"init"}]
  /\ owner  \in [Pid -> Id \cup {NoId}]
  /\ told   \in SUBSET Pid

FilesOK ==
  /\ DOMAIN files \subseteq Name
  /\ \A n \in DOMAIN files : files[n] \in Saved \cup {Torn}
  /\ cut \subseteq Id

CommandsOK ==
  /\ pc \in [Fry -> {"off", "load", "ready", "save", "write", "saved", "kill",
                     "destroy", "done"}]
  /\ cmd  \in [Fry -> Commands \cup {"none"}]
  /\ todo \in [Fry -> SUBSET Name]
  /\ sessions \in [Fry -> Seq(Session)]
  /\ at   \in [Fry -> Nat]
  /\ dest \in [Fry -> Name \cup {NoId}]

\* Files are never removed; the index is that of a session, and the file has a name.
Indexed(f) ==
  /\ todo[f] \subseteq DOMAIN files
  /\ pc[f] \in {"save", "write", "saved"} => at[f] \in 1..Len(sessions[f])
  /\ Writing(f) => dest[f] \in Name
  /\ pc[f] = "write" => dest[f] \in DOMAIN files
  /\ pc[f] = "destroy" => at[f] > 0

StateInv == KernelOK /\ FilesOK /\ CommandsOK /\ \A f \in Fry : Indexed(f)

\* A record of a session whose claude runs says that it runs, and where.
Truthful(r, prc, own) ==
  \A p \in Pid : prc[p] = "claude" /\ own[p] = r.id =>
    r.state = "RUNNING" /\ r.pid = p

FilesTrue == \A n \in DOMAIN files : Truthful(files[n], proc, owner)
HeldTrue  == \A f \in Fry : pc[f] \in Holding =>
               \A i \in 1..Len(sessions[f]) : Truthful(sessions[f][i], proc, owner)

\* The id that f will give to a session is that of no other one.
Unused(f) ==
  /\ \A n \in DOMAIN files : files[n].id[2] # f
  /\ \A g \in Fry : pc[g] \in Holding =>
       \A i \in 1..Len(sessions[g]) : sessions[g][i].id[2] # f
  /\ \A p \in Pid : proc[p] = "claude" => owner[p][2] # f
Fresh == \A f \in Fry : pc[f] \in Young => Unused(f)

\* A session is written to the file of its id or to one that the user has named.
Destined ==
  \A f \in Fry : Writing(f) =>
    \/ dest[f] = sessions[f][at[f]].id
    \/ \E n \in SaveName : dest[f] = <<n, "name">>

\* Recorded, by the file of the session's id.
OnRecord ==
  \A p \in Pid : proc[p] = "claude" =>
    /\ owner[p] \in Id
    /\ \/ /\ owner[p] \in DOMAIN files
          /\ files[owner[p]] = [id |-> owner[p], state |-> "RUNNING", pid |-> p]
       \/ \E f \in Fry : /\ Writing(f)
                         /\ dest[f] = owner[p] /\ sessions[f][at[f]].id = owner[p]
       \/ owner[p] \in cut

Truth == FilesTrue /\ HeldTrue /\ Fresh /\ Destined /\ OnRecord

SessionsInv == StateInv /\ Truth

LEMMA SessionsInit == Init => SessionsInv
<1> SUFFICES ASSUME Init PROVE SessionsInv
  OBVIOUS
<1>1. KernelOK /\ FilesOK /\ CommandsOK
  BY DEF Init, KernelOK, FilesOK, CommandsOK
<1>2. \A f \in Fry : Indexed(f)
  BY DEF Init, Indexed, Writing
<1>3. FilesTrue /\ HeldTrue /\ Fresh /\ Destined /\ OnRecord
  BY DEF Init, FilesTrue, HeldTrue, Fresh, Unused, Destined, OnRecord, Writing
<1>4. QED
  BY <1>1, <1>2, <1>3 DEF SessionsInv, StateInv, Truth

-----------------------------------------------------------------------------
(* Types.                                                                  *)

LEMMA NoIdType == NoId \notin Id /\ Torn.id \notin Id /\ Torn \notin Saved
BY FryAssumption DEF NoId, Id, Torn, Saved

\* A name that the user gives is no id.
LEMMA NamesDiffer == ASSUME NEW id \in Id, NEW n PROVE id # <<n, "name">>
<1>1. PICK k \in Nat, f \in Fry : id = <<k, f>>
  BY DEF Id
<1>2. f # "name"
  BY FryAssumption
<1>3. QED
  BY <1>1, <1>2

LEMMA RestoredType == ASSUME NEW r \in Saved PROVE Restored(r) \in Session
BY DEF Restored, Session, Saved, SessionStates

LEMMA RecordTypes ==
  ASSUME NEW s \in Session
  PROVE  /\ Attached(s) \in Session /\ Freed(s) \in Session /\ Ended(s) \in Session
         /\ [id |-> s.id, state |-> s.state, pid |-> s.pid] \in Saved
BY DEF Attached, Freed, Ended, Session, Saved, SessionStates

LEMMA NewTypes ==
  ASSUME CommandsOK, NEW f \in Fry
  PROVE  /\ NewId(f) \in Id
         /\ \A p \in Pid : [id |-> NewId(f), state |-> "RUNNING", pid |-> p,
                            freed |-> FALSE] \in Session
         /\ [id |-> NewId(f), state |-> "CREATED", pid |-> -1, freed |-> TRUE] \in Session
<1>1. NewId(f) \in Id
  BY DEF CommandsOK, NewId, Id
<1>2. QED
  BY <1>1 DEF Session, SessionStates

LEMMA WithoutType ==
  ASSUME NEW s \in Seq(Session), NEW i \in 1..Len(s)
  PROVE  Without(s, i) \in Seq(Session)
<1>1. SubSeq(s, 1, i - 1) \in Seq(Session)
  BY Z3
<1>2. SubSeq(s, i + 1, Len(s)) \in Seq(Session)
  BY Z3
<1>3. QED
  BY <1>1, <1>2 DEF Without

-----------------------------------------------------------------------------
(* The kernel.                                                             *)

\* Claudes only end, unless one is started: whoever is still there was there before,
\* for the same session.
Shrinks ==
  \A p \in Pid : proc'[p] = "claude" => proc[p] = "claude" /\ owner'[p] = owner[p]

LEMMA SameKernel == ASSUME KernelOK, UNCHANGED kernelVars PROVE KernelOK' /\ Shrinks
BY DEF kernelVars, KernelOK, Shrinks

LEMMA SignalKernel ==
  ASSUME KernelOK, NEW f, NEW s \in Session, Signal(f, s)
  PROVE  KernelOK' /\ Shrinks
<1>1. CASE UNCHANGED kernelVars
  BY <1>1, SameKernel
<1>2. CASE s.pid \in Pid /\ told' = told \cup {s.pid} /\ UNCHANGED <<parent, owner>>
           /\ proc' = [proc EXCEPT ![s.pid] = "free"]
  BY <1>2 DEF KernelOK, Shrinks
<1>3. CASE s.pid \in Pid /\ told' = told \cup {s.pid} /\ UNCHANGED <<parent, owner, proc>>
  BY <1>3 DEF KernelOK, Shrinks
<1>4. QED
  BY <1>1, <1>2, <1>3 DEF Signal, Alive

LEMMA GoneKernel ==
  ASSUME KernelOK, NEW f, Gone(f)
  PROVE  KernelOK' /\ Shrinks
<1>1. KernelOK'
  BY DEF Gone, KernelOK
<1>2. Shrinks
  BY DEF Gone, KernelOK, Shrinks
<1>3. QED
  BY <1>1, <1>2

Outside == \E p \in Pid : ClaudeEnds(p) \/ Reused(p) \/ OtherEnds(p)

LEMMA OutsideKernel == ASSUME KernelOK, Outside PROVE KernelOK' /\ Shrinks
<1>1. PICK p \in Pid : ClaudeEnds(p) \/ Reused(p) \/ OtherEnds(p)
  BY DEF Outside
<1>2. CASE ClaudeEnds(p)
  BY <1>2 DEF ClaudeEnds, KernelOK, Shrinks
<1>3. CASE Reused(p)
  BY <1>3 DEF Reused, KernelOK, Shrinks
<1>4. CASE OtherEnds(p)
  BY <1>4 DEF OtherEnds, KernelOK, Shrinks
<1>5. QED
  BY <1>1, <1>2, <1>3, <1>4

LEMMA StartKernel ==
  ASSUME KernelOK, CommandsOK, NEW f \in Fry, Start(f)
  PROVE  KernelOK'
<1>1. NewId(f) \in Id
  BY NewTypes
<1>2. QED
  BY <1>1 DEF Start, KernelOK

\* A session in hand or in a loop is one.
LEMMA InHand ==
  ASSUME CommandsOK, NEW f \in Fry, NEW i \in 1..Len(sessions[f])
  PROVE  sessions[f][i] \in Session
BY DEF CommandsOK

LEMMA DestroyKernel ==
  ASSUME StateInv, NEW f \in Fry, DestroyOne(f) \/ KillOne(f)
  PROVE  KernelOK' /\ Shrinks
<1> USE DEF StateInv
<1>1. CASE UNCHANGED kernelVars
  BY <1>1, SameKernel
<1>2. ASSUME NEW i \in 1..Len(sessions[f]), Signal(f, sessions[f][i])
      PROVE  KernelOK' /\ Shrinks
  BY <1>2, InHand, SignalKernel
<1>3. CASE DestroyOne(f)
  <2>1. at[f] \in 1..Len(sessions[f])
    BY <1>3 DEF DestroyOne, Indexed, CommandsOK
  <2>2. QED
    BY <1>1, <1>2, <1>3, <2>1 DEF DestroyOne
<1>4. CASE KillOne(f)
  BY <1>1, <1>2, <1>4 DEF KillOne, Found, kernelVars
<1>5. QED
  BY <1>3, <1>4

\* Every step but the start of a claude.
Quiet(f) ==
  \/ Begin(f) \/ Load(f) \/ Loaded(f)
  \/ List(f) \/ Unknown(f) \/ Attach(f) \/ Restore(f) \/ Save(f)
  \/ StartFails(f)
  \/ Open(f) \/ Write(f) \/ WriteFails(f) \/ AfterSave(f)
  \/ BeginKill(f) \/ KillOne(f) \/ Killed(f)
  \/ DestroyOne(f) \/ Abort(f) \/ Exit(f) \/ Interrupt(f)

LEMMA QuietKernel ==
  ASSUME StateInv, NEW f \in Fry, Quiet(f)
  PROVE  KernelOK' /\ Shrinks
<1> USE DEF StateInv
<1>1. CASE UNCHANGED kernelVars
  BY <1>1, SameKernel
<1>2. CASE Gone(f)
  BY <1>2, GoneKernel
<1>3. CASE DestroyOne(f) \/ KillOne(f)
  BY <1>3, DestroyKernel
<1>4. QED
  BY <1>1, <1>2, <1>3
     DEF Quiet, Begin, Load, Loaded, List, Unknown, Attach, Restore, Save, StartFails,
         Open, Write, WriteFails, AfterSave, BeginKill, Killed, Abort, Exit, Interrupt

-----------------------------------------------------------------------------
(* The commands and the files.                                             *)

\* A command changes what it has in memory, and nothing of the others.
Only(f) ==
  \A g \in Fry \ {f} :
    /\ pc'[g] = pc[g] /\ todo'[g] = todo[g] /\ sessions'[g] = sessions[g]
    /\ at'[g] = at[g] /\ dest'[g] = dest[g]

\* The lists of sessions that the steps make.
LEMMA AppendType ==
  ASSUME CommandsOK, NEW f \in Fry, NEW s \in Session, sessions' = Appended(f, s)
  PROVE  /\ sessions' \in [Fry -> Seq(Session)]
         /\ \A g \in Fry \ {f} : sessions'[g] = sessions[g]
         /\ sessions'[f] = Append(sessions[f], s)
BY DEF CommandsOK, Appended

\* What is in a list that was appended to.
LEMMA AppendedHas ==
  ASSUME NEW list \in Seq(Session), NEW s \in Session
  PROVE  /\ Append(list, s)[Len(list) + 1] = s
         /\ \A i \in 1..Len(Append(list, s)) :
              \/ Append(list, s)[i] = s
              \/ i \in 1..Len(list) /\ Append(list, s)[i] = list[i]
OBVIOUS

LEMMA SetType ==
  ASSUME CommandsOK, NEW f \in Fry, NEW i \in 1..Len(sessions[f]), NEW s \in Session,
         sessions' = [sessions EXCEPT ![f][i] = s]
  PROVE  /\ sessions' \in [Fry -> Seq(Session)]
         /\ \A g \in Fry \ {f} : sessions'[g] = sessions[g]
<1>1. [sessions[f] EXCEPT ![i] = s] \in Seq(Session)
  BY DEF CommandsOK
<1>2. QED
  BY <1>1 DEF CommandsOK

\* The start and the choice of what to do.
LEMMA ReadyCommands ==
  ASSUME StateInv, NEW f \in Fry,
         Begin(f) \/ Load(f) \/ Loaded(f) \/ List(f) \/ Unknown(f) \/ BeginKill(f)
  PROVE  CommandsOK' /\ Only(f)
<1> USE DEF StateInv
<1>1. CASE Begin(f)
  BY <1>1 DEF Begin, CommandsOK, FilesOK, Only
<1>2. CASE Load(f)
  <2>1. PICK n \in todo[f] :
          /\ todo' = [todo EXCEPT ![f] = @ \ {n}]
          /\ sessions' = IF files[n] = Torn THEN sessions
                         ELSE Appended(f, Restored(files[n]))
    BY <1>2 DEF Load
  <2>2. files[n] # Torn => Restored(files[n]) \in Session
    <3>1. files[n] \in Saved \cup {Torn}
      BY DEF Indexed, FilesOK
    <3>2. QED
      BY <3>1, RestoredType
  <2>3. /\ sessions' \in [Fry -> Seq(Session)]
        /\ \A g \in Fry \ {f} : sessions'[g] = sessions[g]
    BY <2>1, <2>2, AppendType DEF CommandsOK
  <2>4. todo' \in [Fry -> SUBSET Name] /\ \A g \in Fry \ {f} : todo'[g] = todo[g]
    BY <2>1 DEF CommandsOK
  <2>5. QED
    BY <1>2, <2>3, <2>4 DEF Load, CommandsOK, Only
<1>3. CASE Loaded(f)
  BY <1>3 DEF Loaded, CommandsOK, Only
<1>4. CASE List(f) \/ Unknown(f)
  <2>1. PICK command \in Commands : Become(f, command, "destroy", 1)
    BY <1>4 DEF List, Unknown, Commands
  <2>2. UNCHANGED <<todo, sessions, dest>>
    BY <1>4 DEF List, Unknown
  <2>3. QED
    BY <2>1, <2>2 DEF Become, CommandsOK, Only
<1>5. CASE BeginKill(f)
  BY <1>5, MaxTargetsAssumption DEF BeginKill, Become, CommandsOK, Only, Commands
<1>6. QED
  BY <1>1, <1>2, <1>3, <1>4, <1>5

\* The commands on one session.
LEMMA SessionCommands ==
  ASSUME StateInv, NEW f \in Fry,
         Attach(f) \/ Restore(f) \/ Save(f) \/ Start(f) \/ StartFails(f)
  PROVE  CommandsOK' /\ Only(f)
<1> USE DEF StateInv
<1>1. CASE Attach(f)
  <2>1. PICK i \in 1..Len(sessions[f]) :
          sessions' = [sessions EXCEPT ![f][i] = Freed(Attached(@))]
    BY <1>1 DEF Attach, Found
  <2>2. Freed(Attached(sessions[f][i])) \in Session
    BY InHand, RecordTypes
  <2>3. sessions' = [sessions EXCEPT ![f][i] = Freed(Attached(sessions[f][i]))]
    BY <2>1
  <2>4. QED
    BY <1>1, <2>2, <2>3, SetType DEF Attach, Become, CommandsOK, Only, Commands
<1>2. CASE Restore(f)
  <2>1. PICK n \in DOMAIN files :
          /\ files[n] # Torn
          /\ \E detached \in BOOLEAN :
               sessions' = Appended(f, Freed(IF detached THEN Restored(files[n])
                                             ELSE Attached(Restored(files[n]))))
    BY <1>2 DEF Restore
  <2>2. Restored(files[n]) \in Session
    BY <2>1, RestoredType DEF FilesOK
  <2>3. /\ Freed(Restored(files[n])) \in Session
        /\ Freed(Attached(Restored(files[n]))) \in Session
    BY <2>2, RecordTypes
  <2>4. QED
    BY <1>2, <2>1, <2>3, AppendType DEF Restore, Become, CommandsOK, Only, Commands
<1>3. CASE Save(f)
  <2>1. PICK i \in 1..Len(sessions[f]) :
          /\ Become(f, "save", "save", i)
          /\ \E name \in {sessions[f][i].id} \cup {<<n, "name">> : n \in SaveName} :
               dest' = [dest EXCEPT ![f] = name]
    BY <1>3 DEF Save, Found
  <2>2. sessions[f][i].id \in Name /\ \A n \in SaveName : <<n, "name">> \in Name
    BY InHand DEF Session, Name
  <2>3. QED
    BY <1>3, <2>1, <2>2 DEF Save, Become, CommandsOK, Only, Commands
<1>4. CASE Start(f)
  <2>1. NewId(f) \in Name
    BY NewTypes DEF Name
  <2>2. PICK p \in Pid : sessions' = Appended(f, [id |-> NewId(f), state |-> "RUNNING",
                                                  pid |-> p, freed |-> FALSE])
    BY <1>4 DEF Start
  <2>3. Len(sessions[f]) + 1 \in Nat
    BY DEF CommandsOK
  <2>4. QED
    BY <1>4, <2>1, <2>2, <2>3, NewTypes, AppendType
       DEF Start, Become, CommandsOK, Only, Commands
<1>5. CASE StartFails(f)
  BY <1>5, NewTypes, AppendType DEF StartFails, Become, CommandsOK, Only, Commands
<1>6. QED
  BY <1>1, <1>2, <1>3, <1>4, <1>5

\* Saving, stopping and the end.
LEMMA LaterCommands ==
  ASSUME StateInv, NEW f \in Fry,
         \/ Open(f) \/ Write(f) \/ WriteFails(f) \/ AfterSave(f) \/ KillOne(f)
         \/ Killed(f)
         \/ DestroyOne(f) \/ Abort(f) \/ Exit(f) \/ Interrupt(f)
  PROVE  CommandsOK' /\ Only(f)
<1> USE DEF StateInv
<1>1. CASE Open(f) \/ Write(f) \/ WriteFails(f)
  BY <1>1 DEF Open, Write, WriteFails, CommandsOK, Only
<1>2. CASE AfterSave(f)
  <2>1. at[f] \in 1..Len(sessions[f])
    BY <1>2 DEF AfterSave, Indexed
  <2>2. PICK detached \in BOOLEAN :
          sessions' = [sessions EXCEPT ![f][at[f]] =
                         Freed(IF detached THEN @ ELSE Attached(@))]
    BY <1>2 DEF AfterSave
  <2>3. /\ Freed(sessions[f][at[f]]) \in Session
        /\ Freed(Attached(sessions[f][at[f]])) \in Session
    BY <2>1, InHand, RecordTypes
  <2>4. \/ sessions' = [sessions EXCEPT ![f][at[f]] = Freed(sessions[f][at[f]])]
        \/ sessions' = [sessions EXCEPT ![f][at[f]] = Freed(Attached(sessions[f][at[f]]))]
    BY <2>2
  <2>5. QED
    BY <1>2, <2>1, <2>3, <2>4, SetType DEF AfterSave, CommandsOK, Only
<1>3. CASE KillOne(f)
  <2>1. \/ UNCHANGED sessions
        \/ \E i \in 1..Len(sessions[f]) :
             sessions' = [sessions EXCEPT ![f][i] = Freed(Ended(@))]
    BY <1>3 DEF KillOne, Found
  <2>2. ASSUME NEW i \in 1..Len(sessions[f]),
               sessions' = [sessions EXCEPT ![f][i] = Freed(Ended(@))]
        PROVE  /\ sessions' \in [Fry -> Seq(Session)]
               /\ \A g \in Fry \ {f} : sessions'[g] = sessions[g]
    <3>1. Freed(Ended(sessions[f][i])) \in Session
      BY InHand, RecordTypes
    <3>2. sessions' = [sessions EXCEPT ![f][i] = Freed(Ended(sessions[f][i]))]
      BY <2>2
    <3>3. QED
      BY <3>1, <3>2, SetType
  <2>3. /\ sessions' \in [Fry -> Seq(Session)]
        /\ \A g \in Fry \ {f} : sessions'[g] = sessions[g]
    BY <2>1, <2>2 DEF CommandsOK
  <2>4. at[f] - 1 \in Nat
    BY <1>3 DEF KillOne, CommandsOK
  <2>5. QED
    BY <1>3, <2>3, <2>4 DEF KillOne, CommandsOK, Only
<1>4. CASE Killed(f)
  BY <1>4 DEF Killed, CommandsOK, Only
<1>5. CASE DestroyOne(f)
  <2>1. at[f] \in 1..Len(sessions[f])
    BY <1>5 DEF DestroyOne, Indexed, CommandsOK
  <2>2. Without(sessions[f], at[f]) \in Seq(Session)
    BY <2>1, WithoutType DEF CommandsOK
  <2>3. QED
    BY <1>5, <2>2 DEF DestroyOne, CommandsOK, Only
<1>6. CASE Gone(f)
  BY <1>6 DEF Gone, CommandsOK, Only
<1>7. QED
  BY <1>1, <1>2, <1>3, <1>4, <1>5, <1>6 DEF Abort, Exit, Interrupt

LEMMA CommandsStep ==
  ASSUME StateInv, NEW f \in Fry, Quiet(f) \/ Start(f)
  PROVE  CommandsOK' /\ Only(f)
BY ReadyCommands, SessionCommands, LaterCommands DEF Quiet

\* Files appear and are written; none goes away.
LEMMA FilesStep ==
  ASSUME StateInv, NEW f \in Fry, Quiet(f) \/ Start(f)
  PROVE  FilesOK' /\ DOMAIN files \subseteq DOMAIN files'
<1> USE DEF StateInv
<1>1. CASE UNCHANGED <<files, cut>>
  BY <1>1 DEF FilesOK
<1>2. CASE Open(f)
  <2>1. sessions[f][at[f]].id \in Id /\ dest[f] \in Name
    BY <1>2, InHand DEF Open, Indexed, Writing, Session
  <2>2. cut' \subseteq Id
    BY <1>2, <2>1 DEF Open, FilesOK
  <2>3. CASE UNCHANGED files
    BY <2>2, <2>3 DEF FilesOK
  <2>4. CASE files' = [n \in DOMAIN files \cup {dest[f]} |->
                         IF n = dest[f] THEN Torn ELSE files[n]]
    BY <2>1, <2>2, <2>4 DEF FilesOK
  <2>5. QED
    BY <1>2, <2>3, <2>4 DEF Open
<1>3. CASE Write(f)
  <2> DEFINE s == sessions[f][at[f]]
             r == [id |-> s.id, state |-> s.state, pid |-> s.pid]
  <2>1. r \in Saved
    BY <1>3, InHand, RecordTypes DEF Write, Indexed
  <2>2. files' = [files EXCEPT ![dest[f]] = r] /\ UNCHANGED cut
    BY <1>3 DEF Write
  <2> HIDE DEF r
  <2>3. QED
    BY <2>1, <2>2 DEF FilesOK
<1>4. CASE Interrupt(f) \/ WriteFails(f)
  <2>1. Writing(f) => sessions[f][at[f]].id \in Id
    BY InHand DEF Indexed, Writing, Session
  <2>2. QED
    BY <1>4, <2>1 DEF Interrupt, Gone, WriteFails, FilesOK, Writing
<1>5. QED
  BY <1>1, <1>2, <1>3, <1>4
     DEF Quiet, Begin, Load, Loaded, List, Unknown, Attach, Restore, Save, Start,
         StartFails, AfterSave, BeginKill, KillOne, Killed, DestroyOne, Abort, Exit, Gone

LEMMA IndexedStep ==
  ASSUME StateInv, NEW f \in Fry, Quiet(f) \/ Start(f)
  PROVE  \A g \in Fry : Indexed(g)'
<1> USE DEF StateInv
<1>1. CommandsOK' /\ Only(f) /\ DOMAIN files \subseteq DOMAIN files'
  BY CommandsStep, FilesStep
<1>2. \A g \in Fry \ {f} : Indexed(g)'
  BY <1>1 DEF Only, Indexed, Writing
<1>3. todo'[f] \subseteq DOMAIN files'
  <2>1. todo[f] \subseteq DOMAIN files
    BY DEF Indexed
  <2>2. \/ todo'[f] \subseteq todo[f]
        \/ todo'[f] = DOMAIN files
    BY DEF CommandsOK, Quiet, Begin, Load, Loaded, List, Unknown, Attach, Restore, Save,
           Start, StartFails, Open, Write, WriteFails, AfterSave, BeginKill, KillOne, Killed,
           DestroyOne, Abort, Exit, Interrupt, Gone
  <2>3. QED
    BY <1>1, <2>1, <2>2
<1>4. CASE Save(f)
  <2>1. PICK i \in 1..Len(sessions[f]) :
          /\ Become(f, "save", "save", i)
          /\ \E name \in {sessions[f][i].id} \cup {<<n, "name">> : n \in SaveName} :
               dest' = [dest EXCEPT ![f] = name]
    BY <1>4 DEF Save, Found
  <2>2. sessions[f][i].id \in Name /\ \A n \in SaveName : <<n, "name">> \in Name
    BY InHand DEF Session, Name
  <2>3. pc'[f] = "save" /\ at'[f] = i /\ dest'[f] \in Name /\ sessions' = sessions
    BY <1>4, <2>1, <2>2 DEF Save, Become, CommandsOK
  <2>4. QED
    BY <1>2, <1>3, <2>3 DEF Indexed, Writing
<1>5. CASE Start(f)
  <2>1. PICK p \in Pid : sessions' = Appended(f, [id |-> NewId(f), state |-> "RUNNING",
                                                  pid |-> p, freed |-> FALSE])
    BY <1>5 DEF Start
  <2>2. sessions'[f] = Append(sessions[f], [id |-> NewId(f), state |-> "RUNNING",
                                            pid |-> p, freed |-> FALSE])
    BY <2>1, NewTypes, AppendType
  <2>3. /\ pc'[f] = "save" /\ at'[f] = Len(sessions[f]) + 1
        /\ dest'[f] = NewId(f) /\ NewId(f) \in Name
    BY <1>5, NewTypes DEF Start, Become, CommandsOK, Name
  <2>4. at'[f] \in 1..Len(sessions'[f])
    BY <2>2, <2>3 DEF CommandsOK
  <2>5. QED
    BY <1>2, <1>3, <2>3, <2>4 DEF Indexed, Writing
<1>6. CASE Open(f) \/ Write(f) \/ WriteFails(f)
  <2>1. pc'[f] \in {"write", "saved"} /\ UNCHANGED <<sessions, at, dest>>
    BY <1>6 DEF Open, Write, WriteFails, CommandsOK
  <2>2. at[f] \in 1..Len(sessions[f]) /\ dest[f] \in Name
    BY <1>6 DEF Open, Write, WriteFails, Indexed, Writing
  <2>3. pc'[f] = "write" => dest[f] \in DOMAIN files'
    BY <1>6 DEF Open, Write, WriteFails, CommandsOK
  <2>4. QED
    BY <1>2, <1>3, <2>1, <2>2, <2>3 DEF Indexed, Writing
<1>7. CASE \/ pc'[f] \in {"load", "ready", "kill", "done"}
           \/ pc'[f] = "destroy" /\ at'[f] > 0
  BY <1>2, <1>3, <1>7 DEF Indexed, Writing
<1>8. CASE DestroyOne(f)
  <2>1. pc'[f] = "destroy" /\ at'[f] > 0
    BY <1>8 DEF DestroyOne, Indexed, CommandsOK
  <2>2. QED
    BY <1>7, <2>1
<1>9. QED
  BY <1>4, <1>5, <1>6, <1>7, <1>8
     DEF CommandsOK, Quiet, Begin, Load, Loaded, List, Unknown, Become, Attach, Restore,
         StartFails, AfterSave, BeginKill, KillOne, Killed, Abort, Exit, Interrupt, Gone

LEMMA StateStep == StateInv /\ [Next]_vars => StateInv'
<1> SUFFICES ASSUME StateInv, [Next]_vars PROVE StateInv'
  OBVIOUS
<1> USE DEF StateInv
<1>1. ASSUME NEW f \in Fry, Quiet(f) PROVE StateInv'
  BY <1>1, QuietKernel, CommandsStep, FilesStep, IndexedStep
<1>2. ASSUME NEW f \in Fry, Start(f) PROVE StateInv'
  BY <1>2, StartKernel, CommandsStep, FilesStep, IndexedStep
<1>3. CASE Outside
  <2>1. KernelOK'
    BY <1>3, OutsideKernel
  <2>2. UNCHANGED <<files, commandVars, cut>>
    BY <1>3 DEF Outside, ClaudeEnds, Reused, OtherEnds
  <2>3. QED
    BY <2>1, <2>2 DEF commandVars, FilesOK, CommandsOK, Indexed, Writing
<1>4. CASE UNCHANGED vars
  BY <1>4 DEF vars, kernelVars, commandVars, KernelOK, FilesOK, CommandsOK, Indexed, Writing
<1>5. QED
  BY <1>1, <1>2, <1>3, <1>4 DEF Next, Step, Quiet, Outside

-----------------------------------------------------------------------------
(* The records.                                                            *)

\* What most steps do: claudes only end, no file changes, and of the commands some
\* leave off, either after they have saved or with the session cut.
Plain ==
  /\ Shrinks
  /\ UNCHANGED files /\ cut \subseteq cut'
  /\ \A g \in Fry :
       /\ pc'[g] \in Holding => pc[g] \in Holding /\ sessions'[g] = sessions[g]
       /\ pc'[g] \in Young => pc[g] \in Young
       /\ Writing(g)' => Writing(g) /\ at'[g] = at[g] /\ dest'[g] = dest[g]
       /\ Writing(g) /\ ~Writing(g)' => sessions[g][at[g]].id \in cut'

LEMMA StaysTruthful ==
  ASSUME Shrinks, NEW r, Truthful(r, proc, owner)
  PROVE  Truthful(r, proc', owner')
BY DEF Shrinks, Truthful

\* Loading looks at the process table, and changes no record that is true.
LEMMA RestoredTruthful ==
  ASSUME NEW r \in Saved, Truthful(r, proc, owner)
  PROVE  Restored(r).id = r.id /\ Truthful(Restored(r), proc, owner)
BY DEF Restored, Alive, Truthful, Saved

LEMMA HoldingSteps ==
  /\ Young \subseteq Holding
  /\ \A f \in Fry : Writing(f) => pc[f] \in Holding /\ pc[f] \notin Young
BY DEF Holding, Young, Writing

\* A list that is held is as it was, and so is the session in hand.
LEMMA PlainHeld ==
  ASSUME Plain
  PROVE  \A g \in Fry : Writing(g)' =>
           sessions'[g][at'[g]] = sessions[g][at[g]] /\ dest'[g] = dest[g]
BY DEF Plain, Writing, Holding

LEMMA PlainTruth == ASSUME StateInv, Truth, Plain PROVE Truth'
<1> USE DEF Truth
<1>1. FilesTrue'
  BY StaysTruthful DEF Plain, FilesTrue
<1>2. HeldTrue'
  BY StaysTruthful DEF Plain, HeldTrue
<1>3. Fresh'
  <2> SUFFICES ASSUME NEW f \in Fry, pc'[f] \in Young PROVE Unused(f)'
    BY DEF Fresh
  <2>1. Unused(f)
    BY DEF Plain, Fresh
  <2>2. QED
    BY <2>1 DEF Plain, Unused, Shrinks
<1>4. Destined'
  BY PlainHeld DEF Plain, Destined
<1>5. OnRecord'
  <2> SUFFICES ASSUME NEW p \in Pid, proc'[p] = "claude"
               PROVE  /\ owner'[p] \in Id
                      /\ \/ /\ owner'[p] \in DOMAIN files'
                            /\ files'[owner'[p]] = [id |-> owner'[p], state |-> "RUNNING",
                                                     pid |-> p]
                         \/ \E f \in Fry :
                              /\ Writing(f)'
                              /\ dest'[f] = owner'[p] /\ sessions'[f][at'[f]].id = owner'[p]
                         \/ owner'[p] \in cut'
    BY DEF OnRecord
  <2>1. proc[p] = "claude" /\ owner'[p] = owner[p]
    BY DEF Plain, Shrinks
  <2>2. ASSUME NEW f \in Fry, Writing(f),
               dest[f] = owner[p], sessions[f][at[f]].id = owner[p]
        PROVE  \/ /\ Writing(f)'
                  /\ dest'[f] = owner[p] /\ sessions'[f][at'[f]].id = owner[p]
               \/ owner[p] \in cut'
    BY <2>2, PlainHeld DEF Plain
  <2>3. QED
    BY <2>1, <2>2 DEF Plain, OnRecord
<1>6. QED
  BY <1>1, <1>2, <1>3, <1>4, <1>5

LEMMA PlainSteps ==
  ASSUME StateInv, NEW f \in Fry,
         \/ Begin(f) \/ Loaded(f) \/ List(f) \/ Unknown(f) \/ Attach(f) \/ Restore(f)
         \/ StartFails(f) \/ AfterSave(f) \/ BeginKill(f) \/ KillOne(f) \/ Killed(f)
         \/ DestroyOne(f) \/ Abort(f) \/ Exit(f) \/ Interrupt(f) \/ WriteFails(f)
  PROVE  Plain
<1>1. Quiet(f)
  BY DEF Quiet
<1>2. Shrinks
  BY <1>1, QuietKernel
<1>3. Only(f)
  BY <1>1, CommandsStep
<1>4. UNCHANGED files /\ cut \subseteq cut'
  BY DEF Begin, Loaded, List, Unknown, Attach, Restore, StartFails, AfterSave, BeginKill,
         KillOne, Killed, DestroyOne, Abort, Exit, Interrupt, Gone, WriteFails
<1>5. pc \in [Fry -> {"off", "load", "ready", "save", "write", "saved", "kill",
                      "destroy", "done"}]
  BY DEF StateInv, CommandsOK
<1>6. CASE Begin(f) \/ Loaded(f)
  BY <1>2, <1>3, <1>4, <1>5, <1>6
     DEF Begin, Loaded, Plain, Only, Holding, Young, Writing
<1>7. CASE Interrupt(f) \/ WriteFails(f)
  BY <1>2, <1>3, <1>4, <1>5, <1>7
     DEF Interrupt, Gone, WriteFails, Plain, Only, Holding, Young, Writing
<1>8. CASE /\ pc[f] \notin {"save", "write"}
           /\ pc'[f] \in {"kill", "destroy", "done"}
  BY <1>2, <1>3, <1>4, <1>8 DEF Plain, Only, Holding, Young, Writing
<1>9. QED
  BY <1>5, <1>6, <1>7, <1>8
     DEF List, Unknown, Become, Attach, Restore, StartFails, AfterSave, BeginKill,
         KillOne, Killed, DestroyOne, Abort, Exit, Gone

LEMMA OutsidePlain == ASSUME StateInv, Outside \/ UNCHANGED vars PROVE Plain
<1>1. Shrinks
  BY OutsideKernel, SameKernel DEF StateInv, vars
<1>2. UNCHANGED <<files, commandVars, cut>>
  BY DEF Outside, ClaudeEnds, Reused, OtherEnds, vars
<1>3. QED
  BY <1>1, <1>2 DEF Plain, commandVars, Writing

-----------------------------------------------------------------------------
(* The steps that write records.                                           *)

LEMMA LoadTruth == ASSUME StateInv, Truth, NEW f \in Fry, Load(f) PROVE Truth'
<1> USE DEF StateInv, Truth
<1>1. Shrinks /\ UNCHANGED <<proc, owner, files, pc, at, dest, cut>>
  BY SameKernel DEF Load, kernelVars
<1>2. PICK n \in todo[f] :
        sessions' = IF files[n] = Torn THEN sessions ELSE Appended(f, Restored(files[n]))
  BY DEF Load
<1>3. n \in DOMAIN files /\ files[n] \in Saved \cup {Torn} /\ pc[f] \in Young
  BY DEF Indexed, FilesOK, Load, Young
<1>4. CASE files[n] = Torn
  <2>1. Plain
    BY <1>1, <1>2, <1>4 DEF Plain, Writing
  <2>2. QED
    BY <2>1, PlainTruth
<1>5. CASE files[n] # Torn
  <2> DEFINE s == Restored(files[n])
  <2>1. s \in Session /\ s.id = files[n].id /\ Truthful(s, proc, owner)
    BY <1>3, <1>5, RestoredType, RestoredTruthful DEF FilesTrue
  <2>2. sessions' = Appended(f, s)
    BY <1>2, <1>5
  <2> HIDE DEF s
  <2>3. /\ sessions'[f] = Append(sessions[f], s)
        /\ \A g \in Fry \ {f} : sessions'[g] = sessions[g]
        /\ sessions[f] \in Seq(Session)
    BY <2>1, <2>2, AppendType DEF CommandsOK
  <2>4. \A i \in 1..Len(sessions'[f]) :
          \/ sessions'[f][i] = s
          \/ i \in 1..Len(sessions[f]) /\ sessions'[f][i] = sessions[f][i]
    BY <2>1, <2>3, AppendedHas
  <2>5. \A g \in Fry : Writing(g) => g # f
    BY HoldingSteps, <1>3
  <2>6. FilesTrue'
    BY <1>1 DEF FilesTrue
  <2>7. HeldTrue'
    BY <1>1, <2>1, <2>3, <2>4 DEF HeldTrue
  <2>8. Fresh'
    <3> SUFFICES ASSUME NEW h \in Fry, pc[h] \in Young PROVE Unused(h)'
      BY <1>1 DEF Fresh
    <3>1. Unused(h)
      BY DEF Fresh
    <3>2. s.id[2] # h
      BY <1>3, <2>1, <3>1 DEF Unused
    <3>3. \A g \in Fry : pc'[g] \in Holding =>
            \A i \in 1..Len(sessions'[g]) : sessions'[g][i].id[2] # h
      <4>1. pc[f] \in Holding /\ \A g \in Fry : pc'[g] \in Holding => pc[g] \in Holding
        BY <1>1, <1>3 DEF Holding, Young
      <4>2. \A i \in 1..Len(sessions[f]) : sessions[f][i].id[2] # h
        BY <3>1, <4>1 DEF Unused
      <4>3. \A i \in 1..Len(sessions'[f]) : sessions'[f][i].id[2] # h
        BY ONLY <2>4, <3>2, <4>2
      <4>4. ASSUME NEW g \in Fry \ {f}, pc[g] \in Holding
            PROVE  \A i \in 1..Len(sessions'[g]) : sessions'[g][i].id[2] # h
        <5>1. sessions'[g] = sessions[g]
          BY <2>3
        <5>2. QED
          BY <3>1, <4>4, <5>1 DEF Unused
      <4>5. QED
        BY <4>1, <4>3, <4>4
    <3>4. QED
      BY <1>1, <3>1, <3>3 DEF Unused
  <2>9. Destined'
    BY <1>1, <2>3, <2>5 DEF Destined, Writing
  <2>10. OnRecord'
    BY <1>1, <2>3, <2>5 DEF OnRecord, Writing
  <2>11. QED
    BY <2>6, <2>7, <2>8, <2>9, <2>10
<1>6. QED
  BY <1>4, <1>5

LEMMA SaveTruth == ASSUME StateInv, Truth, NEW f \in Fry, Save(f) PROVE Truth'
<1> USE DEF StateInv, Truth
<1>1. UNCHANGED <<proc, owner, files, sessions, cut>>
  BY DEF Save, kernelVars
<1>2. PICK i \in 1..Len(sessions[f]) :
        /\ Become(f, "save", "save", i)
        /\ \E name \in {sessions[f][i].id} \cup {<<n, "name">> : n \in SaveName} :
             dest' = [dest EXCEPT ![f] = name]
  BY DEF Save, Found
<1>3. /\ pc[f] = "ready" /\ pc'[f] = "save" /\ at'[f] = i
      /\ dest'[f] \in {sessions[f][i].id} \cup {<<n, "name">> : n \in SaveName}
  BY <1>2 DEF Save, Become, CommandsOK
<1>4. Only(f)
  BY SessionCommands
<1>5. FilesTrue'
  BY <1>1 DEF FilesTrue
<1>6. HeldTrue'
  BY <1>1, <1>3, <1>4 DEF HeldTrue, Only, Holding, Young
<1>7. Fresh'
  BY <1>1, <1>3, <1>4 DEF Fresh, Unused, Only, Holding, Young
<1>8. Destined'
  BY <1>1, <1>3, <1>4 DEF Destined, Only, Writing
<1>9. OnRecord'
  BY <1>1, <1>3, <1>4 DEF OnRecord, Only, Writing
<1>10. QED
  BY <1>5, <1>6, <1>7, <1>8, <1>9

\* The file is empty while the session is in hand, or the session counts as cut.
LEMMA OpenTruth == ASSUME StateInv, Truth, NEW f \in Fry, Open(f) PROVE Truth'
<1> USE DEF StateInv, Truth
<1>1. UNCHANGED <<proc, owner, sessions, at, dest>> /\ pc[f] = "save" /\ cut \subseteq cut'
  BY DEF Open, kernelVars
<1>2. Only(f)
  BY LaterCommands
<1>3. \/ /\ pc'[f] = "write" /\ UNCHANGED cut
         /\ files' = [n \in DOMAIN files \cup {dest[f]} |->
                        IF n = dest[f] THEN Torn ELSE files[n]]
      \/ /\ pc'[f] = "saved" /\ UNCHANGED files
         /\ cut' = cut \cup {sessions[f][at[f]].id}
  BY DEF Open, CommandsOK
<1>4. \A n \in DOMAIN files' :
        \/ n \in DOMAIN files /\ files'[n] = files[n]
        \/ n = dest[f] /\ files'[n] = Torn /\ pc'[f] = "write"
  BY <1>3
<1>5. Truthful(Torn, proc, owner) /\ \A g \in Fry : Torn.id[2] # g
  <2>1. \A p \in Pid : proc[p] = "claude" => owner[p] # Torn.id
    BY NoIdType DEF OnRecord
  <2>2. QED
    BY <2>1, FryAssumption DEF Truthful, Torn, NoId
<1>6. FilesTrue'
  BY <1>1, <1>4, <1>5 DEF FilesTrue
<1>7. HeldTrue'
  BY <1>1, <1>2, <1>3 DEF HeldTrue, Only, Holding, Young
<1>8. Fresh'
  <2> SUFFICES ASSUME NEW h \in Fry, pc'[h] \in Young PROVE Unused(h)'
    BY DEF Fresh
  <2>1. Unused(h)
    BY <1>1, <1>2, <1>3 DEF Fresh, Only, Young
  <2>2. \A n \in DOMAIN files' : files'[n].id[2] # h
    BY <1>4, <1>5, <2>1 DEF Unused
  <2>3. QED
    BY <1>1, <1>2, <1>3, <2>1, <2>2 DEF Unused, Only, Holding, Young
<1>9. Destined'
  BY <1>1, <1>2, <1>3 DEF Destined, Only, Writing
<1>10. OnRecord'
  <2> SUFFICES ASSUME NEW p \in Pid, proc[p] = "claude"
               PROVE  /\ owner[p] \in Id
                      /\ \/ /\ owner[p] \in DOMAIN files'
                            /\ files'[owner[p]] = [id |-> owner[p], state |-> "RUNNING",
                                                   pid |-> p]
                         \/ \E g \in Fry :
                              /\ Writing(g)'
                              /\ dest[g] = owner[p] /\ sessions[g][at[g]].id = owner[p]
                         \/ owner[p] \in cut'
    BY <1>1 DEF OnRecord
  <2>1. owner[p] \in Id /\ \A n \in SaveName : owner[p] # <<n, "name">>
    BY NamesDiffer DEF OnRecord
  <2>2. CASE dest[f] = owner[p]
    <3>1. sessions[f][at[f]].id = owner[p]
      BY <1>1, <2>1, <2>2 DEF Destined, Writing
    <3>2. QED
      BY <1>3, <2>1, <2>2, <3>1 DEF Writing
  <2>3. CASE dest[f] # owner[p]
    <3>1. \A g \in Fry : Writing(g) /\ dest[g] = owner[p] => Writing(g)'
      BY <1>2, <2>3 DEF Only, Writing
    <3>2. owner[p] \in DOMAIN files =>
            owner[p] \in DOMAIN files' /\ files'[owner[p]] = files[owner[p]]
      BY <1>3, <2>3
    <3>3. QED
      BY <1>1, <2>1, <3>1, <3>2 DEF OnRecord
  <2>4. QED
    BY <2>2, <2>3
<1>11. QED
  BY <1>6, <1>7, <1>8, <1>9, <1>10

\* What is written is what was loaded, and still true.
LEMMA WriteTruth == ASSUME StateInv, Truth, NEW f \in Fry, Write(f) PROVE Truth'
<1> USE DEF StateInv, Truth
<1> DEFINE s == sessions[f][at[f]]
           r == [id |-> s.id, state |-> s.state, pid |-> s.pid]
<1>1. /\ UNCHANGED <<proc, owner, sessions, at, dest, cut>>
      /\ pc[f] = "write" /\ pc'[f] = "saved"
      /\ files' = [files EXCEPT ![dest[f]] = r]
  BY DEF Write, kernelVars, CommandsOK
<1>2. Only(f)
  BY LaterCommands
<1>3. at[f] \in 1..Len(sessions[f]) /\ s \in Session /\ dest[f] \in DOMAIN files
  BY <1>1, InHand DEF Indexed
<1>4. Truthful(s, proc, owner)
  BY <1>1, <1>3 DEF HeldTrue, Holding
<1>5. r.id = s.id /\ r.state = s.state /\ r.pid = s.pid
  OBVIOUS
<1>6. Truthful(r, proc, owner)
  BY <1>4, <1>5 DEF Truthful
<1> HIDE DEF r
<1>7. \A n \in DOMAIN files' :
        n \in DOMAIN files /\ files'[n] = IF n = dest[f] THEN r ELSE files[n]
  BY <1>1
<1>8. FilesTrue'
  BY <1>1, <1>6, <1>7 DEF FilesTrue
<1>9. HeldTrue'
  BY <1>1, <1>2 DEF HeldTrue, Only, Holding, Young
<1>10. Fresh'
  <2> SUFFICES ASSUME NEW h \in Fry, pc'[h] \in Young PROVE Unused(h)'
    BY DEF Fresh
  <2>1. Unused(h)
    BY <1>1, <1>2 DEF Fresh, Only, Young
  <2>2. r.id[2] # h
    BY <1>1, <1>3, <1>5, <2>1 DEF Unused, Holding
  <2>3. \A n \in DOMAIN files' : files'[n].id[2] # h
    BY <1>7, <2>1, <2>2 DEF Unused
  <2>4. QED
    BY <1>1, <1>2, <2>1, <2>3 DEF Unused, Only, Holding, Young
<1>11. Destined'
  BY <1>1, <1>2 DEF Destined, Only, Writing
<1>12. OnRecord'
  <2> SUFFICES ASSUME NEW p \in Pid, proc[p] = "claude"
               PROVE  /\ owner[p] \in Id
                      /\ \/ /\ owner[p] \in DOMAIN files'
                            /\ files'[owner[p]] = [id |-> owner[p], state |-> "RUNNING",
                                                   pid |-> p]
                         \/ \E g \in Fry :
                              /\ Writing(g)'
                              /\ dest[g] = owner[p] /\ sessions[g][at[g]].id = owner[p]
                         \/ owner[p] \in cut'
    BY <1>1 DEF OnRecord
  <2>1. owner[p] \in Id /\ \A n \in SaveName : owner[p] # <<n, "name">>
    BY NamesDiffer DEF OnRecord
  <2>2. CASE dest[f] = owner[p]
    <3>1. s.id = owner[p]
      BY <1>1, <2>1, <2>2 DEF Destined, Writing
    <3>2. s.state = "RUNNING" /\ s.pid = p
      BY <1>4, <3>1 DEF Truthful
    <3>3. r = [id |-> owner[p], state |-> "RUNNING", pid |-> p]
      BY <3>1, <3>2 DEF r
    <3>4. QED
      BY <1>1, <1>3, <2>1, <2>2, <3>3
  <2>3. CASE dest[f] # owner[p]
    <3>1. \A g \in Fry : Writing(g) /\ dest[g] = owner[p] => Writing(g)'
      BY <1>2, <2>3 DEF Only, Writing
    <3>2. owner[p] \in DOMAIN files =>
            owner[p] \in DOMAIN files' /\ files'[owner[p]] = files[owner[p]]
      BY <1>1, <2>3
    <3>3. QED
      BY <1>1, <2>1, <3>1, <3>2 DEF OnRecord
  <2>4. QED
    BY <2>2, <2>3
<1>13. QED
  BY <1>8, <1>9, <1>10, <1>11, <1>12

\* The new session has an id of its own, and its claude is in hand until it is saved.
LEMMA StartTruth == ASSUME StateInv, Truth, NEW f \in Fry, Start(f) PROVE Truth'
<1> USE DEF StateInv, Truth
<1> DEFINE id == NewId(f)
<1>1. PICK q \in Pid :
        /\ proc'  = [proc EXCEPT ![q] = "claude"]
        /\ owner' = [owner EXCEPT ![q] = id]
        /\ sessions' = Appended(f, [id |-> id, state |-> "RUNNING", pid |-> q,
                                    freed |-> FALSE])
  BY DEF Start
<1> DEFINE s == [id |-> id, state |-> "RUNNING", pid |-> q, freed |-> FALSE]
<1>2. id \in Id /\ id[2] = f /\ s \in Session
  BY NewTypes DEF NewId
<1>3. s.id = id /\ s.state = "RUNNING" /\ s.pid = q
  OBVIOUS
<1>4. /\ UNCHANGED <<files, cut>>
      /\ pc[f] = "ready" /\ pc'[f] = "save"
      /\ at'[f] = Len(sessions[f]) + 1 /\ dest'[f] = id
  BY DEF Start, Become, CommandsOK
<1>5. Only(f) /\ CommandsOK'
  BY SessionCommands
<1>6. Unused(f)
  BY <1>4 DEF Fresh, Young
<1> HIDE DEF id, s
<1>7. /\ \A g \in Fry \ {f} : sessions'[g] = sessions[g]
      /\ sessions'[f] = Append(sessions[f], s) /\ sessions[f] \in Seq(Session)
  BY <1>1, <1>2, AppendType DEF s, CommandsOK
<1>8. /\ sessions'[f][at'[f]] = s
      /\ \A i \in 1..Len(sessions'[f]) :
           \/ sessions'[f][i] = s
           \/ i \in 1..Len(sessions[f]) /\ sessions'[f][i] = sessions[f][i]
  BY <1>2, <1>4, <1>7, AppendedHas
<1>9. /\ proc'[q] = "claude" /\ owner'[q] = id
      /\ \A p \in Pid \ {q} : proc'[p] = proc[p] /\ owner'[p] = owner[p]
  BY <1>1 DEF KernelOK
<1>10. ASSUME NEW r, Truthful(r, proc, owner), r.id # id
       PROVE  Truthful(r, proc', owner')
  BY <1>9, <1>10 DEF Truthful
<1>11. Truthful(s, proc', owner')
  BY <1>2, <1>3, <1>6, <1>9 DEF Truthful, Unused
<1>12. FilesTrue'
  BY <1>2, <1>4, <1>6, <1>10 DEF FilesTrue, Unused
<1>13. HeldTrue'
  <2> SUFFICES ASSUME NEW g \in Fry, pc'[g] \in Holding, NEW i \in 1..Len(sessions'[g])
               PROVE  Truthful(sessions'[g][i], proc', owner')
    BY DEF HeldTrue
  <2>1. CASE g = f
    <3>1. CASE sessions'[f][i] = s
      BY <1>11, <2>1, <3>1
    <3>2. CASE i \in 1..Len(sessions[f]) /\ sessions'[f][i] = sessions[f][i]
      <4>1. sessions[f][i].id # id /\ Truthful(sessions[f][i], proc, owner)
        BY <1>2, <1>4, <1>6, <3>2 DEF Unused, HeldTrue, Holding, Young
      <4>2. QED
        BY <1>10, <2>1, <3>2, <4>1
    <3>3. QED
      BY <1>8, <2>1, <3>1, <3>2
  <2>2. CASE g # f
    <3>1. pc[g] \in Holding /\ sessions'[g] = sessions[g]
      BY <1>5, <2>2 DEF Only
    <3>2. sessions[g][i].id # id /\ Truthful(sessions[g][i], proc, owner)
      BY <1>2, <1>6, <3>1 DEF Unused, HeldTrue
    <3>3. QED
      BY <1>10, <3>1, <3>2
  <2>3. QED
    BY <2>1, <2>2
<1>14. Fresh'
  <2> SUFFICES ASSUME NEW h \in Fry, pc'[h] \in Young PROVE Unused(h)'
    BY DEF Fresh
  <2>1. h # f /\ Unused(h)
    BY <1>4, <1>5 DEF Only, Young, Fresh
  <2>2. \A g \in Fry : pc'[g] \in Holding =>
          \A i \in 1..Len(sessions'[g]) : sessions'[g][i].id[2] # h
    <3> SUFFICES ASSUME NEW g \in Fry, pc'[g] \in Holding, NEW i \in 1..Len(sessions'[g])
                 PROVE  sessions'[g][i].id[2] # h
      OBVIOUS
    <3>1. CASE g = f
      BY <1>2, <1>3, <1>4, <1>8, <2>1, <3>1 DEF Unused, Holding, Young
    <3>2. CASE g # f
      BY <1>5, <2>1, <3>2 DEF Unused, Only
    <3>3. QED
      BY <3>1, <3>2
  <2>3. \A p \in Pid : proc'[p] = "claude" => owner'[p][2] # h
    BY <1>2, <1>9, <2>1 DEF Unused
  <2>4. QED
    BY <1>4, <2>1, <2>2, <2>3 DEF Unused
<1>15. Destined'
  BY <1>3, <1>4, <1>5, <1>8 DEF Destined, Only, Writing
<1>16. OnRecord'
  <2> SUFFICES ASSUME NEW p \in Pid, proc'[p] = "claude"
               PROVE  /\ owner'[p] \in Id
                      /\ \/ /\ owner'[p] \in DOMAIN files
                            /\ files[owner'[p]] = [id |-> owner'[p], state |-> "RUNNING",
                                                    pid |-> p]
                         \/ \E g \in Fry :
                              /\ Writing(g)'
                              /\ dest'[g] = owner'[p] /\ sessions'[g][at'[g]].id = owner'[p]
                         \/ owner'[p] \in cut
    BY <1>4 DEF OnRecord
  <2>1. CASE p = q
    BY <1>2, <1>3, <1>4, <1>8, <1>9, <2>1 DEF Writing
  <2>2. CASE p # q
    <3>1. proc[p] = "claude" /\ owner'[p] = owner[p]
      BY <1>9, <2>2
    <3>2. \A g \in Fry : Writing(g) =>
            g # f /\ Writing(g)' /\ dest'[g] = dest[g]
            /\ sessions'[g][at'[g]] = sessions[g][at[g]]
      BY <1>4, <1>5 DEF Only, Writing
    <3>3. QED
      BY <3>1, <3>2 DEF OnRecord
  <2>3. QED
    BY <2>1, <2>2
<1>17. QED
  BY <1>12, <1>13, <1>14, <1>15, <1>16

-----------------------------------------------------------------------------
(* The theorems.                                                           *)

LEMMA SessionsStep == SessionsInv /\ [Next]_vars => SessionsInv'
<1> SUFFICES ASSUME SessionsInv, [Next]_vars PROVE SessionsInv'
  OBVIOUS
<1> USE DEF SessionsInv
<1>1. StateInv'
  BY StateStep
<1>2. ASSUME NEW f \in Fry, Step(f) \/ Interrupt(f) PROVE Truth'
  BY <1>2, PlainSteps, PlainTruth, LoadTruth, SaveTruth, StartTruth, OpenTruth, WriteTruth
     DEF Step
<1>3. CASE Outside \/ UNCHANGED vars
  BY <1>1, <1>3, OutsidePlain, PlainTruth
<1>4. QED
  BY <1>1, <1>2, <1>3 DEF Next, Outside

LEMMA SessionsInvariant == Spec => []SessionsInv
BY SessionsInit, SessionsStep, PTL DEF Spec

\* The variables of the session commands keep their types, whatever overlaps and
\* whatever is interrupted.
THEOREM SessionsTypes == Spec => []SessionsTypeOK
<1>1. SessionsInv => SessionsTypeOK
  <2> SUFFICES ASSUME SessionsInv PROVE SessionsTypeOK
    OBVIOUS
  <2>1. \A f \in Fry : \A i \in 1..Len(sessions[f]) : sessions[f][i] \in Session
    BY InHand DEF SessionsInv, StateInv
  <2>2. QED
    BY <2>1 DEF SessionsInv, StateInv, KernelOK, FilesOK, CommandsOK, SessionsTypeOK
<1>2. QED
  BY <1>1, SessionsInvariant, PTL

\* A claude that runs can be found again, unless saving its session was cut: for any
\* number of commands that save, load and stop sessions at the same time.
THEOREM RunningIsRecorded == Spec => []Recorded
<1>1. SessionsInv => Recorded
  BY DEF SessionsInv, Truth, OnRecord, Recorded, Saving, Writing
<1>2. QED
  BY <1>1, SessionsInvariant, PTL

\* No file says of a session that it has ended while its claude runs, though commands
\* write what they loaded some time ago and ids of processes come back.
THEOREM EndedIsTrue == Spec => []EndedHaveEnded
<1>1. SessionsInv => EndedHaveEnded
  BY DEF SessionsInv, Truth, FilesTrue, Truthful, EndedHaveEnded
<1>2. QED
  BY <1>1, SessionsInvariant, PTL
=============================================================================
