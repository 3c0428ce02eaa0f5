------------------------------ MODULE Sessions ------------------------------
(***************************************************************************)
(* fry sessions list | start | attach | save | restore | kill              *)
(* (src/cli/commands/cmd_stubs.c over src/core/session.c).  Every command  *)
(* is a process of its own: it loads every saved session into a manager,   *)
(* does its work and destroys the manager.  Commands share the files of    *)
(* ~/.fry/sessions and the processes of claude, may overlap, and may be    *)
(* interrupted at any point.                                               *)
(***************************************************************************)
EXTENDS Integers, Sequences

CONSTANTS
  Fry,        \* bound: the commands there will be, each with its process id
  Pid,        \* the process ids claude and other programs can get
  SaveName,   \* the names a user saves sessions under
  MaxTargets, \* bound on the arguments of sessions kill
  Interrupts  \* bound: whether commands are interrupted

ASSUME FryAssumption        == "none" \notin Fry /\ "name" \notin Fry
ASSUME PidAssumption        == -1 \notin Pid
ASSUME MaxTargetsAssumption == MaxTargets \in Nat \ {0}
ASSUME InterruptsAssumption == Interrupts \in BOOLEAN

VARIABLES
  proc,      \* what runs under a process id
  parent,    \* the command a claude is a child of; "init" once that has ended
  owner,     \* the session a claude was started for
  told,      \* the claudes that were sent SIGTERM or SIGKILL
  files,     \* the session files, by name without ".json"
  pc, cmd,
  todo,      \* the files the manager has not loaded yet
  sessions,  \* manager->sessions
  at,        \* the loop index of the manager's destruction, the session in hand
             \* or the arguments left
  dest,      \* the file being written
  cut        \* the sessions whose saving was interrupted or failed

kernelVars  == <<proc, parent, owner, told>>
commandVars == <<pc, cmd, todo, sessions, at, dest>>
vars        == <<kernelVars, commandVars, files, cut>>

\* "sess_<sessions loaded>_<getpid()>"
Id    == Nat \X Fry
NoId  == <<0, "none">>
Name  == Id \cup {<<n, "name">> : n \in SaveName}
Torn  == [id |-> NoId, state |-> "EMPTY", pid |-> -1]

SessionStates == {"CREATED", "RUNNING", "TERMINATED"}
Saved   == [id : Id, state : SessionStates, pid : Pid \cup {-1}]
Session == [id : Id, state : SessionStates, pid : Pid \cup {-1}, freed : BOOLEAN]
Commands == {"list", "start", "attach", "save", "restore", "kill"}

SessionsTypeOK ==
  /\ proc   \in [Pid -> {"free", "claude", "zombie", "other"}]
  /\ parent \in [Pid -> Fry \cup {"init"}]
  /\ owner  \in [Pid -> Id \cup {NoId}]
  /\ told   \in SUBSET Pid
  /\ DOMAIN files \subseteq Name
  /\ \A n \in DOMAIN files : files[n] \in Saved \cup {Torn}
  /\ pc \in [Fry -> {"off", "load", "ready", "save", "write", "saved", "kill",
                     "destroy", "done"}]
  /\ cmd  \in [Fry -> Commands \cup {"none"}]
  /\ todo \in [Fry -> SUBSET Name]
  /\ \A f \in Fry : \A i \in 1..Len(sessions[f]) : sessions[f][i] \in Session
  /\ at   \in [Fry -> Nat]
  /\ dest \in [Fry -> Name \cup {NoId}]
  /\ cut  \subseteq Id

Init ==
  /\ proc   = [p \in Pid |-> "free"]
  /\ parent = [p \in Pid |-> "init"]
  /\ owner  = [p \in Pid |-> NoId]
  /\ told   = {}
  /\ files  = <<>>
  /\ pc       = [f \in Fry |-> "off"]
  /\ cmd      = [f \in Fry |-> "none"]
  /\ todo     = [f \in Fry |-> {}]
  /\ sessions = [f \in Fry |-> <<>>]
  /\ at       = [f \in Fry |-> 0]
  /\ dest     = [f \in Fry |-> NoId]
  /\ cut      = {}

-----------------------------------------------------------------------------
(* Loading.                                                                *)

\* kill(pid, 0) = 0: a zombie counts, and so does whatever got the pid since.
Alive(p) == p \in Pid /\ proc[p] # "free"

\* Mutant: waitpid decides, and knows only the children of the command itself.
RestoredWaits(r) ==
  IF r.state = "RUNNING"
    THEN [id |-> r.id, state |-> "TERMINATED", pid |-> -1, freed |-> FALSE]
    ELSE [id |-> r.id, state |-> r.state, pid |-> r.pid, freed |-> FALSE]

\* app_session_restore: the record, checked against the process table.
Restored(r) ==
  IF r.state = "RUNNING" /\ ~Alive(r.pid)
    THEN [id |-> r.id, state |-> "TERMINATED", pid |-> -1, freed |-> FALSE]
    ELSE [id |-> r.id, state |-> r.state, pid |-> r.pid, freed |-> FALSE]

Appended(f, s) == [sessions EXCEPT ![f] = Append(@, s)]

\* app_session_manager_create opens the directory ...
Begin(f) ==
  /\ pc[f] = "off"
  /\ pc'   = [pc EXCEPT ![f] = "load"]
  /\ todo' = [todo EXCEPT ![f] = DOMAIN files]
  /\ UNCHANGED <<kernelVars, files, cmd, sessions, at, dest, cut>>

\* ... and restores its files in the order readdir gives them.  An empty file is
\* skipped.
Load(f) ==
  /\ pc[f] = "load"
  /\ \E n \in todo[f] :
       /\ todo' = [todo EXCEPT ![f] = @ \ {n}]
       /\ sessions' = IF files[n] = Torn THEN sessions
                      ELSE Appended(f, Restored(files[n]))
  /\ UNCHANGED <<kernelVars, files, pc, cmd, at, dest, cut>>

Loaded(f) ==
  /\ pc[f] = "load" /\ todo[f] = {}
  /\ pc' = [pc EXCEPT ![f] = "ready"]
  /\ UNCHANGED <<kernelVars, files, cmd, todo, sessions, at, dest, cut>>

-----------------------------------------------------------------------------
(* The commands.                                                           *)

Become(f, command, step, n) ==
  /\ cmd' = [cmd EXCEPT ![f] = command]
  /\ pc'  = [pc EXCEPT ![f] = step]
  /\ at'  = [at EXCEPT ![f] = n]

\* What app_session_find can find for one id or another: the first session that has
\* it.  A freed session has no readable id.
Found(f) ==
  {i \in 1..Len(sessions[f]) :
     /\ ~sessions[f][i].freed
     /\ \A j \in 1..(i - 1) :
          sessions[f][j].freed \/ sessions[f][j].id # sessions[f][i].id}

\* app_session_attach, and the app_session_destroy that every command ends with: it
\* frees the session and leaves it in the manager.
Freed(s) == [s EXCEPT !.freed = TRUE]
Attached(s) ==
  IF s.state = "RUNNING" /\ ~Alive(s.pid)
    THEN [s EXCEPT !.state = "TERMINATED", !.pid = -1] ELSE s

List(f) ==
  /\ pc[f] = "ready"
  /\ Become(f, "list", "destroy", 1)
  /\ UNCHANGED <<kernelVars, files, todo, sessions, dest, cut>>

\* An id that is not found ends a command early.
Unknown(f) ==
  /\ pc[f] = "ready"
  /\ \E command \in {"attach", "save", "restore"} : Become(f, command, "destroy", 1)
  /\ UNCHANGED <<kernelVars, files, todo, sessions, dest, cut>>

Attach(f) ==
  /\ pc[f] = "ready"
  /\ \E i \in Found(f) :
       sessions' = [sessions EXCEPT ![f][i] = Freed(Attached(@))]
  /\ Become(f, "attach", "destroy", 1)
  /\ UNCHANGED <<kernelVars, files, todo, dest, cut>>

\* The session is there twice: once more than the manager has loaded by itself.
Restore(f) ==
  /\ pc[f] = "ready"
  /\ \E n \in DOMAIN files :
       /\ files[n] # Torn
       /\ \E detached \in BOOLEAN :
            LET s == Restored(files[n])
            IN  sessions' = Appended(f, Freed(IF detached THEN s ELSE Attached(s)))
  /\ Become(f, "restore", "destroy", 1)
  /\ UNCHANGED <<kernelVars, files, todo, dest, cut>>

Save(f) ==
  /\ pc[f] = "ready"
  /\ \E i \in Found(f) :
       /\ Become(f, "save", "save", i)
       /\ \E name \in {sessions[f][i].id} \cup {<<n, "name">> : n \in SaveName} :
            dest' = [dest EXCEPT ![f] = name]
  /\ UNCHANGED <<kernelVars, files, todo, sessions, cut>>

NewId(f) == <<Len(sessions[f]), f>>

\* Mutant: the session is described before the fork, and saved as it was then.
StartSavesEarly(f) ==
  /\ pc[f] = "ready"
  /\ \E p \in Pid :
       /\ proc[p] = "free"
       /\ proc'   = [proc EXCEPT ![p] = "claude"]
       /\ parent' = [parent EXCEPT ![p] = f]
       /\ owner'  = [owner EXCEPT ![p] = NewId(f)]
       /\ told'   = told \ {p}
       /\ sessions' = Appended(f, [id |-> NewId(f), state |-> "CREATED", pid |-> -1,
                                   freed |-> FALSE])
  /\ Become(f, "start", "save", Len(sessions[f]) + 1)
  /\ dest' = [dest EXCEPT ![f] = NewId(f)]
  /\ UNCHANGED <<files, todo, cut>>

\* app_session_start: the session, the child, and then the file.
Start(f) ==
  /\ pc[f] = "ready"
  /\ \E p \in Pid :
       /\ proc[p] = "free"
       /\ proc'   = [proc EXCEPT ![p] = "claude"]
       /\ parent' = [parent EXCEPT ![p] = f]
       /\ owner'  = [owner EXCEPT ![p] = NewId(f)]
       /\ told'   = told \ {p}
       /\ sessions' = Appended(f, [id |-> NewId(f), state |-> "RUNNING", pid |-> p,
                                   freed |-> FALSE])
  /\ Become(f, "start", "save", Len(sessions[f]) + 1)
  /\ dest' = [dest EXCEPT ![f] = NewId(f)]
  /\ UNCHANGED <<files, todo, cut>>

\* fork fails: the session that was created is freed, and stays in the manager.
StartFails(f) ==
  /\ pc[f] = "ready"
  /\ sessions' = Appended(f, [id |-> NewId(f), state |-> "CREATED", pid |-> -1,
                              freed |-> TRUE])
  /\ Become(f, "start", "destroy", 1)
  /\ UNCHANGED <<kernelVars, files, todo, dest, cut>>

\* app_session_save: fopen empties the file, or fails ...
Open(f) ==
  /\ pc[f] = "save"
  /\ \/ /\ files' = [n \in DOMAIN files \cup {dest[f]} |->
                       IF n = dest[f] THEN Torn ELSE files[n]]
        /\ pc' = [pc EXCEPT ![f] = "write"]
        /\ UNCHANGED cut
     \/ /\ pc' = [pc EXCEPT ![f] = "saved"]
        /\ cut' = cut \cup {sessions[f][at[f]].id}
        /\ UNCHANGED files
  /\ UNCHANGED <<kernelVars, cmd, todo, sessions, at, dest>>

\* ... and fclose writes it.
Write(f) ==
  /\ pc[f] = "write"
  /\ LET s == sessions[f][at[f]]
     IN  files' = [files EXCEPT ![dest[f]] =
                     [id |-> s.id, state |-> s.state, pid |-> s.pid]]
  /\ pc' = [pc EXCEPT ![f] = "saved"]
  /\ UNCHANGED <<kernelVars, cmd, todo, sessions, at, dest, cut>>

\* A record is shorter than stdio's buffer: a write that fails writes nothing, and the
\* command goes on, since fclose's result is not looked at.
WriteFails(f) ==
  /\ pc[f] = "write"
  /\ pc' = [pc EXCEPT ![f] = "saved"]
  /\ cut' = cut \cup {sessions[f][at[f]].id}
  /\ UNCHANGED <<kernelVars, files, cmd, todo, sessions, at, dest>>

\* A start in the foreground attaches.
AfterSave(f) ==
  /\ pc[f] = "saved"
  /\ \E detached \in BOOLEAN :
       /\ cmd[f] = "save" => detached
       /\ sessions' = [sessions EXCEPT ![f][at[f]] =
                         Freed(IF detached THEN @ ELSE Attached(@))]
  /\ pc' = [pc EXCEPT ![f] = "destroy"]
  /\ at' = [at EXCEPT ![f] = 1]
  /\ UNCHANGED <<kernelVars, files, cmd, todo, dest, cut>>

-----------------------------------------------------------------------------
(* Stopping.                                                               *)

Ended(s) == [s EXCEPT !.state = "TERMINATED"]

\* app_session_stop.  A child of the command is waited for, with SIGKILL after two
\* seconds.  Anything else is sent SIGTERM and taken for dead: waitpid fails at
\* once.
Signal(f, s) ==
  IF s.state = "RUNNING" /\ Alive(s.pid)
    THEN /\ told' = told \cup {s.pid}
         /\ proc' = IF proc[s.pid] \in {"claude", "zombie"} /\ parent[s.pid] = f
                      THEN [proc EXCEPT ![s.pid] = "free"] ELSE proc
         /\ UNCHANGED <<parent, owner>>
    ELSE UNCHANGED kernelVars

BeginKill(f) ==
  /\ pc[f] = "ready"
  /\ \E n \in 1..MaxTargets : Become(f, "kill", "kill", n)
  /\ UNCHANGED <<kernelVars, files, todo, sessions, dest, cut>>

\* Mutant: one argument too many.
KillOneMore(f) ==
  /\ pc[f] = "kill" /\ at[f] >= 0
  /\ at' = [at EXCEPT ![f] = @ - 1]
  /\ UNCHANGED <<kernelVars, sessions, files, pc, cmd, todo, dest, cut>>

\* One argument of sessions kill.  The search reads the ids of sessions that earlier
\* arguments freed: it may crash there (Abort).
KillOne(f) ==
  /\ pc[f] = "kill" /\ at[f] > 0
  /\ \/ UNCHANGED <<kernelVars, sessions>>      \* not found
     \/ \E i \in Found(f) :
          /\ Signal(f, sessions[f][i])
          /\ sessions' = [sessions EXCEPT ![f][i] = Freed(Ended(@))]
  /\ at' = [at EXCEPT ![f] = @ - 1]
  /\ UNCHANGED <<files, pc, cmd, todo, dest, cut>>

Killed(f) ==
  /\ pc[f] = "kill" /\ at[f] = 0
  /\ pc' = [pc EXCEPT ![f] = "destroy"]
  /\ at' = [at EXCEPT ![f] = 1]
  /\ UNCHANGED <<kernelVars, files, cmd, todo, sessions, dest, cut>>

Without(s, i) == SubSeq(s, 1, i - 1) \o SubSeq(s, i + 1, Len(s))

\* app_session_manager_destroy: the index advances while the session it destroyed
\* leaves the array.  The fields of a freed session are read again: the allocator
\* leaves its pid and state in place or another block has taken them.
DestroyOne(f) ==
  /\ pc[f] = "destroy" /\ at[f] <= Len(sessions[f])
  /\ LET s == sessions[f][at[f]]
     IN  \/ Signal(f, s)
         \/ s.freed /\ UNCHANGED kernelVars
  /\ sessions' = [sessions EXCEPT ![f] = Without(@, at[f])]
  /\ at' = [at EXCEPT ![f] = @ + 1]
  /\ UNCHANGED <<files, pc, cmd, todo, dest, cut>>

-----------------------------------------------------------------------------
(* Ends.                                                                   *)

\* What a process leaves behind: init adopts its children and waits for them.
Gone(f) ==
  /\ pc' = [pc EXCEPT ![f] = "done"]
  /\ proc'   = [p \in Pid |-> IF proc[p] = "zombie" /\ parent[p] = f
                                THEN "free" ELSE proc[p]]
  /\ parent' = [p \in Pid |-> IF parent[p] = f THEN "init" ELSE parent[p]]
  /\ sessions' = [sessions EXCEPT ![f] = <<>>]
  /\ todo' = [todo EXCEPT ![f] = {}]
  /\ UNCHANGED <<owner, told, files, cmd, at, dest>>

Exit(f) ==
  /\ pc[f] = "destroy" /\ at[f] > Len(sessions[f])
  /\ Gone(f) /\ UNCHANGED cut

\* A freed session makes free() abort, or the search for an id crash.
Abort(f) ==
  /\ pc[f] \in {"destroy", "kill"}
  /\ \E i \in 1..Len(sessions[f]) : sessions[f][i].freed
  /\ Gone(f) /\ UNCHANGED cut

\* The user interrupts the command.
Interrupt(f) ==
  /\ Interrupts
  /\ pc[f] \notin {"off", "done"}
  /\ Gone(f)
  /\ cut' = IF pc[f] \in {"save", "write"}
              THEN cut \cup {sessions[f][at[f]].id} ELSE cut

\* A claude ends by itself or for a signal.  It is reaped at once when init is its
\* parent.
ClaudeEnds(p) ==
  /\ proc[p] = "claude"
  /\ proc' = [proc EXCEPT ![p] = IF parent[p] = "init" THEN "free" ELSE "zombie"]
  /\ UNCHANGED <<parent, owner, told, files, commandVars, cut>>

\* The kernel gives the process id to another program of the user.
Reused(p) ==
  /\ proc[p] = "free" /\ owner[p] # NoId
  /\ proc'   = [proc EXCEPT ![p] = "other"]
  /\ parent' = [parent EXCEPT ![p] = "init"]
  /\ owner'  = [owner EXCEPT ![p] = NoId]
  /\ told'   = told \ {p}
  /\ UNCHANGED <<files, commandVars, cut>>

OtherEnds(p) ==
  /\ proc[p] = "other"
  /\ proc' = [proc EXCEPT ![p] = "free"]
  /\ UNCHANGED <<parent, owner, told, files, commandVars, cut>>

Step(f) ==
  \/ Begin(f) \/ Load(f) \/ Loaded(f)
  \/ List(f) \/ Unknown(f) \/ Attach(f) \/ Restore(f) \/ Save(f)
  \/ Start(f) \/ StartFails(f)
  \/ Open(f) \/ Write(f) \/ WriteFails(f) \/ AfterSave(f)
  \/ BeginKill(f) \/ KillOne(f) \/ Killed(f)
  \/ DestroyOne(f) \/ Abort(f) \/ Exit(f)

Next ==
  \/ \E f \in Fry : Step(f) \/ Interrupt(f)
  \/ \E p \in Pid : ClaudeEnds(p) \/ Reused(p) \/ OtherEnds(p)

Spec == Init /\ [][Next]_vars

-----------------------------------------------------------------------------
(* Properties.                                                             *)

Saving(id) ==
  \E f \in Fry : /\ pc[f] \in {"save", "write"}
                 /\ sessions[f][at[f]].id = id

\* "Auto-save session for persistence": a claude that runs can be found again.
\* However the commands overlap, some file names its session and its process,
\* unless the session is being saved or its saving was interrupted or failed; that
\* loses no other session.
Recorded ==
  \A p \in Pid : proc[p] = "claude" =>
    \/ \E n \in DOMAIN files :
         files[n] = [id |-> owner[p], state |-> "RUNNING", pid |-> p]
    \/ Saving(owner[p])
    \/ owner[p] \in cut

\* A session whose file says that it has ended has ended, though commands save what
\* they loaded some time ago and take for dead what they have sent SIGTERM to.
EndedHaveEnded ==
  \A n \in DOMAIN files : files[n].state = "TERMINATED" =>
    \A p \in Pid : proc[p] = "claude" => owner[p] # files[n].id

\* "Show running and saved sessions" (commands.c:35) of sessions list: it shows the
\* sessions and stops none.
ListStopsNothing ==
  [][\A f \in Fry : cmd[f] = "list" /\ DestroyOne(f) => told' = told]_vars
=============================================================================
