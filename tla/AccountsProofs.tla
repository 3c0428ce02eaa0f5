--------------------------- MODULE AccountsProofs ---------------------------
(***************************************************************************)
(* What is proved of the account commands, for any number of commands,     *)
(* accounts, keys and tokens: types, AccountsReadable and LoginKept.       *)
(***************************************************************************)
EXTENDS Accounts, TLAPS

\* The steps of a command that works on an account, and of one past reading the key.
Working == {"request", "save", "write", "store", "count", "forget", "unlink", "rename"}
Keyed(r) == r.step \notin {"off", "key", "done"}

\* A command in memory: it has a file open only while it writes it, and knows the
\* names and the key that its step uses.
RunOK(r) ==
  /\ r \in Run
  /\ r.open # NoName => r.step = "write"
  /\ r.step \in Working => r.name \in Name
  /\ r.step = "rename" => r.to \in Name
  /\ Keyed(r) => r.key \in Key

RunsOK == run \in [Fry -> Run] /\ \A f \in Fry : RunOK(run[f])

\* The invariant behind AccountsReadable: one command at most makes a key, while there
\* is none; everything else is under the key that was made.
OneKey ==
  ~raced =>
    /\ \A f, g \in Fry : MakingKey(f) /\ MakingKey(g) => f = g
    /\ \A f \in Fry : MakingKey(f) => key_file = NoKey
    /\ \A f \in Fry : Keyed(run[f]) /\ ~MakingKey(f) => run[f].key = key_file
    /\ \A n \in Name : file[n].is = "whole" => file[n].key = key_file

KeyInv == AccountsTypeOK /\ RunsOK /\ OneKey

LEMMA AbsentType == Absent \in File /\ Torn \in File
  BY DEF File

LEMMA WholeType ==
  ASSUME NEW k \in Key, NEW t \in Token
  PROVE  Whole(k, t) \in File
  BY DEF File

LEMMA IdleType ==
  RunOK(Idle) /\ RunOK([Idle EXCEPT !.step = "done"])
<1>1. 0 \in Token
  BY MaxTokensAssumption DEF Token
<1>2. Idle \in Run
  BY <1>1, AbsentType DEF Idle, Run, Steps, Commands
<1>3. [Idle EXCEPT !.step = "done"] \in Run
  BY <1>2 DEF Run, Steps
<1>4. QED
  BY <1>2, <1>3 DEF RunOK, Idle, Working, Keyed

\* A new installation satisfies it.
LEMMA KeyInit == Init => KeyInv
<1> SUFFICES ASSUME Init PROVE KeyInv
  OBVIOUS
<1>1. 0 \in Token
  BY MaxTokensAssumption DEF Token
<1>2. RunsOK
  BY IdleType DEF Init, RunsOK, RunOK
<1>3. AccountsTypeOK
  BY <1>1, <1>2, AbsentType DEF Init, AccountsTypeOK, RunsOK, Idle
<1>4. OneKey
  BY DEF Init, OneKey, Keyed, MakingKey, Idle, Absent
<1>5. QED
  BY <1>2, <1>3, <1>4 DEF KeyInv

-----------------------------------------------------------------------------
(* What a step makes of the commands.                                      *)

LEMMA StepNames ==
  {"key", "open key", "write key", "config", "ready", "request", "save", "write",
   "store", "count", "forget", "unlink", "rename", "open config", "write config",
   "done"} \subseteq Steps
  BY DEF Steps

LEMMA CommandNames ==
  {"login", "api key", "add", "logout", "rm", "use", "rename", "refresh", "expire",
   "config"} \subseteq Commands
  BY DEF Commands

LEMMA TokenType ==
  /\ 0 \in Token
  /\ issued \in Token /\ Issue => issued' \in Token
  /\ \A n \in Name : file \in [Name -> File] => file[n].refresh \in Token
<1>1. 0 \in Token
  BY MaxTokensAssumption DEF Token
<1>2. issued \in Token /\ Issue => issued' \in Token
  BY MaxTokensAssumption DEF Token, Issue
<1>3. \A n \in Name : file \in [Name -> File] => file[n].refresh \in Token
  BY <1>1 DEF File, Absent, Torn, Whole
<1>4. QED
  BY <1>1, <1>2, <1>3

LEMMA OutsideType ==
  ASSUME AccountsTypeOK
  PROVE  outside \subseteq Token
BY DEF AccountsTypeOK

\* Only f's command changes.
LEMMA OneStep ==
  ASSUME RunsOK, NEW f \in Fry, NEW r, RunOK(r), run' = [run EXCEPT ![f] = r]
  PROVE  RunsOK'
  BY DEF RunsOK, RunOK

LEMMA EndStep ==
  ASSUME RunsOK, NEW f \in Fry, End(f)
  PROVE  RunsOK'
  BY IdleType, OneStep DEF End

\* It goes on without closing a file or needing a name.
LEMMA GoStep ==
  ASSUME RunsOK, NEW f \in Fry, NEW s \in Steps, Go(f, s),
         run[f].step # "write",
         s \in Working => run[f].name \in Name,
         s # "rename",
         s = "key" \/ Keyed(run[f])
  PROVE  RunsOK'
<1> DEFINE r == [run[f] EXCEPT !.step = s]
<1>0. RunOK(run[f]) /\ run[f] \in Run
  BY DEF RunsOK, RunOK
<1>1. r \in Run
  BY <1>0 DEF Run
<1>2. /\ r.step = s /\ r.open = run[f].open /\ r.name = run[f].name
      /\ r.to = run[f].to /\ r.key = run[f].key
  BY <1>0 DEF Run
<1>3. RunOK(r)
  BY <1>0, <1>1, <1>2 DEF RunOK, Keyed
<1>4. run' = [run EXCEPT ![f] = r]
  BY DEF Go, RunsOK
<1>5. QED
  BY <1>3, <1>4, OneStep

\* Every step leaves the commands in order.
LEMMA RunsStep ==
  ASSUME AccountsTypeOK, RunsOK, NEW f \in Fry, Step(f) \/ Interrupt(f)
  PROVE  RunsOK'
<1>0. /\ RunOK(run[f]) /\ run[f] \in Run /\ run \in [Fry -> Run]
      /\ file \in [Name -> File] /\ issued \in Token /\ AccountsTypeOK
      /\ key_file \in Key \cup {NoKey} /\ config_file \in Name \cup {NoName}
  BY DEF AccountsTypeOK, RunsOK, RunOK
<1>1. CASE Interrupt(f) \/ Refused(f) \/ Export(f)
  BY <1>1, EndStep DEF Interrupt, Refused, Export, Fail
<1>2. CASE Begin(f)
  BY <1>2, GoStep, StepNames DEF Begin, At, Working
<1>3. CASE OpenKey(f) \/ WriteKey(f) \/ OpenConfig(f) \/ WriteConfig(f)
  BY <1>3, EndStep, GoStep, StepNames
  DEF OpenKey, WriteKey, OpenConfig, WriteConfig, At, Working, Keyed
<1>4. CASE Store(f)
  BY <1>0, <1>4, EndStep, GoStep, StepNames DEF Store, At, RunOK, Working, Keyed
<1>5. CASE Forget(f)
  BY <1>0, <1>5, GoStep, StepNames DEF Forget, At, RunOK, Working, Keyed
<1>6. CASE ReadKey(f)
  <2>1. ASSUME NEW k \in Key, NEW s \in {"open key", "config"}
        PROVE  RunOK([run[f] EXCEPT !.step = s, !.key = k])
    <3>1. [run[f] EXCEPT !.step = s, !.key = k] \in Run
      BY <1>0, StepNames DEF Run
    <3>2. QED
      BY <1>0, <1>6, <3>1 DEF RunOK, Run, ReadKey, At, Working
  <2>2. PICK k \in Key, s \in {"open key", "config"} :
          run' = [run EXCEPT ![f].step = s, ![f].key = k]
    BY <1>0, <1>6 DEF ReadKey, NewKeys
  <2>3. run' = [run EXCEPT ![f] = [run[f] EXCEPT !.step = s, !.key = k]]
    BY <2>2
  <2>4. QED
    BY <2>1, <2>3, OneStep
<1>7. CASE LoadConfig(f)
  <2> DEFINE r == [run[f] EXCEPT !.step = "ready", !.default = config_file]
  <2>1. r \in Run
    BY <1>0, StepNames DEF Run
  <2>2. RunOK(r)
    BY <1>0, <1>7, <2>1 DEF RunOK, Run, LoadConfig, At, Working, Keyed
  <2>3. run' = [run EXCEPT ![f] = r]
    BY <1>7 DEF LoadConfig
  <2>4. QED
    BY <2>2, <2>3, OneStep
<1>8. ASSUME At(f, "ready"), NEW c \in Commands, NEW s \in Steps,
             NEW n \in Name \cup {NoName}, NEW t \in Token,
             s \in Working => n \in Name, s # "rename", Become(f, c, s, n, t)
      PROVE  RunsOK'
  <2> DEFINE r == [run[f] EXCEPT !.cmd = c, !.step = s, !.name = n, !.token = t]
  <2>1. r \in Run
    BY <1>0 DEF Run
  <2>2. RunOK(r)
    BY <1>0, <1>8, <2>1 DEF RunOK, Run, At, Keyed
  <2>3. run' = [run EXCEPT ![f] = r]
    BY <1>8 DEF Become
  <2>4. QED
    BY <2>2, <2>3, OneStep
<1>9. CASE Login(f) \/ Add(f)
  <2>1. issued \in Token /\ outside \subseteq Token
    BY <1>0, OutsideType
  <2>2. CASE Login(f)
    <3>1. issued' \in Token
      BY <2>1, <2>2, TokenType DEF Login
    <3>2. QED
      BY <1>8, <2>2, <3>1, StepNames, CommandNames DEF Login
  <2>3. CASE Add(f)
    BY <1>8, <2>1, <2>3, StepNames, CommandNames DEF Add
  <2>4. QED
    BY <1>9, <2>2, <2>3
<1>10. CASE ApiKey(f) \/ Remove(f) \/ Reset(f) \/ Logout(f)
  BY <1>8, <1>10, TokenType, StepNames, CommandNames
  DEF ApiKey, Remove, Reset, SaveConfig, Logout, Working
<1>11. ASSUME NEW c \in Commands, NEW s \in {"request", "save"}, LoadToken(f, c, s)
       PROVE  RunsOK'
  <2>1. PICK n \in Name :
          run' = [run EXCEPT ![f].cmd = c, ![f].step = s, ![f].name = n,
                             ![f].token = file[n].refresh, ![f].seen = file[n]]
    BY <1>11 DEF LoadToken
  <2> DEFINE r == [run[f] EXCEPT !.cmd = c, !.step = s, !.name = n,
                     !.token = file[n].refresh, !.seen = file[n]]
  <2>2. file[n].refresh \in Token /\ file[n] \in File /\ s \in Steps
    BY <1>0, TokenType, StepNames
  <2>3. r \in Run
    BY <1>0, <2>2 DEF Run
  <2>4. r.step = s /\ r.open = run[f].open /\ r.name = n /\ r.key = run[f].key
    BY <1>0 DEF Run
  <2>5. run[f].open = NoName /\ run[f].key \in Key
    BY <1>0, <1>11 DEF LoadToken, At, RunOK, Keyed
  <2>6. RunOK(r)
    BY <2>3, <2>4, <2>5 DEF RunOK
  <2>7. run' = [run EXCEPT ![f] = r]
    BY <2>1
  <2> HIDE DEF r
  <2>8. QED
    BY <2>6, <2>7, OneStep
<1>12. ASSUME NEW c \in Commands, NEW n \in Name, At(f, "ready"), SetDefault(f, c, n)
       PROVE  RunsOK'
  <2> DEFINE r == [run[f] EXCEPT !.cmd = c, !.step = "open config", !.default = n]
  <2>1. r \in Run
    BY <1>0, StepNames DEF Run
  <2>2. RunOK(r)
    BY <1>0, <1>12, <2>1 DEF RunOK, Run, At, Working, Keyed
  <2>3. run' = [run EXCEPT ![f] = r]
    BY <1>12 DEF SetDefault
  <2>4. QED
    BY <2>2, <2>3, OneStep
<1>13. CASE Rename(f)
  <2>1. PICK old \in Name, new \in Name :
          run' = [run EXCEPT ![f].cmd = "rename", ![f].step = "rename",
                             ![f].name = old, ![f].to = new]
    BY <1>13 DEF Rename
  <2> DEFINE r == [run[f] EXCEPT !.cmd = "rename", !.step = "rename",
                     !.name = old, !.to = new]
  <2>2. r \in Run
    BY <1>0, StepNames, CommandNames DEF Run
  <2>3. RunOK(r)
    BY <1>0, <1>13, <2>2 DEF RunOK, Run, Rename, At, Keyed
  <2>4. QED
    BY <2>1, <2>3, OneStep
<1>14. CASE Request(f)
  <2>1. run[f].name \in Name /\ run[f].open = NoName /\ run[f].key \in Key
    BY <1>0, <1>14 DEF Request, At, RunOK, Working, Keyed
  <2>2. CASE Go(f, "save")
    BY <1>14, <2>1, <2>2, GoStep, StepNames DEF Request, At, Keyed
  <2>3. CASE Fail(f)
    BY <2>3, EndStep DEF Fail
  <2>4. CASE Rotate(f)
    <3> DEFINE r == [run[f] EXCEPT !.step = "save", !.token = issued']
    <3>1. r \in Run
      BY <1>0, <2>4, TokenType, StepNames DEF Run, Rotate
    <3>2. RunOK(r)
      BY <1>0, <2>1, <3>1 DEF RunOK, Run
    <3>3. run' = [run EXCEPT ![f] = r] \/ End(f)
      BY <2>4 DEF Rotate
    <3>4. QED
      BY <3>2, <3>3, OneStep, EndStep
  <2>5. QED
    BY <1>14, <2>2, <2>3, <2>4 DEF Request
<1>15. CASE OpenAccount(f)
  <2> DEFINE r == [run[f] EXCEPT !.step = "write", !.open = run[f].name]
  <2>1. r \in Run
    BY <1>0, StepNames DEF Run
  <2>2. RunOK(r)
    BY <1>0, <1>15, <2>1 DEF RunOK, Run, OpenAccount, At, Working, Keyed
  <2>3. run' = [run EXCEPT ![f] = r] \/ End(f)
    BY <1>15 DEF OpenAccount, Fail
  <2>4. QED
    BY <2>2, <2>3, OneStep, EndStep
<1>16. CASE WriteAccount(f)
  <2> DEFINE r == [run[f] EXCEPT !.step = "store", !.open = NoName]
  <2>1. r \in Run
    BY <1>0, StepNames DEF Run
  <2>2. RunOK(r)
    BY <1>0, <1>16, <2>1 DEF RunOK, Run, WriteAccount, At, Working, Keyed
  <2>3. run' = [run EXCEPT ![f] = r] \/ End(f)
    BY <1>16 DEF WriteAccount, Fail, AfterSave
  <2>4. QED
    BY <2>2, <2>3, OneStep, EndStep
<1>17. CASE Count(f)
  <2> DEFINE r == [run[f] EXCEPT !.step = "open config", !.default = run[f].name]
  <2>1. r \in Run
    BY <1>0, StepNames DEF Run
  <2>2. RunOK(r)
    BY <1>0, <1>17, <2>1 DEF RunOK, Run, Count, At, Working, Keyed
  <2>3. run' = [run EXCEPT ![f] = r] \/ End(f)
    BY <1>17 DEF Count
  <2>4. QED
    BY <2>2, <2>3, OneStep, EndStep
<1>18. ASSUME NEW old \in Name, NEW new \in Name \cup {NoName},
              NEW r, RunOK(r),
              run' = [g \in Fry |->
                IF g # f THEN [run[g] EXCEPT !.open = Moved(g, old, new)] ELSE r]
       PROVE  RunsOK'
  <2>1. ASSUME NEW g \in Fry
        PROVE  RunOK([run[g] EXCEPT !.open = Moved(g, old, new)])
    <3>0. RunOK(run[g]) /\ run[g] \in Run
      BY DEF RunsOK, RunOK
    <3>1. Moved(g, old, new) \in Name \cup {NoName}
      BY <3>0 DEF Moved, Run
    <3>2. Moved(g, old, new) # NoName => run[g].open # NoName
      BY NoNameAssumption DEF Moved
    <3>3. [run[g] EXCEPT !.open = Moved(g, old, new)] \in Run
      BY <3>0, <3>1 DEF Run
    <3>4. QED
      BY <3>0, <3>2, <3>3 DEF RunOK, Run, Keyed
  <2>2. \A g \in Fry : RunOK(run'[g])
    BY <1>18, <2>1
  <2>3. QED
    BY <1>18, <2>2 DEF RunsOK, RunOK
<1>19. CASE Unlink(f)
  <2> DEFINE r == IF run[f].default = run[f].name
                    THEN [run[f] EXCEPT !.step = "open config"]
                    ELSE [Idle EXCEPT !.step = "done"]
  <2>1. [run[f] EXCEPT !.step = "open config"] \in Run
    BY <1>0, StepNames DEF Run
  <2>2. RunOK([run[f] EXCEPT !.step = "open config"])
    BY <1>0, <1>19, <2>1 DEF RunOK, Run, Unlink, At, Working, Keyed
  <2>3. RunOK(r)
    BY <2>2, IdleType
  <2>4. run[f].name \in Name
    BY <1>0, <1>19 DEF Unlink, At, RunOK, Working
  <2>5. \/ End(f)
        \/ run' = [g \in Fry |->
              IF g # f THEN [run[g] EXCEPT !.open = Moved(g, run[f].name, NoName)]
              ELSE r]
    BY <1>19 DEF Unlink
  <2>6. CASE End(f)
    BY <2>6, EndStep
  <2>7. ASSUME run' = [g \in Fry |->
              IF g # f THEN [run[g] EXCEPT !.open = Moved(g, run[f].name, NoName)]
              ELSE r]
        PROVE  RunsOK'
    <3> HIDE DEF r
    <3>1. NoName \in Name \cup {NoName}
      OBVIOUS
    <3>2. QED
      BY <1>18, <2>3, <2>4, <2>7, <3>1
  <2>8. QED
    BY <2>5, <2>6, <2>7
<1>20. CASE RenameFile(f)
  <2> DEFINE r == IF run[f].default = run[f].name
                    THEN [run[f] EXCEPT !.step = "open config", !.default = run[f].to]
                    ELSE [Idle EXCEPT !.step = "done"]
  <2>1. [run[f] EXCEPT !.step = "open config", !.default = run[f].to] \in Run
    BY <1>0, StepNames DEF Run
  <2>2. RunOK([run[f] EXCEPT !.step = "open config", !.default = run[f].to])
    BY <1>0, <1>20, <2>1 DEF RunOK, Run, RenameFile, At, Working, Keyed
  <2>3. RunOK(r)
    BY <2>2, IdleType
  <2>4. run[f].name \in Name /\ run[f].to \in Name
    BY <1>0, <1>20 DEF RenameFile, At, RunOK, Working
  <2>5. \/ End(f)
        \/ run' = [g \in Fry |->
              IF g # f
                THEN [run[g] EXCEPT !.open = Moved(g, run[f].name, run[f].to)]
              ELSE r]
    BY <1>20 DEF RenameFile
  <2>6. QED
    BY <1>18, <2>3, <2>4, <2>5, EndStep
<1>21. CASE Refresh(f) \/ Expire(f) \/ Use(f) \/ ConfigSet(f)
  BY <1>11, <1>12, <1>21, CommandNames DEF Refresh, Expire, Use, ConfigSet
<1>22. QED
  BY <1>1, <1>2, <1>3, <1>4, <1>5, <1>6, <1>7, <1>9, <1>10, <1>13, <1>14, <1>15, <1>16,
     <1>17, <1>19, <1>20, <1>21 DEF Step

-----------------------------------------------------------------------------
(* Types.                                                                  *)

\* What the effects need of the command: its names, its key, its token.
LEMMA CommandType ==
  ASSUME AccountsTypeOK, RunsOK, NEW f \in Fry
  PROVE  /\ run[f].token \in Token
         /\ run[f].name \in Name \cup {NoName} /\ run[f].to \in Name \cup {NoName}
         /\ run[f].open \in Name \cup {NoName}
         /\ run[f].default \in Name \cup {NoName}
         /\ run[f].step \in Working => run[f].name \in Name
         /\ run[f].step = "rename" => run[f].to \in Name
         /\ Keyed(run[f]) => run[f].key \in Key
  BY DEF RunsOK, RunOK, Run

\* Choosing what to do touches no file; only a login concerns the server, and only an
\* export what is outside.
LEMMA Choice ==
  ASSUME NEW f \in Fry
  PROVE  /\ \/ Login(f) \/ Add(f) \/ ApiKey(f) \/ Logout(f) \/ Export(f) \/ Refresh(f)
            \/ Expire(f) \/ Remove(f) \/ Use(f) \/ ConfigSet(f) \/ Reset(f) \/ Rename(f)
            \/ Refused(f)
            => UNCHANGED <<key_file, file, config_file, keychain, raced, broken>>
         /\ \/ Add(f) \/ ApiKey(f) \/ Logout(f) \/ Refresh(f) \/ Expire(f) \/ Remove(f)
            \/ Use(f) \/ ConfigSet(f) \/ Reset(f) \/ Rename(f) \/ Refused(f)
            => UNCHANGED server
  BY DEF Login, Add, ApiKey, Logout, Export, Refresh, Expire, LoadToken, Remove, Use,
     ConfigSet, Reset, SaveConfig, Rename, Refused, files

LEMMA FileStep ==
  ASSUME AccountsTypeOK, RunsOK, NEW f \in Fry, Step(f) \/ Interrupt(f)
  PROVE  file' \in [Name -> File]
<1>0. file \in [Name -> File]
  BY DEF AccountsTypeOK
<1>1. CASE UNCHANGED file
  BY <1>0, <1>1
<1>2. CASE OpenAccount(f)
  BY <1>0, <1>2, AbsentType DEF OpenAccount
<1>3. CASE WriteAccount(f)
  <2>1. Whole(run[f].key, run[f].token) \in File
    BY <1>3, CommandType, WholeType DEF WriteAccount, At, Keyed
  <2>2. \/ UNCHANGED file
        \/ file' = [file EXCEPT ![run[f].open] = Torn]
        \/ file' = [m \in Name |-> IF m = run[f].open
                       THEN Whole(run[f].key, run[f].token) ELSE file[m]]
    BY <1>3 DEF WriteAccount
  <2>3. QED
    BY <1>0, <2>1, <2>2, AbsentType
<1>4. CASE Unlink(f)
  BY <1>0, <1>4, AbsentType DEF Unlink
<1>5. CASE RenameFile(f)
  <2>1. run[f].name \in Name
    BY <1>5, CommandType DEF RenameFile, At, Working
  <2>2. QED
    BY <1>0, <1>5, <2>1, AbsentType DEF RenameFile
<1>6. QED
  BY <1>1, <1>2, <1>3, <1>4, <1>5, Choice
  DEF Step, Begin, ReadKey, OpenKey, WriteKey, LoadConfig, Request, Store, Count,
      Forget, OpenConfig, WriteConfig, Interrupt, files

LEMMA KeychainStep ==
  ASSUME AccountsTypeOK, RunsOK, NEW f \in Fry, Step(f) \/ Interrupt(f)
  PROVE  keychain' \in [Name -> Token \cup {-1}]
<1>0. keychain \in [Name -> Token \cup {-1}]
  BY DEF AccountsTypeOK
<1>1. CASE UNCHANGED keychain
  BY <1>0, <1>1
<1>2. CASE Store(f) \/ Forget(f)
  BY <1>0, <1>2, CommandType DEF Store, Forget
<1>3. QED
  BY <1>1, <1>2, Choice
  DEF Step, Begin, ReadKey, OpenKey, WriteKey, LoadConfig, Request, OpenAccount,
      WriteAccount, Count, Unlink, RenameFile, OpenConfig, WriteConfig, Interrupt

\* The key file and the configuration.
LEMMA FilesStep ==
  ASSUME AccountsTypeOK, RunsOK, NEW f \in Fry, Step(f) \/ Interrupt(f)
  PROVE  key_file' \in Key \cup {NoKey} /\ config_file' \in Name \cup {NoName}
<1>0. key_file \in Key \cup {NoKey} /\ config_file \in Name \cup {NoName}
  BY DEF AccountsTypeOK
<1>1. CASE UNCHANGED <<key_file, config_file>>
  BY <1>0, <1>1
<1>2. CASE OpenKey(f)
  BY <1>0, <1>2 DEF OpenKey
<1>3. CASE WriteKey(f)
  BY <1>0, <1>3, CommandType DEF WriteKey, At, Keyed
<1>4. CASE OpenConfig(f) \/ WriteConfig(f)
  BY <1>0, <1>4, CommandType DEF OpenConfig, WriteConfig
<1>5. QED
  BY <1>1, <1>2, <1>3, <1>4, Choice
  DEF Step, Begin, ReadKey, LoadConfig, Request, OpenAccount, WriteAccount, Store,
      Count, Forget, Unlink, RenameFile, Interrupt, files

LEMMA ServerStep ==
  ASSUME AccountsTypeOK, RunsOK, NEW f \in Fry, Step(f) \/ Interrupt(f)
  PROVE  issued' \in Token /\ valid' \subseteq 1..issued' /\ outside' \subseteq Token \ {0}
<1>0. issued \in Token /\ valid \subseteq 1..issued /\ outside \subseteq Token \ {0}
  BY DEF AccountsTypeOK
<1>1. CASE UNCHANGED server
  BY <1>0, <1>1 DEF server
<1>2. ASSUME Issue
      PROVE  issued' \in Token \ {0} /\ valid \cup {issued'} \subseteq 1..issued'
  BY <1>0, <1>2, MaxTokensAssumption DEF Token, Issue
<1>3. CASE Login(f)
  BY <1>0, <1>2, <1>3 DEF Login
<1>e. CASE Export(f)
  <2>1. UNCHANGED <<issued, valid>>
    BY <1>e DEF Export
  <2>2. PICK n \in Name : outside' = outside \cup ({file[n].refresh} \ {0})
    BY <1>e DEF Export
  <2>3. file[n].refresh \in Token
    BY TokenType DEF AccountsTypeOK
  <2>4. QED
    BY <1>0, <2>1, <2>2, <2>3
<1>4. CASE Request(f)
  BY <1>0, <1>1, <1>2, <1>4 DEF Request, Rotate, server
<1>5. QED
  BY <1>1, <1>3, <1>e, <1>4, Choice
  DEF Step, Begin, ReadKey, OpenKey, WriteKey, LoadConfig, OpenAccount, WriteAccount,
      Store, Count, Forget, Unlink, RenameFile, OpenConfig, WriteConfig, Interrupt

LEMMA HistoryStep ==
  ASSUME AccountsTypeOK, RunsOK, NEW f \in Fry, Step(f) \/ Interrupt(f)
  PROVE  raced' \in BOOLEAN /\ broken' \subseteq Name
<1>0. raced \in BOOLEAN /\ broken \subseteq Name
  BY DEF AccountsTypeOK
<1>1. Loses(f) \subseteq Name
  BY CommandType DEF Loses, Working, At
<1>2. CASE UNCHANGED <<raced, broken>>
  BY <1>0, <1>2
<1>3. CASE ReadKey(f)
  BY <1>0, <1>3 DEF ReadKey
<1>4. CASE Interrupt(f)
  BY <1>0, <1>1, <1>4 DEF Interrupt, Fail
<1>5. CASE Request(f)
  <2>1. run[f].name \in Name
    BY <1>5, CommandType DEF Request, At, Working
  <2>2. QED
    BY <1>0, <1>1, <1>5, <2>1 DEF Request, Rotate, Fail
<1>6. CASE OpenAccount(f)
  <2>1. run[f].name \in Name
    BY <1>6, CommandType DEF OpenAccount, At, Working
  <2>2. QED
    BY <1>0, <1>1, <1>6, <2>1 DEF OpenAccount, Fail
<1>7. CASE WriteAccount(f)
  BY <1>0, <1>1, <1>7 DEF WriteAccount, Fail, Mixed
<1>8. CASE RenameFile(f)
  <2>1. run[f].to \in Name
    BY <1>8, CommandType DEF RenameFile, At
  <2>2. QED
    BY <1>0, <1>8, <2>1 DEF RenameFile
<1>9. QED
  BY <1>2, <1>3, <1>4, <1>5, <1>6, <1>7, <1>8, Choice
  DEF Step, Begin, OpenKey, WriteKey, LoadConfig, Store, Count, Forget, Unlink,
      OpenConfig, WriteConfig

LEMMA TypeStep ==
  ASSUME AccountsTypeOK, RunsOK, NEW f \in Fry, Step(f) \/ Interrupt(f)
  PROVE  AccountsTypeOK' /\ RunsOK'
<1>1. RunsOK'
  BY RunsStep
<1>2. run' \in [Fry -> Run] /\ \A g \in Fry : run[g]'.open # NoName => run[g]'.step = "write"
  BY <1>1 DEF RunsOK, RunOK
<1>3. QED
  BY <1>1, <1>2, FileStep, KeychainStep, FilesStep, ServerStep, HistoryStep
  DEF AccountsTypeOK

-----------------------------------------------------------------------------
(* One key.                                                                *)

\* A step that makes no key: it takes no key, and leaves the others theirs.
KeyKept(f) ==
  /\ UNCHANGED <<key_file, raced>>
  /\ \A g \in Fry \ {f} : run'[g].step = run[g].step /\ run'[g].key = run[g].key
  /\ run'[f].step \notin {"open key", "write key"}
  /\ Keyed(run'[f]) => Keyed(run[f]) /\ ~MakingKey(f) /\ run'[f].key = run[f].key

LEMMA KeyKeptStep ==
  ASSUME AccountsTypeOK, RunsOK, NEW f \in Fry, Step(f) \/ Interrupt(f),
         ~ReadKey(f), ~OpenKey(f), ~WriteKey(f)
  PROVE  KeyKept(f)
<1>0. run \in [Fry -> Run] /\ run[f] \in Run
  BY DEF AccountsTypeOK
<1>1. ASSUME End(f), UNCHANGED <<key_file, raced>> PROVE KeyKept(f)
  BY <1>0, <1>1 DEF End, KeyKept, Idle, Keyed
<1>2. ASSUME NEW s, Go(f, s), UNCHANGED <<key_file, raced>>,
             s \notin {"open key", "write key"},
             s = "key" \/ (Keyed(run[f]) /\ ~MakingKey(f))
      PROVE  KeyKept(f)
  BY <1>0, <1>2 DEF Go, KeyKept, Keyed, Run
<1>3. CASE Interrupt(f) \/ Refused(f) \/ Export(f)
  BY <1>1, <1>3 DEF Interrupt, Refused, Export, Fail, files
<1>4. CASE Begin(f) \/ Store(f) \/ Forget(f) \/ OpenConfig(f) \/ WriteConfig(f)
  BY <1>1, <1>2, <1>4
  DEF Begin, Store, Forget, OpenConfig, WriteConfig, At, Keyed, MakingKey, files
<1>5. ASSUME NEW r, run' = [run EXCEPT ![f] = r], UNCHANGED <<key_file, raced>>,
             r.step \notin {"open key", "write key"}, r.key = run[f].key,
             Keyed(run[f]), ~MakingKey(f)
      PROVE  KeyKept(f)
  BY <1>0, <1>5 DEF KeyKept
<1>a. CASE LoadConfig(f)
  <2> DEFINE r == [run[f] EXCEPT !.step = "ready", !.default = config_file]
  <2>1. r.step = "ready" /\ r.key = run[f].key
    BY <1>0 DEF Run
  <2>2. run' = [run EXCEPT ![f] = r]
    BY <1>a DEF LoadConfig
  <2> HIDE DEF r
  <2>3. QED
    BY <1>5, <1>a, <2>1, <2>2 DEF LoadConfig, At, Keyed, MakingKey, files
<1>b. ASSUME At(f, "ready"), UNCHANGED <<key_file, raced>>, NEW c \in Commands,
             NEW n \in Name, SetDefault(f, c, n)
      PROVE  KeyKept(f)
  <2> DEFINE r == [run[f] EXCEPT !.cmd = c, !.step = "open config", !.default = n]
  <2>1. r.step = "open config" /\ r.key = run[f].key
    BY <1>0 DEF Run
  <2>2. run' = [run EXCEPT ![f] = r]
    BY <1>b DEF SetDefault
  <2> HIDE DEF r
  <2>3. QED
    BY <1>5, <1>b, <2>1, <2>2 DEF At, Keyed, MakingKey
<1>u. CASE Use(f) \/ ConfigSet(f)
  BY <1>b, <1>u, CommandNames DEF Use, ConfigSet, files
<1>c. CASE Rename(f)
  <2>1. PICK old \in Name, new \in Name :
          run' = [run EXCEPT ![f].cmd = "rename", ![f].step = "rename",
                             ![f].name = old, ![f].to = new]
    BY <1>c DEF Rename
  <2> DEFINE r == [run[f] EXCEPT !.cmd = "rename", !.step = "rename",
                     !.name = old, !.to = new]
  <2>2. r.step = "rename" /\ r.key = run[f].key
    BY <1>0 DEF Run
  <2>3. run' = [run EXCEPT ![f] = r]
    BY <2>1
  <2> HIDE DEF r
  <2>4. QED
    BY <1>5, <1>c, <2>2, <2>3 DEF Rename, At, Keyed, MakingKey, files
<1>d. ASSUME At(f, "ready"), UNCHANGED <<key_file, raced>>, NEW c \in Commands,
             NEW s \in Steps, NEW n \in Name \cup {NoName}, NEW t \in Token,
             s \notin {"open key", "write key"}, Become(f, c, s, n, t)
      PROVE  KeyKept(f)
  <2> DEFINE r == [run[f] EXCEPT !.cmd = c, !.step = s, !.name = n, !.token = t]
  <2>1. r.step = s /\ r.key = run[f].key
    BY <1>0 DEF Run
  <2>2. run' = [run EXCEPT ![f] = r]
    BY <1>d DEF Become
  <2> HIDE DEF r
  <2>3. QED
    BY <1>5, <1>d, <2>1, <2>2 DEF At, Keyed, MakingKey
<1>6. CASE Login(f) \/ Add(f) \/ ApiKey(f) \/ Remove(f) \/ Reset(f) \/ Logout(f)
  <2>1. issued \in Token /\ outside \subseteq Token
    BY OutsideType DEF AccountsTypeOK
  <2>2. CASE Login(f)
    <3>1. issued' \in Token
      BY <2>1, <2>2, TokenType DEF Login
    <3>2. QED
      BY <1>d, <2>2, <3>1, StepNames, CommandNames DEF Login, files
  <2>a. CASE Add(f)
    BY <1>d, <2>1, <2>a, StepNames, CommandNames DEF Add, files
  <2>3. CASE ApiKey(f) \/ Remove(f) \/ Reset(f) \/ Logout(f)
    BY <1>d, <2>3, TokenType, StepNames, CommandNames
    DEF ApiKey, Remove, Reset, SaveConfig, Logout, files
  <2>4. QED
    BY <1>6, <2>2, <2>a, <2>3
<1>e. CASE OpenAccount(f)
  <2> DEFINE r == [run[f] EXCEPT !.step = "write", !.open = run[f].name]
  <2>1. r.step = "write" /\ r.key = run[f].key
    BY <1>0 DEF Run
  <2>2. run' = [run EXCEPT ![f] = r] \/ End(f)
    BY <1>e DEF OpenAccount, Fail
  <2> HIDE DEF r
  <2>3. QED
    BY <1>1, <1>5, <1>e, <2>1, <2>2 DEF OpenAccount, At, Keyed, MakingKey
<1>f. CASE WriteAccount(f)
  <2> DEFINE r == [run[f] EXCEPT !.step = "store", !.open = NoName]
  <2>1. r.step = "store" /\ r.key = run[f].key
    BY <1>0 DEF Run
  <2>2. run' = [run EXCEPT ![f] = r] \/ End(f)
    BY <1>f DEF WriteAccount, Fail, AfterSave
  <2> HIDE DEF r
  <2>3. QED
    BY <1>1, <1>5, <1>f, <2>1, <2>2 DEF WriteAccount, At, Keyed, MakingKey
<1>g. CASE Count(f)
  <2> DEFINE r == [run[f] EXCEPT !.step = "open config", !.default = run[f].name]
  <2>1. r.step = "open config" /\ r.key = run[f].key
    BY <1>0 DEF Run
  <2>2. run' = [run EXCEPT ![f] = r] \/ End(f)
    BY <1>g DEF Count
  <2> HIDE DEF r
  <2>3. QED
    BY <1>1, <1>5, <1>g, <2>1, <2>2 DEF Count, At, Keyed, MakingKey, files
<1>7. ASSUME NEW c, NEW s \in {"request", "save"}, LoadToken(f, c, s)
      PROVE  KeyKept(f)
  <2>1. PICK n \in Name :
          run' = [run EXCEPT ![f].cmd = c, ![f].step = s, ![f].name = n,
                             ![f].token = file[n].refresh, ![f].seen = file[n]]
    BY <1>7 DEF LoadToken
  <2> DEFINE r == [run[f] EXCEPT !.cmd = c, !.step = s, !.name = n,
                     !.token = file[n].refresh, !.seen = file[n]]
  <2>2. r.step = s /\ r.key = run[f].key
    BY <1>0 DEF Run
  <2>3. run' = [run EXCEPT ![f] = r]
    BY <2>1
  <2> HIDE DEF r
  <2>4. QED
    BY <1>5, <1>7, <2>2, <2>3 DEF LoadToken, At, Keyed, MakingKey, files
<1>t. CASE Refresh(f) \/ Expire(f)
  BY <1>7, <1>t DEF Refresh, Expire
<1>8. CASE Request(f)
  <2>1. CASE Rotate(f)
    <3> DEFINE r == [run[f] EXCEPT !.step = "save", !.token = issued']
    <3>1. r.step = "save" /\ r.key = run[f].key
      BY <1>0 DEF Run
    <3>2. run' = [run EXCEPT ![f] = r] \/ End(f)
      BY <2>1 DEF Rotate
    <3>3. Keyed(run[f]) /\ ~MakingKey(f) /\ UNCHANGED <<key_file, raced>>
      BY <1>8 DEF Request, At, Keyed, MakingKey, files
    <3> HIDE DEF r
    <3>4. QED
      BY <1>1, <1>5, <3>1, <3>2, <3>3 DEF Keyed
  <2>2. CASE Go(f, "save") \/ Fail(f)
    BY <1>1, <1>2, <1>8, <2>2 DEF Request, Fail, At, Keyed, MakingKey, files
  <2>3. QED
    BY <1>8, <2>1, <2>2 DEF Request
<1>10. ASSUME NEW old \in Name, NEW new \in Name \cup {NoName}, NEW r \in Run,
              UNCHANGED <<key_file, raced>>,
              Keyed(run[f]), ~MakingKey(f),
              r.step \notin {"open key", "write key"},
              Keyed(r) => r.key = run[f].key,
              run' = [g \in Fry |->
                IF g # f THEN [run[g] EXCEPT !.open = Moved(g, old, new)] ELSE r]
       PROVE  KeyKept(f)
  <2>1. run'[f] = r
    BY <1>10
  <2>2. \A g \in Fry \ {f} : /\ run'[g].step = run[g].step
                             /\ run'[g].key = run[g].key
    BY <1>0, <1>10 DEF Run
  <2>3. QED
    BY <1>10, <2>1, <2>2 DEF KeyKept
<1>11. CASE Unlink(f)
  <2> DEFINE r == IF run[f].default = run[f].name
                    THEN [run[f] EXCEPT !.step = "open config"]
                    ELSE [Idle EXCEPT !.step = "done"]
  <2>1. /\ r.step \notin {"open key", "write key"}
        /\ Keyed(r) => r.key = run[f].key
    BY <1>0 DEF Run, Idle, Keyed
  <2>r. r \in Run
    <3>1. [run[f] EXCEPT !.step = "open config"] \in Run
      BY <1>0, StepNames DEF Run
    <3>2. QED
      BY <3>1, IdleType DEF RunOK
  <2>2. Keyed(run[f]) /\ ~MakingKey(f) /\ UNCHANGED <<key_file, raced>>
    BY <1>11 DEF Unlink, At, Keyed, MakingKey
  <2>3. \/ End(f)
        \/ run' = [g \in Fry |->
              IF g # f THEN [run[g] EXCEPT !.open = Moved(g, run[f].name, NoName)]
              ELSE r]
    BY <1>11 DEF Unlink
  <2>4. ASSUME run' = [g \in Fry |->
                 IF g # f THEN [run[g] EXCEPT !.open = Moved(g, run[f].name, NoName)]
                 ELSE r]
        PROVE  KeyKept(f)
    <3> HIDE DEF r
    <3>1. run[f].name \in Name /\ NoName \in Name \cup {NoName}
      BY <1>11, CommandType DEF Unlink, At, Working
    <3>2. QED
      BY <1>10, <2>r, <2>1, <2>2, <2>4, <3>1
  <2>5. QED
    BY <1>1, <2>2, <2>3, <2>4
<1>12. CASE RenameFile(f)
  <2> DEFINE r == IF run[f].default = run[f].name
                    THEN [run[f] EXCEPT !.step = "open config", !.default = run[f].to]
                    ELSE [Idle EXCEPT !.step = "done"]
  <2>1. /\ r.step \notin {"open key", "write key"}
        /\ Keyed(r) => r.key = run[f].key
    BY <1>0 DEF Run, Idle, Keyed
  <2>r. r \in Run
    <3>1. [run[f] EXCEPT !.step = "open config", !.default = run[f].to] \in Run
      BY <1>0, StepNames DEF Run
    <3>2. QED
      BY <3>1, IdleType DEF RunOK
  <2>2. Keyed(run[f]) /\ ~MakingKey(f) /\ UNCHANGED <<key_file, raced>>
    BY <1>12 DEF RenameFile, At, Keyed, MakingKey
  <2>3. \/ End(f)
        \/ run' = [g \in Fry |->
              IF g # f
                THEN [run[g] EXCEPT !.open = Moved(g, run[f].name, run[f].to)]
              ELSE r]
    BY <1>12 DEF RenameFile
  <2>4. ASSUME run' = [g \in Fry |->
                 IF g # f
                   THEN [run[g] EXCEPT !.open = Moved(g, run[f].name, run[f].to)]
                 ELSE r]
        PROVE  KeyKept(f)
    <3> HIDE DEF r
    <3>1. run[f].name \in Name /\ run[f].to \in Name
      BY <1>12, CommandType DEF RenameFile, At, Working
    <3>2. QED
      BY ONLY <1>10, <2>r, <2>1, <2>2, <2>4, <3>1, ZenonT(40)
  <2>5. QED
    BY <1>1, <2>2, <2>3, <2>4
<1>13. QED
  BY <1>3, <1>4, <1>a, <1>u, <1>c, <1>6, <1>e, <1>f, <1>g, <1>t, <1>8, <1>11, <1>12
  DEF Step

\* A file that is whole is one that was, or one that f has written under its key.
LEMMA FileFrom ==
  ASSUME AccountsTypeOK, RunsOK, NEW f \in Fry, Step(f) \/ Interrupt(f),
         NEW n \in Name, file'[n].is = "whole"
  PROVE  \/ \E m \in Name : file[m].is = "whole" /\ file'[n].key = file[m].key
         \/ At(f, "write") /\ file'[n].key = run[f].key
<1>0. file \in [Name -> File]
  BY DEF AccountsTypeOK
<1>1. CASE UNCHANGED file
  BY <1>1
<1>2. CASE OpenAccount(f)
  BY <1>0, <1>2 DEF OpenAccount, Torn
<1>3. CASE WriteAccount(f)
  BY <1>0, <1>3 DEF WriteAccount, Torn, Whole
<1>4. CASE Unlink(f)
  <2>1. CASE file' = [file EXCEPT ![run[f].name] = Absent]
    BY <1>0, <2>1 DEF Absent
  <2>2. QED
    BY <1>1, <1>4, <2>1 DEF Unlink
<1>5. CASE RenameFile(f)
  <2>1. run[f].name \in Name /\ run[f].to \in Name
    BY <1>5, CommandType DEF RenameFile, At, Working
  <2>2. QED
    BY <1>0, <1>5, <2>1 DEF RenameFile, Absent
<1>6. QED
  BY <1>1, <1>2, <1>3, <1>4, <1>5, Choice
  DEF Step, Begin, ReadKey, OpenKey, WriteKey, LoadConfig, Request, Store, Count,
      Forget, OpenConfig, WriteConfig, Interrupt, files

LEMMA OneKeyStep ==
  ASSUME KeyInv, NEW f \in Fry, Step(f) \/ Interrupt(f)
  PROVE  OneKey'
<1> SUFFICES ASSUME ~raced'
             PROVE  /\ \A g, h \in Fry : MakingKey(g)' /\ MakingKey(h)' => g = h
                    /\ \A g \in Fry : MakingKey(g)' => key_file' = NoKey
                    /\ \A g \in Fry : Keyed(run'[g]) /\ ~MakingKey(g)' =>
                                       run'[g].key = key_file'
                    /\ \A n \in Name : file'[n].is = "whole" => file'[n].key = key_file'
  BY DEF OneKey, Keyed
<1>0. AccountsTypeOK /\ RunsOK /\ run \in [Fry -> Run] /\ raced \in BOOLEAN
  BY DEF KeyInv, AccountsTypeOK
<1>1. ~raced
  BY <1>0, Choice
  DEF Step, ReadKey, Begin, OpenKey, WriteKey, LoadConfig, Request, OpenAccount,
      WriteAccount, Store, Count, Forget, Unlink, RenameFile, OpenConfig, WriteConfig,
      Interrupt
<1>2. /\ \A g, h \in Fry : MakingKey(g) /\ MakingKey(h) => g = h
      /\ \A g \in Fry : MakingKey(g) => key_file = NoKey
      /\ \A g \in Fry : Keyed(run[g]) /\ ~MakingKey(g) => run[g].key = key_file
      /\ \A n \in Name : file[n].is = "whole" => file[n].key = key_file
  BY <1>1 DEF KeyInv, OneKey
<1>3. CASE ReadKey(f)
  <2>1. UNCHANGED <<key_file, file>>
    BY <1>3 DEF ReadKey, files
  <2>2. \A g \in Fry \ {f} : run'[g] = run[g]
    BY <1>0, <1>3 DEF ReadKey
  <2>3. CASE run' = [run EXCEPT ![f].step = "config", ![f].key = key_file]
    <3>1. run'[f].step = "config" /\ run'[f].key = key_file
      BY <1>0, <2>3 DEF Run
    <3>2. QED
      BY <1>2, <2>1, <2>2, <3>1 DEF MakingKey
  <2>4. CASE /\ key_file = NoKey
             /\ \E k \in NewKeys : run' = [run EXCEPT ![f].step = "open key", ![f].key = k]
             /\ raced' = (raced \/ \E g \in Fry : MakingKey(g))
    <3>1. run'[f].step = "open key"
      BY <1>0, <2>4, ZenonT(40) DEF Run
    <3>2. \A g \in Fry : ~MakingKey(g)
      BY <2>4
    <3>3. QED
      BY <1>2, <2>1, <2>2, <2>4, <3>1, <3>2 DEF MakingKey
  <2>5. QED
    BY <1>3, <2>3, <2>4 DEF ReadKey
<1>4. CASE OpenKey(f)
  <2>1. MakingKey(f) /\ UNCHANGED file
    BY <1>4 DEF OpenKey, At, MakingKey
  <2>2. key_file = NoKey /\ key_file' = NoKey
    BY <1>2, <1>4, <2>1 DEF OpenKey
  <2>3. \A g \in Fry \ {f} : run'[g] = run[g]
    BY <1>0, <1>4 DEF OpenKey, Go, End
  <2>4. run'[f].step \in {"write key", "done"}
    BY <1>0, <1>4, ZenonT(40) DEF OpenKey, Go, End, Idle, Run
  <2>5. QED
    BY <1>2, <2>1, <2>2, <2>3, <2>4 DEF MakingKey, Keyed
<1>5. CASE WriteKey(f)
  <2>1. MakingKey(f) /\ UNCHANGED file
    BY <1>5 DEF WriteKey, At, MakingKey
  <2>2. key_file = NoKey
    BY <1>2, <2>1
  <2>3. \A g \in Fry \ {f} : run'[g] = run[g]
    BY <1>0, <1>5 DEF WriteKey, Go, End
  <2>4. \/ run'[f].step = "config" /\ run'[f].key = key_file'
        \/ run'[f].step = "done" /\ key_file' = key_file
    <3>1. CASE key_file' = run[f].key /\ Go(f, "config")
      BY <1>0, <3>1 DEF Go, Run
    <3>2. CASE UNCHANGED key_file /\ End(f)
      BY <1>0, <3>2 DEF End, Idle
    <3>3. QED
      BY <1>5, <3>1, <3>2 DEF WriteKey
  <2>5. \A g \in Fry : Keyed(run[g]) => MakingKey(g)
    BY <1>0, <1>2, <2>2, NoKeyAssumption DEF RunsOK, RunOK
  <2>6. \A n \in Name : file[n].is # "whole"
    <3>1. \A n \in Name : file[n].is = "whole" => file[n].key \in Key
      BY <1>0 DEF AccountsTypeOK, File, Absent, Torn, Whole
    <3>2. QED
      BY <1>2, <2>2, <3>1, NoKeyAssumption
  <2>7. QED
    BY <1>2, <2>1, <2>3, <2>4, <2>5, <2>6 DEF MakingKey, Keyed
<1>6. CASE ~ReadKey(f) /\ ~OpenKey(f) /\ ~WriteKey(f)
  <2>1. KeyKept(f)
    BY <1>0, <1>6, KeyKeptStep
  <2>2. \A g \in Fry : MakingKey(g)' => g # f /\ MakingKey(g)
    BY <2>1 DEF KeyKept, MakingKey
  <2>3. \A g \in Fry : Keyed(run'[g]) /\ ~MakingKey(g)' => run'[g].key = key_file
    BY <1>2, <2>1 DEF KeyKept, MakingKey, Keyed
  <2>4. At(f, "write") => run[f].key = key_file
    BY <1>2 DEF At, Keyed, MakingKey
  <2>5. \A n \in Name : file'[n].is = "whole" => file'[n].key = key_file
    BY <1>0, <1>2, <2>4, FileFrom
  <2>6. QED
    BY <1>2, <2>1, <2>2, <2>3, <2>5 DEF KeyKept
<1>7. QED
  BY <1>3, <1>4, <1>5, <1>6

-----------------------------------------------------------------------------
(* The theorems.                                                           *)

LEMMA KeyStep == KeyInv /\ [Next]_vars => KeyInv'
<1> SUFFICES ASSUME KeyInv, [Next]_vars PROVE KeyInv'
  OBVIOUS
<1>1. CASE UNCHANGED vars
  BY <1>1 DEF KeyInv, AccountsTypeOK, RunsOK, RunOK, OneKey, MakingKey, vars, files,
     server
<1>2. ASSUME NEW f \in Fry, Step(f) \/ Interrupt(f) PROVE KeyInv'
  BY <1>2, TypeStep, OneKeyStep DEF KeyInv
<1>3. CASE Elsewhere
  <2>1. UNCHANGED <<key_file, file, config_file, keychain, run, raced, broken>>
    BY <1>3 DEF Elsewhere, files
  <2>2. issued' \in Token /\ valid' \subseteq 1..issued' /\ outside' \subseteq Token \ {0}
    BY <1>3, MaxTokensAssumption DEF Elsewhere, Issue, Token, KeyInv, AccountsTypeOK
  <2>3. AccountsTypeOK'
    BY <2>1, <2>2 DEF KeyInv, AccountsTypeOK
  <2>4. RunsOK' /\ OneKey'
    BY <2>1 DEF KeyInv, RunsOK, RunOK, OneKey, MakingKey
  <2>5. QED
    BY <2>3, <2>4 DEF KeyInv
<1>4. QED
  BY <1>1, <1>2, <1>3 DEF Next

LEMMA KeyInvariant == Spec => []KeyInv
  BY KeyInit, KeyStep, PTL DEF Spec

\* However many commands overlap, and wherever they are interrupted, what is in memory
\* and on disk has its type: no command writes to a file it has closed, or to an
\* account it does not know (app_oauth_account_save and its callers).
THEOREM AccountsTypes == Spec => []AccountsTypeOK
<1>1. KeyInv => AccountsTypeOK
  BY DEF KeyInv
<1>2. QED
  BY <1>1, KeyInvariant, PTL

\* For any number of commands, accounts and keys: every saved account is under the key
\* of the key file, unless two first commands made a key at once
\* (load_or_generate_key).
THEOREM AccountsCanBeRead == Spec => []AccountsReadable
<1>1. KeyInv => AccountsReadable
  BY DEF KeyInv, OneKey, AccountsReadable
<1>2. QED
  BY <1>1, KeyInvariant, PTL

-----------------------------------------------------------------------------
(* Logins: who holds the refresh tokens that the server takes, while       *)
(* commands load, rotate, write, move and remove them.                     *)

\* A command that has the tokens of an account and may still save one of them, and
\* those of them that are fry's alone: the one that it loaded, and the one it will save.
Hot(f)    == run[f].step \in {"request", "save", "write"}
Tokens(f) == {t \in {run[f].token, run[f].seen.refresh} : Own(t)}
New(f)    == Hot(f) /\ Own(run[f].token) /\ run[f].token # run[f].seen.refresh
Writes(f) == run[f].step = "write"

\* An account that is saved with a refresh token of fry's alone.
Saved(n) == file[n].is = "whole" /\ Own(file[n].refresh)

\* The server takes the token t of account n, or a command that has its successor has
\* still to open the file.
Rescued(n, t) ==
  \/ t \in valid
  \/ \E g \in Fry : /\ run[g].name = n /\ run[g].step = "save"
                    /\ Rotated(g) /\ run[g].seen.refresh = t

\* What a command loaded before it comes to a step.
LoadedOK(r) ==
  /\ r.step \in {"off", "key", "open key", "write key", "config", "ready"} =>
       r.cmd = "none" /\ r.seen = Absent /\ r.token = 0
  /\ r.step = "request" => r.cmd = "refresh" /\ r.token = r.seen.refresh
  /\ r.step \in {"request", "save", "write"} =>
       \/ r.cmd \in {"refresh", "expire"} /\ r.seen.is = "whole"
       \/ r.cmd \in {"login", "add", "api key"} /\ r.seen = Absent

AllLoaded == \A f \in Fry : LoadedOK(run[f])
AllIssued ==
  /\ \A n \in Name : file[n].refresh \in 0..issued
  /\ \A f \in Fry : run[f].token \in 0..issued /\ run[f].seen.refresh \in 0..issued
  /\ outside \subseteq 1..issued

\* An account that is not broken: a file cut short is being written; the token of a
\* whole one belongs to this account alone, and is not lost.
FileOK(n) ==
  /\ file[n].is = "torn" => \E f \in Fry : run[f].open = n
  /\ Saved(n) =>
       /\ \A f \in Fry : Hot(f) /\ file[n].refresh \in Tokens(f) => run[f].name = n
       /\ \A m \in Name : Saved(m) /\ file[m].refresh = file[n].refresh => m = n
       /\ Rescued(n, file[n].refresh)
FilesOK == \A n \in Name \ broken : FileOK(n)

\* A file that is being written has its account's name, or none, or the user broke it
\* by moving it.
OpensOK == \A f \in Fry : Writes(f) => run[f].open \in {run[f].name, NoName} \cup broken

\* A command that writes: its tokens are in no file, and only with commands that have
\* yet to find out that they come too late.
WriteOK(f) ==
  /\ \A m \in Name : Saved(m) => file[m].refresh \notin Tokens(f)
  /\ \A g \in Fry \ {f} : Hot(g) /\ Tokens(f) \cap Tokens(g) # {} =>
       run[g].name = run[f].name /\ ~Writes(g)
  /\ Own(run[f].token) => Rescued(run[f].name, run[f].token)
WritesOK == \A f \in Fry : Writes(f) /\ run[f].name \notin broken => WriteOK(f)

\* A new token is known to one command alone until it is written.
NewOK(f) ==
  /\ run[f].token \in valid
  /\ \A n \in Name : Saved(n) => file[n].refresh # run[f].token
  /\ \A g \in Fry \ {f} : Hot(g) => run[f].token \notin Tokens(g)
NewsOK == \A f \in Fry : New(f) => NewOK(f)

Claims == AllLoaded /\ AllIssued /\ FilesOK /\ OpensOK /\ WritesOK /\ NewsOK

LoginInv == KeyInv /\ Claims

-----------------------------------------------------------------------------

LEMMA LoginInit == Init => LoginInv
<1> SUFFICES ASSUME Init PROVE Claims
  BY KeyInit DEF LoginInv
<1>1. \A f \in Fry : /\ run[f] = Idle /\ ~Hot(f) /\ ~Writes(f)
  BY DEF Init, Hot, Writes, Idle
<1>2. \A n \in Name : file[n] = Absent /\ ~Saved(n)
  BY DEF Init, Saved, Absent, Own
<1>3. AllLoaded /\ AllIssued
  <2>1. issued = 0 /\ 0 \in 0..issued
    BY DEF Init
  <2>2. Idle.token = 0 /\ Idle.seen.refresh = 0 /\ Absent.refresh = 0
    BY DEF Idle, Absent
  <2>3. AllIssued
    BY <1>1, <1>2, <2>1, <2>2 DEF AllIssued, Init
  <2>4. LoadedOK(Idle)
    BY DEF LoadedOK, Idle
  <2>5. QED
    BY <1>1, <2>3, <2>4 DEF AllLoaded
<1>4. QED
  BY <1>1, <1>2, <1>3 DEF Claims, FilesOK, FileOK, OpensOK, WritesOK, NewsOK, New, Absent, Own

\* Another command goes on with what it had, but for the name of the file it writes.
Keeps(g) ==
  /\ run'[g].step = run[g].step /\ run'[g].cmd = run[g].cmd
  /\ run'[g].name = run[g].name /\ run'[g].token = run[g].token
  /\ run'[g].seen = run[g].seen

LEMMA KeepsSame ==
  ASSUME NEW g, Keeps(g)
  PROVE  /\ Hot(g)' = Hot(g) /\ Writes(g)' = Writes(g) /\ Rotated(g)' = Rotated(g)
         /\ UNCHANGED outside => Tokens(g)' = Tokens(g) /\ New(g)' = New(g)
BY DEF Keeps, Hot, Tokens, New, Writes, Rotated, Own

\* The token of an account stays rescued, unless the server takes it back or the one
\* command that has its successor stops.
LEMMA StaysRescued ==
  ASSUME NEW f \in Fry, \A g \in Fry \ {f} : Keeps(g), NEW n, NEW t, Rescued(n, t),
         t \in valid => t \in valid',
         run[f].step = "save" /\ Rotated(f) /\ run[f].seen.refresh = t
           => run[f].name # n
  PROVE  Rescued(n, t)'
<1>1. CASE t \in valid
  BY <1>1 DEF Rescued
<1>2. CASE t \notin valid
  <2>1. PICK g \in Fry : /\ run[g].name = n /\ run[g].step = "save"
                         /\ Rotated(g) /\ run[g].seen.refresh = t
    BY <1>2 DEF Rescued
  <2>2. Keeps(g) /\ Rotated(g)'
    BY <2>1, KeepsSame
  <2>3. QED
    BY <2>1, <2>2 DEF Rescued, Keeps
<1>3. QED
  BY <1>1, <1>2

\* A command that stops, or that has nothing to do with tokens before and after.  It
\* breaks the accounts whose tokens are lost with it.
Leaves(f) ==
  /\ \A g \in Fry \ {f} : run'[g] = run[g]
  /\ ~Hot(f)' /\ LoadedOK(run'[f])
  /\ run'[f].token \in 0..issued' /\ run'[f].seen.refresh \in 0..issued'
  /\ broken \subseteq broken'
  /\ Writes(f) /\ run[f].open # NoName => run[f].open \in broken'
  /\ run[f].step = "save" /\ Rotated(f) => run[f].name \in broken'
  /\ \A n \in Name : file'[n] = file[n] \/ (file'[n] = Torn /\ n \in broken')
  /\ issued \in Nat /\ issued' \in Nat /\ issued <= issued'
  /\ UNCHANGED outside
  /\ \A t \in valid \ valid' :
       Own(t) => Hot(f) /\ t \in Tokens(f) /\ run[f].name \in broken'

LEMMA LeaveKeeps ==
  ASSUME Claims, NEW f \in Fry, Leaves(f), RunOK(run[f]), NoName \notin Name
  PROVE  Claims'
<1> USE DEF Claims
<1>o. UNCHANGED outside
  BY DEF Leaves
<1> USE <1>o
<1>0. \A g \in Fry \ {f} : /\ run'[g] = run[g] /\ Keeps(g)
                           /\ Hot(g)' = Hot(g) /\ Tokens(g)' = Tokens(g)
                           /\ New(g)' = New(g) /\ Writes(g)' = Writes(g)
  BY KeepsSame DEF Leaves, Keeps
<1>1. ~Hot(f)' /\ ~Writes(f)' /\ ~New(f)'
  BY DEF Leaves, Hot, Writes, New, Own
<1>2. AllLoaded' /\ AllIssued'
  BY <1>0 DEF Leaves, AllLoaded, AllIssued, Torn
<1>3. \A n \in Name :
        /\ Saved(n)' => Saved(n) /\ file'[n] = file[n]
        /\ n \notin broken' => Saved(n)' = Saved(n) /\ file'[n] = file[n]
  BY DEF Leaves, Saved, Torn, Own
<1>4. \A n \in Name \ broken' : run[f].step = "save" /\ Rotated(f) => run[f].name # n
  BY DEF Leaves
<1>5. FilesOK'
  <2> SUFFICES ASSUME NEW n \in Name, n \notin broken' PROVE FileOK(n)'
    BY DEF FilesOK
  <2>1. FileOK(n)
    BY DEF FilesOK, Leaves
  <2>2. file[n].is = "torn" => \E g \in Fry : run'[g].open = n
    <3>1. run[f].open # n
      BY DEF Leaves, Writes, RunOK
    <3>2. QED
      BY <1>0, <2>1, <3>1 DEF FileOK
  <2>3. ASSUME Saved(n), NEW t, t = file[n].refresh PROVE Rescued(n, t)'
    <3>1. Rescued(n, t)
      BY <2>1, <2>3 DEF FileOK
    <3>2. t \in valid => t \in valid'
      BY <2>1, <2>3 DEF FileOK, Leaves, Saved
    <3>3. run[f].step = "save" /\ Rotated(f) /\ run[f].seen.refresh = t => run[f].name # n
      BY <1>4
    <3>4. QED
      BY <1>0, <3>1, <3>2, <3>3, StaysRescued
  <2>4. QED
    BY <1>0, <1>1, <1>3, <2>1, <2>2, <2>3 DEF FileOK, Rescued
<1>6. OpensOK'
  BY <1>0, <1>1 DEF OpensOK, Leaves
<1>7. WritesOK'
  <2> SUFFICES ASSUME NEW g \in Fry, Writes(g)', run'[g].name \notin broken'
               PROVE  WriteOK(g)'
    BY DEF WritesOK
  <2>1. g # f /\ Writes(g) /\ run'[g] = run[g] /\ Tokens(g)' = Tokens(g)
    BY <1>0, <1>1
  <2>2. WriteOK(g)
    BY <2>1 DEF WritesOK, Leaves
  <2>3. ASSUME Own(run[g].token), NEW n, n = run[g].name, NEW t, t = run[g].token
        PROVE  Rescued(n, t)'
    <3>1. Rescued(n, t)
      BY <2>2, <2>3 DEF WriteOK, Own
    <3>2. t \in valid => t \in valid'
      BY <2>1, <2>2, <2>3 DEF WriteOK, Leaves, Tokens, Own
    <3>3. run[f].step = "save" /\ Rotated(f) /\ run[f].seen.refresh = t => run[f].name # n
      BY <2>1, <2>3 DEF Leaves
    <3>4. QED
      BY <1>0, <3>1, <3>2, <3>3, StaysRescued
  <2>4. QED
    BY <1>0, <1>1, <1>3, <2>1, <2>2, <2>3 DEF WriteOK, Rescued, Own
<1>8. NewsOK'
  <2> SUFFICES ASSUME NEW g \in Fry, New(g)' PROVE NewOK(g)'
    BY DEF NewsOK
  <2>1. g # f /\ New(g) /\ run'[g] = run[g]
    BY <1>0, <1>1
  <2>2. NewOK(g)
    BY <2>1 DEF NewsOK
  <2>3. run[g].token \in valid'
    BY <2>1, <2>2 DEF NewOK, Leaves, New
  <2>4. QED
    BY <1>0, <1>1, <1>3, <2>1, <2>2, <2>3 DEF NewOK
<1>9. QED
  BY <1>2, <1>5, <1>6, <1>7, <1>8

\* A command that comes by tokens: those of a file, new ones, or a new one for its own.
Takes(f) ==
  /\ \A g \in Fry \ {f} : run'[g] = run[g]
  /\ run[f].step \notin {"save", "write"} /\ run'[f].step \in {"request", "save"}
  /\ LoadedOK(run'[f]) /\ run'[f].open = run[f].open
  /\ run'[f].token \in 0..issued' /\ run'[f].seen.refresh \in 0..issued'
  /\ broken' = broken /\ file' = file
  /\ issued \in Nat /\ issued' \in Nat /\ issued <= issued'
  /\ UNCHANGED outside
  /\ Hot(f) => run'[f].name = run[f].name
  /\ \A t \in Tokens(f)' :
       \/ Hot(f) /\ t \in Tokens(f)
       \/ /\ \A n \in Name \ broken : Saved(n) /\ file[n].refresh = t => run'[f].name = n
          /\ \A g \in Fry \ {f} : Writes(g) /\ run[g].name \notin broken => t \notin Tokens(g)
          /\ \A g \in Fry \ {f} : New(g) => t # run[g].token
  /\ New(f)' => NewOK(f)'
  /\ \A t \in valid \ valid' : Own(t) =>
       /\ Hot(f) /\ t \in Tokens(f)
       /\ run'[f].step = "save" /\ Rotated(f)' /\ run'[f].seen.refresh = t

LEMMA TakeKeeps ==
  ASSUME Claims, NEW f \in Fry, Takes(f)
  PROVE  Claims'
<1> USE DEF Claims
<1>o. UNCHANGED outside
  BY DEF Takes
<1> USE <1>o
<1>0. \A g \in Fry \ {f} : /\ run'[g] = run[g] /\ Keeps(g)
                           /\ Hot(g)' = Hot(g) /\ Tokens(g)' = Tokens(g)
                           /\ New(g)' = New(g) /\ Writes(g)' = Writes(g)
  BY KeepsSame DEF Takes, Keeps
<1>1. (~Writes(f) /\ ~Writes(f)' /\ ~New(f)) \/ Hot(f)
  BY DEF Takes, Hot, Writes, New, Own
<1>2. AllLoaded' /\ AllIssued'
  BY <1>0 DEF Takes, AllLoaded, AllIssued
<1>3. \A n \in Name : Saved(n)' = Saved(n) /\ file'[n] = file[n]
  BY DEF Takes, Saved, Own
<1>4. ~Writes(f)' /\ ~Writes(f) /\ run[f].step # "save"
  BY DEF Takes, Writes
<1>5. ASSUME NEW n, NEW t, Rescued(n, t), Own(t),
             Hot(f) /\ t \in Tokens(f) => run[f].name = n
      PROVE  Rescued(n, t)'
  <2>1. CASE t \in valid \ valid'
    BY <1>5, <2>1 DEF Takes, Rescued
  <2>2. CASE t \notin valid \ valid'
    <3>1. t \in valid => t \in valid'
      BY <2>2
    <3>2. QED
      BY <1>0, <1>4, <1>5, <3>1, StaysRescued
  <2>3. QED
    BY <2>1, <2>2
<1>6. FilesOK'
  <2> SUFFICES ASSUME NEW n \in Name, n \notin broken PROVE FileOK(n)'
    BY DEF FilesOK, Takes
  <2>1. FileOK(n)
    BY DEF FilesOK
  <2>2. file[n].is = "torn" => \E g \in Fry : run'[g].open = n
    BY <1>0, <2>1 DEF FileOK, Takes
  <2>3. ASSUME Saved(n), NEW t, t = file[n].refresh PROVE Rescued(n, t)'
    BY <1>5, <2>1, <2>3 DEF FileOK, Saved
  <2>4. Saved(n) /\ file[n].refresh \in Tokens(f)' => run'[f].name = n
    BY <2>1 DEF FileOK, Takes
  <2>5. QED
    BY <1>0, <1>3, <2>1, <2>2, <2>3, <2>4 DEF FileOK, Rescued
<1>7. OpensOK'
  BY <1>0, <1>4 DEF OpensOK, Takes
<1>8. WritesOK'
  <2> SUFFICES ASSUME NEW g \in Fry, Writes(g)', run'[g].name \notin broken
               PROVE  WriteOK(g)'
    BY DEF WritesOK, Takes
  <2>1. g # f /\ Writes(g) /\ run'[g] = run[g] /\ Tokens(g)' = Tokens(g)
    BY <1>0, <1>4
  <2>2. WriteOK(g)
    BY <2>1 DEF WritesOK
  <2>3. ASSUME Own(run[g].token), NEW n, n = run[g].name, NEW t, t = run[g].token
        PROVE  Rescued(n, t)'
    BY <1>5, <2>1, <2>2, <2>3 DEF WriteOK, Tokens, Own
  <2>4. Tokens(g) \cap Tokens(f)' # {} => run'[f].name = run[g].name
    BY <2>1, <2>2 DEF WriteOK, Takes, Own
  <2>5. QED
    BY <1>0, <1>3, <1>4, <2>1, <2>2, <2>3, <2>4 DEF WriteOK, Rescued, Own
<1>9. NewsOK'
  <2> SUFFICES ASSUME NEW g \in Fry, New(g)', g # f PROVE NewOK(g)'
    BY DEF NewsOK, Takes
  <2>1. New(g) /\ run'[g] = run[g]
    BY <1>0
  <2>2. NewOK(g)
    BY <2>1 DEF NewsOK
  <2>3. run[g].token \in valid'
    BY <2>1, <2>2 DEF NewOK, Takes, New
  <2>4. run[g].token \notin Tokens(f)'
    BY <2>1, <2>2 DEF NewOK, Takes
  <2>5. QED
    BY <1>0, <1>3, <2>1, <2>2, <2>3, <2>4 DEF NewOK
<1>10. QED
  BY <1>2, <1>6, <1>7, <1>8, <1>9

\* app_oauth_account_save empties the file.  A command that came too late breaks the
\* account, and one that did not has tokens that nobody else is writing.
Opens(f) ==
  /\ run[f].step = "save" /\ run[f].name \in Name
  /\ run' = [run EXCEPT ![f].step = "write", ![f].open = run[f].name]
  /\ file' = [file EXCEPT ![run[f].name] = Torn]
  /\ broken' = IF Stale(f) THEN broken \cup {run[f].name} ELSE broken
  /\ UNCHANGED <<valid, issued, outside>>

LEMMA OpenKeeps ==
  ASSUME AccountsTypeOK, Claims, NEW f \in Fry, Opens(f)
  PROVE  Claims'
<1> USE DEF Claims
<1>o. UNCHANGED outside
  BY DEF Opens
<1> USE <1>o
<1>0. run' \in [Fry -> Run] /\ file' \in [Name -> File]
  <2>1. run[f] \in Run /\ run \in [Fry -> Run] /\ file \in [Name -> File]
    BY DEF AccountsTypeOK
  <2>2. [run[f] EXCEPT !.step = "write", !.open = run[f].name] \in Run
    BY <2>1, StepNames DEF Run
  <2>3. QED
    BY <2>1, <2>2, AbsentType DEF Opens
<1>1. \A g \in Fry \ {f} : /\ run'[g] = run[g] /\ Keeps(g)
                           /\ Hot(g)' = Hot(g) /\ Tokens(g)' = Tokens(g)
                           /\ New(g)' = New(g) /\ Writes(g)' = Writes(g)
  BY KeepsSame DEF Opens, Keeps, AccountsTypeOK
<1>2. /\ run'[f].step = "write" /\ run'[f].open = run[f].name
      /\ run'[f].name = run[f].name /\ run'[f].cmd = run[f].cmd
      /\ run'[f].token = run[f].token /\ run'[f].seen = run[f].seen
  BY DEF Opens, AccountsTypeOK, Run
<1>3. /\ Hot(f) /\ Hot(f)' /\ ~Writes(f) /\ Writes(f)'
      /\ Tokens(f)' = Tokens(f) /\ New(f)' = New(f)
  BY <1>2 DEF Opens, Hot, Writes, Tokens, New, Own
<1>4. /\ file'[run[f].name] = Torn
      /\ \A n \in Name : n # run[f].name => file'[n] = file[n]
  BY DEF Opens, AccountsTypeOK
<1>5. \A n \in Name : Saved(n)' => n # run[f].name /\ Saved(n) /\ file'[n] = file[n]
  BY <1>4 DEF Saved, Torn, Own
<1>6. LoadedOK(run'[f])
  BY <1>2, <1>3 DEF AllLoaded, LoadedOK, Opens
<1>7. AllLoaded' /\ AllIssued'
  <2>1. Torn.refresh = 0 /\ issued \in Nat
    BY MaxTokensAssumption DEF Torn, AccountsTypeOK, Token
  <2>2. \A n \in Name : file'[n].refresh \in 0..issued
    BY <1>4, <2>1 DEF AllIssued, Token
  <2>3. \A g \in Fry : run'[g].token \in 0..issued /\ run'[g].seen.refresh \in 0..issued
    BY <1>1, <1>2 DEF AllIssued
  <2>4. QED
    BY <1>1, <1>6, <2>2, <2>3 DEF AllLoaded, AllIssued, Opens
<1>8. broken \subseteq broken'
  BY DEF Opens
\* Its tokens, unless it has come too late: a new one, and that of the file.
<1>9. ASSUME NEW t \in Tokens(f), run[f].name \notin broken'
      PROVE  \/ New(f) /\ t = run[f].token
             \/ Saved(run[f].name) /\ file[run[f].name].refresh = t
  <2>1. CASE run[f].cmd \in {"refresh", "expire"}
    <3>1. file[run[f].name] = run[f].seen
      BY <1>9, <2>1 DEF Opens, Stale
    <3>2. run[f].seen.is = "whole"
      BY <1>3, <2>1 DEF AllLoaded, LoadedOK, Hot
    <3>3. QED
      BY <1>3, <3>1, <3>2 DEF Saved, Tokens, New, Own
  <2>2. CASE run[f].cmd \notin {"refresh", "expire"}
    <3>1. run[f].seen = Absent /\ Absent.refresh = 0
      BY <1>3, <2>2 DEF AllLoaded, LoadedOK, Hot, Absent
    <3>2. QED
      BY <1>3, <3>1 DEF Tokens, New, Own
  <2>3. QED
    BY <2>1, <2>2
<1>10. ASSUME NEW g \in Fry \ {f}, Writes(g), run[g].name \notin broken'
       PROVE  Tokens(f) \cap Tokens(g) = {}
  <2>1. WriteOK(g) /\ Hot(g)
    BY <1>8, <1>10 DEF WritesOK, Writes, Hot
  <2> SUFFICES ASSUME NEW t \in Tokens(f), t \in Tokens(g) PROVE FALSE
    OBVIOUS
  <2>2. run[f].name = run[g].name
    BY <1>3, <2>1 DEF WriteOK, Own
  <2>3. CASE New(f) /\ t = run[f].token
    BY <2>1, <2>3 DEF NewsOK, NewOK
  <2>4. CASE Saved(run[f].name) /\ file[run[f].name].refresh = t
    BY <2>1, <2>4 DEF WriteOK, Opens, Own
  <2>5. QED
    BY <1>9, <1>10, <2>2, <2>3, <2>4
<1>11. ASSUME NEW n, NEW t, Rescued(n, t),
              Rotated(f) /\ run[f].seen.refresh = t => run[f].name # n
       PROVE  Rescued(n, t)'
  BY <1>1, <1>11, StaysRescued DEF Opens
<1>12. FilesOK'
  <2> SUFFICES ASSUME NEW n \in Name, n \notin broken' PROVE FileOK(n)'
    BY DEF FilesOK
  <2>1. FileOK(n)
    BY <1>8 DEF FilesOK
  <2>2. CASE n = run[f].name
    BY <1>2, <1>5, <2>2 DEF FileOK
  <2>3. CASE n # run[f].name
    <3>1. file'[n].is = "torn" => \E g \in Fry : run'[g].open = n
      <4>1. run[f].open = n => run[f].step = "write"
        BY NoNameAssumption DEF AccountsTypeOK, Opens
      <4>2. QED
        BY <1>1, <1>4, <2>1, <2>3, <4>1 DEF FileOK, Opens
    <3>2. ASSUME Saved(n), NEW t, t = file[n].refresh PROVE Rescued(n, t)'
      BY <1>11, <2>1, <2>3, <3>2 DEF FileOK
    <3>3. QED
      BY <1>1, <1>2, <1>3, <1>5, <2>1, <2>3, <3>1, <3>2 DEF FileOK, Rescued
  <2>4. QED
    BY <2>2, <2>3
<1>13. OpensOK'
  BY <1>1, <1>2, <1>8 DEF OpensOK
<1>14. WritesOK'
  <2> SUFFICES ASSUME NEW g \in Fry, Writes(g)', run'[g].name \notin broken'
               PROVE  WriteOK(g)'
    BY DEF WritesOK
  <2>1. CASE g # f
    <3>1. Writes(g) /\ run'[g] = run[g] /\ Tokens(g)' = Tokens(g)
      BY <1>1, <2>1
    <3>2. WriteOK(g) /\ Tokens(f) \cap Tokens(g) = {}
      BY <1>8, <1>10, <2>1, <3>1 DEF WritesOK
    <3>3. ASSUME Own(run[g].token), NEW n, n = run[g].name, NEW t, t = run[g].token
          PROVE  Rescued(n, t)'
      <4>1. t \in Tokens(g) /\ (run[f].seen.refresh = t => t \in Tokens(f))
        BY <3>3 DEF Tokens, Own
      <4>2. QED
        BY <1>11, <3>2, <3>3, <4>1 DEF WriteOK, Own
    <3>4. QED
      BY <1>1, <1>3, <1>5, <3>1, <3>2, <3>3 DEF WriteOK, Rescued, Own
  <2>2. CASE g = f
    <3>1. FileOK(run[f].name)
      BY <1>2, <1>8, <2>2 DEF FilesOK, Opens
    <3>2. \A m \in Name : Saved(m)' => file'[m].refresh \notin Tokens(f)
      BY <1>2, <1>5, <1>9, <2>2, <3>1 DEF FileOK, NewsOK, NewOK
    <3>3. ASSUME NEW h \in Fry \ {f}, Hot(h), NEW t \in Tokens(f), t \in Tokens(h)
          PROVE  run[h].name = run[f].name /\ ~Writes(h)
      <4>1. run[h].name = run[f].name
        BY <1>2, <1>9, <2>2, <3>1, <3>3 DEF FileOK, NewsOK, NewOK
      <4>2. QED
        BY <1>2, <1>10, <2>2, <3>3, <4>1
    <3>4. ASSUME Own(run[f].token), NEW n, n = run[f].name, NEW t, t = run[f].token
          PROVE  Rescued(n, t)'
      <4>1. CASE New(f)
        BY <3>4, <4>1 DEF NewsOK, NewOK, Opens, Rescued
      <4>2. CASE ~New(f)
        <5>1. ~Rotated(f) /\ t \in Tokens(f)
          BY <1>3, <3>4, <4>2 DEF New, Rotated, Tokens, Own
        <5>2. Saved(n) /\ file[n].refresh = t
          BY <1>2, <1>9, <2>2, <3>4, <4>2, <5>1
        <5>3. Rescued(n, t)
          BY <3>1, <3>4, <5>2 DEF FileOK
        <5>4. QED
          BY <1>11, <5>1, <5>3
      <4>3. QED
        BY <4>1, <4>2
    <3>5. QED
      BY <1>1, <1>2, <1>3, <2>2, <3>2, <3>3, <3>4 DEF WriteOK, Rescued, Own
  <2>3. QED
    BY <2>1, <2>2
<1>15. NewsOK'
  <2> SUFFICES ASSUME NEW g \in Fry, New(g)' PROVE NewOK(g)'
    BY DEF NewsOK
  <2>1. New(g) /\ run'[g].token = run[g].token
    BY <1>1, <1>2, <1>3
  <2>2. NewOK(g)
    BY <2>1 DEF NewsOK
  <2>3. run[g].token \in valid'
    BY <2>2 DEF NewOK, Opens
  <2>4. QED
    BY <1>1, <1>3, <1>5, <2>1, <2>2, <2>3 DEF NewOK
<1>16. QED
  BY <1>7, <1>12, <1>13, <1>14, <1>15

\* ... and writes it, whatever it is called now.
Puts(f) ==
  /\ Writes(f) /\ ~Hot(f)' /\ run'[f].open = NoName
  /\ \A g \in Fry \ {f} : run'[g] = run[g]
  /\ LoadedOK(run'[f])
  /\ run'[f].token \in 0..issued /\ run'[f].seen.refresh \in 0..issued
  /\ file' = [m \in Name |-> IF m = run[f].open THEN Whole(run[f].key, run[f].token)
                             ELSE file[m]]
  /\ UNCHANGED <<valid, issued, outside, broken>>

LEMMA PutKeeps ==
  ASSUME Claims, NoName \notin Name, NEW f \in Fry, Puts(f)
  PROVE  Claims'
<1> USE DEF Claims
<1>o. UNCHANGED outside
  BY DEF Puts
<1> USE <1>o
<1> DEFINE t == run[f].token
<1>0. \A g \in Fry \ {f} : /\ run'[g] = run[g] /\ Keeps(g)
                           /\ Hot(g)' = Hot(g) /\ Tokens(g)' = Tokens(g)
                           /\ New(g)' = New(g) /\ Writes(g)' = Writes(g)
  BY KeepsSame DEF Puts, Keeps
<1>1. ~Hot(f)' /\ ~Writes(f)' /\ ~New(f)' /\ Writes(f) /\ Hot(f) /\ run[f].step # "save"
  BY DEF Puts, Hot, Writes, New, Own
<1>2. Own(t) => t \in Tokens(f)
  BY DEF Tokens, Own
<1>3. \A m \in Name :
        IF m = run[f].open THEN file'[m] = Whole(run[f].key, t) ELSE file'[m] = file[m]
  BY DEF Puts
<1>4. \A m \in Name :
        Saved(m)' => \/ m = run[f].open /\ file'[m].refresh = t /\ Own(t)
                     \/ Saved(m) /\ file'[m].refresh = file[m].refresh
  BY <1>3 DEF Saved, Whole, Own
<1>5. \A m \in Name : m # run[f].open => Saved(m)' = Saved(m) /\ file'[m] = file[m]
  BY <1>3 DEF Saved, Own
<1> HIDE DEF t
<1>6. AllLoaded' /\ AllIssued'
  <2>1. \A m \in Name : file'[m].refresh \in 0..issued
    BY <1>3 DEF AllIssued, Whole, t
  <2>2. \A g \in Fry : run'[g].token \in 0..issued /\ run'[g].seen.refresh \in 0..issued
    BY <1>0 DEF AllIssued, Puts
  <2>3. QED
    BY <1>0, <2>1, <2>2 DEF Puts, AllLoaded, AllIssued
<1>7. ASSUME NEW n, NEW u, Rescued(n, u) PROVE Rescued(n, u)'
  BY <1>0, <1>1, <1>7, StaysRescued DEF Puts
<1>8. FilesOK'
  <2> SUFFICES ASSUME NEW n \in Name, n \notin broken PROVE FileOK(n)'
    BY DEF FilesOK, Puts
  <2>1. FileOK(n)
    BY DEF FilesOK
  <2>2. CASE n = run[f].open
    <3>1. file'[n].is # "torn"
      BY <1>3, <2>2 DEF Whole
    <3>2. CASE Saved(n)'
      <4>1. run[f].name = n /\ WriteOK(f)
        BY <1>1, <2>2 DEF OpensOK, WritesOK
      <4>2. file'[n].refresh = t /\ Own(t) /\ t \in Tokens(f)
        BY <1>2, <1>3, <2>2, <3>2 DEF Saved, Whole, Own
      <4>3. ASSUME NEW g \in Fry, Hot(g)', t \in Tokens(g)' PROVE run'[g].name = n
        BY <1>0, <1>1, <4>1, <4>2, <4>3 DEF WriteOK, Own
      <4>4. ASSUME NEW m \in Name, Saved(m)', file'[m].refresh = t PROVE m = n
        BY <1>5, <2>2, <4>1, <4>2, <4>4 DEF WriteOK, Own
      <4>5. ASSUME NEW u, u = t PROVE Rescued(n, u)'
        BY <1>7, <4>1, <4>2, <4>5 DEF WriteOK, t, Own
      <4>6. QED
        BY <3>1, <4>2, <4>3, <4>4, <4>5 DEF FileOK, Rescued
    <3>3. QED
      BY <3>1, <3>2 DEF FileOK
  <2>3. CASE n # run[f].open
    <3>1. file[n].is = "torn" => \E g \in Fry : run'[g].open = n
      BY <1>0, <2>1, <2>3 DEF FileOK
    <3>2. ASSUME Saved(n), NEW m \in Name, Saved(m)', file'[m].refresh = file[n].refresh
          PROVE  m = n
      <4>1. CASE Saved(m) /\ file'[m].refresh = file[m].refresh
        BY <2>1, <3>2, <4>1 DEF FileOK
      <4>2. CASE file'[m].refresh = t /\ Own(t)
        <5>1. run[f].name = n
          BY <1>1, <1>2, <2>1, <3>2, <4>2 DEF FileOK
        <5>2. WriteOK(f)
          BY <1>1, <5>1 DEF WritesOK
        <5>3. QED
          BY <1>2, <3>2, <4>2, <5>2 DEF WriteOK, Own
      <4>3. QED
        BY <1>4, <3>2, <4>1, <4>2
    <3>3. ASSUME Saved(n), NEW u, u = file[n].refresh PROVE Rescued(n, u)'
      BY <1>7, <2>1, <3>3 DEF FileOK
    <3>4. QED
      BY <1>0, <1>1, <1>5, <2>1, <2>3, <3>1, <3>2, <3>3 DEF FileOK, Rescued
  <2>4. QED
    BY <2>2, <2>3
<1>9. OpensOK'
  BY <1>0, <1>1 DEF OpensOK, Puts
<1>10. WritesOK'
  <2> SUFFICES ASSUME NEW g \in Fry, Writes(g)', run'[g].name \notin broken
               PROVE  WriteOK(g)'
    BY DEF WritesOK, Puts
  <2>1. g # f /\ Writes(g) /\ run'[g] = run[g] /\ Tokens(g)' = Tokens(g)
    BY <1>0, <1>1
  <2>2. WriteOK(g)
    BY <2>1 DEF WritesOK
  <2>3. t \notin Tokens(g) \/ ~Own(t)
    BY <1>1, <1>2, <2>1, <2>2 DEF WriteOK, Own
  <2>4. ASSUME Own(run[g].token), NEW n, n = run[g].name, NEW u, u = run[g].token
        PROVE  Rescued(n, u)'
    BY <1>7, <2>2, <2>4 DEF WriteOK, Own
  <2>5. QED
    BY <1>0, <1>1, <1>4, <2>1, <2>2, <2>3, <2>4 DEF WriteOK, Rescued, Own
<1>11. NewsOK'
  <2> SUFFICES ASSUME NEW g \in Fry, New(g)' PROVE NewOK(g)'
    BY DEF NewsOK
  <2>1. g # f /\ New(g) /\ run'[g] = run[g]
    BY <1>0, <1>1
  <2>2. NewOK(g)
    BY <2>1 DEF NewsOK
  <2>3. t # run[g].token \/ ~Own(t)
    BY <1>1, <1>2, <2>1, <2>2 DEF NewOK
  <2>4. run[g].token \in valid'
    BY <2>2 DEF NewOK, Puts
  <2>5. QED
    BY <1>0, <1>1, <1>4, <2>1, <2>2, <2>3, <2>4 DEF NewOK
<1>12. QED
  BY <1>6, <1>8, <1>9, <1>10, <1>11

\* accounts rename, and accounts rm, which moves the file to no name.  The new name is
\* broken when the old one is, or when somebody is about to save the old account.
Moves(f, old, new) ==
  /\ ~Hot(f) /\ run[f].open = NoName /\ ~Hot(f)' /\ LoadedOK(run'[f])
  /\ issued \in Nat
  /\ run'[f].token \in 0..issued /\ run'[f].seen.refresh \in 0..issued
  /\ \A g \in Fry \ {f} : Keeps(g) /\ run'[g].open = Moved(g, old, new)
  /\ file' = [n \in Name |-> IF n = old THEN Absent ELSE IF n = new THEN file[old]
                             ELSE file[n]]
  /\ broken \subseteq broken'
  /\ new \in Name /\ (old \in broken \/ \E g \in Fry : Hot(g) /\ run[g].name = old)
       => new \in broken'
  /\ UNCHANGED <<valid, issued, outside>>

LEMMA MoveKeeps ==
  ASSUME Claims, NoName \notin Name, NEW f \in Fry,
         NEW old \in Name, NEW new \in Name \cup {NoName}, Moves(f, old, new)
  PROVE  Claims'
<1> USE DEF Claims
<1>o. UNCHANGED outside
  BY DEF Moves
<1> USE <1>o
<1>0. \A g \in Fry \ {f} : /\ Keeps(g) /\ run'[g].open = Moved(g, old, new)
                           /\ Hot(g)' = Hot(g) /\ Tokens(g)' = Tokens(g)
                           /\ New(g)' = New(g) /\ Writes(g)' = Writes(g)
  BY KeepsSame DEF Moves
<1>1. /\ ~Hot(f) /\ ~Writes(f) /\ ~New(f) /\ run[f].step # "save"
      /\ ~Hot(f)' /\ ~Writes(f)' /\ ~New(f)'
  BY DEF Moves, Hot, Writes, New, Own
<1>2. \A n \in Name :
        /\ n = old => file'[n] = Absent
        /\ n = new /\ n # old => file'[n] = file[old]
        /\ n # new /\ n # old => file'[n] = file[n]
  BY DEF Moves
<1>3. \A n \in Name : Saved(n)' =>
        \E m \in Name : /\ Saved(m) /\ file'[n] = file[m] /\ n # old
                        /\ m = IF n = new THEN old ELSE n
  BY <1>2 DEF Saved, Absent, Own
<1>4. AllLoaded' /\ AllIssued'
  <2>1. 0 \in 0..issued
    BY DEF Moves
  <2>2. \A m \in Name : file'[m].refresh \in 0..issued
    BY <1>2, <2>1 DEF AllIssued, Absent
  <2>3. \A g \in Fry : run'[g].token \in 0..issued /\ run'[g].seen.refresh \in 0..issued
    BY <1>0 DEF AllIssued, Moves, Keeps
  <2>4. ASSUME NEW g \in Fry PROVE LoadedOK(run'[g])
    <3>1. CASE g = f
      BY <3>1 DEF Moves
    <3>2. CASE g # f
      <4>1. LoadedOK(run[g]) /\ Keeps(g)
        BY <1>0, <3>2 DEF AllLoaded
      <4>2. QED
        BY <4>1 DEF LoadedOK, Keeps
    <3>3. QED
      BY <3>1, <3>2
  <2>5. QED
    BY <2>2, <2>3, <2>4 DEF Moves, AllLoaded, AllIssued
<1>5. ASSUME NEW n, NEW u, Rescued(n, u) PROVE Rescued(n, u)'
  BY <1>0, <1>1, <1>5, StaysRescued DEF Moves
<1>6. FilesOK'
  <2> SUFFICES ASSUME NEW n \in Name, n \notin broken' PROVE FileOK(n)'
    BY DEF FilesOK
  <2>1. CASE n = old
    BY <1>2, <2>1 DEF FileOK, Saved, Absent, Own
  <2>2. CASE n = new /\ n # old
    <3>1. FileOK(old) /\ file'[n] = file[old] /\ \A g \in Fry : Hot(g) => run[g].name # old
      BY <1>2, <2>2 DEF FilesOK, Moves
    <3>2. file[old].is = "torn" => \E g \in Fry : run'[g].open = n
      BY <1>0, <2>2, <3>1 DEF FileOK, Moves, Moved
    <3>3. ASSUME Saved(old), NEW g \in Fry, Hot(g)' PROVE file[old].refresh \notin Tokens(g)'
      BY <1>0, <1>1, <3>1, <3>3 DEF FileOK
    <3>4. ASSUME Saved(old), NEW m \in Name, Saved(m)', file'[m].refresh = file[old].refresh
          PROVE  m = n
      BY <1>3, <2>2, <3>1, <3>4 DEF FileOK
    <3>5. ASSUME Saved(old), NEW u, u = file[old].refresh PROVE Rescued(n, u)'
      <4>1. Rescued(old, u)
        BY <3>1, <3>5 DEF FileOK
      <4>2. u \in valid
        BY <3>1, <4>1 DEF Rescued, Hot
      <4>3. QED
        BY <4>2 DEF Rescued, Moves
    <3>6. Saved(n)' = Saved(old)
      BY <3>1 DEF Saved, Own
    <3>7. QED
      BY <3>1, <3>2, <3>3, <3>4, <3>5, <3>6 DEF FileOK, Rescued
  <2>3. CASE n # new /\ n # old
    <3>1. FileOK(n) /\ file'[n] = file[n] /\ Saved(n)' = Saved(n)
      BY <1>2, <2>3 DEF FilesOK, Moves, Saved, Own
    <3>2. file[n].is = "torn" => \E g \in Fry : run'[g].open = n
      BY <1>0, <2>3, <3>1 DEF FileOK, Moves, Moved
    <3>3. ASSUME Saved(n), NEW g \in Fry, Hot(g)', file[n].refresh \in Tokens(g)'
          PROVE  run'[g].name = n
      BY <1>0, <1>1, <3>1, <3>3 DEF FileOK, Keeps
    <3>4. ASSUME Saved(n), NEW m \in Name, Saved(m)', file'[m].refresh = file[n].refresh
          PROVE  m = n
      BY <1>3, <2>3, <3>1, <3>4 DEF FileOK
    <3>5. ASSUME Saved(n), NEW u, u = file[n].refresh PROVE Rescued(n, u)'
      BY <1>5, <3>1, <3>5 DEF FileOK
    <3>6. QED
      BY <3>1, <3>2, <3>3, <3>4, <3>5 DEF FileOK, Rescued
  <2>4. QED
    BY <2>1, <2>2, <2>3
<1>7. OpensOK'
  <2> SUFFICES ASSUME NEW g \in Fry, Writes(g)'
               PROVE  run'[g].open \in {run'[g].name, NoName} \cup broken'
    BY DEF OpensOK
  <2>1. g # f /\ Writes(g) /\ Hot(g) /\ run'[g].name = run[g].name
    BY <1>0, <1>1 DEF Keeps, Writes, Hot
  <2>2. run'[g].open = Moved(g, old, new)
    BY <1>0, <2>1
  <2>3. run[g].open \in {run[g].name, NoName} \cup broken
    BY <2>1 DEF OpensOK
  <2>4. CASE run[g].open = old
    <3>1. new \in Name => new \in broken'
      BY <2>1, <2>3, <2>4 DEF Moves
    <3>2. QED
      BY <2>2, <2>4, <3>1 DEF Moved
  <2>5. CASE run[g].open # old
    BY <2>1, <2>2, <2>3, <2>5 DEF Moved, Moves
  <2>6. QED
    BY <2>4, <2>5
<1>8. WritesOK'
  <2> SUFFICES ASSUME NEW g \in Fry, Writes(g)', run'[g].name \notin broken'
               PROVE  WriteOK(g)'
    BY DEF WritesOK
  <2>1. /\ g # f /\ Writes(g) /\ Tokens(g)' = Tokens(g)
        /\ run'[g].name = run[g].name /\ run'[g].token = run[g].token
    BY <1>0, <1>1 DEF Keeps
  <2>2. WriteOK(g)
    BY <2>1 DEF WritesOK, Moves
  <2>3. ASSUME Own(run[g].token), NEW n, n = run[g].name, NEW u, u = run[g].token
        PROVE  Rescued(n, u)'
    BY <1>5, <2>2, <2>3 DEF WriteOK, Own
  <2>4. \A m \in Name : Saved(m)' => file'[m].refresh \notin Tokens(g)
    BY <1>3, <2>2 DEF WriteOK, Own
  <2>5. \A h \in Fry \ {g} : Hot(h)' /\ Tokens(g) \cap Tokens(h)' # {} =>
          run'[h].name = run[g].name /\ ~Writes(h)'
    BY <1>0, <1>1, <2>2 DEF WriteOK, Keeps, Own
  <2>6. QED
    BY <2>1, <2>3, <2>4, <2>5 DEF WriteOK, Rescued, Own
<1>9. NewsOK'
  <2> SUFFICES ASSUME NEW g \in Fry, New(g)' PROVE NewOK(g)'
    BY DEF NewsOK
  <2>1. g # f /\ New(g) /\ run'[g].token = run[g].token
    BY <1>0, <1>1 DEF Keeps
  <2>2. NewOK(g)
    BY <2>1 DEF NewsOK
  <2>3. run[g].token \in valid'
    BY <2>2 DEF NewOK, Moves
  <2>4. \A m \in Name : Saved(m)' => file'[m].refresh # run[g].token
    BY <1>3, <2>2 DEF NewOK
  <2>5. QED
    BY <1>0, <1>1, <2>1, <2>2, <2>3, <2>4 DEF NewOK
<1>10. QED
  BY <1>4, <1>6, <1>7, <1>8, <1>9

-----------------------------------------------------------------------------
(* The actions.                                                            *)

LEMMA Types ==
  ASSUME KeyInv, Claims, NEW f \in Fry
  PROVE  /\ run[f] \in Run /\ RunOK(run[f]) /\ LoadedOK(run[f])
         /\ run[f].token \in 0..issued /\ run[f].seen.refresh \in 0..issued
         /\ issued \in Nat /\ issued <= issued /\ 0 \in 0..issued
         /\ run \in [Fry -> Run] /\ file \in [Name -> File] /\ broken \subseteq Name
<1>1. issued \in Nat
  BY MaxTokensAssumption DEF KeyInv, AccountsTypeOK, Token
<1>2. QED
  BY <1>1 DEF KeyInv, AccountsTypeOK, RunsOK, RunOK, Claims, AllLoaded, AllIssued

LEMMA NothingLost == ASSUME NEW f, ~Hot(f) PROVE Loses(f) = {}
  BY DEF Hot, Loses, At

LEMMA EndLeaves ==
  ASSUME KeyInv, Claims, NEW f \in Fry, End(f), UNCHANGED <<file, valid, issued, outside>>,
         broken \cup Loses(f) \subseteq broken'
  PROVE  Leaves(f)
<1>1. run'[f] = [Idle EXCEPT !.step = "done"] /\ \A g \in Fry \ {f} : run'[g] = run[g]
  BY Types DEF End
<1>2. run'[f].step = "done" /\ run'[f].token = 0 /\ run'[f].seen.refresh = 0
  BY <1>1 DEF Idle, Absent
<1>3. LoadedOK(run'[f]) /\ ~Hot(f)'
  BY <1>2 DEF LoadedOK, Hot
<1>4. issued \in Nat /\ 0 \in 0..issued /\ issued <= issued
  BY Types
<1>5. /\ Writes(f) /\ run[f].open # NoName => run[f].open \in Loses(f)
      /\ run[f].step = "save" /\ Rotated(f) => run[f].name \in Loses(f)
  BY DEF Loses, Writes, At
<1>6. QED
  BY <1>1, <1>2, <1>3, <1>4, <1>5 DEF Leaves

\* A command without tokens goes on without tokens.
LEMMA IdleLeaves ==
  ASSUME KeyInv, Claims, NEW f \in Fry, ~Hot(f), ~Hot(f)',
         \A g \in Fry \ {f} : run'[g] = run[g],
         run'[f].seen = run[f].seen, run'[f].token \in {0, run[f].token},
         \/ run'[f].step \notin {"off", "key", "open key", "write key", "config", "ready"}
         \/ /\ run[f].step \in {"off", "key", "open key", "write key", "config"}
            /\ run'[f].cmd = run[f].cmd,
         UNCHANGED <<file, server, broken>>
  PROVE  Leaves(f)
<1>1. LoadedOK(run[f])
  BY Types
<1>2. LoadedOK(run'[f])
  BY <1>1 DEF LoadedOK, Hot
<1>3. /\ issued \in Nat /\ issued <= issued
      /\ run'[f].token \in 0..issued /\ run'[f].seen.refresh \in 0..issued
  <2>1. /\ run[f].token \in 0..issued /\ run[f].seen.refresh \in 0..issued
        /\ issued \in Nat /\ 0 \in 0..issued
    BY Types
  <2>2. run'[f].token \in 0..issued
    BY <2>1
  <2>3. run'[f].seen.refresh \in 0..issued
    BY <2>1
  <2>4. issued <= issued
    BY Types
  <2>5. QED
    BY <2>1, <2>2, <2>3, <2>4
<1>4. QED
  BY <1>2, <1>3 DEF Leaves, server, Hot, Writes

LEMMA IdleSteps ==
  ASSUME KeyInv, Claims, NEW f \in Fry,
         \/ Begin(f) \/ ReadKey(f) \/ OpenKey(f) \/ WriteKey(f) \/ LoadConfig(f)
         \/ Logout(f) \/ Remove(f) \/ Use(f) \/ ConfigSet(f) \/ Reset(f) \/ Rename(f)
         \/ Refused(f) \/ Store(f) \/ Count(f) \/ Forget(f)
         \/ OpenConfig(f) \/ WriteConfig(f)
  PROVE  Leaves(f)
<1>0. run[f] \in Run /\ run \in [Fry -> Run]
  BY Types
<1>1. CASE End(f)
  <2>1. /\ ~Hot(f) /\ UNCHANGED <<file, valid, issued, outside, broken>>
    BY DEF Begin, ReadKey, OpenKey, WriteKey, LoadConfig, Logout, Remove, Use, ConfigSet,
           Reset, SaveConfig, Rename, Refused, Store, Count, Forget, OpenConfig,
           WriteConfig, At, Hot, files, server
  <2>2. QED
    BY <1>1, <2>1, EndLeaves, NothingLost
<1>2. CASE /\ ~End(f)
           /\ Begin(f) \/ ReadKey(f) \/ OpenKey(f) \/ WriteKey(f) \/ LoadConfig(f)
  <2>0. PICK s \in {"key", "open key", "write key", "config", "ready"} :
          \/ Go(f, s)
          \/ \E k : run' = [run EXCEPT ![f].step = s, ![f].key = k]
          \/ run' = [run EXCEPT ![f].step = s, ![f].default = config_file]
    BY <1>2, Zenon DEF Begin, ReadKey, OpenKey, WriteKey, LoadConfig
  <2>1. /\ \A g \in Fry \ {f} : run'[g] = run[g]
        /\ run'[f].seen = run[f].seen /\ run'[f].token = run[f].token
        /\ run'[f].cmd = run[f].cmd /\ run'[f].step = s
        /\ run[f].step \in {"off", "key", "open key", "write key", "config"}
    <3>1. run[f].step \in {"off", "key", "open key", "write key", "config"}
      BY <1>2 DEF Begin, ReadKey, OpenKey, WriteKey, LoadConfig, At
    <3>2. ASSUME NEW k, run' = [run EXCEPT ![f].step = s, ![f].key = k]
          PROVE  /\ \A g \in Fry \ {f} : run'[g] = run[g]
                 /\ run'[f].seen = run[f].seen /\ run'[f].token = run[f].token
                 /\ run'[f].cmd = run[f].cmd /\ run'[f].step = s
      BY <1>0, <3>2 DEF Run
    <3>3. CASE run' = [run EXCEPT ![f].step = s, ![f].default = config_file]
      BY <1>0, <3>1, <3>3 DEF Run
    <3>4. CASE Go(f, s)
      BY <1>0, <3>1, <3>4 DEF Go, Run
    <3>5. QED
      BY <2>0, <3>1, <3>2, <3>3, <3>4
  <2>2. ~Hot(f) /\ ~Hot(f)'
    BY <2>1 DEF Hot
  <2>3. UNCHANGED <<file, server, broken>>
    BY <1>2 DEF Begin, ReadKey, OpenKey, WriteKey, LoadConfig, files
  <2>4. QED
    BY <2>1, <2>2, <2>3, IdleLeaves
<1>3. CASE /\ ~End(f)
           /\ \/ Logout(f) \/ Remove(f) \/ Use(f) \/ ConfigSet(f) \/ Reset(f) \/ Rename(f)
              \/ Store(f) \/ Count(f) \/ Forget(f) \/ OpenConfig(f)
  <2> DEFINE After == {"forget", "unlink", "open config", "rename", "count",
                       "write config"}
  <2>0. PICK s \in After :
          \/ \E c, n : Become(f, c, s, n, 0)
          \/ \E c, n : run' = [run EXCEPT ![f].cmd = c, ![f].step = s, ![f].default = n]
          \/ \E o, n : run' = [run EXCEPT ![f].cmd = "rename", ![f].step = s,
                                          ![f].name = o, ![f].to = n]
          \/ \E n : run' = [run EXCEPT ![f].step = s, ![f].default = n]
          \/ Go(f, s)
    <3>1. CASE Logout(f) \/ Remove(f) \/ Reset(f)
      BY <3>1, Zenon DEF Logout, Remove, Reset, SaveConfig
    <3>2. CASE Use(f) \/ ConfigSet(f) \/ Rename(f)
      BY <3>2, Zenon DEF Use, ConfigSet, Rename, SetDefault
    <3>3. CASE Store(f) \/ Count(f) \/ Forget(f) \/ OpenConfig(f)
      BY <1>3, <3>3, Zenon DEF Store, Count, Forget, OpenConfig
    <3>4. QED
      BY <1>3, <3>1, <3>2, <3>3
  <2>1. /\ \A g \in Fry \ {f} : run'[g] = run[g]
        /\ run'[f].seen = run[f].seen /\ run'[f].token \in {0, run[f].token}
        /\ run'[f].step \in After
    <3> HIDE DEF After
    <3>1. CASE \E c, n : Become(f, c, s, n, 0)
      BY <1>0, <3>1 DEF Become, Run
    <3>2. CASE \E c, n : run' = [run EXCEPT ![f].cmd = c, ![f].step = s, ![f].default = n]
      BY <1>0, <3>2 DEF Run
    <3>3. CASE \E o, n : run' = [run EXCEPT ![f].cmd = "rename", ![f].step = s,
                                           ![f].name = o, ![f].to = n]
      BY <1>0, <3>3 DEF Run
    <3>4. CASE \E n : run' = [run EXCEPT ![f].step = s, ![f].default = n]
      BY <1>0, <3>4 DEF Run
    <3>5. CASE Go(f, s)
      BY <1>0, <3>5 DEF Go, Run
    <3>6. QED
      BY <2>0, <3>1, <3>2, <3>3, <3>4, <3>5
  <2>2. run[f].step \in {"ready", "store", "count", "forget", "open config"}
    BY <1>3 DEF Logout, Remove, Use, ConfigSet, Reset, SaveConfig, Rename, Store,
       Count, Forget, OpenConfig, At
  <2>3. ~Hot(f) /\ ~Hot(f)'
    BY <2>1, <2>2 DEF Hot
  <2>4. UNCHANGED <<file, server, broken>>
    BY <1>3 DEF Logout, Remove, Use, ConfigSet, Reset, SaveConfig, Rename, Store,
       Count, Forget, OpenConfig, files
  <2>5. QED
    BY <2>1, <2>2, <2>3, <2>4, IdleLeaves
<1>4. QED
  BY <1>1, <1>2, <1>3 DEF Refused, WriteConfig

LEMMA FailLeaves ==
  ASSUME KeyInv, Claims, NEW f \in Fry, Fail(f), UNCHANGED <<file, valid, issued, outside>>
  PROVE  Leaves(f)
BY EndLeaves DEF Fail

\* auth login: a token that nobody knows.
LEMMA LoginTakes ==
  ASSUME KeyInv, Claims, NEW f \in Fry, Login(f)
  PROVE  Takes(f)
<1>0. /\ run[f] \in Run /\ run \in [Fry -> Run] /\ LoadedOK(run[f])
      /\ issued \in Nat /\ 0 \in 0..issued
  BY Types
<1>1. /\ run[f].step = "ready" /\ issued' = issued + 1 /\ valid' = valid \cup {issued'}
      /\ UNCHANGED <<file, broken, outside>>
  BY DEF Login, At, Issue, files
<1>2. PICK n \in Name : Become(f, "login", "save", n, issued')
  BY DEF Login
<1>3. /\ \A g \in Fry \ {f} : run'[g] = run[g]
      /\ run'[f].step = "save" /\ run'[f].cmd = "login"
      /\ run'[f].token = issued' /\ run'[f].seen = run[f].seen
      /\ run'[f].open = run[f].open /\ run'[f].name = n
  BY <1>0, <1>2 DEF Become, Run
<1>4. run[f].seen = Absent /\ Absent.refresh = 0
  BY <1>0, <1>1 DEF LoadedOK, Absent
<1>5. LoadedOK(run'[f])
  BY <1>3, <1>4 DEF LoadedOK
<1>6. ~Hot(f) /\ Tokens(f)' \subseteq {issued'} /\ issued' > issued
  BY <1>0, <1>1, <1>3, <1>4 DEF Hot, Tokens, Own
<1>7. \A m \in Name : file[m].refresh # issued'
  BY <1>0, <1>6 DEF Claims, AllIssued
<1>8. \A g \in Fry : issued' \notin Tokens(g) /\ run[g].token # issued'
  BY <1>0, <1>6 DEF Claims, AllIssued, Tokens, Own
<1>9. NewOK(f)'
  BY <1>1, <1>3, <1>7, <1>8 DEF NewOK, Tokens, Hot, Saved, Own
<1>10. QED
  BY <1>0, <1>1, <1>3, <1>4, <1>5, <1>6, <1>7, <1>8, <1>9 DEF Takes

\* auth login with an API key.
LEMMA ApiKeyTakes ==
  ASSUME KeyInv, Claims, NEW f \in Fry, ApiKey(f)
  PROVE  Takes(f)
<1>0. /\ run[f] \in Run /\ run \in [Fry -> Run] /\ LoadedOK(run[f])
      /\ issued \in Nat /\ 0 \in 0..issued
  BY Types
<1>1. run[f].step = "ready" /\ UNCHANGED <<file, valid, issued, outside, broken>>
  BY DEF ApiKey, At, files, server
<1>2. PICK n \in Name : Become(f, "api key", "save", n, 0)
  BY DEF ApiKey
<1>3. /\ \A g \in Fry \ {f} : run'[g] = run[g]
      /\ run'[f].step = "save" /\ run'[f].cmd = "api key"
      /\ run'[f].token = 0 /\ run'[f].seen = run[f].seen
      /\ run'[f].open = run[f].open /\ run'[f].name = n
  BY <1>0, <1>2 DEF Become, Run
<1>4. run[f].seen = Absent /\ Absent.refresh = 0
  BY <1>0, <1>1 DEF LoadedOK, Absent
<1>5. LoadedOK(run'[f])
  BY <1>3, <1>4 DEF LoadedOK
<1>6. ~Hot(f) /\ Tokens(f)' = {} /\ ~New(f)'
  BY <1>1, <1>3, <1>4 DEF Hot, Tokens, New, Own
<1>7. run'[f].token \in 0..issued' /\ run'[f].seen.refresh \in 0..issued'
  BY <1>0, <1>1, <1>3, <1>4
<1>8. /\ issued' \in Nat /\ issued <= issued' /\ valid \ valid' = {}
      /\ run[f].step \notin {"save", "write"} /\ run'[f].step \in {"request", "save"}
  <2>1. issued' = issued /\ valid' = valid /\ issued <= issued
    BY <1>0, <1>1
  <2>2. QED
    BY <1>0, <1>1, <1>3, <2>1
<1>9. QED
  BY <1>0, <1>1, <1>3, <1>5, <1>6, <1>7, <1>8 DEF Takes

\* tokens refresh and expire load an account.
LEMMA LoadTakes ==
  ASSUME KeyInv, Claims, NEW f \in Fry, Refresh(f) \/ Expire(f)
  PROVE  Takes(f)
<1>0. /\ run[f] \in Run /\ run \in [Fry -> Run] /\ LoadedOK(run[f])
      /\ issued \in Nat /\ 0 \in 0..issued
  BY Types
<1>1. run[f].step = "ready" /\ UNCHANGED <<file, valid, issued, outside, broken>>
  BY DEF Refresh, Expire, LoadToken, At, files, server
<1>2. PICK n \in Name :
        /\ Loads(f, n)
        /\ \E c \in {<<"refresh", "request">>, <<"expire", "save">>} :
             run' = [run EXCEPT ![f].cmd = c[1], ![f].step = c[2], ![f].name = n,
                                ![f].token = file[n].refresh, ![f].seen = file[n]]
  BY DEF Refresh, Expire, LoadToken
<1>3. /\ \A g \in Fry \ {f} : run'[g] = run[g]
      /\ \/ run'[f].cmd = "refresh" /\ run'[f].step = "request"
         \/ run'[f].cmd = "expire" /\ run'[f].step = "save"
      /\ run'[f].token = file[n].refresh /\ run'[f].seen = file[n]
      /\ run'[f].open = run[f].open /\ run'[f].name = n
  BY <1>0, <1>2 DEF Run
<1>4. LoadedOK(run'[f])
  BY <1>2, <1>3 DEF LoadedOK, Loads
<1>5. ~Hot(f) /\ ~New(f)' /\ \A t \in Tokens(f)' : t = file[n].refresh /\ Saved(n)
  BY <1>1, <1>2, <1>3 DEF Hot, Tokens, New, Saved, Loads, Own
<1>6. Saved(n) => \A m \in Name \ broken : Saved(m) /\ file[m].refresh = file[n].refresh => n = m
  BY DEF Claims, FilesOK, FileOK
<1>7. Saved(n) => \A g \in Fry : Writes(g) /\ run[g].name \notin broken =>
                               file[n].refresh \notin Tokens(g)
  BY DEF Claims, WritesOK, WriteOK
<1>8. Saved(n) => \A g \in Fry : New(g) => file[n].refresh # run[g].token
  BY DEF Claims, NewsOK, NewOK
<1>9. file[n].refresh \in 0..issued
  BY DEF Claims, AllIssued
<1>10. QED
  BY <1>0, <1>1, <1>3, <1>4, <1>5, <1>6, <1>7, <1>8, <1>9 DEF Takes

\* app_oauth_token_refresh: the command comes to have the successor of its token.
LEMMA RequestKeeps ==
  ASSUME KeyInv, Claims, NEW f \in Fry, Request(f)
  PROVE  Leaves(f) \/ Takes(f)
<1>0. /\ run[f] \in Run /\ run \in [Fry -> Run] /\ LoadedOK(run[f])
      /\ run[f].token \in 0..issued /\ run[f].seen.refresh \in 0..issued
      /\ issued \in Nat /\ 0 \in 0..issued
  BY Types
<1>1. /\ run[f].step = "request" /\ UNCHANGED <<file>>
      /\ run[f].cmd = "refresh" /\ run[f].token = run[f].seen.refresh
      /\ run[f].seen.is = "whole"
  BY <1>0 DEF Request, At, LoadedOK, files
<1>2. /\ Hot(f) /\ Loses(f) = {}
      /\ \A t \in Tokens(f) : t = run[f].token
      /\ Own(run[f].token) => run[f].token \in Tokens(f)
  BY <1>1 DEF Hot, Tokens, Loses, At, Own
<1>3. CASE Fail(f) /\ UNCHANGED server
  BY <1>1, <1>3, FailLeaves DEF server
<1>4. CASE Go(f, "save") /\ UNCHANGED <<server, broken>>
  <2>1. /\ \A g \in Fry \ {f} : run'[g] = run[g]
        /\ run'[f].step = "save" /\ run'[f].cmd = run[f].cmd
        /\ run'[f].token = run[f].token /\ run'[f].seen = run[f].seen
        /\ run'[f].open = run[f].open /\ run'[f].name = run[f].name
    BY <1>0, <1>4 DEF Go, Run
  <2>o. UNCHANGED outside
    BY <1>4 DEF server
  <2>2. LoadedOK(run'[f]) /\ Tokens(f)' = Tokens(f) /\ ~New(f)'
    BY <1>1, <2>1, <2>o DEF LoadedOK, Tokens, New, Own
  <2>3. QED
    BY <1>0, <1>1, <1>2, <1>4, <2>1, <2>2 DEF Takes, server, Own
<1>5. CASE Rotate(f)
  <2>1. /\ issued' = issued + 1 /\ valid' = (valid \ {run[f].token}) \cup {issued'}
        /\ UNCHANGED outside
    BY <1>5 DEF Rotate, Issue
  <2>2. CASE End(f) /\ broken' = broken \cup {run[f].name}
    <3>1. run'[f] = [Idle EXCEPT !.step = "done"] /\ \A g \in Fry \ {f} : run'[g] = run[g]
      BY <1>0, <2>2 DEF End
    <3>2. run'[f].step = "done" /\ run'[f].token = 0 /\ run'[f].seen.refresh = 0
      BY <3>1 DEF Idle, Absent
    <3>3. LoadedOK(run'[f]) /\ ~Hot(f)'
      BY <3>2 DEF LoadedOK, Hot
    <3>4. /\ run'[f].token \in 0..issued' /\ run'[f].seen.refresh \in 0..issued'
          /\ issued' \in Nat /\ issued <= issued'
      BY <1>0, <2>1, <3>2
    <3>5. \A t \in valid \ valid' : Own(t) => t \in Tokens(f)
      BY <1>2, <2>1
    <3>6. run[f].step # "save" /\ ~Writes(f)
      BY <1>1 DEF Writes
    <3>7. QED
      BY <1>0, <1>1, <1>2, <2>1, <2>2, <3>1, <3>3, <3>4, <3>5, <3>6 DEF Leaves
  <2>3. CASE /\ run' = [run EXCEPT ![f].step = "save", ![f].token = issued']
             /\ UNCHANGED broken
    <3>1. /\ \A g \in Fry \ {f} : run'[g] = run[g]
          /\ run'[f].step = "save" /\ run'[f].cmd = run[f].cmd
          /\ run'[f].token = issued' /\ run'[f].seen = run[f].seen
          /\ run'[f].open = run[f].open /\ run'[f].name = run[f].name
      BY <1>0, <2>3 DEF Run
    <3>2. issued' > issued /\ issued' \in Nat /\ issued' # 0
      BY <1>0, <2>1
    <3>3. LoadedOK(run'[f])
      BY <1>1, <3>1, <3>2 DEF LoadedOK
    <3>4. /\ \A t \in Tokens(f)' : t = issued' \/ t \in Tokens(f)
          /\ Rotated(f)'
      BY <1>0, <1>1, <2>1, <3>1, <3>2 DEF Tokens, Rotated, Own
    <3>5. \A m \in Name : file[m].refresh # issued'
      BY <1>0, <3>2 DEF Claims, AllIssued
    <3>6. \A g \in Fry : issued' \notin Tokens(g) /\ run[g].token # issued'
      BY <1>0, <3>2 DEF Claims, AllIssued, Tokens, Own
    <3>7. NewOK(f)'
      BY <1>1, <2>1, <3>1, <3>5, <3>6 DEF NewOK, Tokens, Hot, Saved, Own
    <3>8. \A t \in valid \ valid' : t = run[f].token
      BY <2>1
    <3>9. QED
      BY <1>0, <1>1, <1>2, <2>1, <2>3, <3>1, <3>2, <3>3, <3>4, <3>5, <3>6, <3>7, <3>8
      DEF Takes
  <2>4. QED
    BY <1>5, <2>2, <2>3 DEF Rotate
<1>6. QED
  BY <1>3, <1>4, <1>5 DEF Request

LEMMA WriteAccountKeeps ==
  ASSUME KeyInv, Claims, NEW f \in Fry, WriteAccount(f)
  PROVE  Leaves(f) \/ Puts(f)
<1>0. /\ run[f] \in Run /\ run \in [Fry -> Run] /\ LoadedOK(run[f])
      /\ run[f].token \in 0..issued /\ run[f].seen.refresh \in 0..issued
      /\ issued \in Nat /\ 0 \in 0..issued
  BY Types
<1>1. Writes(f) /\ UNCHANGED <<valid, issued, outside>>
  BY DEF WriteAccount, At, Writes, server
<1>2. CASE Fail(f) /\ UNCHANGED file
  BY <1>1, <1>2, FailLeaves
<1>3. CASE IF AfterSave(f) = "done" THEN End(f)
           ELSE run' = [run EXCEPT ![f].step = AfterSave(f), ![f].open = NoName]
  <2>1. \A g \in Fry \ {f} : run'[g] = run[g]
    BY <1>0, <1>3 DEF End
  <2>2. /\ run'[f].step \in {"done", "store"} /\ run'[f].open = NoName
        /\ run'[f].token \in 0..issued /\ run'[f].seen.refresh \in 0..issued
    <3>1. CASE End(f)
      BY <1>0, <3>1 DEF End, Idle, Absent
    <3>2. CASE run' = [run EXCEPT ![f].step = "store", ![f].open = NoName]
      BY <1>0, <3>2 DEF Run
    <3>3. QED
      BY <1>3, <3>1, <3>2 DEF AfterSave
  <2>3. LoadedOK(run'[f]) /\ ~Hot(f)'
    BY <2>2 DEF LoadedOK, Hot
  <2>4. CASE /\ file' = [m \in Name |-> IF m = run[f].open
                           THEN Whole(run[f].key, run[f].token) ELSE file[m]]
             /\ UNCHANGED broken
    BY <1>1, <2>1, <2>2, <2>3, <2>4 DEF Puts
  <2>5. CASE /\ Mixed(run[f].open)
             /\ file' = [file EXCEPT ![run[f].open] = Torn]
             /\ broken' = broken \cup {run[f].open}
    <3>1. \A n \in Name : file'[n] = file[n] \/ (file'[n] = Torn /\ n \in broken')
      <4>1. run[f].open \in Name /\ file \in [Name -> File]
        BY <2>5, Types DEF Mixed
      <4>2. QED
        BY <2>5, <4>1
    <3>2. QED
      BY <1>0, <1>1, <2>1, <2>2, <2>3, <2>5, <3>1 DEF Leaves, Writes
  <2>6. QED
    BY <1>2, <2>4, <2>5 DEF WriteAccount
<1>4. QED
  BY <1>2, <1>3 DEF WriteAccount

LEMMA OpenAccountKeeps ==
  ASSUME KeyInv, Claims, NEW f \in Fry, OpenAccount(f)
  PROVE  Leaves(f) \/ Opens(f)
<1>1. run[f].step = "save" /\ UNCHANGED <<valid, issued, outside>>
  BY DEF OpenAccount, At, server
<1>2. run[f].name \in Name
  BY <1>1, Types DEF RunOK, Working
<1>3. CASE Fail(f) /\ UNCHANGED file
  BY <1>1, <1>3, FailLeaves
<1>4. CASE /\ file' = [file EXCEPT ![run[f].name] = Torn]
           /\ run' = [run EXCEPT ![f].step = "write", ![f].open = run[f].name]
           /\ broken' = IF Stale(f) THEN broken \cup {run[f].name} ELSE broken
  BY <1>1, <1>2, <1>4 DEF Opens
<1>5. QED
  BY <1>3, <1>4 DEF OpenAccount

\* What accounts rm and rename make of the commands.
Renames(f, old, new) ==
  /\ run[f].step \in {"unlink", "rename"}
  /\ \A g \in Fry \ {f} : run'[g] = [run[g] EXCEPT !.open = Moved(g, old, new)]
  /\ \/ run'[f] = [Idle EXCEPT !.step = "done"]
     \/ run'[f] = [run[f] EXCEPT !.step = "open config"]
     \/ run'[f] = [run[f] EXCEPT !.step = "open config", !.default = new]

LEMMA MovedRuns ==
  ASSUME KeyInv, Claims, NEW f \in Fry, NEW old, NEW new, Renames(f, old, new)
  PROVE  /\ ~Hot(f) /\ run[f].open = NoName /\ ~Hot(f)' /\ LoadedOK(run'[f])
         /\ run'[f].token \in 0..issued /\ run'[f].seen.refresh \in 0..issued
         /\ \A g \in Fry \ {f} : Keeps(g) /\ run'[g].open = Moved(g, old, new)
<1> USE DEF Renames
<1>0. /\ run[f] \in Run /\ run \in [Fry -> Run] /\ RunOK(run[f])
      /\ run[f].token \in 0..issued /\ run[f].seen.refresh \in 0..issued
      /\ 0 \in 0..issued
  BY Types
<1>1. /\ run'[f].step \in {"open config", "done"}
      /\ run'[f].token \in 0..issued /\ run'[f].seen.refresh \in 0..issued
  <2>1. CASE run'[f] = [Idle EXCEPT !.step = "done"]
    BY <1>0, <2>1 DEF Idle, Absent
  <2>2. CASE \/ run'[f] = [run[f] EXCEPT !.step = "open config"]
             \/ run'[f] = [run[f] EXCEPT !.step = "open config", !.default = new]
    BY <1>0, <2>2 DEF Run
  <2>3. QED
    BY <2>1, <2>2
<1>2. ~Hot(f)' /\ LoadedOK(run'[f])
  BY <1>1 DEF Hot, LoadedOK
<1>3. ~Hot(f) /\ run[f].open = NoName
  BY <1>0 DEF Hot, RunOK
<1>4. ASSUME NEW g \in Fry \ {f} PROVE Keeps(g) /\ run'[g].open = Moved(g, old, new)
  <2>1. run'[g] = [run[g] EXCEPT !.open = Moved(g, old, new)] /\ run[g] \in Run
    BY <1>0
  <2>2. QED
    BY <2>1 DEF Keeps, Run
<1>5. QED
  BY <1>1, <1>2, <1>3, <1>4

LEMMA UnlinkKeeps ==
  ASSUME KeyInv, Claims, NEW f \in Fry, Unlink(f)
  PROVE  Leaves(f) \/ Moves(f, run[f].name, NoName)
<1>1. /\ run[f].step = "unlink" /\ UNCHANGED <<valid, issued, outside, broken>>
      /\ run[f].name \in Name /\ issued \in Nat
  BY Types DEF Unlink, At, RunOK, Working, server
<1>2. CASE End(f) /\ UNCHANGED file
  BY <1>1, <1>2, EndLeaves, NothingLost DEF Hot
<1>3. CASE ~(End(f) /\ UNCHANGED file)
  <2> DEFINE old == run[f].name
             r == IF run[f].default = old THEN [run[f] EXCEPT !.step = "open config"]
                  ELSE [Idle EXCEPT !.step = "done"]
  <2>1. /\ file' = [file EXCEPT ![old] = Absent]
        /\ run' = [g \in Fry |-> IF g # f THEN [run[g] EXCEPT !.open = Moved(g, old, NoName)]
                                 ELSE r]
    BY <1>3 DEF Unlink
  <2>2. \/ r = [Idle EXCEPT !.step = "done"]
        \/ r = [run[f] EXCEPT !.step = "open config"]
    OBVIOUS
  <2>3. file' = [n \in Name |-> IF n = old THEN Absent ELSE IF n = NoName THEN file[old]
                                ELSE file[n]]
    BY <1>1, <2>1, Types, NoNameAssumption
  <2> HIDE DEF old, r
  <2>4. old \in Name /\ NoName \in Name \cup {NoName}
    BY <1>1 DEF old
  <2>5. ASSUME NEW a \in Name, a = old, NEW b \in Name \cup {NoName}, b = NoName
        PROVE  Moves(f, a, b)
    <3>1. Renames(f, a, b)
      BY <1>1, <2>1, <2>2, <2>5 DEF Renames
    <3>2. /\ ~Hot(f) /\ run[f].open = NoName /\ ~Hot(f)' /\ LoadedOK(run'[f])
          /\ run'[f].token \in 0..issued /\ run'[f].seen.refresh \in 0..issued
          /\ \A g \in Fry \ {f} : Keeps(g) /\ run'[g].open = Moved(g, a, b)
      BY <3>1, MovedRuns
    <3>3. QED
      BY <1>1, <2>1, <2>3, <2>5, <3>2, NoNameAssumption DEF Moves, Hot
  <2>6. QED
    BY <2>4, <2>5 DEF old
<1>4. QED
  BY <1>2, <1>3

LEMMA RenameKeeps ==
  ASSUME KeyInv, Claims, NEW f \in Fry, RenameFile(f)
  PROVE  Leaves(f) \/ Moves(f, run[f].name, run[f].to)
<1>1. /\ run[f].step = "rename" /\ UNCHANGED <<valid, issued, outside>>
      /\ run[f].name \in Name /\ run[f].to \in Name /\ issued \in Nat
  BY Types DEF RenameFile, At, RunOK, Working, server
<1>2. CASE End(f) /\ UNCHANGED <<file, broken>>
  BY <1>1, <1>2, EndLeaves, NothingLost DEF Hot
<1>3. CASE ~(End(f) /\ UNCHANGED <<file, broken>>)
  <2> DEFINE old == run[f].name
             new == run[f].to
             r == IF run[f].default = old
                    THEN [run[f] EXCEPT !.step = "open config", !.default = new]
                  ELSE [Idle EXCEPT !.step = "done"]
  <2>1. /\ file' = [file EXCEPT ![new] = file[old], ![old] = Absent]
        /\ run' = [g \in Fry |-> IF g # f THEN [run[g] EXCEPT !.open = Moved(g, old, new)]
                                 ELSE r]
        /\ broken' = IF \/ old \in broken
                        \/ \E g \in Fry : /\ run[g].name = old
                                          /\ run[g].step \in {"request", "save", "write"}
                       THEN broken \cup {new} ELSE broken
    BY <1>3 DEF RenameFile
  <2>2. \/ r = [Idle EXCEPT !.step = "done"]
        \/ r = [run[f] EXCEPT !.step = "open config", !.default = new]
    OBVIOUS
  <2>3. file' = [n \in Name |-> IF n = old THEN Absent ELSE IF n = new THEN file[old]
                                ELSE file[n]]
    BY <1>1, <2>1, Types
  <2> HIDE DEF old, new, r
  <2>4. old \in Name /\ new \in Name
    BY <1>1 DEF old, new
  <2>5. ASSUME NEW a \in Name, a = old, NEW b \in Name \cup {NoName}, b = new
        PROVE  Moves(f, a, b)
    <3>1. Renames(f, a, b)
      BY <1>1, <2>1, <2>2, <2>5 DEF Renames
    <3>2. /\ ~Hot(f) /\ run[f].open = NoName /\ ~Hot(f)' /\ LoadedOK(run'[f])
          /\ run'[f].token \in 0..issued /\ run'[f].seen.refresh \in 0..issued
          /\ \A g \in Fry \ {f} : Keeps(g) /\ run'[g].open = Moved(g, a, b)
      BY <3>1, MovedRuns
    <3>3. QED
      BY <1>1, <2>1, <2>3, <2>5, <3>2, NoNameAssumption DEF Moves, Hot
  <2>6. QED
    BY <2>4, <2>5 DEF old, new
<1>4. QED
  BY <1>2, <1>3

\* More tokens are known outside: by accounts export, which forgets what it loaded, by
\* accounts add, which takes one of them, or by another program.
Shares ==
  /\ \A g \in Fry :
       \/ run'[g] = run[g]
       \/ /\ ~Hot(g) /\ run[g].open = NoName /\ ~Writes(g)'
          /\ LoadedOK(run'[g]) /\ Tokens(g)' = {} /\ ~New(g)'
          /\ run'[g].token \in 0..issued' /\ run'[g].seen.refresh \in 0..issued'
  /\ file' = file /\ broken' = broken
  /\ issued \in Nat /\ issued' \in Nat /\ issued <= issued'
  /\ outside \subseteq outside' /\ outside' \subseteq 1..issued'
  /\ valid \ valid' \subseteq outside'

LEMMA ShareKeeps ==
  ASSUME Claims, NoName \notin Name, Shares
  PROVE  Claims'
<1> USE DEF Claims
<1>1. \A t : t \notin outside' => Own(t)' = Own(t) /\ t \notin outside
  BY DEF Own, Shares
<1>2. \A g \in Fry : /\ \A t \in Tokens(g)' : t \in Tokens(g) /\ run'[g] = run[g]
                     /\ New(g)' => New(g) /\ run'[g] = run[g]
                     /\ Writes(g)' => Writes(g) /\ run'[g] = run[g]
                     /\ Hot(g) \/ run[g].open # NoName => run'[g] = run[g]
  BY DEF Shares, Tokens, New, Writes, Hot, Own
<1>s. \A g \in Fry : run'[g] = run[g] => Hot(g)' = Hot(g) /\ Writes(g)' = Writes(g)
  BY DEF Hot, Writes
<1>3. \A n \in Name : Saved(n)' => Saved(n) /\ file'[n] = file[n]
  BY DEF Shares, Saved, Own
<1>4. AllLoaded' /\ AllIssued'
  BY DEF Shares, AllLoaded, AllIssued
<1>5. ASSUME NEW n, NEW t, Rescued(n, t), t \notin outside' PROVE Rescued(n, t)'
  <2>1. CASE t \in valid
    BY <1>5, <2>1 DEF Rescued, Shares
  <2>2. CASE t \notin valid
    <3>1. PICK g \in Fry : /\ run[g].name = n /\ run[g].step = "save"
                           /\ Rotated(g) /\ run[g].seen.refresh = t
      BY <1>5, <2>2 DEF Rescued
    <3>2. run'[g] = run[g]
      BY <1>2, <3>1 DEF Hot
    <3>3. QED
      BY <3>1, <3>2 DEF Rescued, Rotated
  <2>3. QED
    BY <2>1, <2>2
<1>6. FilesOK'
  <2> SUFFICES ASSUME NEW n \in Name, n \notin broken PROVE FileOK(n)'
    BY DEF FilesOK, Shares
  <2>1. FileOK(n)
    BY DEF FilesOK
  <2>2. file[n].is = "torn" => \E g \in Fry : run'[g].open = n
    BY <1>2, <2>1 DEF FileOK
  <2>3. ASSUME Saved(n)', NEW t, t = file[n].refresh PROVE Rescued(n, t)'
    BY <1>3, <1>5, <2>1, <2>3 DEF FileOK, Saved, Own, Shares
  <2>4. QED
    BY <1>2, <1>s, <1>3, <2>1, <2>2, <2>3 DEF FileOK, Rescued, Shares
<1>7. OpensOK'
  BY <1>2 DEF OpensOK, Shares
<1>8. WritesOK'
  <2> SUFFICES ASSUME NEW g \in Fry, Writes(g)', run'[g].name \notin broken
               PROVE  WriteOK(g)'
    BY DEF WritesOK, Shares
  <2>1. Writes(g) /\ run'[g] = run[g] /\ WriteOK(g)
    BY <1>2 DEF WritesOK
  <2>2. ASSUME Own(run[g].token)', NEW n, n = run[g].name, NEW t, t = run[g].token
        PROVE  Rescued(n, t)'
    BY <1>5, <2>1, <2>2 DEF WriteOK, Own, Shares
  <2>3. QED
    BY <1>2, <1>s, <1>3, <2>1, <2>2 DEF WriteOK, Rescued
<1>9. NewsOK'
  <2> SUFFICES ASSUME NEW g \in Fry, New(g)' PROVE NewOK(g)'
    BY DEF NewsOK
  <2>1. New(g) /\ run'[g] = run[g] /\ NewOK(g)
    BY <1>2 DEF NewsOK
  <2>2. run[g].token \in valid'
    BY <2>1 DEF NewOK, New, Own, Shares
  <2>3. QED
    BY <1>2, <1>s, <1>3, <2>1, <2>2 DEF NewOK
<1>10. QED
  BY <1>4, <1>6, <1>7, <1>8, <1>9

LEMMA AddShares ==
  ASSUME KeyInv, Claims, NEW f \in Fry, Add(f)
  PROVE  Shares
<1>0. /\ run[f] \in Run /\ run \in [Fry -> Run] /\ LoadedOK(run[f]) /\ RunOK(run[f])
      /\ issued \in Nat /\ issued <= issued /\ 0 \in 0..issued /\ outside \subseteq 1..issued
  BY Types DEF Claims, AllIssued
<1>1. run[f].step = "ready" /\ UNCHANGED <<file, broken, valid, issued, outside>>
  BY DEF Add, At, files, server
<1>2. PICK n \in Name, t \in outside : Become(f, "add", "save", n, t)
  BY DEF Add
<1>3. /\ \A g \in Fry \ {f} : run'[g] = run[g]
      /\ run'[f].step = "save" /\ run'[f].cmd = "add"
      /\ run'[f].token = t /\ run'[f].seen = run[f].seen
  BY <1>0, <1>2 DEF Become, Run
<1>4. run[f].seen = Absent /\ Absent.refresh = 0
  BY <1>0, <1>1 DEF LoadedOK, Absent
<1>5. LoadedOK(run'[f])
  BY <1>3, <1>4 DEF LoadedOK
<1>6. Tokens(f)' = {} /\ ~New(f)' /\ ~Writes(f)'
  BY <1>1, <1>3, <1>4 DEF Tokens, New, Writes, Own
<1>7. ~Hot(f) /\ run[f].open = NoName
  BY <1>0, <1>1 DEF Hot, RunOK
<1>8. t \in 0..issued
  BY <1>0
<1>9. QED
  BY <1>0, <1>1, <1>3, <1>4, <1>5, <1>6, <1>7, <1>8 DEF Shares

LEMMA ExportShares ==
  ASSUME KeyInv, Claims, NEW f \in Fry, Export(f)
  PROVE  Shares
<1>0. /\ run \in [Fry -> Run] /\ RunOK(run[f])
      /\ issued \in Nat /\ issued <= issued /\ 0 \in 0..issued /\ outside \subseteq 1..issued
      /\ \A n \in Name : file[n].refresh \in 0..issued
  BY Types DEF Claims, AllIssued
<1>1. run[f].step = "ready" /\ UNCHANGED <<file, broken, valid, issued>>
  BY DEF Export, At, files
<1>2. outside \subseteq outside' /\ outside' \subseteq 1..issued
  <2>1. PICK n \in Name : outside' = outside \cup ({file[n].refresh} \ {0})
    BY DEF Export
  <2>2. file[n].refresh \in 0..issued /\ issued \in Nat /\ outside \subseteq 1..issued
    BY <1>0
  <2> DEFINE t == file[n].refresh
  <2> HIDE DEF t
  <2>3. {t} \ {0} \subseteq 1..issued
    BY ONLY <2>2 DEF t
  <2>4. QED
    BY <2>1, <2>2, <2>3 DEF t
<1>3. run'[f] = [Idle EXCEPT !.step = "done"] /\ \A g \in Fry \ {f} : run'[g] = run[g]
  BY <1>0 DEF Export, End
<1>4. run'[f].step = "done" /\ run'[f].token = 0 /\ run'[f].seen.refresh = 0
  BY <1>3 DEF Idle, Absent
<1>5. LoadedOK(run'[f]) /\ Tokens(f)' = {} /\ ~New(f)' /\ ~Writes(f)'
  BY <1>4 DEF LoadedOK, Tokens, New, Writes, Own
<1>6. ~Hot(f) /\ run[f].open = NoName
  BY <1>0, <1>1 DEF Hot, RunOK
<1>7. QED
  BY <1>0, <1>1, <1>2, <1>3, <1>4, <1>5, <1>6 DEF Shares

LEMMA ElsewhereShares ==
  ASSUME KeyInv, Claims, Elsewhere
  PROVE  Shares
<1>1. issued \in Nat /\ outside \subseteq 1..issued /\ valid \subseteq 1..issued
  BY MaxTokensAssumption DEF KeyInv, AccountsTypeOK, Token, Claims, AllIssued
<1>2. /\ UNCHANGED <<file, broken, run>>
      /\ issued' = issued + 1 /\ outside' = outside \cup {issued'}
  BY DEF Elsewhere, Issue, files
<1>3. PICK t \in (outside \cap valid) \cup {0} : valid' = (valid \ {t}) \cup {issued'}
  BY DEF Elsewhere
<1>4. \A u \in valid \ valid' : u \in outside'
  BY <1>1, <1>2, <1>3
<1>5. issued' \in Nat /\ issued <= issued' /\ outside' \subseteq 1..issued'
  BY <1>1, <1>2
<1>6. QED
  BY <1>1, <1>2, <1>4, <1>5 DEF Shares

LEMMA ClaimsStep ==
  ASSUME KeyInv, Claims, NEW f \in Fry, Step(f) \/ Interrupt(f)
  PROVE  Claims'
<1>0. RunOK(run[f]) /\ AccountsTypeOK /\ NoName \notin Name
  BY Types, NoNameAssumption DEF KeyInv
<1>1. CASE Leaves(f)
  BY <1>0, <1>1, LeaveKeeps
<1>2. CASE Takes(f)
  BY <1>2, TakeKeeps
<1>3. CASE OpenAccount(f)
  BY <1>0, <1>1, <1>3, OpenAccountKeeps, OpenKeeps
<1>4. CASE WriteAccount(f)
  BY <1>0, <1>1, <1>4, WriteAccountKeeps, PutKeeps
<1>5. CASE Unlink(f)
  <2>1. run[f].name \in Name
    BY <1>0, <1>5 DEF Unlink, At, RunOK, Working
  <2>2. ASSUME NEW old \in Name, Moves(f, old, NoName) PROVE Claims'
    BY <1>0, <2>2, MoveKeeps
  <2>3. QED
    BY <1>1, <1>5, <2>1, <2>2, UnlinkKeeps
<1>6. CASE RenameFile(f)
  <2>1. run[f].name \in Name /\ run[f].to \in Name
    BY <1>0, <1>6 DEF RenameFile, At, RunOK, Working
  <2>2. ASSUME NEW old \in Name, NEW new \in Name, Moves(f, old, new) PROVE Claims'
    BY <1>0, <2>2, MoveKeeps
  <2>3. QED
    BY <1>1, <1>6, <2>1, <2>2, RenameKeeps
<1>7. CASE Request(f)
  BY <1>1, <1>2, <1>7, RequestKeeps
<1>8. CASE Login(f) \/ ApiKey(f) \/ Refresh(f) \/ Expire(f)
  BY <1>2, <1>8, LoginTakes, ApiKeyTakes, LoadTakes
<1>a. CASE Add(f) \/ Export(f)
  BY <1>0, <1>a, AddShares, ExportShares, ShareKeeps
<1>9. CASE Interrupt(f)
  BY <1>1, <1>9, FailLeaves DEF Interrupt, files, server
<1>10. QED
  BY <1>1, <1>3, <1>4, <1>5, <1>6, <1>7, <1>8, <1>a, <1>9, IdleSteps
  DEF Step

LEMMA LoginStep == LoginInv /\ [Next]_vars => LoginInv'
<1> SUFFICES ASSUME LoginInv, [Next]_vars PROVE Claims'
  BY KeyStep DEF LoginInv
<1>1. CASE UNCHANGED vars
  <2>1. UNCHANGED <<run, file, issued, valid, outside, broken>>
    BY <1>1 DEF vars, files, server
  <2>2. AllLoaded' /\ AllIssued' /\ OpensOK'
    BY <2>1 DEF LoginInv, Claims, AllLoaded, AllIssued, OpensOK, Writes
  <2>3. \A n, t : Rescued(n, t) => Rescued(n, t)'
    BY <2>1 DEF Rescued, Rotated
  <2>4. FilesOK'
    BY <2>1, <2>3 DEF LoginInv, Claims, FilesOK, FileOK, Saved, Hot, Tokens, Own
  <2>5. WritesOK'
    <3>1. ASSUME NEW f \in Fry, Writes(f)', run'[f].name \notin broken' PROVE WriteOK(f)'
      <4>1. WriteOK(f)
        BY <2>1, <3>1 DEF LoginInv, Claims, WritesOK, Writes
      <4>2. QED
        BY <2>1, <2>3, <4>1 DEF WriteOK, Writes, Saved, Hot, Tokens, Own
    <3>2. QED
      BY <3>1 DEF WritesOK
  <2>6. NewsOK'
    BY <2>1 DEF LoginInv, Claims, NewsOK, NewOK, New, Saved, Hot, Tokens, Own
  <2>7. QED
    BY <2>2, <2>4, <2>5, <2>6 DEF Claims
<1>2. ASSUME NEW f \in Fry, Step(f) \/ Interrupt(f) PROVE Claims'
  BY <1>2, ClaimsStep DEF LoginInv
<1>3. CASE Elsewhere
  BY <1>3, ElsewhereShares, ShareKeeps, NoNameAssumption DEF LoginInv
<1>4. QED
  BY <1>1, <1>2, <1>3 DEF Next

LEMMA LoginInvariant == Spec => []LoginInv
  BY LoginInit, LoginStep, PTL DEF Spec

\* For any number of commands, accounts and tokens, whatever is imported, exported and
\* refreshed elsewhere: a saved account whose token is fry's alone can still be used, or
\* the command that has its new token is about to save it, unless a command was
\* interrupted or failed over that account, or came too late
\* (app_oauth_token_refresh and app_oauth_account_save).
THEOREM LoginIsKept == Spec => []LoginKept
<1>1. LoginInv => LoginKept
  <2> SUFFICES ASSUME Claims, NEW n \in Name, n \notin broken
               PROVE  /\ file[n].is = "torn" => \E f \in Fry : run[f].open = n
                      /\ Saved(n) =>
                           \/ file[n].refresh \in valid
                           \/ \E f \in Fry : /\ run[f].name = n /\ Rotated(f)
                                             /\ run[f].step \in {"save", "write"}
    BY DEF LoginInv, LoginKept, Saved, Own
  <2>1. FileOK(n)
    BY DEF Claims, FilesOK
  <2>2. QED
    BY <2>1 DEF FileOK, Rescued
<1>2. QED
  BY <1>1, LoginInvariant, PTL
=============================================================================
