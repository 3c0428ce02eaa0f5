------------------------------ MODULE Accounts ------------------------------
(***************************************************************************)
(* The account commands of fry (src/cli/commands/cmd_auth.c,               *)
(* cmd_accounts.c, and the tokens and config commands of cmd_stubs.c, over *)
(* src/core/auth/ and src/core/config.c).  Every command is a process of   *)
(* its own: it reads or makes the key, reads the configuration, does its   *)
(* work and ends.  Commands share the files of ~/.fry, the keychain and    *)
(* the server that issues the tokens, may overlap, and may be interrupted  *)
(* at any point.  Of a token the model keeps the refresh token.            *)
(***************************************************************************)
EXTENDS Integers, FiniteSets

CONSTANTS
  Fry,       \* bound: the commands there will be
  Name,      \* the names of accounts
  Key,       \* bound: the encryption keys that can be made
  MaxTokens, \* bound: the refresh tokens the server can issue
  Keychain,  \* whether the keychain takes tokens: it does on macOS, and on Linux
             \* app_keychain_store_token has no case for it
  NoName, NoKey

ASSUME NoNameAssumption    == NoName \notin Name
ASSUME NoKeyAssumption     == NoKey \notin Key
ASSUME MaxTokensAssumption == MaxTokens \in Nat
ASSUME KeychainAssumption  == Keychain \in BOOLEAN

VARIABLES
  key_file,    \* ~/.fry/.key: NoKey while there is none or it is cut short
  file,        \* ~/.fry/accounts/<name>.enc
  keychain,    \* the refresh tokens in the keychain, -1 where there is none
  config_file, \* default_account of config.json; NoName without one, and while the
               \* file is missing or empty: it is read as no default
  issued,      \* the number of refresh tokens the server has issued
  valid,       \* those it accepts
  outside,     \* those that are, or were, outside ~/.fry too: exported, or another
               \* program's
  run,         \* the commands
  raced,       \* two commands made a key at the same time
  broken       \* the accounts whose file was damaged by an interruption, a failing
               \* disk or connection, or commands on one account that overlapped

files  == <<key_file, file, config_file>>
server == <<issued, valid, outside>>
vars   == <<files, keychain, server, run, raced, broken>>

Token  == 0..MaxTokens      \* 0 is the empty refresh token of an API key
Absent == [is |-> "absent", key |-> NoKey, refresh |-> 0]
Torn   == [is |-> "torn", key |-> NoKey, refresh |-> 0]
Whole(k, t) == [is |-> "whole", key |-> k, refresh |-> t]
File   == {Absent, Torn} \cup {Whole(k, t) : k \in Key, t \in Token}

Steps == {"off", "key", "open key", "write key", "config", "ready", "request",
          "save", "write", "store", "count", "forget", "unlink", "rename",
          "open config", "write config", "done"}
Commands == {"none", "login", "api key", "add", "logout", "rm", "use", "rename",
             "refresh", "expire", "config"}

\* What a command has in memory.
Run == [step    : Steps,
        cmd     : Commands,
        name    : Name \cup {NoName},  \* the account it works on
        to      : Name \cup {NoName},  \* its new name
        key     : Key \cup {NoKey},    \* g_encryption_key
        default : Name \cup {NoName},  \* config->default_account
        token   : Token,               \* account->token
        seen    : File,                \* the account's file when it was loaded
        open    : Name \cup {NoName}]  \* what the file it writes is called now

Idle == [step |-> "off", cmd |-> "none", name |-> NoName, to |-> NoName,
         key |-> NoKey, default |-> NoName, token |-> 0, seen |-> Absent,
         open |-> NoName]

AccountsTypeOK ==
  /\ key_file    \in Key \cup {NoKey}
  /\ file        \in [Name -> File]
  /\ keychain    \in [Name -> Token \cup {-1}]
  /\ config_file \in Name \cup {NoName}
  /\ issued      \in Token
  /\ valid       \subseteq 1..issued
  /\ outside     \subseteq Token \ {0}
  /\ run         \in [Fry -> Run]
  /\ \A f \in Fry : run[f].open # NoName => run[f].step = "write"
  /\ raced       \in BOOLEAN
  /\ broken      \subseteq Name

\* A new installation.
Init ==
  /\ key_file    = NoKey
  /\ file        = [n \in Name |-> Absent]
  /\ keychain    = [n \in Name |-> -1]
  /\ config_file = NoName
  /\ issued = 0 /\ valid = {} /\ outside = {}
  /\ run    = [f \in Fry |-> Idle]
  /\ raced  = FALSE
  /\ broken = {}

-----------------------------------------------------------------------------

At(f, step) == run[f].step = step
Go(f, step) == run' = [run EXCEPT ![f].step = step]
End(f)      == run' = [run EXCEPT ![f] = [Idle EXCEPT !.step = "done"]]

\* The accounts that lose their refresh token when f ends here: the file it is
\* writing, and the one whose token the server has replaced.
Rotated(f) == run[f].cmd = "refresh" /\ run[f].token # run[f].seen.refresh
Loses(f) ==
  (IF At(f, "write") THEN {run[f].open} \ {NoName} ELSE {}) \cup
  (IF Rotated(f) /\ run[f].step \in {"save", "write"} THEN {run[f].name} ELSE {})

\* An error, or the user's interrupt.
Fail(f) == End(f) /\ broken' = broken \cup Loses(f)

Interrupt(f) ==
  /\ run[f].step \notin {"off", "done"}
  /\ Fail(f)
  /\ UNCHANGED <<files, keychain, server, raced>>

-----------------------------------------------------------------------------
(* The start of every command.                                             *)

Begin(f) ==
  /\ At(f, "off")
  /\ Go(f, "key")
  /\ UNCHANGED <<files, keychain, server, raced, broken>>

MakingKey(f) == run[f].step \in {"open key", "write key"}

NewKeys == Key \ ({key_file} \cup {run[f].key : f \in Fry} \cup
                  {file[n].key : n \in Name})

\* Mutant: a key is made every time.
ReadKeyAnew(f) ==
  /\ At(f, "key")
  /\ \E k \in NewKeys : run' = [run EXCEPT ![f].step = "open key", ![f].key = k]
  /\ raced' = (raced \/ \E g \in Fry : MakingKey(g))
  /\ UNCHANGED <<files, keychain, server, broken>>

\* load_or_generate_key: a key file that is whole is used, else a key is made.
ReadKey(f) ==
  /\ At(f, "key")
  /\ \/ /\ key_file # NoKey
        /\ run' = [run EXCEPT ![f].step = "config", ![f].key = key_file]
        /\ UNCHANGED raced
     \/ /\ key_file = NoKey
        /\ \E k \in NewKeys :
             run' = [run EXCEPT ![f].step = "open key", ![f].key = k]
        /\ raced' = (raced \/ \E g \in Fry : MakingKey(g))
  /\ UNCHANGED <<files, keychain, server, broken>>

\* The file is emptied, then written; each can fail.
OpenKey(f) ==
  /\ At(f, "open key")
  /\ \/ key_file' = NoKey /\ Go(f, "write key")
     \/ UNCHANGED key_file /\ End(f)
  /\ UNCHANGED <<file, config_file, keychain, server, raced, broken>>

WriteKey(f) ==
  /\ At(f, "write key")
  /\ \/ key_file' = run[f].key /\ Go(f, "config")
     \/ UNCHANGED key_file /\ End(f)
  /\ UNCHANGED <<file, config_file, keychain, server, raced, broken>>

\* app_config_load_default
LoadConfig(f) ==
  /\ At(f, "config")
  /\ run' = [run EXCEPT ![f].step = "ready", ![f].default = config_file]
  /\ UNCHANGED <<files, keychain, server, raced, broken>>

-----------------------------------------------------------------------------
(* The commands, each up to its first effect.                              *)

Become(f, cmd, step, n, t) ==
  run' = [run EXCEPT ![f].cmd = cmd, ![f].step = step, ![f].name = n, ![f].token = t]

Issue == issued < MaxTokens /\ issued' = issued + 1

\* auth login with a code: the server takes it and gives the account n a token.
Login(f) ==
  /\ At(f, "ready")
  /\ Issue
  /\ valid' = valid \cup {issued'}
  /\ \E n \in Name : Become(f, "login", "save", n, issued')
  /\ UNCHANGED <<files, keychain, outside, raced, broken>>

\* accounts add: the token of a credentials file is taken as it is, without asking the
\* server.  It may have been exported or imported before, or be valid no more.
Add(f) ==
  /\ At(f, "ready")
  /\ \E n \in Name, t \in outside : Become(f, "add", "save", n, t)
  /\ UNCHANGED <<files, keychain, server, raced, broken>>

\* Another program of the user logs in, or has its token replaced by the server.
Elsewhere ==
  /\ Issue
  /\ \E t \in (outside \cap valid) \cup {0} : valid' = (valid \ {t}) \cup {issued'}
  /\ outside' = outside \cup {issued'}
  /\ UNCHANGED <<files, keychain, run, raced, broken>>

\* auth login with an API key.
ApiKey(f) ==
  /\ At(f, "ready")
  /\ \E n \in Name : Become(f, "api key", "save", n, 0)
  /\ UNCHANGED <<files, keychain, server, raced, broken>>

\* app_oauth_account_load: a file cut short does not decrypt, nor one of another key.
Loads(f, n) == file[n].is = "whole" /\ file[n].key = run[f].key

\* auth logout of an account that loads.
Logout(f) ==
  /\ At(f, "ready")
  /\ \E n \in Name : Loads(f, n) /\ Become(f, "logout", "forget", n, 0)
  /\ UNCHANGED <<files, keychain, server, raced, broken>>

\* accounts export prints the token of an account that loads, for another program.
Export(f) ==
  /\ At(f, "ready")
  /\ \E n \in Name : Loads(f, n) /\ outside' = outside \cup ({file[n].refresh} \ {0})
  /\ End(f)
  /\ UNCHANGED <<files, keychain, issued, valid, raced, broken>>

\* The tokens commands load the account.  They refuse access tokens that begin as API
\* keys do, which an account with no refresh token may hold or not.
LoadToken(f, cmd, step) ==
  /\ At(f, "ready")
  /\ \E n \in Name :
       /\ Loads(f, n)
       /\ run' = [run EXCEPT ![f].cmd = cmd, ![f].step = step, ![f].name = n,
                             ![f].token = file[n].refresh, ![f].seen = file[n]]
  /\ UNCHANGED <<files, keychain, server, raced, broken>>

Refresh(f) == LoadToken(f, "refresh", "request")

\* tokens expire saves what it loaded, with the expiry in the past.
Expire(f) == LoadToken(f, "expire", "save")

Exists(n) == file[n].is # "absent"

\* accounts rm asks for a confirmation.
Remove(f) ==
  /\ At(f, "ready")
  /\ \E n \in Name : Exists(n) /\ Become(f, "rm", "unlink", n, 0)
  /\ UNCHANGED <<files, keychain, server, raced, broken>>

SetDefault(f, cmd, n) ==
  run' = [run EXCEPT ![f].cmd = cmd, ![f].step = "open config", ![f].default = n]

\* accounts use, of an account that exists.
Use(f) ==
  /\ At(f, "ready")
  /\ \E n \in Name : Exists(n) /\ SetDefault(f, "use", n)
  /\ UNCHANGED <<files, keychain, server, raced, broken>>

\* config set default_account, of any name.
ConfigSet(f) ==
  /\ At(f, "ready")
  /\ \E n \in Name : SetDefault(f, "config", n)
  /\ UNCHANGED <<files, keychain, server, raced, broken>>

\* config edit, before the editor opens: the configuration is written back with the
\* default account that was read.  What the user then writes is as if it were set.
SaveConfig(f) ==
  /\ At(f, "ready")
  /\ Become(f, "config", "open config", NoName, 0)
  /\ UNCHANGED <<files, keychain, server, raced, broken>>

\* config reset does no more: app_config_set_default_account ignores NULL.
Reset(f) == SaveConfig(f)

Rename(f) ==
  /\ At(f, "ready")
  /\ \E old, new \in Name :
       /\ Exists(old) /\ ~Exists(new)
       /\ run' = [run EXCEPT ![f].cmd = "rename", ![f].step = "rename",
                             ![f].name = old, ![f].to = new]
  /\ UNCHANGED <<files, keychain, server, raced, broken>>

\* A command that only reads, or whose argument, account or answer is refused.
Refused(f) ==
  /\ At(f, "ready")
  /\ End(f)
  /\ UNCHANGED <<files, keychain, server, raced, broken>>

-----------------------------------------------------------------------------
(* The effects.                                                            *)

\* Mutant: the refresh token of the answer is not taken.
RotateKeepsOld(f) ==
  /\ Issue
  /\ valid' = (valid \ {run[f].token}) \cup {issued'} /\ UNCHANGED outside
  /\ \/ Go(f, "save") /\ UNCHANGED broken
     \/ End(f) /\ broken' = broken \cup {run[f].name}

\* The server takes the refresh token and answers with another one; the answer
\* arrives, or it is lost or does not parse.
Rotate(f) ==
  /\ Issue
  /\ valid' = (valid \ {run[f].token}) \cup {issued'} /\ UNCHANGED outside
  /\ \/ /\ run' = [run EXCEPT ![f].step = "save", ![f].token = issued']
        /\ UNCHANGED broken
     \/ End(f) /\ broken' = broken \cup {run[f].name}

\* app_oauth_token_refresh: the server may also let the token stand, and refuses
\* one it does not know; the connection may fail.  Without a refresh token nothing is
\* sent.
Request(f) ==
  /\ At(f, "request")
  /\ \/ run[f].token \in valid /\ Rotate(f)
     \/ run[f].token \in valid /\ Go(f, "save") /\ UNCHANGED <<server, broken>>
     \/ Fail(f) /\ UNCHANGED server
  /\ UNCHANGED <<files, keychain, raced>>

\* The file is not the one that was loaded: another command has changed the account.
Stale(f) ==
  run[f].cmd \in {"refresh", "expire"} /\ file[run[f].name] # run[f].seen

\* app_oauth_account_save empties or creates the file ...
OpenAccount(f) ==
  /\ At(f, "save")
  /\ \/ /\ file' = [file EXCEPT ![run[f].name] = Torn]
        /\ run'  = [run EXCEPT ![f].step = "write", ![f].open = run[f].name]
        /\ broken' = IF Stale(f) THEN broken \cup {run[f].name} ELSE broken
     \/ Fail(f) /\ UNCHANGED file
  /\ UNCHANGED <<key_file, config_file, keychain, server, raced>>

AfterSave(f) == IF run[f].cmd \in {"add", "expire"} THEN "done" ELSE "store"

\* Mutant: the descriptor is not closed.
WriteLeavesOpen(f) ==
  /\ At(f, "write")
  /\ file' = [file EXCEPT ![run[f].open] = Whole(run[f].key, run[f].token)]
  /\ Go(f, AfterSave(f))
  /\ UNCHANGED <<key_file, config_file, keychain, server, raced, broken>>

\* Bytes of another command that has written the file since it was emptied stay
\* behind a shorter text, and the file cannot be decrypted.
Mixed(n) == n \in Name /\ file[n].is = "whole"

\* ... and writes it, wherever it was moved to in between; a file that was removed
\* is written for nobody.
WriteAccount(f) ==
  LET n == run[f].open
  IN  /\ At(f, "write")
      /\ \/ /\ \/ /\ file' = [m \in Name |-> IF m = n THEN Whole(run[f].key, run[f].token)
                                                 ELSE file[m]]
                 /\ UNCHANGED broken
              \/ /\ Mixed(n)
                 /\ file' = [file EXCEPT ![n] = Torn]
                 /\ broken' = broken \cup {n}
            /\ IF AfterSave(f) = "done" THEN End(f)
               ELSE run' = [run EXCEPT ![f].step = AfterSave(f), ![f].open = NoName]
         \/ Fail(f) /\ UNCHANGED file
  /\ UNCHANGED <<key_file, config_file, keychain, server, raced>>

\* app_keychain_store_token; its failure is only logged.
Store(f) ==
  /\ At(f, "store")
  /\ \/ Keychain /\ keychain' = [keychain EXCEPT ![run[f].name] = run[f].token]
     \/ UNCHANGED keychain
  /\ IF run[f].cmd = "login" THEN Go(f, "count") ELSE End(f)
  /\ UNCHANGED <<files, server, raced, broken>>

\* The first account that is logged in to becomes the default one.
Count(f) ==
  /\ At(f, "count")
  /\ IF Cardinality({n \in Name : Loads(f, n)}) = 1
       THEN run' = [run EXCEPT ![f].step = "open config", ![f].default = run[f].name]
       ELSE End(f)
  /\ UNCHANGED <<files, keychain, server, raced, broken>>

\* app_keychain_delete_token; its failure is only logged.
Forget(f) ==
  /\ At(f, "forget")
  /\ keychain' \in {keychain, [keychain EXCEPT ![run[f].name] = -1]}
  /\ Go(f, "unlink")
  /\ UNCHANGED <<files, server, raced, broken>>

\* What files that are being written are called after a name was given to another
\* file or to none.
Moved(g, old, new) ==
  IF run[g].open = old THEN new ELSE IF run[g].open = new THEN NoName ELSE run[g].open

\* "If this was the default account, clear it".
Unlink(f) ==
  LET n == run[f].name
  IN  /\ At(f, "unlink")
      /\ \/ /\ Exists(n)
            /\ file' = [file EXCEPT ![n] = Absent]
            /\ run'  = [g \in Fry |->
                 IF g # f THEN [run[g] EXCEPT !.open = Moved(g, n, NoName)]
                 ELSE IF run[f].default = n THEN [run[f] EXCEPT !.step = "open config"]
                 ELSE [Idle EXCEPT !.step = "done"]]
         \/ End(f) /\ UNCHANGED file
      /\ UNCHANGED <<key_file, config_file, keychain, server, raced, broken>>

\* Commands on the account that moves will save it under its old name.
RenameFile(f) ==
  LET old == run[f].name  new == run[f].to
  IN  /\ At(f, "rename")
      /\ \/ /\ Exists(old)
            /\ file' = [file EXCEPT ![new] = file[old], ![old] = Absent]
            /\ run'  = [g \in Fry |->
                 IF g # f THEN [run[g] EXCEPT !.open = Moved(g, old, new)]
                 ELSE IF run[f].default = old
                   THEN [run[f] EXCEPT !.step = "open config", !.default = new]
                 ELSE [Idle EXCEPT !.step = "done"]]
            /\ broken' = IF \/ old \in broken
                            \/ \E g \in Fry : /\ run[g].name = old
                                              /\ run[g].step \in {"request", "save", "write"}
                           THEN broken \cup {new} ELSE broken
         \/ End(f) /\ UNCHANGED <<file, broken>>
      /\ UNCHANGED <<key_file, config_file, keychain, server, raced>>

\* app_config_save empties the file ...
OpenConfig(f) ==
  /\ At(f, "open config")
  /\ \/ config_file' = NoName /\ Go(f, "write config")
     \/ UNCHANGED config_file /\ End(f)
  /\ UNCHANGED <<key_file, file, keychain, server, raced, broken>>

\* ... and writes it without looking at the outcome: nothing may be written, and
\* mixed with the text of another command it does not parse.
WriteConfig(f) ==
  /\ At(f, "write config")
  /\ config_file' \in {run[f].default, config_file, NoName}
  /\ End(f)
  /\ UNCHANGED <<key_file, file, keychain, server, raced, broken>>

Step(f) ==
  \/ Begin(f) \/ ReadKey(f) \/ OpenKey(f) \/ WriteKey(f) \/ LoadConfig(f)
  \/ Login(f) \/ Add(f) \/ ApiKey(f) \/ Logout(f) \/ Export(f) \/ Refresh(f) \/ Expire(f)
  \/ Remove(f) \/ Use(f) \/ ConfigSet(f) \/ Reset(f) \/ Rename(f)
  \/ Refused(f)
  \/ Request(f) \/ OpenAccount(f) \/ WriteAccount(f) \/ Store(f) \/ Count(f)
  \/ Forget(f) \/ Unlink(f) \/ RenameFile(f) \/ OpenConfig(f) \/ WriteConfig(f)

Next == Elsewhere \/ \E f \in Fry : Step(f) \/ Interrupt(f)

Spec == Init /\ [][Next]_vars

-----------------------------------------------------------------------------
(* Properties.                                                             *)

\* Accounts can be read again: whatever is interrupted, also while the key is made,
\* every account that was saved is under the key that later commands will read,
\* unless two first commands were making the key at once.
AccountsReadable ==
  ~raced => \A n \in Name : file[n].is = "whole" => file[n].key = key_file

\* The refresh token t is fry's alone: a login or fry's own refresh brought it, and it
\* was not exported since.
Own(t) == t # 0 /\ t \notin outside

\* A login is not lost: a file with a refresh token that is fry's alone holds one that
\* the server takes, or a command that was given its successor is about to save it.
\* That is so for any overlap of commands and any use of other accounts; only the
\* account is excepted over which a command was interrupted or failed, or saved what
\* another had changed since.  A token imported or exported may be used up elsewhere.
LoginKept ==
  \A n \in Name \ broken :
    /\ file[n].is = "torn" => \E f \in Fry : run[f].open = n
    /\ file[n].is = "whole" /\ Own(file[n].refresh) =>
         \/ file[n].refresh \in valid
         \/ \E f \in Fry : /\ run[f].name = n /\ Rotated(f)
                           /\ run[f].step \in {"save", "write"}
=============================================================================
