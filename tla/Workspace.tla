----------------------------- MODULE Workspace -----------------------------
(***************************************************************************)
(* The workspace file (src/tui/tui_workspace.c): :save writes the layout   *)
(* mode and the accounts of the panes as JSON, :load closes all panes and  *)
(* opens the ones of the file.  The panes are those of PaneLayout, with    *)
(* the account of each; how a name fares in JSON is told by JsonStrings.   *)
(* The file stands for any path given to the two commands.                 *)
(***************************************************************************)
EXTENDS PaneLayout, JsonStrings

CONSTANTS
  Account,   \* the account names, sequences of characters
  NoAccount  \* a pane opened without one

ASSUME AccountAssumption == Account \subseteq Seq(STRING)

VARIABLES
  accounts,  \* account_id of each pane, by position
  file,      \* what is at the path
  saved      \* the panes at the last completed save, history for the properties

workspaceVars == <<layoutVars, accounts, file, saved>>

\* The content of the file that :load looks at: the mode, and the account names as
\* parse_string finds them.  An object that has no layout is like one without panes.
Document(m, names) == [mode |-> m, names |-> names]
NoDocument == Document("grid", <<>>)
None       == [mode |-> "none", names |-> <<>>]
Missing    == [state |-> "missing", content |-> None]
Cut        == [state |-> "cut", content |-> None]    \* empty, or without its end
Whole(d)   == [state |-> "whole", content |-> d]

WorkspaceInit ==
  /\ LayoutInit
  /\ accounts = <<>>
  /\ file \in {Missing, Whole(NoDocument)}
  /\ saved = None

-----------------------------------------------------------------------------
(* Panes.                                                                  *)

New(a) ==
  /\ AddPane
  /\ accounts' = Append(accounts, a)
  /\ UNCHANGED <<file, saved>>

Close(k) ==
  /\ RemovePane(k)
  /\ accounts' = RemoveAt(accounts, k)
  /\ UNCHANGED <<file, saved>>

-----------------------------------------------------------------------------
(* Saving.                                                                 *)

NameOf(a) == IF a = NoAccount THEN <<>> ELSE a

Names == [k \in Positions |-> Reread(NameOf(accounts[k]))]

\* Without panes there is nothing to allocate, which counts as a failure; otherwise the
\* file is emptied and written.
Save ==
  /\ geometry # <<>>
  /\ file' = Whole(Document(mode, Names))
  /\ saved' = Document(mode, accounts)
  /\ UNCHANGED <<layoutVars, accounts>>

\* The program ends between fopen and fclose, or at any other time, and is started
\* again.  What was in the file before is lost in the first case.
Restart ==
  /\ \/ file' = file /\ saved' = saved
     \/ geometry # <<>> /\ file' = Cut /\ saved' = None
  /\ screen' \in [width : Widths, height : Heights]
  /\ mode' = "grid" /\ geometry' = <<>> /\ focus' = 0 /\ wrap' = FALSE
  /\ accounts' = <<>>

-----------------------------------------------------------------------------
(* Loading.                                                                *)

\* The panes opened one after the other in mode m.  The first has the focus; every
\* arrangement goes over all panes so far, so the last one decides.
Opened(m, n) == Arranged(m, [k \in 1..n |-> Temporary], 1)

\* Beyond max_panes app_tui_pane_create fails, and the loop goes on.
LoadDocument(d) ==
  LET n == IF Len(d.names) < MaxPanes THEN Len(d.names) ELSE MaxPanes
  IN  /\ mode' = d.mode
      /\ geometry' = Opened(d.mode, n)
      /\ accounts' = SubSeq(d.names, 1, n)
      /\ focus' = IF n = 0 THEN 0 ELSE 1
      /\ UNCHANGED <<screen, wrap, file, saved>>

\* Mutant: the panes are closed before the file is parsed.
LoadClosesFirst ==
  \/ file.state = "whole" /\ LoadDocument(file.content)
  \/ file.state # "whole" /\ LoadDocument(Document(mode, <<>>))

\* Nothing is closed before the file is read and parsed.
Load ==
  \/ file.state = "whole" /\ LoadDocument(file.content)
  \/ file.state # "whole" /\ UNCHANGED workspaceVars

Next ==
  \/ \E a \in Account \cup {NoAccount} : New(a)
  \/ \E k \in Positions : Close(k)
  \/ LayoutStep /\ UNCHANGED <<accounts, file, saved>>
  \/ Save
  \/ Load
  \/ Restart

Spec == WorkspaceInit /\ [][Next]_workspaceVars

-----------------------------------------------------------------------------
(* Properties.                                                             *)

(***************************************************************************)
(* There are at most max_panes panes, every one has a rectangle and an     *)
(* account, and one has the focus as soon as there is one.                 *)
(***************************************************************************)
WorkspaceTypeOK ==
  /\ screen \in [width : Widths, height : Heights]
  /\ mode \in Modes /\ wrap \in BOOLEAN
  /\ geometry \in Seq(Rect) /\ Len(geometry) <= MaxPanes
  /\ Len(accounts) = Len(geometry)
  /\ focus \in 0..Len(geometry) /\ (focus = 0 <=> geometry = <<>>)

Restored(d) ==
  /\ mode' = d.mode /\ focus' = 1
  /\ Len(accounts') = Len(d.names)
  /\ \A k \in DOMAIN d.names :
       Plain(NameOf(d.names[k])) => accounts'[k] = NameOf(d.names[k])

(***************************************************************************)
(* :load brings back the layout mode and the accounts of the last complete *)
(* :save, in the order of the panes, whatever was opened, closed, focused  *)
(* or started again in between; a pane without an account has the empty    *)
(* one then, and a name with a character that JSON escapes may be cut.  A  *)
(* file that is missing or cut short by a crash leaves every pane alone.   *)
(***************************************************************************)
LoadRestores ==
  [][Load => IF saved # None THEN Restored(saved)
             ELSE file.state # "whole" => UNCHANGED <<layoutVars, accounts>>]_workspaceVars
=============================================================================
