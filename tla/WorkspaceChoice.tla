-------------------------- MODULE WorkspaceChoice --------------------------
(***************************************************************************)
(* The folder the agent works in: the agent's own (app.go SetWorkspace),   *)
(* the one the page shows and the one it keeps in localStorage             *)
(* (use-workspace.ts), and the dialog that chooses it                      *)
(* (workspace-dialog.tsx).  Calls of the bridge run in any order.          *)
(***************************************************************************)
EXTENDS Integers, FiniteSets

CONSTANTS
  Workspaces,       \* folders one can choose
  MaxSets,     \* bound: SetWorkspace calls
  MaxRestarts  \* bound: restarts of the program and reloads of the page

ASSUME WorkspaceConstants == MaxSets \in Nat /\ MaxRestarts \in Nat

VARIABLES
  agentPath,   \* Agent.Workspace
  storedPath,  \* localStorage "demios-workspace"
  shownPath,   \* workspace of useWorkspace
  setCalls,    \* SetWorkspace calls not answered
  setsMade, restarts,  \* so far
  showWorkspace,   \* the dialog is open
  browsing,    \* PickDirectory is open
  overlapped   \* a call was made before the last was answered (history)

workspaceVars == <<agentPath, storedPath, shownPath, setCalls, setsMade, restarts,
                   showWorkspace, browsing, overlapped>>

NoPath == "none"

SetCall(p, awaited) == [id |-> setsMade + 1, path |-> p, awaited |-> awaited, ran |-> FALSE]

WorkspaceInit ==
  /\ agentPath = NoPath /\ storedPath = NoPath /\ shownPath = NoPath
  /\ setCalls = {} /\ setsMade = 0 /\ restarts = 0
  /\ showWorkspace = FALSE /\ browsing = FALSE /\ overlapped = FALSE

\* The page loads: it shows the stored folder and passes it to the agent.  What
\* the calls of the page before have still to do, they do unseen.
PageLoads_NoSync(left) ==
  /\ restarts < MaxRestarts /\ restarts' = restarts + 1
  /\ shownPath' = storedPath /\ showWorkspace' = FALSE /\ browsing' = FALSE
  /\ setCalls' = left /\ UNCHANGED setsMade
PageLoads(left) ==
  /\ restarts < MaxRestarts /\ restarts' = restarts + 1
  /\ shownPath' = storedPath /\ showWorkspace' = FALSE /\ browsing' = FALSE
  /\ IF storedPath = NoPath THEN setCalls' = left /\ UNCHANGED setsMade
     ELSE /\ setsMade < MaxSets /\ setsMade' = setsMade + 1
          /\ setCalls' = left \cup {SetCall(storedPath, FALSE)}

\* "When wails dev reloads, the backend restarts with an empty workspace."
BackendRestarts ==
  /\ PageLoads({}) /\ agentPath' = NoPath /\ overlapped' = FALSE
  /\ UNCHANGED storedPath

PageReloads ==
  /\ PageLoads({[c EXCEPT !.awaited = FALSE] : c \in {d \in setCalls : ~d.ran}})
  /\ overlapped' = (overlapped \/ setCalls # {})
  /\ UNCHANGED <<agentPath, storedPath>>

OpenWorkspace ==
  /\ showWorkspace' = TRUE
  /\ UNCHANGED <<agentPath, storedPath, shownPath, setCalls, setsMade, restarts,
                 browsing, overlapped>>

\* handleWorkspaceSelect, setWorkspace up to the await.
OnSelect(p) ==
  /\ setsMade < MaxSets /\ setsMade' = setsMade + 1
  /\ setCalls' = setCalls \cup {SetCall(p, TRUE)}
  /\ overlapped' = (setCalls # {})
  /\ UNCHANGED <<agentPath, storedPath, shownPath, restarts>>

\* "Set" and Enter, with a path that is not blank.
HandleSubmit(p) == showWorkspace /\ OnSelect(p) /\ UNCHANGED <<showWorkspace, browsing>>

HandleBrowse ==
  /\ showWorkspace /\ ~browsing /\ browsing' = TRUE
  /\ UNCHANGED <<agentPath, storedPath, shownPath, setCalls, setsMade, restarts,
                 showWorkspace, overlapped>>

\* The system's dialog answers, also after the page's own has gone.
Picked(p) ==
  /\ browsing /\ browsing' = FALSE
  /\ IF p = NoPath
     THEN UNCHANGED <<agentPath, storedPath, shownPath, setCalls, setsMade, restarts, overlapped>>
     ELSE OnSelect(p)
  /\ UNCHANGED showWorkspace

\* SetWorkspace of the backend; it cannot fail.
SetRuns(c) ==
  /\ ~c.ran /\ agentPath' = c.path
  /\ setCalls' = (setCalls \ {c}) \cup {[c EXCEPT !.ran = TRUE]}
  /\ UNCHANGED <<storedPath, shownPath, setsMade, restarts, showWorkspace, browsing,
                 overlapped>>

\* After the await the page keeps the path and closes the dialog.
SetAnswered(c) ==
  /\ c.ran /\ setCalls' = setCalls \ {c}
  /\ IF c.awaited
     THEN storedPath' = c.path /\ shownPath' = c.path /\ showWorkspace' = FALSE
     ELSE UNCHANGED <<storedPath, shownPath, showWorkspace>>
  /\ UNCHANGED <<agentPath, setsMade, restarts, browsing, overlapped>>

WorkspaceNext ==
  \/ BackendRestarts \/ PageReloads \/ OpenWorkspace \/ HandleBrowse
  \/ \E p \in Workspaces : HandleSubmit(p)
  \/ \E p \in Workspaces \cup {NoPath} : Picked(p)
  \/ \E c \in setCalls : SetRuns(c) \/ SetAnswered(c)

WorkspaceSpec == WorkspaceInit /\ [][WorkspaceNext]_workspaceVars

\* "Keep the agent aware of the current directory" (use-workspace.ts:13): when
\* every call was answered the agent works in the folder the page shows, after
\* restarts and reloads too, unless two calls were under way at once (the page's
\* own on loading is one), which end in any order.
WorkspaceAgrees == setCalls = {} /\ ~overlapped => agentPath = shownPath
=============================================================================
