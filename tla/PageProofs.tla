------------------------------ MODULE PageProofs ------------------------------
(***************************************************************************)
(* Parts of the page that share no state, each for all its constants and   *)
(* any number of steps: the model, the folder, the sidebar, the theme, the *)
(* provider dialog with its store, and the prompt.                         *)
(***************************************************************************)
EXTENDS ModelChoice, WorkspaceChoice, PageSidebar, Appearance, ProviderDialog, PromptBox,
        CanvasProofs, WellFoundedInduction, TLAPS

------------------------------------------------------------------------------
(* The model: the page shows the agent's model when nothing is under way.   *)

ModelCalls == [kind : {"load", "select"}, at : {"asked", "done"}, n : Nat,
          model : Models \cup {"none"}]

ModelTypes ==
  /\ modelCalls \subseteq ModelCalls
  /\ agentModel \in Models /\ picks \in Nat /\ swapped \in BOOLEAN

\* A call that has run and is not answered carries the agent's model.
AnswersAgree == ~swapped => \A d \in modelCalls : d.at = "done" => d.model = agentModel

\* If the page does not show the agent's model, an answer that carries it is due.
AnswerDue ==
  ~swapped => \/ pageModel = agentModel
              \/ \E d \in modelCalls : d.at = "done" \/ d.kind = "load"

ModelInv == ModelTypes /\ AnswersAgree /\ AnswerDue

\* Agreement at rest follows: nothing under way leaves no answer due.
LEMMA ModelInvAgrees == ModelInv => ModelAgrees
  BY DEF ModelInv, AnswerDue, ModelAgrees

\* The load of the mount is under way at first.
LEMMA ModelInitInv == ModelInit => ModelInv
<1>. SUFFICES ASSUME ModelInit PROVE ModelInv
  OBVIOUS
<1>1. modelCalls = {LoadAsked} /\ picks = 0 /\ swapped = FALSE /\ agentModel \in Models
  BY DEF ModelInit
<1>2. LoadAsked \in ModelCalls /\ LoadAsked.at = "asked" /\ LoadAsked.kind = "load"
  BY <1>1 DEF LoadAsked, ModelCalls
<1>. QED
  BY <1>1, <1>2 DEF ModelInv, ModelTypes, AnswersAgree, AnswerDue

\* One step per action.
LEMMA ModelStepInv == ModelInv /\ [ModelNext]_modelVars => ModelInv'
<1>. SUFFICES ASSUME ModelInv, [ModelNext]_modelVars PROVE ModelInv'
  OBVIOUS
<1>t. ModelTypes /\ AnswersAgree /\ AnswerDue /\ ModelConstants
  BY ModelConstants DEF ModelInv
<1>1. CASE LoadModels
  <2>1. [LoadAsked EXCEPT !.n = picks'] \in ModelCalls
        /\ [LoadAsked EXCEPT !.n = picks'].at = "asked"
    BY <1>1, <1>t DEF LoadModels, LoadAsked, ModelCalls, ModelTypes
  <2>. DEFINE new == [LoadAsked EXCEPT !.n = picks']
  <2>2. /\ modelCalls' = modelCalls \cup {new}
        /\ UNCHANGED <<agentModel, pageModel, swapped>>
    BY <1>1 DEF LoadModels
  <2>3. picks' \in Nat
    BY <1>1, <1>t DEF LoadModels, ModelTypes
  <2>. HIDE DEF new
  <2>4. new \in ModelCalls /\ new.at = "asked"
    BY <2>1 DEF new
  <2>. QED
    BY <2>2, <2>3, <2>4, <1>t DEF ModelInv, ModelTypes, AnswersAgree, AnswerDue
<1>2. ASSUME NEW m \in Models, SelectModel(m) PROVE ModelInv'
  <2>. DEFINE new == [kind |-> "select", at |-> "asked", n |-> picks', model |-> m]
  <2>1. /\ modelCalls' = modelCalls \cup {new}
        /\ UNCHANGED <<agentModel, pageModel, swapped>> /\ picks' \in Nat
    BY <1>2, <1>t DEF SelectModel, ModelTypes
  <2>2. new \in ModelCalls /\ new.at = "asked"
    BY <2>1 DEF ModelCalls
  <2>. HIDE DEF new
  <2>. QED
    BY <2>1, <2>2, <1>t DEF ModelInv, ModelTypes, AnswersAgree, AnswerDue
<1>3. ASSUME NEW m \in Models, BrowserChooses(m) PROVE ModelInv'
  BY <1>3, <1>t DEF BrowserChooses, ModelInv, ModelTypes, AnswersAgree, AnswerDue
<1>4. ASSUME NEW c \in modelCalls, SelectRuns(c) PROVE ModelInv'
  <2>. DEFINE new == [c EXCEPT !.at = "done"]
  <2>1. PICK m \in Models :
          /\ agentModel' = m
          /\ swapped' = (swapped \/ m # c.model \/ \E d \in modelCalls : d.at = "done")
          /\ modelCalls' = (modelCalls \ {c}) \cup {new}
    BY <1>4 DEF SelectRuns
  <2>2. new \in ModelCalls /\ new.at = "done" /\ new.model = c.model
    BY <1>4, <1>t DEF ModelTypes, ModelCalls
  <2>3. picks' = picks
    BY <1>4 DEF SelectRuns
  <2>. HIDE DEF new
  <2>4. ModelTypes'
    BY <2>1, <2>2, <2>3, <1>t DEF ModelTypes
  <2>5. AnswersAgree'
    BY <2>1, <2>2 DEF AnswersAgree
  <2>6. AnswerDue'
    BY <2>1, <2>2 DEF AnswerDue
  <2>. QED
    BY <2>4, <2>5, <2>6 DEF ModelInv
<1>5. ASSUME NEW c \in modelCalls, SelectAnswered(c) PROVE ModelInv'
  BY <1>5, <1>t DEF SelectAnswered, ModelInv, ModelTypes, AnswersAgree, AnswerDue
<1>6. ASSUME NEW c \in modelCalls, LoadRuns(c) PROVE ModelInv'
  <2>. DEFINE new == [c EXCEPT !.at = "done", !.model = agentModel]
  <2>1. /\ modelCalls' = (modelCalls \ {c}) \cup {new}
        /\ swapped' = (swapped /\ modelCalls # {c})
        /\ UNCHANGED <<agentModel, pageModel, picks>>
    BY <1>6 DEF LoadRuns
  <2>2. new \in ModelCalls /\ new.at = "done" /\ new.model = agentModel
    BY <1>6, <1>t DEF ModelTypes, ModelCalls
  <2>. HIDE DEF new
  <2>3. ModelTypes'
    BY <2>1, <2>2, <1>t DEF ModelTypes
  <2>4. AnswersAgree'
    BY <2>1, <2>2, <1>t DEF AnswersAgree
  <2>5. AnswerDue'
    BY <2>1, <2>2 DEF AnswerDue
  <2>. QED
    BY <2>3, <2>4, <2>5 DEF ModelInv
<1>7. ASSUME NEW c \in modelCalls, LoadModelsAnswered(c) PROVE ModelInv'
  BY <1>7, <1>t DEF LoadModelsAnswered, ModelInv, ModelTypes, AnswersAgree, AnswerDue
<1>8. CASE UNCHANGED modelVars
  BY <1>8, <1>t DEF modelVars, ModelInv, ModelTypes, AnswersAgree, AnswerDue
<1>. QED
  BY <1>1, <1>2, <1>3, <1>4, <1>5, <1>6, <1>7, <1>8 DEF ModelNext

\* When no call is under way the page shows the model the agent uses, whatever
\* order choices and loads ran and were answered in (use-model.ts:32), unless
\* one of the named cases has put the two apart since a load last read it.
THEOREM ModelShown == ModelSpec => []ModelAgrees
<1>1. ModelSpec => []ModelInv
  BY ModelInitInv, ModelStepInv, PTL DEF ModelSpec
<1>. QED
  BY <1>1, ModelInvAgrees, PTL

------------------------------------------------------------------------------
(* The folder: the agent works in the folder the page shows.               *)

SetCalls == [id : Nat, path : Workspaces \cup {NoPath}, awaited : BOOLEAN, ran : BOOLEAN]

WorkspaceTypes ==
  /\ setCalls \subseteq SetCalls /\ setsMade \in Nat
  /\ storedPath \in Workspaces \cup {NoPath}

\* The page shows what it keeps.
ShowsStored == shownPath = storedPath

\* The call under way, if there is one and no other was made meanwhile, ends with
\* the agent in the folder the page will show.
OnlyCall ==
  ~overlapped =>
    \/ setCalls = {} /\ agentPath = shownPath
    \/ \E c \in setCalls : /\ setCalls = {c}
                           /\ c.ran => agentPath = c.path
                           /\ ~c.awaited => c.path = shownPath

WorkspaceInv == WorkspaceTypes /\ ShowsStored /\ OnlyCall

\* Agreement at rest follows.
LEMMA WorkspaceInvAgrees == WorkspaceInv => WorkspaceAgrees
  BY DEF WorkspaceInv, OnlyCall, WorkspaceAgrees

\* Nothing is chosen at first.
LEMMA WorkspaceInitInv == WorkspaceInit => WorkspaceInv
  BY DEF WorkspaceInit, WorkspaceInv, WorkspaceTypes, ShowsStored, OnlyCall

\* A call just made.
LEMMA CallMade ==
  ASSUME setsMade \in Nat, NEW p \in Workspaces \cup {NoPath}, NEW a \in BOOLEAN
  PROVE  /\ SetCall(p, a) \in SetCalls
         /\ SetCall(p, a).path = p /\ SetCall(p, a).awaited = a /\ SetCall(p, a).ran = FALSE
  BY DEF SetCall, SetCalls

\* A choice that finds no call under way is the only one.
LEMMA SelectInv ==
  ASSUME WorkspaceInv, NEW p \in Workspaces, OnSelect(p) PROVE WorkspaceInv'
<1>1. WorkspaceTypes /\ ShowsStored
  BY DEF WorkspaceInv
<1>. DEFINE new == SetCall(p, TRUE)
<1>2. new \in SetCalls /\ new.awaited = TRUE /\ new.ran = FALSE
  BY <1>1, CallMade DEF WorkspaceTypes
<1>3. /\ setCalls' = setCalls \cup {new} /\ overlapped' = (setCalls # {})
      /\ setsMade' = setsMade + 1
      /\ UNCHANGED <<agentPath, storedPath, shownPath>>
  BY DEF OnSelect
<1>. HIDE DEF new
<1>4. WorkspaceTypes'
  BY <1>1, <1>2, <1>3 DEF WorkspaceTypes
<1>5. ShowsStored'
  BY <1>1, <1>3 DEF ShowsStored
<1>6. OnlyCall'
  BY <1>2, <1>3 DEF OnlyCall
<1>. QED
  BY <1>4, <1>5, <1>6 DEF WorkspaceInv

\* A page that loads with no call of the last one left pushes what it keeps; if
\* it keeps nothing the agent has nothing either.
LEMMA LoadInv ==
  ASSUME WorkspaceInv, NEW left \in SUBSET SetCalls, PageLoads(left),
         UNCHANGED storedPath,
         ~overlapped' => (left = {} /\ (storedPath = NoPath => agentPath' = NoPath))
  PROVE  WorkspaceInv'
<1>1. WorkspaceTypes
  BY DEF WorkspaceInv
<1>2. shownPath' = storedPath
  BY DEF PageLoads
<1>3. CASE storedPath = NoPath
  <2>1. setCalls' = left /\ setsMade' = setsMade
    BY <1>3 DEF PageLoads
  <2>. QED
    BY <1>1, <1>2, <1>3, <2>1 DEF WorkspaceInv, WorkspaceTypes, ShowsStored, OnlyCall
<1>4. CASE storedPath # NoPath
  <2>. DEFINE new == SetCall(storedPath, FALSE)
  <2>1. setCalls' = left \cup {new} /\ setsMade' = setsMade + 1
    BY <1>4 DEF PageLoads
  <2>2. new \in SetCalls /\ new.path = storedPath /\ new.ran = FALSE
    BY <1>1, CallMade DEF WorkspaceTypes
  <2>. HIDE DEF new
  <2>3. WorkspaceTypes'
    BY <1>1, <2>1, <2>2 DEF WorkspaceTypes
  <2>4. ShowsStored'
    BY <1>2 DEF ShowsStored
  <2>5. OnlyCall'
    BY <1>2, <2>1, <2>2 DEF OnlyCall
  <2>. QED
    BY <2>3, <2>4, <2>5 DEF WorkspaceInv
<1>. QED
  BY <1>3, <1>4

\* One step per action.
LEMMA WorkspaceStepInv == WorkspaceInv /\ [WorkspaceNext]_workspaceVars => WorkspaceInv'
<1>. SUFFICES ASSUME WorkspaceInv, [WorkspaceNext]_workspaceVars PROVE WorkspaceInv'
  OBVIOUS
<1>t. WorkspaceTypes /\ ShowsStored /\ OnlyCall
  BY DEF WorkspaceInv
<1>1. CASE BackendRestarts
  <2>1. PageLoads({}) /\ agentPath' = NoPath /\ UNCHANGED storedPath
    BY <1>1 DEF BackendRestarts
  <2>. QED
    BY <2>1, LoadInv
<1>2. CASE PageReloads
  <2>. DEFINE left == {[c EXCEPT !.awaited = FALSE] : c \in {d \in setCalls : ~d.ran}}
  <2>1. /\ PageLoads(left) /\ overlapped' = (overlapped \/ setCalls # {})
        /\ UNCHANGED <<agentPath, storedPath>>
    BY <1>2 DEF PageReloads
  <2>2. left \in SUBSET SetCalls
    BY <1>t DEF WorkspaceTypes, SetCalls
  <2>3. setCalls = {} => left = {}
    OBVIOUS
  <2>4. ~overlapped' => (left = {} /\ (storedPath = NoPath => agentPath' = NoPath))
    <3>1. ~overlapped' => (~overlapped /\ setCalls = {})
      BY <2>1
    <3>2. (~overlapped /\ setCalls = {}) => agentPath = storedPath
      BY <1>t DEF OnlyCall, ShowsStored
    <3>. QED
      BY <2>1, <2>3, <3>1, <3>2
  <2>. HIDE DEF left
  <2>. QED
    BY <2>1, <2>2, <2>4, LoadInv
<1>3. CASE OpenWorkspace \/ HandleBrowse
  BY <1>3, <1>t DEF OpenWorkspace, HandleBrowse, WorkspaceInv, WorkspaceTypes, ShowsStored, OnlyCall
<1>4. ASSUME NEW p \in Workspaces, HandleSubmit(p) PROVE WorkspaceInv'
  BY <1>4, SelectInv DEF HandleSubmit
<1>5. ASSUME NEW p \in Workspaces \cup {NoPath}, Picked(p) PROVE WorkspaceInv'
  <2>1. CASE p = NoPath
    BY <1>5, <2>1, <1>t DEF Picked, WorkspaceInv, WorkspaceTypes, ShowsStored, OnlyCall
  <2>2. CASE p # NoPath
    BY <1>5, <2>2, SelectInv DEF Picked
  <2>. QED
    BY <2>1, <2>2
<1>6. ASSUME NEW c \in setCalls, SetRuns(c) PROVE WorkspaceInv'
  <2>. DEFINE new == [c EXCEPT !.ran = TRUE]
  <2>1. /\ agentPath' = c.path /\ setCalls' = (setCalls \ {c}) \cup {new}
        /\ UNCHANGED <<storedPath, shownPath, setsMade, overlapped>>
    BY <1>6 DEF SetRuns
  <2>2. new \in SetCalls /\ new.path = c.path /\ new.awaited = c.awaited
    BY <1>t DEF WorkspaceTypes, SetCalls
  <2>. HIDE DEF new
  <2>3. WorkspaceTypes' /\ ShowsStored'
    BY <1>t, <2>1, <2>2 DEF WorkspaceTypes, ShowsStored
  <2>4. OnlyCall'
    BY <1>t, <2>1, <2>2 DEF OnlyCall
  <2>. QED
    BY <2>3, <2>4 DEF WorkspaceInv
<1>7. ASSUME NEW c \in setCalls, SetAnswered(c) PROVE WorkspaceInv'
  <2>1. c \in SetCalls
    BY <1>t DEF WorkspaceTypes
  <2>2. c.path \in Workspaces \cup {NoPath}
    BY <2>1 DEF SetCalls
  <2>3. c.ran /\ setCalls' = setCalls \ {c} /\ UNCHANGED <<agentPath, setsMade, overlapped>>
    BY <1>7 DEF SetAnswered
  <2>4. CASE c.awaited
    <3>1. storedPath' = c.path /\ shownPath' = c.path
      BY <1>7, <2>4 DEF SetAnswered
    <3>. QED
      BY <1>t, <2>2, <2>3, <3>1 DEF WorkspaceInv, WorkspaceTypes, ShowsStored, OnlyCall
  <2>5. CASE ~c.awaited
    <3>1. UNCHANGED <<storedPath, shownPath>>
      BY <1>7, <2>5 DEF SetAnswered
    <3>. QED
      BY <1>t, <2>3, <2>5, <3>1 DEF WorkspaceInv, WorkspaceTypes, ShowsStored, OnlyCall
  <2>. QED
    BY <2>4, <2>5
<1>8. CASE UNCHANGED workspaceVars
  BY <1>8, <1>t DEF workspaceVars, WorkspaceInv, WorkspaceTypes, ShowsStored, OnlyCall
<1>. QED
  BY <1>1, <1>2, <1>3, <1>4, <1>5, <1>6, <1>7, <1>8 DEF WorkspaceNext

\* When every call of SetWorkspace was answered the agent works in the folder the
\* page shows (use-workspace.ts:13), after restarts of the backend and reloads of
\* the page too, if no two calls were under way at once.
THEOREM WorkspaceShown == WorkspaceSpec => []WorkspaceAgrees
<1>1. WorkspaceSpec => []WorkspaceInv
  BY WorkspaceInitInv, WorkspaceStepInv, PTL DEF WorkspaceSpec
<1>. QED
  BY <1>1, WorkspaceInvAgrees, PTL

------------------------------------------------------------------------------
(* The sidebar: it can be brought up at every width.                       *)

\* The query has not flipped since the page last looked, and the page knows what
\* it saw then.
SidebarInv ==
  /\ width \in Nat /\ found \in Nat
  /\ isMobile = Narrow(found)
  /\ Query(width) = Query(found)

\* A width the query takes for narrow is narrow, and only then is the sidebar
\* hidden.
LEMMA NarrowWidths ==
  ASSUME NEW w \in Nat
  PROVE  /\ Query(w) => Narrow(w)
         /\ Narrow(w) <=> Hidden(w)
  BY DEF Query, Narrow, Hidden, InnerWidth, MOBILE_BREAKPOINT

\* What is drawn follows from what the page found.
LEMMA SidebarInvReachable == SidebarInv => SidebarReachable
<1>. SUFFICES ASSUME SidebarInv PROVE SidebarReachable
  OBVIOUS
<1>1. /\ Query(width) => Narrow(width)
      /\ Narrow(width) <=> Hidden(width)
      /\ Query(found) => Narrow(found)
  BY NarrowWidths DEF SidebarInv
<1>2. (Drawn = "nothing" /\ ~Between(width)) => isMobile
  <2>. SUFFICES ASSUME Drawn = "nothing", ~Between(width), ~isMobile PROVE FALSE
    OBVIOUS
  <2>1. Hidden(width)
    BY DEF Drawn
  <2>2. Query(width)
    BY <1>1, <2>1 DEF Between
  <2>. QED
    BY <1>1, <2>2 DEF SidebarInv
<1>3. (isMobile /\ ~Hidden(width)) => Between(found)
  <2>. SUFFICES ASSUME isMobile, ~Hidden(width) PROVE Between(found)
    OBVIOUS
  <2>1. ~Query(width)
    BY <1>1
  <2>. QED
    BY <2>1 DEF SidebarInv, Between
<1>. QED
  BY <1>2, <1>3 DEF SidebarReachable

\* Every width is a natural number, and only Resize and a load look at it.
LEMMA SidebarStepInv == SidebarInv /\ [SidebarNext]_sidebarVars => SidebarInv'
<1>. SUFFICES ASSUME SidebarInv, [SidebarNext]_sidebarVars PROVE SidebarInv'
  OBVIOUS
<1>c. Widths \subseteq Nat
  BY SidebarConstants DEF SidebarConstants
<1>1. CASE ReloadSidebar
  BY <1>1 DEF ReloadSidebar, SidebarInv, Narrow, Query, InnerWidth
<1>2. ASSUME NEW w \in Widths, Resize(w) PROVE SidebarInv'
  <2>1. w \in Nat /\ width' = w
    BY <1>c, <1>2 DEF Resize
  <2>2. CASE Query(w) # Query(width)
    <3>1. isMobile' = Narrow(w) /\ found' = w
      BY <1>2, <2>2 DEF Resize
    <3>. QED
      BY <2>1, <3>1 DEF SidebarInv, Narrow, Query, InnerWidth
  <2>3. CASE Query(w) = Query(width)
    <3>1. isMobile' = isMobile /\ found' = found
      BY <1>2, <2>3 DEF Resize
    <3>. QED
      BY <2>1, <2>3, <3>1 DEF SidebarInv, Narrow, Query, InnerWidth
  <2>. QED
    BY <2>2, <2>3
<1>3. CASE Shortcut \/ SidebarTrigger
  <2>1. UNCHANGED <<width, isMobile, found>>
    BY <1>3 DEF Shortcut, SidebarTrigger, Toggle
  <2>. QED
    BY <2>1 DEF SidebarInv, Narrow, Query, InnerWidth
<1>4. CASE DismissSheet \/ UNCHANGED sidebarVars
  <2>1. UNCHANGED <<width, isMobile, found>>
    BY <1>4 DEF DismissSheet, sidebarVars
  <2>. QED
    BY <2>1 DEF SidebarInv, Narrow, Query, InnerWidth
<1>. QED
  BY <1>1, <1>2, <1>3, <1>4 DEF SidebarNext

\* Whatever widths the window takes, in any order, a sidebar that is not drawn is
\* the narrow window's, which a press opens, outside the pixel between 767 and
\* 768 where use-mobile.ts asks two questions that differ.
THEOREM SidebarComesUp == SidebarSpec => []SidebarReachable
<1>1. SidebarInit => SidebarInv
  BY SidebarConstants DEF SidebarConstants, SidebarInit, Load, SidebarInv
<1>2. SidebarSpec => []SidebarInv
  BY <1>1, SidebarStepInv, PTL DEF SidebarSpec
<1>. QED
  BY <1>2, SidebarInvReachable, PTL

------------------------------------------------------------------------------
(* The theme: the pages of one origin come to be drawn in the stored one.  *)

Themes == {"dark", "light", "system"}
Values == Themes \cup {NoTheme}
Events == [key : {storageKey, OtherKey, NullKey}, newValue : Values]

ThemeTypes ==
  /\ storedTheme \in Values /\ systemDark \in BOOLEAN
  /\ theme \in [Pages -> Themes] /\ drawn \in [Pages -> {"dark", "light"}]
  /\ listening \subseteq Pages
  /\ news \in [Pages -> Seq(Events)]

\* A page is drawn in its own theme, and follows the system's scheme if that is
\* its theme.
DrawnAsThemed ==
  \A p \in Pages : /\ drawn[p] = Resolved(theme[p])
                   /\ p \in listening <=> theme[p] = "system"

\* The last event of the theme among these has this value.
Ends(s, v) ==
  \A i \in DOMAIN s :
    s[i].key = storageKey /\ (\A j \in DOMAIN s : j > i => s[j].key # storageKey)
      => s[i].newValue = v

\* The last theme on its way to a page is the stored one; with none on its way the
\* page has it.
NewsEnds ==
  \A p \in Pages \ apart :
    /\ ~Heard(news[p]) => theme[p] = OrDefault(storedTheme)
    /\ Ends(news[p], storedTheme)

ThemeInv == ThemeTypes /\ DrawnAsThemed /\ NewsEnds

\* What the helpers return.
LEMMA Helpers ==
  /\ \A v \in Values : OrDefault(v) \in Themes
  /\ \A v \in Themes : OrDefault(v) = v
  /\ \A t \in Themes : Resolved(t) \in {"dark", "light"}
  /\ \A c \in {"dark", "light"} : Opposite(c) \in {"dark", "light"}
  BY DEF Values, Themes, NoTheme, OrDefault, isTheme, Resolved, getSystemTheme, Opposite

\* Agreement follows once the news are handled.
LEMMA ThemeInvAgrees == ThemeInv => PagesAgree
  BY DEF ThemeInv, DrawnAsThemed, NewsEnds, PagesAgree

\* Every page has the system's theme at first, nothing is stored or on its way.
LEMMA ThemeInitInv == AppearanceInit => ThemeInv
<1>. SUFFICES ASSUME AppearanceInit PROVE ThemeInv
  OBVIOUS
<1>1. /\ storedTheme = NoTheme /\ systemDark \in BOOLEAN
      /\ theme = [p \in Pages |-> "system"]
      /\ drawn = [p \in Pages |-> getSystemTheme] /\ listening = Pages
      /\ news = [p \in Pages |-> <<>>]
  BY DEF AppearanceInit
<1>2. ThemeTypes
  BY <1>1 DEF ThemeTypes, Values, Themes, NoTheme, getSystemTheme
<1>3. DrawnAsThemed
  BY <1>1 DEF DrawnAsThemed, Resolved
<1>4. NewsEnds
  BY <1>1 DEF NewsEnds, Ends, OrDefault, isTheme, NoTheme
<1>. QED
  BY <1>2, <1>3, <1>4 DEF ThemeInv

\* A page that takes a theme is drawn in it.
LEMMA SetThemeDraws ==
  ASSUME ThemeTypes, DrawnAsThemed, NEW p \in Pages, NEW t \in Themes,
         SetTheme(p, t), UNCHANGED systemDark
  PROVE  /\ theme' \in [Pages -> Themes] /\ drawn' \in [Pages -> {"dark", "light"}]
         /\ listening' \subseteq Pages
         /\ theme' = [theme EXCEPT ![p] = t]
         /\ DrawnAsThemed'
<1>1. theme' = [theme EXCEPT ![p] = t]
  BY DEF SetTheme
<1>2. theme' \in [Pages -> Themes]
  BY <1>1 DEF ThemeTypes
<1>3. \A v : Resolved(v)' = IF v' = "system" THEN getSystemTheme ELSE v'
  BY DEF Resolved, getSystemTheme
<1>4. CASE t = theme[p]
  <2>1. drawn' = drawn /\ listening' = listening
    BY <1>4 DEF SetTheme
  <2>2. theme' = theme
    BY <1>1, <1>4 DEF ThemeTypes
  <2>. QED
    BY <1>1, <1>2, <2>1, <2>2 DEF ThemeTypes, DrawnAsThemed, Resolved, getSystemTheme
<1>5. CASE t # theme[p]
  <2>1. /\ drawn' = [drawn EXCEPT ![p] = Resolved(t)]
        /\ listening' = IF t = "system" THEN listening \cup {p} ELSE listening \ {p}
    BY <1>5 DEF SetTheme
  <2>2. drawn' \in [Pages -> {"dark", "light"}] /\ listening' \subseteq Pages
    BY <2>1, Helpers DEF ThemeTypes
  <2>3. DrawnAsThemed'
    <3>. SUFFICES ASSUME NEW q \in Pages
                  PROVE  /\ drawn'[q] = IF theme'[q] = "system" THEN getSystemTheme ELSE theme'[q]
                         /\ q \in listening' <=> theme'[q] = "system"
      BY DEF DrawnAsThemed, Resolved, getSystemTheme
    <3>1. CASE q = p
      BY <1>1, <2>1, <3>1 DEF ThemeTypes, Resolved
    <3>2. CASE q # p
      BY <1>1, <2>1, <3>2 DEF ThemeTypes, DrawnAsThemed, Resolved
    <3>. QED
      BY <3>1, <3>2
  <2>. QED
    BY <1>1, <1>2, <2>2, <2>3
<1>. QED
  BY <1>4, <1>5

\* An event of the theme is the last; another changes nothing.
LEMMA EventAdded ==
  ASSUME NEW s \in Seq(Events), NEW e \in Events, NEW v
  PROVE  /\ Append(s, e) \in Seq(Events)
         /\ e.key = storageKey =>
              Heard(Append(s, e)) /\ Ends(Append(s, e), e.newValue)
         /\ e.key # storageKey =>
              /\ Heard(Append(s, e)) <=> Heard(s)
              /\ Ends(s, v) => Ends(Append(s, e), v)
<1> DEFINE t == Append(s, e)
<1>1. /\ t \in Seq(Events) /\ Len(s) \in Nat /\ DOMAIN s = 1..Len(s)
      /\ DOMAIN t = 1..Len(s) + 1 /\ t[Len(s) + 1] = e
      /\ \A i \in 1..Len(s) : t[i] = s[i]
  OBVIOUS
<1> HIDE DEF t
<1>2. ASSUME e.key = storageKey PROVE Heard(t) /\ Ends(t, e.newValue)
  <2>1. Len(s) + 1 \in DOMAIN t
    BY <1>1
  <2>2. Heard(t)
    BY <1>1, <1>2, <2>1 DEF Heard
  <2>3. \A i \in DOMAIN t : i = Len(s) + 1 \/ Len(s) + 1 > i
    BY <1>1
  <2>4. Ends(t, e.newValue)
    BY <1>1, <1>2, <2>1, <2>3 DEF Ends
  <2>5. QED BY <2>2, <2>4
<1>3. ASSUME e.key # storageKey PROVE (Heard(t) <=> Heard(s)) /\ (Ends(s, v) => Ends(t, v))
  <2>1. \A i \in DOMAIN t : t[i].key = storageKey => i \in DOMAIN s /\ t[i] = s[i]
    BY <1>1, <1>3
  <2>2. \A i \in DOMAIN s : i \in DOMAIN t /\ t[i] = s[i]
    BY <1>1
  <2>3. Heard(t) <=> Heard(s)
    BY <2>1, <2>2 DEF Heard
  <2>4. Ends(s, v) => Ends(t, v)
    BY <2>1, <2>2 DEF Ends
  <2>5. QED BY <2>3, <2>4
<1>4. QED BY <1>1, <1>2, <1>3 DEF t

\* What is left when the first event is handled.
LEMMA EventHandled ==
  ASSUME NEW s \in Seq(Events), s # <<>>, NEW v, Ends(s, v)
  PROVE  /\ Tail(s) \in Seq(Events) /\ Head(s) \in Events
         /\ Ends(Tail(s), v)
         /\ ~Heard(Tail(s)) => IF Head(s).key = storageKey THEN Head(s).newValue = v
                               ELSE ~Heard(s)
<1> DEFINE t == Tail(s)
<1>1. /\ t \in Seq(Events) /\ Head(s) \in Events /\ Head(s) = s[1]
      /\ Len(s) \in Nat /\ Len(s) # 0 /\ Len(t) = Len(s) - 1
      /\ DOMAIN s = 1..Len(s) /\ DOMAIN t = 1..Len(t)
      /\ \A i \in 1..Len(t) : t[i] = s[i + 1]
  OBVIOUS
<1> HIDE DEF t
<1>2. \A i \in DOMAIN t : i \in Nat /\ i + 1 \in DOMAIN s /\ t[i] = s[i + 1]
  BY <1>1
<1>3. \A i \in DOMAIN s : i = 1 \/ (i - 1 \in DOMAIN t /\ s[i] = t[i - 1])
  <2>1. ASSUME NEW i \in DOMAIN s, i # 1 PROVE i - 1 \in DOMAIN t /\ s[i] = t[i - 1]
    <3>1. i - 1 \in 1..Len(t) /\ i - 1 + 1 = i
      BY <1>1, <2>1
    <3>2. QED BY <1>1, <3>1
  <2>2. QED BY <2>1
<1>4. Ends(t, v)
  <2>1. SUFFICES ASSUME NEW i \in DOMAIN t, t[i].key = storageKey,
                        \A j \in DOMAIN t : j > i => t[j].key # storageKey
                 PROVE  t[i].newValue = v
    BY DEF Ends
  <2>2. i + 1 \in DOMAIN s /\ s[i + 1] = t[i] /\ i \in Nat
    BY <1>2
  <2>3. ASSUME NEW j \in DOMAIN s, j > i + 1 PROVE s[j].key # storageKey
    <3>1. j \in Nat /\ j # 1 /\ j - 1 > i
      BY <1>1, <2>2, <2>3
    <3>2. j - 1 \in DOMAIN t /\ s[j] = t[j - 1]
      BY <1>3, <3>1
    <3>3. QED BY <2>1, <3>1, <3>2
  <2>4. QED BY <2>1, <2>2, <2>3 DEF Ends
<1>5. ASSUME ~Heard(t) PROVE IF Head(s).key = storageKey THEN Head(s).newValue = v ELSE ~Heard(s)
  <2>1. \A i \in DOMAIN s : i = 1 \/ s[i].key # storageKey
    BY <1>3, <1>5 DEF Heard
  <2>2. 1 \in DOMAIN s
    BY <1>1
  <2>3. \A j \in DOMAIN s : j > 1 => s[j].key # storageKey
    BY <2>1
  <2>4. s[1].key = storageKey => s[1].newValue = v
    BY <2>2, <2>3 DEF Ends
  <2>5. s[1].key # storageKey => ~Heard(s)
    BY <2>1 DEF Heard
  <2>6. QED BY <1>1, <2>4, <2>5
<1>6. QED BY <1>1, <1>4, <1>5 DEF t

LEMMA Unheard == ASSUME NEW s, ~Heard(s), NEW v PROVE Ends(s, v)
  BY DEF Heard, Ends

\* Pages that are told of a write hear the new value last.
LEMMA ToldEnds ==
  ASSUME ThemeTypes, NEW others \in SUBSET Pages, NEW v \in Values, Tell(others, v)
  PROVE  /\ news' \in [Pages -> Seq(Events)]
         /\ \A q \in Pages \ others : news'[q] = news[q]
         /\ v = storedTheme => news' = news
         /\ v # storedTheme => \A q \in others : Heard(news'[q]) /\ Ends(news'[q], v)
<1> DEFINE e == [key |-> storageKey, newValue |-> v]
<1>1. e \in Events /\ e.key = storageKey /\ e.newValue = v
  BY DEF Events
<1>2. news \in [Pages -> Seq(Events)]
  BY DEF ThemeTypes
<1>3. v # storedTheme =>
        news' = [q \in Pages |-> IF q \in others THEN Append(news[q], e) ELSE news[q]]
  BY DEF Tell, SendEvent
<1>4. v = storedTheme => news' = news
  BY DEF Tell
<1> HIDE DEF e
<1>5. \A q \in Pages : /\ Append(news[q], e) \in Seq(Events)
                       /\ Heard(Append(news[q], e)) /\ Ends(Append(news[q], e), v)
  BY <1>1, <1>2, EventAdded
<1>6. QED BY <1>2, <1>3, <1>4, <1>5

\* An event of another key is no news.
LEMMA OtherEvent ==
  ASSUME ThemeTypes, NEW others \in SUBSET Pages, NEW e \in Events, e.key # storageKey,
         SendEvent(others, e)
  PROVE  /\ news' \in [Pages -> Seq(Events)]
         /\ \A q \in Pages : /\ Heard(news'[q]) <=> Heard(news[q])
                            /\ \A v : Ends(news[q], v) => Ends(news'[q], v)
<1>1. news \in [Pages -> Seq(Events)]
  BY DEF ThemeTypes
<1>2. news' = [q \in Pages |-> IF q \in others THEN Append(news[q], e) ELSE news[q]]
  BY DEF SendEvent
<1>3. \A q \in Pages : /\ Append(news[q], e) \in Seq(Events)
                       /\ Heard(Append(news[q], e)) <=> Heard(news[q])
                       /\ \A v : Ends(news[q], v) => Ends(Append(news[q], e), v)
  BY <1>1, EventAdded
<1>4. QED BY <1>1, <1>2, <1>3

\* The press of a page: the page has the value, the others hear of it.
LEMMA PressInv ==
  ASSUME ThemeInv, NEW p \in Pages, NEW e \in KeyEvents, KeyDown(p, e) PROVE ThemeInv'
<1>t. ThemeTypes /\ DrawnAsThemed /\ NewsEnds
  BY DEF ThemeInv
<1>. DEFINE next == Opposite(Resolved(theme[p]))
<1>1. next \in Themes /\ next \in Values
  BY <1>t, Helpers DEF ThemeTypes, Themes, Values
<1>2. /\ SetTheme(p, next) /\ storedTheme' = next /\ Tell(Pages \ {p}, next)
      /\ apart' = (IF next = storedTheme THEN apart ELSE IF Heard(news[p]) THEN {p} ELSE {})
                    \ (IF Heard(news[p]) THEN {} ELSE {p})
      /\ UNCHANGED systemDark
  BY DEF KeyDown
<1>3. OrDefault(next) = next
  BY <1>1, Helpers
<1>. HIDE DEF next
<1>4. /\ theme' \in [Pages -> Themes] /\ drawn' \in [Pages -> {"dark", "light"}]
      /\ listening' \subseteq Pages /\ theme' = [theme EXCEPT ![p] = next]
      /\ DrawnAsThemed'
  BY <1>t, <1>1, <1>2, SetThemeDraws
<1>5. /\ news' \in [Pages -> Seq(Events)]
      /\ news'[p] = news[p]
      /\ next = storedTheme => news' = news
      /\ next # storedTheme =>
           \A q \in Pages \ {p} : Heard(news'[q]) /\ Ends(news'[q], next)
  <2>1. Pages \ {p} \in SUBSET Pages
    OBVIOUS
  <2>. QED
    BY <1>t, <1>1, <1>2, <2>1, ToldEnds
<1>6. ThemeTypes'
  BY <1>t, <1>1, <1>2, <1>4, <1>5 DEF ThemeTypes
<1>7. NewsEnds'
  <2>. SUFFICES ASSUME NEW q \in Pages, q \notin apart'
                PROVE  /\ ~Heard(news'[q]) => theme'[q] = next
                       /\ Ends(news'[q], next)
    BY <1>2, <1>3 DEF NewsEnds
  <2>1. CASE q = p /\ ~Heard(news[p])
    <3>1. theme'[p] = next
      BY <1>4 DEF ThemeTypes, ThemeInv
    <3>2. Ends(news[p], next)
      BY <2>1, Unheard
    <3>. QED
      BY <1>5, <2>1, <3>1, <3>2
  <2>2. CASE q = p /\ Heard(news[p])
    <3>1. next = storedTheme /\ p \notin apart
      BY <1>2, <2>2
    <3>2. Ends(news[p], storedTheme)
      BY <1>t, <3>1 DEF NewsEnds
    <3>. QED
      BY <1>5, <2>2, <3>1, <3>2
  <2>3. CASE q # p
    <3>1. theme'[q] = theme[q]
      BY <1>t, <1>4, <2>3 DEF ThemeTypes
    <3>2. CASE next = storedTheme
      <4>1. q \notin apart
        BY <1>2, <2>3, <3>2
      <4>2. /\ ~Heard(news[q]) => theme[q] = OrDefault(storedTheme)
            /\ Ends(news[q], storedTheme)
        BY <1>t, <4>1 DEF NewsEnds
      <4>. QED
        BY <1>3, <1>5, <3>1, <3>2, <4>2
    <3>3. CASE next # storedTheme
      BY <1>5, <2>3, <3>3
    <3>. QED
      BY <3>2, <3>3
  <2>. QED
    BY <2>1, <2>2, <2>3
<1>. QED
  BY <1>4, <1>6, <1>7 DEF ThemeInv

\* The handling of one storage event.
LEMMA HandleInv ==
  ASSUME ThemeInv, NEW p \in Pages, HandleStorageChange(p) PROVE ThemeInv'
<1>t. ThemeTypes /\ DrawnAsThemed /\ NewsEnds
  BY DEF ThemeInv
<1>. DEFINE s == news[p]
            e == Head(s)
            t == OrDefault(e.newValue)
<1>1. s \in Seq(Events) /\ s # <<>>
  BY <1>t DEF ThemeTypes, HandleStorageChange
<1>2. e \in Events /\ Tail(s) \in Seq(Events) /\ e.newValue \in Values
  <2>1. e \in Events /\ Tail(s) \in Seq(Events)
    BY <1>1
  <2> HIDE DEF e
  <2>2. QED BY <2>1 DEF Events
<1>3. t \in Themes
  BY <1>2, Helpers
<1>4. /\ news' = [news EXCEPT ![p] = Tail(s)]
      /\ IF e.key # storageKey THEN UNCHANGED <<theme, drawn, listening>> ELSE SetTheme(p, t)
      /\ UNCHANGED <<storedTheme, systemDark, apart>>
  BY DEF HandleStorageChange
<1>5. p \notin apart =>
        /\ Ends(s, storedTheme) /\ (~Heard(s) => theme[p] = OrDefault(storedTheme))
        /\ Ends(Tail(s), storedTheme)
        /\ ~Heard(Tail(s)) => IF e.key = storageKey THEN t = OrDefault(storedTheme)
                              ELSE theme[p] = OrDefault(storedTheme)
  <2>1. SUFFICES ASSUME p \notin apart
                 PROVE  /\ Ends(s, storedTheme) /\ (~Heard(s) => theme[p] = OrDefault(storedTheme))
                        /\ Ends(Tail(s), storedTheme)
                        /\ ~Heard(Tail(s)) => IF e.key = storageKey THEN t = OrDefault(storedTheme)
                                              ELSE theme[p] = OrDefault(storedTheme)
    OBVIOUS
  <2>2. Ends(s, storedTheme) /\ (~Heard(s) => theme[p] = OrDefault(storedTheme))
    BY <1>t, <2>1 DEF NewsEnds
  <2> HIDE DEF s
  <2>3. /\ Ends(Tail(s), storedTheme)
        /\ ~Heard(Tail(s)) => IF e.key = storageKey THEN e.newValue = storedTheme ELSE ~Heard(s)
    BY <1>1, <2>2, EventHandled
  <2>4. QED BY <2>2, <2>3
<1>6. /\ s = news[p] /\ theme \in [Pages -> Themes]
  BY <1>t DEF ThemeTypes
<1>. HIDE DEF s, e, t
<1>7. /\ theme' \in [Pages -> Themes] /\ drawn' \in [Pages -> {"dark", "light"}]
      /\ listening' \subseteq Pages
      /\ theme' = IF e.key = storageKey THEN [theme EXCEPT ![p] = t] ELSE theme
      /\ DrawnAsThemed'
  <2>1. CASE e.key = storageKey
    BY <1>t, <1>3, <1>4, <2>1, SetThemeDraws
  <2>2. CASE e.key # storageKey
    <3>1. UNCHANGED <<theme, drawn, listening, systemDark>>
      BY <1>4, <2>2
    <3>2. DrawnAsThemed'
      BY <1>t, <3>1 DEF DrawnAsThemed, Resolved, getSystemTheme
    <3>. QED
      BY <1>t, <2>2, <3>1, <3>2 DEF ThemeTypes
  <2>. QED
    BY <2>1, <2>2
<1>8. ThemeTypes'
  BY <1>t, <1>2, <1>4, <1>7 DEF ThemeTypes
<1>9. NewsEnds'
  <2>. SUFFICES ASSUME NEW q \in Pages \ apart
                PROVE  /\ ~Heard(news'[q]) => theme'[q] = OrDefault(storedTheme)
                       /\ Ends(news'[q], storedTheme)
    BY <1>4 DEF NewsEnds, OrDefault, isTheme
  <2>1. CASE q = p
    <3>1. news'[p] = Tail(s)
      BY <1>t, <1>4 DEF ThemeTypes
    <3>2. theme'[p] = IF e.key = storageKey THEN t ELSE theme[p]
      BY <1>6, <1>7
    <3>. QED
      BY <1>5, <2>1, <3>1, <3>2
  <2>2. CASE q # p
    <3>1. news'[q] = news[q] /\ theme'[q] = theme[q]
      BY <1>t, <1>4, <1>6, <1>7, <2>2 DEF ThemeTypes
    <3>. QED
      BY <1>t, <3>1 DEF NewsEnds
  <2>. QED
    BY <2>1, <2>2
<1>. QED
  BY <1>7, <1>8, <1>9 DEF ThemeInv

\* A page that loads reads the stored theme and forgets its news.
LEMMA ReloadInv == ASSUME ThemeInv, NEW p \in Pages, ReloadPage(p) PROVE ThemeInv'
<1>t. ThemeTypes /\ DrawnAsThemed /\ NewsEnds
  BY DEF ThemeInv
<1>. DEFINE t == OrDefault(storedTheme)
<1>1. t \in Themes
  BY <1>t, Helpers DEF ThemeTypes
<1>2. /\ theme' = [theme EXCEPT ![p] = t]
      /\ drawn' = [drawn EXCEPT ![p] = Resolved(t)]
      /\ listening' = IF t = "system" THEN listening \cup {p} ELSE listening \ {p}
      /\ news' = [news EXCEPT ![p] = <<>>] /\ apart' = apart \ {p}
      /\ UNCHANGED <<storedTheme, systemDark>>
  BY DEF ReloadPage
<1>. HIDE DEF t
<1>3. ThemeTypes'
  BY <1>t, <1>1, <1>2, Helpers DEF ThemeTypes
<1>4. DrawnAsThemed'
  <2>. SUFFICES ASSUME NEW q \in Pages
                PROVE  /\ drawn'[q] = IF theme'[q] = "system" THEN getSystemTheme ELSE theme'[q]
                       /\ q \in listening' <=> theme'[q] = "system"
    BY <1>2 DEF DrawnAsThemed, Resolved, getSystemTheme
  <2>1. CASE q = p
    BY <1>t, <1>2, <2>1 DEF ThemeTypes, Resolved
  <2>2. CASE q # p
    BY <1>t, <1>2, <2>2 DEF ThemeTypes, DrawnAsThemed, Resolved
  <2>. QED
    BY <2>1, <2>2
<1>5. NewsEnds'
  <2>. SUFFICES ASSUME NEW q \in Pages \ apart'
                PROVE  /\ ~Heard(news'[q]) => theme'[q] = t
                       /\ Ends(news'[q], storedTheme)
    BY <1>2 DEF NewsEnds, OrDefault, isTheme, t
  <2>1. CASE q = p
    <3>1. news'[p] = <<>> /\ theme'[p] = t
      BY <1>t, <1>2 DEF ThemeTypes
    <3>2. Ends(<<>>, storedTheme)
      BY DEF Ends
    <3>. QED
      BY <2>1, <3>1, <3>2
  <2>2. CASE q # p
    <3>1. news'[q] = news[q] /\ theme'[q] = theme[q] /\ q \notin apart
      BY <1>t, <1>2, <2>2 DEF ThemeTypes
    <3>. QED
      BY <1>t, <3>1 DEF NewsEnds, t
  <2>. QED
    BY <2>1, <2>2
<1>. QED
  BY <1>3, <1>4, <1>5 DEF ThemeInv

\* What a change of the storage leaves alone.
LEMMA OutsideRests ==
  ASSUME ThemeInv, OutsideChange
  PROVE  /\ UNCHANGED <<systemDark, theme, drawn, listening>> /\ DrawnAsThemed'
         /\ (news' \in [Pages -> Seq(Events)] /\ storedTheme' \in Values) => ThemeTypes'
<1>1. UNCHANGED <<systemDark, theme, drawn, listening>>
  BY DEF OutsideChange
<1>2. QED BY <1>1 DEF ThemeInv, ThemeTypes, DrawnAsThemed, Resolved, getSystemTheme

LEMMA StoreOtherInv == ASSUME ThemeInv, NEW p \in Pages, StoreOther(p) PROVE ThemeInv'
<1> DEFINE e == [key |-> OtherKey, newValue |-> NoTheme]
<1>1. e \in Events /\ e.key # storageKey
  BY DEF Events, Values, OtherKey, storageKey
<1>2. OutsideChange /\ SendEvent(Pages \ {p}, e) /\ UNCHANGED <<storedTheme, apart>>
  BY DEF StoreOther
<1> HIDE DEF e
<1>3. /\ news' \in [Pages -> Seq(Events)]
      /\ \A q \in Pages : /\ Heard(news'[q]) <=> Heard(news[q])
                         /\ \A v : Ends(news[q], v) => Ends(news'[q], v)
  <2>1. Pages \ {p} \in SUBSET Pages
    OBVIOUS
  <2>2. QED BY <1>1, <1>2, <2>1, OtherEvent DEF ThemeInv
<1>4. ThemeTypes' /\ DrawnAsThemed' /\ UNCHANGED theme
  BY <1>2, <1>3, OutsideRests DEF ThemeInv, ThemeTypes
<1>5. NewsEnds'
  BY <1>2, <1>3, <1>4 DEF ThemeInv, NewsEnds, OrDefault, isTheme
<1>. QED
  BY <1>4, <1>5 DEF ThemeInv

\* Every page is told that the item is gone.
LEMMA RemoveItemInv == ASSUME ThemeInv, RemoveItem PROVE ThemeInv'
<1>1. /\ OutsideChange /\ storedTheme # NoTheme
      /\ storedTheme' = NoTheme /\ Tell(Pages, NoTheme)
  BY DEF RemoveItem
<1>2. NoTheme \in Values /\ Pages \in SUBSET Pages
  BY DEF Values
<1>3. /\ news' \in [Pages -> Seq(Events)]
      /\ \A q \in Pages : Heard(news'[q]) /\ Ends(news'[q], NoTheme)
  BY <1>1, <1>2, ToldEnds DEF ThemeInv
<1>4. ThemeTypes' /\ DrawnAsThemed'
  BY <1>1, <1>2, <1>3, OutsideRests
<1>5. NewsEnds'
  BY <1>1, <1>3 DEF NewsEnds
<1>. QED
  BY <1>4, <1>5 DEF ThemeInv

\* The pages are apart, or nothing was stored.
LEMMA ClearStorageInv == ASSUME ThemeInv, ClearStorage PROVE ThemeInv'
<1> DEFINE e == [key |-> NullKey, newValue |-> NoTheme]
<1>1. e \in Events /\ e.key # storageKey
  BY DEF Events, Values, NullKey, storageKey
<1>2. /\ OutsideChange /\ storedTheme' = NoTheme /\ SendEvent(Pages, e)
      /\ apart' = IF storedTheme = NoTheme THEN apart ELSE Pages
  BY DEF ClearStorage
<1> HIDE DEF e
<1>3. /\ news' \in [Pages -> Seq(Events)]
      /\ \A q \in Pages : /\ Heard(news'[q]) <=> Heard(news[q])
                         /\ \A v : Ends(news[q], v) => Ends(news'[q], v)
  BY <1>1, <1>2, OtherEvent DEF ThemeInv
<1>4. ThemeTypes' /\ DrawnAsThemed' /\ UNCHANGED theme
  BY <1>2, <1>3, OutsideRests DEF Values, ThemeInv, ThemeTypes
<1>5. NewsEnds'
  <2>. SUFFICES ASSUME NEW q \in Pages, q \notin apart'
                PROVE  /\ ~Heard(news'[q]) => theme'[q] = OrDefault(storedTheme')
                       /\ Ends(news'[q], storedTheme')
    BY DEF NewsEnds, OrDefault, isTheme
  <2>1. storedTheme = NoTheme /\ q \notin apart
    BY <1>2
  <2>. QED
    BY <1>2, <1>3, <1>4, <2>1 DEF ThemeInv, NewsEnds
<1>. QED
  BY <1>4, <1>5 DEF ThemeInv

\* The pages that follow the system's scheme are drawn anew.
LEMMA SchemeInv == ASSUME ThemeInv, SchemeChanges PROVE ThemeInv'
<1>t. ThemeTypes /\ DrawnAsThemed /\ NewsEnds
  BY DEF ThemeInv
<1>1. /\ systemDark' = ~systemDark
      /\ drawn' = [p \in Pages |-> IF p \in listening THEN getSystemTheme' ELSE drawn[p]]
      /\ UNCHANGED <<storedTheme, theme, listening, news, apart>>
  BY DEF SchemeChanges
<1>2. getSystemTheme' \in {"dark", "light"}
  BY DEF getSystemTheme
<1>3. systemDark' \in BOOLEAN
  BY <1>1
<1>4. ThemeTypes'
  BY <1>t, <1>1, <1>2, <1>3 DEF ThemeTypes
<1>5. DrawnAsThemed'
  <2>. SUFFICES ASSUME NEW q \in Pages
                PROVE  /\ drawn'[q] = IF theme[q] = "system" THEN getSystemTheme' ELSE theme[q]
                       /\ q \in listening <=> theme[q] = "system"
    BY <1>1 DEF DrawnAsThemed, Resolved
  <2>1. drawn[q] = IF theme[q] = "system" THEN getSystemTheme ELSE theme[q]
    BY <1>t DEF DrawnAsThemed, Resolved
  <2>2. q \in listening <=> theme[q] = "system"
    BY <1>t DEF DrawnAsThemed
  <2>. QED
    BY <1>1, <2>1, <2>2
<1>6. NewsEnds'
  BY <1>t, <1>1 DEF NewsEnds, OrDefault, isTheme
<1>. QED
  BY <1>4, <1>5, <1>6 DEF ThemeInv

\* One step per action.
LEMMA ThemeStepInv == ThemeInv /\ [AppearanceNext]_themeVars => ThemeInv'
<1>. SUFFICES ASSUME ThemeInv, [AppearanceNext]_themeVars PROVE ThemeInv'
  OBVIOUS
<1>1. ASSUME NEW p \in Pages, NEW e \in KeyEvents, KeyDown(p, e) PROVE ThemeInv'
  BY <1>1, PressInv
<1>2. ASSUME NEW p \in Pages, HandleStorageChange(p) PROVE ThemeInv'
  BY <1>2, HandleInv
<1>3. ASSUME NEW p \in Pages, ReloadPage(p) PROVE ThemeInv'
  BY <1>3, ReloadInv
<1>4. ASSUME NEW p \in Pages, StoreOther(p) PROVE ThemeInv'
  BY <1>4, StoreOtherInv
<1>7. CASE RemoveItem
  BY <1>7, RemoveItemInv
<1>8. CASE ClearStorage
  BY <1>8, ClearStorageInv
<1>5. CASE SchemeChanges
  BY <1>5, SchemeInv
<1>6. CASE UNCHANGED themeVars
  BY <1>6 DEF themeVars, ThemeInv, ThemeTypes, DrawnAsThemed, NewsEnds, Resolved,
              getSystemTheme, OrDefault, isTheme
<1>. QED
  BY <1>1, <1>2, <1>3, <1>4, <1>5, <1>6, <1>7, <1>8 DEF AppearanceNext

\* A page that has handled the storage events of the theme (theme-provider.tsx:182) is
\* drawn in the stored theme, for any pages, unless it wrote while one was on its way
\* or the storage was cleared, of which no page hears.
THEOREM ThemesAgree == AppearanceSpec => []PagesAgree
<1>1. AppearanceSpec => []ThemeInv
  BY ThemeInitInv, ThemeStepInv, PTL DEF AppearanceSpec
<1>. QED
  BY <1>1, ThemeInvAgrees, PTL

-----------------------------------------------------------------------------
(* The provider dialog and its store.                                       *)

Names == Presets \cup Customs \cup {""}
StoredProviders == [id : Nat, name : Names, key : Keys]
DialogRows == [id : Nat, name : Names, key : Keys, configured : BOOLEAN]
DialogCalls ==
  [kind : {"load", "save", "saveAll", "remove", "custom"}, at : {"asked", "done", "failed"},
   row : DialogRows, rest : SUBSET DialogRows, got : Seq(StoredProviders)]

ProviderTypes ==
  /\ store \in Seq(StoredProviders) /\ file \in Seq(StoredProviders)
  /\ rows = << >> \/ rows \in [Presets -> DialogRows]
  /\ Loaded => \A p \in Presets : rows[p].name = p
  /\ nextId \in Nat /\ calls \in Seq(DialogCalls)

\* What a call is of: a load of all, the others of one row, Save All of several.
CallShape(c) ==
  /\ c.kind \in {"load", "custom"} \/ (Loaded /\ c.row.name \in Presets)
  /\ c.kind # "saveAll" => c.rest = {}
  /\ \A r \in c.rest : r.name \in Presets /\ r.name # c.row.name
  /\ \A r, s \in c.rest : r.name = s.name => r = s
CallShapes == \A i \in DOMAIN calls : CallShape(calls[i])

\* An id is that of one name, wherever it is, and a new one is none of them.
RowsOfCall(c) == (IF c.kind = "load" THEN {} ELSE {c.row}) \cup c.rest
Records ==
  ToSet(store) \cup ToSet(file) \cup (IF Loaded THEN {rows[p] : p \in Presets} ELSE {})
    \cup UNION {RowsOfCall(calls[i]) \cup ToSet(calls[i].got) : i \in DOMAIN calls}
Identified ==
  /\ \A r \in Records : r.id < nextId
  /\ \A r, s \in Records : r.id = s.id => r.name = s.name
UniqueIn(list) == \A i, j \in DOMAIN list : list[i].id = list[j].id => i = j
Uniques == UniqueIn(store) /\ UniqueIn(file) /\ \A i \in DOMAIN calls : UniqueIn(calls[i].got)

\* What is stored of a preset, and the calls that work on it.
Kept(list, p) == {r \in ToSet(list) : r.name = p}
Works(cs, p) == {i \in DOMAIN cs : cs[i].kind # "load" /\ p \in Touches(cs[i])}
OneWorks(cs, p, c) == \E i \in DOMAIN cs : Works(cs, p) = {i} /\ cs[i] = c

\* The row of a preset and the store, with nothing under way for it.
Matches(p) ==
  IF rows[p].configured THEN \E r \in Kept(store, p) : Kept(store, p) = {r} /\ r.id = rows[p].id
  ELSE Kept(store, p) = {}
Agrees(p) ==
  /\ Matches(p)
  /\ rows[p].configured /\ p \notin edited => \A r \in Kept(store, p) : r.key = rows[p].key

\* A row that waits to be saved, or is being saved.
ToSave(p, r) ==
  /\ Matches(p) /\ r.id = rows[p].id /\ r.configured = rows[p].configured
  /\ p \notin edited => r.key = rows[p].key
Saved(p, r) ==
  /\ \E s \in Kept(store, p) : Kept(store, p) = {s} /\ s.id = r.id /\ s.key = r.key
  /\ r.id = rows[p].id /\ (p \notin edited => r.key = rows[p].key)

\* How far a call has come with the preset.
Course(p, c) ==
  /\ \A r \in c.rest : r.name = p => ToSave(p, r)
  /\ c.row.name = p /\ c.kind \in {"save", "saveAll"} =>
       /\ c.at = "asked" => ToSave(p, c.row)
       /\ c.at = "done" => Saved(p, c.row)
  /\ c.row.name = p /\ c.kind = "remove" =>
       /\ c.row.id = rows[p].id
       /\ c.at = "asked" => Matches(p) /\ rows[p].configured
       /\ c.at = "done" => Kept(store, p) = {}
Followed(p) ==
  \/ Works(calls, p) = {} /\ Agrees(p)
  \/ \E c \in DialogCalls : OneWorks(calls, p, c) /\ Course(p, c)

ProvidersInv ==
  /\ ProviderTypes /\ CallShapes /\ Identified /\ Uniques
  /\ Loaded => \A p \in Presets \ doubtful : Followed(p)

\* Every preset has a place, and no other has it.
LEMMA Places ==
  /\ Len(Order) \in Nat
  /\ \A p \in Presets : PlaceOf(p) \in 0..(Len(Order) - 1) /\ Order[PlaceOf(p) + 1] = p
<1> DEFINE n == Cardinality(Presets)
<1>1. IsFiniteSet(Presets)
  BY ProviderConstants DEF ProviderConstants
<1>2. n \in Nat /\ ExistsBijection(1..n, Presets)
  BY <1>1, FS_CardinalityType
<1>3. \E f \in [1..n -> Presets] : IsInjective(f)
  BY <1>2 DEF ExistsBijection, Bijection, Injection
<1>4. Order \in Injection(1..n, Presets)
  BY <1>3 DEF Order, SetToSeq, Injection
<1>5. Cardinality(1..n) = n
  BY <1>2, FS_Interval
<1>6. Order \in Surjection(1..n, Presets)
  BY <1>1, <1>4, <1>5, FS_Injection
<1>7. Len(Order) = n
  <2>1. Order \in Seq(Presets)
    BY <1>2, <1>4, SeqDef DEF Injection
  <2>2. DOMAIN Order = 1..n /\ DOMAIN Order = 1..Len(Order) /\ Len(Order) \in Nat
    BY <1>4, <2>1, LenProperties DEF Injection
  <2>3. QED BY <1>2, <2>2
<1>8. ASSUME NEW p \in Presets
      PROVE  PlaceOf(p) \in 0..(Len(Order) - 1) /\ Order[PlaceOf(p) + 1] = p
  <2>1. PICK i \in 1..n : Order[i] = p
    BY <1>6 DEF Surjection
  <2>2. i - 1 \in 0..(Len(Order) - 1) /\ (i - 1) + 1 = i
    BY <1>2, <1>7
  <2>3. QED BY <2>1, <2>2 DEF PlaceOf
<1>9. QED BY <1>2, <1>7, <1>8

-----------------------------------------------------------------------------
(* Changes of the store.                                                    *)

LEMMA FirstIn ==
  ASSUME ProviderTypes, UniqueIn(store), NEW id, Holds(id)
  PROVE  FirstOf(id) \in 1..Len(store) /\ store[FirstOf(id)].id = id
<1>1. Len(store) \in Nat /\ DOMAIN store = 1..Len(store)
  BY LenProperties DEF ProviderTypes
<1>2. PICK i \in DOMAIN store : store[i].id = id
  BY DEF Holds
<1>3. \A j \in 1..i - 1 : store[j].id # id
  BY <1>1, <1>2 DEF UniqueIn
<1>4. QED BY <1>1, <1>2, <1>3 DEF FirstOf

\* A list of providers has other ones only in so far as one was put or taken.
LEMMA PutThere ==
  ASSUME ProviderTypes, UniqueIn(store), NEW c \in StoredProviders, Holds(c.id),
         \A r \in ToSet(store) : r.id = c.id => r.name = c.name
  PROVE  /\ Replaced(c) \in Seq(StoredProviders) /\ UniqueIn(Replaced(c))
         /\ ToSet(Replaced(c)) \subseteq ToSet(store) \cup {c}
         /\ \A p : p # c.name => Kept(Replaced(c), p) = Kept(store, p)
         /\ \A s : Kept(store, c.name) = {s} => Kept(Replaced(c), c.name) = {c}
<1> DEFINE k == FirstOf(c.id)  list == [store EXCEPT ![k] = c]
<1>1. /\ store \in Seq(StoredProviders) /\ Len(store) \in Nat /\ DOMAIN store = 1..Len(store)
      /\ k \in 1..Len(store) /\ store[k].id = c.id
  BY FirstIn, LenProperties DEF ProviderTypes
<1>2. Replaced(c) = list
  BY DEF Replaced
<1> HIDE DEF k
<1>3. /\ list \in Seq(StoredProviders) /\ DOMAIN list = 1..Len(store)
      /\ \A i \in 1..Len(store) : list[i] = IF i = k THEN c ELSE store[i]
  BY <1>1, ExceptSeq, LenProperties
<1> HIDE DEF list
<1>4. UniqueIn(list)
  BY <1>1, <1>3 DEF UniqueIn
<1>5. \A r : r \in ToSet(list) <=> r = c \/ (r \in ToSet(store) /\ r # store[k])
  <2>1. \A r : r \in ToSet(list) => r = c \/ (r \in ToSet(store) /\ r # store[k])
    BY <1>1, <1>3 DEF ToSet, UniqueIn
  <2>2. c \in ToSet(list)
    BY <1>1, <1>3 DEF ToSet
  <2>3. \A r : r \in ToSet(store) /\ r # store[k] => r \in ToSet(list)
    BY <1>1, <1>3 DEF ToSet
  <2>4. QED BY <2>1, <2>2, <2>3
<1>6. store[k].name = c.name /\ store[k] \in ToSet(store)
  BY <1>1 DEF ToSet
<1>7. \A p : p # c.name => Kept(list, p) = Kept(store, p)
  BY <1>5, <1>6 DEF Kept
<1>8. \A s : Kept(store, c.name) = {s} => Kept(list, c.name) = {c}
  <2>1. store[k] \in Kept(store, c.name)
    BY <1>6 DEF Kept
  <2>2. QED BY <1>5, <2>1 DEF Kept
<1>9. QED BY <1>2, <1>3, <1>4, <1>5, <1>7, <1>8

LEMMA AddedThere ==
  ASSUME ProviderTypes, UniqueIn(store), NEW c \in StoredProviders, ~Holds(c.id)
  PROVE  /\ Append(store, c) \in Seq(StoredProviders) /\ UniqueIn(Append(store, c))
         /\ ToSet(Append(store, c)) = ToSet(store) \cup {c}
         /\ \A p : p # c.name => Kept(Append(store, c), p) = Kept(store, p)
         /\ Kept(store, c.name) = {} => Kept(Append(store, c), c.name) = {c}
<1> DEFINE list == Append(store, c)
<1>1. store \in Seq(StoredProviders) /\ Len(store) \in Nat /\ DOMAIN store = 1..Len(store)
  BY LenProperties DEF ProviderTypes
<1>2. /\ list \in Seq(StoredProviders) /\ Len(list) = Len(store) + 1
      /\ \A i \in 1..Len(store) : list[i] = store[i]
      /\ list[Len(store) + 1] = c
  BY <1>1, AppendProperties
<1> HIDE DEF list
<1>3. DOMAIN list = 1..Len(store) + 1
  BY <1>2, LenProperties
<1>4. UniqueIn(list)
  <2>1. \A i \in 1..Len(store) : store[i].id # c.id
    BY <1>1 DEF Holds
  <2>2. QED BY <1>1, <1>2, <1>3, <2>1 DEF UniqueIn
<1>5. ToSet(list) = ToSet(store) \cup {c}
  <2>1. \A r \in ToSet(list) : r \in ToSet(store) \cup {c}
    BY <1>1, <1>2, <1>3 DEF ToSet
  <2>2. c \in ToSet(list)
    BY <1>1, <1>2, <1>3 DEF ToSet
  <2>3. \A r \in ToSet(store) : r \in ToSet(list)
    BY <1>1, <1>2, <1>3 DEF ToSet
  <2>4. QED BY <2>1, <2>2, <2>3
<1>6. \A p : p # c.name => Kept(list, p) = Kept(store, p)
  BY <1>5 DEF Kept
<1>7. Kept(store, c.name) = {} => Kept(list, c.name) = {c}
  BY <1>5 DEF Kept
<1>8. QED BY <1>2, <1>4, <1>5, <1>6, <1>7 DEF list

LEMMA TakenAway ==
  ASSUME ProviderTypes, UniqueIn(store), NEW id, Holds(id)
  PROVE  /\ Without(id) \in Seq(StoredProviders) /\ UniqueIn(Without(id))
         /\ ToSet(Without(id)) \subseteq ToSet(store)
         /\ \A p : (\A r \in ToSet(store) : r.id = id => r.name # p)
                     => Kept(Without(id), p) = Kept(store, p)
         /\ \A p, s : Kept(store, p) = {s} /\ s.id = id => Kept(Without(id), p) = {}
<1> DEFINE k == FirstOf(id)  list == RemoveAt(store, k)
<1>1. /\ store \in Seq(StoredProviders) /\ Len(store) \in Nat /\ DOMAIN store = 1..Len(store)
      /\ k \in 1..Len(store) /\ store[k].id = id
  BY FirstIn, LenProperties DEF ProviderTypes
<1>2. Without(id) = list
  BY DEF Without
<1> HIDE DEF k
<1>3. /\ list \in Seq(StoredProviders) /\ Len(list) = Len(store) - 1
      /\ \A i \in 1..Len(store) - 1 : list[i] = IF i < k THEN store[i] ELSE store[i + 1]
  BY <1>1, Removed
<1> HIDE DEF list
<1>4. DOMAIN list = 1..Len(store) - 1
  BY <1>3, LenProperties
<1>5. UniqueIn(list)
  <2> DEFINE place(i) == IF i < k THEN i ELSE i + 1
  <2>1. \A i \in 1..Len(store) - 1 : place(i) \in 1..Len(store) /\ list[i] = store[place(i)]
    <3> SUFFICES ASSUME NEW i \in 1..Len(store) - 1
                 PROVE  place(i) \in 1..Len(store) /\ list[i] = store[place(i)]
      OBVIOUS
    <3>1. list[i] = IF i < k THEN store[i] ELSE store[i + 1]
      BY <1>3
    <3>2. i \in 1..Len(store) /\ i + 1 \in 1..Len(store)
      BY <1>1
    <3>3. QED BY <3>1, <3>2
  <2>2. \A i, j \in 1..Len(store) - 1 : place(i) = place(j) => i = j
    BY <1>1
  <2> HIDE DEF place
  <2>3. QED BY <1>1, <1>4, <2>1, <2>2 DEF UniqueIn
<1>6. \A r : r \in ToSet(list) <=> r \in ToSet(store) /\ r # store[k]
  <2>1. ASSUME NEW j \in 1..Len(store) - 1 PROVE list[j] \in ToSet(store) /\ list[j] # store[k]
    <3>1. PICK i \in 1..Len(store) : i # k /\ list[j] = store[i]
      BY <1>1, <1>3
    <3>2. QED BY <1>1, <3>1 DEF ToSet, UniqueIn
  <2>2. ASSUME NEW i \in 1..Len(store), i # k PROVE store[i] \in ToSet(list)
    <3>1. CASE i < k
      <4>1. i \in 1..Len(store) - 1
        BY <1>1, <3>1
      <4>2. QED BY <1>3, <1>4, <3>1, <4>1 DEF ToSet
    <3>2. CASE i > k
      <4>1. i - 1 \in 1..Len(store) - 1 /\ ~(i - 1 < k) /\ (i - 1) + 1 = i
        BY <1>1, <3>2
      <4>2. list[i - 1] = store[i]
        BY <1>3, <4>1
      <4>3. QED BY <1>4, <4>1, <4>2 DEF ToSet
    <3>3. QED BY <1>1, <2>2, <3>1, <3>2
  <2>3. QED BY <1>1, <1>4, <2>1, <2>2 DEF ToSet
<1>7. store[k] \in ToSet(store)
  BY <1>1 DEF ToSet
<1>8. \A p : (\A r \in ToSet(store) : r.id = id => r.name # p) => Kept(list, p) = Kept(store, p)
  BY <1>1, <1>6, <1>7 DEF Kept
<1>9. ASSUME NEW p, NEW s, Kept(store, p) = {s}, s.id = id PROVE Kept(list, p) = {}
  <2>1. s \in ToSet(store)
    BY <1>9 DEF Kept
  <2>2. s = store[k]
    BY <1>1, <1>9, <2>1 DEF ToSet, UniqueIn
  <2>3. QED BY <1>6, <1>9, <2>2 DEF Kept
<1>10. QED BY <1>2, <1>3, <1>5, <1>6, <1>8, <1>9

-----------------------------------------------------------------------------
(* Changes of the calls.                                                    *)

\* The calls that work on a preset, when another one ends, goes on, or begins.
LEMMA CallEnds ==
  ASSUME NEW cs \in Seq(DialogCalls), NEW i \in 1..Len(cs), NEW p
  PROVE  /\ RemoveAt(cs, i) \in Seq(DialogCalls)
         /\ \A j \in DOMAIN RemoveAt(cs, i) : \E k \in DOMAIN cs : RemoveAt(cs, i)[j] = cs[k]
         /\ Works(cs, p) \subseteq {i} => Works(RemoveAt(cs, i), p) = {}
         /\ \A c : OneWorks(cs, p, c) /\ i \notin Works(cs, p) => OneWorks(RemoveAt(cs, i), p, c)
<1> DEFINE list == RemoveAt(cs, i)
           place(j) == IF j < i THEN j ELSE j + 1
<1>1. Len(cs) \in Nat /\ DOMAIN cs = 1..Len(cs)
  BY LenProperties
<1>2. /\ list \in Seq(DialogCalls) /\ Len(list) = Len(cs) - 1
      /\ \A j \in 1..Len(cs) - 1 : list[j] = IF j < i THEN cs[j] ELSE cs[j + 1]
  BY Removed
<1> HIDE DEF list
<1>3. DOMAIN list = 1..Len(cs) - 1
  BY <1>2, LenProperties
<1>4. \A j \in DOMAIN list : place(j) \in DOMAIN cs \ {i} /\ list[j] = cs[place(j)]
  BY <1>1, <1>2, <1>3
<1>5. \A k \in DOMAIN cs \ {i} : \E j \in DOMAIN list : place(j) = k
  <2> SUFFICES ASSUME NEW k \in DOMAIN cs \ {i} PROVE \E j \in DOMAIN list : place(j) = k
    OBVIOUS
  <2>1. CASE k < i
    <3>1. k \in DOMAIN list /\ place(k) = k
      BY <1>1, <1>3, <2>1
    <3>2. QED BY <3>1
  <2>2. CASE k > i
    <3>1. k - 1 \in DOMAIN list /\ place(k - 1) = k
      BY <1>1, <1>3, <2>2
    <3>2. QED BY <3>1
  <2>3. QED BY <1>1, <2>1, <2>2
<1>6. \A j, k \in DOMAIN list : place(j) = place(k) => j = k
  BY <1>3
<1> HIDE DEF place
<1>7. \A j \in DOMAIN list : j \in Works(list, p) <=> place(j) \in Works(cs, p)
  BY <1>4 DEF Works
<1>8. Works(cs, p) \subseteq {i} => Works(list, p) = {}
  BY <1>4, <1>7 DEF Works
<1>9. ASSUME NEW c, OneWorks(cs, p, c), i \notin Works(cs, p) PROVE OneWorks(list, p, c)
  <2>1. PICK k \in DOMAIN cs : Works(cs, p) = {k} /\ cs[k] = c
    BY <1>9 DEF OneWorks
  <2>2. k # i
    BY <1>9, <2>1
  <2>3. PICK j \in DOMAIN list : place(j) = k
    BY <1>5, <2>1, <2>2
  <2>4. Works(list, p) = {j}
    BY <1>6, <1>7, <2>1, <2>3 DEF Works
  <2>5. QED BY <1>4, <2>1, <2>3, <2>4 DEF OneWorks
<1>10. QED BY <1>2, <1>4, <1>8, <1>9 DEF list

LEMMA CallGoesOn ==
  ASSUME NEW cs \in Seq(DialogCalls), NEW i \in 1..Len(cs), NEW d \in DialogCalls, NEW p
  PROVE  /\ [cs EXCEPT ![i] = d] \in Seq(DialogCalls)
         /\ DOMAIN [cs EXCEPT ![i] = d] = DOMAIN cs
         /\ \A j \in DOMAIN cs : [cs EXCEPT ![i] = d][j] = IF j = i THEN d ELSE cs[j]
         /\ (d.kind = "load" \/ p \notin Touches(d)) /\ Works(cs, p) \subseteq {i}
              => Works([cs EXCEPT ![i] = d], p) = {}
         /\ d.kind # "load" /\ p \in Touches(d) /\ Works(cs, p) = {i}
              => OneWorks([cs EXCEPT ![i] = d], p, d)
         /\ (d.kind = "load" \/ p \notin Touches(d)) /\ i \notin Works(cs, p)
              => \A c : OneWorks(cs, p, c) => OneWorks([cs EXCEPT ![i] = d], p, c)
<1> DEFINE list == [cs EXCEPT ![i] = d]
<1>1. Len(cs) \in Nat /\ DOMAIN cs = 1..Len(cs)
  BY LenProperties
<1>2. /\ list \in Seq(DialogCalls) /\ DOMAIN list = DOMAIN cs
      /\ \A j \in DOMAIN cs : list[j] = IF j = i THEN d ELSE cs[j]
  BY <1>1, ExceptSeq, LenProperties
<1> HIDE DEF list
<1>3. /\ \A j \in DOMAIN cs \ {i} : j \in Works(list, p) <=> j \in Works(cs, p)
      /\ i \in Works(list, p) <=> d.kind # "load" /\ p \in Touches(d)
      /\ Works(list, p) \subseteq DOMAIN cs /\ Works(cs, p) \subseteq DOMAIN cs
  BY <1>1, <1>2 DEF Works
<1>4. (d.kind = "load" \/ p \notin Touches(d)) /\ Works(cs, p) \subseteq {i} => Works(list, p) = {}
  BY <1>3
<1>5. d.kind # "load" /\ p \in Touches(d) /\ Works(cs, p) = {i} => OneWorks(list, p, d)
  BY <1>1, <1>2, <1>3 DEF OneWorks
<1>6. ASSUME NEW c, OneWorks(cs, p, c), i \notin Works(cs, p),
             d.kind = "load" \/ p \notin Touches(d)
      PROVE  OneWorks(list, p, c)
  <2>1. PICK k \in DOMAIN cs : Works(cs, p) = {k} /\ cs[k] = c
    BY <1>6 DEF OneWorks
  <2>2. k # i /\ Works(list, p) = {k}
    BY <1>3, <1>6, <2>1
  <2>3. QED BY <1>2, <2>1, <2>2 DEF OneWorks
<1>7. QED BY <1>2, <1>4, <1>5, <1>6 DEF list

LEMMA CallBegins ==
  ASSUME NEW cs \in Seq(DialogCalls), NEW d \in DialogCalls, NEW p
  PROVE  /\ Append(cs, d) \in Seq(DialogCalls)
         /\ \A j \in DOMAIN Append(cs, d) :
              Append(cs, d)[j] = d \/ \E k \in DOMAIN cs : Append(cs, d)[j] = cs[k]
         /\ d.kind = "load" \/ p \notin Touches(d) =>
              /\ Works(cs, p) = {} => Works(Append(cs, d), p) = {}
              /\ \A c : OneWorks(cs, p, c) => OneWorks(Append(cs, d), p, c)
         /\ d.kind # "load" /\ p \in Touches(d) /\ Works(cs, p) = {}
              => OneWorks(Append(cs, d), p, d)
<1> DEFINE list == Append(cs, d)  n == Len(cs) + 1
<1>1. Len(cs) \in Nat /\ DOMAIN cs = 1..Len(cs)
  BY LenProperties
<1>2. /\ list \in Seq(DialogCalls) /\ Len(list) = n /\ list[n] = d
      /\ \A j \in 1..Len(cs) : list[j] = cs[j]
  BY <1>1, AppendProperties
<1> HIDE DEF list
<1>3. /\ DOMAIN list = 1..n /\ n \in DOMAIN list /\ n \notin DOMAIN cs
      /\ DOMAIN list = DOMAIN cs \cup {n}
  BY <1>1, <1>2, LenProperties
<1> HIDE DEF n
<1>4. /\ \A j \in DOMAIN cs : j \in Works(list, p) <=> j \in Works(cs, p)
      /\ n \in Works(list, p) <=> d.kind # "load" /\ p \in Touches(d)
      /\ Works(list, p) \subseteq DOMAIN cs \cup {n} /\ Works(cs, p) \subseteq DOMAIN cs
  BY <1>1, <1>2, <1>3 DEF Works
<1>5. ASSUME d.kind = "load" \/ p \notin Touches(d)
      PROVE  Works(list, p) = Works(cs, p)
  BY <1>4, <1>5
<1>6. ASSUME d.kind = "load" \/ p \notin Touches(d), NEW c, OneWorks(cs, p, c)
      PROVE  OneWorks(list, p, c)
  <2>1. PICK k \in DOMAIN cs : Works(cs, p) = {k} /\ cs[k] = c
    BY <1>6 DEF OneWorks
  <2>2. Works(list, p) = {k} /\ list[k] = c /\ k \in DOMAIN list
    BY <1>1, <1>2, <1>3, <1>5, <1>6, <2>1
  <2>3. QED BY <2>2 DEF OneWorks
<1>7. d.kind # "load" /\ p \in Touches(d) /\ Works(cs, p) = {} => OneWorks(list, p, d)
  BY <1>2, <1>3, <1>4 DEF OneWorks
<1>8. \A j \in DOMAIN list : list[j] = d \/ \E k \in DOMAIN cs : list[j] = cs[k]
  BY <1>1, <1>2, <1>3
<1>9. QED BY <1>2, <1>5, <1>6, <1>7, <1>8 DEF list

-----------------------------------------------------------------------------
(* What a step leaves as it was.                                            *)

\* A record whose id and name are those of one there is, or of a new one.
Alike(r, s) == s.id = r.id /\ s.name = r.name
Known(r, fresh) == \E s \in Records \cup fresh : Alike(r, s)

LEMMA StillIdentified ==
  ASSUME ProviderTypes, Identified, NEW fresh, nextId' \in Nat, nextId <= nextId',
         \A r \in fresh : r.id \in Nat /\ nextId <= r.id /\ r.id < nextId',
         \A r, s \in fresh : r.id = s.id => r.name = s.name,
         \A r \in ToSet(store') \cup ToSet(file') : Known(r, fresh),
         Loaded' => \A p \in Presets : Known(rows'[p], fresh),
         \A i \in DOMAIN calls' : \A r \in RowsOfCall(calls'[i]) \cup ToSet(calls'[i].got) :
           Known(r, fresh)
  PROVE  Identified'
<1>1. \A r \in Records' : Known(r, fresh)
  BY DEF Records
<1>2. \A r \in Records : r.id \in Nat
  <2>1. \A r \in ToSet(store) \cup ToSet(file) : r.id \in Nat
    <3>1. \A j \in DOMAIN store : store[j] \in StoredProviders
      BY ElementOfSeq DEF ProviderTypes
    <3>2. \A j \in DOMAIN file : file[j] \in StoredProviders
      BY ElementOfSeq DEF ProviderTypes
    <3>3. QED BY <3>1, <3>2 DEF ToSet, StoredProviders
  <2>2. Loaded => \A p \in Presets : rows[p].id \in Nat
    BY DEF ProviderTypes, Loaded, DialogRows
  <2>3. \A i \in DOMAIN calls : calls[i] \in DialogCalls
    BY ElementOfSeq DEF ProviderTypes
  <2>4. \A i \in DOMAIN calls : \A r \in RowsOfCall(calls[i]) : r.id \in Nat
    BY <2>3 DEF RowsOfCall, DialogCalls, DialogRows
  <2>5. \A i \in DOMAIN calls : \A r \in ToSet(calls[i].got) : r.id \in Nat
    <3> SUFFICES ASSUME NEW i \in DOMAIN calls, NEW j \in DOMAIN calls[i].got
                 PROVE  calls[i].got[j].id \in Nat
      BY DEF ToSet
    <3>1. calls[i].got \in Seq(StoredProviders)
      BY <2>3 DEF DialogCalls
    <3>2. calls[i].got[j] \in StoredProviders
      BY <3>1, ElementOfSeq
    <3>3. QED BY <3>2 DEF StoredProviders
  <2>6. QED BY <2>1, <2>2, <2>4, <2>5 DEF Records
<1>3. nextId \in Nat
  BY DEF ProviderTypes
<1>4. \A r \in Records \cup fresh : r.id < nextId'
  BY <1>2, <1>3 DEF Identified
<1>5. \A r, s \in Records \cup fresh : r.id = s.id => r.name = s.name
  BY <1>2, <1>3 DEF Identified
<1>6. QED BY <1>1, <1>4, <1>5 DEF Known, Alike, Identified

LEMMA InRecords ==
  /\ ToSet(store) \cup ToSet(file) \subseteq Records
  /\ Loaded => \A p \in Presets : rows[p] \in Records
  /\ \A i \in DOMAIN calls : RowsOfCall(calls[i]) \cup ToSet(calls[i].got) \subseteq Records
  /\ \A fresh : \A r \in Records : Known(r, fresh)
BY DEF Records, Known, Alike

\* A preset that a step does not touch.
LEMMA FollowsOn ==
  ASSUME NEW p \in Presets, Followed(p),
         rows'[p] = rows[p], Kept(store', p) = Kept(store, p), p \in edited' <=> p \in edited,
         Works(calls, p) = {} => Works(calls', p) = {},
         \A c : OneWorks(calls, p, c) => OneWorks(calls', p, c)
  PROVE  Followed(p)'
<1>1. Matches(p)' = Matches(p)
  BY DEF Matches
<1>2. \A r : ToSave(p, r)' = ToSave(p, r)
  BY <1>1 DEF ToSave
<1>3. \A r : Saved(p, r)' = Saved(p, r)
  BY DEF Saved
<1>4. \A c \in DialogCalls : Course(p, c) => Course(p, c)'
  BY <1>1, <1>2, <1>3 DEF Course
<1>5. Agrees(p) => Agrees(p)'
  BY <1>1 DEF Agrees
<1>6. CASE Works(calls, p) = {} /\ Agrees(p)
  BY <1>5, <1>6 DEF Followed
<1>7. CASE \E c \in DialogCalls : OneWorks(calls, p, c) /\ Course(p, c)
  BY <1>4, <1>7 DEF Followed
<1>8. QED BY <1>6, <1>7 DEF Followed

-----------------------------------------------------------------------------
(* The back end.                                                            *)

LEMMA CallTypes ==
  ASSUME ProviderTypes
  PROVE  /\ DOMAIN calls = 1..Len(calls) /\ Len(calls) \in Nat
         /\ \A i \in DOMAIN calls :
              /\ calls[i] \in DialogCalls /\ calls[i].row \in DialogRows
              /\ calls[i].rest \in SUBSET DialogRows /\ calls[i].got \in Seq(StoredProviders)
              /\ Config(calls[i].row) \in StoredProviders
<1>1. /\ DOMAIN calls = 1..Len(calls) /\ Len(calls) \in Nat
      /\ \A i \in DOMAIN calls : calls[i] \in DialogCalls
  BY LenProperties, ElementOfSeq DEF ProviderTypes
<1>2. \A i \in DOMAIN calls : calls[i].row \in DialogRows /\ calls[i].rest \in SUBSET DialogRows
                                /\ calls[i].got \in Seq(StoredProviders)
  BY <1>1 DEF DialogCalls
<1>3. \A r \in DialogRows : Config(r) \in StoredProviders
  BY DEF DialogRows, StoredProviders, Config
<1>4. QED BY <1>1, <1>2, <1>3

\* The call that ran, as it goes on.
Ran(c, d) ==
  /\ d.kind = c.kind /\ d.row = c.row /\ d.rest = c.rest /\ d.at \in {"done", "failed"}
  /\ d.got = c.got \/ (c.kind = "load" /\ d.got = store)

LEMMA RanCall ==
  ASSUME ProvidersInv, NEW i \in DOMAIN calls, Runs(i)
  PROVE  \E d \in DialogCalls : Ran(calls[i], d) /\ calls' = [calls EXCEPT ![i] = d]
<1> DEFINE c == calls[i]
           ended(at) == [c EXCEPT !.at = at]
           read == [c EXCEPT !.at = "done", !.got = store]
<1>1. c \in DialogCalls /\ store \in Seq(StoredProviders)
  BY CallTypes DEF ProvidersInv, ProviderTypes
<1>2. \A at \in {"done", "failed"} : ended(at) \in DialogCalls /\ Ran(c, ended(at))
  BY <1>1 DEF DialogCalls, Ran
<1>3. c.kind = "load" => read \in DialogCalls /\ Ran(c, read)
  BY <1>1 DEF DialogCalls, Ran
<1>4. \/ c.kind = "load" /\ calls' = [calls EXCEPT ![i] = read]
      \/ \E at \in {"done", "failed"} : calls' = [calls EXCEPT ![i] = ended(at)]
  <2>1. CASE c.kind = "load"
    BY <2>1 DEF Runs
  <2>2. CASE c.kind = "remove" /\ Holds(c.row.id)
    BY <2>2 DEF Runs, Written
  <2>3. CASE c.kind = "remove" /\ ~Holds(c.row.id)
    BY <2>3 DEF Runs
  <2>4. CASE c.kind = "custom"
    BY <2>4 DEF Runs, Written
  <2>5. CASE c.kind \notin {"load", "remove", "custom"}
    BY <2>5 DEF Runs, Written
  <2>6. QED BY <2>1, <2>2, <2>3, <2>4, <2>5
<1> HIDE DEF ended, read
<1>5. QED BY <1>2, <1>3, <1>4

\* What a call asks of the store it finds.
Stores(c, list) ==
  \/ c.kind = "load" /\ list = store
  \/ c.kind = "remove" /\ list = IF Holds(c.row.id) THEN Without(c.row.id) ELSE store
  \/ c.kind \in {"save", "saveAll"} /\ list = IF c.row.configured THEN Replaced(Config(c.row))
                                              ELSE Added(Config(c.row))
  \/ c.kind = "custom" /\ list = Added(Config(c.row))

LEMMA RanStores ==
  ASSUME ProvidersInv, NEW i \in DOMAIN calls, Runs(i)
  PROVE  /\ Stores(calls[i], store') /\ file' \in {file, store', << >>}
         /\ UNCHANGED <<rows, nextId, edited, doubtful>> /\ calls[i].at = "asked"
<1> DEFINE c == calls[i]
<1>1. c.kind \in {"load", "save", "saveAll", "remove", "custom"}
  BY CallTypes DEF ProvidersInv, DialogCalls
<1>2. Stores(c, store') /\ file' \in {file, store', << >>}
  <2>1. CASE c.kind = "load"
    BY <2>1 DEF Runs, Stores
  <2>2. CASE c.kind = "remove" /\ Holds(c.row.id)
    BY <2>2 DEF Runs, Written, Stores
  <2>3. CASE c.kind = "remove" /\ ~Holds(c.row.id)
    BY <2>3 DEF Runs, Stores
  <2>4. CASE c.kind = "custom"
    BY <2>4 DEF Runs, Written, Stores
  <2>5. CASE c.kind \in {"save", "saveAll"}
    BY <2>5 DEF Runs, Written, Stores
  <2>6. QED BY <1>1, <2>1, <2>2, <2>3, <2>4, <2>5
<1>3. UNCHANGED <<rows, nextId, edited, doubtful>> /\ c.at = "asked"
  BY DEF Runs
<1>4. QED BY <1>2, <1>3

\* A stored provider with the id of a call's row has its name.
LEMMA SameNames ==
  ASSUME ProvidersInv, NEW i \in DOMAIN calls, calls[i].kind # "load"
  PROVE  \A r \in ToSet(store) : r.id = calls[i].row.id => r.name = calls[i].row.name
BY InRecords DEF ProvidersInv, Identified, RowsOfCall

LEMMA StoreChanges ==
  ASSUME ProvidersInv, NEW i \in DOMAIN calls, NEW list, Stores(calls[i], list)
  PROVE  /\ list \in Seq(StoredProviders) /\ UniqueIn(list)
         /\ \A r \in ToSet(list) :
              r \in ToSet(store) \/ (calls[i].kind # "load" /\ r = Config(calls[i].row))
         /\ \A p : p # calls[i].row.name \/ calls[i].kind = "load" => Kept(list, p) = Kept(store, p)
<1> DEFINE c == calls[i]  w == Config(c.row)
<1>1. ProviderTypes /\ UniqueIn(store) /\ store \in Seq(StoredProviders) /\ w \in StoredProviders
  BY CallTypes DEF ProvidersInv, Uniques, ProviderTypes
<1>2. w.id = c.row.id /\ w.name = c.row.name
  BY DEF Config
<1> HIDE DEF w
<1>3. c.kind # "load" => \A r \in ToSet(store) : r.id = c.row.id => r.name = c.row.name
  BY SameNames
<1>4. CASE c.kind \in {"save", "saveAll", "custom"} /\ list \in {Replaced(w), Added(w)}
  <2>1. CASE Holds(w.id)
    <3>1. list = Replaced(w)
      BY <1>4, <2>1 DEF Added
    <3>2. \A r \in ToSet(store) : r.id = w.id => r.name = w.name
      BY <1>2, <1>3, <1>4
    <3>3. QED BY <1>1, <1>2, <1>4, <2>1, <3>1, <3>2, PutThere DEF w
  <2>2. CASE ~Holds(w.id) /\ list = store
    BY <1>1, <2>2
  <2>3. CASE ~Holds(w.id) /\ list = Append(store, w)
    BY <1>1, <1>2, <1>4, <2>3, AddedThere DEF w
  <2>4. QED BY <1>4, <2>1, <2>2, <2>3 DEF Replaced, Added
<1>5. CASE c.kind = "remove" /\ Holds(c.row.id) /\ list = Without(c.row.id)
  <2>1. \A p : p # c.row.name => \A r \in ToSet(store) : r.id = c.row.id => r.name # p
    BY <1>3, <1>5
  <2>2. QED BY <1>1, <1>5, <2>1, TakenAway
<1>6. CASE list = store
  BY <1>1, <1>6
<1>7. QED BY <1>4, <1>5, <1>6 DEF Stores, w

\* The call a preset is left to.
LEMMA OneCall ==
  ASSUME NEW p, Followed(p), NEW i \in Works(calls, p)
  PROVE  Works(calls, p) = {i} /\ Course(p, calls[i])
BY DEF Followed, OneWorks

\* A call that has run for its own row.
LEMMA RanOwn ==
  ASSUME ProvidersInv, Loaded, NEW i \in DOMAIN calls, calls[i].kind # "load",
         NEW p \in Presets, p = calls[i].row.name, Course(p, calls[i]), Runs(i),
         NEW d \in DialogCalls, Ran(calls[i], d)
  PROVE  Course(p, d)'
<1> DEFINE c == calls[i]  w == Config(c.row)
<1>1. /\ ProviderTypes /\ UniqueIn(store) /\ w \in StoredProviders /\ c \in DialogCalls
      /\ CallShape(c)
  BY CallTypes DEF ProvidersInv, Uniques, CallShapes
<1>2. w.id = c.row.id /\ w.name = p /\ w.key = c.row.key
  BY DEF Config
<1> HIDE DEF w
<1>3. Stores(c, store') /\ UNCHANGED <<rows, edited>> /\ c.at = "asked"
  BY RanStores
<1>4. \A r \in ToSet(store) : r.id = w.id => r.name = p
  BY <1>2, SameNames
<1>5. \A r : r \in Kept(store, p) => r \in ToSet(store) /\ r.name = p
  BY DEF Kept
<1>6. Holds(w.id) <=> \E r \in ToSet(store) : r.id = w.id
  BY DEF Holds, ToSet
<1>7. \A r \in d.rest : r.name # p
  BY <1>1 DEF CallShape, Ran
<1>8. c.kind \in {"save", "saveAll"} => Saved(p, d.row)'
  <2> SUFFICES ASSUME c.kind \in {"save", "saveAll"} PROVE Saved(p, d.row)'
    OBVIOUS
  <2>1. ToSave(p, c.row)
    BY <1>3 DEF Course
  <2>2. Kept(store', p) = {w}
    <3>1. CASE c.row.configured
      <4>1. PICK r \in Kept(store, p) : Kept(store, p) = {r} /\ r.id = w.id
        BY <1>2, <2>1, <3>1 DEF ToSave, Matches
      <4>2. Holds(w.id) /\ store' = Replaced(w)
        BY <1>3, <1>5, <1>6, <3>1, <4>1 DEF Stores, w
      <4>3. QED BY <1>1, <1>2, <1>4, <4>1, <4>2, PutThere
    <3>2. CASE ~c.row.configured
      <4>1. Kept(store, p) = {}
        BY <2>1, <3>2 DEF ToSave, Matches
      <4>2. ~Holds(w.id)
        BY <1>4, <1>6, <4>1 DEF Kept
      <4>3. store' = Append(store, w)
        BY <1>3, <3>2, <4>2 DEF Stores, Added, w
      <4>4. QED BY <1>1, <1>2, <4>1, <4>2, <4>3, AddedThere
    <3>3. QED BY <3>1, <3>2
  <2>3. c.row.id = rows'[p].id /\ (p \notin edited' => c.row.key = rows'[p].key)
    BY <1>3, <2>1 DEF ToSave
  <2>4. d.row = c.row
    BY DEF Ran
  <2>5. QED BY <1>2, <2>2, <2>3, <2>4 DEF Saved
<1>9. c.kind = "remove" => c.row.id = rows'[p].id /\ Kept(store', p) = {}
  <2> SUFFICES ASSUME c.kind = "remove" PROVE c.row.id = rows'[p].id /\ Kept(store', p) = {}
    OBVIOUS
  <2>1. c.row.id = rows[p].id /\ Matches(p) /\ rows[p].configured
    BY <1>3 DEF Course
  <2>2. PICK r \in Kept(store, p) : Kept(store, p) = {r} /\ r.id = c.row.id
    BY <2>1 DEF Matches
  <2>3. Holds(c.row.id) /\ store' = Without(c.row.id)
    BY <1>2, <1>3, <1>5, <1>6, <2>2 DEF Stores
  <2>4. QED BY <1>1, <1>3, <2>1, <2>2, <2>3, TakenAway
<1>10. d.kind = c.kind /\ d.row = c.row /\ d.at \in {"done", "failed"}
  BY DEF Ran
<1>11. (d.row.name = p /\ d.kind \in {"save", "saveAll"} =>
         /\ d.at = "asked" => ToSave(p, d.row)'
         /\ d.at = "done" => Saved(p, d.row)')
  BY <1>8, <1>10
<1>12. d.row.name = p /\ d.kind = "remove" =>
         /\ d.row.id = rows'[p].id
         /\ d.at = "asked" => Matches(p)' /\ rows'[p].configured
         /\ d.at = "done" => Kept(store', p) = {}
  BY <1>9, <1>10
<1>13. QED BY <1>7, <1>11, <1>12 DEF Course

\* A call that has run for another row.
LEMMA RanOther ==
  ASSUME NEW c \in DialogCalls, NEW p \in Presets, Course(p, c), p # c.row.name,
         NEW d \in DialogCalls, Ran(c, d), Kept(store', p) = Kept(store, p),
         UNCHANGED <<rows, edited>>
  PROVE  Course(p, d)'
<1>1. \A r : ToSave(p, r) => ToSave(p, r)'
  BY DEF ToSave, Matches
<1>2. d.row.name # p /\ \A r \in d.rest : r.name = p => ToSave(p, r)'
  BY <1>1 DEF Course, Ran
<1>3. QED BY <1>2 DEF Course

LEMMA RunsFollowed ==
  ASSUME ProvidersInv, Loaded, NEW i \in DOMAIN calls, Runs(i),
         NEW p \in Presets \ doubtful, Followed(p)
  PROVE  Followed(p)'
<1> DEFINE c == calls[i]
<1>1. PICK d \in DialogCalls : Ran(c, d) /\ calls' = [calls EXCEPT ![i] = d]
  BY RanCall
<1>2. /\ ProviderTypes /\ calls \in Seq(DialogCalls) /\ i \in 1..Len(calls) /\ c \in DialogCalls
      /\ Stores(c, store') /\ UNCHANGED <<rows, edited>>
  BY CallTypes, RanStores DEF ProvidersInv, ProviderTypes
<1>3. p # c.row.name \/ c.kind = "load" => Kept(store', p) = Kept(store, p)
  BY <1>2, StoreChanges
<1>4. CASE i \notin Works(calls, p)
  <2>1. c.kind = "load" \/ p \notin Touches(c)
    BY <1>4 DEF Works
  <2>2. d.kind = "load" \/ p \notin Touches(d)
    BY <1>1, <2>1 DEF Ran, Touches
  <2>3. /\ Works(calls, p) = {} => Works(calls', p) = {}
        /\ \A e : OneWorks(calls, p, e) => OneWorks(calls', p, e)
    BY <1>1, <1>2, <1>4, <2>2, CallGoesOn
  <2>4. Kept(store', p) = Kept(store, p)
    BY <1>3, <2>1 DEF Touches
  <2>5. QED BY <1>2, <2>3, <2>4, FollowsOn
<1>5. CASE i \in Works(calls, p)
  <2>1. Works(calls, p) = {i} /\ Course(p, c)
    BY <1>5, OneCall
  <2>2. c.kind # "load" /\ p \in Touches(c)
    BY <1>5 DEF Works
  <2>3. d.kind # "load" /\ p \in Touches(d)
    BY <1>1, <2>2 DEF Ran, Touches
  <2>4. OneWorks(calls', p, d)
    BY <1>1, <1>2, <2>1, <2>3, CallGoesOn
  <2>5. CASE p = c.row.name
    <3>1. Course(p, d)'
      BY <1>1, <2>1, <2>2, <2>5, RanOwn
    <3>2. QED BY <2>4, <3>1 DEF Followed
  <2>6. CASE p # c.row.name
    <3>1. Course(p, d)'
      BY <1>1, <1>2, <1>3, <2>1, <2>6, RanOther
    <3>2. QED BY <2>4, <3>1 DEF Followed
  <2>7. QED BY <2>5, <2>6
<1>6. QED BY <1>4, <1>5

LEMMA RunsInv == ASSUME ProvidersInv, NEW i \in DOMAIN calls, Runs(i) PROVE ProvidersInv'
<1> DEFINE c == calls[i]  w == Config(c.row)
<1>1. PICK d \in DialogCalls : Ran(c, d) /\ calls' = [calls EXCEPT ![i] = d]
  BY RanCall
<1>2. /\ Stores(c, store') /\ file' \in {file, store', << >>}
      /\ UNCHANGED <<rows, nextId, edited, doubtful>>
  BY RanStores
<1>3. /\ store' \in Seq(StoredProviders) /\ UniqueIn(store')
      /\ \A r \in ToSet(store') : r \in ToSet(store) \/ (c.kind # "load" /\ r = w)
  BY <1>2, StoreChanges
<1>0. << >> \in Seq(StoredProviders) /\ UniqueIn(<< >>) /\ ToSet(<< >>) = {}
  BY DEF UniqueIn, ToSet
<1>4. /\ ProviderTypes /\ CallShapes /\ Identified /\ Uniques
      /\ Loaded => \A p \in Presets \ doubtful : Followed(p)
  BY DEF ProvidersInv
<1>5. calls \in Seq(DialogCalls) /\ i \in 1..Len(calls)
  BY <1>4, CallTypes DEF ProviderTypes
<1>6. /\ calls' \in Seq(DialogCalls) /\ DOMAIN calls' = DOMAIN calls
      /\ \A j \in DOMAIN calls : calls'[j] = IF j = i THEN d ELSE calls[j]
  BY <1>1, <1>5, CallGoesOn
<1>7. ProviderTypes'
  BY <1>0, <1>2, <1>3, <1>4, <1>6 DEF ProviderTypes, Loaded
<1>8. CallShapes'
  <2>1. CallShape(c) => CallShape(d)
    BY <1>1 DEF CallShape, Ran
  <2>2. \A e : CallShape(e)' = CallShape(e)
    BY <1>2 DEF CallShape, Loaded
  <2>3. QED BY <1>4, <1>6, <2>1, <2>2 DEF CallShapes
<1>9. Uniques'
  <2>1. UniqueIn(d.got)
    BY <1>1, <1>4 DEF Uniques, Ran
  <2>2. QED BY <1>0, <1>2, <1>3, <1>4, <1>6, <2>1 DEF Uniques
<1>10. Identified'
  <2>1. \A r \in Records : Known(r, {})
    BY InRecords
  <2>2. c.kind # "load" => Known(w, {})
    <3>1. c.kind # "load" => c.row \in Records
      BY InRecords DEF RowsOfCall
    <3>2. QED BY <3>1 DEF Known, Alike, Config
  <2>3. \A r \in ToSet(store') \cup ToSet(file') : Known(r, {})
    BY <1>0, <1>2, <1>3, <2>1, <2>2, InRecords
  <2>4. \A r \in RowsOfCall(d) \cup ToSet(d.got) : Known(r, {})
    <3>1. RowsOfCall(d) = RowsOfCall(c)
      BY <1>1 DEF Ran, RowsOfCall
    <3>2. d.got = c.got \/ d.got = store
      BY <1>1 DEF Ran
    <3>3. QED BY <2>1, <3>1, <3>2, InRecords
  <2>5. \A j \in DOMAIN calls' : \A r \in RowsOfCall(calls'[j]) \cup ToSet(calls'[j].got) :
          Known(r, {})
    BY <1>6, <2>1, <2>4, InRecords
  <2>6. Loaded' => \A p \in Presets : Known(rows'[p], {})
    BY <1>2, <2>1, InRecords DEF Loaded
  <2>7. nextId' \in Nat /\ nextId <= nextId'
    BY <1>2, <1>4 DEF ProviderTypes
  <2>8. QED BY <1>4, <2>3, <2>5, <2>6, <2>7, StillIdentified
<1>11. Loaded' => \A p \in Presets \ doubtful' : Followed(p)'
  BY <1>2, <1>4, RunsFollowed DEF Loaded
<1>12. QED BY <1>7, <1>8, <1>9, <1>10, <1>11 DEF ProvidersInv

-----------------------------------------------------------------------------
(* The list, read.                                                          *)

\* A set of places has a largest one.
Less == {ss \in Nat \X Nat : ss[1] < ss[2]}
LEMMA LessIsWellFounded == IsWellFoundedOn(Less, Nat)
BY NatLessThanWellFounded DEF OpToRel, Less

LEMMA LargestPlace ==
  ASSUME NEW n \in Nat, NEW S, S \subseteq 1..n, S # {}
  PROVE  Max(S) \in S
<1> DEFINE T == {x \in Nat : \E k \in S : k + x = n}
<1>1. \A k \in S : k \in 1..n /\ k \in Nat /\ n - k \in Nat /\ k + (n - k) = n
  OBVIOUS
<1>2. T # {}
  <2>1. PICK k \in S : TRUE
    OBVIOUS
  <2>2. n - k \in T
    BY <1>1
  <2>3. QED BY <2>2
<1>3. \A x, y \in Nat : x < y => <<x, y>> \in Less
  BY DEF Less
<1>4. PICK x \in T : \A y \in T : ~ (<<y, x>> \in Less)
  <2> HIDE DEF T
  <2>1. T \subseteq Nat
    BY DEF T
  <2>2. QED BY <1>2, <2>1, LessIsWellFounded, WFMin
<1>5. PICK k \in S : k + x = n
  BY <1>4
<1>6. ASSUME NEW j \in S PROVE k >= j
  <2>1. n - j \in T
    BY <1>1
  <2>2. ~(n - j < x)
    BY <1>1, <1>3, <1>4, <2>1
  <2>3. x \in Nat /\ k \in Nat /\ j \in Nat
    BY <1>1, <1>4, <1>5
  <2>4. QED BY <1>5, <2>2, <2>3
<1>7. QED BY <1>5, <1>6 DEF Max

\* The row of a preset that is not stored, and of one that is.
FreshRow(p) == [NoRow EXCEPT !.id = nextId + PlaceOf(p), !.name = p]
OldRow(r, p) == [id |-> r.id, name |-> p, key |-> r.key, configured |-> TRUE]
NamedIn(list, p) == {k \in DOMAIN list : list[k].name = p}

LEMMA RowRead ==
  ASSUME NEW list \in Seq(StoredProviders), NEW p \in Presets
  PROVE  \/ NamedIn(list, p) = {} /\ RowsOf(list)[p] = FreshRow(p)
         \/ \E k \in NamedIn(list, p) :
              k = Max(NamedIn(list, p)) /\ RowsOf(list)[p] = OldRow(list[k], p)
<1> DEFINE same == NamedIn(list, p)
<1>1. Len(list) \in Nat /\ DOMAIN list = 1..Len(list)
  BY LenProperties
<1>2. RowsOf(list)[p] = IF same = {} THEN FreshRow(p) ELSE OldRow(list[Max(same)], p)
  BY DEF RowsOf, FreshRow, OldRow, NamedIn
<1>3. same \subseteq 1..Len(list)
  BY <1>1 DEF NamedIn
<1> HIDE DEF same
<1>4. same # {} => Max(same) \in same
  BY <1>1, <1>3, LargestPlace
<1>5. QED BY <1>2, <1>4 DEF same

LEMMA FreshRows ==
  ASSUME ProviderTypes, NEW p \in Presets
  PROVE  /\ FreshRow(p) \in DialogRows /\ FreshRow(p).name = p /\ ~FreshRow(p).configured
         /\ nextId <= FreshRow(p).id /\ FreshRow(p).id < nextId + Len(Order)
         /\ \A q \in Presets : FreshRow(p).id = FreshRow(q).id => p = q
<1>1. nextId \in Nat /\ Len(Order) \in Nat /\ 0 \in Keys
  BY Places, ProviderConstants DEF ProviderTypes, ProviderConstants
<1>2. \A q \in Presets : PlaceOf(q) \in 0..(Len(Order) - 1) /\ Order[PlaceOf(q) + 1] = q
  BY Places
<1>3. NoRow \in DialogRows /\ ~NoRow.configured
  BY <1>1 DEF NoRow, DialogRows, Names
<1>4. \A q \in Presets : PlaceOf(q) \in Nat /\ PlaceOf(q) < Len(Order)
  BY <1>1, <1>2
<1>5. ASSUME NEW q \in Presets
      PROVE  /\ FreshRow(q) \in DialogRows /\ FreshRow(q).name = q /\ ~FreshRow(q).configured
             /\ FreshRow(q).id = nextId + PlaceOf(q)
  <2>1. nextId + PlaceOf(q) \in Nat
    BY <1>1, <1>4
  <2>2. QED BY <1>3, <2>1 DEF FreshRow, DialogRows, Names
<1>6. ASSUME NEW q \in Presets, FreshRow(p).id = FreshRow(q).id PROVE p = q
  <2>1. PlaceOf(p) = PlaceOf(q)
    BY <1>1, <1>4, <1>5, <1>6
  <2>2. QED BY <1>2, <2>1
<1>7. QED BY <1>1, <1>4, <1>5, <1>6

LEMMA OldRows ==
  ASSUME NEW r \in StoredProviders, NEW p \in Presets, r.name = p
  PROVE  OldRow(r, p) \in DialogRows /\ Alike(OldRow(r, p), r) /\ OldRow(r, p).name = p
BY DEF OldRow, DialogRows, StoredProviders, Names, Alike

\* One provider of a name, and the row made of it.
LEMMA OneStored ==
  ASSUME ProviderTypes, NEW p \in Presets, Cardinality(StoredAs(p)) <= 1
  PROVE  LET row == RowsOf(store)[p]
         IN  \/ Kept(store, p) = {} /\ ~row.configured
             \/ \E r \in Kept(store, p) : /\ Kept(store, p) = {r} /\ row.configured
                                          /\ row.id = r.id /\ row.key = r.key
<1>1. store \in Seq(StoredProviders) /\ Len(store) \in Nat /\ DOMAIN store = 1..Len(store)
  BY LenProperties DEF ProviderTypes
<1>2. StoredAs(p) = NamedIn(store, p)
  BY DEF StoredAs, NamedIn
<1>3. IsFiniteSet(StoredAs(p))
  <2>1. IsFiniteSet(1..Len(store))
    BY <1>1, FS_Interval
  <2>2. QED BY <1>1, <2>1, FS_Subset DEF StoredAs
<1>4. CASE StoredAs(p) = {}
  <2>1. Kept(store, p) = {}
    BY <1>4 DEF Kept, ToSet, StoredAs
  <2>2. RowsOf(store)[p] = FreshRow(p)
    BY <1>1, <1>2, <1>4, RowRead
  <2>3. QED BY <2>1, <2>2, FreshRows
<1>5. CASE StoredAs(p) # {}
  <2>1. Cardinality(StoredAs(p)) = 1
    <3>1. Cardinality(StoredAs(p)) \in Nat /\ Cardinality(StoredAs(p)) # 0
      BY <1>3, <1>5, FS_CardinalityType, FS_EmptySet
    <3>2. QED BY <3>1
  <2>2. PICK k : StoredAs(p) = {k}
    BY <1>3, <2>1, FS_Singleton
  <2>3. k \in DOMAIN store /\ store[k].name = p
    BY <2>2 DEF StoredAs
  <2>4. Kept(store, p) = {store[k]}
    <3>1. \A j \in DOMAIN store : store[j].name = p => j = k
      BY <2>2 DEF StoredAs
    <3>2. QED BY <2>3, <3>1 DEF Kept, ToSet
  <2>5. RowsOf(store)[p] = OldRow(store[k], p)
    <3>1. NamedIn(store, p) = {k}
      BY <1>2, <2>2
    <3>2. NamedIn(store, p) # {} /\ \A j \in NamedIn(store, p) : j = k
      BY <3>1
    <3>3. QED BY <1>1, <3>2, RowRead
  <2>6. QED BY <2>4, <2>5 DEF OldRow
<1>6. QED BY <1>4, <1>5

-----------------------------------------------------------------------------
(* The answers.                                                             *)

\* The calls that are left when one ends, and when one makes place for another.
LEMMA CallsLeft ==
  ASSUME ProvidersInv, NEW i \in DOMAIN calls, calls' = RemoveAt(calls, i),
         \A p \in Presets : Loaded => Loaded'
  PROVE  /\ calls' \in Seq(DialogCalls) /\ CallShapes'
         /\ \A j \in DOMAIN calls' : UniqueIn(calls'[j].got)
         /\ \A fresh : \A j \in DOMAIN calls' :
              \A r \in RowsOfCall(calls'[j]) \cup ToSet(calls'[j].got) : Known(r, fresh)
<1>1. calls \in Seq(DialogCalls) /\ i \in 1..Len(calls) /\ CallShapes /\ Uniques
  BY CallTypes DEF ProvidersInv, ProviderTypes
<1>2. /\ calls' \in Seq(DialogCalls)
      /\ \A j \in DOMAIN calls' : \E k \in DOMAIN calls : calls'[j] = calls[k]
  BY <1>1, CallEnds
<1>3. \A c : CallShape(c) => CallShape(c)'
  BY DEF CallShape
<1>4. QED BY <1>1, <1>2, <1>3, InRecords DEF CallShapes, Uniques

LEMMA CallsOn ==
  ASSUME ProvidersInv, NEW i \in DOMAIN calls, NEW d \in DialogCalls, CallShape(d),
         calls' = [calls EXCEPT ![i] = d], Loaded => Loaded', d.got = << >>,
         RowsOfCall(d) \subseteq Records
  PROVE  /\ calls' \in Seq(DialogCalls) /\ CallShapes'
         /\ \A j \in DOMAIN calls' : UniqueIn(calls'[j].got)
         /\ \A fresh : \A j \in DOMAIN calls' :
              \A r \in RowsOfCall(calls'[j]) \cup ToSet(calls'[j].got) : Known(r, fresh)
<1>1. calls \in Seq(DialogCalls) /\ i \in 1..Len(calls) /\ CallShapes /\ Uniques
  BY CallTypes DEF ProvidersInv, ProviderTypes
<1>2. /\ calls' \in Seq(DialogCalls) /\ DOMAIN calls' = DOMAIN calls
      /\ \A j \in DOMAIN calls : calls'[j] = IF j = i THEN d ELSE calls[j]
  BY <1>1, CallGoesOn
<1>3. \A c : CallShape(c) => CallShape(c)'
  BY DEF CallShape
<1>4. UniqueIn(d.got) /\ ToSet(d.got) = {}
  <2>1. DOMAIN << >> = {}
    OBVIOUS
  <2>2. QED BY <2>1 DEF UniqueIn, ToSet
<1>5. \A fresh : \A r \in RowsOfCall(d) \cup ToSet(d.got) : Known(r, fresh)
  BY <1>4, InRecords
<1>6. CallShapes'
  BY <1>1, <1>2, <1>3 DEF CallShapes
<1>7. \A j \in DOMAIN calls' : UniqueIn(calls'[j].got)
  BY <1>1, <1>2, <1>4 DEF Uniques
<1>8. ASSUME NEW fresh, NEW j \in DOMAIN calls',
             NEW r \in RowsOfCall(calls'[j]) \cup ToSet(calls'[j].got)
      PROVE  Known(r, fresh)
  BY <1>2, <1>5, InRecords
<1>9. QED BY <1>2, <1>6, <1>7, <1>8

LEMMA LoadAnsweredInv ==
  ASSUME ProvidersInv, NEW i \in DOMAIN calls, LoadAnswered(i) PROVE ProvidersInv'
<1> DEFINE got == calls[i].got
           fresh == {FreshRow(p) : p \in Presets}
<1>1. /\ calls[i].kind = "load" /\ rows' = RowsOf(got) /\ nextId' = nextId + Len(Order)
      /\ edited' = {} /\ calls' = RemoveAt(calls, i) /\ UNCHANGED <<store, file>>
  BY DEF LoadAnswered
<1>2. /\ ProviderTypes /\ Identified /\ Uniques /\ nextId \in Nat /\ Len(Order) \in Nat
      /\ got \in Seq(StoredProviders) /\ ToSet(got) \subseteq Records
      /\ \A k \in DOMAIN got : got[k] \in StoredProviders
  BY CallTypes, ElementOfSeq, Places, InRecords DEF ProvidersInv, ProviderTypes
<1> HIDE DEF got
<1>3. ASSUME NEW p \in Presets
      PROVE  rows'[p] \in DialogRows /\ rows'[p].name = p /\ Known(rows'[p], fresh)
  <2>1. CASE RowsOf(got)[p] = FreshRow(p)
    BY <1>1, <1>2, <2>1, FreshRows DEF Known, Alike
  <2>2. CASE \E k \in NamedIn(got, p) : RowsOf(got)[p] = OldRow(got[k], p)
    <3>1. PICK k \in DOMAIN got : got[k].name = p /\ RowsOf(got)[p] = OldRow(got[k], p)
      BY <2>2 DEF NamedIn
    <3>2. got[k] \in Records
      BY <1>2 DEF ToSet
    <3>3. QED BY <1>1, <1>2, <3>1, <3>2, OldRows DEF Known
  <2>3. QED BY <1>2, <2>1, <2>2, RowRead
<1>4. rows' \in [Presets -> DialogRows]
  <2>1. rows' = [p \in Presets |-> rows'[p]]
    BY <1>1 DEF RowsOf
  <2>2. QED BY <1>3, <2>1
<1>5. \A p \in Presets : Loaded'
  <2>1. DOMAIN << >> = {} /\ DOMAIN rows' = Presets
    BY <1>4
  <2>2. QED BY <2>1 DEF Loaded
<1>6. /\ calls' \in Seq(DialogCalls) /\ CallShapes'
      /\ \A j \in DOMAIN calls' : UniqueIn(calls'[j].got)
      /\ \A f : \A j \in DOMAIN calls' :
           \A r \in RowsOfCall(calls'[j]) \cup ToSet(calls'[j].got) : Known(r, f)
  BY <1>1, <1>5, CallsLeft
<1>7. ProviderTypes'
  <2>1. store' \in Seq(StoredProviders) /\ file' \in Seq(StoredProviders)
    BY <1>1, <1>2 DEF ProviderTypes
  <2>2. nextId' \in Nat
    BY <1>1, <1>2
  <2>3. \A p \in Presets : rows'[p].name = p
    BY <1>3
  <2>4. QED BY <1>4, <1>6, <2>1, <2>2, <2>3 DEF ProviderTypes
<1>8. Uniques'
  BY <1>1, <1>2, <1>6 DEF Uniques
<1>9. Identified'
  <2>1. \A r \in fresh : r.id \in Nat /\ nextId <= r.id /\ r.id < nextId'
    BY <1>1, <1>2, FreshRows DEF DialogRows
  <2>2. \A r, s \in fresh : r.id = s.id => r.name = s.name
    BY <1>2, FreshRows
  <2> HIDE DEF fresh
  <2>3. \A r \in ToSet(store') \cup ToSet(file') : Known(r, fresh)
    BY <1>1, InRecords
  <2>4. nextId' \in Nat /\ nextId <= nextId'
    BY <1>1, <1>2
  <2>5. QED BY <1>2, <1>3, <1>6, <2>1, <2>2, <2>3, <2>4, StillIdentified
<1>10. ASSUME NEW p \in Presets \ doubtful' PROVE Followed(p)'
  <2>1. /\ got = store /\ Cardinality(StoredAs(p)) <= 1
        /\ \A j \in DOMAIN calls \ {i} : p \notin Touches(calls[j])
    <3>1. /\ got = store /\ ~(Cardinality(StoredAs(p)) > 1)
          /\ \A j \in DOMAIN calls \ {i} : p \notin Touches(calls[j])
      BY DEF LoadAnswered, got
    <3>2. Cardinality(StoredAs(p)) \in Nat
      <4>1. DOMAIN store = 1..Len(store) /\ Len(store) \in Nat
        BY <1>2, LenProperties DEF ProviderTypes
      <4>2. IsFiniteSet(1..Len(store))
        BY <4>1, FS_Interval
      <4>3. IsFiniteSet(StoredAs(p))
        BY <4>1, <4>2, FS_Subset DEF StoredAs
      <4>4. QED BY <4>3, FS_CardinalityType
    <3>3. QED BY <3>1, <3>2
  <2>2. Works(calls, p) \subseteq {i}
    BY <1>1, <2>1 DEF Works
  <2>3. Works(calls', p) = {}
    BY <1>1, <1>2, <2>2, CallTypes, CallEnds DEF ProviderTypes
  <2>4. \/ Kept(store, p) = {} /\ ~rows'[p].configured
        \/ \E r \in Kept(store, p) : /\ Kept(store, p) = {r} /\ rows'[p].configured
                                     /\ rows'[p].id = r.id /\ rows'[p].key = r.key
    BY <1>1, <1>2, <2>1, OneStored
  <2>5. Matches(p)'
    BY <1>1, <2>4 DEF Matches
  <2>6. Agrees(p)'
    BY <1>1, <2>4, <2>5 DEF Agrees
  <2>7. QED BY <2>3, <2>6 DEF Followed
<1>11. QED BY <1>6, <1>7, <1>8, <1>9, <1>10 DEF ProvidersInv

-----------------------------------------------------------------------------
(* The row of a call that is answered.                                      *)

LEMMA RowSet ==
  ASSUME ProvidersInv, NEW i \in DOMAIN calls, calls[i].kind \notin {"load", "custom"},
         NEW row, row.configured \in BOOLEAN, SetRow(calls[i].row.id, row)
  PROVE  /\ Loaded /\ calls[i].row.name \in Presets
         /\ rows' \in [Presets -> DialogRows] /\ Loaded'
         /\ \A p \in Presets : /\ rows'[p].name = p /\ rows'[p].id = rows[p].id
                              /\ (p # calls[i].row.name => rows'[p] = rows[p])
                              /\ (rows[p].id = calls[i].row.id =>
                                   /\ rows'[p].configured = row.configured
                                   /\ row.configured => rows'[p].key = rows[p].key)
<1> DEFINE c == calls[i]
<1>1. /\ ProviderTypes /\ Identified /\ Loaded /\ c.row.name \in Presets /\ 0 \in Keys
      /\ rows \in [Presets -> DialogRows] /\ \A p \in Presets : rows[p].name = p
  BY ProviderConstants
  DEF ProvidersInv, CallShapes, CallShape, ProviderTypes, ProviderConstants, Loaded
<1>2. c.row \in Records /\ \A p \in Presets : rows[p] \in Records
  BY <1>1, InRecords DEF RowsOfCall
<1>3. \A p \in Presets : rows[p].id = c.row.id => p = c.row.name
  BY <1>1, <1>2 DEF Identified
<1>4. ASSUME NEW p \in Presets, rows[p].id # c.row.id PROVE rows'[p] = rows[p]
  BY <1>4 DEF SetRow
<1>5. ASSUME NEW p \in Presets, rows[p].id = c.row.id
      PROVE  /\ rows'[p] \in DialogRows /\ rows'[p].name = p /\ rows'[p].id = rows[p].id
             /\ rows'[p].configured = row.configured
             /\ row.configured => rows'[p].key = rows[p].key
  <2>1. rows'[p] = [rows[p] EXCEPT !.configured = row.configured,
                                   !.key = IF row.configured THEN @ ELSE 0]
    BY <1>5 DEF SetRow
  <2>2. rows[p] \in DialogRows /\ rows[p].name = p
    BY <1>1
  <2>3. QED BY <1>1, <2>1, <2>2 DEF DialogRows
<1>6. rows' \in [Presets -> DialogRows]
  <2>1. rows' = [p \in Presets |-> rows'[p]]
    BY DEF SetRow
  <2>2. \A p \in Presets : rows'[p] \in DialogRows
    BY <1>1, <1>4, <1>5
  <2>3. QED BY <2>1, <2>2
<1>7. Loaded'
  <2>1. DOMAIN << >> = {} /\ DOMAIN rows' = Presets
    BY <1>6
  <2>2. QED BY <1>1, <2>1 DEF Loaded
<1>8. QED BY <1>1, <1>3, <1>4, <1>5, <1>6, <1>7

\* A step that sets the row of a call, or none, and leaves the store alone.
LEMMA RowsStay ==
  ASSUME ProvidersInv, UNCHANGED <<store, file, nextId>>,
         Loaded => Loaded' /\ rows' \in [Presets -> DialogRows],
         ~Loaded => rows' = rows,
         \A p \in Presets : Loaded => rows'[p].name = p /\ rows'[p].id = rows[p].id,
         calls' \in Seq(DialogCalls), CallShapes',
         \A j \in DOMAIN calls' : UniqueIn(calls'[j].got),
         \A fresh : \A j \in DOMAIN calls' :
           \A r \in RowsOfCall(calls'[j]) \cup ToSet(calls'[j].got) : Known(r, fresh),
         \A p \in Presets \ doubtful' : Loaded => Followed(p)'
  PROVE  ProvidersInv'
<1>1. ProviderTypes /\ Identified /\ Uniques
  BY DEF ProvidersInv
<1>2. ProviderTypes'
  BY <1>1 DEF ProviderTypes, Loaded
<1>3. Uniques'
  BY <1>1 DEF Uniques
<1>4. Loaded' <=> Loaded
  BY DEF Loaded
<1>5. Identified'
  <2> DEFINE none == {}
  <2>1. /\ \A r \in none : r.id \in Nat /\ nextId <= r.id /\ r.id < nextId'
        /\ \A r, s \in none : r.id = s.id => r.name = s.name
    OBVIOUS
  <2> HIDE DEF none
  <2>2. \A r \in ToSet(store') \cup ToSet(file') : Known(r, none)
    BY InRecords
  <2>3. ASSUME Loaded', NEW p \in Presets PROVE Known(rows'[p], none)
    <3>1. Loaded
      BY <1>4, <2>3
    <3>2. rows[p].name = p /\ rows'[p].name = p /\ rows'[p].id = rows[p].id
      BY <1>1, <3>1 DEF ProviderTypes
    <3>3. rows[p] \in Records
      BY <3>1, InRecords
    <3>4. Alike(rows'[p], rows[p])
      BY <3>2 DEF Alike
    <3>5. QED BY <3>3, <3>4 DEF Known
  <2>4. nextId' \in Nat /\ nextId <= nextId'
    BY <1>1 DEF ProviderTypes
  <2>5. \A j \in DOMAIN calls' : \A r \in RowsOfCall(calls'[j]) \cup ToSet(calls'[j].got) :
          Known(r, none)
    OBVIOUS
  <2>6. QED BY <1>1, <2>1, <2>2, <2>3, <2>4, <2>5, StillIdentified
<1>6. QED BY <1>2, <1>3, <1>4, <1>5 DEF ProvidersInv

\* The row that an answered call marks, or leaves.
LEMMA RowsAnswered ==
  ASSUME ProvidersInv, NEW i \in DOMAIN calls, calls[i].kind \notin {"load", "custom"},
         NEW row, row.configured \in BOOLEAN,
         SetRow(calls[i].row.id, row) \/ rows' = rows
  PROVE  /\ Loaded /\ calls[i].row.name \in Presets
         /\ rows' \in [Presets -> DialogRows] /\ Loaded'
         /\ \A p \in Presets : /\ rows'[p].name = p /\ rows'[p].id = rows[p].id
                               /\ (p # calls[i].row.name => rows'[p] = rows[p])
<1>1. CASE SetRow(calls[i].row.id, row)
  BY <1>1, RowSet
<1>2. CASE rows' = rows
  <2>1. Loaded /\ calls[i].row.name \in Presets
    BY DEF ProvidersInv, CallShapes, CallShape
  <2>2. rows \in [Presets -> DialogRows] /\ \A p \in Presets : rows[p].name = p
    BY <2>1 DEF ProvidersInv, ProviderTypes, Loaded
  <2>3. QED BY <1>2, <2>1, <2>2 DEF Loaded
<1>3. QED BY <1>1, <1>2

\* The next row of Save All, after the one that was saved.
GoesOn(i) ==
  \E r \in calls[i].rest : calls' = [calls EXCEPT ![i] = Call("saveAll", r, calls[i].rest \ {r})]

LEMMA NextRow ==
  ASSUME ProvidersInv, NEW i \in DOMAIN calls, calls[i].kind \in {"save", "saveAll"}, GoesOn(i)
  PROVE  \E d \in DialogCalls :
           /\ calls' = [calls EXCEPT ![i] = d] /\ CallShape(d) /\ d.got = << >>
           /\ d.at = "asked" /\ d.kind = "saveAll"
           /\ d.row \in calls[i].rest /\ d.rest \subseteq calls[i].rest
           /\ RowsOfCall(d) \subseteq Records
           /\ Touches(calls[i]) = Touches(d) \cup {calls[i].row.name}
           /\ calls[i].row.name \notin Touches(d)
<1> DEFINE c == calls[i]
<1>1. c \in DialogCalls /\ c.rest \in SUBSET DialogRows /\ CallShape(c)
  BY CallTypes DEF ProvidersInv, CallShapes
<1>2. PICK r \in c.rest : calls' = [calls EXCEPT ![i] = Call("saveAll", r, c.rest \ {r})]
  BY DEF GoesOn
<1> DEFINE e == Call("saveAll", r, c.rest \ {r})
<1>3. /\ e.got = << >> /\ e.at = "asked" /\ e.kind = "saveAll" /\ e.row = r
      /\ e.rest = c.rest \ {r}
  BY DEF Call
<1>4. e \in DialogCalls
  <2>1. << >> \in Seq(StoredProviders) /\ r \in DialogRows /\ c.rest \ {r} \in SUBSET DialogRows
    BY <1>1
  <2>2. QED BY <2>1 DEF Call, DialogCalls
<1>5. PICK d \in DialogCalls :
        /\ calls' = [calls EXCEPT ![i] = d] /\ d.got = << >> /\ d.at = "asked"
        /\ d.kind = "saveAll" /\ d.row = r /\ d.rest = c.rest \ {r}
  BY <1>2, <1>3, <1>4
<1> HIDE DEF e
<1>6. CallShape(d)
  BY <1>1, <1>5 DEF CallShape
<1>7. RowsOfCall(d) \subseteq Records
  <2>1. RowsOfCall(d) \subseteq RowsOfCall(c)
    BY <1>5 DEF RowsOfCall
  <2>2. QED BY <2>1, InRecords
<1>8. /\ Touches(c) = {c.row.name} \cup {s.name : s \in c.rest}
      /\ Touches(d) = {r.name} \cup {s.name : s \in c.rest \ {r}}
  BY <1>5 DEF Touches
<1>9. c.row.name \notin Touches(d) /\ Touches(c) = Touches(d) \cup {c.row.name}
  BY <1>1, <1>8 DEF CallShape
<1>10. QED BY <1>5, <1>6, <1>7, <1>9

LEMMA SaveFollowed ==
  ASSUME ProvidersInv, NEW i \in DOMAIN calls, SaveAnswered(i),
         NEW p \in Presets \ doubtful', Loaded, Followed(p),
         \A q \in Presets : q # calls[i].row.name => rows'[q] = rows[q]
  PROVE  Followed(p)'
<1> DEFINE c == calls[i]
<1>1. /\ c.kind \in {"save", "saveAll"} /\ UNCHANGED <<store, edited>> /\ CallShape(c)
      /\ calls \in Seq(DialogCalls) /\ i \in 1..Len(calls) /\ c \in DialogCalls
      /\ c.rest \in SUBSET DialogRows
  BY CallTypes DEF ProvidersInv, ProviderTypes, CallShapes, SaveAnswered
<1>2. p = c.row.name => c.at = "done"
  BY DEF SaveAnswered
<1>3. CASE c.rest = {} /\ calls' = RemoveAt(calls, i) /\ p # c.row.name
  <2>1. i \notin Works(calls, p)
    BY <1>3 DEF Works, Touches
  <2>2. /\ Works(calls, p) = {} => Works(calls', p) = {}
        /\ \A e : OneWorks(calls, p, e) => OneWorks(calls', p, e)
    BY <1>1, <1>3, <2>1, CallEnds
  <2>3. QED BY <1>1, <1>3, <2>2, FollowsOn DEF Kept
<1>4. CASE GoesOn(i) /\ p # c.row.name
  <2>1. PICK d \in DialogCalls :
          /\ calls' = [calls EXCEPT ![i] = d] /\ d.at = "asked" /\ d.kind = "saveAll"
          /\ d.row \in c.rest /\ d.rest \subseteq c.rest
          /\ Touches(c) = Touches(d) \cup {c.row.name}
    BY <1>1, <1>4, NextRow
  <2>2. CASE p \notin Touches(c)
    <3>1. i \notin Works(calls, p)
      BY <2>2 DEF Works
    <3>2. /\ Works(calls, p) = {} => Works(calls', p) = {}
          /\ \A e : OneWorks(calls, p, e) => OneWorks(calls', p, e)
      BY <1>1, <2>1, <2>2, <3>1, CallGoesOn
    <3>3. QED BY <1>1, <1>4, <3>2, FollowsOn DEF Kept
  <2>3. CASE p \in Touches(c)
    <3>1. i \in Works(calls, p)
      BY <1>1, <2>3 DEF Works
    <3>2. Works(calls, p) = {i} /\ Course(p, c)
      BY <3>1, OneCall
    <3>3. OneWorks(calls', p, d)
      BY <1>1, <1>4, <2>1, <2>3, <3>2, CallGoesOn
    <3>4. \A s \in c.rest : s.name = p => ToSave(p, s)'
      BY <1>1, <1>4, <3>2 DEF Course, ToSave, Matches, Kept
    <3>5. Course(p, d)'
      BY <2>1, <3>4 DEF Course
    <3>6. QED BY <2>1, <3>3, <3>5 DEF Followed
  <2>4. QED BY <2>2, <2>3
<1>5. CASE p = c.row.name
  <2>1. i \in Works(calls, p)
    BY <1>1, <1>5 DEF Works, Touches
  <2>2. Works(calls, p) = {i} /\ Saved(p, c.row)
    BY <1>1, <1>2, <1>5, <2>1, OneCall DEF Course
  <2>3. Works(calls', p) = {}
    <3>1. CASE calls' = RemoveAt(calls, i)
      BY <1>1, <2>2, <3>1, CallEnds
    <3>2. CASE GoesOn(i)
      <4>1. PICK d \in DialogCalls : p \notin Touches(d) /\ calls' = [calls EXCEPT ![i] = d]
        BY <1>1, <1>5, <3>2, NextRow
      <4>2. QED BY <1>1, <2>2, <4>1, CallGoesOn
    <3>3. QED BY <3>1, <3>2 DEF SaveAnswered, GoesOn
  <2>4. /\ rows'[p].configured /\ rows'[p].key = rows[p].key /\ rows'[p].id = rows[p].id
    <3>1. PICK row \in DialogRows : row.configured = TRUE /\ SetRow(c.row.id, row)
      <4>1. c.row \in DialogRows
        BY <1>1 DEF DialogCalls
      <4>2. /\ [c.row EXCEPT !.configured = TRUE] \in DialogRows
            /\ [c.row EXCEPT !.configured = TRUE].configured = TRUE
        BY <4>1 DEF DialogRows
      <4>3. QED BY <1>2, <1>5, <4>2 DEF SaveAnswered
    <3>2. row.configured \in BOOLEAN /\ c.kind \notin {"load", "custom"}
      BY <1>1, <3>1
    <3>3. rows[p].id = c.row.id
      BY <2>2 DEF Saved
    <3>4. QED BY <1>1, <3>1, <3>2, <3>3, RowSet
  <2>5. Agrees(p)'
    BY <1>1, <2>2, <2>4 DEF Agrees, Matches, Saved, Kept
  <2>6. QED BY <2>3, <2>5 DEF Followed
<1>6. QED BY <1>3, <1>4, <1>5 DEF SaveAnswered, GoesOn

LEMMA SaveAnsweredInv ==
  ASSUME ProvidersInv, NEW i \in DOMAIN calls, SaveAnswered(i) PROVE ProvidersInv'
<1> DEFINE c == calls[i]
<1>1. /\ c.kind \in {"save", "saveAll"} /\ UNCHANGED <<store, file, nextId>>
      /\ c \in DialogCalls /\ c.row \in DialogRows /\ doubtful \subseteq doubtful'
  BY CallTypes DEF ProvidersInv, SaveAnswered
<1>2. PICK row \in DialogRows :
        /\ row.configured \in BOOLEAN /\ c.kind \notin {"load", "custom"}
        /\ SetRow(c.row.id, row) \/ rows' = rows
  <2>1. [c.row EXCEPT !.configured = TRUE] \in DialogRows
    BY <1>1 DEF DialogRows
  <2>2. \A row \in DialogRows : row.configured \in BOOLEAN
    BY DEF DialogRows
  <2>3. QED BY <1>1, <2>1, <2>2 DEF SaveAnswered
<1>3. /\ Loaded /\ c.row.name \in Presets /\ rows' \in [Presets -> DialogRows] /\ Loaded'
      /\ \A p \in Presets : /\ rows'[p].name = p /\ rows'[p].id = rows[p].id
                            /\ (p # c.row.name => rows'[p] = rows[p])
  BY <1>1, <1>2, RowsAnswered
<1>4. /\ calls' \in Seq(DialogCalls) /\ CallShapes'
      /\ \A j \in DOMAIN calls' : UniqueIn(calls'[j].got)
      /\ \A fresh : \A j \in DOMAIN calls' :
           \A r \in RowsOfCall(calls'[j]) \cup ToSet(calls'[j].got) : Known(r, fresh)
  <2>1. CASE calls' = RemoveAt(calls, i)
    BY <1>3, <2>1, CallsLeft
  <2>2. CASE GoesOn(i)
    <3>1. PICK d \in DialogCalls :
            /\ CallShape(d) /\ d.got = << >> /\ RowsOfCall(d) \subseteq Records
            /\ calls' = [calls EXCEPT ![i] = d]
      BY <1>1, <2>2, NextRow
    <3>2. QED BY <1>3, <3>1, CallsOn
  <2>3. QED BY <2>1, <2>2 DEF SaveAnswered, GoesOn
<1>5. \A p \in Presets \ doubtful' : Followed(p)'
  BY <1>1, <1>3, SaveFollowed DEF ProvidersInv
<1>6. QED BY <1>1, <1>3, <1>4, <1>5, RowsStay

LEMMA RemoveFollowed ==
  ASSUME ProvidersInv, NEW i \in DOMAIN calls, RemoveAnswered(i),
         NEW p \in Presets \ doubtful', Loaded, Followed(p),
         \A q \in Presets : q # calls[i].row.name => rows'[q] = rows[q]
  PROVE  Followed(p)'
<1> DEFINE c == calls[i]
<1>1. /\ c.kind = "remove" /\ UNCHANGED <<store, edited>> /\ CallShape(c)
      /\ calls \in Seq(DialogCalls) /\ i \in 1..Len(calls) /\ c.row \in DialogRows
      /\ c.rest = {} /\ calls' = RemoveAt(calls, i)
  BY CallTypes DEF ProvidersInv, ProviderTypes, CallShapes, CallShape, RemoveAnswered
<1>2. p = c.row.name => c.at = "done"
  BY DEF RemoveAnswered
<1>3. CASE p # c.row.name
  <2>1. i \notin Works(calls, p)
    BY <1>1, <1>3 DEF Works, Touches
  <2>2. /\ Works(calls, p) = {} => Works(calls', p) = {}
        /\ \A e : OneWorks(calls, p, e) => OneWorks(calls', p, e)
    BY <1>1, <2>1, CallEnds
  <2>3. QED BY <1>1, <1>3, <2>2, FollowsOn DEF Kept
<1>4. CASE p = c.row.name
  <2>1. i \in Works(calls, p)
    BY <1>1, <1>4 DEF Works, Touches
  <2>2. Works(calls, p) = {i} /\ Kept(store, p) = {} /\ c.row.id = rows[p].id
    BY <1>1, <1>2, <1>4, <2>1, OneCall DEF Course
  <2>3. Works(calls', p) = {}
    BY <1>1, <2>2, CallEnds
  <2>4. ~rows'[p].configured
    <3>1. PICK row \in DialogRows : row.configured = FALSE /\ SetRow(c.row.id, row)
      <4>1. /\ [c.row EXCEPT !.configured = FALSE] \in DialogRows
            /\ [c.row EXCEPT !.configured = FALSE].configured = FALSE
        BY <1>1 DEF DialogRows
      <4>2. QED BY <1>2, <1>4, <4>1 DEF RemoveAnswered
    <3>2. row.configured \in BOOLEAN /\ c.kind \notin {"load", "custom"}
      BY <1>1, <3>1
    <3>3. QED BY <2>2, <3>1, <3>2, RowSet
  <2>5. Agrees(p)'
    BY <1>1, <2>2, <2>4 DEF Agrees, Matches, Kept
  <2>6. QED BY <2>3, <2>5 DEF Followed
<1>5. QED BY <1>3, <1>4

LEMMA RemoveAnsweredInv ==
  ASSUME ProvidersInv, NEW i \in DOMAIN calls, RemoveAnswered(i) PROVE ProvidersInv'
<1> DEFINE c == calls[i]
<1>1. /\ c.kind = "remove" /\ UNCHANGED <<store, file, nextId>> /\ calls' = RemoveAt(calls, i)
      /\ c.row \in DialogRows /\ doubtful \subseteq doubtful'
  BY CallTypes DEF ProvidersInv, RemoveAnswered
<1>2. PICK row \in DialogRows :
        /\ row.configured \in BOOLEAN /\ c.kind \notin {"load", "custom"}
        /\ SetRow(c.row.id, row) \/ rows' = rows
  <2>1. [c.row EXCEPT !.configured = FALSE] \in DialogRows
    BY <1>1 DEF DialogRows
  <2>2. \A row \in DialogRows : row.configured \in BOOLEAN
    BY DEF DialogRows
  <2>3. QED BY <1>1, <2>1, <2>2 DEF RemoveAnswered
<1>3. /\ Loaded /\ c.row.name \in Presets /\ rows' \in [Presets -> DialogRows] /\ Loaded'
      /\ \A p \in Presets : /\ rows'[p].name = p /\ rows'[p].id = rows[p].id
                            /\ (p # c.row.name => rows'[p] = rows[p])
  BY <1>1, <1>2, RowsAnswered
<1>4. /\ calls' \in Seq(DialogCalls) /\ CallShapes'
      /\ \A j \in DOMAIN calls' : UniqueIn(calls'[j].got)
      /\ \A fresh : \A j \in DOMAIN calls' :
           \A r \in RowsOfCall(calls'[j]) \cup ToSet(calls'[j].got) : Known(r, fresh)
  BY <1>1, <1>3, CallsLeft
<1>5. \A p \in Presets \ doubtful' : Followed(p)'
  BY <1>1, <1>3, RemoveFollowed DEF ProvidersInv
<1>6. QED BY <1>1, <1>3, <1>4, <1>5, RowsStay

LEMMA LoadIsCall ==
  /\ LoadCall \in DialogCalls /\ LoadCall.kind = "load" /\ LoadCall.got = << >>
  /\ LoadCall.rest = {} /\ RowsOfCall(LoadCall) = {} /\ CallShape(LoadCall)
<1>1. NoRow \in DialogRows
  BY ProviderConstants DEF ProviderConstants, NoRow, DialogRows, Names
<1>2. << >> \in Seq(StoredProviders) /\ {} \in SUBSET DialogRows
  OBVIOUS
<1>3. LoadCall \in DialogCalls
  BY <1>1, <1>2 DEF LoadCall, Call, DialogCalls
<1>4. LoadCall.kind = "load" /\ LoadCall.got = << >> /\ LoadCall.rest = {}
  BY DEF LoadCall, Call
<1>5. QED BY <1>3, <1>4 DEF RowsOfCall, CallShape

LEMMA CustomAnsweredInv ==
  ASSUME ProvidersInv, NEW i \in DOMAIN calls, CustomAnswered(i) PROVE ProvidersInv'
<1> DEFINE c == calls[i]
<1>1. /\ c.kind = "custom" /\ UNCHANGED <<store, file, rows, nextId, edited>>
      /\ calls' = [calls EXCEPT ![i] = LoadCall] \/ calls' = RemoveAt(calls, i)
      /\ doubtful \subseteq doubtful' /\ \A p \in Presets : p \notin doubtful' => p # c.row.name
  BY DEF CustomAnswered
<1>2. /\ ProviderTypes /\ calls \in Seq(DialogCalls) /\ i \in 1..Len(calls) /\ c.rest = {}
      /\ Loaded => rows \in [Presets -> DialogRows] /\ \A p \in Presets : rows[p].name = p
  BY <1>1, CallTypes DEF ProvidersInv, ProviderTypes, Loaded, CallShapes, CallShape
<1>3. Loaded => Loaded'
  BY <1>1 DEF Loaded
<1>4. /\ calls' \in Seq(DialogCalls) /\ CallShapes'
      /\ \A j \in DOMAIN calls' : UniqueIn(calls'[j].got)
      /\ \A fresh : \A j \in DOMAIN calls' :
           \A r \in RowsOfCall(calls'[j]) \cup ToSet(calls'[j].got) : Known(r, fresh)
  <2>1. CASE calls' = RemoveAt(calls, i)
    BY <1>3, <2>1, CallsLeft
  <2>2. CASE calls' = [calls EXCEPT ![i] = LoadCall]
    <3>1. RowsOfCall(LoadCall) \subseteq Records
      BY LoadIsCall
    <3>2. QED BY <1>3, <2>2, <3>1, LoadIsCall, CallsOn
  <2>3. QED BY <1>1, <2>1, <2>2
<1>5. ASSUME NEW p \in Presets \ doubtful', Loaded PROVE Followed(p)'
  <2>1. i \notin Works(calls, p) /\ Followed(p)
    BY <1>1, <1>2, <1>5 DEF Works, Touches, ProvidersInv
  <2>2. /\ Works(calls, p) = {} => Works(calls', p) = {}
        /\ \A e : OneWorks(calls, p, e) => OneWorks(calls', p, e)
    <3>1. CASE calls' = RemoveAt(calls, i)
      BY <1>2, <2>1, <3>1, CallEnds
    <3>2. CASE calls' = [calls EXCEPT ![i] = LoadCall]
      BY <1>2, <2>1, <3>2, LoadIsCall, CallGoesOn
    <3>3. QED BY <1>1, <3>1, <3>2
  <2>3. QED BY <1>1, <2>1, <2>2, FollowsOn DEF Kept
<1>6. QED BY <1>1, <1>2, <1>3, <1>4, <1>5, RowsStay

-----------------------------------------------------------------------------
(* The person in the dialog.                                                *)

\* A preset that no started call crosses has no other call to it.
LEMMA NotCrossed ==
  ASSUME ProvidersInv, NEW d, Start(d), NEW p \in Presets \ doubtful'
  PROVE  /\ p \in Presets \ doubtful
         /\ p \in Touches(d) => Works(calls, p) = {}
<1>1. doubtful' = doubtful \cup Crossed(Touches(d))
  BY DEF Start
<1>2. p \in Touches(d) => \A i \in DOMAIN calls : p \notin Touches(calls[i])
  BY <1>1 DEF Crossed
<1>3. QED BY <1>1, <1>2 DEF Works

LEMMA Begins ==
  ASSUME ProvidersInv, NEW d \in DialogCalls, Start(d), CallShape(d), d.got = << >>,
         UNCHANGED <<store, file, rows>>, nextId' \in Nat, nextId <= nextId',
         NEW fresh, RowsOfCall(d) \subseteq Records \cup fresh,
         \A r \in fresh : r.id \in Nat /\ nextId <= r.id /\ r.id < nextId',
         \A r, s \in fresh : r.id = s.id => r.name = s.name,
         \A p \in Presets :
           d.kind = "load" \/ p \notin Touches(d) => (p \in edited' <=> p \in edited),
         \A p \in Presets :
           Loaded /\ d.kind # "load" /\ p \in Touches(d) /\ Agrees(p) => Course(p, d)'
  PROVE  ProvidersInv'
<1>1. /\ ProviderTypes /\ CallShapes /\ Identified /\ Uniques /\ calls \in Seq(DialogCalls)
      /\ calls' = Append(calls, d)
  BY DEF ProvidersInv, ProviderTypes, Start
<1>2. /\ calls' \in Seq(DialogCalls)
      /\ \A j \in DOMAIN calls' : calls'[j] = d \/ \E k \in DOMAIN calls : calls'[j] = calls[k]
  BY <1>1, CallBegins
<1>3. Loaded' = Loaded
  BY DEF Loaded
<1>4. ProviderTypes'
  BY <1>1, <1>2, <1>3 DEF ProviderTypes
<1>5. CallShapes'
  <2>1. \A c : CallShape(c)' = CallShape(c)
    BY <1>3 DEF CallShape
  <2>2. QED BY <1>1, <1>2, <2>1 DEF CallShapes
<1>6. UniqueIn(d.got) /\ ToSet(d.got) = {}
  <2>1. DOMAIN << >> = {}
    OBVIOUS
  <2>2. QED BY <2>1 DEF UniqueIn, ToSet
<1>7. Uniques'
  BY <1>1, <1>2, <1>6 DEF Uniques
<1>8. Identified'
  <2>1. \A r \in Records \cup fresh : Known(r, fresh)
    BY DEF Known, Alike
  <2>2. \A r \in ToSet(store') \cup ToSet(file') : Known(r, fresh)
    BY <2>1, InRecords
  <2>3. Loaded' => \A p \in Presets : Known(rows'[p], fresh)
    BY <1>3, <2>1, InRecords
  <2>4. ASSUME NEW j \in DOMAIN calls'
        PROVE  \A r \in RowsOfCall(calls'[j]) \cup ToSet(calls'[j].got) : Known(r, fresh)
    <3>1. CASE calls'[j] = d
      BY <1>6, <2>1, <3>1
    <3>2. CASE \E k \in DOMAIN calls : calls'[j] = calls[k]
      BY <2>1, <3>2, InRecords
    <3>3. QED BY <1>2, <3>1, <3>2
  <2>5. QED BY <1>1, <2>2, <2>3, <2>4, StillIdentified
<1>9. ASSUME NEW p \in Presets \ doubtful', Loaded PROVE Followed(p)'
  <2>1. Followed(p) /\ (p \in Touches(d) => Works(calls, p) = {})
    BY <1>9, NotCrossed DEF ProvidersInv
  <2>2. CASE d.kind = "load" \/ p \notin Touches(d)
    <3>1. /\ Works(calls, p) = {} => Works(calls', p) = {}
          /\ \A e : OneWorks(calls, p, e) => OneWorks(calls', p, e)
      BY <1>1, <2>2, CallBegins
    <3>2. QED BY <2>1, <2>2, <3>1, FollowsOn DEF Kept
  <2>3. CASE d.kind # "load" /\ p \in Touches(d)
    <3>1. Works(calls, p) = {} /\ Agrees(p)
      BY <2>1, <2>3 DEF Followed, OneWorks
    <3>2. OneWorks(calls', p, d) /\ Course(p, d)'
      BY <1>1, <1>9, <2>3, <3>1, CallBegins
    <3>3. QED BY <3>2 DEF Followed
  <2>4. QED BY <2>2, <2>3
<1>10. QED BY <1>3, <1>4, <1>5, <1>7, <1>8, <1>9 DEF ProvidersInv

\* A call of a row of the dialog.
LEMMA CallTyped ==
  ASSUME ProviderTypes, Loaded, NEW kind \in {"save", "saveAll", "remove"}, NEW p \in Presets,
         NEW rest, rest \subseteq {rows[q] : q \in Presets} \ {rows[p]},
         kind # "saveAll" => rest = {}
  PROVE  LET d == Call(kind, rows[p], rest)
         IN  /\ d \in DialogCalls /\ CallShape(d) /\ d.got = << >> /\ d.at = "asked"
             /\ d.kind = kind /\ d.row = rows[p] /\ d.rest = rest
             /\ RowsOfCall(d) \subseteq Records
<1> DEFINE d == Call(kind, rows[p], rest)
<1>1. rows \in [Presets -> DialogRows] /\ \A q \in Presets : rows[q].name = q
  BY DEF ProviderTypes, Loaded
<1>2. /\ d.got = << >> /\ d.at = "asked" /\ d.kind = kind /\ d.row = rows[p] /\ d.rest = rest
  BY DEF Call
<1>3. d \in DialogCalls
  <2>1. << >> \in Seq(StoredProviders) /\ rows[p] \in DialogRows /\ rest \in SUBSET DialogRows
    BY <1>1
  <2>2. QED BY <2>1 DEF Call, DialogCalls
<1> HIDE DEF d
<1>4. CallShape(d)
  <2>1. rows[p].name = p
    BY <1>1
  <2>2. \A r \in rest : r.name \in Presets /\ r = rows[r.name] /\ r # rows[p]
    BY <1>1
  <2>3. QED BY <1>2, <2>1, <2>2 DEF CallShape
<1>5. RowsOfCall(d) \subseteq Records
  BY <1>2, InRecords DEF RowsOfCall
<1>6. QED BY <1>2, <1>3, <1>4, <1>5 DEF d

LEMMA SaveRowInv == ASSUME ProvidersInv, NEW p \in Presets, SaveRow(p) PROVE ProvidersInv'
<1>1. /\ ProviderTypes /\ Loaded /\ UNCHANGED <<store, file, rows, nextId>>
      /\ edited' = edited \ {p} /\ nextId \in Nat /\ rows[p].name = p
  BY DEF ProvidersInv, SaveRow, ProviderTypes
<1>2. PICK d \in DialogCalls :
        /\ Start(d) /\ CallShape(d) /\ d.got = << >> /\ d.at = "asked" /\ d.kind = "save"
        /\ d.row = rows[p] /\ d.rest = {} /\ RowsOfCall(d) \subseteq Records
  <2>1. {} \subseteq {rows[q] : q \in Presets} \ {rows[p]}
    OBVIOUS
  <2> DEFINE e == Call("save", rows[p], {})
  <2>2. /\ e \in DialogCalls /\ CallShape(e) /\ e.got = << >> /\ e.at = "asked"
        /\ e.kind = "save" /\ e.row = rows[p] /\ e.rest = {} /\ RowsOfCall(e) \subseteq Records
    BY <1>1, <2>1, CallTyped
  <2>3. PICK d : d = e
    OBVIOUS
  <2>4. Start(d)
    BY <2>3 DEF SaveRow, Start, Crossed
  <2>5. QED BY <2>2, <2>3, <2>4
<1>3. Touches(d) = {p}
  BY <1>1, <1>2 DEF Touches
<1>4. ASSUME NEW q \in Presets, q \in Touches(d), Agrees(q) PROVE Course(q, d)'
  BY <1>1, <1>2, <1>3, <1>4 DEF Course, Agrees, ToSave, Matches, Kept
<1> DEFINE fresh == {}
<1>5. \A r \in fresh : r.id \in Nat /\ nextId <= r.id /\ r.id < nextId'
  OBVIOUS
<1>6. /\ RowsOfCall(d) \subseteq Records \cup fresh
      /\ \A r, s \in fresh : r.id = s.id => r.name = s.name
  BY <1>2
<1> HIDE DEF fresh
<1>7. \A q \in Presets : d.kind = "load" \/ q \notin Touches(d) => (q \in edited' <=> q \in edited)
  BY <1>1, <1>2, <1>3
<1>8. nextId' \in Nat /\ nextId <= nextId'
  BY <1>1
<1>9. QED BY <1>1, <1>2, <1>4, <1>5, <1>6, <1>7, <1>8, Begins

LEMMA RemoveRowInv == ASSUME ProvidersInv, NEW p \in Presets, RemoveRow(p) PROVE ProvidersInv'
<1>1. /\ ProviderTypes /\ Loaded /\ UNCHANGED <<store, file, rows, nextId, edited>>
      /\ nextId \in Nat /\ rows[p].name = p /\ rows[p].configured
  BY DEF ProvidersInv, RemoveRow, ProviderTypes
<1>2. PICK d \in DialogCalls :
        /\ Start(d) /\ CallShape(d) /\ d.got = << >> /\ d.at = "asked" /\ d.kind = "remove"
        /\ d.row = rows[p] /\ d.rest = {} /\ RowsOfCall(d) \subseteq Records
  <2>1. {} \subseteq {rows[q] : q \in Presets} \ {rows[p]}
    OBVIOUS
  <2> DEFINE e == Call("remove", rows[p], {})
  <2>2. /\ e \in DialogCalls /\ CallShape(e) /\ e.got = << >> /\ e.at = "asked"
        /\ e.kind = "remove" /\ e.row = rows[p] /\ e.rest = {} /\ RowsOfCall(e) \subseteq Records
    BY <1>1, <2>1, CallTyped
  <2>3. PICK d : d = e
    OBVIOUS
  <2>4. Start(d)
    BY <2>3 DEF RemoveRow, Start, Crossed
  <2>5. QED BY <2>2, <2>3, <2>4
<1>3. Touches(d) = {p}
  BY <1>1, <1>2 DEF Touches
<1>4. ASSUME NEW q \in Presets, q \in Touches(d), Agrees(q) PROVE Course(q, d)'
  BY <1>1, <1>2, <1>3, <1>4 DEF Course, Agrees, Matches, Kept
<1> DEFINE fresh == {}
<1>5. \A r \in fresh : r.id \in Nat /\ nextId <= r.id /\ r.id < nextId'
  OBVIOUS
<1>6. /\ RowsOfCall(d) \subseteq Records \cup fresh
      /\ \A r, s \in fresh : r.id = s.id => r.name = s.name
  BY <1>2
<1> HIDE DEF fresh
<1>7. nextId' \in Nat /\ nextId <= nextId'
  BY <1>1
<1>8. QED BY <1>1, <1>2, <1>4, <1>5, <1>6, <1>7, Begins

LEMMA SaveAllInv == ASSUME ProvidersInv, SaveAll PROVE ProvidersInv'
<1> DEFINE todo == {r \in {rows[p] : p \in Presets} : r.key # 0 \/ r.configured}
<1>1. /\ ProviderTypes /\ Loaded /\ UNCHANGED <<store, file, rows, nextId>> /\ nextId \in Nat
      /\ \A p \in Presets : rows[p].name = p
  BY DEF ProvidersInv, SaveAll, ProviderTypes
<1>2. /\ \E r \in todo : Start(Call("saveAll", r, todo \ {r}))
      /\ edited' = edited \ {r.name : r \in todo}
  BY DEF SaveAll
<1>3. PICK all : all = todo
  OBVIOUS
<1>4. all \subseteq {rows[p] : p \in Presets}
  BY <1>3
<1>5. PICK p \in Presets : rows[p] \in all /\ Start(Call("saveAll", rows[p], todo \ {rows[p]}))
  BY <1>2, <1>3
<1> DEFINE e == Call("saveAll", rows[p], all \ {rows[p]})
<1>6. /\ e \in DialogCalls /\ CallShape(e) /\ e.got = << >> /\ e.at = "asked"
      /\ e.kind = "saveAll" /\ e.row = rows[p] /\ e.rest = all \ {rows[p]}
      /\ RowsOfCall(e) \subseteq Records
  BY <1>1, <1>4, CallTyped
<1>7. PICK d \in DialogCalls :
        /\ Start(d) /\ CallShape(d) /\ d.got = << >> /\ d.at = "asked" /\ d.kind = "saveAll"
        /\ d.row = rows[p] /\ d.rest = all \ {rows[p]} /\ RowsOfCall(d) \subseteq Records
  <2>1. PICK d : d = e
    OBVIOUS
  <2> HIDE DEF todo
  <2>2. Start(d)
    BY <1>3, <1>5, <2>1 DEF Start, Crossed
  <2>3. QED BY <1>6, <2>1, <2>2
<1> HIDE DEF e
<1>8. edited' = edited \ {r.name : r \in all}
  BY <1>2, <1>3
<1> HIDE DEF todo
<1>9. Touches(d) = {r.name : r \in all}
  BY <1>5, <1>7 DEF Touches
<1>10. ASSUME NEW q \in Presets, q \in Touches(d), Agrees(q) PROVE Course(q, d)'
  <2>1. \A r \in all : r.name = q => r = rows[q]
    BY <1>1, <1>4
  <2>2. Matches(q)' /\ rows'[q] = rows[q] /\ q \notin edited'
    BY <1>1, <1>8, <1>9, <1>10 DEF Agrees, Matches, Kept
  <2>3. ToSave(q, rows[q])'
    BY <1>1, <2>2 DEF ToSave
  <2>4. ASSUME NEW r \in all, r.name = q PROVE ToSave(q, r)'
    BY <1>1, <2>1, <2>2, <2>4 DEF ToSave
  <2>5. d.row \in all /\ d.rest \subseteq all
    BY <1>5, <1>7
  <2>6. QED BY <1>7, <2>4, <2>5 DEF Course
<1> DEFINE fresh == {}
<1>11. \A r \in fresh : r.id \in Nat /\ nextId <= r.id /\ r.id < nextId'
  OBVIOUS
<1>12. /\ RowsOfCall(d) \subseteq Records \cup fresh
       /\ \A r, s \in fresh : r.id = s.id => r.name = s.name
  BY <1>7
<1> HIDE DEF fresh
<1>13. \A q \in Presets : d.kind = "load" \/ q \notin Touches(d) => (q \in edited' <=> q \in edited)
  BY <1>7, <1>8, <1>9
<1>14. nextId' \in Nat /\ nextId <= nextId'
  BY <1>1
<1>15. QED BY <1>1, <1>7, <1>10, <1>11, <1>12, <1>13, <1>14, Begins

LEMMA AddCustomInv == ASSUME ProvidersInv, NEW name \in Customs, AddCustom(name) PROVE ProvidersInv'
<1> DEFINE row == [NoRow EXCEPT !.id = nextId, !.name = name]
           e == Call("custom", row, {})
<1>1. /\ UNCHANGED <<store, file, rows, edited>> /\ nextId' = nextId + 1 /\ nextId \in Nat
  BY DEF ProvidersInv, AddCustom, ProviderTypes
<1>2. row \in DialogRows /\ row.id = nextId /\ row.name = name
  <2>1. NoRow \in DialogRows
    BY ProviderConstants DEF ProviderConstants, NoRow, DialogRows, Names
  <2>2. QED BY <1>1, <2>1 DEF DialogRows, Names
<1> HIDE DEF row
<1>3. /\ e.got = << >> /\ e.at = "asked" /\ e.kind = "custom" /\ e.row = row /\ e.rest = {}
  BY DEF Call
<1>4. e \in DialogCalls
  <2>1. << >> \in Seq(StoredProviders) /\ {} \in SUBSET DialogRows
    OBVIOUS
  <2>2. QED BY <1>2, <2>1 DEF Call, DialogCalls
<1>5. PICK d \in DialogCalls : /\ Start(d) /\ d.got = << >> /\ d.kind = "custom" /\ d.row = row
                               /\ d.rest = {}
  <2>1. PICK d : d = e
    OBVIOUS
  <2>2. Start(d)
    BY <2>1 DEF AddCustom, Start, Crossed, row
  <2>3. QED BY <1>3, <1>4, <2>1, <2>2
<1> HIDE DEF e
<1>6. CallShape(d) /\ RowsOfCall(d) = {row}
  BY <1>5 DEF CallShape, RowsOfCall
<1>7. ASSUME NEW q \in Presets PROVE Course(q, d)'
  BY <1>5 DEF Course
<1>8. PICK fresh : fresh = {row}
  OBVIOUS
<1>9. \A r \in fresh : r.id \in Nat /\ nextId <= r.id /\ r.id < nextId'
  BY <1>1, <1>2, <1>8
<1>10. /\ RowsOfCall(d) \subseteq Records \cup fresh
       /\ \A r, s \in fresh : r.id = s.id => r.name = s.name
  BY <1>6, <1>8
<1>11. nextId' \in Nat /\ nextId <= nextId'
  BY <1>1
<1>12. QED BY <1>1, <1>5, <1>6, <1>7, <1>9, <1>10, <1>11, Begins

LEMMA ListReloadInv == ASSUME ProvidersInv, Reload PROVE ProvidersInv'
<1>1. /\ UNCHANGED <<store, file, rows, nextId, edited>> /\ nextId \in Nat
  BY DEF ProvidersInv, Reload, ProviderTypes
<1>2. PICK d \in DialogCalls : /\ Start(d) /\ CallShape(d) /\ d.got = << >> /\ d.kind = "load"
                               /\ RowsOfCall(d) = {}
  <2>1. PICK d : d = LoadCall
    OBVIOUS
  <2>2. Start(d)
    BY <2>1 DEF Reload, Start, Crossed
  <2>3. QED BY <2>1, <2>2, LoadIsCall DEF CallShape, RowsOfCall
<1> DEFINE fresh == {}
<1>3. \A r \in fresh : r.id \in Nat /\ nextId <= r.id /\ r.id < nextId'
  OBVIOUS
<1>4. /\ RowsOfCall(d) \subseteq Records \cup fresh
      /\ \A r, s \in fresh : r.id = s.id => r.name = s.name
  BY <1>2
<1> HIDE DEF fresh
<1>5. nextId' \in Nat /\ nextId <= nextId'
  BY <1>1
<1>6. QED BY <1>1, <1>2, <1>3, <1>4, <1>5, Begins

LEMMA EditInv == ASSUME ProvidersInv, NEW p \in Presets, Edit(p) PROVE ProvidersInv'
<1>1. PICK k \in Keys : rows' = [rows EXCEPT ![p].key = k]
  BY DEF Edit
<1>2. /\ ProviderTypes /\ Loaded /\ UNCHANGED <<store, file, nextId, calls, doubtful>>
      /\ edited' = edited \cup {p} /\ rows \in [Presets -> DialogRows]
      /\ \A q \in Presets : rows[q].name = q
  BY DEF ProvidersInv, Edit, ProviderTypes, Loaded
<1>3. /\ rows'[p] \in DialogRows /\ rows'[p].name = p /\ rows'[p].id = rows[p].id
      /\ rows'[p].configured = rows[p].configured
  <2>1. rows'[p] = [rows[p] EXCEPT !.key = k]
    BY <1>1, <1>2
  <2>2. rows[p] \in DialogRows /\ rows[p].name = p
    BY <1>2
  <2>3. QED BY <2>1, <2>2 DEF DialogRows
<1>4. \A q \in Presets : q # p => rows'[q] = rows[q]
  BY <1>1, <1>2
<1>5. rows' \in [Presets -> DialogRows]
  <2>1. rows' = [q \in Presets |-> rows'[q]]
    BY <1>1, <1>2
  <2>2. \A q \in Presets : rows'[q] \in DialogRows
    BY <1>2, <1>3, <1>4
  <2>3. QED BY <2>1, <2>2
<1>6. Loaded'
  <2>1. DOMAIN << >> = {} /\ DOMAIN rows' = Presets
    BY <1>5
  <2>2. QED BY <2>1 DEF Loaded
<1>7. /\ calls' \in Seq(DialogCalls) /\ CallShapes'
      /\ \A j \in DOMAIN calls' : UniqueIn(calls'[j].got)
      /\ \A fresh : \A j \in DOMAIN calls' :
           \A r \in RowsOfCall(calls'[j]) \cup ToSet(calls'[j].got) : Known(r, fresh)
  <2>1. CallShapes'
    BY <1>2, <1>6 DEF ProvidersInv, CallShapes, CallShape
  <2>2. QED BY <1>2, <2>1, InRecords DEF ProvidersInv, Uniques, ProviderTypes
<1>8. ASSUME NEW q \in Presets \ doubtful', Loaded PROVE Followed(q)'
  <2>1. Followed(q)
    BY <1>2, <1>8 DEF ProvidersInv
  <2>2. CASE q # p
    BY <1>2, <1>4, <2>1, <2>2, FollowsOn DEF Kept
  <2>3. CASE q = p
    <3>1. Matches(p)' = Matches(p)
      BY <1>2, <1>3 DEF Matches, Kept
    <3>2. Agrees(p) => Agrees(p)'
      BY <1>2, <3>1 DEF Agrees
    <3>3. \A r : ToSave(p, r) => ToSave(p, r)'
      BY <1>2, <1>3, <3>1 DEF ToSave
    <3>4. \A r : Saved(p, r) => Saved(p, r)'
      BY <1>2, <1>3 DEF Saved, Kept
    <3>5. \A c \in DialogCalls : Course(p, c) => Course(p, c)'
      BY <1>2, <1>3, <3>1, <3>3, <3>4 DEF Course, Kept
    <3>6. QED BY <1>2, <2>1, <2>3, <3>2, <3>5 DEF Followed
  <2>4. QED BY <2>2, <2>3
<1>9. QED BY <1>2, <1>3, <1>4, <1>5, <1>6, <1>7, <1>8, RowsStay

LEMMA RestartInv == ASSUME ProvidersInv, Restart PROVE ProvidersInv'
<1>1. /\ ProviderTypes /\ Identified /\ Uniques /\ store' = file /\ file' = file /\ rows' = << >>
      /\ calls' = <<LoadCall>> /\ nextId' = nextId
  BY DEF ProvidersInv, Restart
<1>2. /\ calls' \in Seq(DialogCalls) /\ \A j \in DOMAIN calls' : calls'[j] = LoadCall
  BY <1>1, LoadIsCall
<1>3. ~Loaded'
  BY <1>1 DEF Loaded
<1>4. UniqueIn(LoadCall.got) /\ ToSet(LoadCall.got) = {}
  <2>1. DOMAIN << >> = {}
    OBVIOUS
  <2>2. QED BY <2>1, LoadIsCall DEF UniqueIn, ToSet
<1>5. ProviderTypes'
  BY <1>1, <1>2, <1>3 DEF ProviderTypes
<1>6. CallShapes'
  BY <1>2, LoadIsCall DEF CallShapes, CallShape
<1>7. Uniques'
  BY <1>1, <1>2, <1>4 DEF Uniques
<1>8. Identified'
  <2> DEFINE none == {}
  <2>1. /\ \A r \in none : r.id \in Nat /\ nextId <= r.id /\ r.id < nextId'
        /\ \A r, s \in none : r.id = s.id => r.name = s.name
    OBVIOUS
  <2> HIDE DEF none
  <2>2. \A r \in ToSet(store') \cup ToSet(file') : Known(r, none)
    BY <1>1, InRecords
  <2>3. \A j \in DOMAIN calls' : \A r \in RowsOfCall(calls'[j]) \cup ToSet(calls'[j].got) :
          Known(r, none)
    BY <1>2, <1>4, LoadIsCall
  <2>4. nextId' \in Nat /\ nextId <= nextId'
    BY <1>1 DEF ProviderTypes
  <2>5. QED BY <1>1, <1>3, <2>1, <2>2, <2>3, <2>4, StillIdentified
<1>9. QED BY <1>3, <1>5, <1>6, <1>7, <1>8 DEF ProvidersInv

LEMMA ProvidersInitInv == ProvidersInit => ProvidersInv
<1> SUFFICES ASSUME ProvidersInit PROVE ProvidersInv
  OBVIOUS
<1>1. /\ store = << >> /\ file = << >> /\ rows = << >> /\ calls = <<LoadCall>> /\ nextId = 1
      /\ ~Loaded
  BY DEF ProvidersInit, Loaded
<1>2. /\ calls \in Seq(DialogCalls) /\ \A j \in DOMAIN calls : calls[j] = LoadCall
  BY <1>1, LoadIsCall
<1>3. UniqueIn(<< >>) /\ ToSet(<< >>) = {}
  <2>1. DOMAIN << >> = {}
    OBVIOUS
  <2>2. QED BY <2>1 DEF UniqueIn, ToSet
<1>4. ProviderTypes
  BY <1>1, <1>2 DEF ProviderTypes
<1>5. CallShapes
  BY <1>2, LoadIsCall DEF CallShapes
<1>6. Uniques
  BY <1>1, <1>2, <1>3, LoadIsCall DEF Uniques
<1>7. Records = {}
  BY <1>1, <1>2, <1>3, LoadIsCall DEF Records
<1>8. QED BY <1>1, <1>4, <1>5, <1>6, <1>7 DEF ProvidersInv, Identified

LEMMA ProvidersStepInv == ProvidersInv /\ [ProvidersNext]_providerVars => ProvidersInv'
<1> SUFFICES ASSUME ProvidersInv, [ProvidersNext]_providerVars PROVE ProvidersInv'
  OBVIOUS
<1>1. ASSUME NEW i \in DOMAIN calls,
             \/ Runs(i) \/ LoadAnswered(i) \/ SaveAnswered(i) \/ RemoveAnswered(i)
             \/ CustomAnswered(i)
      PROVE  ProvidersInv'
  BY <1>1, RunsInv, LoadAnsweredInv, SaveAnsweredInv, RemoveAnsweredInv, CustomAnsweredInv
<1>2. ASSUME NEW p \in Presets, Edit(p) \/ SaveRow(p) \/ RemoveRow(p) PROVE ProvidersInv'
  BY <1>2, EditInv, SaveRowInv, RemoveRowInv
<1>3. CASE SaveAll \/ Reload \/ Restart
  BY <1>3, SaveAllInv, ListReloadInv, RestartInv
<1>4. ASSUME NEW name \in Customs, AddCustom(name) PROVE ProvidersInv'
  BY <1>4, AddCustomInv
<1>5. CASE UNCHANGED providerVars
  <2>1. UNCHANGED <<store, file, rows, nextId, calls, edited, doubtful>>
    BY <1>5 DEF providerVars
  <2>2. ProviderTypes' /\ (Loaded' <=> Loaded)
    BY <2>1 DEF ProvidersInv, ProviderTypes, Loaded
  <2>3. CallShapes'
    BY <2>1, <2>2 DEF ProvidersInv, CallShapes, CallShape
  <2>4. Records' = Records
    BY <2>1 DEF Records, Loaded
  <2>5. Identified' /\ Uniques'
    BY <2>1, <2>4 DEF ProvidersInv, Identified, Uniques
  <2>6. \A p \in Presets : Followed(p) => Followed(p)'
    BY <2>1, FollowsOn DEF Kept
  <2>7. QED BY <2>1, <2>2, <2>3, <2>5, <2>6 DEF ProvidersInv
<1>6. QED BY <1>1, <1>2, <1>3, <1>4, <1>5 DEF ProvidersNext

LEMMA ProvidersInvariant == ProvidersSpec => []ProvidersInv
<1>1. ProvidersInit => ProvidersInv
  BY ProvidersInitInv
<1>2. ProvidersInv /\ [ProvidersNext]_providerVars => ProvidersInv'
  BY ProvidersStepInv
<1>3. QED BY <1>1, <1>2, PTL DEF ProvidersSpec

\* When nothing is under way, a row marked "Configured" is stored under its id as it was last
\* saved or loaded, and one not marked is not stored (saveProvider, removeProvider, loadData).
THEOREM ConfiguredShown == ProvidersSpec => []ConfiguredIsStored
<1>1. ProvidersInv => ConfiguredIsStored
  <2> SUFFICES ASSUME ProvidersInv, calls = << >>, Loaded, NEW p \in Presets \ doubtful
               PROVE  IF rows[p].configured
                      THEN \E i \in StoredAs(p) :
                             /\ store[i].id = rows[p].id
                             /\ p \notin edited => store[i].key = rows[p].key
                      ELSE StoredAs(p) = {}
    BY DEF ConfiguredIsStored
  <2>1. DOMAIN calls = {}
    OBVIOUS
  <2>2. Agrees(p)
    BY <2>1 DEF ProvidersInv, Followed, OneWorks
  <2>3. CASE rows[p].configured
    <3>1. PICK r \in Kept(store, p) : r.id = rows[p].id /\ (p \notin edited => r.key = rows[p].key)
      BY <2>2, <2>3 DEF Agrees, Matches
    <3>2. PICK i \in StoredAs(p) : store[i] = r
      BY DEF Kept, ToSet, StoredAs
    <3>3. QED BY <2>3, <3>1, <3>2
  <2>4. CASE ~rows[p].configured
    <3>1. Kept(store, p) = {}
      BY <2>2, <2>4 DEF Agrees, Matches
    <3>2. QED BY <2>4, <3>1 DEF Kept, ToSet, StoredAs
  <2>5. QED BY <2>3, <2>4
<1>2. QED BY <1>1, ProvidersInvariant, PTL

-----------------------------------------------------------------------------
(* The prompt: its text, its mention, and what it sends.                    *)

\* The entries of a list, whatever they are.
IsList(s) == \E S : s \in Seq(S)
IsMention(m) ==
  /\ m = [active |-> m.active, query |-> m.query, startIndex |-> m.startIndex,
          highlightedIndex |-> m.highlightedIndex]
  /\ m.active \in BOOLEAN
  /\ m.active => m.startIndex \in Nat /\ IsList(m.query)

\* The text, the caret in it, and the mention.
TextInv ==
  /\ IsList(input) /\ cursor \in 0..Len(input) /\ IsMention(mention)
  /\ MentionIsServed

LEMMA Wider == ASSUME NEW S, NEW T, NEW s \in Seq(S), S \subseteq T PROVE s \in Seq(T)
<1>1. Len(s) \in Nat /\ s \in [1..Len(s) -> S]
  BY LenProperties
<1>2. s \in [1..Len(s) -> T]
  BY <1>1
<1>3. QED BY <1>1, <1>2, SeqDef

LEMMA ListsTogether ==
  ASSUME NEW s, NEW t, IsList(s), IsList(t)
  PROVE  \E S : s \in Seq(S) /\ t \in Seq(S)
<1>1. PICK S : s \in Seq(S)
  BY DEF IsList
<1>2. PICK T : t \in Seq(T)
  BY DEF IsList
<1>3. s \in Seq(S \cup T) /\ t \in Seq(S \cup T)
  BY <1>1, <1>2, Wider
<1>4. QED BY <1>3

LEMMA ListOf == ASSUME NEW s, IsList(s) PROVE Len(s) \in Nat /\ DOMAIN s = 1..Len(s)
BY LenProperties DEF IsList

LEMMA Joined ==
  ASSUME NEW s, NEW t, IsList(s), IsList(t)
  PROVE  IsList(s \o t) /\ Len(s \o t) = Len(s) + Len(t)
<1>1. PICK S : s \in Seq(S) /\ t \in Seq(S)
  BY ListsTogether
<1>2. QED BY <1>1, ConcatProperties DEF IsList

LEMMA Lesser ==
  ASSUME NEW m \in Int, NEW n \in Int
  PROVE  Min({m, n}) = IF m <= n THEN m ELSE n
<1>1. \E x \in {m, n} : \A y \in {m, n} : x <= y
  OBVIOUS
<1>2. Min({m, n}) \in {m, n} /\ \A y \in {m, n} : Min({m, n}) <= y
  BY <1>1 DEF Min
<1>3. QED BY <1>2

\* The characters of a text from one place up to another.
LEMMA SliceOf ==
  ASSUME NEW text, IsList(text), NEW from \in Nat, NEW to \in Int
  PROVE  LET end == IF to <= Len(text) THEN to ELSE Len(text)
         IN  /\ IsList(Slice(text, from, to))
             /\ Len(Slice(text, from, to)) = IF from < end THEN end - from ELSE 0
             /\ \A i \in 1..Len(Slice(text, from, to)) : Slice(text, from, to)[i] = text[from + i]
<1> DEFINE end == IF to <= Len(text) THEN to ELSE Len(text)
           s == SubSeq(text, from + 1, end)
<1>1. PICK S : text \in Seq(S)
  BY DEF IsList
<1>2. Len(text) \in Nat /\ end \in Int /\ end <= Len(text) /\ \A i \in 1..Len(text) : text[i] \in S
  BY <1>1, LenProperties, ElementOfSeq
<1>3. Slice(text, from, to) = s
  BY <1>2, Lesser DEF Slice
<1> HIDE DEF end
<1>4. \A i \in from + 1 .. end : text[i] \in S
  BY <1>2
<1>5. /\ s \in Seq(S) /\ Len(s) = IF from + 1 <= end THEN end - (from + 1) + 1 ELSE 0
      /\ \A i \in 1 .. end - (from + 1) + 1 : s[i] = text[from + 1 + i - 1]
  BY <1>2, <1>4, SubSeqProperties
<1> HIDE DEF s
<1>6. Len(s) = IF from < end THEN end - from ELSE 0
  BY <1>2, <1>5
<1>7. \A i \in 1..Len(s) : s[i] = text[from + i]
  <2> SUFFICES ASSUME NEW i \in 1..Len(s) PROVE s[i] = text[from + i]
    OBVIOUS
  <2>1. i \in 1 .. end - (from + 1) + 1 /\ from + 1 + i - 1 = from + i
    BY <1>2, <1>6
  <2>2. QED BY <1>5, <2>1
<1>8. IsList(s)
  BY <1>5 DEF IsList
<1>9. QED BY <1>3, <1>6, <1>7, <1>8 DEF end

\* The place of the last one of some characters.
LEMMA LastPlace ==
  ASSUME NEW text, IsList(text), NEW characters
  PROVE  /\ LastOf(text, characters) \in Int /\ LastOf(text, characters) >= -1
         /\ LastOf(text, characters) >= 0 =>
              /\ LastOf(text, characters) < Len(text)
              /\ text[LastOf(text, characters) + 1] \in characters
<1> DEFINE places == {i \in DOMAIN text : text[i] \in characters}
<1>1. Len(text) \in Nat /\ DOMAIN text = 1..Len(text)
  BY ListOf
<1>2. LastOf(text, characters) = IF places = {} THEN -1 ELSE Max(places) - 1
  BY DEF LastOf
<1>3. CASE places = {}
  BY <1>2, <1>3
<1>4. CASE places # {}
  <2>1. places \subseteq 1..Len(text)
    BY <1>1
  <2>2. Max(places) \in places
    <3> HIDE DEF places
    <3>1. QED BY <1>1, <1>4, <2>1, LargestPlace
  <2>3. Max(places) \in 1..Len(text) /\ text[Max(places)] \in characters
    BY <2>1, <2>2
  <2>4. LastOf(text, characters) = Max(places) - 1
    BY <1>2, <1>4
  <2> HIDE DEF places
  <2>5. QED BY <1>1, <2>3, <2>4
<1>5. QED BY <1>3, <1>4

\* A slice within the text.
LEMMA SliceIn ==
  ASSUME NEW text, IsList(text), NEW from \in Nat, NEW to \in Nat, from <= to, to <= Len(text)
  PROVE  /\ IsList(Slice(text, from, to)) /\ Len(Slice(text, from, to)) = to - from
         /\ \A i \in 1..to - from : Slice(text, from, to)[i] = text[from + i]
<1>1. to \in Int /\ Len(text) \in Nat
  BY ListOf
<1> DEFINE s == Slice(text, from, to)
           end == IF to <= Len(text) THEN to ELSE Len(text)
<1>2. IsList(s) /\ (Len(s) = IF from < end THEN end - from ELSE 0)
      /\ \A i \in 1..Len(s) : s[i] = text[from + i]
  BY <1>1, SliceOf
<1> HIDE DEF s
<1>3. end = to
  OBVIOUS
<1>4. Len(s) = to - from
  BY <1>1, <1>2, <1>3
<1>5. QED BY <1>2, <1>4 DEF s

\* A search for "@" that is later than the last blank found one.
LEMMA LaterAt ==
  ASSUME NEW text, IsList(text), NEW ats, NEW blanks, NEW a, NEW b,
         a = LastOf(text, ats), b = LastOf(text, blanks), a > b
  PROVE  a \in Nat /\ a < Len(text) /\ text[a + 1] \in ats
<1>1. b \in Int /\ b >= -1
  BY LastPlace
<1>2. /\ a \in Int /\ a >= -1
      /\ a >= 0 => a < Len(text) /\ text[a + 1] \in ats
  BY LastPlace
<1>3. a >= 0
  BY <1>1, <1>2
<1>4. QED BY <1>2, <1>3

LEMMA MentionCloses == ASSUME CloseMention PROVE IsMention(mention)' /\ MentionIsServed'
<1>1. mention' = [active |-> FALSE, query |-> <<>>, startIndex |-> -1, highlightedIndex |-> 0]
  BY DEF CloseMention, NoMention
<1>2. mention'.active = FALSE
  BY <1>1
<1>3. IsMention(mention')
  BY <1>1, <1>2 DEF IsMention
<1>4. QED BY <1>2, <1>3 DEF MentionIsServed, IsMention

\* A character and what follows it up to a place.
LEMMA PieceOf ==
  ASSUME NEW text, IsList(text), NEW at \in Nat, at <= Len(text), NEW place \in Nat,
         place < at
  PROVE  LET query == Slice(Slice(text, 0, at), place + 1, at)
         IN  /\ IsList(query)
             /\ Slice(text, place, place + 1 + Len(query)) = <<text[place + 1]>> \o query
<1> DEFINE before == Slice(text, 0, at)
           query == Slice(before, place + 1, at)
           n == at - (place + 1)
           piece == Slice(text, place, at)
           first == <<text[place + 1]>>
<1>1. at \in Nat /\ at <= Len(text) /\ Len(text) \in Nat /\ n \in Nat
  BY ListOf
<1>2. IsList(before) /\ Len(before) = at /\ \A i \in 1..at : before[i] = text[i]
  <2>1. /\ IsList(before) /\ Len(before) = at - 0
        /\ \A i \in 1..at - 0 : before[i] = text[0 + i]
    BY <1>1, SliceIn
  <2> HIDE DEF before
  <2>2. QED BY <1>1, <2>1
<1> HIDE DEF before
<1>3. IsList(query) /\ Len(query) = n /\ \A i \in 1..n : query[i] = before[place + 1 + i]
  <2>1. place + 1 \in Nat /\ at \in Nat /\ place + 1 <= at /\ at <= Len(before)
    BY <1>1, <1>2
  <2> DEFINE from == place + 1
  <2>2. from \in Nat /\ from <= at
    BY <2>1
  <2> HIDE DEF from
  <2>3. /\ IsList(Slice(before, from, at)) /\ Len(Slice(before, from, at)) = at - from
        /\ \A i \in 1..at - from : Slice(before, from, at)[i] = before[from + i]
    <3>1. IsList(before) /\ at <= Len(before) /\ at \in Nat
      BY <1>1, <1>2
    <3>2. QED BY <2>2, <3>1, SliceIn
  <2>4. QED BY <2>3 DEF from, query
<1> HIDE DEF query
<1>4. IsList(piece) /\ Len(piece) = at - place /\ \A i \in 1..at - place : piece[i] = text[place + i]
  <2>1. place <= at
    BY <1>1
  <2>2. QED BY <1>1, <2>1, SliceIn
<1> HIDE DEF piece
<1>5. IsList(first) /\ Len(first) = 1 /\ first[1] = text[place + 1]
  <2>1. first \in Seq({text[place + 1]})
    OBVIOUS
  <2>2. QED BY <2>1 DEF IsList
<1> HIDE DEF first
<1>6. PICK S : first \in Seq(S) /\ query \in Seq(S)
  BY <1>3, <1>5, ListsTogether
<1>7. /\ first \o query \in Seq(S) /\ Len(first \o query) = 1 + n
      /\ \A i \in 1..1 + n : (first \o query)[i] = IF i <= 1 THEN first[i] ELSE query[i - 1]
  <2>1. /\ first \o query \in Seq(S) /\ Len(first \o query) = Len(first) + Len(query)
        /\ \A i \in 1..Len(first) + Len(query) :
             (first \o query)[i] = IF i <= Len(first) THEN first[i] ELSE query[i - Len(first)]
    BY <1>6, ConcatProperties
  <2>2. QED BY <1>3, <1>5, <2>1
<1>8. 1 + n = at - place
  BY <1>1
<1>9. \A i \in 1..1 + n : piece[i] = (first \o query)[i]
  <2> SUFFICES ASSUME NEW i \in 1..1 + n PROVE piece[i] = (first \o query)[i]
    OBVIOUS
  <2>1. CASE i = 1
    BY <1>1, <1>4, <1>5, <1>7, <1>8, <2>1
  <2>2. CASE i # 1
    <3>1. /\ i - 1 \in 1..n /\ ~(i <= 1) /\ place + 1 + (i - 1) = place + i
          /\ place + i \in 1..at /\ i \in 1..at - place
      BY <1>1, <1>8, <2>2
    <3>2. piece[i] = text[place + i]
      BY <1>4, <3>1
    <3>3. (first \o query)[i] = query[i - 1]
      BY <1>7, <3>1
    <3>4. query[i - 1] = before[place + 1 + (i - 1)]
      BY <1>3, <3>1
    <3>5. before[place + i] = text[place + i]
      BY <1>2, <3>1
    <3>6. QED BY <3>1, <3>2, <3>3, <3>4, <3>5
  <2>3. QED BY <2>1, <2>2
<1>10. PICK T : piece \in Seq(T) /\ first \o query \in Seq(T)
  <2>1. IsList(first \o query)
    BY <1>7 DEF IsList
  <2>2. QED BY <1>4, <2>1, ListsTogether
<1>11. piece = first \o query
  <2>1. Len(piece) = Len(first \o query)
    BY <1>4, <1>7, <1>8
  <2>2. Len(piece) = 1 + n
    BY <1>4, <1>8
  <2>3. QED BY <1>9, <1>10, <2>1, <2>2, SeqEqual
<1>12. place + 1 + Len(query) = at
  BY <1>1, <1>3
<1>13. QED BY <1>3, <1>11, <1>12 DEF piece, query, before, first

\* The "@" and the query are where the mention says.
LEMMA MentionOpens ==
  ASSUME NEW text, IsList(text), NEW at \in 0..Len(text), NEW place \in Nat,
         place < at, text[place + 1] = "@", input' = text,
         OpenMention(Slice(Slice(text, 0, at), place + 1, at), place)
  PROVE  IsMention(mention)' /\ MentionIsServed'
<1>1. PICK query : query = Slice(Slice(text, 0, at), place + 1, at)
  OBVIOUS
<1>2. /\ IsList(query)
      /\ Slice(text, place, place + 1 + Len(query)) = <<"@">> \o query
  <2>1. at \in Nat /\ at <= Len(text)
    BY ListOf
  <2>2. QED BY <1>1, <2>1, PieceOf
<1>3. mention' = Opened(query, place) /\ searching' = TRUE
  BY <1>1 DEF OpenMention
<1>4. /\ mention'.active = TRUE /\ mention'.query = query /\ mention'.startIndex = place
      /\ mention' = [active |-> mention'.active, query |-> mention'.query,
           startIndex |-> mention'.startIndex, highlightedIndex |-> mention'.highlightedIndex]
  BY <1>3 DEF Opened
<1>5. Slice(input', mention'.startIndex, mention'.startIndex + 1 + Len(mention'.query))
        = <<"@">> \o mention'.query
  BY <1>2, <1>4
<1>6. IsMention(mention)'
  BY <1>2, <1>4 DEF IsMention
<1>7. QED BY <1>3, <1>5, <1>6 DEF MentionIsServed, Slice

\* A change of the text decides on the mention.
LEMMA TextChanges ==
  ASSUME TextInv, NEW text, IsList(text), NEW at \in 0..Len(text), Change(text, at)
  PROVE  TextInv'
<1> DEFINE before == Slice(text, 0, at)
           lastAt == LastOf(before, {"@"})
<1>1. input' = text /\ cursor' = at /\ Len(text) \in Nat /\ at \in Nat /\ at <= Len(text)
  <2>1. input' = text /\ cursor' = at
    BY DEF Change
  <2>2. Len(text) \in Nat
    BY ListOf
  <2>3. QED BY <2>1, <2>2
<1>2. IsList(before) /\ Len(before) = at /\ \A i \in 1..at : before[i] = text[i]
  <2>1. 0 \in Nat /\ at \in Int
    BY <1>1
  <2>2. /\ IsList(before) /\ Len(before) = at
        /\ \A i \in 1..Len(before) : before[i] = text[0 + i]
    BY <1>1, <2>1, SliceOf
  <2> HIDE DEF before
  <2>3. \A i \in 1..at : before[i] = text[i]
    BY <1>1, <2>2
  <2>4. QED BY <2>2, <2>3
<1>3. IsMention(mention)' /\ MentionIsServed'
  <2>1. CASE lastAt > LastOf(before, {" "}) /\ OpenMention(Slice(before, lastAt + 1, at), lastAt)
    <3>1. lastAt \in Nat /\ lastAt < at /\ before[lastAt + 1] = "@"
      <4>1. PICK a, b : a = lastAt /\ b = LastOf(before, {" "})
        OBVIOUS
      <4>2. a > b
        BY <2>1, <4>1
      <4> HIDE DEF before
      <4>3. a \in Nat /\ a < Len(before) /\ before[a + 1] = "@"
        <5>1. PICK ats, blanks : /\ ats = {"@"} /\ blanks = {" "}
                                  /\ a = LastOf(before, ats) /\ b = LastOf(before, blanks)
          BY <4>1
        <5>2. a \in Nat /\ a < Len(before) /\ before[a + 1] \in ats
          BY <1>2, <4>2, <5>1, LaterAt
        <5>3. QED BY <5>1, <5>2
      <4>4. QED BY <1>2, <4>1, <4>3
    <3>2. text[lastAt + 1] = "@"
      <4>1. lastAt + 1 \in 1..at
        BY <1>1, <3>1
      <4>2. QED BY <1>2, <3>1, <4>1
    <3>3. PICK k \in Nat : k = lastAt
      BY <3>1
    <3> HIDE DEF lastAt
    <3>4. QED BY <1>1, <2>1, <3>1, <3>2, <3>3, MentionOpens
  <2>2. CASE ~(lastAt > LastOf(before, {" "})) /\ CloseMention
    BY <2>2, MentionCloses
  <2>3. CASE ~mention.active /\ KeepMention
    BY <2>3 DEF TextInv, KeepMention, searchVars, IsMention, MentionIsServed
  <2>4. QED BY <2>1, <2>2, <2>3 DEF Change
<1>4. QED BY <1>1, <1>3 DEF TextInv

LEMMA Same == ASSUME TextInv, UNCHANGED <<textVars, mention, results, searching, stale, doubt>> PROVE TextInv'
BY DEF TextInv, textVars, IsMention, MentionIsServed

\* One entry is a list.
LEMMA OneLong == ASSUME NEW c PROVE IsList(<<c>>) /\ Len(<<c>>) = 1
<1>1. <<c>> \in Seq({c})
  OBVIOUS
<1>2. QED BY <1>1 DEF IsList

LEMMA TypeInv == ASSUME TextInv, NEW c, Type(c) PROVE TextInv'
<1> DEFINE head == Slice(input, 0, cursor)
           tail == Slice(input, cursor, Len(input))
           text == head \o <<c>> \o tail
<1>1. /\ IsList(input) /\ Len(input) \in Nat /\ cursor \in Nat /\ cursor <= Len(input)
  BY ListOf DEF TextInv
<1>2. IsList(head) /\ Len(head) = cursor - 0
  BY <1>1, SliceIn
<1>3. IsList(tail) /\ Len(tail) = Len(input) - cursor
  <2>1. PICK n : n = Len(input)
    OBVIOUS
  <2>2. n \in Nat /\ cursor <= n /\ n <= Len(input)
    BY <1>1, <2>1
  <2>3. IsList(Slice(input, cursor, n)) /\ Len(Slice(input, cursor, n)) = n - cursor
    <3>1. cursor \in Nat /\ IsList(input)
      BY <1>1
    <3>2. QED BY <2>2, <3>1, SliceIn
  <2>4. QED BY <2>1, <2>3
<1>4. Change(text, cursor + 1)
  BY DEF Type
<1> HIDE DEF head, tail
<1>5. IsList(head \o <<c>>) /\ Len(head \o <<c>>) = Len(head) + 1
  BY <1>2, OneLong, Joined
<1>6. IsList(text) /\ Len(text) = Len(head \o <<c>>) + Len(tail)
  BY <1>3, <1>5, Joined
<1> HIDE DEF text
<1>7. cursor + 1 \in 0..Len(text)
  BY <1>1, <1>2, <1>3, <1>5, <1>6
<1>8. QED BY <1>4, <1>6, <1>7, TextChanges

\* A list without one of its entries.
LEMMA OneLess ==
  ASSUME NEW s, IsList(s), NEW i \in 1..Len(s)
  PROVE  IsList(RemoveAt(s, i)) /\ Len(RemoveAt(s, i)) = Len(s) - 1
<1>1. PICK S : s \in Seq(S)
  BY DEF IsList
<1>2. Len(s) \in Nat /\ \A j \in 1..Len(s) : s[j] \in S
  BY <1>1, LenProperties, ElementOfSeq
<1> DEFINE front == SubSeq(s, 1, i - 1)
           back == SubSeq(s, i + 1, Len(s))
<1>3. front \in Seq(S) /\ Len(front) = i - 1
  <2>1. 1 \in Int /\ i - 1 \in Int /\ \A j \in 1..i - 1 : s[j] \in S
    BY <1>2
  <2>2. front \in Seq(S) /\ Len(front) = IF 1 <= i - 1 THEN (i - 1) - 1 + 1 ELSE 0
    BY <2>1, SubSeqProperties
  <2> HIDE DEF front
  <2>3. QED BY <1>2, <2>2
<1>4. back \in Seq(S) /\ Len(back) = Len(s) - i
  <2>1. i + 1 \in Int /\ Len(s) \in Int /\ \A j \in i + 1..Len(s) : s[j] \in S
    BY <1>2
  <2>2. back \in Seq(S) /\ Len(back) = IF i + 1 <= Len(s) THEN Len(s) - (i + 1) + 1 ELSE 0
    BY <2>1, SubSeqProperties
  <2> HIDE DEF back
  <2>3. QED BY <1>2, <2>2
<1>5. RemoveAt(s, i) = front \o back
  BY DEF RemoveAt
<1> HIDE DEF front, back
<1>6. front \o back \in Seq(S) /\ Len(front \o back) = Len(front) + Len(back)
  BY <1>3, <1>4, ConcatProperties
<1>7. Len(front) + Len(back) = Len(s) - 1
  BY <1>2, <1>3, <1>4
<1>8. QED BY <1>5, <1>6, <1>7 DEF IsList

LEMMA BackspaceInv == ASSUME TextInv, Backspace PROVE TextInv'
<1> DEFINE text == RemoveAt(input, cursor)
<1>1. /\ IsList(input) /\ Len(input) \in Nat /\ cursor \in 1..Len(input)
  BY ListOf DEF TextInv, Backspace
<1>2. IsList(text) /\ Len(text) = Len(input) - 1
  BY <1>1, OneLess
<1>3. Change(text, cursor - 1)
  BY DEF Backspace
<1> HIDE DEF text
<1>4. cursor - 1 \in 0..Len(text)
  BY <1>1, <1>2
<1>5. QED BY <1>2, <1>3, <1>4, TextChanges

LEMMA MoveCaretInv == ASSUME TextInv, NEW to \in 0..Len(input), MoveCaret(to) PROVE TextInv'
BY DEF TextInv, MoveCaret, searchVars, IsMention, MentionIsServed

LEMMA ArrowInv == ASSUME TextInv, NEW index, Arrow(index) PROVE TextInv'
<1>1. /\ mention'.active = mention.active /\ mention'.query = mention.query
      /\ mention'.startIndex = mention.startIndex
      /\ mention' = [active |-> mention'.active, query |-> mention'.query,
           startIndex |-> mention'.startIndex, highlightedIndex |-> mention'.highlightedIndex]
  BY DEF TextInv, IsMention, Arrow
<1>2. UNCHANGED <<input, cursor, results, searching, stale, doubt>>
  BY DEF Arrow, textVars, searchVars
<1>3. QED BY <1>1, <1>2 DEF TextInv, IsMention, MentionIsServed

LEMMA EscapeInv == ASSUME TextInv, Escape PROVE TextInv'
<1>1. CloseMention /\ UNCHANGED <<input, cursor>>
  BY DEF Escape, textVars
<1>2. IsMention(mention)' /\ MentionIsServed'
  BY <1>1, MentionCloses
<1>3. QED BY <1>1, <1>2 DEF TextInv

\* A path is a list of characters.
LEMMA PathIsList == ASSUME NEW path \in Paths PROVE IsList(path) /\ path # <<>> /\ Len(path) \in Nat \ {0}
<1>1. path \in Seq(Word \cup Odd) /\ path # <<>>
  BY BoxConstants DEF BoxConstants, Paths
<1>2. Len(path) \in Nat /\ Len(path) # 0
  BY <1>1, LenProperties, EmptySeq
<1>3. QED BY <1>1, <1>2 DEF IsList

LEMMA InsertInv == ASSUME TextInv, NEW path \in Paths, Insert(path) PROVE TextInv'
<1> DEFINE start == mention.startIndex
           head == Slice(input, 0, start)
           token == <<"@">> \o path
           from == start + Len(mention.query) + 1
           tail == Slice(input, from, Len(input))
<1>1. /\ mention.active /\ CloseMention
      /\ input' = head \o token \o <<" ">> \o tail
      /\ cursor' = Min({start + Len(token) + 1, Len(input')})
  BY DEF Insert
<1>2. IsList(input) /\ Len(input) \in Int /\ start \in Nat /\ start \in Int /\ from \in Nat
  <2>1. IsList(input) /\ mention.startIndex \in Nat /\ IsList(mention.query)
    BY <1>1 DEF TextInv, IsMention
  <2>2. Len(input) \in Nat /\ Len(mention.query) \in Nat
    BY <2>1, ListOf
  <2>3. QED BY <2>1, <2>2
<1>3. IsList(head)
  <2>1. 0 \in Nat
    OBVIOUS
  <2>2. QED BY <1>2, <2>1, SliceOf
<1>4. IsList(tail)
  <2> HIDE DEF from
  <2>1. QED BY <1>2, SliceOf
<1>5. IsList(token) /\ Len(token) \in Nat
  <2>1. IsList(token)
    BY PathIsList, OneLong, Joined
  <2>2. QED BY <2>1, ListOf
<1> HIDE DEF head, tail, token
<1>6. IsList(input')
  <2>1. IsList(head \o token)
    BY <1>3, <1>5, Joined
  <2>2. IsList(head \o token \o <<" ">>)
    BY <2>1, OneLong, Joined
  <2>3. IsList(head \o token \o <<" ">> \o tail)
    BY <1>4, <2>2, Joined
  <2>4. QED BY <1>1, <2>3
<1>7. cursor' \in 0..Len(input')
  <2>1. PICK n : n = Len(input')
    OBVIOUS
  <2>2. n \in Nat
    BY <1>6, <2>1, ListOf
  <2>3. PICK m : m = start + Len(token) + 1
    OBVIOUS
  <2>4. m \in Nat
    BY <1>2, <1>5, <2>3
  <2>5. cursor' = IF m <= n THEN m ELSE n
    <3>1. cursor' = Min({m, n})
      BY <1>1, <2>1, <2>3
    <3>2. Min({m, n}) = IF m <= n THEN m ELSE n
      BY <2>2, <2>4, Lesser
    <3>3. QED BY <3>1, <3>2
  <2>6. QED BY <2>1, <2>2, <2>4, <2>5
<1>8. IsMention(mention)' /\ MentionIsServed'
  BY <1>1, MentionCloses
<1>9. QED BY <1>6, <1>7, <1>8 DEF TextInv

LEMMA AnswersInv == ASSUME TextInv, NEW i, SearchAnswered(i) PROVE TextInv'
<1>1. UNCHANGED <<input, cursor, mention, stale>>
  BY DEF SearchAnswered, textVars
<1>2. mention.active /\ ~doubt' => results' = Found(mention.query)
  BY DEF SearchAnswered
<1>3. QED BY <1>1, <1>2 DEF TextInv, IsMention, MentionIsServed

LEMMA FiresInv == ASSUME TextInv, Fires PROVE TextInv'
BY Same DEF Fires

LEMMA DeliverInv ==
  ASSUME TextInv, NEW message, Deliver(message), UNCHANGED <<mention, results, searching, doubt>>
  PROVE  TextInv'
<1>1. input' = <<>> /\ cursor' = 0 /\ stale' = (stale \/ mention.active)
  BY DEF Deliver
<1>2. IsList(<<>>) /\ Len(<<>>) = 0
  <2>1. <<>> \in Seq({})
    OBVIOUS
  <2>2. QED BY <2>1 DEF IsList
<1>3. mention.active => stale'
  BY <1>1
<1>4. QED BY <1>1, <1>2, <1>3 DEF TextInv, IsMention, MentionIsServed

LEMMA SubmitInv == ASSUME TextInv, NEW key, Submit(key) PROVE TextInv'
<1>1. UNCHANGED <<mention, results, searching, doubt>>
  BY DEF Submit, searchVars
<1>2. (\E message : Deliver(message)) \/ UNCHANGED <<textVars, stale>>
  BY DEF Submit
<1>3. QED BY <1>1, <1>2, DeliverInv, Same

LEMMA ReadNextInv == ASSUME TextInv, NEW k, ReadNext(k) PROVE TextInv'
<1>1. UNCHANGED <<mention, results, searching, doubt>>
  BY DEF ReadNext, searchVars
<1>2. (\E message : Deliver(message)) \/ UNCHANGED <<textVars, stale>>
  BY DEF ReadNext
<1>3. QED BY <1>1, <1>2, DeliverInv, Same

LEMMA TextStep == ASSUME TextInv, BoxNext PROVE TextInv'
<1>1. ASSUME NEW c \in Typed, Type(c) PROVE TextInv'
  BY <1>1, TypeInv
<1>2. ASSUME NEW to \in 0..Len(input), MoveCaret(to) PROVE TextInv'
  BY <1>2, MoveCaretInv
<1>3. CASE Backspace
  BY <1>3, BackspaceInv
<1>4. CASE ArrowDown
  BY <1>4, ArrowInv DEF ArrowDown
<1>5. CASE ArrowUp
  BY <1>5, ArrowInv DEF ArrowUp
<1>6. CASE Escape
  BY <1>6, EscapeInv
<1>7. ASSUME NEW path \in Paths, Accept(path) PROVE TextInv'
  BY <1>7, InsertInv DEF Accept
<1>8. CASE Fires
  BY <1>8, FiresInv
<1>9. CASE Busy
  BY <1>9, Same DEF Busy, searchVars
<1>10. CASE Ready
  BY <1>10, Same DEF Ready, searchVars
<1>11. ASSUME NEW path \in Paths, Insert(path) PROVE TextInv'
  BY <1>11, InsertInv
<1>12. ASSUME NEW i \in DOMAIN asked, SearchAnswered(i) PROVE TextInv'
  BY <1>12, AnswersInv
<1>13. ASSUME NEW key, Submit(key) PROVE TextInv'
  BY <1>13, SubmitInv
<1>14. ASSUME NEW k \in DOMAIN submits, ReadNext(k) PROVE TextInv'
  BY <1>14, ReadNextInv
<1>15. QED
  BY <1>1, <1>2, <1>3, <1>4, <1>5, <1>6, <1>7, <1>8, <1>9, <1>10, <1>11, <1>12, <1>13, <1>14
  DEF BoxNext

LEMMA TextInit == ASSUME BoxInit PROVE TextInv
<1>1. input = <<>> /\ cursor = 0 /\ mention = NoMention
  BY DEF BoxInit
<1>2. IsList(<<>>) /\ Len(<<>>) = 0
  <2>1. <<>> \in Seq({})
    OBVIOUS
  <2>2. QED BY <2>1 DEF IsList
<1>3. IsMention(mention) /\ ~mention.active
  BY <1>1 DEF NoMention, IsMention
<1>4. QED BY <1>1, <1>2, <1>3 DEF TextInv, MentionIsServed

LEMMA TextAlways == BoxSpec => []TextInv
<1>1. BoxInit => TextInv
  BY TextInit
<1>2. TextInv /\ [BoxNext]_boxVars => TextInv'
  <2>1. TextInv /\ UNCHANGED boxVars => TextInv'
    BY Same DEF boxVars, searchVars
  <2>2. QED BY <2>1, TextStep
<1>3. QED BY <1>1, <1>2, PTL DEF BoxSpec

\* While the "@" is where the mention says and the list is that of its query, what is
\* accepted replaces what was typed after the "@" (insertFileToken, useFileSearch).
THEOREM MentionServed == BoxSpec => []MentionIsServed
<1>1. TextInv => MentionIsServed
  BY DEF TextInv
<1>2. QED BY <1>1, TextAlways, PTL

-----------------------------------------------------------------------------
(* What a submit reads and sends.                                           *)

IsMessage(m) == m = [text |-> m.text, contents |-> m.contents, failed |-> m.failed]
\* The place mentions the file with what the pattern takes, and no more.
Plainly(text, i, path) ==
  /\ MentionedAt(text, i, path) /\ ToSet(path) \subseteq Word
  /\ i + Len(path) + 1 <= Len(text) => text[i + Len(path) + 1] \notin Word
\* Every file mentioned was read, could not be read, or is yet to be.
Accounted(m, left) ==
  \A path \in Files, i \in DOMAIN m.text :
    Plainly(m.text, i, path) => path \in m.contents \cup m.failed \/ i \in left

SendInv ==
  /\ IsList(sent) /\ \A n \in DOMAIN sent : Accounted(sent[n], {})
  /\ IsList(submits)
  /\ \A k \in DOMAIN submits :
       /\ IsMessage(submits[k].message) /\ IsList(submits[k].message.text)
       /\ submits[k].todo # {} /\ submits[k].todo \subseteq DOMAIN submits[k].message.text
       /\ Accounted(submits[k].message, submits[k].todo)

\* The entries of a list with one more.
LEMMA OneMore ==
  ASSUME NEW s, IsList(s), NEW e
  PROVE  /\ IsList(Append(s, e))
         /\ \A i \in DOMAIN Append(s, e) : Append(s, e)[i] = e \/ \E j \in DOMAIN s : Append(s, e)[i] = s[j]
<1>1. PICK S : s \in Seq(S)
  BY DEF IsList
<1>2. s \in Seq(S \cup {e}) /\ e \in S \cup {e}
  BY <1>1, Wider
<1>3. /\ Append(s, e) \in Seq(S \cup {e}) /\ Len(Append(s, e)) = Len(s) + 1
      /\ \A i \in 1..Len(s) : Append(s, e)[i] = s[i]
      /\ Append(s, e)[Len(s) + 1] = e
  BY <1>2, AppendProperties
<1>4. DOMAIN Append(s, e) = 1..Len(s) + 1 /\ DOMAIN s = 1..Len(s) /\ Len(s) \in Nat
  BY <1>1, <1>3, LenProperties
<1>5. ASSUME NEW i \in DOMAIN Append(s, e)
      PROVE  Append(s, e)[i] = e \/ \E j \in DOMAIN s : Append(s, e)[i] = s[j]
  <2>1. i = Len(s) + 1 \/ i \in 1..Len(s)
    BY <1>4
  <2>2. QED BY <1>3, <1>4, <2>1
<1>6. QED BY <1>3, <1>5 DEF IsList

\* What is sent accounts for every file it mentions.
LEMMA DeliverSends ==
  ASSUME SendInv, NEW message, Accounted(message, {}), Deliver(message)
  PROVE  IsList(sent') /\ \A i \in DOMAIN sent' : Accounted(sent'[i], {})
<1>1. sent' = Append(sent, message)
  BY DEF Deliver
<1>2. IsList(sent) /\ \A i \in DOMAIN sent : Accounted(sent[i], {})
  BY DEF SendInv
<1>3. IsList(Append(sent, message))
  BY <1>2, OneMore
<1>4. ASSUME NEW i \in DOMAIN Append(sent, message) PROVE Accounted(Append(sent, message)[i], {})
  <2>1. \/ Append(sent, message)[i] = message
        \/ \E j \in DOMAIN sent : Append(sent, message)[i] = sent[j]
    BY <1>2, OneMore
  <2>2. QED BY <1>2, <2>1
<1>5. QED BY <1>1, <1>3, <1>4

\* The entries of a list without one are entries of the list.
LEMMA OfTheRest ==
  ASSUME NEW s, IsList(s), NEW i \in DOMAIN s
  PROVE  /\ IsList(RemoveAt(s, i))
         /\ \A k \in DOMAIN RemoveAt(s, i) : \E j \in DOMAIN s : RemoveAt(s, i)[k] = s[j]
<1>1. PICK S : s \in Seq(S)
  BY DEF IsList
<1>2. Len(s) \in Nat /\ DOMAIN s = 1..Len(s) /\ i \in 1..Len(s)
  BY <1>1, LenProperties
<1> DEFINE T == {s[j] : j \in DOMAIN s}
<1>3. s \in Seq(T)
  <2>1. s \in [1..Len(s) -> T]
    BY <1>1, <1>2, LenProperties
  <2>2. QED BY <1>2, <2>1, SeqDef
<1>4. \A j \in 1..Len(s) : s[j] \in T
  BY <1>2
<1> HIDE DEF T
<1> DEFINE front == SubSeq(s, 1, i - 1)
           back == SubSeq(s, i + 1, Len(s))
<1>5. front \in Seq(T)
  <2>1. 1 \in Int /\ i - 1 \in Int /\ \A j \in 1..i - 1 : s[j] \in T
    BY <1>2, <1>4
  <2>2. QED BY <2>1, SubSeqProperties
<1>6. back \in Seq(T)
  <2>1. i + 1 \in Int /\ Len(s) \in Int /\ \A j \in i + 1..Len(s) : s[j] \in T
    BY <1>2, <1>4
  <2>2. QED BY <2>1, SubSeqProperties
<1>7. RemoveAt(s, i) = front \o back
  BY DEF RemoveAt
<1> HIDE DEF front, back
<1>8. RemoveAt(s, i) \in Seq(T)
  BY <1>5, <1>6, <1>7, ConcatProperties
<1>9. \A k \in DOMAIN RemoveAt(s, i) : RemoveAt(s, i)[k] \in T
  BY <1>8, LenProperties, ElementOfSeq
<1>10. QED BY <1>8, <1>9 DEF IsList, T

\* The smallest of some places.
LEMMA LeastPlace == ASSUME NEW S, S \subseteq Nat, S # {} PROVE Min(S) \in S
<1>1. \A x, y \in Nat : x < y => <<x, y>> \in Less
  BY DEF Less
<1>2. PICK x \in S : \A y \in S : ~ (<<y, x>> \in Less)
  BY LessIsWellFounded, WFMin
<1>3. ASSUME NEW y \in S PROVE x <= y
  <2>1. ~(y < x) /\ x \in Nat /\ y \in Nat
    BY <1>1, <1>2
  <2>2. QED BY <2>1
<1>4. QED BY <1>2, <1>3 DEF Min

\* What the pattern takes is the path that is plainly mentioned there.
LEMMA TakenPlainly ==
  ASSUME NEW text, IsList(text), NEW path \in Files, NEW i \in DOMAIN text,
         Plainly(text, i, path)
  PROVE  i \in Mentions(text) /\ Taken(text, i) = path
<1> DEFINE ends == {j \in i..Len(text) : \A k \in (i + 1)..j : text[k] \in Word}
           last == i + Len(path)
<1>1. Len(text) \in Nat /\ DOMAIN text = 1..Len(text) /\ i \in 1..Len(text) /\ i \in Nat
  BY ListOf
<1>2. Len(path) \in Nat \ {0} /\ IsList(path) /\ DOMAIN path = 1..Len(path)
  BY PathIsList, ListOf DEF Paths
<1>3. /\ text[i] = "@" /\ last <= Len(text) /\ Slice(text, i, last) = path
      /\ \A m \in 1..Len(path) : path[m] \in Word
      /\ last + 1 <= Len(text) => text[last + 1] \notin Word
  BY <1>2 DEF Plainly, MentionedAt, ToSet
<1>4. last \in Nat /\ i < last
  BY <1>1, <1>2
<1>5. \A m \in 1..last - i : Slice(text, i, last)[m] = text[i + m]
  <2> HIDE DEF last
  <2>1. i <= last /\ i \in Nat /\ last \in Nat
    BY <1>1, <1>4
  <2>2. last <= Len(text)
    BY <1>3
  <2>3. QED BY <2>1, <2>2, SliceIn
<1>6. last - i = Len(path)
  BY <1>1, <1>2
<1>7. ASSUME NEW k \in (i + 1)..last PROVE text[k] \in Word
  <2>1. k - i \in 1..Len(path) /\ i + (k - i) = k /\ k - i \in 1..last - i
    BY <1>1, <1>2, <1>6
  <2>2. Slice(text, i, last)[k - i] = text[i + (k - i)]
    BY <1>5, <2>1
  <2>3. path[k - i] = text[k]
    BY <1>3, <2>1, <2>2
  <2>4. QED BY <1>3, <2>1, <2>3
<1> HIDE DEF last
<1>8. last \in ends
  <2>1. last \in i..Len(text)
    BY <1>1, <1>3, <1>4
  <2>2. QED BY <1>7, <2>1
<1>9. ASSUME NEW j \in ends PROVE j <= last
  <2>1. j \in Nat /\ j <= Len(text) /\ \A k \in (i + 1)..j : text[k] \in Word
    BY <1>1
  <2>2. ASSUME last < j PROVE FALSE
    <3>1. last + 1 \in (i + 1)..j /\ last + 1 <= Len(text)
      BY <1>1, <1>4, <2>1, <2>2
    <3>2. text[last + 1] \in Word
      BY <2>1, <3>1
    <3>3. QED BY <1>3, <3>1, <3>2
  <2>3. QED BY <1>4, <2>1, <2>2
<1>10. Max(ends) = last
  <2>1. ends \subseteq 1..Len(text) /\ ends # {}
    BY <1>1, <1>8
  <2>2. Max(ends) \in ends /\ \A y \in ends : Max(ends) >= y
    <3> HIDE DEF ends
    <3>1. \E x \in ends : \A y \in ends : x >= y
      <4>1. \A y \in ends : y \in Nat
        BY <1>1, <2>1
      <4>2. \A y \in ends : last >= y
        BY <1>4, <1>9, <4>1
      <4>3. QED BY <1>8, <4>2
    <3>2. QED BY <3>1 DEF Max
  <2>3. Max(ends) <= last /\ Max(ends) >= last
    <3> HIDE DEF ends
    <3>1. QED BY <1>8, <1>9, <2>2
  <2>4. Max(ends) \in Nat
    <3> HIDE DEF ends
    <3>1. Max(ends) \in 1..Len(text)
      BY <2>1, <2>2
    <3>2. QED BY <1>1, <3>1
  <2>5. QED BY <1>4, <2>3, <2>4
<1>11. Taken(text, i) = Slice(text, i, last)
  BY <1>10 DEF Taken
<1>12. i < Len(text) /\ text[i + 1] \in Word
  <2>1. i + 1 \in (i + 1)..last
    BY <1>1, <1>4
  <2>2. QED BY <1>1, <1>3, <1>4, <1>7, <2>1
<1>13. QED BY <1>3, <1>11, <1>12 DEF Mentions

LEMMA SubmitSends == ASSUME TextInv, SendInv, NEW key, Submit(key) PROVE SendInv'
<1> DEFINE todo == Mentions(input)
           message == [text |-> input, contents |-> {}, failed |-> {}]
           submit == [message |-> message, todo |-> todo]
<1>1. /\ IsMessage(message) /\ message.text = input
      /\ submit.message = message /\ submit.todo = todo
  BY DEF IsMessage
<1>2. IsList(input) /\ todo \subseteq DOMAIN input
  BY DEF TextInv, Mentions
<1>3. Accounted(message, todo)
  BY <1>1, <1>2, TakenPlainly DEF Accounted
<1>4. \/ todo = {} /\ Deliver(message) /\ UNCHANGED submits
      \/ todo # {} /\ submits' = Append(submits, submit) /\ UNCHANGED sent
  BY DEF Submit
<1> HIDE DEF message, todo
<1>5. CASE todo = {} /\ Deliver(message) /\ UNCHANGED submits
  <2>1. IsList(sent') /\ \A n \in DOMAIN sent' : Accounted(sent'[n], {})
    BY <1>3, <1>5, DeliverSends
  <2>2. QED BY <1>5, <2>1 DEF SendInv
<1>6. CASE todo # {} /\ submits' = Append(submits, submit) /\ UNCHANGED sent
  <2> HIDE DEF submit
  <2>1. IsList(submits) /\ IsList(Append(submits, submit))
    BY OneMore DEF SendInv
  <2>2. ASSUME NEW k \in DOMAIN Append(submits, submit)
        PROVE  LET s == Append(submits, submit)[k]
               IN  /\ IsMessage(s.message) /\ IsList(s.message.text)
                   /\ s.todo # {} /\ s.todo \subseteq DOMAIN s.message.text
                   /\ Accounted(s.message, s.todo)
    <3>1. \/ Append(submits, submit)[k] = submit
          \/ \E j \in DOMAIN submits : Append(submits, submit)[k] = submits[j]
      BY <2>1, OneMore
    <3>2. CASE Append(submits, submit)[k] = submit
      BY <1>1, <1>2, <1>3, <1>6, <3>2
    <3>3. CASE \E j \in DOMAIN submits : Append(submits, submit)[k] = submits[j]
      BY <3>3 DEF SendInv
    <3>4. QED BY <3>1, <3>2, <3>3
  <2>3. QED BY <1>6, <2>1, <2>2 DEF SendInv
<1>7. QED BY <1>4, <1>5, <1>6

\* A file that was read, or could not be, is accounted for.
LEMMA ReadAccounts ==
  ASSUME NEW m, IsMessage(m), IsList(m.text), NEW left, Accounted(m, left), NEW next,
         NEW read \in ReadOutcomes(m, Taken(m.text, next))
  PROVE  IsMessage(read) /\ read.text = m.text /\ Accounted(read, left \ {next})
<1> DEFINE taken == Taken(m.text, next)
<1>1. /\ read.text = m.text /\ m.contents \subseteq read.contents /\ m.failed \subseteq read.failed
      /\ taken \in Files => taken \in read.contents \cup read.failed
      /\ IsMessage(read)
  <2> HIDE DEF taken
  <2>1. read \in ReadOutcomes(m, taken)
    BY DEF taken
  <2>2. CASE read = m /\ taken \notin Files
    BY <2>2
  <2>3. CASE read = [m EXCEPT !.contents = @ \cup {taken}]
    BY <2>3 DEF IsMessage
  <2>4. CASE read = [m EXCEPT !.failed = @ \cup {taken}]
    BY <2>4 DEF IsMessage
  <2>5. QED BY <2>1, <2>2, <2>3, <2>4 DEF ReadOutcomes
<1>2. ASSUME NEW path \in Files, NEW i \in DOMAIN m.text, Plainly(m.text, i, path)
      PROVE  path \in read.contents \cup read.failed \/ i \in left \ {next}
  <2>1. path \in m.contents \cup m.failed \/ i \in left
    BY <1>2 DEF Accounted
  <2>2. CASE i = next
    <3>1. taken = path
      BY <1>2, <2>2, TakenPlainly
    <3>2. QED BY <1>1, <3>1
  <2>3. QED BY <1>1, <2>1, <2>2
<1>3. QED BY <1>1, <1>2 DEF Accounted

LEMMA ReadNextSends == ASSUME SendInv, NEW k, ReadNext(k) PROVE SendInv'
<1>1. k \in DOMAIN submits
  BY DEF ReadNext
<1> DEFINE s == submits[k]
           next == Min(s.todo)
<1>2. PICK read \in ReadOutcomes(s.message, Taken(s.message.text, next)) :
        \/ s.todo = {next} /\ Deliver(read) /\ submits' = RemoveAt(submits, k)
        \/ /\ s.todo # {next} /\ UNCHANGED sent
           /\ submits' = [submits EXCEPT ![k] = [message |-> read, todo |-> s.todo \ {next}]]
  BY DEF ReadNext
<1>3. /\ IsList(submits) /\ IsMessage(s.message) /\ IsList(s.message.text)
      /\ s.todo # {} /\ s.todo \subseteq DOMAIN s.message.text
      /\ Accounted(s.message, s.todo)
  BY <1>1 DEF SendInv
<1>4. next \in s.todo
  <2>1. s.todo \subseteq Nat
    BY <1>3, ListOf
  <2>2. QED BY <1>3, <2>1, LeastPlace
<1>5. IsMessage(read) /\ read.text = s.message.text /\ Accounted(read, s.todo \ {next})
  <2> HIDE DEF next, s
  <2>1. QED BY <1>2, <1>3, ReadAccounts
<1>6. CASE s.todo = {next} /\ Deliver(read) /\ submits' = RemoveAt(submits, k)
  <2>1. s.todo \ {next} = {}
    BY <1>6
  <2>2. Accounted(read, {})
    BY <1>5, <2>1
  <2>3. IsList(sent') /\ \A n \in DOMAIN sent' : Accounted(sent'[n], {})
    BY <1>6, <2>2, DeliverSends
  <2>4. /\ IsList(RemoveAt(submits, k))
        /\ \A l \in DOMAIN RemoveAt(submits, k) :
             \E j \in DOMAIN submits : RemoveAt(submits, k)[l] = submits[j]
    BY <1>1, <1>3, OfTheRest
  <2>5. QED BY <1>6, <2>3, <2>4 DEF SendInv
<1>7. CASE /\ s.todo # {next} /\ UNCHANGED sent
           /\ submits' = [submits EXCEPT ![k] = [message |-> read, todo |-> s.todo \ {next}]]
  <2> DEFINE new == [message |-> read, todo |-> s.todo \ {next}]
  <2>1. /\ new.message = read /\ new.todo = s.todo \ {next} /\ new.todo # {}
    BY <1>4, <1>7
  <2> HIDE DEF new
  <2>2. submits' = [submits EXCEPT ![k] = new]
    BY <1>7 DEF new
  <2>3. IsList(submits')
    <3>1. PICK S : submits \in Seq(S)
      BY <1>3 DEF IsList
    <3>2. submits \in Seq(S \cup {new})
      BY <3>1, Wider
    <3>4. Len(submits) \in Nat /\ submits \in [1..Len(submits) -> S \cup {new}]
      BY <3>2, LenProperties
    <3>5. submits' \in [1..Len(submits) -> S \cup {new}]
      BY <2>2, <3>4
    <3>6. submits' \in Seq(S \cup {new})
      BY <3>4, <3>5, SeqDef
    <3>7. QED BY <3>6 DEF IsList
  <2>4. ASSUME NEW j \in DOMAIN submits'
        PROVE  /\ IsMessage(submits'[j].message) /\ IsList(submits'[j].message.text)
               /\ submits'[j].todo # {} /\ submits'[j].todo \subseteq DOMAIN submits'[j].message.text
               /\ Accounted(submits'[j].message, submits'[j].todo)
    <3>1. j \in DOMAIN submits /\ submits'[j] = IF j = k THEN new ELSE submits[j]
      BY <1>1, <2>2
    <3>2. CASE j = k
      BY <1>3, <1>5, <2>1, <3>1, <3>2
    <3>3. CASE j # k
      BY <3>1, <3>3 DEF SendInv
    <3>4. QED BY <3>2, <3>3
  <2>5. QED BY <1>7, <2>3, <2>4 DEF SendInv
<1>8. QED BY <1>2, <1>6, <1>7

LEMMA SendStep == ASSUME TextInv, SendInv, BoxNext PROVE SendInv'
<1>1. CASE UNCHANGED <<sent, submits>>
  BY <1>1 DEF SendInv
<1>2. ASSUME NEW key, Submit(key) PROVE SendInv'
  BY <1>2, SubmitSends
<1>3. ASSUME NEW k \in DOMAIN submits, ReadNext(k) PROVE SendInv'
  BY <1>3, ReadNextSends
<1>4. QED
  BY <1>1, <1>2, <1>3
  DEF BoxNext, Type, MoveCaret, Backspace, ArrowDown, ArrowUp, Arrow, Escape, Accept, Insert,
      Fires, SearchAnswered, Busy, Ready, sendVars

LEMMA SendInit == ASSUME BoxInit PROVE SendInv
<1>1. sent = <<>> /\ submits = <<>>
  BY DEF BoxInit
<1>2. IsList(<<>>) /\ DOMAIN <<>> = {}
  <2>1. <<>> \in Seq({})
    OBVIOUS
  <2>2. QED BY <2>1 DEF IsList
<1>3. QED BY <1>1, <1>2 DEF SendInv

\* A message carries every file its text mentions, but for those that could not be
\* read, whatever the person does while they are read; a path with a character that
\* the pattern does not take, or one that runs on into the text, is not mentioned to
\* it (handleSubmit).
THEOREM MessagesAreComplete == BoxSpec => []MentionsDelivered
<1>1. BoxInit => SendInv
  BY SendInit
<1>2. TextInv /\ SendInv /\ [BoxNext]_boxVars => SendInv'
  <2>1. SendInv /\ UNCHANGED boxVars => SendInv'
    BY DEF SendInv, boxVars, sendVars
  <2>2. QED BY <2>1, SendStep
<1>3. SendInv => MentionsDelivered
  <2>1. SUFFICES ASSUME SendInv, NEW n \in DOMAIN sent, NEW path \in Files,
                        NEW i \in DOMAIN sent[n].text, Plainly(sent[n].text, i, path)
                 PROVE  path \in sent[n].contents \cup sent[n].failed
    BY DEF MentionsDelivered, Plainly
  <2>2. Accounted(sent[n], {})
    BY <2>1 DEF SendInv
  <2>3. QED BY <2>1, <2>2 DEF Accounted
<1>4. QED BY <1>1, <1>2, <1>3, TextAlways, PTL DEF BoxSpec
==============================================================================
