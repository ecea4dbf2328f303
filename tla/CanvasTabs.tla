----------------------------- MODULE CanvasTabs -----------------------------
(***************************************************************************)
(* The canvas (canvas-panel.tsx): its tabs, the menu that adds one, the    *)
(* layer in front, and the web pages in its website tabs                   *)
(* (canvas-website.tsx).  Every tab's layer stays mounted while another is *)
(* in front.                                                               *)
(***************************************************************************)
EXTENDS Integers, FiniteSets, SequencesExt

CONSTANTS
  Sites,      \* addresses, without their scheme
  MaxTabs,    \* bound: tabs ever made
  MaxVisits   \* bound: addresses entered and links followed

ASSUME CanvasConstants == MaxTabs \in Nat /\ MaxVisits \in Nat

VARIABLES
  canvasTabs, \* tabs, in order
  activeTab,  \* the id of the tab in front
  menuOpen,   \* the menu of the plus button
  tabCounter, \* the last id given
  visits,     \* so far
  abandoned   \* the tab in front was the leftmost when it was closed (history)

panelVars == <<canvasTabs, activeTab, menuOpen, tabCounter, visits, abandoned>>

\* What stands in an address bar: nothing, or a site with or without a scheme.
NoAddress == [site |-> "none", scheme |-> FALSE]
Addresses == {NoAddress} \cup [site : Sites, scheme : BOOLEAN]
Normalized(a) == [a EXCEPT !.scheme = TRUE]

\* A CanvasWebsite as it is first mounted; frame is what its iframe does:
\* there is none, it loads the page asked for or another, or it rests.
NewSite == [url |-> NoAddress, loadedUrl |-> NoAddress, loading |-> FALSE, showPrompt |-> TRUE,
            frame |-> "none", again |-> FALSE]

Tab(id, type) == [id |-> id, type |-> type, web |-> NewSite]
At(id) == SelectInSeq(canvasTabs, LAMBDA t : t.id = id)
OpenIds == {canvasTabs[i].id : i \in DOMAIN canvasTabs}

CanvasInit ==
  /\ canvasTabs = <<Tab(0, "topology")>> /\ activeTab = 0 /\ menuOpen = FALSE
  /\ tabCounter = 0 /\ visits = 0 /\ abandoned = FALSE

\* The mousedown outside the menu closes it before the click toggles it.
ClickPlus ==
  /\ menuOpen' = TRUE
  /\ UNCHANGED <<canvasTabs, activeTab, tabCounter, visits, abandoned>>

ClickElsewhere ==
  /\ menuOpen' = FALSE
  /\ UNCHANGED <<canvasTabs, activeTab, tabCounter, visits, abandoned>>

AddTab(type) ==
  /\ menuOpen /\ menuOpen' = FALSE
  /\ tabCounter < MaxTabs /\ tabCounter' = tabCounter + 1
  /\ canvasTabs' = Append(canvasTabs, Tab(tabCounter', type))
  /\ activeTab' = tabCounter' /\ abandoned' = FALSE
  /\ UNCHANGED visits

ClickTab(id) ==
  /\ menuOpen' = FALSE /\ activeTab' = id /\ abandoned' = FALSE
  /\ UNCHANGED <<canvasTabs, tabCounter, visits>>

WithoutTab(id) == RemoveAt(canvasTabs, At(id))

\* A topology tab takes the place of the last tab.  In front comes the left
\* neighbour among the tabs there were: for the leftmost, the closed tab itself.
CloseTab_RightNeighbour(id) ==
  /\ menuOpen' = FALSE
  /\ tabCounter' = IF Len(canvasTabs) > 1 THEN tabCounter ELSE tabCounter + 1
  /\ canvasTabs' = IF Len(canvasTabs) > 1 THEN WithoutTab(id) ELSE <<Tab(tabCounter', "topology")>>
  /\ activeTab' = IF activeTab # id THEN activeTab
                  ELSE canvasTabs[IF At(id) < Len(canvasTabs) THEN At(id) + 1 ELSE At(id)].id
  /\ abandoned' = (abandoned \/ (activeTab = id /\ At(id) = 1))
  /\ UNCHANGED visits
CloseTab(id) ==
  /\ menuOpen' = FALSE
  /\ IF Len(canvasTabs) > 1
     THEN canvasTabs' = WithoutTab(id) /\ UNCHANGED tabCounter
     ELSE /\ tabCounter < MaxTabs /\ tabCounter' = tabCounter + 1
          /\ canvasTabs' = <<Tab(tabCounter', "topology")>>
  /\ activeTab' = IF activeTab = id THEN canvasTabs[Max({1, At(id) - 1})].id ELSE activeTab
  /\ abandoned' = (abandoned \/ (activeTab = id /\ At(id) = 1))
  /\ UNCHANGED visits

-----------------------------------------------------------------------------
(* The website in front.                                                    *)

Web == canvasTabs[At(activeTab)].web
InFront == activeTab \in OpenIds /\ canvasTabs[At(activeTab)].type = "website"
SetWeb(w) ==
  /\ canvasTabs' = [canvasTabs EXCEPT ![At(activeTab)].web = w]
  /\ menuOpen' = FALSE /\ UNCHANGED <<activeTab, tabCounter, visits, abandoned>>

TypeUrl(a) == InFront /\ ~Web.showPrompt /\ SetWeb([Web EXCEPT !.url = a])

\* navigate: the frame loads when its src changes or it is new.
Navigate_KeepsSrc(a) ==
  /\ InFront /\ visits < MaxVisits /\ visits' = visits + 1
  /\ canvasTabs' = IF a = NoAddress THEN canvasTabs
       ELSE [canvasTabs EXCEPT ![At(activeTab)].web =
              [@ EXCEPT !.url = Normalized(a), !.loading = TRUE, !.showPrompt = FALSE,
                        !.frame = IF @ = "none" THEN "other" ELSE @]]
  /\ menuOpen' = FALSE /\ UNCHANGED <<activeTab, tabCounter, abandoned>>
Navigate(a) ==
  /\ InFront /\ visits < MaxVisits /\ visits' = visits + 1
  /\ LET same == Web.loadedUrl = Normalized(a)
     IN  canvasTabs' = IF a = NoAddress THEN canvasTabs
           ELSE [canvasTabs EXCEPT ![At(activeTab)].web =
                  [url |-> Normalized(a), loadedUrl |-> Normalized(a), loading |-> TRUE,
                   showPrompt |-> FALSE,
                   frame |-> IF same THEN Web.frame ELSE "asked",
                   again |-> same /\ Web.frame = "rests"]]
  /\ menuOpen' = FALSE
  /\ UNCHANGED <<activeTab, tabCounter, abandoned>>

\* Go and Enter in the prompt take what is not blank; Enter in the bar and the
\* reload button take the bar's text.
GoToPrompted(a) == InFront /\ Web.showPrompt /\ a # NoAddress /\ Navigate(a)
GoToUrl == InFront /\ ~Web.showPrompt /\ Navigate(Web.url)

\* A link in the frame is followed: the page hears of it when it has loaded.
FollowLink ==
  /\ InFront /\ Web.frame # "none" /\ visits < MaxVisits /\ visits' = visits + 1
  /\ canvasTabs' = [canvasTabs EXCEPT ![At(activeTab)].web.frame = "other"]
  /\ UNCHANGED <<activeTab, menuOpen, tabCounter, abandoned>>

\* onLoad, of a website in front or not.
OnLoad(i) ==
  /\ i \in DOMAIN canvasTabs /\ canvasTabs[i].web.frame \in {"asked", "other"}
  /\ canvasTabs' = [canvasTabs EXCEPT ![i].web =
                      [@ EXCEPT !.loading = FALSE, !.frame = "rests", !.again = FALSE]]
  /\ UNCHANGED <<activeTab, menuOpen, tabCounter, visits, abandoned>>

CanvasNext ==
  \/ ClickPlus \/ ClickElsewhere \/ GoToUrl \/ FollowLink
  \/ \E type \in {"website", "terminal"} : AddTab(type)
  \/ \E id \in OpenIds : ClickTab(id) \/ CloseTab(id)
  \/ \E a \in Addresses : TypeUrl(a) \/ GoToPrompted(a)
  \/ \E i \in 1 .. MaxTabs + 1 : OnLoad(i)

CanvasSpec == CanvasInit /\ [][CanvasNext]_panelVars

-----------------------------------------------------------------------------
\* The tabs whose layer is displayed: the topology's if the active tab is one.
Layers == {t \in ToSet(canvasTabs) : t.id = activeTab}

\* However tabs are added, chosen and closed one tab's layer is in front
\* (canvas-panel.tsx:64), and nothing only after the leftmost tab was closed while
\* in front: its left neighbour is taken from the tabs before the close.
OneLayer == Cardinality(Layers) = IF abandoned THEN 0 ELSE 1

\* The reload button of a website turns exactly while its frame loads what was
\* asked for (canvas-website.tsx:30), in front or not, except that it turns for
\* ever once it was pressed on a page that rests: the frame's src is the same.
SpinnerEnds ==
  \A t \in ToSet(canvasTabs) :
    /\ t.web.frame = "asked" => t.web.loading
    /\ t.web.loading /\ ~t.web.again => t.web.frame \in {"asked", "other"}
=============================================================================
