---------------------------- MODULE PageSidebar ----------------------------
(***************************************************************************)
(* The sidebar of the page (components/ui/sidebar.tsx): beside the chat on *)
(* a wide window, a sheet over it on a narrow one.  Which of the two is    *)
(* decided twice, by use-mobile.ts when a media query flips and by the     *)
(* stylesheet.  Widths are in half pixels: a scaled window has such ones.  *)
(***************************************************************************)
EXTENDS Integers

CONSTANTS
  Widths,     \* bound: the widths the window takes, in half pixels
  MaxToggles  \* bound: presses and resizes

ASSUME SidebarConstants == Widths \subseteq Nat /\ MaxToggles \in Nat

VARIABLES
  width,      \* of the window
  isMobile,   \* what useIsMobile last found
  sidebarOpen, \* of the wide window's sidebar: expanded, not collapsed
  openMobile, \* of the sheet
  cookie,     \* sidebar_state: "true", "false" or NoCookie; nothing reads it
  toggles,    \* presses and resizes so far
  found       \* the width isMobile was found at (history)

sidebarVars == <<width, isMobile, sidebarOpen, openMobile, cookie, toggles, found>>

NoCookie == "none"
MOBILE_BREAKPOINT == 768

\* matchMedia compares the width itself, innerWidth is its integer part.
Query_AtBreakpoint(w) == w <= 2 * MOBILE_BREAKPOINT
Query(w) == w <= 2 * (MOBILE_BREAKPOINT - 1)
InnerWidth(w) == w \div 2
Narrow(w) == InnerWidth(w) < MOBILE_BREAKPOINT
\* The classes hidden and md:block of the sidebar beside the chat.
Hidden(w) == w < 2 * MOBILE_BREAKPOINT

\* A page load: the effect of useIsMobile looks at the width.
Load(w) ==
  /\ width = w /\ isMobile = Narrow(w) /\ found = w
  /\ sidebarOpen = TRUE /\ openMobile = FALSE

SidebarInit == (\E w \in Widths : Load(w)) /\ cookie = NoCookie /\ toggles = 0

ReloadSidebar ==
  /\ toggles < MaxToggles /\ toggles' = toggles + 1
  /\ isMobile' = Narrow(width) /\ found' = width
  /\ sidebarOpen' = TRUE /\ openMobile' = FALSE
  /\ UNCHANGED <<width, cookie>>

\* onChange runs when the query's answer changes.
Resize(w) ==
  /\ toggles < MaxToggles /\ toggles' = toggles + 1
  /\ w # width /\ width' = w
  /\ IF Query(w) # Query(width)
     THEN isMobile' = Narrow(w) /\ found' = w
     ELSE UNCHANGED <<isMobile, found>>
  /\ UNCHANGED <<sidebarOpen, openMobile, cookie>>

SetOpen(value) ==
  /\ sidebarOpen' = value /\ cookie' = IF value THEN "true" ELSE "false"

Toggle ==
  /\ toggles < MaxToggles /\ toggles' = toggles + 1
  /\ IF isMobile
     THEN openMobile' = ~openMobile /\ UNCHANGED <<sidebarOpen, cookie>>
     ELSE SetOpen(~sidebarOpen) /\ UNCHANGED openMobile
  /\ UNCHANGED <<width, isMobile, found>>

\* Ctrl+B anywhere.
Shortcut == Toggle

\* The button in the header, which the sheet covers.
SidebarTrigger == ~(isMobile /\ openMobile) /\ Toggle

\* Escape, or a click beside the sheet.
DismissSheet ==
  /\ isMobile /\ openMobile /\ openMobile' = FALSE
  /\ UNCHANGED <<width, isMobile, sidebarOpen, cookie, toggles, found>>

SidebarNext ==
  \/ ReloadSidebar \/ Shortcut \/ SidebarTrigger \/ DismissSheet \/ \E w \in Widths : Resize(w)

SidebarSpec == SidebarInit /\ [][SidebarNext]_sidebarVars

-----------------------------------------------------------------------------
Drawn == IF isMobile THEN IF openMobile THEN "sheet" ELSE "nothing"
         ELSE IF Hidden(width) THEN "nothing" ELSE IF sidebarOpen THEN "full" ELSE "icons"

\* Between the last narrow pixel and the first wide one.
Between(w) == ~Query(w) /\ Narrow(w)

\* When no sidebar is drawn a press brings it up, and a wide window has it
\* beside the chat, whatever resizes and presses came before; unless the
\* window has a width between 767 and 768 pixels, or had it when the page last
\* looked (use-mobile.ts asks two questions that differ there).
SidebarReachable ==
  /\ (Drawn = "nothing" /\ ~Between(width)) => isMobile
  /\ (isMobile /\ ~Hidden(width)) => Between(found)
=============================================================================
