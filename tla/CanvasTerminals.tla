--------------------------- MODULE CanvasTerminals ---------------------------
(***************************************************************************)
(* The terminal pane (canvas-terminal.tsx) and the sessions it shows       *)
(* (tools/terminal.go, app.go).  A session buffers what its shell prints   *)
(* until someone reads the buffer, which empties it; the pane polls the    *)
(* active session every 50 ms, whether or not the last poll was answered.  *)
(* The canvas may hold other panes over the same sessions.                 *)
(***************************************************************************)
EXTENDS Integers, Sequences, FiniteSets, SequencesExt

CONSTANTS
  MaxTerms,  \* bound: sessions created
  MaxPrints, \* bound: pieces of output the shells print
  MaxPolls,  \* bound: polls in flight
  MaxMounts, \* bound: times the pane is opened, and closed between
  MaxClicks  \* bound: clicks on tabs and on their X

ASSUME TerminalConstants ==
  /\ MaxTerms \in Nat \ {0} /\ MaxPrints \in Nat /\ MaxPolls \in Nat /\ MaxMounts \in Nat
  /\ MaxClicks \in Nat

VARIABLES
  counter,   \* TerminalManager.counter
  open,      \* TerminalManager.sessions
  printed,   \* pieces each shell has printed
  buffer,    \* TerminalSession.output
  tabs,      \* the tabs of the pane
  active,    \* activeId
  poller,    \* activeId as the effects last saw it: the session polled
  polls,     \* ReadTerminal calls in flight that found output, oldest first
  creating,  \* createTerminal: NoTerminal, Asked or the answered id
  closing,   \* closeTerminal calls under way
  listing,   \* ListTerminals: its state and the answered ids
  mounts,    \* times the pane was opened; it is closed at even numbers
  clicks,    \* clicks so far
  screen,    \* what xterm shows, as pieces of sessions
  seen,      \* the pieces written to it, ever (history)
  elsewhere, \* pieces read by someone else, or for a pane that closed (history)
  lapses,    \* named races since the pane was opened or last switched (history)
  unseen,    \* sessions others made since this pane read the list (history)
  gone       \* sessions others closed since this pane was opened (history)

shellVars == <<counter, open, printed, buffer>>
paneVars == <<tabs, active, poller, polls, creating, closing, listing, mounts,
              clicks>>
historyVars == <<seen, elsewhere, lapses, unseen, gone>>
terminalVars == <<shellVars, paneVars, screen, historyVars>>

Terms == 1..MaxTerms
NoTerminal == 0
Asked == -1
NoList == [at |-> "no", ids |-> <<>>]
Mounted == mounts % 2 = 1
TabIds == {tabs[i].id : i \in DOMAIN tabs}
IsOpenTab(id) == \E i \in DOMAIN tabs : tabs[i] = [id |-> id, status |-> "active"]

\* Another tab became active while these closes were waiting for their answers.
MovedWhile(waiting) == IF waiting = {} THEN {} ELSE {"closing"}

TerminalsInit ==
  /\ counter \in 0..1 /\ open = 1..counter
  /\ printed = [t \in Terms |-> 0] /\ buffer = [t \in Terms |-> <<>>]
  /\ tabs = <<>> /\ active = NoTerminal /\ poller = NoTerminal /\ polls = <<>>
  /\ creating = NoTerminal /\ closing = {} /\ listing = NoList /\ mounts = 0
  /\ clicks = 0 /\ screen = <<>>
  /\ seen = <<>> /\ elsewhere = {} /\ lapses = {} /\ unseen = {} /\ gone = {}

-----------------------------------------------------------------------------
(* The sessions.                                                            *)

Prints(t) ==
  /\ t \in open /\ FoldFunction(+, 0, printed) < MaxPrints
  /\ printed' = [printed EXCEPT ![t] = @ + 1]
  /\ buffer' = [buffer EXCEPT ![t] = Append(@, <<t, printed[t] + 1>>)]
  /\ UNCHANGED <<counter, open, paneVars, screen, historyVars>>

\* The agent's terminal tools, or a second pane, read the same buffer.
ReadElsewhere(t) ==
  /\ t \in open /\ buffer[t] # <<>>
  /\ elsewhere' = elsewhere \cup ToSet(buffer[t])
  /\ buffer' = [buffer EXCEPT ![t] = <<>>]
  /\ UNCHANGED <<counter, open, printed, paneVars, screen, seen, lapses, unseen, gone>>

\* Another pane, or this one with a call it made before it was closed.
OtherCreates ==
  /\ counter + (IF creating = Asked THEN 1 ELSE 0) < MaxTerms
  /\ counter' = counter + 1
  /\ open' = open \cup {counter'} /\ unseen' = unseen \cup {counter'}
  /\ UNCHANGED <<printed, buffer, paneVars, screen, seen, elsewhere, lapses, gone>>

OtherCloses(t) ==
  /\ t \in open
  /\ open' = open \ {t} /\ gone' = gone \cup {t}
  /\ elsewhere' = elsewhere \cup ToSet(buffer[t])
  /\ buffer' = [buffer EXCEPT ![t] = <<>>]
  /\ UNCHANGED <<counter, printed, paneVars, screen, seen, lapses, unseen>>

-----------------------------------------------------------------------------
(* Opening and closing the pane.                                            *)

Mount ==
  /\ ~Mounted /\ mounts < MaxMounts
  /\ mounts' = mounts + 1 /\ listing' = [NoList EXCEPT !.at = "asked"]
  /\ tabs' = <<>> /\ active' = NoTerminal /\ poller' = NoTerminal /\ screen' = <<>>
  /\ creating' = NoTerminal /\ closing' = {} /\ unseen' = {} /\ gone' = {}
  /\ UNCHANGED <<shellVars, polls, clicks, seen, elsewhere, lapses>>

\* The component is gone with its state; calls of it that still run are others' now,
\* and a poll read the buffer for nobody.
Unmount ==
  /\ Mounted /\ mounts' = mounts + 1
  /\ tabs' = <<>> /\ active' = NoTerminal /\ poller' = NoTerminal /\ screen' = <<>>
  /\ polls' = <<>> /\ creating' = NoTerminal /\ closing' = {} /\ listing' = NoList
  /\ elsewhere' = elsewhere \cup UNION {ToSet(polls[i].got) : i \in DOMAIN polls}
  /\ lapses' = {}
  /\ UNCHANGED <<shellVars, clicks, seen, unseen, gone>>

\* ListTerminals: the ids in any order, all adopted as tabs.
ListRead ==
  /\ listing.at = "asked"
  /\ \E ids \in SetToSeqs(open) : listing' = [at |-> "read", ids |-> ids]
  /\ unseen' = {}
  /\ UNCHANGED <<shellVars, tabs, active, poller, polls, creating, closing, mounts,
                 clicks, screen, seen, elsewhere, lapses, gone>>

Listed ==
  /\ listing.at = "read"
  /\ LET ids == listing.ids
     IN IF ids = <<>> THEN UNCHANGED <<tabs, active, lapses>>
        ELSE /\ tabs' = [i \in DOMAIN ids |-> [id |-> ids[i], status |-> "active"]]
             /\ active' = ids[1]
             /\ lapses' = lapses
                  \cup (IF TabIds \subseteq ToSet(ids) THEN {} ELSE {"listCrossed"})
                  \cup (IF ToSet(ids) \subseteq open \cup gone THEN {} ELSE {"closing"})
                  \cup MovedWhile(closing)
  /\ listing' = NoList
  /\ UNCHANGED <<shellVars, poller, polls, creating, closing, mounts, clicks, screen,
                 seen, elsewhere, unseen, gone>>

-----------------------------------------------------------------------------
(* What the person does.                                                    *)

CreateTerminal ==
  /\ Mounted /\ creating = NoTerminal /\ counter < MaxTerms
  /\ creating' = Asked
  /\ UNCHANGED <<shellVars, tabs, active, poller, polls, closing, listing, mounts,
                 clicks, screen, historyVars>>

\* TerminalManager.Create, which may fail after it counted.
CreateRuns ==
  /\ creating = Asked
  /\ counter' = counter + 1
  /\ \/ open' = open \cup {counter'} /\ creating' = counter'
     \/ creating' = NoTerminal /\ UNCHANGED open
  /\ UNCHANGED <<printed, buffer, tabs, active, poller, polls, closing, listing, mounts,
                 clicks, screen, historyVars>>

CreateAnswered ==
  /\ creating \notin {NoTerminal, Asked}
  /\ tabs' = Append(tabs, [id |-> creating, status |-> "active"])
  /\ active' = creating /\ creating' = NoTerminal
  /\ lapses' = lapses \cup (IF creating \in TabIds THEN {"listCrossed"} ELSE {})
                       \cup MovedWhile(closing)
  /\ UNCHANGED <<shellVars, poller, polls, closing, listing, mounts, clicks, screen,
                 seen, elsewhere, unseen, gone>>

\* A click on a tab that is not marked closed.
Choose(t) ==
  /\ clicks < MaxClicks /\ clicks' = clicks + 1
  /\ Mounted /\ IsOpenTab(t) /\ active # t
  /\ active' = t
  /\ lapses' = lapses \cup MovedWhile(closing)
  /\ UNCHANGED <<shellVars, tabs, poller, polls, creating, closing, listing, mounts,
                 screen, seen, elsewhere, unseen, gone>>

\* The X of a tab, once or twice: closeTerminal keeps the activeId of its render.
CloseTerminal(t) ==
  /\ clicks < MaxClicks /\ clicks' = clicks + 1
  /\ Mounted /\ t \in TabIds
  /\ closing' = closing \cup {[id |-> t, activeId |-> active, click |-> clicks', done |-> FALSE]}
  /\ UNCHANGED <<shellVars, tabs, active, poller, polls, creating, listing, mounts,
                 screen, historyVars>>

\* TerminalManager.Remove: what the session had not delivered is gone.
CloseRuns(c) ==
  /\ c \in closing /\ ~c.done
  /\ closing' = (closing \ {c}) \cup {[c EXCEPT !.done = TRUE]}
  /\ open' = open \ {c.id}
  /\ elsewhere' = elsewhere \cup ToSet(buffer[c.id])
  /\ buffer' = [buffer EXCEPT ![c.id] = <<>>]
  /\ UNCHANGED <<counter, printed, tabs, active, poller, polls, creating, listing,
                 mounts, clicks, screen, seen, lapses, unseen, gone>>

StaysOpen(i, id) == tabs[i].status = "active" /\ tabs[i].id # id
Marked(id) ==
  [i \in DOMAIN tabs |-> IF tabs[i].id = id THEN [tabs[i] EXCEPT !.status = "closed"] ELSE tabs[i]]

CloseAnswered_KeepsActive(c) ==
  /\ c \in closing /\ c.done
  /\ closing' = closing \ {c}
  /\ tabs' = Marked(c.id)
  /\ UNCHANGED <<shellVars, active, poller, polls, creating, listing, mounts, clicks, screen,
                 historyVars>>
\* The tab is marked; if it was the active one, the first open tab is chosen.
CloseAnswered(c) ==
  /\ c \in closing /\ c.done
  /\ closing' = closing \ {c}
  /\ tabs' = Marked(c.id)
  /\ \/ c.activeId # c.id /\ active' = active
     \/ /\ c.activeId = c.id
        /\ \/ (\A i \in DOMAIN tabs : ~StaysOpen(i, c.id)) /\ active' = NoTerminal
           \/ \E i \in DOMAIN tabs :
                /\ StaysOpen(i, c.id) /\ \A j \in 1..i - 1 : ~StaysOpen(j, c.id)
                /\ active' = tabs[i].id
  /\ lapses' = lapses \cup MovedWhile(IF active' = active THEN {} ELSE closing')
  /\ UNCHANGED <<shellVars, poller, polls, creating, listing, mounts, clicks, screen,
                 seen, elsewhere, unseen, gone>>

-----------------------------------------------------------------------------
(* Showing output.                                                          *)

\* The effects on activeId: poll the new session, clear the screen.  xterm keeps
\* the line the cursor is on, the last piece if it did not end its line.
Switch_KeepsScreen ==
  /\ Mounted /\ poller # active /\ poller' = active
  /\ UNCHANGED <<shellVars, clicks, screen, tabs, active, polls, creating, closing, listing, mounts,
                 historyVars>>
Switch ==
  /\ Mounted /\ poller # active
  /\ poller' = active
  /\ \/ screen' = <<>>
     \/ screen # <<>> /\ screen' = <<Last(screen)>>
  /\ lapses' = lapses \ {"answeredLate"}
  /\ UNCHANGED <<shellVars, tabs, active, polls, creating, closing, listing, mounts,
                 seen, elsewhere, unseen, gone, clicks>>

Poll_LeavesOutput ==
  /\ Mounted /\ poller # NoTerminal /\ Len(polls) < MaxPolls /\ buffer[poller] # <<>>
  /\ polls' = Append(polls, [id |-> poller, got |-> buffer[poller]])
  /\ UNCHANGED <<shellVars, tabs, active, poller, creating, closing, listing, mounts,
                 clicks, screen, historyVars>>
\* ReadTerminal takes all there is.  A poll that finds nothing shows nothing.
Poll ==
  /\ Mounted /\ poller # NoTerminal /\ Len(polls) < MaxPolls /\ buffer[poller] # <<>>
  /\ polls' = Append(polls, [id |-> poller, got |-> buffer[poller]])
  /\ buffer' = [buffer EXCEPT ![poller] = <<>>]
  /\ UNCHANGED <<counter, open, printed, tabs, active, poller, creating, closing, listing,
                 mounts, clicks, screen, historyVars>>

\* The answer is written to the screen, whichever session it now shows.
PollAnswered(i) ==
  /\ i \in DOMAIN polls
  /\ screen' = screen \o polls[i].got /\ seen' = seen \o polls[i].got
  /\ polls' = RemoveAt(polls, i)
  /\ lapses' = lapses
       \cup (IF polls[i].id # poller THEN {"answeredLate"} ELSE {})
  /\ UNCHANGED <<shellVars, tabs, active, poller, creating, closing, listing, mounts,
                 elsewhere, unseen, gone, clicks>>

TerminalsNext ==
  \/ Mount \/ Unmount \/ ListRead \/ Listed
  \/ CreateTerminal \/ CreateRuns \/ CreateAnswered \/ Switch \/ Poll \/ OtherCreates
  \/ \E t \in Terms : \/ Prints(t) \/ ReadElsewhere(t) \/ OtherCloses(t)
                      \/ Choose(t) \/ CloseTerminal(t)
  \/ \E c \in closing : CloseRuns(c) \/ CloseAnswered(c)
  \/ \E i \in 1..MaxPolls : PollAnswered(i)

TerminalsSpec == TerminalsInit /\ [][TerminalsNext]_terminalVars

-----------------------------------------------------------------------------
\* The pieces by where they are: in buffers, in polls in flight, written to the screen.
Held ==
  [place \in ({"buffer"} \X Terms) \cup ({"poll"} \X DOMAIN polls) \cup {<<"screen", 0>>} |->
     IF place[1] = "buffer" THEN buffer[place[2]]
     ELSE IF place[1] = "poll" THEN polls[place[2]].got ELSE seen]

\* Every piece a shell printed is in one place, once: its buffer, one poll, or the
\* screen; or it was read by someone else or dropped with its session
\* (terminal.go ReadOutput).
OutputOnce ==
  LET held == Held
      pieces == UNION {ToSet(held[place]) : place \in DOMAIN held}
  IN /\ \A p, q \in DOMAIN held : \A i \in DOMAIN held[p], j \in DOMAIN held[q] :
          held[p][i] = held[q][j] => p = q /\ i = j
     /\ pieces \cap elsewhere = {}
     /\ pieces \cup elsewhere = UNION {{t} \X (1..printed[t]) : t \in Terms}

\* Below the line kept by the last switch the screen shows the session it polls,
\* unless a poll of another one was answered since that switch.
ScreenOfActive ==
  "answeredLate" \notin lapses =>
    \A i \in DOMAIN screen : i > 1 => screen[i][1] = poller

\* The pane and the sessions agree, whatever other panes make and close and whenever
\* this one is closed and opened again.  "If we closed the active tab, switch to
\* another": the active tab is open, unless it became the active one while a close
\* was under way; a tab drawn open has its session, unless another pane closed that
\* or its close is under way; and a session has one tab, unless another pane made it
\* after this one read the list, or the list was answered after tabs were made
\* (canvas-terminal.tsx:190, :209, :217).
TabsAreSessions ==
  Mounted /\ "listCrossed" \notin lapses =>
    /\ "closing" \notin lapses =>
         /\ active # NoTerminal => IsOpenTab(active)
         /\ \A t \in Terms : IsOpenTab(t) => t \in open \cup gone \cup {c.id : c \in closing}
    /\ listing = NoList =>
         \A t \in open \ (unseen \cup {creating}) :
           Cardinality({i \in DOMAIN tabs : tabs[i].id = t}) = 1
=============================================================================
