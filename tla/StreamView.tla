----------------------------- MODULE StreamView -----------------------------
(***************************************************************************)
(* The page reads the event stream of a turn (use-chat-state.ts) and shows *)
(* messages, tool cards, the sub-agent's transcript, the browser badge and *)
(* the topology.  React applies the updaters of several events at once, so *)
(* an updater that reads the variable assistantMsg may read a later value. *)
(* The order of the events is that of core/agent.go.                       *)
(***************************************************************************)
EXTENDS Integers, Sequences, FiniteSets, SequencesExt

CONSTANTS
  Calls,     \* the tool calls of the conversation
  Kind,      \* Kind[c] is the tool: "start", "stop", "test" or "other"
  MaxRounds, \* bound: iterations of the agent in a turn
  MaxTurns,  \* bound: messages the person sends
  MaxSteps   \* bound: iterations of a turn and tool calls, together

ASSUME StreamConstants ==
  /\ Kind \in [Calls -> {"start", "stop", "test", "other"}]
  /\ MaxRounds \in Nat \ {0} /\ MaxTurns \in Nat \ {0} /\ MaxSteps \in Nat

VARIABLES
  phase,     \* where the agent's loop is, as the events tell
  round,     \* iterations of this turn
  turn,      \* turns sent
  call,      \* the agent's view of each call
  sub,       \* the browser agent of each TestWebsite call
  story,     \* what the events of all turns amount to (history)
  current,   \* assistantMsg of the closure: a message or NoMessage
  begun,     \* messageCounter
  updates,   \* setMessages updaters React has not applied yet
  dirty,     \* some state update waits for a render
  view,      \* the rendered messages
  badge,     \* browserState.active
  nodes,     \* status of each topology node
  edges,     \* the active edges
  excuses    \* batches and late events a property excepts (history)

agentVars == <<phase, round, turn, call, sub, story>>
pageVars == <<current, begun, updates, dirty, view>>
canvasVars == <<badge, nodes, edges>>
streamVars == <<agentVars, pageVars, canvasVars, excuses>>

NoMessage == [id |-> 0]
Links == {"e-main-browser", "e-browser-server"}
Over == {"none", "over", "failed", "unheard"}
Steps == round + Cardinality({c \in Calls : call[c] # "none"})
BetweenTurns == phase \in {"off", "stopped"}
Blank == [status |-> "none", transcript |-> "none"]
\* The text of a message is "", "thought", "said" or a "note" of the page.
NewMessage(n, role, text) ==
  [id |-> n, role |-> role, text |-> text,
   cards |-> [c \in Calls |-> Blank]]

StreamInit ==
  /\ phase = "off" /\ round = 0 /\ turn = 0 /\ story = <<>>
  /\ call = [c \in Calls |-> "none"] /\ sub = [c \in Calls |-> "none"]
  /\ current = NoMessage /\ begun = 0 /\ updates = <<>> /\ dirty = FALSE
  /\ view = <<>> /\ badge = FALSE /\ edges = {} /\ excuses = {}
  /\ nodes = [main |-> "idle", browser |-> "idle", server |-> "idle"]

-----------------------------------------------------------------------------
(* What one updater does to the messages, and a render to all of them.      *)

Push(m) == [op |-> "push", msg |-> m]
PushCurrent == [op |-> "pushCurrent", msg |-> NoMessage]
Put(m) == [op |-> "put", msg |-> m]

Merge_Append(list, m) == Append(list, m)
Merge_KnownOnly(list, m) ==
  [i \in DOMAIN list |-> IF list[i].id = m.id THEN m ELSE list[i]]
Merge(list, m) ==
  IF \E i \in DOMAIN list : list[i].id = m.id
  THEN LET i == CHOOSE i \in DOMAIN list :
                  /\ list[i].id = m.id
                  /\ \A j \in 1..(i - 1) : list[j].id # m.id
       IN [list EXCEPT ![i] = m]
  ELSE Append(list, m)

\* The updater of ensureAssistant reads assistantMsg when it runs.
Apply(list, u) ==
  CASE u.op = "push" -> Append(list, u.msg)
    [] u.op = "pushCurrent" -> Append(list, current)
    [] u.op = "put" -> Merge(list, u.msg)

Render ==
  /\ dirty
  /\ LET list[n \in 0 .. Len(updates)] ==
           IF n = 0 THEN view ELSE Apply(list[n - 1], updates[n])
     IN view' = list[Len(updates)]
  /\ updates' = <<>> /\ dirty' = FALSE
  /\ excuses' = excuses \ {"begunInBatch"}
  /\ UNCHANGED <<agentVars, current, begun, canvasVars>>

\* The list the person sees: chat-interface drops what is not a message.
Shown ==
  LET list[n \in 0 .. Len(view)] ==
        IF n = 0 THEN <<>>
        ELSE IF view[n] = NoMessage THEN list[n - 1] ELSE Append(list[n - 1], view[n])
  IN list[Len(view)]

-----------------------------------------------------------------------------
(* Writing to the assistant message.                                        *)

\* Two puts of one message in a row amount to the second.
Enqueue(us, u) ==
  IF us # <<>> /\ u.op = "put" /\ Last(us).op = "put" /\ Last(us).msg.id = u.msg.id
  THEN Append(Front(us), u) ELSE Append(us, u)

\* The message ensureAssistant returns: a new one when there is none.
Assistant == IF current = NoMessage THEN NewMessage(begun + 1, "assistant", "") ELSE current

\* ensureAssistant then updateAssist, which makes of the message m; for a new one
\* React runs the first updater at once only when nothing is pending.
Write(m) ==
  LET fresh == current = NoMessage
  IN /\ current' = m
     /\ begun' = IF fresh THEN begun + 1 ELSE begun
     /\ \E eager \in {FALSE, ~dirty} :
          updates' = Enqueue(IF ~fresh THEN updates
                             ELSE Append(updates, IF eager THEN Push(Assistant)
                                                  ELSE PushCurrent),
                             Put(m))
     /\ excuses' = IF ~fresh THEN excuses
                   ELSE IF "begunInBatch" \in excuses THEN excuses \cup {"crowded"}
                   ELSE excuses \cup {"begunInBatch"}
     /\ story' = IF fresh THEN Append(story, m) ELSE [story EXCEPT ![Len(story)] = m]
     /\ dirty' = TRUE /\ UNCHANGED view

\* updateAssist alone does nothing when there is no assistant message.
Update(m) ==
  IF current = NoMessage THEN UNCHANGED <<story, current, begun, updates, view>>
  ELSE /\ current' = m
       /\ updates' = Enqueue(updates, Put(m))
       /\ story' = [story EXCEPT ![Len(story)] = m]
       /\ UNCHANGED <<begun, view>>

SetNode(n, status) == nodes' = [nodes EXCEPT ![n] = status]

-----------------------------------------------------------------------------
(* The events of the main agent.                                            *)

\* sendMessage: the person's message, a working topology, a new stream.
SendMessage ==
  /\ BetweenTurns /\ turn < MaxTurns
  /\ turn' = turn + 1 /\ phase' = "starting" /\ round' = 0
  /\ begun' = begun + 1 /\ current' = NoMessage /\ dirty' = TRUE
  /\ LET m == NewMessage(begun + 1, "user", "said")
     IN updates' = Append(updates, Push(m)) /\ story' = Append(story, m)
  /\ SetNode("main", "running") /\ edges' = Links
  /\ UNCHANGED <<call, sub, view, badge, excuses>>

Iteration ==
  /\ phase \in {"starting", "resulted"} /\ round < MaxRounds /\ Steps < MaxSteps
  /\ phase' = "asking" /\ round' = round + 1
  /\ current' = NoMessage /\ SetNode("main", "analyzing") /\ dirty' = TRUE
  /\ UNCHANGED <<turn, call, sub, story, begun, updates, view, badge, edges, excuses>>

Think ==
  /\ phase = "asking"
  /\ Write([Assistant EXCEPT !.text = IF @ = "" THEN "thought" ELSE @])
  /\ SetNode("main", "analyzing")
  /\ UNCHANGED <<phase, round, turn, call, sub, badge, edges>>

Token ==
  /\ phase = "asking"
  /\ Write([Assistant EXCEPT !.text = "said"])
  /\ UNCHANGED <<phase, round, turn, call, sub, canvasVars>>

ToolCall(c) ==
  /\ phase = "asking" /\ call[c] = "none" /\ Steps < MaxSteps
  /\ call' = [call EXCEPT ![c] = "asked"]
  /\ Write([Assistant EXCEPT !.cards[c] = [Blank EXCEPT !.status = "running"]])
  /\ nodes' = CASE Kind[c] = "start" -> [nodes EXCEPT !.server = "running"]
                [] Kind[c] = "stop" -> [nodes EXCEPT !.server = "idle"]
                [] Kind[c] = "test" -> [nodes EXCEPT !.main = "running",
                                                     !.browser = "connected"]
                [] OTHER -> nodes
  /\ edges' = edges \cup (IF Kind[c] = "test" THEN {"e-main-browser"} ELSE {})
  /\ UNCHANGED <<phase, round, turn, sub, badge>>

\* execToolCalls: every asked call starts, a TestWebsite with its own agent.
StartTools ==
  /\ phase = "asking" /\ \E c \in Calls : call[c] = "asked"
  /\ phase' = "running"
  /\ call' = [c \in Calls |-> IF call[c] = "asked" THEN "working" ELSE call[c]]
  /\ \E launched \in SUBSET {c \in Calls : call[c] = "asked" /\ Kind[c] = "test"} :
       sub' = [c \in Calls |-> IF c \in launched THEN "starting" ELSE sub[c]]
  /\ UNCHANGED <<round, turn, story, pageVars, canvasVars, excuses>>

\* Every tool has returned; a test whose agent still works ran out of time.
ToolsReturn ==
  /\ phase = "running" /\ phase' = "returned"
  /\ UNCHANGED <<round, turn, call, sub, story, pageVars, canvasVars, excuses>>

ToolResult(c) ==
  /\ phase = "returned" /\ call[c] = "working"
  /\ call' = [call EXCEPT ![c] = "resulted"]
  /\ \E outcome \in {"completed", "error"} :
       /\ Update([current EXCEPT !.cards[c] = [Blank EXCEPT !.status = outcome]])
       /\ nodes' = CASE outcome = "completed" /\ Kind[c] = "start" ->
                          [nodes EXCEPT !.server = "done"]
                     [] outcome = "completed" /\ Kind[c] = "stop" ->
                          [nodes EXCEPT !.server = "idle"]
                     [] OTHER -> nodes
       /\ edges' = IF outcome = "completed" /\ Kind[c] = "test"
                   THEN edges \ {"e-main-browser"} ELSE edges
  /\ phase' = IF \E d \in Calls \ {c} : call[d] = "working" THEN phase ELSE "resulted"
  /\ dirty' = TRUE
  /\ UNCHANGED <<round, turn, sub, badge, excuses>>

\* The note a message gets when the turn ends and it has no text of its own.
Note(m) == IF m.text # "said" THEN [m EXCEPT !.text = "note"] ELSE m
NoteSilent(m) == IF m.text = "" THEN [m EXCEPT !.text = "note"] ELSE m

\* The model fails while it answers, or the last iteration was used up.
AgentError_KeepsEdges ==
  /\ phase = "asking" /\ phase' = "closing" /\ Write(Note(Assistant))
  /\ SetNode("main", "error")
  /\ UNCHANGED <<round, turn, call, sub, badge, edges>>
AgentError ==
  /\ phase = "asking" \/ (phase = "resulted" /\ round = MaxRounds)
  /\ phase' = "closing"
  /\ Write(Note(Assistant))
  /\ SetNode("main", "error") /\ edges' = {}
  /\ call' = [c \in Calls |-> IF call[c] = "asked" THEN "cut" ELSE call[c]]
  /\ UNCHANGED <<round, turn, sub, badge>>

AgentDone ==
  /\ phase = "asking" /\ \A c \in Calls : call[c] # "asked"
  /\ phase' = "closing"
  /\ Write(NoteSilent(Assistant))
  /\ SetNode("main", "done") /\ edges' = {}
  /\ UNCHANGED <<round, turn, call, sub, badge>>

\* The reader is done.  What the agent still runs is heard of no more.
Forget == sub' = [c \in Calls |-> IF sub[c] \in Over THEN sub[c] ELSE "unheard"]

StreamEnds ==
  /\ phase = "closing" /\ phase' = "off" /\ Forget
  /\ UNCHANGED <<round, turn, call, story, pageVars, canvasVars, excuses>>

\* stopGeneration, or a connection that breaks: the stream is left as it is;
\* the second case adds a message that says so.
Abandon ==
  /\ ~BetweenTurns /\ phase # "closing" /\ phase' = "stopped" /\ Forget
  /\ call' = [c \in Calls |-> IF call[c] \in {"none", "resulted", "cut"}
                              THEN call[c] ELSE "lost"]
  /\ \/ UNCHANGED <<story, pageVars>>
     \/ LET m == NewMessage(begun + 1, "assistant", "note")
        IN /\ updates' = Append(updates, Push(m)) /\ story' = Append(story, m)
           /\ begun' = begun + 1 /\ dirty' = TRUE /\ UNCHANGED <<current, view>>
  /\ UNCHANGED <<round, turn, canvasVars, excuses>>

-----------------------------------------------------------------------------
(* The events of a browser agent, wrapped as subagent-event.                *)

\* updateAssistTranscript: the card's transcript, an empty one if it has none.
Card(c) == current.cards[c]
Transcribe(c, card) ==
  Update(IF Card(c).status = "none" THEN current ELSE [current EXCEPT !.cards[c] = card])

Live_Restarts(card) == [card EXCEPT !.transcript = "active", !.status = "running"]
Live(card) == [card EXCEPT !.transcript = IF @ = "none" THEN "active" ELSE @]
Ended_Working(card) == Live(card)
Ended(card) == [card EXCEPT !.transcript = "done"]

\* An event of the browser agent of call c, which moves on to state to.
SubEvent(c, from, to, card, lit) ==
  /\ ~BetweenTurns /\ sub[c] \in from
  /\ sub' = [sub EXCEPT ![c] = to]
  /\ badge' = CASE lit = "on" -> TRUE [] lit = "off" -> FALSE [] OTHER -> badge
  /\ Transcribe(c, card)
  /\ dirty' = (dirty \/ current # NoMessage \/ lit # "same")
  /\ excuses' = excuses \cup IF call[c] = "resulted" /\ to \notin Over
                             THEN {"lateEvent"} ELSE {}
  /\ UNCHANGED <<phase, round, turn, call, nodes, edges>>

BrowserAsks(c) == SubEvent(c, {"starting"}, "starting", Live(Card(c)), "same")
BrowserFails(c) == SubEvent(c, {"starting"}, "over", Ended(Card(c)), "off")
BrowserOpens(c) == SubEvent(c, {"starting"}, "open", Live(Card(c)), "on")
BrowserIterates(c) == SubEvent(c, {"open", "working"}, "working", Live(Card(c)), "on")
\* Thoughts, words, tool calls, their results, actions, pages, screenshots.
BrowserWorks(c) == SubEvent(c, {"working"}, "working", Live(Card(c)), "same")
BrowserModelFails(c) == SubEvent(c, {"working"}, "failed", Ended(Card(c)), "same")
BrowserDone_KeepsBadge(c) == SubEvent(c, {"working"}, "over", Ended(Card(c)), "same")
BrowserDone(c) == SubEvent(c, {"working"}, "over", Ended(Card(c)), "off")

BrowserEvent(c) ==
  \/ BrowserAsks(c) \/ BrowserFails(c) \/ BrowserOpens(c) \/ BrowserIterates(c)
  \/ BrowserWorks(c) \/ BrowserModelFails(c) \/ BrowserDone(c)

StreamNext ==
  \/ SendMessage \/ Iteration \/ Think \/ Token \/ StartTools \/ ToolsReturn
  \/ AgentError \/ AgentDone \/ StreamEnds \/ Abandon \/ Render
  \/ \E c \in Calls : ToolCall(c) \/ ToolResult(c) \/ BrowserEvent(c)

StreamSpec == StreamInit /\ [][StreamNext]_streamVars

-----------------------------------------------------------------------------
(* What the person sees.                                                    *)

\* The spinner of a tool card, with its badge and the text below it.
Spinning(card) == card.status = "running"
\* A topology edge with a beam along it, and a node that pulses.
Beaming(e) == e \in edges
Pulsing(n) == nodes[n] \in {"running", "analyzing"}
\* The transcript panel says "Working".
Working(card) == card.transcript = "active"

Settled == updates = <<>>
ShownCards == {p \in ToSet(Shown) \X Calls : p[1].cards[p[2]].status # "none"}

\* When everything is rendered, the messages are those the events told, in
\* their order and once each, unless one batch of updaters held the beginning
\* of two assistant messages (use-chat-state.ts ensureAssistant).
ViewIsStory == (Settled /\ "crowded" \notin excuses) => Shown = story

\* Even then nothing that was said is missing from the page.
NothingUnshown == Settled => ToSet(story) \subseteq ToSet(Shown)

\* A spinning card belongs to a call whose result is still to come, or was cut
\* off by an error of the model or by leaving the stream; and such a call spins.
SpinnersHonest ==
  (Settled /\ "crowded" \notin excuses) =>
    \A p \in ShownCards :
      Spinning(p[1].cards[p[2]]) <=> call[p[2]] # "resulted"

\* "Working" is shown only for a browser agent that works, was cut off with its
\* turn, or was heard of after its result (agent.go runBrowserTest).
TranscriptHonest ==
  (Settled /\ {"crowded", "lateEvent"} \cap excuses = {}) =>
    \A p \in ShownCards :
      Working(p[1].cards[p[2]]) => sub[p[2]] \notin {"none", "over", "failed"}

\* "Browser Agent Active" is shown below the prompt.
Lit == badge

\* The browser badge is lit while a browser agent works, unless the end of
\* another one put it out; and it stays lit without one only after a browser
\* agent whose model failed or whose turn ended before it.
BadgeHonest ==
  LET testing == {c \in Calls : sub[c] \in {"open", "working"}}
  IN /\ Lit => \/ testing # {}
               \/ \E c \in Calls : sub[c] \in {"failed", "unheard"}
     /\ (testing # {} /\ ~Lit) => \E c \in Calls : sub[c] = "over"

\* Between turns nothing moves on the canvas, unless the turn was left or
\* a server failed to start.
CanvasRests ==
  phase = "off" =>
    /\ \A e \in Links : ~Beaming(e)
    /\ ~Pulsing("main") /\ ~Pulsing("browser")
    /\ Pulsing("server") => \E c \in Calls :
         Kind[c] = "start" /\ \/ call[c] \in {"cut", "lost"}
                              \/ \E m \in ToSet(story) : m.cards[c].status = "error"
=============================================================================
