------------------------------ MODULE ChatTurn -------------------------------
(***************************************************************************)
(* A turn of the chat: internal/server/handler/chat.go, the agent's        *)
(* streaming loop of core/agent.go, and the history a session keeps in the *)
(* database (internal/db/history.go).                                      *)
(*                                                                         *)
(* The handler of a request loads the session's history into the one agent *)
(* of the application, starts StepStream in a goroutine and writes the     *)
(* events it receives to the client; when the channel is closed, or a      *)
(* write fails, it saves the agent's history.  The user may stop a turn,   *)
(* or close the page, and at once send the next message: the two           *)
(* StepStreams then run on the same agent.  What a tool does is left out,  *)
(* except that StartServer leaves a process whose output goes on being     *)
(* emitted to the turn that started it.                                    *)
(***************************************************************************)
EXTENDS Naturals, Sequences, FiniteSets

CONSTANTS
  MaxTurn,    \* bound: messages the user sends
  Session,    \* the chat sessions
  MaxIter,    \* iterations of a turn (40 in the code)
  MaxCalls,   \* bound: tool calls of one response
  Keep,       \* messages kept when the history is pruned (10 in the code)
  Starters,   \* bound: turns that may start a server
  MaxStop,    \* bound: turns whose client leaves
  MaxQuit     \* bound: how often the application quits

ASSUME ChatAssumption ==
  /\ {MaxTurn, MaxIter, MaxCalls, Keep, MaxStop, MaxQuit} \subseteq Nat
  /\ MaxIter > 0
  /\ Starters \subseteq 1..MaxTurn

Turn == 1..MaxTurn

\* turn 0 writes summaries; calls is the number of tool calls of the message.
Message == [turn : 0..MaxTurn, role : {"user", "assistant", "tool", "system", "blank", "torn"},
            calls : 0..MaxCalls]
Msg(t, role, n) == [turn |-> t, role |-> role, calls |-> n]

VARIABLES
  sess,       \* the session each message is sent in
  h,          \* per turn: where its handler is
  g,          \* per turn: where its StepStream is ("end": the channel is closed)
  iter,       \* per turn: iterations begun
  todo,       \* per turn: tool calls of the response without a result in the history
  running,    \* per turn: tool calls executing
  ctx,        \* per turn: its context is not cancelled
  gone,       \* turns whose client has left (Stop, or the page was closed)
  server,     \* turns that started a server that prints
  history,    \* the agent's history
  stored,     \* per session: the history column of the database
  panicked,   \* an event was sent on a closed channel: the application is down
  quits,      \* how often the application quit
  cut         \* history: what has cut the conversation so far

loopVars == <<iter, todo, running>>
appVars  == <<server, panicked, quits>>
vars == <<sess, h, g, loopVars, ctx, gone, history, stored, appVars, cut>>

Live(t) == g[t] \notin {"idle", "end"}
Over(t) == h[t] \in {"end", "lost"} /\ ~Live(t)
Up == ~panicked

Init ==
  /\ sess \in [Turn -> Session]
  /\ h = [t \in Turn |-> "idle"]
  /\ g = [t \in Turn |-> "idle"]
  /\ iter = [t \in Turn |-> 0]
  /\ todo = [t \in Turn |-> 0]
  /\ running = [t \in Turn |-> {}]
  /\ ctx = [t \in Turn |-> TRUE]
  /\ gone = {} /\ server = {}
  /\ history = <<>>
  /\ stored = [s \in Session |-> <<>>]
  /\ panicked = FALSE /\ quits = 0
  /\ cut = {}

-----------------------------------------------------------------------------
(* The client.                                                             *)

\* The page sends one message at a time: it waits for the end of the turn, or
\* stops waiting.  An overlap is a turn sent while an earlier one still runs.
Send(t) ==
  /\ Up /\ h[t] = "idle"
  /\ \A u \in 1..(t - 1) : h[u] \in {"end", "lost"} \/ u \in gone
  /\ h' = [h EXCEPT ![t] = "load"]
  /\ cut' = cut \cup IF \A u \in 1..(t - 1) : Over(u) THEN {} ELSE {"overlap"}
  /\ UNCHANGED <<sess, g, loopVars, ctx, gone, history, stored, appVars>>

\* stopGeneration, or the page is closed.
Stop(t) ==
  /\ Up /\ Cardinality(gone) < MaxStop
  /\ t \notin gone /\ h[t] \in {"load", "read", "save"}
  /\ gone' = gone \cup {t}
  /\ UNCHANGED <<sess, h, g, loopVars, ctx, history, stored, appVars, cut>>

\* The HTTP server notices, and cancels the request's context.
Notice(t) ==
  /\ Up /\ t \in gone /\ ctx[t]
  /\ ctx' = [ctx EXCEPT ![t] = FALSE]
  /\ UNCHANGED <<sess, h, g, loopVars, gone, history, stored, appVars, cut>>

-----------------------------------------------------------------------------
(* The handler.                                                            *)

\* A session with a saved history replaces the agent's; a session without one
\* leaves the agent's history as it is.
Restored_Never(s) == history
Restored(s) == IF stored[s] # <<>> THEN stored[s] ELSE history

Load(t) ==
  /\ Up /\ h[t] = "load"
  /\ history' = Restored(sess[t])
  /\ h' = [h EXCEPT ![t] = "read"]
  /\ g' = [g EXCEPT ![t] = "user"]
  /\ UNCHANGED <<sess, loopVars, ctx, gone, stored, appVars, cut>>

\* The range over the events ends when the channel is closed.
Drain(t) ==
  /\ Up /\ h[t] = "read" /\ g[t] = "end"
  /\ h' = [h EXCEPT ![t] = "save"]
  /\ UNCHANGED <<sess, g, loopVars, ctx, gone, history, stored, appVars, cut>>

\* MarshalHistory writes every message but a system one, whose entry stays empty.
Marshal_NoTools(s) == SelectSeq(s, LAMBDA m : m.role # "tool")
Marshal(s) == [i \in 1..Len(s) |->
  IF s[i].role = "system" THEN Msg(0, "blank", 0) ELSE s[i]]

\* saveSessionData, and the deferred cancel.  It is early when a failed write
\* made the handler leave its loop while StepStream still runs.
Save(t) ==
  /\ Up /\ h[t] = "save"
  /\ stored' = IF history = <<>> THEN stored
               ELSE [stored EXCEPT ![sess[t]] = Marshal(history)]
  /\ h' = [h EXCEPT ![t] = "end"]
  /\ ctx' = [ctx EXCEPT ![t] = FALSE]
  /\ cut' = cut \cup IF Live(t) THEN {"early"} ELSE {}
  /\ UNCHANGED <<sess, g, loopVars, gone, history, appVars>>

-----------------------------------------------------------------------------
(* emit: the event is received by the handler, which writes it; or the     *)
(* context is done.  A write to a client that left may fail, and then the  *)
(* handler cancels the context and leaves its loop.                        *)

Delivered(t) ==
  /\ h[t] = "read"
  /\ \/ UNCHANGED <<h, ctx>>
     \/ /\ t \in gone
        /\ h' = [h EXCEPT ![t] = "save"]
        /\ ctx' = [ctx EXCEPT ![t] = FALSE]

Refused_Never(t) == FALSE /\ UNCHANGED <<h, ctx>>     \* a send without the select
Refused(t) == ~ctx[t] /\ UNCHANGED <<h, ctx>>

Goto(t, label) == g' = [g EXCEPT ![t] = label]
At(t, label)   == Up /\ g[t] = label

-----------------------------------------------------------------------------
(* StepStream.                                                             *)

\* append is not atomic: beside another StepStream a message may be lost or may
\* replace another.  What the history is from then on is not followed.
Torn == <<Msg(0, "torn", 0)>>

Add(m) ==
  history' = IF history = Torn \/ \E u \in Turn \ {m.turn} : Live(u)
             THEN Torn ELSE Append(history, m)

AddUser(t) ==
  /\ At(t, "user")
  /\ Add(Msg(t, "user", 0))
  /\ Goto(t, "prune")
  /\ UNCHANGED <<sess, h, loopVars, ctx, gone, stored, appVars, cut>>

\* maybePruneContext, for a history that may be too large in bytes.
Pruned == <<Msg(0, "system", 0)>> \o SubSeq(history, Len(history) - Keep + 1, Len(history))

OutOfIterations_OneMore(t) == iter[t] > MaxIter
OutOfIterations(t) == iter[t] = MaxIter

Prune(t) ==
  /\ At(t, "prune") /\ ~OutOfIterations(t)
  /\ \/ UNCHANGED <<history, cut>>
     \/ /\ Len(history) > Keep + 1
        /\ history' = Pruned
        /\ cut' = cut \cup {"pruned"}
  /\ iter' = [iter EXCEPT ![t] = @ + 1]
  /\ Goto(t, "iterate")
  /\ UNCHANGED <<sess, h, todo, running, ctx, gone, stored, appVars>>

GiveUp(t) ==
  /\ At(t, "prune") /\ OutOfIterations(t)
  /\ Goto(t, "last")
  /\ UNCHANGED <<sess, h, loopVars, ctx, gone, history, stored, appVars, cut>>

Iterate(t) ==
  /\ At(t, "iterate")
  /\ \/ Delivered(t) /\ Goto(t, "chat")
     \/ Refused(t) /\ Goto(t, "close")
  /\ UNCHANGED <<sess, loopVars, gone, history, stored, appVars, cut>>

\* The model is called with the history: an error, or a response with n calls.
Chat(t) ==
  /\ At(t, "chat")
  /\ \/ Goto(t, "last") /\ UNCHANGED todo
     \/ \E n \in 0..MaxCalls :
          /\ todo' = [todo EXCEPT ![t] = n]
          /\ Goto(t, "stream")
  /\ UNCHANGED <<sess, h, iter, running, ctx, gone, history, stored, appVars, cut>>

\* The response's events; one stands for all of them.  An empty response has
\* none, and a stream may end in an error.
Stream(t) ==
  /\ At(t, "stream")
  /\ \/ Delivered(t) /\ Goto(t, "append")
     \/ todo[t] = 0 /\ Goto(t, "append") /\ UNCHANGED <<h, ctx>>
     \/ Goto(t, "last") /\ UNCHANGED <<h, ctx>>
     \/ Refused(t) /\ Goto(t, "close")
  /\ UNCHANGED <<sess, loopVars, gone, history, stored, appVars, cut>>

\* The response enters the history, and execToolCalls starts its calls.
AppendResponse(t) ==
  /\ At(t, "append")
  /\ Add(Msg(t, "assistant", todo[t]))
  /\ running' = [running EXCEPT ![t] = 1..todo[t]]
  /\ IF todo[t] = 0 THEN Goto(t, "last") ELSE Goto(t, "tools")
  /\ UNCHANGED <<sess, h, iter, todo, ctx, gone, stored, appVars, cut>>

\* A tool is a goroutine; one of them may start a server.
ToolStartsServer(t) ==
  /\ Up /\ running[t] # {} /\ t \in Starters \ server
  /\ server' = server \cup {t}
  /\ UNCHANGED <<sess, h, g, loopVars, ctx, gone, history, stored, panicked, quits, cut>>

ToolEnds(t, i) ==
  /\ Up /\ i \in running[t]
  /\ running' = [running EXCEPT ![t] = @ \ {i}]
  /\ UNCHANGED <<sess, h, g, iter, todo, ctx, gone, history, stored, appVars, cut>>

\* wg.Wait, which no context cuts short.
Joined_OrCancelled(t) == running[t] = {} \/ ~ctx[t]
Joined(t) == running[t] = {}

Join(t) ==
  /\ At(t, "tools") /\ Joined(t)
  /\ Goto(t, "result")
  /\ UNCHANGED <<sess, h, loopVars, ctx, gone, history, stored, appVars, cut>>

\* Each result enters the history before its event is emitted.  A turn that is
\* stopped here leaves the calls that follow unanswered.
AddResult(t) ==
  /\ At(t, "result")
  /\ Add(Msg(t, "tool", 0))
  /\ todo' = [todo EXCEPT ![t] = @ - 1]
  /\ Goto(t, "emit")
  /\ UNCHANGED <<sess, h, iter, running, ctx, gone, stored, appVars, cut>>

EmitResult(t) ==
  /\ At(t, "emit")
  /\ \/ /\ Delivered(t)
        /\ Goto(t, IF todo[t] = 0 THEN "prune" ELSE "result")
        /\ UNCHANGED cut
     \/ /\ Refused(t)
        /\ Goto(t, "close")
        /\ cut' = cut \cup IF todo[t] = 0 THEN {} ELSE {"unanswered"}
  /\ UNCHANGED <<sess, loopVars, gone, history, stored, appVars>>

\* The last event is a done or an error; then the channel is closed.
EmitLast(t) ==
  /\ At(t, "last")
  /\ Delivered(t) \/ Refused(t)
  /\ Goto(t, "close")
  /\ UNCHANGED <<sess, loopVars, gone, history, stored, appVars, cut>>

Close(t) ==
  /\ At(t, "close")
  /\ Goto(t, "end")
  /\ iter' = [iter EXCEPT ![t] = 0] /\ todo' = [todo EXCEPT ![t] = 0]   \* out of scope
  /\ UNCHANGED <<sess, h, running, ctx, gone, history, stored, appVars, cut>>

-----------------------------------------------------------------------------

\* The server's output goroutine emits a line to the turn that started it.  When
\* that turn's channel is closed the send is always ready, and panics; with the
\* context done as well, select takes either.
ServerLine(t) ==
  /\ Up /\ t \in server
  /\ \/ g[t] # "end" /\ Delivered(t) /\ UNCHANGED panicked
     \/ Refused(t) /\ UNCHANGED panicked
     \/ g[t] = "end" /\ panicked' = TRUE /\ UNCHANGED <<h, ctx>>
  /\ UNCHANGED <<sess, g, loopVars, gone, server, history, stored, quits, cut>>

\* The application quits, or crashes, and is started again: of what it knew only
\* the database is left.
Quit ==
  /\ Up /\ quits < MaxQuit
  /\ quits' = quits + 1
  /\ h' = [t \in Turn |-> IF h[t] \in {"load", "read", "save"} THEN "lost" ELSE h[t]]
  /\ g' = [t \in Turn |-> IF Live(t) THEN "end" ELSE g[t]]
  /\ iter' = [t \in Turn |-> 0] /\ todo' = [t \in Turn |-> 0]
  /\ running' = [t \in Turn |-> {}]
  /\ server' = {}
  /\ history' = <<>>
  /\ UNCHANGED <<sess, ctx, gone, stored, panicked, cut>>

-----------------------------------------------------------------------------

Handler(t) == Load(t) \/ Drain(t) \/ Save(t)

StepStream(t) ==
  \/ AddUser(t) \/ Prune(t) \/ GiveUp(t) \/ Iterate(t) \/ Chat(t) \/ Stream(t)
  \/ AppendResponse(t) \/ Join(t) \/ AddResult(t) \/ EmitResult(t) \/ EmitLast(t)
  \/ Close(t)

Tools(t) == \E i \in 1..MaxCalls : ToolEnds(t, i)

Next ==
  \/ \E t \in Turn : Send(t) \/ Stop(t) \/ Notice(t) \/ Handler(t) \/ StepStream(t)
                       \/ Tools(t) \/ ToolStartsServer(t) \/ ServerLine(t)
  \/ Quit

Spec == Init /\ [][Next]_vars

\* The goroutines are scheduled, tools and the model's stream return, and the HTTP
\* server sees that a client has left.  Nothing is assumed of the user.
FairSpec ==
  /\ Spec
  /\ \A t \in Turn : /\ WF_vars(Handler(t)) /\ WF_vars(StepStream(t))
                     /\ WF_vars(Tools(t)) /\ WF_vars(Notice(t))

-----------------------------------------------------------------------------

TypeOK ==
  /\ sess \in [Turn -> Session]
  /\ h \in [Turn -> {"idle", "load", "read", "save", "end", "lost"}]
  /\ g \in [Turn -> {"idle", "user", "prune", "iterate", "chat", "stream", "append",
                     "tools", "result", "emit", "last", "close", "end"}]
  /\ iter \in [Turn -> 0..MaxIter]
  /\ todo \in [Turn -> 0..MaxCalls]
  /\ running \in [Turn -> SUBSET (1..MaxCalls)]
  /\ ctx \in [Turn -> BOOLEAN]
  /\ gone \subseteq Turn /\ server \subseteq Turn
  /\ history \in Seq(Message)
  /\ stored \in [Session -> Seq(Message)]
  /\ panicked \in BOOLEAN
  /\ quits \in 0..MaxQuit
  /\ cut \subseteq {"overlap", "pruned", "unanswered", "early"}

\* What every provider demands of a history: the tool calls of a message are
\* followed by as many results, and there is no other result.
Answered(s, i) ==
  \A j \in 1..s[i].calls : i + j <= Len(s) /\ s[i + j].role = "tool"
Asked(s, k) ==
  \E i \in 1..(k - 1) : k <= i + s[i].calls
WellFormed(s) ==
  \A i \in 1..Len(s) : Answered(s, i) /\ (s[i].role = "tool" => Asked(s, i))

\* The model is called with a well-formed history, across restored sessions,
\* restarts of the application and stopped turns, unless one of four things has
\* cut it: pruning, a stop between two results, a save while the turn still ran,
\* a turn sent while another ran.
ModelSeesWellFormed ==
  \A t \in Turn : g[t] = "chat" /\ cut = {} => WellFormed(history)

\* The messages the user sent in session s are, in the history q, those of the
\* turns T, once and in the order sent.
Own(q, s, i) == q[i].role = "user" /\ sess[q[i].turn] = s
Holds(q, s, T) ==
  /\ \A i \in 1..Len(q) : Own(q, s, i) => q[i].turn \in T
  /\ \A t \in T : \E i \in 1..Len(q) : Own(q, s, i) /\ q[i].turn = t
  /\ \A i, j \in 1..Len(q) : i < j /\ Own(q, s, i) /\ Own(q, s, j) => q[i].turn < q[j].turn
Ended(s) == {t \in Turn : sess[t] = s /\ h[t] = "end"}

\* A session keeps the message of every turn that came to its end, stopped or
\* not, once and in the order sent, across other sessions and restarts; a turn
\* lost when the application quit has left nothing.  Pruning forgets by design,
\* and turns that overlap race.
NothingForgotten ==
  cut \cap {"pruned", "overlap"} = {} => \A s \in Session : Holds(stored[s], s, Ended(s))

\* A turn's channel is closed only when the goroutines of its tool calls have returned,
\* whatever was stopped.  What a tool has started and left behind may still emit: the
\* output of a server (ServerLine), the events of a browser agent out of time.
ToolsJoined == \A t \in Turn : running[t] # {} => g[t] = "tools"

\* A turn that was sent comes to an end, handler and StepStream, whether the
\* client listens, stops it or vanishes in the middle of a write.
TurnEnds == \A t \in Turn : h[t] = "load" ~> (Over(t) \/ panicked)

\* The server a turn started goes on running, and printing, after the turn.
NoSendOnClosed == ~panicked

\* A session's history holds that session's conversation only.
SessionIsItsOwn ==
  \A s \in Session : \A i \in 1..Len(stored[s]) :
    stored[s][i].turn # 0 => sess[stored[s][i].turn] = s
===============================================================================
