---------------------------- MODULE ChatTurnProofs ----------------------------
(***************************************************************************)
(* No tool outlives its turn, the types of ChatTurn, the history the model *)
(* is called with and what a session keeps, for every number of turns,     *)
(* sessions, iterations and tool calls.                                    *)
(***************************************************************************)
EXTENDS ChatTurn, SequenceTheorems, TLAPS

\* A turn that has not been loaded has no StepStream.
NotBegun == \A t \in Turn : h[t] \in {"idle", "load"} => g[t] = "idle"

Shape ==
  /\ h \in [Turn -> {"idle", "load", "read", "save", "end", "lost"}]
  /\ DOMAIN g = Turn /\ DOMAIN running = Turn

JoinInv == Shape /\ NotBegun /\ ToolsJoined

\* Initially nothing runs.
LEMMA JoinInit == Init => JoinInv
BY DEF Init, JoinInv, Shape, NotBegun, ToolsJoined

\* What a step of StepStream other than the ones that start or join tools may do:
\* it leaves a label that is not "tools" and the tools alone.
LEMMA Advances ==
  ASSUME JoinInv, NEW t \in Turn, NEW label, g[t] \notin {"tools", "idle"},
         Goto(t, label), UNCHANGED running,
         h' \in [Turn -> {"idle", "load", "read", "save", "end", "lost"}],
         \A u \in Turn : h'[u] \in {"idle", "load"} => h[u] = h'[u]
  PROVE  JoinInv'
<1>1. g' = [g EXCEPT ![t] = label]
  BY DEF Goto
<1>2. running[t] = {}
  BY DEF JoinInv, ToolsJoined
<1>3. \A u \in Turn \ {t} : g'[u] = g[u]
  BY <1>1 DEF JoinInv, Shape
<1>4. h[t] \notin {"idle", "load"}
  BY DEF JoinInv, NotBegun
<1>5. Shape'
  BY <1>1 DEF JoinInv, Shape
<1>6. NotBegun'
  BY <1>3, <1>4 DEF JoinInv, NotBegun
<1>7. ToolsJoined'
  BY <1>2, <1>3 DEF JoinInv, ToolsJoined
<1>8. QED BY <1>5, <1>6, <1>7 DEF JoinInv

\* An event that is delivered or refused moves the handler, if at all, to "save".
LEMMA Emits ==
  ASSUME JoinInv, NEW t \in Turn, Delivered(t) \/ Refused(t)
  PROVE  /\ h' \in [Turn -> {"idle", "load", "read", "save", "end", "lost"}]
         /\ \A u \in Turn : h'[u] \in {"idle", "load"} => h[u] = h'[u]
<1>1. h' = h \/ h' = [h EXCEPT ![t] = "save"]
  BY DEF Delivered, Refused
<1>2. QED BY <1>1 DEF JoinInv, Shape

\* The client's and the handler's steps.
LEMMA HandlerJoin ==
  ASSUME JoinInv, NEW t \in Turn, Send(t) \/ Stop(t) \/ Notice(t) \/ Handler(t)
  PROVE  JoinInv'
<1>1. CASE Send(t)
  BY <1>1 DEF Send, JoinInv, Shape, NotBegun, ToolsJoined, loopVars
<1>2. CASE Stop(t) \/ Notice(t)
  BY <1>2 DEF Stop, Notice, JoinInv, Shape, NotBegun, ToolsJoined, loopVars
<1>3. CASE Load(t)
  <2>1. /\ h' = [h EXCEPT ![t] = "read"] /\ g' = [g EXCEPT ![t] = "user"]
        /\ running' = running /\ h[t] = "load"
    BY <1>3 DEF Load, loopVars
  <2>2. running[t] = {}
    BY <2>1 DEF JoinInv, NotBegun, ToolsJoined
  <2>3. QED BY <2>1, <2>2 DEF JoinInv, Shape, NotBegun, ToolsJoined
<1>4. CASE Drain(t) \/ Save(t)
  BY <1>4 DEF Drain, Save, JoinInv, Shape, NotBegun, ToolsJoined, loopVars
<1>5. QED BY <1>1, <1>2, <1>3, <1>4 DEF Handler

\* The steps of StepStream.
LEMMA StepStreamJoin ==
  ASSUME JoinInv, NEW t \in Turn, StepStream(t)
  PROVE  JoinInv'
<1>0. /\ h' = h => /\ h' \in [Turn -> {"idle", "load", "read", "save", "end", "lost"}]
                   /\ \A u \in Turn : h'[u] \in {"idle", "load"} => h[u] = h'[u]
  BY DEF JoinInv, Shape
<1>1. CASE AddUser(t) \/ GiveUp(t) \/ Prune(t) \/ AddResult(t)
  <2>1. PICK label : Goto(t, label)
    BY <1>1 DEF AddUser, GiveUp, Prune, AddResult
  <2>2. g[t] \notin {"tools", "idle"} /\ UNCHANGED <<h, running>>
    BY <1>1 DEF AddUser, GiveUp, Prune, AddResult, At, loopVars
  <2>3. QED BY <2>1, <2>2, <1>0, Advances
<1>2. CASE Chat(t) \/ Close(t)
  <2>1. PICK label : Goto(t, label)
    BY <1>2 DEF Chat, Close
  <2>2. g[t] \notin {"tools", "idle"} /\ UNCHANGED <<h, running>>
    BY <1>2 DEF Chat, Close, At
  <2>3. QED BY <2>1, <2>2, <1>0, Advances
<1>3. CASE Iterate(t) \/ EmitResult(t) \/ EmitLast(t)
  <2>1. PICK label : Goto(t, label)
    BY <1>3 DEF Iterate, EmitResult, EmitLast
  <2>2. g[t] \notin {"tools", "idle"} /\ UNCHANGED running
    BY <1>3 DEF Iterate, EmitResult, EmitLast, At, loopVars
  <2>3. Delivered(t) \/ Refused(t)
    BY <1>3 DEF Iterate, EmitResult, EmitLast
  <2>4. QED BY <2>1, <2>2, <2>3, Emits, Advances
<1>4. CASE Stream(t)
  <2>1. PICK label : Goto(t, label)
    BY <1>4 DEF Stream
  <2>2. g[t] \notin {"tools", "idle"} /\ UNCHANGED running
    BY <1>4 DEF Stream, At, loopVars
  <2>3. Delivered(t) \/ Refused(t) \/ h' = h
    BY <1>4 DEF Stream
  <2>4. QED BY <2>1, <2>2, <2>3, <1>0, Emits, Advances
<1>5. CASE AppendResponse(t)
  <2>1. /\ g[t] = "append" /\ h' = h
        /\ running' = [running EXCEPT ![t] = 1..todo[t]]
        /\ IF todo[t] = 0 THEN Goto(t, "last") ELSE Goto(t, "tools")
    BY <1>5 DEF AppendResponse, At
  <2>2. h[t] \notin {"idle", "load"}
    BY <2>1 DEF JoinInv, NotBegun
  <2>3. todo[t] = 0 => 1..todo[t] = {}
    OBVIOUS
  <2>4. QED
    BY <2>1, <2>2, <2>3 DEF Goto, JoinInv, Shape, NotBegun, ToolsJoined
<1>6. CASE Join(t)
  <2>1. /\ g[t] = "tools" /\ running[t] = {} /\ UNCHANGED <<h, running>>
        /\ g' = [g EXCEPT ![t] = "result"]
    BY <1>6 DEF Join, Joined, At, Goto, loopVars
  <2>2. QED BY <2>1 DEF JoinInv, Shape, NotBegun, ToolsJoined
<1>7. QED
  BY <1>1, <1>2, <1>3, <1>4, <1>5, <1>6 DEF StepStream

\* The tools' steps, those of the servers they started, and the end of the
\* application.
LEMMA OtherJoin ==
  ASSUME JoinInv,
         \/ \E t \in Turn : Tools(t) \/ ToolStartsServer(t) \/ ServerLine(t)
         \/ Quit
  PROVE  JoinInv'
<1>1. ASSUME NEW t \in Turn, Tools(t) PROVE JoinInv'
  BY <1>1 DEF Tools, ToolEnds, JoinInv, Shape, NotBegun, ToolsJoined
<1>2. ASSUME NEW t \in Turn, ToolStartsServer(t) PROVE JoinInv'
  BY <1>2 DEF ToolStartsServer, JoinInv, Shape, NotBegun, ToolsJoined, loopVars
<1>3. ASSUME NEW t \in Turn, ServerLine(t) PROVE JoinInv'
  <2>1. h' = h \/ (Delivered(t) \/ Refused(t))
    BY <1>3 DEF ServerLine
  <2>2. /\ h' \in [Turn -> {"idle", "load", "read", "save", "end", "lost"}]
        /\ \A u \in Turn : h'[u] \in {"idle", "load"} => h[u] = h'[u]
    BY <2>1, Emits DEF JoinInv, Shape
  <2>3. UNCHANGED <<g, running>>
    BY <1>3 DEF ServerLine, loopVars
  <2>4. QED BY <2>2, <2>3 DEF JoinInv, Shape, NotBegun, ToolsJoined
<1>4. CASE Quit
  <2>1. /\ h' = [t \in Turn |-> IF h[t] \in {"load", "read", "save"} THEN "lost" ELSE h[t]]
        /\ g' = [t \in Turn |-> IF Live(t) THEN "end" ELSE g[t]]
        /\ running' = [t \in Turn |-> {}]
    BY <1>4 DEF Quit
  <2>2. QED BY <2>1 DEF Live, JoinInv, Shape, NotBegun, ToolsJoined
<1>5. QED BY <1>1, <1>2, <1>3, <1>4

\* The channel of a turn is closed only after the goroutines of its tool calls have
\* ended (execToolCalls waits for them whatever becomes of the context); what a tool
\* has left running may still emit on it (run chat_panic).
THEOREM ToolsAreJoined == Spec => []ToolsJoined
<1>1. JoinInv /\ [Next]_vars => JoinInv'
  <2> SUFFICES ASSUME JoinInv, [Next]_vars PROVE JoinInv'
    OBVIOUS
  <2>1. CASE UNCHANGED vars
    BY <2>1 DEF vars, loopVars, JoinInv, Shape, NotBegun, ToolsJoined
  <2>2. CASE Next
    BY <2>2, HandlerJoin, StepStreamJoin, OtherJoin DEF Next
  <2>3. QED BY <2>1, <2>2
<1>2. JoinInv => ToolsJoined
  BY DEF JoinInv
<1>3. QED BY JoinInit, <1>1, <1>2, PTL DEF Spec

\* A result is added only while one is due.
ResultDue == \A t \in Turn : g[t] \in {"tools", "result"} => todo[t] # 0

ChatInv == TypeOK /\ ResultDue

Labels == {"idle", "user", "prune", "iterate", "chat", "stream", "append",
           "tools", "result", "emit", "last", "close", "end"}

\* The numbers of turns, calls and iterations.
LEMMA Bounds ==
  /\ MaxTurn \in Nat /\ MaxIter \in Nat /\ MaxCalls \in Nat /\ Keep \in Nat /\ MaxQuit \in Nat
  /\ 0 \in 0..MaxTurn /\ 0 \in 0..MaxCalls /\ 0 \in 0..MaxIter /\ 0 \in 0..MaxQuit
  /\ Turn \subseteq 0..MaxTurn
  BY ChatAssumption DEF ChatAssumption, Turn

\* A message is one.
LEMMA MessageType ==
  ASSUME NEW t \in 0..MaxTurn, NEW n \in 0..MaxCalls,
         NEW r \in {"user", "assistant", "tool", "system", "blank", "torn"}
  PROVE  Msg(t, r, n) \in Message /\ Msg(t, r, n).turn = t
  BY DEF Msg, Message

\* What is added to the history leaves it one.
LEMMA AddType ==
  ASSUME history \in Seq(Message), NEW m \in Message, Add(m)
  PROVE  history' \in Seq(Message)
<1>1. Msg(0, "torn", 0) \in Message
  BY Bounds, MessageType
<1>2. Torn \in Seq(Message)
  BY <1>1 DEF Torn
<1>3. Append(history, m) \in Seq(Message)
  BY AppendProperties
<1>4. QED BY <1>2, <1>3 DEF Add

\* So does pruning it.
LEMMA PrunedType ==
  ASSUME history \in Seq(Message), Len(history) > Keep + 1
  PROVE  Pruned \in Seq(Message)
<1>1. Len(history) \in Nat /\ Keep \in Nat
  BY Bounds, LenProperties
<1>2. SubSeq(history, Len(history) - Keep + 1, Len(history)) \in Seq(Message)
  <2>1. \A i \in (Len(history) - Keep + 1)..Len(history) : history[i] \in Message
    BY <1>1, ElementOfSeq
  <2>2. QED BY <1>1, <2>1, SubSeqProperties
<1>3. Msg(0, "system", 0) \in Message
  BY Bounds, MessageType
<1>4. <<Msg(0, "system", 0)>> \in Seq(Message)
  BY <1>3
<1>5. QED BY <1>2, <1>4, ConcatProperties DEF Pruned

\* What is stored of a history is one.
LEMMA MarshalType ==
  ASSUME NEW s \in Seq(Message)
  PROVE  Marshal(s) \in Seq(Message)
<1>1. Msg(0, "blank", 0) \in Message
  BY Bounds, MessageType
<1>2. Len(s) \in Nat /\ \A i \in 1..Len(s) : s[i] \in Message
  BY LenProperties, ElementOfSeq
<1>3. \A i \in 1..Len(s) :
        (IF s[i].role = "system" THEN Msg(0, "blank", 0) ELSE s[i]) \in Message
  BY <1>1, <1>2
<1>4. QED BY <1>2, <1>3 DEF Marshal

\* A delivered or refused event leaves the handler somewhere.
LEMMA EmitType ==
  ASSUME TypeOK, NEW t \in Turn, Delivered(t) \/ Refused(t) \/ UNCHANGED <<h, ctx>>
  PROVE  /\ h' \in [Turn -> {"idle", "load", "read", "save", "end", "lost"}]
         /\ ctx' \in [Turn -> BOOLEAN]
  BY DEF TypeOK, Delivered, Refused

\* A step of StepStream that moves to a label, and only counts down or not at all.
LEMMA LabelType ==
  ASSUME ChatInv, NEW t \in Turn, NEW label \in Labels, Goto(t, label),
         todo' \in [Turn -> 0..MaxCalls],
         \A u \in Turn \ {t} : todo'[u] = todo[u],
         label \in {"tools", "result"} => todo'[t] # 0
  PROVE  g' \in [Turn -> Labels] /\ ResultDue'
<1>1. g \in [Turn -> Labels] /\ g' = [g EXCEPT ![t] = label]
  BY DEF ChatInv, TypeOK, Labels, Goto
<1>2. \A u \in Turn \ {t} : g'[u] = g[u]
  BY <1>1
<1>3. g'[t] = label /\ g' \in [Turn -> Labels]
  BY <1>1
<1>4. QED BY <1>2, <1>3 DEF ChatInv, ResultDue

\* Nothing has begun.
LEMMA ChatInit == Init => ChatInv
<1> SUFFICES ASSUME Init PROVE ChatInv
  OBVIOUS
<1>1. TypeOK
  <2>1. /\ h \in [Turn -> {"idle", "load", "read", "save", "end", "lost"}]
        /\ g \in [Turn -> {"idle", "user", "prune", "iterate", "chat", "stream", "append",
                          "tools", "result", "emit", "last", "close", "end"}]
    BY DEF Init
  <2>2. iter \in [Turn -> 0..MaxIter] /\ todo \in [Turn -> 0..MaxCalls]
    <3>1. 0 \in 0..MaxIter /\ 0 \in 0..MaxCalls
      BY Bounds
    <3>2. QED BY <3>1 DEF Init
  <2>3. running \in [Turn -> SUBSET 1..MaxCalls] /\ ctx \in [Turn -> BOOLEAN]
    BY DEF Init
  <2>4. history \in Seq(Message) /\ stored \in [Session -> Seq(Message)]
    <3>1. <<>> \in Seq(Message)
      BY EmptySeq
    <3>2. QED BY <3>1 DEF Init
  <2>5. quits \in 0..MaxQuit
    BY Bounds DEF Init
  <2>6. /\ sess \in [Turn -> Session] /\ gone \subseteq Turn /\ server \subseteq Turn
        /\ panicked \in BOOLEAN /\ cut \subseteq {"overlap", "pruned", "unanswered", "early"}
    BY DEF Init
  <2>7. QED BY <2>1, <2>2, <2>3, <2>4, <2>5, <2>6 DEF TypeOK
<1>2. ResultDue
  BY DEF Init, ResultDue
<1>3. QED BY <1>1, <1>2 DEF ChatInv

\* The steps of the client and the handler.
LEMMA HandlerType ==
  ASSUME ChatInv, NEW t \in Turn, Send(t) \/ Stop(t) \/ Notice(t) \/ Handler(t)
  PROVE  ChatInv'
<1>0. TypeOK /\ ResultDue
  BY DEF ChatInv
<1>1. CASE Send(t)
  <2>1. /\ h' = [h EXCEPT ![t] = "load"] /\ cut' \subseteq cut \cup {"overlap"}
        /\ UNCHANGED <<sess, g, iter, todo, running, ctx, gone, history, stored, server,
                       panicked, quits>>
    BY <1>1 DEF Send, loopVars, appVars
  <2>2. QED BY <1>0, <2>1 DEF ChatInv, TypeOK, ResultDue
<1>2. CASE Stop(t)
  BY <1>0, <1>2 DEF Stop, loopVars, appVars, ChatInv, TypeOK, ResultDue
<1>3. CASE Notice(t)
  BY <1>0, <1>3 DEF Notice, loopVars, appVars, ChatInv, TypeOK, ResultDue
<1>4. CASE Load(t)
  <2>1. /\ history' = Restored(sess[t]) /\ h' = [h EXCEPT ![t] = "read"]
        /\ Goto(t, "user")
        /\ UNCHANGED <<sess, iter, todo, running, ctx, gone, stored, server, panicked, quits, cut>>
    BY <1>4 DEF Load, Goto, loopVars, appVars
  <2>2. history' \in Seq(Message)
    BY <1>0, <2>1 DEF Restored, TypeOK
  <2>3. g' \in [Turn -> Labels] /\ ResultDue'
    BY <1>0, <2>1, LabelType DEF TypeOK, Labels
  <2>4. QED BY <1>0, <2>1, <2>2, <2>3 DEF ChatInv, TypeOK, Labels
<1>5. CASE Drain(t)
  BY <1>0, <1>5 DEF Drain, loopVars, appVars, ChatInv, TypeOK, ResultDue
<1>6. CASE Save(t)
  <2>1. /\ stored' = IF history = <<>> THEN stored
                     ELSE [stored EXCEPT ![sess[t]] = Marshal(history)]
        /\ h' = [h EXCEPT ![t] = "end"] /\ ctx' = [ctx EXCEPT ![t] = FALSE]
        /\ cut' \subseteq cut \cup {"early"}
        /\ UNCHANGED <<sess, g, iter, todo, running, gone, history, server, panicked, quits>>
    BY <1>6 DEF Save, loopVars, appVars
  <2>2. Marshal(history) \in Seq(Message)
    BY <1>0, MarshalType DEF TypeOK
  <2>3. stored' \in [Session -> Seq(Message)]
    BY <1>0, <2>1, <2>2 DEF TypeOK
  <2>4. QED BY <1>0, <2>1, <2>3 DEF ChatInv, TypeOK, ResultDue
<1>7. QED BY <1>1, <1>2, <1>3, <1>4, <1>5, <1>6 DEF Handler

\* The steps of StepStream up to the response.
LEMMA AskType ==
  ASSUME ChatInv, NEW t \in Turn,
         AddUser(t) \/ Prune(t) \/ GiveUp(t) \/ Iterate(t) \/ Chat(t) \/ Stream(t)
  PROVE  ChatInv'
<1>0. TypeOK /\ ResultDue
  BY DEF ChatInv
<1>1. CASE AddUser(t)
  <2>1. /\ Add(Msg(t, "user", 0)) /\ Goto(t, "prune")
        /\ UNCHANGED <<sess, h, iter, todo, running, ctx, gone, stored, server, panicked,
                       quits, cut>>
    BY <1>1 DEF AddUser, loopVars, appVars
  <2>2. Msg(t, "user", 0) \in Message
    BY Bounds, MessageType
  <2>3. history' \in Seq(Message)
    BY <1>0, <2>1, <2>2, AddType DEF TypeOK
  <2>4. g' \in [Turn -> Labels] /\ ResultDue'
    BY <1>0, <2>1, LabelType DEF TypeOK, Labels
  <2>5. QED BY <1>0, <2>1, <2>3, <2>4 DEF ChatInv, TypeOK, Labels
<1>2. CASE Prune(t)
  <2>1. /\ Goto(t, "iterate") /\ iter' = [iter EXCEPT ![t] = @ + 1] /\ iter[t] # MaxIter
        /\ cut' \subseteq cut \cup {"pruned"}
        /\ UNCHANGED <<sess, h, todo, running, ctx, gone, stored, server, panicked, quits>>
    BY <1>2 DEF Prune, OutOfIterations, appVars
  <2>2. history' \in Seq(Message)
    BY <1>0, <1>2, PrunedType DEF Prune, TypeOK
  <2>3. iter' \in [Turn -> 0..MaxIter]
    <3>1. iter[t] \in 0..MaxIter /\ iter \in [Turn -> 0..MaxIter]
      BY <1>0 DEF TypeOK
    <3>2. iter[t] + 1 \in 0..MaxIter
      BY <2>1, <3>1, Bounds
    <3>3. QED BY <2>1, <3>1, <3>2
  <2>4. g' \in [Turn -> Labels] /\ ResultDue'
    BY <1>0, <2>1, LabelType DEF TypeOK, Labels
  <2>5. QED BY <1>0, <2>1, <2>2, <2>3, <2>4 DEF ChatInv, TypeOK, Labels
<1>3. CASE GiveUp(t)
  <2>1. /\ Goto(t, "last")
        /\ UNCHANGED <<sess, h, iter, todo, running, ctx, gone, history, stored, server,
                       panicked, quits, cut>>
    BY <1>3 DEF GiveUp, loopVars, appVars
  <2>2. g' \in [Turn -> Labels] /\ ResultDue'
    BY <1>0, <2>1, LabelType DEF TypeOK, Labels
  <2>3. QED BY <1>0, <2>1, <2>2 DEF ChatInv, TypeOK, Labels
<1>4. CASE Iterate(t) \/ Stream(t)
  <2>1. PICK label \in {"chat", "close", "append", "last"} : Goto(t, label)
    BY <1>4 DEF Iterate, Stream
  <2>2. /\ Delivered(t) \/ Refused(t) \/ UNCHANGED <<h, ctx>>
        /\ UNCHANGED <<sess, iter, todo, running, gone, history, stored, server, panicked,
                       quits, cut>>
    BY <1>4 DEF Iterate, Stream, loopVars, appVars
  <2>3. g' \in [Turn -> Labels] /\ ResultDue'
    BY <1>0, <2>1, <2>2, LabelType DEF TypeOK, Labels
  <2>4. /\ h' \in [Turn -> {"idle", "load", "read", "save", "end", "lost"}]
        /\ ctx' \in [Turn -> BOOLEAN]
    BY <1>0, <2>2, EmitType
  <2>5. QED BY <1>0, <2>2, <2>3, <2>4 DEF ChatInv, TypeOK, Labels
<1>5. CASE Chat(t)
  <2>1. PICK label \in {"last", "stream"} : Goto(t, label)
    BY <1>5 DEF Chat
  <2>2. /\ todo' = todo \/ \E n \in 0..MaxCalls : todo' = [todo EXCEPT ![t] = n]
        /\ UNCHANGED <<sess, h, iter, running, ctx, gone, history, stored, server, panicked,
                       quits, cut>>
    BY <1>5 DEF Chat, appVars
  <2>3. todo' \in [Turn -> 0..MaxCalls] /\ \A u \in Turn \ {t} : todo'[u] = todo[u]
    BY <1>0, <2>2 DEF TypeOK
  <2>4. g' \in [Turn -> Labels] /\ ResultDue'
    BY <1>0, <2>1, <2>3, LabelType DEF Labels
  <2>5. QED BY <1>0, <2>2, <2>3, <2>4 DEF ChatInv, TypeOK, Labels
<1>6. QED BY <1>1, <1>2, <1>3, <1>4, <1>5

\* The steps of StepStream from the response on.
LEMMA ResultType ==
  ASSUME ChatInv, NEW t \in Turn,
         \/ AppendResponse(t) \/ Join(t) \/ AddResult(t) \/ EmitResult(t) \/ EmitLast(t)
         \/ Close(t)
  PROVE  ChatInv'
<1>0. TypeOK /\ ResultDue
  BY DEF ChatInv
<1>t. todo[t] \in 0..MaxCalls /\ todo \in [Turn -> 0..MaxCalls]
  BY <1>0 DEF TypeOK
<1>1. CASE AppendResponse(t)
  <2>1. /\ Add(Msg(t, "assistant", todo[t])) /\ running' = [running EXCEPT ![t] = 1..todo[t]]
        /\ UNCHANGED <<sess, h, iter, todo, ctx, gone, stored, server, panicked, quits, cut>>
    BY <1>1 DEF AppendResponse, appVars
  <2>2. PICK label \in {"last", "tools"} : Goto(t, label) /\ (label = "tools" => todo[t] # 0)
    BY <1>1 DEF AppendResponse
  <2>3. Msg(t, "assistant", todo[t]) \in Message
    BY <1>t, Bounds, MessageType
  <2>4. history' \in Seq(Message)
    BY <1>0, <2>1, <2>3, AddType DEF TypeOK
  <2>5. 1..todo[t] \subseteq 1..MaxCalls
    BY <1>t, Bounds
  <2>6. running' \in [Turn -> SUBSET (1..MaxCalls)]
    BY <1>0, <2>1, <2>5 DEF TypeOK
  <2>7. g' \in [Turn -> Labels] /\ ResultDue'
    BY <1>0, <1>t, <2>1, <2>2, LabelType DEF Labels
  <2>8. QED BY <1>0, <2>1, <2>4, <2>6, <2>7 DEF ChatInv, TypeOK, Labels
<1>2. CASE Join(t)
  <2>1. /\ Goto(t, "result") /\ g[t] = "tools"
        /\ UNCHANGED <<sess, h, iter, todo, running, ctx, gone, history, stored, server,
                       panicked, quits, cut>>
    BY <1>2 DEF Join, At, loopVars, appVars
  <2>2. todo'[t] # 0
    BY <1>0, <2>1 DEF ResultDue
  <2>3. g' \in [Turn -> Labels] /\ ResultDue'
    BY <1>0, <1>t, <2>1, <2>2, LabelType DEF Labels
  <2>4. QED BY <1>0, <2>1, <2>3 DEF ChatInv, TypeOK, Labels
<1>3. CASE AddResult(t)
  <2>1. /\ Add(Msg(t, "tool", 0)) /\ Goto(t, "emit") /\ g[t] = "result"
        /\ todo' = [todo EXCEPT ![t] = @ - 1]
        /\ UNCHANGED <<sess, h, iter, running, ctx, gone, stored, server, panicked, quits, cut>>
    BY <1>3 DEF AddResult, At, appVars
  <2>2. todo[t] # 0
    BY <1>0, <2>1 DEF ResultDue
  <2>3. todo[t] - 1 \in 0..MaxCalls
    BY <1>t, <2>2, Bounds
  <2>4. todo' \in [Turn -> 0..MaxCalls] /\ \A u \in Turn \ {t} : todo'[u] = todo[u]
    BY <1>t, <2>1, <2>3
  <2>5. Msg(t, "tool", 0) \in Message
    BY Bounds, MessageType
  <2>6. history' \in Seq(Message)
    BY <1>0, <2>1, <2>5, AddType DEF TypeOK
  <2>7. g' \in [Turn -> Labels] /\ ResultDue'
    BY <1>0, <2>1, <2>4, LabelType DEF Labels
  <2>8. QED BY <1>0, <2>1, <2>4, <2>6, <2>7 DEF ChatInv, TypeOK, Labels
<1>4. CASE EmitResult(t)
  <2>1. PICK label \in {"prune", "result", "close"} :
          Goto(t, label) /\ (label = "result" => todo[t] # 0)
    BY <1>4 DEF EmitResult
  <2>2. /\ Delivered(t) \/ Refused(t)
        /\ cut' \subseteq cut \cup {"unanswered"}
        /\ UNCHANGED <<sess, iter, todo, running, gone, history, stored, server, panicked, quits>>
    BY <1>4 DEF EmitResult, loopVars, appVars
  <2>3. g' \in [Turn -> Labels] /\ ResultDue'
    BY <1>0, <1>t, <2>1, <2>2, LabelType DEF Labels
  <2>4. /\ h' \in [Turn -> {"idle", "load", "read", "save", "end", "lost"}]
        /\ ctx' \in [Turn -> BOOLEAN]
    BY <1>0, <2>2, EmitType
  <2>5. QED BY <1>0, <2>2, <2>3, <2>4 DEF ChatInv, TypeOK, Labels
<1>5. CASE EmitLast(t)
  <2>1. UNCHANGED <<sess, iter, todo, running, gone, history, stored, server, panicked,
                    quits, cut>>
    BY <1>5 DEF EmitLast, loopVars, appVars
  <2>2. Goto(t, "close") /\ (Delivered(t) \/ Refused(t))
    BY <1>5 DEF EmitLast
  <2>3. g' \in [Turn -> Labels] /\ ResultDue'
    BY <1>0, <1>t, <2>1, <2>2, LabelType DEF Labels
  <2>4. /\ h' \in [Turn -> {"idle", "load", "read", "save", "end", "lost"}]
        /\ ctx' \in [Turn -> BOOLEAN]
    BY <1>0, <2>2, EmitType
  <2>5. QED BY <1>0, <2>1, <2>3, <2>4 DEF ChatInv, TypeOK, Labels
<1>6. CASE Close(t)
  <2>1. /\ Goto(t, "end") /\ iter' = [iter EXCEPT ![t] = 0] /\ todo' = [todo EXCEPT ![t] = 0]
        /\ UNCHANGED <<sess, h, running, ctx, gone, history, stored, server, panicked, quits, cut>>
    BY <1>6 DEF Close, appVars
  <2>2. todo' \in [Turn -> 0..MaxCalls] /\ \A u \in Turn \ {t} : todo'[u] = todo[u]
    BY <1>t, <2>1, Bounds
  <2>3. iter' \in [Turn -> 0..MaxIter]
    BY <1>0, <2>1, Bounds DEF TypeOK
  <2>4. g' \in [Turn -> Labels] /\ ResultDue'
    BY <1>0, <2>1, <2>2, LabelType DEF Labels
  <2>5. QED BY <1>0, <2>1, <2>2, <2>3, <2>4 DEF ChatInv, TypeOK, Labels
<1>7. QED BY <1>1, <1>2, <1>3, <1>4, <1>5, <1>6

\* The tools' steps, those of the servers they started, and the end of the
\* application.
LEMMA OtherType ==
  ASSUME ChatInv,
         \/ \E t \in Turn : Tools(t) \/ ToolStartsServer(t) \/ ServerLine(t)
         \/ Quit
  PROVE  ChatInv'
<1>0. TypeOK /\ ResultDue
  BY DEF ChatInv
<1>1. ASSUME NEW t \in Turn, NEW i \in 1..MaxCalls, ToolEnds(t, i) PROVE ChatInv'
  BY <1>0, <1>1 DEF ToolEnds, appVars, ChatInv, TypeOK, ResultDue
<1>2. ASSUME NEW t \in Turn, ToolStartsServer(t) PROVE ChatInv'
  BY <1>0, <1>2 DEF ToolStartsServer, loopVars, ChatInv, TypeOK, ResultDue
<1>3. ASSUME NEW t \in Turn, ServerLine(t) PROVE ChatInv'
  <2>1. /\ Delivered(t) \/ Refused(t) \/ UNCHANGED <<h, ctx>>
        /\ panicked' = panicked \/ panicked' = TRUE
        /\ UNCHANGED <<sess, g, iter, todo, running, gone, server, history, stored, quits, cut>>
    BY <1>3 DEF ServerLine, loopVars
  <2>2. /\ h' \in [Turn -> {"idle", "load", "read", "save", "end", "lost"}]
        /\ ctx' \in [Turn -> BOOLEAN]
    BY <1>0, <2>1, EmitType
  <2>3. QED BY <1>0, <2>1, <2>2 DEF ChatInv, TypeOK, ResultDue
<1>4. CASE Quit
  <2>1. /\ quits < MaxQuit /\ quits' = quits + 1
        /\ h' = [t \in Turn |-> IF h[t] \in {"load", "read", "save"} THEN "lost" ELSE h[t]]
        /\ g' = [t \in Turn |-> IF Live(t) THEN "end" ELSE g[t]]
        /\ iter' = [t \in Turn |-> 0] /\ todo' = [t \in Turn |-> 0]
        /\ running' = [t \in Turn |-> {}] /\ server' = {} /\ history' = <<>>
        /\ UNCHANGED <<sess, ctx, gone, stored, panicked, cut>>
    BY <1>4 DEF Quit
  <2>2. quits' \in 0..MaxQuit
    BY <1>0, <2>1, Bounds DEF TypeOK
  <2>3. history' \in Seq(Message)
    BY <2>1
  <2>4. ResultDue'
    BY <2>1 DEF ResultDue, Live
  <2>5. g' \in [Turn -> Labels]
    BY <1>0, <2>1 DEF TypeOK, Labels
  <2>6. QED BY <1>0, <2>1, <2>2, <2>3, <2>4, <2>5, Bounds DEF ChatInv, TypeOK, Labels
<1>5. QED BY <1>1, <1>2, <1>3, <1>4 DEF Tools

\* The types of a turn, its session and the histories: a response's calls are
\* counted down to none and no further, whatever is stopped (agent.go
\* loopStepStream), and what is stored and restored is a history.
THEOREM ChatTypes == Spec => []TypeOK
<1>1. ChatInv /\ [Next]_vars => ChatInv'
  <2> SUFFICES ASSUME ChatInv, [Next]_vars PROVE ChatInv'
    OBVIOUS
  <2>1. CASE UNCHANGED vars
    BY <2>1 DEF vars, loopVars, appVars, ChatInv, TypeOK, ResultDue
  <2>2. CASE Next
    BY <2>2, HandlerType, AskType, ResultType, OtherType DEF Next, StepStream
  <2>3. QED BY <2>1, <2>2
<1>2. ChatInv => TypeOK
  BY DEF ChatInv
<1>3. QED BY ChatInit, <1>1, <1>2, PTL DEF Spec

-----------------------------------------------------------------------------
(* The conversation the model is called with.                              *)

\* A history that is well-formed but for n results that are still due at its end.
Awaiting(s, n) ==
  /\ \A i \in 1..Len(s) :
       /\ s[i].role \in {"user", "assistant", "tool"}
       /\ \A j \in 1..s[i].calls :
            i + j <= Len(s) + n /\ (i + j <= Len(s) => s[i + j].role = "tool")
       /\ s[i].role = "tool" => Asked(s, i)
  /\ n # 0 => \E i \in 1..Len(s) : Len(s) + n <= i + s[i].calls

\* The results a turn has still to add.
Due(t) == IF g[t] \in {"tools", "result", "emit"} THEN todo[t] ELSE 0

\* Until turns overlap, the turns before one that was sent are over.
OneAtATime == \A t, u \in Turn : u < t /\ h[t] # "idle" => Over(u)

\* The agent's history lacks what its running turn is about to add; the saved ones
\* lack nothing.
Conversation ==
  /\ \A t \in Turn : Live(t) => Awaiting(history, Due(t))
  /\ (\A t \in Turn : ~Live(t)) => Awaiting(history, 0)
  /\ \A s \in Session : Awaiting(stored[s], 0)

Whole == OneAtATime /\ Conversation

\* Two kinds of message keep a history what it is: one that is no result where
\* nothing is due, which makes its own calls due, and a result that is due.
LEMMA AwaitingAppend ==
  ASSUME NEW s \in Seq(Message), NEW n \in Nat, NEW k \in Nat, NEW m \in Message,
         Awaiting(s, n),
         \/ n = 0 /\ m.role \in {"user", "assistant"} /\ k = m.calls
         \/ n = k + 1 /\ m.role = "tool" /\ m.calls = 0
  PROVE  Awaiting(Append(s, m), k)
<1> DEFINE a == Append(s, m)  L == Len(s)
<1>1. /\ L \in Nat /\ Len(a) = L + 1 /\ \A i \in 1..L : a[i] = s[i]
      /\ a[L + 1] = m
  BY LenProperties, AppendProperties
<1>2. m.calls \in Nat /\ \A i \in 1..L : s[i].calls \in Nat
  <2>1. \A i \in 1..L : s[i] \in Message
    BY ElementOfSeq
  <2>2. QED BY <2>1, Bounds DEF Message
<1> HIDE DEF a, L
<1>3. \A i \in 1..L :
        /\ s[i].role \in {"user", "assistant", "tool"}
        /\ \A j \in 1..s[i].calls : i + j <= L + n /\ (i + j <= L => s[i + j].role = "tool")
        /\ s[i].role = "tool" => Asked(s, i)
  BY DEF Awaiting, L
<1>4. n # 0 => \E i \in 1..L : L + n <= i + s[i].calls
  BY DEF Awaiting, L
<1>5. ASSUME NEW i \in 1..L
      PROVE  /\ a[i].role \in {"user", "assistant", "tool"}
             /\ \A j \in 1..a[i].calls :
                  i + j <= L + 1 + k /\ (i + j <= L + 1 => a[i + j].role = "tool")
             /\ a[i].role = "tool" => Asked(a, i)
  <2>1. a[i] = s[i] /\ i \in Nat /\ s[i].calls \in Nat
    BY <1>1, <1>2
  <2>2. ASSUME NEW j \in 1..s[i].calls
        PROVE  i + j <= L + 1 + k /\ (i + j <= L + 1 => a[i + j].role = "tool")
    <3>1. j \in Nat /\ i + j <= L + n
      BY <1>3, <2>1
    <3>2. i + j <= L => a[i + j].role = "tool"
      <4>1. i + j <= L => i + j \in 1..L
        BY <1>1, <2>1, <3>1
      <4>2. QED BY <1>1, <1>3, <4>1
    <3>3. i + j = L + 1 => n # 0
      BY <1>1, <2>1, <3>1
    <3>4. i + j = L + 1 => a[i + j].role = "tool"
      BY <1>1, <3>3
    <3>5. i + j <= L + 1 + k
      BY <1>1, <2>1, <3>1
    <3>6. QED BY <1>1, <2>1, <3>1, <3>2, <3>4, <3>5
  <2>3. Asked(s, i) => Asked(a, i)
    <3>1. \A x \in 1..(i - 1) : a[x] = s[x]
      BY <1>1, <2>1
    <3>2. QED BY <3>1 DEF Asked
  <2>4. QED BY <1>3, <2>1, <2>2, <2>3
<1>6. /\ a[L + 1].role \in {"user", "assistant", "tool"}
      /\ \A j \in 1..a[L + 1].calls :
           L + 1 + j <= L + 1 + k /\ (L + 1 + j <= L + 1 => a[L + 1 + j].role = "tool")
      /\ a[L + 1].role = "tool" => Asked(a, L + 1)
  <2>1. m.role \in {"user", "assistant", "tool"}
    OBVIOUS
  <2>2. ASSUME NEW j \in 1..m.calls
        PROVE  L + 1 + j <= L + 1 + k /\ ~(L + 1 + j <= L + 1)
    BY <1>1, <1>2
  <2>3. m.role = "tool" => Asked(a, L + 1)
    <3>1. m.role = "tool" => n = k + 1
      OBVIOUS
    <3>2. n = k + 1 => \E i \in 1..L : L + 1 <= i + s[i].calls
      BY <1>1, <1>2, <1>4
    <3>3. L + 1 - 1 = L
      BY <1>1
    <3>4. QED BY <1>1, <3>1, <3>2, <3>3 DEF Asked
  <2>4. QED BY <1>1, <2>1, <2>2, <2>3
<1>7. k # 0 => \E i \in 1..(L + 1) : L + 1 + k <= i + a[i].calls
  <2>1. CASE n = 0 /\ k = m.calls
    <3>1. L + 1 + k <= L + 1 + a[L + 1].calls /\ L + 1 \in 1..(L + 1)
      BY <1>1, <2>1
    <3>2. QED BY <3>1
  <2>2. CASE n = k + 1
    <3>1. PICK i \in 1..L : L + n <= i + s[i].calls
      BY <1>4, <2>2
    <3>2. i \in 1..(L + 1) /\ a[i] = s[i] /\ L + 1 + k <= i + s[i].calls
      BY <1>1, <1>2, <2>2, <3>1
    <3>3. QED BY <3>2
  <2>3. QED BY <2>1, <2>2
<1>8. \A i \in 1..(L + 1) : i \in 1..L \/ i = L + 1
  BY <1>1
<1>9. Awaiting(a, k)
  BY <1>1, <1>5, <1>6, <1>7, <1>8 DEF Awaiting
<1>10. QED BY <1>9 DEF a

\* A history that awaits nothing is what the provider demands.
LEMMA AwaitingNone ==
  ASSUME NEW s \in Seq(Message), Awaiting(s, 0)
  PROVE  WellFormed(s)
<1>1. Len(s) \in Nat /\ \A i \in 1..Len(s) : s[i] \in Message
  BY LenProperties, ElementOfSeq
<1>2. \A i \in 1..Len(s) : s[i].calls \in Nat
  BY <1>1, Bounds DEF Message
<1>3. ASSUME NEW i \in 1..Len(s) PROVE Answered(s, i) /\ (s[i].role = "tool" => Asked(s, i))
  <2>1. \A j \in 1..s[i].calls : i + j <= Len(s) + 0
    BY DEF Awaiting
  <2>2. \A j \in 1..s[i].calls : i + j <= Len(s)
    BY <1>1, <2>1
  <2>3. QED BY <2>2 DEF Awaiting, Answered
<1>4. QED BY <1>3 DEF WellFormed

\* It is stored as it is.
LEMMA AwaitingMarshal ==
  ASSUME NEW s \in Seq(Message), NEW n, Awaiting(s, n)
  PROVE  Marshal(s) = s
<1>1. \A i \in 1..Len(s) : s[i].role # "system"
  BY DEF Awaiting
<1>2. Marshal(s) = [i \in 1..Len(s) |-> s[i]]
  BY <1>1 DEF Marshal
<1>3. s = [i \in 1..Len(s) |-> s[i]]
  BY LenProperties
<1>4. QED BY <1>2, <1>3

\* The empty one awaits nothing.
LEMMA AwaitingEmpty == Awaiting(<<>>, 0)
<1>1. Len(<<>>) = 0
  BY EmptySeq
<1>2. 1..0 = {}
  OBVIOUS
<1>3. QED BY <1>1, <1>2 DEF Awaiting

\* A torn history awaits no number of results.
LEMMA NotTorn ==
  ASSUME NEW n, Awaiting(history, n)
  PROVE  history # Torn
<1>1. Len(Torn) = 1 /\ Torn[1].role = "torn"
  BY DEF Torn, Msg
<1>2. 1 \in 1..1
  OBVIOUS
<1>3. QED BY <1>1, <1>2 DEF Awaiting

\* While a turn is neither unsent nor over, the others are one or the other.
LEMMA Alone ==
  ASSUME JoinInv, OneAtATime, NEW t \in Turn, h[t] # "idle", ~Over(t), NEW u \in Turn, u # t
  PROVE  ~Live(u) /\ (u < t => Over(u)) /\ (t < u => h[u] = "idle")
<1>1. t \in Int /\ u \in Int
  BY DEF Turn
<1>2. CASE u < t
  BY <1>1, <1>2 DEF OneAtATime, Over
<1>3. CASE t < u
  <2>1. h[u] = "idle"
    BY <1>3 DEF OneAtATime
  <2>2. g[u] = "idle"
    BY <2>1 DEF JoinInv, NotBegun
  <2>3. QED BY <1>1, <1>3, <2>1, <2>2 DEF Live
<1>4. QED BY <1>1, <1>2, <1>3

\* A step of that turn alone leaves it so.
LEMMA AloneKept ==
  ASSUME JoinInv, OneAtATime, NEW t \in Turn, h[t] # "idle", ~Over(t),
         \A u \in Turn \ {t} : h'[u] = h[u] /\ g'[u] = g[u]
  PROVE  OneAtATime'
<1> SUFFICES ASSUME NEW a \in Turn, NEW u \in Turn, u < a, h'[a] # "idle"
             PROVE  Over(u)'
  BY DEF OneAtATime
<1>1. a \in Int /\ u \in Int /\ t \in Int
  BY DEF Turn
<1>2. ~(t < a)
  BY Alone, <1>1
<1>3. u # t /\ u < t
  BY <1>1, <1>2
<1>4. Over(u)
  BY <1>3, Alone
<1>5. h'[u] = h[u] /\ g'[u] = g[u]
  BY <1>3
<1>6. QED BY <1>4, <1>5 DEF Over, Live

\* No step makes two turns overlap unseen.
LEMMA Apart ==
  ASSUME JoinInv, OneAtATime, Next, "overlap" \notin cut'
  PROVE  OneAtATime'
<1>1. ASSUME NEW t \in Turn, Send(t) PROVE OneAtATime'
  <2>1. /\ h[t] = "idle" /\ h' = [h EXCEPT ![t] = "load"] /\ \A u \in 1..(t - 1) : Over(u)
        /\ UNCHANGED g
    BY <1>1 DEF Send
  <2> SUFFICES ASSUME NEW a \in Turn, NEW u \in Turn, u < a, h'[a] # "idle"
               PROVE  Over(u)'
    BY DEF OneAtATime
  <2>2. a \in Int /\ u \in Nat /\ t \in Int /\ 1 <= u
    BY DEF Turn
  <2>3. Over(u)
    <3>1. CASE a = t
      <4>1. u \in 1..(t - 1)
        BY <2>2, <3>1
      <4>2. QED BY <2>1, <4>1
    <3>2. CASE a # t
      <4>1. h[a] # "idle"
        BY <2>1, <3>2 DEF JoinInv, Shape
      <4>2. QED BY <4>1 DEF OneAtATime
    <3>3. QED BY <3>1, <3>2
  <2>4. u # t
    BY <2>1, <2>3 DEF Over
  <2>5. h'[u] = h[u] /\ g'[u] = g[u]
    BY <2>1, <2>4 DEF JoinInv, Shape
  <2>6. QED BY <2>3, <2>5 DEF Over, Live
<1>2. ASSUME NEW t \in Turn, h[t] # "idle", ~Over(t),
             h' = h \/ \E to : h' = [h EXCEPT ![t] = to],
             g' = g \/ \E to : g' = [g EXCEPT ![t] = to]
      PROVE  OneAtATime'
  <2>1. \A u \in Turn \ {t} : h'[u] = h[u] /\ g'[u] = g[u]
    BY <1>2 DEF JoinInv, Shape
  <2>2. QED BY <1>2, <2>1, AloneKept
<1>3. ASSUME UNCHANGED <<h, g>> PROVE OneAtATime'
  BY <1>3 DEF OneAtATime, Over, Live
<1>4. ASSUME NEW t \in Turn, Handler(t) PROVE OneAtATime'
  <2>1. h[t] # "idle" /\ ~Over(t) /\ (\E to : h' = [h EXCEPT ![t] = to])
    BY <1>4 DEF Handler, Load, Drain, Save, Over
  <2>2. g' = g \/ \E to : g' = [g EXCEPT ![t] = to]
    BY <1>4 DEF Handler, Load, Drain, Save
  <2>3. QED BY <1>2, <2>1, <2>2
<1>5. ASSUME NEW t \in Turn, StepStream(t) PROVE OneAtATime'
  <2>1. Live(t) /\ (h' = h \/ Delivered(t) \/ Refused(t)) /\ \E label : Goto(t, label)
    <3>1. Live(t)
      BY <1>5 DEF StepStream, AddUser, Prune, GiveUp, Iterate, Chat, Stream, AppendResponse, Join,
                  AddResult, EmitResult, EmitLast, Close, At, Live
    <3>2. h' = h \/ Delivered(t) \/ Refused(t)
      BY <1>5 DEF StepStream, AddUser, Prune, GiveUp, Iterate, Chat, Stream, AppendResponse, Join,
                  AddResult, EmitResult, EmitLast, Close
    <3>3. \E label : Goto(t, label)
      BY <1>5 DEF StepStream, AddUser, Prune, GiveUp, Iterate, Chat, Stream, AppendResponse, Join,
                  AddResult, EmitResult, EmitLast, Close
    <3>4. QED BY <3>1, <3>2, <3>3
  <2>2. h[t] # "idle" /\ ~Over(t)
    BY <2>1 DEF JoinInv, NotBegun, Live, Over
  <2>3. h' = h \/ h' = [h EXCEPT ![t] = "save"]
    BY <2>1 DEF Delivered, Refused
  <2>4. QED BY <1>2, <2>1, <2>2, <2>3 DEF Goto
<1>6. ASSUME NEW t \in Turn, ServerLine(t) PROVE OneAtATime'
  <2>1. g' = g /\ (h' = h \/ (h[t] = "read" /\ h' = [h EXCEPT ![t] = "save"]))
    BY <1>6 DEF ServerLine, Delivered, Refused
  <2>2. h[t] = "read" => ~Over(t)
    BY DEF Over
  <2>3. QED BY <1>2, <1>3, <2>1, <2>2
<1>7. ASSUME Quit PROVE OneAtATime'
  <2>1. /\ h' = [t \in Turn |-> IF h[t] \in {"load", "read", "save"} THEN "lost" ELSE h[t]]
        /\ g' = [t \in Turn |-> IF Live(t) THEN "end" ELSE g[t]]
    BY <1>7 DEF Quit
  <2>2. \A t \in Turn : ~Live(t)' /\ (h'[t] # "idle" => h[t] # "idle") /\ (Over(t) => Over(t)')
    BY <2>1 DEF Live, Over
  <2>3. QED BY <2>2 DEF OneAtATime
<1>8. ASSUME NEW t \in Turn, Stop(t) \/ Notice(t) \/ Tools(t) \/ ToolStartsServer(t)
      PROVE  OneAtATime'
  <2>1. UNCHANGED <<h, g>>
    BY <1>8 DEF Stop, Notice, Tools, ToolEnds, ToolStartsServer
  <2>2. QED BY <1>3, <2>1
<1>9. QED
  BY <1>1, <1>4, <1>5, <1>6, <1>7, <1>8 DEF Next

\* What the history awaits when no other turn is live.
LEMMA Now ==
  ASSUME Conversation, NEW t \in Turn, \A u \in Turn \ {t} : ~Live(u)
  PROVE  Awaiting(history, Due(t))
<1>1. CASE Live(t)
  BY <1>1 DEF Conversation
<1>2. CASE ~Live(t)
  <2>1. Due(t) = 0
    BY <1>2 DEF Due, Live
  <2>2. QED BY <1>2, <2>1 DEF Conversation
<1>3. QED BY <1>1, <1>2

\* And conversely, after a step.
LEMMA Then ==
  ASSUME NEW t \in Turn, \A u \in Turn \ {t} : ~Live(u) /\ g'[u] = g[u],
         Awaiting(history', Due(t)'), \A s \in Session : Awaiting(stored'[s], 0)
  PROVE  Conversation'
<1>1. \A u \in Turn \ {t} : ~Live(u)'
  BY DEF Live
<1>2. \A u \in Turn : Live(u)' => Awaiting(history', Due(u)')
  BY <1>1
<1>3. (\A u \in Turn : ~Live(u)') => Awaiting(history', 0)
  <2>1. ~Live(t)' => Due(t)' = 0
    BY DEF Live, Due
  <2>2. QED BY <2>1
<1>4. QED BY <1>2, <1>3 DEF Conversation

\* A message is added behind the others: no other turn is live.
LEMMA Added ==
  ASSUME ChatInv, JoinInv, Whole, NEW t \in Turn, Live(t), NEW m \in Message, m.turn = t, Add(m)
  PROVE  history' = Append(history, m) /\ Awaiting(history, Due(t))
<1>1. h[t] # "idle" /\ ~Over(t)
  BY DEF JoinInv, NotBegun, Live, Over
<1>2. \A u \in Turn \ {t} : ~Live(u)
  BY <1>1, Alone DEF Whole
<1>3. Awaiting(history, Due(t))
  BY <1>2, Now DEF Whole
<1>4. history # Torn
  BY <1>3, NotTorn
<1>5. QED BY <1>2, <1>3, <1>4 DEF Add

\* A step of StepStream, from what its turn awaits before and after it.
LEMMA Streamed ==
  ASSUME ChatInv, JoinInv, Whole, NEW t \in Turn, Live(t), NEW label, Goto(t, label),
         h' = h \/ Delivered(t) \/ Refused(t), stored' = stored,
         Awaiting(history, Due(t)) => Awaiting(history', Due(t)')
  PROVE  Conversation'
<1>1. h[t] # "idle" /\ ~Over(t)
  BY DEF JoinInv, NotBegun, Live, Over
<1>2. \A u \in Turn \ {t} : h'[u] = h[u] /\ g'[u] = g[u]
  <2>1. h' = h \/ h' = [h EXCEPT ![t] = "save"]
    BY DEF Delivered, Refused
  <2>2. QED BY <2>1 DEF Goto, JoinInv, Shape
<1>3. \A u \in Turn \ {t} : ~Live(u)
  BY <1>1, Alone DEF Whole
<1>4. Awaiting(history', Due(t)')
  BY <1>3, Now DEF Whole
<1>5. \A s \in Session : Awaiting(stored'[s], 0)
  BY DEF Whole, Conversation
<1>6. QED BY <1>2, <1>3, <1>4, <1>5, Then

\* The client's and the handler's steps.
LEMMA HandlerWhole ==
  ASSUME ChatInv, JoinInv, Whole, cut' = {}, NEW t \in Turn,
         Send(t) \/ Stop(t) \/ Notice(t) \/ Handler(t)
  PROVE  Conversation'
<1>0. OneAtATime /\ Conversation
  BY DEF Whole
<1>1. CASE Send(t)
  <2>1. /\ h[t] = "idle" /\ h' = [h EXCEPT ![t] = "load"] /\ \A u \in 1..(t - 1) : Over(u)
        /\ UNCHANGED <<g, todo, history, stored>>
    BY <1>1 DEF Send, loopVars
  <2>2. QED BY <1>0, <2>1 DEF Conversation, Live, Due
<1>2. CASE Stop(t) \/ Notice(t)
  <2>1. UNCHANGED <<h, g, todo, history, stored>>
    BY <1>2 DEF Stop, Notice, loopVars
  <2>2. QED BY <1>0, <2>1 DEF Conversation, Live, Due
<1>3. CASE Load(t)
  <2>1. /\ h[t] = "load" /\ h' = [h EXCEPT ![t] = "read"] /\ g' = [g EXCEPT ![t] = "user"]
        /\ history' = (IF stored[sess[t]] # <<>> THEN stored[sess[t]] ELSE history)
        /\ UNCHANGED stored
    BY <1>3 DEF Load, Restored
  <2>2. ~Over(t)
    BY <2>1 DEF Over
  <2>3. \A u \in Turn \ {t} : h'[u] = h[u] /\ g'[u] = g[u] /\ ~Live(u)
    BY <1>0, <2>1, <2>2, Alone DEF JoinInv, Shape
  <2>4. Due(t) = 0 /\ Due(t)' = 0
    BY <2>1 DEF JoinInv, NotBegun, Shape, Due
  <2>5. Awaiting(history, 0)
    BY <1>0, <2>3, <2>4, Now
  <2>6. \A s \in Session : Awaiting(stored[s], 0)
    BY <1>0 DEF Conversation
  <2>7. Awaiting(history', Due(t)')
    BY <2>1, <2>4, <2>5, <2>6 DEF ChatInv, TypeOK
  <2>8. QED BY <2>1, <2>3, <2>6, <2>7, Then
<1>4. CASE Drain(t)
  <2>1. UNCHANGED <<g, todo, history, stored>>
    BY <1>4 DEF Drain, loopVars
  <2>2. QED BY <1>0, <2>1 DEF Conversation, Live, Due
<1>5. CASE Save(t)
  <2>1. /\ h[t] = "save" /\ h' = [h EXCEPT ![t] = "end"] /\ ~Live(t)
        /\ stored' = IF history = <<>> THEN stored
                     ELSE [stored EXCEPT ![sess[t]] = Marshal(history)]
        /\ UNCHANGED <<g, todo, history>>
    BY <1>5 DEF Save, loopVars
  <2>2. ~Over(t)
    BY <2>1 DEF Over
  <2>3. \A u \in Turn \ {t} : h'[u] = h[u] /\ g'[u] = g[u] /\ ~Live(u)
    BY <1>0, <2>1, <2>2, Alone DEF JoinInv, Shape
  <2>4. Awaiting(history, 0) /\ Due(t) = 0 /\ Due(t)' = 0
    BY <1>0, <2>1, <2>3, Now DEF Live, Due
  <2>5. Marshal(history) = history
    BY <2>4, AwaitingMarshal DEF ChatInv, TypeOK
  <2>6. \A s \in Session : Awaiting(stored'[s], 0)
    BY <1>0, <2>1, <2>4, <2>5 DEF Conversation, ChatInv, TypeOK
  <2>7. QED BY <2>1, <2>3, <2>4, <2>6, Then
<1>6. QED BY <1>1, <1>2, <1>3, <1>4, <1>5 DEF Handler

\* The steps of StepStream that add nothing to the history, or its first message.
LEMMA AskWhole ==
  ASSUME ChatInv, JoinInv, Whole, cut' = {}, NEW t \in Turn,
         \/ AddUser(t) \/ Prune(t) \/ GiveUp(t) \/ Iterate(t) \/ Chat(t) \/ Stream(t)
         \/ EmitLast(t) \/ Close(t)
  PROVE  Conversation'
<1>1. Live(t) /\ Due(t) = 0
  BY DEF AddUser, Prune, GiveUp, Iterate, Chat, Stream, EmitLast, Close, At, Live, Due
<1>2. stored' = stored /\ (h' = h \/ Delivered(t) \/ Refused(t))
  BY DEF AddUser, Prune, GiveUp, Iterate, Chat, Stream, EmitLast, Close
<1>3. PICK label \in {"prune", "iterate", "last", "chat", "close", "stream", "append", "end"} :
        Goto(t, label)
  BY DEF AddUser, Prune, GiveUp, Iterate, Chat, Stream, EmitLast, Close
<1>4. Due(t)' = 0
  BY <1>3 DEF Goto, Due, JoinInv, Shape
<1>5. CASE AddUser(t)
  <2>1. Msg(t, "user", 0) \in Message /\ Msg(t, "user", 0).turn = t
    BY Bounds, MessageType
  <2>2. Add(Msg(t, "user", 0))
    BY <1>5 DEF AddUser
  <2>3. history' = Append(history, Msg(t, "user", 0)) /\ Awaiting(history, 0)
    BY <1>1, <2>1, <2>2, Added
  <2>4. Msg(t, "user", 0).role = "user" /\ Msg(t, "user", 0).calls = 0
    BY DEF Msg
  <2>5. Awaiting(history', 0)
    BY <2>1, <2>3, <2>4, AwaitingAppend DEF ChatInv, TypeOK
  <2>6. QED BY <1>1, <1>2, <1>3, <1>4, <2>5, Streamed
<1>6. CASE ~AddUser(t)
  <2>1. history' = history
    BY <1>6 DEF Prune, GiveUp, Iterate, Chat, Stream, EmitLast, Close
  <2>2. Awaiting(history, Due(t)) => Awaiting(history', Due(t)')
    BY <1>1, <1>4, <2>1
  <2>3. QED BY <1>1, <1>2, <1>3, <2>2, Streamed
<1>7. QED BY <1>5, <1>6

\* The steps that add a response and its results.
LEMMA ResultWhole ==
  ASSUME ChatInv, JoinInv, Whole, cut' = {}, NEW t \in Turn,
         AppendResponse(t) \/ Join(t) \/ AddResult(t) \/ EmitResult(t)
  PROVE  Conversation'
<1>0. todo \in [Turn -> 0..MaxCalls] /\ todo[t] \in Nat /\ todo[t] \in 0..MaxCalls
  BY Bounds DEF ChatInv, TypeOK
<1>1. Live(t) /\ DOMAIN g = Turn
  BY DEF AppendResponse, Join, AddResult, EmitResult, At, Live, JoinInv, Shape
<1>2. stored' = stored /\ (h' = h \/ Delivered(t) \/ Refused(t))
  BY DEF AppendResponse, Join, AddResult, EmitResult
<1>3. CASE AppendResponse(t)
  <2> DEFINE m == Msg(t, "assistant", todo[t])
  <2>1. m \in Message /\ m.turn = t /\ m.role = "assistant" /\ m.calls = todo[t]
    BY <1>0, Bounds, MessageType DEF Msg
  <2>2. Add(m) /\ todo' = todo /\ g[t] = "append"
    BY <1>3 DEF AppendResponse, At
  <2>3. PICK label \in {"tools", "last"} : Goto(t, label) /\ (label = "last" => todo[t] = 0)
    BY <1>3 DEF AppendResponse
  <2>4. Due(t) = 0 /\ Due(t)' = todo[t]
    BY <1>1, <2>2, <2>3 DEF Goto, Due
  <2> HIDE DEF m
  <2>5. history' = Append(history, m) /\ Awaiting(history, 0)
    BY <1>1, <2>1, <2>2, <2>4, Added
  <2>6. Awaiting(history', todo[t])
    BY <1>0, <2>1, <2>5, AwaitingAppend DEF ChatInv, TypeOK
  <2>7. QED BY <1>1, <1>2, <2>3, <2>4, <2>6, Streamed
<1>4. CASE AddResult(t)
  <2> DEFINE m == Msg(t, "tool", 0)
  <2>1. m \in Message /\ m.turn = t /\ m.role = "tool" /\ m.calls = 0
    BY Bounds, MessageType DEF Msg
  <2>2. Add(m) /\ Goto(t, "emit") /\ g[t] = "result" /\ todo' = [todo EXCEPT ![t] = @ - 1]
    BY <1>4 DEF AddResult, At
  <2>3. todo[t] # 0
    BY <2>2 DEF ChatInv, ResultDue
  <2>4. todo[t] - 1 \in Nat /\ todo[t] = (todo[t] - 1) + 1
    BY <1>0, <2>3
  <2>5. Due(t) = todo[t] /\ Due(t)' = todo[t] - 1
    BY <1>0, <1>1, <2>2 DEF Goto, Due
  <2> HIDE DEF m
  <2>6. history' = Append(history, m) /\ Awaiting(history, todo[t])
    BY <1>1, <2>1, <2>2, <2>5, Added
  <2>7. Awaiting(history', todo[t] - 1)
    BY <1>0, <2>1, <2>4, <2>6, AwaitingAppend DEF ChatInv, TypeOK
  <2>8. QED BY <1>1, <1>2, <2>2, <2>5, <2>7, Streamed
<1>5. CASE Join(t) \/ EmitResult(t)
  <2>1. PICK label \in {"result", "prune", "close"} :
          Goto(t, label) /\ (label # "result" => todo[t] = 0)
    <3>1. CASE Join(t)
      BY <3>1 DEF Join
    <3>2. CASE EmitResult(t)
      <4>1. \/ Goto(t, IF todo[t] = 0 THEN "prune" ELSE "result")
            \/ Goto(t, "close") /\ todo[t] = 0
        BY <3>2 DEF EmitResult
      <4>2. QED BY <4>1
    <3>3. QED BY <1>5, <3>1, <3>2
  <2>2. g[t] \in {"tools", "emit"} /\ UNCHANGED <<history, todo>>
    BY <1>5 DEF Join, EmitResult, At, loopVars
  <2>3. Due(t) = todo[t] /\ Due(t)' = todo[t]
    BY <1>1, <2>1, <2>2 DEF Goto, Due
  <2>4. Awaiting(history, Due(t)) => Awaiting(history', Due(t)')
    BY <2>2, <2>3
  <2>5. QED BY <1>1, <1>2, <2>1, <2>4, Streamed
<1>6. QED BY <1>3, <1>4, <1>5

\* The tools' steps, those of the servers they started, and the end of the
\* application.
LEMMA OtherWhole ==
  ASSUME ChatInv, JoinInv, Whole, cut' = {},
         \/ \E t \in Turn : Tools(t) \/ ToolStartsServer(t) \/ ServerLine(t)
         \/ Quit
  PROVE  Conversation'
<1>0. OneAtATime /\ Conversation
  BY DEF Whole
<1>1. ASSUME NEW t \in Turn, Tools(t) \/ ToolStartsServer(t) PROVE Conversation'
  <2>1. UNCHANGED <<h, g, todo, history, stored>>
    BY <1>1 DEF Tools, ToolEnds, ToolStartsServer, loopVars
  <2>2. QED BY <1>0, <2>1 DEF Conversation, Live, Due
<1>2. ASSUME NEW t \in Turn, ServerLine(t) PROVE Conversation'
  <2>1. UNCHANGED <<g, todo, history, stored>>
    BY <1>2 DEF ServerLine, loopVars
  <2>2. QED BY <1>0, <2>1 DEF Conversation, Live, Due
<1>3. CASE Quit
  <2>1. /\ h' = [t \in Turn |-> IF h[t] \in {"load", "read", "save"} THEN "lost" ELSE h[t]]
        /\ g' = [t \in Turn |-> IF Live(t) THEN "end" ELSE g[t]]
        /\ history' = <<>> /\ UNCHANGED stored
    BY <1>3 DEF Quit
  <2>2. \A t \in Turn : ~Live(t)'
    BY <2>1 DEF Live
  <2>3. QED BY <1>0, <2>1, <2>2, AwaitingEmpty DEF Conversation
<1>4. QED BY <1>1, <1>2, <1>3

\* What has cut the conversation is not forgotten.
LEMMA CutGrows ==
  ASSUME Next
  PROVE  cut \subseteq cut'
<1>1. ASSUME NEW t \in Turn, Send(t) \/ Stop(t) \/ Notice(t) \/ Handler(t)
      PROVE  cut \subseteq cut'
  BY <1>1 DEF Send, Stop, Notice, Handler, Load, Drain, Save
<1>2. ASSUME NEW t \in Turn, StepStream(t)
      PROVE  cut \subseteq cut'
  BY <1>2 DEF StepStream, AddUser, Prune, GiveUp, Iterate, Chat, Stream, AppendResponse, Join,
              AddResult, EmitResult, EmitLast, Close
<1>3. ASSUME NEW t \in Turn, Tools(t) \/ ToolStartsServer(t) \/ ServerLine(t)
      PROVE  cut \subseteq cut'
  BY <1>3 DEF Tools, ToolEnds, ToolStartsServer, ServerLine
<1>4. Quit => cut \subseteq cut'
  BY DEF Quit
<1>5. QED BY <1>1, <1>2, <1>3, <1>4 DEF Next

\* As long as nothing has cut the conversation, the model is called with a history
\* in which every tool call is followed by its result: across turns that are
\* stopped, refused or lost, the sessions they switch between and the restarts
\* of the application (agent.go loopStepStream, chat.go HandleChatStream,
\* history.go).
THEOREM HistoryIsWhole == Spec => []ModelSeesWellFormed
<1> DEFINE Inv == ChatInv /\ JoinInv /\ (cut = {} => Whole)
<1>1. Init => Inv
  <2> SUFFICES ASSUME Init PROVE Whole
    BY ChatInit, JoinInit
  <2>1. /\ \A t \in Turn : h[t] = "idle" /\ ~Live(t)
        /\ history = <<>> /\ \A s \in Session : stored[s] = <<>>
    BY DEF Init, Live
  <2>2. QED BY <2>1, AwaitingEmpty DEF Whole, OneAtATime, Conversation
<1>2. Inv /\ [Next]_vars => Inv'
  <2> SUFFICES ASSUME Inv, [Next]_vars PROVE Inv'
    OBVIOUS
  <2>1. CASE UNCHANGED vars
    <3>1. UNCHANGED <<h, g, todo, history, stored, cut>> /\ ChatInv' /\ JoinInv'
      BY <2>1 DEF vars, loopVars, appVars, ChatInv, TypeOK, ResultDue, JoinInv, Shape, NotBegun,
                  ToolsJoined
    <3>2. QED BY <3>1 DEF Whole, OneAtATime, Over, Conversation, Live, Due
  <2>2. CASE Next
    <3>1. ChatInv' /\ JoinInv'
      BY <2>2, HandlerType, AskType, ResultType, OtherType, HandlerJoin, StepStreamJoin, OtherJoin
         DEF Next, StepStream
    <3>2. cut \subseteq cut'
      BY <2>2, CutGrows
    <3>3. cut' = {} => Whole'
      <4> SUFFICES ASSUME cut' = {} PROVE Whole'
        OBVIOUS
      <4>1. Whole
        BY <3>2
      <4>2. OneAtATime'
        BY <2>2, <4>1, Apart DEF Whole
      <4>3. Conversation'
        BY <2>2, <4>1, HandlerWhole, AskWhole, ResultWhole, OtherWhole DEF Next, StepStream
      <4>4. QED BY <4>2, <4>3 DEF Whole
    <3>4. QED BY <3>1, <3>3
  <2>3. QED BY <2>1, <2>2
<1>3. Inv => ModelSeesWellFormed
  <2> SUFFICES ASSUME Inv, NEW t \in Turn, g[t] = "chat", cut = {} PROVE WellFormed(history)
    BY DEF ModelSeesWellFormed
  <2>1. Awaiting(history, 0)
    BY DEF Whole, Conversation, Live, Due
  <2>2. QED BY <2>1, AwaitingNone DEF ChatInv, TypeOK
<1> HIDE DEF Inv
<1>4. QED BY <1>1, <1>2, <1>3, PTL DEF Spec

-----------------------------------------------------------------------------
(* What a session keeps.                                                   *)

\* A turn whose StepStream has added the user's message, if it added any.
Begun(t) == g[t] \notin {"idle", "user"}

\* The handler goes on from reading, and a server is started, only after that.
Order == \A t \in Turn : /\ h[t] \in {"save", "end"} \/ t \in server => Begun(t)
                         /\ g[t] = "user" => h[t] = "read"

\* Whose messages there are.
Known ==
  /\ \A i \in 1..Len(history) :
       /\ history[i].role # "torn"
       /\ history[i].role = "user" =>
            /\ history[i].turn \in Turn /\ Begun(history[i].turn)
            /\ h[history[i].turn] \in {"read", "save", "end"}
  /\ \A s \in Session : \A i \in 1..Len(stored[s]) :
       /\ stored[s][i].role # "torn"
       /\ stored[s][i].role = "user" => stored[s][i].turn \in Turn /\ h[stored[s][i].turn] = "end"

\* What the history of a turn holds of its session, and what the sessions do.
Here ==
  \A t \in Turn : h[t] \in {"read", "save"} =>
    Holds(history, sess[t], Ended(sess[t]) \cup IF Begun(t) THEN {t} ELSE {})
Saved == \A s \in Session : Holds(stored[s], s, Ended(s))

Remembered == OneAtATime /\ Known /\ Here /\ Saved

\* The elements of a history with one more.
LEMMA Appended ==
  ASSUME NEW q \in Seq(Message), NEW m \in Message
  PROVE  /\ Len(q) \in Nat /\ Append(q, m) \in Seq(Message) /\ Len(Append(q, m)) = Len(q) + 1
         /\ \A i \in 1..Len(q) : Append(q, m)[i] = q[i]
         /\ Append(q, m)[Len(q) + 1] = m
         /\ \A i \in 1..(Len(q) + 1) : i \in 1..Len(q) \/ i = Len(q) + 1
<1>1. Len(q) \in Nat
  BY LenProperties
<1>2. \A i \in 1..(Len(q) + 1) : i \in 1..Len(q) \/ i = Len(q) + 1
  BY <1>1
<1>3. QED BY <1>1, <1>2, AppendProperties

\* A message that is not the user's changes nothing that is held.
LEMMA HoldsOther ==
  ASSUME NEW q \in Seq(Message), NEW s, NEW T, NEW m \in Message, Holds(q, s, T), m.role # "user"
  PROVE  Holds(Append(q, m), s, T)
<1> DEFINE a == Append(q, m)  L == Len(q)
<1>1. /\ L \in Nat /\ Len(a) = L + 1 /\ \A i \in 1..L : a[i] = q[i]
      /\ a[L + 1] = m /\ \A i \in 1..(L + 1) : i \in 1..L \/ i = L + 1
  BY Appended
<1>2. 1..L \subseteq 1..(L + 1)
  BY <1>1
<1> HIDE DEF a
<1>3. \A i \in 1..(L + 1) : Own(a, s, i) => i \in 1..L /\ Own(q, s, i) /\ a[i] = q[i]
  BY <1>1 DEF Own
<1>4. \A i \in 1..L : Own(q, s, i) => Own(a, s, i) /\ a[i] = q[i]
  BY <1>1 DEF Own
<1>5. \A i \in 1..Len(a) : Own(a, s, i) => a[i].turn \in T
  BY <1>1, <1>3 DEF Holds
<1>6. \A t \in T : \E i \in 1..Len(a) : Own(a, s, i) /\ a[i].turn = t
  BY <1>1, <1>2, <1>4 DEF Holds
<1>7. \A i, j \in 1..Len(a) : i < j /\ Own(a, s, i) /\ Own(a, s, j) => a[i].turn < a[j].turn
  BY <1>1, <1>3 DEF Holds
<1>8. QED BY <1>5, <1>6, <1>7 DEF Holds, a

\* The message of a later turn is held behind those of the earlier ones.
LEMMA HoldsOwn ==
  ASSUME NEW q \in Seq(Message), NEW t \in Turn, NEW T \in SUBSET Turn, Holds(q, sess[t], T),
         \A u \in T : u < t, NEW m \in Message, m = Msg(t, "user", 0)
  PROVE  Holds(Append(q, m), sess[t], T \cup {t})
<1> DEFINE a == Append(q, m)  L == Len(q)  s == sess[t]
<1>1. /\ L \in Nat /\ Len(a) = L + 1 /\ \A i \in 1..L : a[i] = q[i]
      /\ a[L + 1] = m /\ \A i \in 1..(L + 1) : i \in 1..L \/ i = L + 1
  BY Appended
<1>2. 1..L \subseteq 1..(L + 1) /\ L + 1 \in 1..(L + 1) /\ \A i \in 1..L : i < L + 1 /\ ~(L + 1 < i)
  BY <1>1
<1>3. m.turn = t /\ m.role = "user" /\ ~(L + 1 < L + 1)
  BY <1>1 DEF Msg
<1> HIDE DEF a, L
<1>4. Own(a, s, L + 1) /\ a[L + 1].turn = t
  BY <1>1, <1>3 DEF Own
<1>5. \A i \in 1..L : (Own(q, s, i) <=> Own(a, s, i)) /\ a[i] = q[i]
  BY <1>1 DEF Own
<1>6. /\ \A i \in 1..L : Own(q, s, i) => q[i].turn \in T
      /\ \A u \in T : \E i \in 1..L : Own(q, s, i) /\ q[i].turn = u
      /\ \A i, j \in 1..L : i < j /\ Own(q, s, i) /\ Own(q, s, j) => q[i].turn < q[j].turn
  BY DEF Holds, L
<1>7. \A i \in 1..Len(a) : Own(a, s, i) => a[i].turn \in T \cup {t}
  BY <1>1, <1>4, <1>5, <1>6
<1>8. \A u \in T \cup {t} : \E i \in 1..Len(a) : Own(a, s, i) /\ a[i].turn = u
  <2>1. \A u \in T : \E i \in 1..L : Own(a, s, i) /\ a[i].turn = u
    BY <1>5, <1>6
  <2>2. QED BY <1>1, <1>2, <1>4, <2>1
<1>9. ASSUME NEW i \in 1..(L + 1), NEW j \in 1..(L + 1), i < j, Own(a, s, i), Own(a, s, j)
      PROVE  a[i].turn < a[j].turn
  <2>1. CASE i \in 1..L /\ j \in 1..L
    BY <1>5, <1>6, <1>9, <2>1
  <2>2. CASE i \in 1..L /\ j = L + 1
    <3>1. a[i].turn \in T
      BY <1>5, <1>6, <1>9, <2>2
    <3>2. QED BY <1>4, <2>2, <3>1
  <2>3. CASE i = L + 1
    BY <1>1, <1>2, <1>3, <1>9, <2>3
  <2>4. QED BY <1>1, <2>1, <2>2, <2>3
<1>10. QED BY <1>1, <1>7, <1>8, <1>9 DEF Holds, a, s

\* The elements of what is stored of a history.
LEMMA Marshalled ==
  ASSUME NEW q \in Seq(Message)
  PROVE  /\ Len(q) \in Nat /\ Len(Marshal(q)) = Len(q)
         /\ \A i \in 1..Len(q) : /\ Marshal(q)[i].role = "user" <=> q[i].role = "user"
                                 /\ Marshal(q)[i].role = "torn" <=> q[i].role = "torn"
                                 /\ q[i].role = "user" => Marshal(q)[i] = q[i]
<1>1. Len(q) \in Nat
  BY LenProperties
<1>2. Len(Marshal(q)) = Len(q)
  BY <1>1 DEF Marshal
<1>3. Msg(0, "blank", 0).role = "blank"
  BY DEF Msg
<1>4. \A i \in 1..Len(q) :
        Marshal(q)[i] = IF q[i].role = "system" THEN Msg(0, "blank", 0) ELSE q[i]
  BY DEF Marshal
<1>5. QED BY <1>1, <1>2, <1>3, <1>4

\* It holds the same messages.
LEMMA HoldsMarshal ==
  ASSUME NEW q \in Seq(Message), NEW s, NEW T, Holds(q, s, T)
  PROVE  Holds(Marshal(q), s, T)
<1>1. Len(Marshal(q)) = Len(q)
  BY Marshalled
<1>2. \A i \in 1..Len(q) : (Own(Marshal(q), s, i) <=> Own(q, s, i))
                           /\ (Own(q, s, i) => Marshal(q)[i] = q[i])
  BY Marshalled DEF Own
<1>3. QED BY <1>1, <1>2 DEF Holds

\* Steps that move one turn on keep the order.
LEMMA OrderKept ==
  ASSUME JoinInv, Order, NEW t \in Turn, Begun(t), server' \subseteq server \cup {t},
         g' = g \/ \E label \in Labels \ {"idle", "user"} : Goto(t, label),
         h' = h \/ h' = [h EXCEPT ![t] = "save"] \/ h' = [h EXCEPT ![t] = "end"]
  PROVE  Order'
<1>1. \A u \in Turn \ {t} : h'[u] = h[u] /\ g'[u] = g[u]
  BY DEF Goto, JoinInv, Shape
<1>2. g'[t] \notin {"idle", "user"}
  BY DEF Goto, Begun, JoinInv, Shape
<1>3. QED BY <1>1, <1>2 DEF Order, Begun

LEMMA OrderStep ==
  ASSUME JoinInv, Order, Next
  PROVE  Order'
<1>1. ASSUME NEW t \in Turn, Send(t) PROVE Order'
  <2>1. h[t] = "idle" /\ h' = [h EXCEPT ![t] = "load"] /\ UNCHANGED <<g, server>>
    BY <1>1 DEF Send, appVars
  <2>2. QED BY <2>1 DEF Order, Begun, JoinInv, Shape
<1>2. ASSUME NEW t \in Turn, Stop(t) \/ Notice(t) \/ Tools(t) PROVE Order'
  <2>1. UNCHANGED <<h, g, server>>
    BY <1>2 DEF Stop, Notice, Tools, ToolEnds, appVars
  <2>2. QED BY <2>1 DEF Order, Begun
<1>3. ASSUME NEW t \in Turn, Load(t) PROVE Order'
  <2>1. /\ h[t] = "load" /\ h' = [h EXCEPT ![t] = "read"] /\ g' = [g EXCEPT ![t] = "user"]
        /\ UNCHANGED server
    BY <1>3 DEF Load, appVars
  <2>2. t \notin server
    BY <2>1 DEF Order, Begun, JoinInv, NotBegun
  <2>3. QED BY <2>1, <2>2 DEF Order, Begun, JoinInv, Shape
<1>4. ASSUME NEW t \in Turn, Drain(t) \/ Save(t) PROVE Order'
  <2>1. Begun(t)
    BY <1>4 DEF Drain, Save, Order, Begun
  <2>2. h' = [h EXCEPT ![t] = "save"] \/ h' = [h EXCEPT ![t] = "end"]
    BY <1>4 DEF Drain, Save
  <2>3. UNCHANGED <<g, server>>
    BY <1>4 DEF Drain, Save, appVars
  <2>4. QED BY <2>1, <2>2, <2>3, OrderKept
<1>5. ASSUME NEW t \in Turn, AddUser(t) PROVE Order'
  <2>1. g[t] = "user" /\ g' = [g EXCEPT ![t] = "prune"] /\ UNCHANGED <<h, server>>
    BY <1>5 DEF AddUser, At, Goto, appVars
  <2>2. QED BY <2>1 DEF Order, Begun, JoinInv, Shape
<1>6. ASSUME NEW t \in Turn, StepStream(t), ~AddUser(t) PROVE Order'
  <2>1. Begun(t) /\ server' = server
    BY <1>6 DEF StepStream, Prune, GiveUp, Iterate, Chat, Stream, AppendResponse, Join,
                AddResult, EmitResult, EmitLast, Close, At, Begun, appVars
  <2>2. h' = h \/ Delivered(t) \/ Refused(t)
    BY <1>6 DEF StepStream, Prune, GiveUp, Iterate, Chat, Stream, AppendResponse, Join,
                AddResult, EmitResult, EmitLast, Close
  <2>3. \E label \in Labels \ {"idle", "user"} : Goto(t, label)
    BY <1>6 DEF StepStream, Prune, GiveUp, Iterate, Chat, Stream, AppendResponse, Join,
                AddResult, EmitResult, EmitLast, Close, Labels
  <2>4. h' = h \/ h' = [h EXCEPT ![t] = "save"]
    BY <2>2 DEF Delivered, Refused
  <2>5. QED BY <2>1, <2>3, <2>4, OrderKept
<1>7. ASSUME NEW t \in Turn, ToolStartsServer(t) PROVE Order'
  <2>1. running[t] # {} /\ server' = server \cup {t} /\ UNCHANGED <<h, g>>
    BY <1>7 DEF ToolStartsServer
  <2>2. Begun(t)
    BY <2>1 DEF JoinInv, ToolsJoined, Begun
  <2>3. QED BY <2>1, <2>2, OrderKept
<1>8. ASSUME NEW t \in Turn, ServerLine(t) PROVE Order'
  <2>1. t \in server /\ UNCHANGED <<g, server>> /\ (h' = h \/ h' = [h EXCEPT ![t] = "save"])
    BY <1>8 DEF ServerLine, Delivered, Refused
  <2>2. Begun(t)
    BY <2>1 DEF Order
  <2>3. QED BY <2>1, <2>2, OrderKept
<1>9. ASSUME Quit PROVE Order'
  <2>1. /\ h' = [t \in Turn |-> IF h[t] \in {"load", "read", "save"} THEN "lost" ELSE h[t]]
        /\ g' = [t \in Turn |-> IF Live(t) THEN "end" ELSE g[t]]
        /\ server' = {}
    BY <1>9 DEF Quit
  <2>2. QED BY <2>1 DEF Live, Order, Begun
<1>10. QED
  BY <1>1, <1>2, <1>3, <1>4, <1>5, <1>6, <1>7, <1>8, <1>9 DEF Next, Handler

\* Steps that leave the histories, and whose messages they must hold, alone.
LEMMA RememberedQuiet ==
  ASSUME Remembered, OneAtATime', UNCHANGED <<sess, history, stored>>,
         \A u \in Turn : /\ h'[u] = "end" <=> h[u] = "end"
                         /\ h'[u] \in {"read", "save"} <=> h[u] \in {"read", "save"}
                         /\ Begun(u)' <=> Begun(u)
  PROVE  Remembered'
<1>1. \A s : Ended(s)' = Ended(s)
  BY DEF Ended
<1>2. Known'
  BY DEF Remembered, Known
<1>3. Here'
  BY <1>1 DEF Remembered, Here, Holds, Own
<1>4. Saved'
  BY <1>1 DEF Remembered, Saved, Holds, Own
<1>5. QED BY <1>2, <1>3, <1>4 DEF Remembered

\* While a turn is neither unsent nor over, no other handler reads or saves.
LEMMA OneHandler ==
  ASSUME JoinInv, OneAtATime, NEW t \in Turn, h[t] # "idle", ~Over(t), NEW u \in Turn, u # t
  PROVE  /\ ~Live(u) /\ h[u] \notin {"read", "save"}
         /\ h[u] = "end" => u < t
<1>1. ~Live(u) /\ (u < t => Over(u)) /\ (t < u => h[u] = "idle")
  BY Alone
<1>2. u < t \/ t < u
  BY DEF Turn
<1>3. QED BY <1>1, <1>2 DEF Over

\* What is remembered after a step, from what the turn that made it has.
LEMMA RememberedThen ==
  ASSUME sess' = sess, NEW t \in Turn, OneAtATime', Known', Saved',
         \A u \in Turn \ {t} : h'[u] \notin {"read", "save"},
         h'[t] \in {"read", "save"} =>
           Holds(history', sess[t], Ended(sess[t])' \cup IF Begun(t)' THEN {t} ELSE {})
  PROVE  Remembered'
<1>1. Here'
  <2> SUFFICES ASSUME h'[t] \in {"read", "save"}
               PROVE  Holds(history, sess[t], Ended(sess[t]) \cup IF Begun(t) THEN {t} ELSE {})'
    BY DEF Here
  <2>1. QED BY DEF Holds, Own
<1>2. QED BY <1>1 DEF Remembered

\* A message is added: the user's, or one of a turn that has added that.
LEMMA RememberedAdd ==
  ASSUME ChatInv, JoinInv, Order, Remembered, OneAtATime', NEW t \in Turn, Live(t), Begun(t)',
         NEW m \in Message, m.turn = t, m.role # "torn", Add(m), UNCHANGED <<sess, h, stored>>,
         \A u \in Turn \ {t} : g'[u] = g[u],
         IF m.role = "user" THEN m = Msg(t, "user", 0) /\ g[t] = "user" ELSE Begun(t)
  PROVE  Remembered'
<1>0. /\ OneAtATime /\ Known /\ Here /\ Saved
      /\ history \in Seq(Message) /\ sess \in [Turn -> Session]
  BY DEF Remembered, ChatInv, TypeOK
<1>1. h[t] # "idle" /\ ~Over(t)
  BY DEF JoinInv, NotBegun, Live, Over
<1>2. \A u \in Turn \ {t} : ~Live(u) /\ h[u] \notin {"read", "save"} /\ (h[u] = "end" => u < t)
  BY <1>0, <1>1, OneHandler
<1>3. history # Torn
  <2>1. Len(Torn) = 1 /\ Torn[1].role = "torn" /\ 1 \in 1..1
    BY DEF Torn, Msg
  <2>2. QED BY <1>0, <2>1 DEF Known, Begun
<1>4. history' = Append(history, m)
  BY <1>2, <1>3 DEF Add
<1>5. (\A s : Ended(s)' = Ended(s)) /\ \A u \in Turn : Begun(u) => Begun(u)'
  BY DEF Ended, Begun
<1>6. m.role = "user" => h[t] = "read"
  BY DEF Order
<1>7. Known'
  <2>1. ASSUME NEW i \in 1..Len(history')
        PROVE  /\ history'[i].role # "torn"
               /\ history'[i].role = "user" =>
                    /\ history'[i].turn \in Turn /\ g'[history'[i].turn] \notin {"idle", "user"}
                    /\ h'[history'[i].turn] \in {"read", "save", "end"}
    <3>1. (i \in 1..Len(history) /\ history'[i] = history[i]) \/ history'[i] = m
      BY <1>0, <1>4, Appended
    <3>2. CASE i \in 1..Len(history) /\ history'[i] = history[i]
      BY <1>0, <1>5, <3>2 DEF Known, Begun
    <3>3. CASE history'[i] = m
      BY <1>6, <3>3 DEF Begun
    <3>4. QED BY <3>1, <3>2, <3>3
  <2>2. QED BY <1>0, <2>1 DEF Known, Begun
<1>8. Saved'
  BY <1>0, <1>5 DEF Saved, Holds, Own
<1>9. ASSUME h'[t] \in {"read", "save"}
      PROVE  Holds(history', sess[t], Ended(sess[t]) \cup {t})
  <2>1. Holds(history, sess[t], Ended(sess[t]) \cup IF Begun(t) THEN {t} ELSE {})
    BY <1>0, <1>9 DEF Here
  <2>2. CASE m.role = "user"
    <3>1. ~Begun(t)
      BY <2>2 DEF Begun
    <3>2. Holds(history, sess[t], Ended(sess[t]))
      BY <2>1, <3>1
    <3>3. Ended(sess[t]) \in SUBSET Turn /\ \A u \in Ended(sess[t]) : u < t
      BY <1>2, <1>9 DEF Ended
    <3>4. QED BY <1>0, <1>4, <2>2, <3>2, <3>3, HoldsOwn
  <2>3. CASE m.role # "user"
    BY <1>0, <1>4, <2>1, <2>3, HoldsOther
  <2>4. QED BY <2>2, <2>3
<1>10. QED BY <1>2, <1>5, <1>7, <1>8, <1>9, RememberedThen

\* A turn starts from its session's history, or from one that has no message of it.
LEMMA RememberedLoad ==
  ASSUME ChatInv, JoinInv, Order, Remembered, OneAtATime', NEW t \in Turn, Load(t)
  PROVE  Remembered'
<1> DEFINE s == sess[t]
<1>0. /\ OneAtATime /\ Known /\ Here /\ Saved /\ s \in Session
  BY DEF Remembered, ChatInv, TypeOK
<1>1. /\ h[t] = "load" /\ h' = [h EXCEPT ![t] = "read"] /\ g' = [g EXCEPT ![t] = "user"]
      /\ history' = (IF stored[s] # <<>> THEN stored[s] ELSE history)
      /\ UNCHANGED <<sess, stored>>
  BY DEF Load, Restored
<1>2. \A u \in Turn \ {t} : h[u] \notin {"read", "save"} /\ h'[u] = h[u] /\ g'[u] = g[u]
  BY <1>0, <1>1, OneHandler DEF Over, JoinInv, Shape
<1>3. h'[t] = "read" /\ ~Begun(t)' /\ ~Begun(t)
  BY <1>1 DEF JoinInv, Shape, NotBegun, Begun
<1>4. \A x : Ended(x)' = Ended(x)
  BY <1>1, <1>2, <1>3 DEF Ended
<1>5. \A u \in Turn : Begun(u) => Begun(u)'
  BY <1>2, <1>3 DEF Begun
<1>6. \A u \in Turn : h[u] = "end" => u # t /\ h'[u] = "end" /\ Begun(u)'
  BY <1>1, <1>2, <1>5 DEF Order
<1>7. Known'
  <2>1. ASSUME NEW i \in 1..Len(history')
        PROVE  /\ history'[i].role # "torn"
               /\ history'[i].role = "user" =>
                    /\ history'[i].turn \in Turn /\ g'[history'[i].turn] \notin {"idle", "user"}
                    /\ h'[history'[i].turn] \in {"read", "save", "end"}
    <3>1. CASE history' = stored[s]
      BY <1>0, <1>6, <3>1 DEF Known, Begun
    <3>2. CASE history' = history
      <4>1. history[i].role = "user" => Begun(history[i].turn)
        BY <1>0, <3>2 DEF Known
      <4>2. history[i].role = "user" => history[i].turn # t
        BY <1>3, <4>1
      <4>3. QED BY <1>0, <1>2, <1>5, <3>2, <4>2 DEF Known, Begun
    <3>3. QED BY <1>1, <3>1, <3>2
  <2>2. QED BY <1>0, <1>1, <1>6, <2>1 DEF Known, Begun
<1>8. Saved'
  BY <1>0, <1>1, <1>4 DEF Saved, Holds, Own
<1>9. Holds(history', s, Ended(s))
  <2>1. CASE stored[s] # <<>>
    BY <1>0, <1>1, <2>1 DEF Saved
  <2>2. CASE stored[s] = <<>>
    <3>1. Ended(s) = {}
      <4>1. Len(stored[s]) = 0 /\ 1..0 = {}
        BY <2>2, EmptySeq
      <4>2. \A u \in Ended(s) : \E i \in 1..Len(stored[s]) : stored[s][i].turn = u
        BY <1>0 DEF Saved, Holds
      <4>3. QED BY <4>1, <4>2
    <3>2. \A i \in 1..Len(history) : ~Own(history, s, i)
      <4> SUFFICES ASSUME NEW i \in 1..Len(history), Own(history, s, i) PROVE FALSE
        OBVIOUS
      <4> DEFINE u == history[i].turn
      <4>1. /\ u \in Turn /\ Begun(u) /\ h[u] \in {"read", "save", "end"} /\ sess[u] = s
        BY <1>0 DEF Known, Own
      <4>2. h[u] = "end"
        BY <1>2, <1>3, <4>1
      <4>3. QED BY <3>1, <4>1, <4>2 DEF Ended
    <3>3. QED BY <1>1, <2>2, <3>1, <3>2 DEF Holds
  <2>3. QED BY <2>1, <2>2
<1>10. Ended(s)' \cup (IF Begun(t)' THEN {t} ELSE {}) = Ended(s)
  <2>1. Ended(s)' = Ended(s) /\ (IF Begun(t)' THEN {t} ELSE {}) = {}
    BY <1>1, <1>3, <1>4
  <2>2. QED BY <2>1
<1>11. Holds(history', s, Ended(s)' \cup IF Begun(t)' THEN {t} ELSE {})
  BY <1>9, <1>10
<1>12. QED BY <1>1, <1>2, <1>7, <1>8, <1>11, RememberedThen

\* Its messages are saved when it ends.
LEMMA RememberedSave ==
  ASSUME ChatInv, JoinInv, Order, Remembered, OneAtATime', NEW t \in Turn, Save(t)
  PROVE  Remembered'
<1> DEFINE s == sess[t]
<1>0. /\ OneAtATime /\ Known /\ Here /\ Saved /\ s \in Session /\ history \in Seq(Message)
      /\ stored \in [Session -> Seq(Message)]
  BY DEF Remembered, ChatInv, TypeOK
<1>1. /\ h[t] = "save" /\ h' = [h EXCEPT ![t] = "end"]
      /\ stored' = IF history = <<>> THEN stored ELSE [stored EXCEPT ![s] = Marshal(history)]
      /\ UNCHANGED <<sess, g, history>>
  BY DEF Save
<1>2. \A u \in Turn \ {t} : h[u] \notin {"read", "save"} /\ h'[u] = h[u]
  BY <1>0, <1>1, OneHandler DEF Over, JoinInv, Shape
<1>3. h'[t] = "end" /\ Begun(t)
  BY <1>1 DEF JoinInv, Shape, Order
<1>4. Holds(history, s, Ended(s) \cup {t})
  BY <1>0, <1>1, <1>3 DEF Here
<1>5. history # <<>>
  <2>1. \E i \in 1..Len(history) : history[i].turn = t
    BY <1>4 DEF Holds
  <2>2. Len(<<>>) = 0 /\ 1..0 = {}
    BY EmptySeq
  <2>3. QED BY <2>1, <2>2
<1>6. /\ stored'[s] = Marshal(history)
      /\ \A x \in Session \ {s} : stored'[x] = stored[x]
  BY <1>0, <1>1, <1>5
<1>7. Ended(s)' = Ended(s) \cup {t} /\ \A x \in Session \ {s} : Ended(x)' = Ended(x)
  BY <1>1, <1>2, <1>3 DEF Ended
<1>8. Saved'
  <2>1. Holds(stored'[s], s, Ended(s)')
    BY <1>0, <1>4, <1>6, <1>7, HoldsMarshal
  <2>2. ASSUME NEW x \in Session, x # s PROVE Holds(stored'[x], x, Ended(x)')
    <3>1. stored'[x] = stored[x] /\ Ended(x)' = Ended(x)
      BY <1>6, <1>7, <2>2
    <3>2. Holds(stored[x], x, Ended(x))
      BY <1>0 DEF Saved
    <3>3. QED BY <3>1, <3>2
  <2>3. ASSUME NEW x \in Session PROVE Holds(stored'[x], x, Ended(x)')
    BY <1>1, <2>1, <2>2
  <2>4. ASSUME NEW x \in Session PROVE Holds(stored[x], x, Ended(x))'
    BY <1>1, <2>3 DEF Holds, Own
  <2>5. QED BY <2>4 DEF Saved
<1>9. Known'
  <2>1. \A i \in 1..Len(history) : history[i].role = "user" =>
          history[i].turn \in Turn /\ h'[history[i].turn] = "end"
    BY <1>0, <1>2, <1>3 DEF Known
  <2>2. \A i \in 1..Len(stored'[s]) :
          /\ stored'[s][i].role # "torn"
          /\ stored'[s][i].role = "user" =>
               stored'[s][i].turn \in Turn /\ h'[stored'[s][i].turn] = "end"
    BY <1>0, <1>6, <2>1, Marshalled DEF Known
  <2>3. ASSUME NEW x \in Session, x # s, NEW i \in 1..Len(stored'[x])
        PROVE  /\ stored'[x][i].role # "torn"
               /\ stored'[x][i].role = "user" =>
                    stored'[x][i].turn \in Turn /\ h'[stored'[x][i].turn] = "end"
    <3>1. stored'[x] = stored[x]
      BY <1>6, <2>3
    <3>2. /\ stored[x][i].role # "torn"
          /\ stored[x][i].role = "user" => stored[x][i].turn \in Turn /\ h[stored[x][i].turn] = "end"
      BY <1>0, <2>3, <3>1 DEF Known
    <3>3. \A u \in Turn : h[u] = "end" => h'[u] = "end"
      BY <1>2, <1>3
    <3>4. QED BY <3>1, <3>2, <3>3
  <2>4. \A u \in Turn : Begun(u)' <=> Begun(u)
    BY <1>1 DEF Begun
  <2>5. QED BY <1>0, <1>1, <2>1, <2>2, <2>3, <2>4 DEF Known
<1>10. QED BY <1>1, <1>2, <1>3, <1>8, <1>9, RememberedThen

\* The application quits: only what is stored is left.
LEMMA RememberedQuit ==
  ASSUME ChatInv, JoinInv, Remembered, OneAtATime', Quit
  PROVE  Remembered'
<1>1. /\ h' = [t \in Turn |-> IF h[t] \in {"load", "read", "save"} THEN "lost" ELSE h[t]]
      /\ history' = <<>> /\ UNCHANGED <<sess, stored>>
  BY DEF Quit
<1>2. \A u \in Turn : (h'[u] = "end" <=> h[u] = "end") /\ h'[u] \notin {"read", "save"}
  BY <1>1
<1>3. \A s : Ended(s)' = Ended(s)
  BY <1>1, <1>2 DEF Ended
<1>4. Here' /\ Saved'
  BY <1>1, <1>2, <1>3 DEF Here, Remembered, Saved, Holds, Own
<1>5. Known'
  <2>1. 1..Len(history') = {}
    BY <1>1, EmptySeq
  <2>2. QED BY <1>1, <1>2, <2>1 DEF Remembered, Known
<1>6. QED BY <1>4, <1>5 DEF Remembered

\* The steps of StepStream.
LEMMA RememberedStream ==
  ASSUME ChatInv, JoinInv, Order, Remembered, OneAtATime', "pruned" \notin cut',
         NEW t \in Turn, StepStream(t)
  PROVE  Remembered'
<1>0. DOMAIN g = Turn /\ todo[t] \in 0..MaxCalls
  BY DEF JoinInv, Shape, ChatInv, TypeOK
<1>1. CASE AddUser(t)
  <2> DEFINE m == Msg(t, "user", 0)
  <2>1. m \in Message /\ m.turn = t /\ m.role = "user"
    BY Bounds, MessageType DEF Msg
  <2>2. /\ g[t] = "user" /\ g' = [g EXCEPT ![t] = "prune"] /\ Add(m)
        /\ UNCHANGED <<sess, h, stored>>
    BY <1>1 DEF AddUser, At, Goto
  <2>3. Live(t) /\ Begun(t)' /\ \A u \in Turn \ {t} : g'[u] = g[u]
    BY <1>0, <2>2 DEF Live, Begun
  <2>4. QED BY <2>1, <2>2, <2>3, RememberedAdd
<1>2. CASE AppendResponse(t) \/ AddResult(t)
  <2>1. PICK m \in Message : /\ m.turn = t /\ m.role \in {"assistant", "tool"} /\ Add(m)
    <3>1. Msg(t, "tool", 0) \in Message /\ Msg(t, "tool", 0).turn = t
      BY Bounds, MessageType
    <3>2. Msg(t, "assistant", todo[t]) \in Message /\ Msg(t, "assistant", todo[t]).turn = t
      BY <1>0, Bounds, MessageType
    <3>3. Msg(t, "tool", 0).role = "tool" /\ Msg(t, "assistant", todo[t]).role = "assistant"
      BY DEF Msg
    <3>4. Add(Msg(t, "tool", 0)) \/ Add(Msg(t, "assistant", todo[t]))
      BY <1>2 DEF AppendResponse, AddResult
    <3>5. QED BY <3>1, <3>2, <3>3, <3>4
  <2>2. PICK label \in {"last", "tools", "emit"} : g' = [g EXCEPT ![t] = label]
    BY <1>2 DEF AppendResponse, AddResult, Goto
  <2>3. g[t] \in {"append", "result"} /\ UNCHANGED <<sess, h, stored>>
    BY <1>2 DEF AppendResponse, AddResult, At
  <2>4. Live(t) /\ Begun(t) /\ Begun(t)' /\ \A u \in Turn \ {t} : g'[u] = g[u]
    BY <1>0, <2>2, <2>3 DEF Live, Begun
  <2>5. QED BY <2>1, <2>3, <2>4, RememberedAdd
<1>3. CASE \/ Prune(t) \/ GiveUp(t) \/ Iterate(t) \/ Chat(t) \/ Stream(t) \/ Join(t)
           \/ EmitResult(t) \/ EmitLast(t) \/ Close(t)
  <2>1. UNCHANGED <<sess, history, stored>>
    BY <1>3 DEF Prune, GiveUp, Iterate, Chat, Stream, Join, EmitResult, EmitLast, Close
  <2>2. Begun(t)
    BY <1>3 DEF Prune, GiveUp, Iterate, Chat, Stream, Join, EmitResult, EmitLast, Close, At, Begun
  <2>3. h' = h \/ Delivered(t) \/ Refused(t)
    BY <1>3 DEF Prune, GiveUp, Iterate, Chat, Stream, Join, EmitResult, EmitLast, Close
  <2>4. PICK label \in Labels \ {"idle", "user"} : Goto(t, label)
    BY <1>3 DEF Prune, GiveUp, Iterate, Chat, Stream, Join, EmitResult, EmitLast, Close, Labels
  <2>5. h' = h \/ (h[t] = "read" /\ h' = [h EXCEPT ![t] = "save"])
    BY <2>3 DEF Delivered, Refused
  <2>6. \A u \in Turn : /\ h'[u] = "end" <=> h[u] = "end"
                        /\ h'[u] \in {"read", "save"} <=> h[u] \in {"read", "save"}
    BY <2>5 DEF JoinInv, Shape
  <2>7. \A u \in Turn : Begun(u)' <=> Begun(u)
    BY <1>0, <2>2, <2>4 DEF Begun, Goto
  <2>8. QED BY <2>1, <2>6, <2>7, RememberedQuiet
<1>4. QED BY <1>1, <1>2, <1>3 DEF StepStream

\* The other steps that leave the histories alone.
LEMMA RememberedOther ==
  ASSUME JoinInv, Remembered, OneAtATime', NEW t \in Turn,
         \/ Send(t) \/ Stop(t) \/ Notice(t) \/ Drain(t)
         \/ Tools(t) \/ ToolStartsServer(t) \/ ServerLine(t)
  PROVE  Remembered'
<1>1. UNCHANGED <<sess, g, history, stored>>
  BY DEF Send, Stop, Notice, Drain, Tools, ToolEnds, ToolStartsServer, ServerLine
<1>2. \/ h' = h
      \/ h[t] = "idle" /\ h' = [h EXCEPT ![t] = "load"]
      \/ h[t] = "read" /\ h' = [h EXCEPT ![t] = "save"]
  BY DEF Send, Stop, Notice, Drain, Tools, ToolEnds, ToolStartsServer, ServerLine, Delivered,
         Refused
<1>3. \A u \in Turn : /\ h'[u] = "end" <=> h[u] = "end"
                      /\ h'[u] \in {"read", "save"} <=> h[u] \in {"read", "save"}
  BY <1>2 DEF JoinInv, Shape
<1>4. \A u \in Turn : Begun(u)' <=> Begun(u)
  BY <1>1 DEF Begun
<1>5. QED BY <1>1, <1>3, <1>4, RememberedQuiet

\* As long as nothing was pruned and no turns overlapped, a session has kept the
\* message of every turn that ended, once and in order, and of no other: the
\* history a turn starts from, of its own session or of the one before, the
\* handler's save, early or not, and what a restart loses leave it so (chat.go
\* HandleChatStream, saveSessionData; agent.go RestoreHistory).
THEOREM TurnsAreKept == Spec => []NothingForgotten
<1> DEFINE Apt == {"pruned", "overlap"} \cap cut = {}
           Inv == ChatInv /\ JoinInv /\ Order /\ (Apt => Remembered)
<1>1. Init => Inv
  <2> SUFFICES ASSUME Init PROVE Order /\ Remembered
    BY ChatInit, JoinInit
  <2>1. /\ \A t \in Turn : h[t] = "idle" /\ g[t] = "idle" /\ t \notin server
        /\ Len(history) = 0 /\ \A s \in Session : Len(stored[s]) = 0
    BY EmptySeq DEF Init
  <2>2. Order /\ OneAtATime /\ Here
    BY <2>1 DEF Order, OneAtATime, Here
  <2>3. 1..0 = {} /\ \A s : Ended(s) = {}
    BY <2>1 DEF Ended
  <2>4. Known /\ Saved
    BY <2>1, <2>3 DEF Known, Saved, Holds
  <2>5. QED BY <2>2, <2>4 DEF Remembered
<1>2. Inv /\ [Next]_vars => Inv'
  <2> SUFFICES ASSUME Inv, [Next]_vars PROVE Inv'
    OBVIOUS
  <2>1. CASE UNCHANGED vars
    <3>1. UNCHANGED <<sess, h, g, server, history, stored, cut>> /\ ChatInv' /\ JoinInv'
      BY <2>1 DEF vars, loopVars, appVars, ChatInv, TypeOK, ResultDue, JoinInv, Shape, NotBegun,
                  ToolsJoined
    <3>2. Order' /\ (OneAtATime => OneAtATime') /\ \A t \in Turn : Begun(t)' <=> Begun(t)
      BY <3>1 DEF Order, Begun, OneAtATime, Over, Live
    <3>3. Remembered => Remembered'
      <4> SUFFICES ASSUME Remembered PROVE Remembered'
        OBVIOUS
      <4>1. OneAtATime'
        BY <3>2 DEF Remembered
      <4>2. QED BY <3>1, <3>2, <4>1, RememberedQuiet
    <3>4. QED BY <3>1, <3>2, <3>3
  <2>2. CASE Next
    <3>1. ChatInv' /\ JoinInv' /\ Order'
      BY <2>2, HandlerType, AskType, ResultType, OtherType, HandlerJoin, StepStreamJoin, OtherJoin,
         OrderStep DEF Next, StepStream
    <3>2. Apt' => Remembered'
      <4> SUFFICES ASSUME Apt' PROVE Remembered'
        OBVIOUS
      <4>1. Remembered /\ "overlap" \notin cut' /\ "pruned" \notin cut'
        BY <2>2, CutGrows
      <4>2. OneAtATime'
        BY <2>2, <4>1, Apart DEF Remembered
      <4>3. QED
        BY <2>2, <4>1, <4>2, RememberedLoad, RememberedSave, RememberedQuit, RememberedStream,
           RememberedOther DEF Next, Handler
    <3>3. QED BY <3>1, <3>2
  <2>3. QED BY <2>1, <2>2
<1>3. Inv => NothingForgotten
  BY DEF Remembered, Saved, NothingForgotten
<1> HIDE DEF Inv
<1>4. QED BY <1>1, <1>2, <1>3, PTL DEF Spec
===============================================================================
