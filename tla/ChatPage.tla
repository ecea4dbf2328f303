------------------------------ MODULE ChatPage ------------------------------
(***************************************************************************)
(* The chat page and its sessions: agent-chat.tsx, use-sessions.ts and the *)
(* send and stop of use-chat-state.ts.  Each async function of the page is *)
(* a flow; a call of the back end takes a step there and a later one back, *)
(* and an effect of React runs some time after the state it depends on was *)
(* set.  What a turn streams is one reply here (StreamView has the rest).  *)
(***************************************************************************)
EXTENDS Integers, Sequences, FiniteSets

CONSTANTS
  Sessions,  \* sessions that may exist
  Old,       \* those that may be in the database when the page opens
  Turns,     \* bound: messages the person may send
  Handlers,  \* bound: async functions of the page under way beside the turns'
  MaxActs    \* bound: messages sent, sessions selected, deleted, created, cleared

ASSUME PageConstants ==
  /\ Old \subseteq Sessions /\ MaxActs \in Nat
  /\ {"none", "refused"} \cap Sessions = {} /\ "none" \notin Turns
  /\ "mount" \notin Turns \cup Handlers /\ Turns \cap Handlers = {}

VARIABLES
  exist,     \* the sessions in the database
  db,        \* their display messages
  removed,   \* the sessions deleted; an id is not given twice
  served,    \* what the server does with each turn, and for which session
  flow,      \* the async functions under way: mount, handlers, the turns
  acts,      \* what the person did so far
  listed,    \* sessions, the list of the sidebar
  selected,  \* currentSessionId
  loaded,    \* sessionMessages
  effect,    \* the effect on selected and loaded has still to run
  messages,  \* the chat view
  loading,   \* isLoading
  abort,     \* abortRef: the turn its controller belongs to
  ensuring,  \* loadingRef
  initial,   \* initialLoadRef
  hurried,   \* a message was sent while another one found its session (history)
  shown,     \* the session whose messages were loaded last (history)
  crossed,   \* another one was selected when they came (history)
  lags     \* named reasons why the view is not what is stored (history)

serverVars == <<exist, db, removed, served>>
listVars == <<listed, selected, loaded, effect>>
chatVars == <<messages, loading, abort, ensuring>>
viewVars == <<shown, crossed, lags>>
chatPageVars == <<serverVars, flow, acts, listVars, initial, chatVars, hurried, viewVars>>

User(t) == <<"user", t>>
Reply(t) == <<"reply", t>>
Welcome == <<"welcome", 0>>
Failure == <<"failure", 0>>

AtRest == [pc |-> "idle"]
\* Asking for the list of sessions, or for the messages of one, and what comes next.
Relist(next) == [pc |-> "list", got |-> {}, next |-> next]
Fetching(s, next) == [pc |-> "fetch", session |-> s, got |-> <<>>, next |-> next]
Flows == {"mount"} \cup Handlers \cup Turns
Streaming == {t \in Turns : flow[t].pc = "streaming"}
\* Turns whose message waits for its session.
Finding == {t \in Turns : flow[t].pc # "idle" /\ served[t].state = "none"}

ChatPageInit ==
  /\ exist \in SUBSET Old /\ db = [s \in Sessions |-> <<>>] /\ removed = {}
  /\ served = [t \in Turns |-> [state |-> "none", session |-> "none"]]
  /\ flow = [f \in Flows |-> IF f = "mount" THEN Relist(AtRest) ELSE AtRest]
  /\ acts = 0 /\ listed = {} /\ selected = "none" /\ loaded = <<>> /\ effect = FALSE
  /\ messages = <<Welcome>> /\ loading = FALSE /\ abort = "none"
  /\ ensuring = FALSE /\ initial = TRUE /\ hurried = FALSE
  /\ shown = "none" /\ crossed = FALSE /\ lags = {}

-----------------------------------------------------------------------------
(* What the flows share.                                                    *)

Go(f, record) == flow' = [flow EXCEPT ![f] = record]

\* setCurrentSessionId; React runs the effect if the value changed.
Select(s) == selected' = s /\ effect' = (effect \/ s # selected)

\* What the page has loaded becomes messages, those of s as they once were.
SetMessages(s, msgs) ==
  /\ loaded' = msgs /\ effect' = TRUE
  /\ shown' = s
  /\ lags' = (lags \ {"late", "unread"})
                 \cup {x \in {"late"} : s # "none" /\ msgs # db[s]}

\* With setSessionMessages([]), for a session that may have messages by now.
SelectEmpty(s) == selected' = s /\ SetMessages(s, <<>>) /\ crossed' = FALSE

\* GetSessionMessages and GetSessions read; their answers take a step of their own.
Read(f) ==
  /\ flow[f].pc = "fetch"
  /\ flow' = [flow EXCEPT ![f].pc = "fetched", ![f].got = db[flow[f].session]]
  /\ UNCHANGED <<serverVars, acts, listVars, initial, chatVars, hurried, viewVars>>

ReadList(f) ==
  /\ flow[f].pc = "list"
  /\ flow' = [flow EXCEPT ![f].pc = "listed", ![f].got = exist]
  /\ UNCHANGED <<serverVars, acts, listVars, initial, chatVars, hurried, viewVars>>

\* setSessionMessages, whatever session is selected by now.
Take(f) ==
  /\ flow[f].pc = "fetched"
  /\ SetMessages(flow[f].session, flow[f].got)
  /\ crossed' = (flow[f].session # selected)

\* The view is written, and no load follows for it.
Untold(alone) == lags' = IF alone THEN lags \cup {"local"} ELSE lags

\* sendMessage up to its request; nothing ran since its caller went on.
Send(t, session, closure) ==
  /\ messages' = Append(messages, User(t))
  /\ loading' = TRUE /\ abort' = t
  /\ Go(t, [pc |-> "streaming", closure |-> closure])
  /\ served' = [served EXCEPT ![t] = [state |-> "asked", session |-> session]]

\* ensureSession and createSession return.
Return_KeepsFlag(f, s) ==
  IF f \in Turns THEN Send(f, s, "none") /\ UNCHANGED ensuring
  ELSE Go(f, AtRest) /\ UNCHANGED <<chatVars, served>>
Return(f, s) ==
  IF f \in Turns THEN Send(f, s, "none") /\ ensuring' = FALSE
  ELSE Go(f, AtRest) /\ UNCHANGED <<chatVars, served>>

-----------------------------------------------------------------------------
(* use-sessions.ts                                                          *)

\* refreshSessions: the first list that is not empty selects its first session.
Refresh(f) ==
  /\ flow[f].pc = "listed" /\ flow[f].next.pc # "ensure"
  /\ listed' = flow[f].got
  /\ IF initial /\ flow[f].got # {}
     THEN \E s \in flow[f].got :
            initial' = FALSE /\ Select(s) /\ Go(f, Fetching(s, flow[f].next))
     ELSE Go(f, flow[f].next) /\ UNCHANGED <<initial, selected, effect>>
  /\ UNCHANGED <<serverVars, acts, loaded, chatVars, hurried, viewVars>>

\* The messages of refreshSessions, selectSession, refreshSessionMessages.
Fetched(f) ==
  /\ flow[f].pc = "fetched" /\ flow[f].next.pc # "ensured"
  /\ Take(f) /\ Go(f, flow[f].next)
  /\ UNCHANGED <<serverVars, acts, listed, selected, initial, chatVars, hurried>>

\* ensureSession: the first session of the list, or a new one.
Ensure(t) ==
  /\ flow[t].pc = "listed" /\ flow[t].next.pc = "ensure"
  /\ listed' = flow[t].got
  /\ IF flow[t].got # {}
     THEN \E s \in flow[t].got : Select(s) /\ Go(t, Fetching(s, [pc |-> "ensured"]))
     ELSE Go(t, [pc |-> "create"]) /\ UNCHANGED <<selected, effect>>
  /\ UNCHANGED <<serverVars, acts, loaded, initial, chatVars, hurried, viewVars>>

Ensured(t) ==
  /\ flow[t].pc = "fetched" /\ flow[t].next.pc = "ensured"
  /\ Take(t) /\ Return(t, flow[t].session)
  /\ UNCHANGED <<exist, db, removed, acts, listed, selected, initial, hurried>>

\* createSession: the session, or none; the list; the selection.
Create(f) ==
  /\ flow[f].pc = "create"
  /\ \/ \E s \in Sessions \ (exist \cup removed) :
          /\ exist' = exist \cup {s}
          /\ Go(f, Relist([pc |-> "created", session |-> s]))
          /\ UNCHANGED <<served, chatVars, lags>>
     \/ Return(f, "refused") /\ Untold(f \in Turns) /\ UNCHANGED exist
  /\ UNCHANGED <<db, removed, acts, listVars, initial, hurried, shown, crossed>>

Created(f) ==
  /\ flow[f].pc = "created"
  /\ SelectEmpty(flow[f].session) /\ Return(f, flow[f].session)
  /\ UNCHANGED <<exist, db, removed, acts, listed, initial, hurried>>

\* deleteSession: the row and its messages, the list, and the selection if the
\* session was selected when Delete was pressed.
Delete(h) ==
  LET s == flow[h].session
  IN /\ flow[h].pc = "delete"
     /\ exist' = exist \ {s} /\ db' = [db EXCEPT ![s] = <<>>] /\ removed' = removed \cup {s}
     /\ Go(h, Relist([flow[h] EXCEPT !.pc = "deleted"]))
     /\ lags' = IF s = shown THEN lags \cup {"unread"} ELSE lags
     /\ UNCHANGED <<served, acts, listVars, initial, chatVars, hurried, shown, crossed>>

Deleted(h) ==
  /\ flow[h].pc = "deleted"
  /\ IF flow[h].closure = flow[h].session
     THEN SelectEmpty("none")
     ELSE UNCHANGED <<selected, loaded, effect, viewVars>>
  /\ Go(h, AtRest)
  /\ UNCHANGED <<serverVars, acts, listed, initial, chatVars, hurried>>

\* The effect of agent-chat.tsx: the session's messages replace the view.
View(msgs) == IF msgs = <<>> THEN <<Welcome>> ELSE msgs
Effect ==
  /\ effect /\ effect' = FALSE
  /\ IF selected = "none" THEN UNCHANGED <<messages, lags>>
     ELSE messages' = View(loaded) /\ lags' = lags \ {"local"}
  /\ UNCHANGED <<serverVars, flow, acts, listed, selected, loaded, initial,
                 loading, abort, ensuring, hurried, shown, crossed>>

-----------------------------------------------------------------------------
(* The person                                                               *)

Act == acts < MaxActs /\ acts' = acts + 1

\* A click whose function is not awaited by the next one: answers cross.
Operate(h) == Act /\ flow[h] = AtRest

\* Enter in the prompt: handleSend.
Press(t) ==
  /\ Act /\ flow[t].pc = "idle" /\ ~loading
  /\ hurried' = (hurried \/ Finding # {})
  /\ IF selected # "none" THEN Send(t, selected, selected) /\ UNCHANGED <<ensuring, lags>>
     ELSE IF ensuring THEN Send(t, "none", "none") /\ Untold(TRUE) /\ UNCHANGED ensuring
     ELSE /\ ensuring' = TRUE /\ Go(t, Relist([pc |-> "ensure"]))
          /\ UNCHANGED <<served, messages, loading, abort, lags>>
  /\ UNCHANGED <<exist, db, removed, listVars, initial, shown, crossed>>

\* stopGeneration; the reader of the aborted stream finds out later.
Stop ==
  /\ loading /\ abort' = "none"
  /\ flow' = IF abort \in Streaming THEN [flow EXCEPT ![abort].pc = "aborted"] ELSE flow
  /\ UNCHANGED <<serverVars, acts, listVars, initial, messages, loading, ensuring,
                 hurried, viewVars>>

SelectSession(h, s) ==
  /\ Operate(h) /\ s \in listed /\ Select(s) /\ Go(h, Fetching(s, AtRest))
  /\ UNCHANGED <<serverVars, listed, loaded, initial, chatVars, hurried, viewVars>>

ClearMessages == messages' = <<>> /\ Untold(TRUE)

ClearChat ==
  /\ Act /\ ClearMessages
  /\ UNCHANGED <<serverVars, flow, listVars, initial, loading, abort, ensuring, hurried,
                 shown, crossed>>

NewChat(h) ==
  /\ Operate(h) /\ ClearMessages /\ Go(h, [pc |-> "create"])
  /\ UNCHANGED <<serverVars, listVars, initial, loading, abort, ensuring, hurried,
                 shown, crossed>>

DeleteSession(h, s) ==
  /\ Operate(h) /\ s \in listed
  /\ IF selected = s THEN ClearMessages ELSE UNCHANGED <<messages, lags>>
  /\ Go(h, [pc |-> "delete", session |-> s, closure |-> selected])
  /\ UNCHANGED <<serverVars, listVars, initial, loading, abort, ensuring, hurried,
                 shown, crossed>>

-----------------------------------------------------------------------------
(* A turn and its server                                                    *)

ReplyShown(t) ==
  /\ t \in Streaming /\ served[t].state = "asked"
  /\ served' = [served EXCEPT ![t].state = "replied"]
  /\ messages' = Append(messages, Reply(t))
  /\ Untold(flow[t].closure = "none")
  /\ UNCHANGED <<exist, db, removed, flow, acts, listVars, initial, loading, abort,
                 ensuring, hurried, shown, crossed>>

\* saveSessionData, before the response ends; also when the client has left.
Save(t) ==
  LET s == served[t].session
      reloads == t \in Streaming /\ flow[t].closure # "none"
  IN /\ \/ served[t].state = "replied"
        \/ served[t].state = "asked" /\ t \notin Streaming
     /\ served' = [served EXCEPT ![t].state = "saved"]
     /\ db' = IF s \in exist THEN [db EXCEPT ![s] = @ \o <<User(t), Reply(t)>>] ELSE db
     /\ lags' = IF s = shown /\ ~reloads THEN lags \cup {"unread"} ELSE lags
     /\ UNCHANGED <<exist, removed, flow, acts, listVars, initial, chatVars, hurried,
                    shown, crossed>>

\* finally of sendMessage, then the two refreshes of handleSend: with the
\* session selected when the message was sent, and not at all without one.
Finish_NoRefresh(t) ==
  loading' = FALSE /\ abort' = "none" /\ Go(t, [pc |-> "over"])
Finish(t) ==
  /\ loading' = FALSE /\ abort' = "none"
  /\ LET over == [pc |-> "over"]
         reload == IF flow[t].closure = "none" THEN over
                   ELSE Fetching(flow[t].closure, over)
     IN \/ served[t].session \notin Sessions /\ Go(t, over)
        \/ /\ served[t].session \in Sessions
           /\ \E h \in Handlers :
                /\ flow[h] = AtRest
                /\ flow' = [flow EXCEPT ![t] = reload, ![h] = Relist(AtRest)]

Replied(t) ==
  /\ t \in Streaming /\ served[t].state = "saved" /\ Finish(t)
  /\ UNCHANGED <<serverVars, acts, listVars, initial, messages, ensuring, hurried, viewVars>>

Aborted_SkipsFinally(t) ==
  /\ flow[t].pc = "aborted" /\ Go(t, [pc |-> "over"])
  /\ UNCHANGED <<serverVars, acts, listVars, initial, chatVars, hurried, viewVars>>
Aborted(t) ==
  /\ flow[t].pc = "aborted" /\ Finish(t)
  /\ UNCHANGED <<serverVars, acts, listVars, initial, messages, ensuring, hurried, viewVars>>

\* fetch or the reader throws something else than AbortError.
Disconnected(t) ==
  /\ t \in Streaming /\ served[t].state # "saved" /\ Finish(t)
  /\ messages' = Append(messages, Failure)
  /\ Untold(flow[t].closure = "none")
  /\ UNCHANGED <<serverVars, acts, listVars, initial, ensuring, hurried, shown, crossed>>

\* What follows an await at once runs before anything else.
Due == {f \in Flows : flow[f].pc \in {"created", "deleted"}}

ChatPageNext ==
  IF Due # {} THEN \E f \in Due : Created(f) \/ Deleted(f)
  ELSE \/ Effect \/ Stop \/ ClearChat
       \/ \E h \in Handlers : \/ NewChat(h) \/ Delete(h)
                            \/ \E s \in Sessions : SelectSession(h, s) \/ DeleteSession(h, s)
       \/ \E f \in Flows : \/ ReadList(f) \/ Refresh(f) \/ Read(f) \/ Fetched(f)
                           \/ Create(f)
       \/ \E t \in Turns :
            \/ Press(t) \/ Ensure(t) \/ Ensured(t)
            \/ ReplyShown(t) \/ Save(t) \/ Replied(t) \/ Aborted(t) \/ Disconnected(t)

ChatPageSpec == ChatPageInit /\ [][ChatPageNext]_chatPageVars

-----------------------------------------------------------------------------
\* The page shows "Thinking..." only with a turn to end it, and a send that found
\* its session lets the next one look for its own (use-chat-state.ts finally,
\* use-sessions.ts loadingRef).  One turn streams at a time, the page shows it and
\* Stop reaches it, unless a message was sent while an earlier one was finding
\* its session.
LoadingHonest ==
  /\ loading => \E t \in Turns : flow[t].pc \in {"streaming", "aborted"}
  /\ ensuring => Finding # {}
  /\ ~hurried => /\ Streaming \subseteq {abort}
                 /\ Streaming # {} => loading

\* A turn is sent with a session, so that it is saved, unless none could be
\* created or it was sent while an earlier one was finding its session.
TurnHasSession ==
  \A t \in Turns : served[t].state # "none" /\ served[t].session = "none" => hurried

\* When nothing is under way and a session is selected, the view is the session
\* whose messages came last, as it is stored, and that is the one selected, unless
\* another was selected when they came (selectSession does not look again, nor does
\* the refresh after a turn).  A turn reloads its session when it ends, whatever was
\* selected and replaced while it streamed.  The view may lag if the answer was
\* older than what is stored ("late"), a turn was saved after it was stopped, or
\* without a selection, or the session deleted ("unread"), or the view was cleared
\* or written by a turn that had no selection ("local").
QuietView ==
  /\ \A f \in Flows : flow[f].pc \in {"idle", "over"}
  /\ ~effect /\ selected # "none"
  => /\ shown = selected \/ crossed
     /\ lags = {} => messages = View(db[shown])
=============================================================================
