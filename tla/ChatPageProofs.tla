--------------------------- MODULE ChatPageProofs ----------------------------
(***************************************************************************)
(* The chat page: the turns it sends, the sessions they get, and what the  *)
(* view shows when nothing is under way, for any sessions, turns and       *)
(* functions under way at once, and any number of steps.                   *)
(***************************************************************************)
EXTENDS ChatPage, TLAPS

-----------------------------------------------------------------------------
(* The chat page: its flows, the turns they send, and what the view shows. *)

\* The records a flow may be.
Over == [pc |-> "over"]
CreatedFlow == [pc : {"created"}, session : Sessions]
DeletedFlow == [pc : {"deleted"}, session : Sessions, closure : Sessions \cup {"none"}]
DeleteFlow  == [pc : {"delete"}, session : Sessions, closure : Sessions \cup {"none"}]
Ends == {AtRest, Over} \cup CreatedFlow \cup DeletedFlow

FetchFlow(r) ==
  /\ DOMAIN r = {"pc", "session", "got", "next"}
  /\ r.pc \in {"fetch", "fetched"} /\ r.session \in Sessions
  /\ r.next \in Ends \cup {[pc |-> "ensured"]}
ListFlow(r) ==
  /\ DOMAIN r = {"pc", "got", "next"}
  /\ r.pc \in {"list", "listed"} /\ r.got \subseteq Sessions
  /\ r.next \in Ends \cup {[pc |-> "ensure"]}
RunFlow(r) ==
  /\ DOMAIN r = {"pc", "closure"}
  /\ r.pc \in {"streaming", "aborted"} /\ r.closure \in Sessions \cup {"none"}
Kind(r) ==
  \/ r \in {AtRest, Over, [pc |-> "create"]}
  \/ r \in CreatedFlow \cup DeletedFlow \cup DeleteFlow
  \/ FetchFlow(r) \/ ListFlow(r) \/ RunFlow(r)

PageTypes ==
  /\ exist \subseteq Sessions /\ DOMAIN db = Sessions /\ listed \subseteq Sessions
  /\ {selected, shown} \subseteq Sessions \cup {"none"}
  /\ served \in [Turns -> [state : {"none", "asked", "replied", "saved"},
                           session : Sessions \cup {"none", "refused"}]]
  /\ DOMAIN flow = Flows /\ \A f \in Flows : Kind(flow[f])
  /\ {effect, loading, ensuring, initial, hurried, crossed} \subseteq BOOLEAN

\* A turn looks for its session until it is sent, and not again.
Seeks(r) ==
  \/ r.pc \in {"idle", "create", "created"}
  \/ r.pc \in {"fetch", "fetched", "list", "listed"} /\ r.next.pc \in {"ensure", "ensured", "created"}
Sent(r) ==
  \/ r.pc \in {"streaming", "aborted", "over"}
  \/ r.pc \in {"fetch", "fetched"} /\ r.next.pc = "over"
TurnFlows == \A t \in Turns : IF served[t].state = "none" THEN Seeks(flow[t]) ELSE Sent(flow[t])

\* The turns that stream, or do so no more and have not ended.
Run == {t \in Turns : flow[t].pc \in {"streaming", "aborted"}}

\* A turn that was sent with the selected session is served for it.
Closures == \A t \in Run : flow[t].closure # "none" => served[t].session = flow[t].closure

OneFinds == (ensuring <=> Finding # {}) /\ \A t, u \in Finding : t = u
OneRuns ==
  /\ loading => Run # {}
  /\ ~hurried =>
       /\ \A t, u \in Run : t = u
       /\ Run # {} => loading /\ Finding = {}
       /\ Streaming \subseteq {abort}

\* The sessions whose messages are to come, and the turns that will load those of
\* their session.
Asks(r, s) == r.pc \in {"fetch", "fetched"} /\ r.session = s
Coming == {s \in Sessions : \E f \in Flows : Asks(flow[f], s)}
Reloads(t) == \/ flow[t].pc \in {"streaming", "aborted"} /\ flow[t].closure # "none"
              \/ flow[t].pc \in {"fetch", "fetched"}
Reloading == \E t \in Turns : Reloads(t)

Asked == selected # "none" =>
           shown = selected \/ crossed \/ selected \in Coming
Crossing == crossed => shown \in Sessions
LoadedStored ==
  ~Reloading /\ shown \in Sessions /\ lags \cap {"late", "unread"} = {} => loaded = db[shown]
Shows ==
  ~Reloading /\ ~effect /\ selected # "none" /\ "local" \notin lags => messages = View(loaded)
ViewInv == Asked /\ Crossing /\ LoadedStored /\ Shows

\* The names of the flows.
LEMMA FlowNames ==
  /\ "mount" \in Flows /\ Handlers \subseteq Flows /\ Turns \subseteq Flows
  /\ "mount" \notin Turns /\ Turns \cap Handlers = {} /\ "none" \notin Turns
  /\ "none" \notin Sessions /\ "refused" \notin Sessions /\ Old \subseteq Sessions
BY PageConstants DEF PageConstants, Flows

\* One flow goes on and the others wait.
LEMMA Goes ==
  ASSUME PageTypes, NEW f \in Flows, NEW r, Go(f, r)
  PROVE  /\ DOMAIN flow' = Flows /\ flow'[f] = r
         /\ \A x \in Flows : x # f => flow'[x] = flow[x]
         /\ Kind(r) => \A x \in Flows : Kind(flow'[x])
BY DEF PageTypes, Go

\* What comes after a fetch or a list is a flow as well.
LEMMA EndKind ==
  ASSUME NEW r \in Ends
  PROVE  Kind(r) /\ r.pc \in {"idle", "over", "created", "deleted"}
<1>1. CASE r \in {AtRest, Over}
  BY <1>1 DEF Kind, AtRest, Over
<1>2. CASE r \in CreatedFlow
  BY <1>2 DEF Kind, CreatedFlow
<1>3. CASE r \in DeletedFlow
  BY <1>3 DEF Kind, DeletedFlow
<1>4. QED BY <1>1, <1>2, <1>3 DEF Ends

LEMMA FetchKind ==
  ASSUME NEW s \in Sessions, NEW r \in Ends \cup {[pc |-> "ensured"]}
  PROVE  /\ Kind(Fetching(s, r)) /\ Fetching(s, r).pc = "fetch"
         /\ Fetching(s, r).next = r /\ Fetching(s, r).session = s
BY DEF Fetching, FetchFlow, Kind

LEMMA ListKind ==
  ASSUME NEW r \in Ends \cup {[pc |-> "ensure"]}
  PROVE  Kind(Relist(r)) /\ Relist(r).pc = "list" /\ Relist(r).next = r
BY DEF Relist, ListFlow, Kind

\* What a flow is, from where it stands.
LEMMA HasNext ==
  ASSUME PageTypes, NEW f \in Flows
  PROVE  /\ flow[f].pc \in {"fetch", "fetched"} => FetchFlow(flow[f])
         /\ flow[f].pc \in {"list", "listed"} => ListFlow(flow[f])
         /\ flow[f].pc = "created" => flow[f] \in CreatedFlow
         /\ flow[f].pc = "deleted" => flow[f] \in DeletedFlow
         /\ flow[f].pc = "delete" => flow[f] \in DeleteFlow
         /\ flow[f].pc \in {"streaming", "aborted"} => RunFlow(flow[f])
         /\ flow[f].pc = "idle" => flow[f] = AtRest
<1>1. Kind(flow[f])
  BY DEF PageTypes
<1>2. CASE flow[f] \in {AtRest, Over, [pc |-> "create"]}
  BY <1>2 DEF AtRest, Over
<1>3. CASE flow[f] \in CreatedFlow \cup DeletedFlow \cup DeleteFlow
  BY <1>3 DEF CreatedFlow, DeletedFlow, DeleteFlow
<1>4. CASE FetchFlow(flow[f]) \/ ListFlow(flow[f]) \/ RunFlow(flow[f])
  BY <1>4 DEF FetchFlow, ListFlow, RunFlow
<1>5. QED BY <1>1, <1>2, <1>3, <1>4 DEF Kind

FlowTypes == DOMAIN flow = Flows /\ \A f \in Flows : Kind(flow[f])
ServedTypes ==
  served \in [Turns -> [state : {"none", "asked", "replied", "saved"},
                        session : Sessions \cup {"none", "refused"}]]

\* The messages of a session, or none, are loaded.
LEMMA LoadTypes ==
  ASSUME NEW s \in Sessions \cup {"none"}, NEW m, SetMessages(s, m)
  PROVE  effect' = TRUE /\ shown' \in Sessions \cup {"none"}
BY DEF SetMessages

\* A message is sent.
LEMMA SendTypes ==
  ASSUME PageTypes, NEW t \in Turns, NEW s \in Sessions \cup {"none", "refused"},
         NEW c \in Sessions \cup {"none"}, Send(t, s, c)
  PROVE  /\ FlowTypes' /\ ServedTypes' /\ loading' = TRUE /\ abort' = t
         /\ flow'[t] = [pc |-> "streaming", closure |-> c]
         /\ \A f \in Flows : f # t => flow'[f] = flow[f]
         /\ served'[t] = [state |-> "asked", session |-> s]
         /\ \A u \in Turns : u # t => served'[u] = served[u]
<1> DEFINE r == [pc |-> "streaming", closure |-> c]
<1>1. /\ Go(t, r) /\ served' = [served EXCEPT ![t] = [state |-> "asked", session |-> s]]
      /\ loading' = TRUE /\ abort' = t
  BY DEF Send
<1>2. Kind(r)
  BY DEF RunFlow, Kind
<1>3. served'[t] = [state |-> "asked", session |-> s] /\ ServedTypes'
      /\ \A u \in Turns : u # t => served'[u] = served[u]
  BY <1>1 DEF PageTypes, ServedTypes
<1>4. t \in Flows
  BY FlowNames
<1> HIDE DEF r
<1>5. FlowTypes' /\ flow'[t] = r /\ \A f \in Flows : f # t => flow'[f] = flow[f]
  BY <1>1, <1>2, <1>4, Goes DEF FlowTypes
<1>6. QED BY <1>1, <1>3, <1>5 DEF r

\* A session was found or refused, for a turn or for the person.
LEMMA ReturnTypes ==
  ASSUME PageTypes, NEW f \in Flows, NEW s \in Sessions \cup {"refused"}, Return(f, s)
  PROVE  FlowTypes' /\ ServedTypes' /\ {loading', ensuring'} \subseteq BOOLEAN
<1>1. CASE f \in Turns
  <2>1. Send(f, s, "none") /\ ensuring' = FALSE
    BY <1>1 DEF Return
  <2>2. QED BY <1>1, <2>1, SendTypes
<1>2. CASE f \notin Turns
  <2>1. Go(f, AtRest) /\ UNCHANGED <<loading, ensuring, served>>
    BY <1>2 DEF Return, chatVars
  <2>2. Kind(AtRest)
    BY DEF Kind
  <2>3. QED BY <2>1, <2>2, Goes DEF FlowTypes, ServedTypes, PageTypes
<1>3. QED BY <1>1, <1>2

\* A turn ends: its session is loaded again if it was sent with one, and an idle
\* function of the page asks for the list.
LEMMA FinishTypes ==
  ASSUME PageTypes, NEW t \in Turns, flow[t].pc \in {"streaming", "aborted"}, Finish(t)
  PROVE  /\ FlowTypes' /\ loading' = FALSE /\ abort' = "none"
         /\ \A f \in Flows : f = t \/ flow'[f] = flow[f] \/ (f \notin Turns /\ flow[f] = AtRest)
         /\ Sent(flow'[t]) /\ flow'[t].pc \in {"over", "fetch"}
         /\ flow[t].closure # "none" /\ served[t].session = flow[t].closure => Reloads(t)'
<1> DEFINE c == flow[t].closure
           m == IF c = "none" THEN Over ELSE Fetching(c, Over)
<1>0. t \in Flows /\ c \in Sessions \cup {"none"}
  BY FlowNames, HasNext DEF RunFlow
<1>1. loading' = FALSE /\ abort' = "none"
  BY DEF Finish
<1>2. Kind(m) /\ m.pc \in {"over", "fetch"} /\ (c # "none" => m.pc = "fetch") /\ Sent(m)
  <2>1. Over \in Ends /\ Over.pc = "over" /\ Kind(Over)
    BY DEF Ends, Over, Kind
  <2>2. c # "none" => /\ Kind(m) /\ m.pc = "fetch" /\ m.next = Over
    BY <1>0, <2>1, FetchKind
  <2>3. QED BY <2>1, <2>2 DEF Sent
<1>3. Kind(Relist(AtRest))
  BY ListKind DEF Ends
<1>4. CASE served[t].session \notin Sessions /\ Go(t, Over)
  <2>1. Kind(Over) /\ Sent(Over) /\ Over.pc = "over"
    BY DEF Kind, Sent, Over
  <2>2. FlowTypes' /\ flow'[t] = Over /\ \A f \in Flows : f # t => flow'[f] = flow[f]
    BY <1>0, <1>4, <2>1, Goes DEF FlowTypes
  <2>3. ~(c # "none" /\ served[t].session = c)
    BY <1>0, <1>4
  <2>4. QED BY <1>1, <2>1, <2>2, <2>3
<1>5. ASSUME NEW h \in Handlers, flow[h] = AtRest,
             flow' = [flow EXCEPT ![t] = m, ![h] = Relist(AtRest)]
      PROVE  /\ FlowTypes' /\ flow'[t] = m
             /\ \A f \in Flows : f = t \/ flow'[f] = flow[f] \/ (f \notin Turns /\ flow[f] = AtRest)
  <2> HIDE DEF m
  <2>1. h \in Flows /\ h \notin Turns /\ h # t
    BY FlowNames
  <2>2. /\ DOMAIN flow' = Flows /\ flow'[t] = m /\ flow'[h] = Relist(AtRest)
        /\ \A f \in Flows : f \in {t, h} \/ flow'[f] = flow[f]
    BY <1>0, <1>5, <2>1 DEF PageTypes
  <2>3. \A f \in Flows : Kind(flow'[f])
    BY <1>2, <1>3, <2>2 DEF PageTypes
  <2>4. QED BY <1>5, <2>1, <2>2, <2>3 DEF FlowTypes
<1>6. \/ served[t].session \notin Sessions /\ Go(t, Over)
      \/ \E h \in Handlers : flow[h] = AtRest /\ flow' = [flow EXCEPT ![t] = m, ![h] = Relist(AtRest)]
  BY DEF Finish, Over
<1> HIDE DEF m
<1>7. CASE \E h \in Handlers : flow[h] = AtRest /\ flow' = [flow EXCEPT ![t] = m, ![h] = Relist(AtRest)]
  BY <1>1, <1>2, <1>5, <1>7 DEF Reloads
<1>8. QED BY <1>4, <1>6, <1>7

\* The types of the page after a step of a flow.
LEMMA FlowStepTypes ==
  ASSUME PageTypes, NEW f \in Flows,
         \/ ReadList(f) \/ Refresh(f) \/ Read(f) \/ Fetched(f) \/ Create(f) \/ Created(f)
         \/ f \in Turns /\ (Ensure(f) \/ Ensured(f))
         \/ f \in Handlers /\ Delete(f)
         \/ Deleted(f)
  PROVE  PageTypes'
<1>1. CASE Refresh(f)
  <2>0. /\ flow[f].next \in Ends /\ flow[f].got \subseteq Sessions /\ listed' = flow[f].got
        /\ UNCHANGED <<exist, db, served, loading, ensuring, hurried, shown, crossed>>
    BY <1>1, HasNext DEF Refresh, ListFlow, serverVars, chatVars, viewVars
  <2>1. CASE initial /\ flow[f].got # {}
    <3>1. PICK s \in flow[f].got : initial' = FALSE /\ Select(s) /\ Go(f, Fetching(s, flow[f].next))
      BY <1>1, <2>1 DEF Refresh
    <3>2. s \in Sessions /\ selected' = s /\ effect' \in BOOLEAN
      BY <2>0, <3>1 DEF Select, PageTypes
    <3>3. FlowTypes'
      BY <2>0, <3>1, <3>2, FetchKind, Goes DEF FlowTypes
    <3>4. QED BY <2>0, <3>1, <3>2, <3>3 DEF PageTypes, FlowTypes
  <2>2. CASE ~(initial /\ flow[f].got # {})
    <3>1. Go(f, flow[f].next) /\ UNCHANGED <<initial, selected, effect>>
      BY <1>1, <2>2 DEF Refresh
    <3>2. FlowTypes'
      BY <2>0, <3>1, EndKind, Goes DEF FlowTypes
    <3>3. QED BY <2>0, <3>1, <3>2 DEF PageTypes, FlowTypes
  <2>3. QED BY <2>1, <2>2
<1>2. CASE Read(f)
  <2> DEFINE r == [flow[f] EXCEPT !.pc = "fetched", !.got = db[flow[f].session]]
  <2>1. FetchFlow(flow[f])
    BY <1>2, HasNext DEF Read
  <2>2. FetchFlow(r)
    BY <2>1 DEF FetchFlow
  <2>3. Go(f, r) /\ UNCHANGED <<serverVars, listVars, chatVars, viewVars, hurried, initial>>
    BY <1>2 DEF Read, Go
  <2> HIDE DEF r
  <2>4. FlowTypes'
    BY <2>2, <2>3, Goes DEF FlowTypes, Kind
  <2>5. QED BY <2>3, <2>4 DEF PageTypes, FlowTypes, serverVars, listVars, chatVars, viewVars
<1>r. CASE ReadList(f)
  <2> DEFINE r == [flow[f] EXCEPT !.pc = "listed", !.got = exist]
  <2>1. ListFlow(flow[f])
    BY <1>r, HasNext DEF ReadList
  <2>2. ListFlow(r)
    BY <2>1 DEF ListFlow, PageTypes
  <2>3. Go(f, r) /\ UNCHANGED <<serverVars, listVars, chatVars, viewVars, hurried, initial>>
    BY <1>r DEF ReadList, Go
  <2> HIDE DEF r
  <2>4. FlowTypes'
    BY <2>2, <2>3, Goes DEF FlowTypes, Kind
  <2>5. QED BY <2>3, <2>4 DEF PageTypes, FlowTypes, serverVars, listVars, chatVars, viewVars
<1>3. CASE Fetched(f)
  <2>1. FetchFlow(flow[f]) /\ flow[f].next \in Ends
    BY <1>3, HasNext DEF Fetched, FetchFlow
  <2>2. Kind(flow[f].next)
    BY <2>1, EndKind
  <2>3. Go(f, flow[f].next)
        /\ UNCHANGED <<exist, db, served, listed, loading, ensuring, hurried, initial, selected>>
    BY <1>3 DEF Fetched, serverVars, chatVars
  <2>4. effect' = TRUE /\ shown' \in Sessions \cup {"none"} /\ crossed' \in BOOLEAN
    BY <1>3, <2>1, LoadTypes DEF Fetched, Take, FetchFlow
  <2>5. FlowTypes'
    BY <2>2, <2>3, Goes DEF FlowTypes
  <2>6. QED BY <2>3, <2>4, <2>5 DEF PageTypes, FlowTypes
<1>4. CASE Create(f)
  <2>1. UNCHANGED <<db, listed, selected, effect, initial, hurried, shown, crossed>>
    BY <1>4 DEF Create, listVars
  <2>2. CASE Return(f, "refused") /\ exist' = exist
    BY <2>1, <2>2, ReturnTypes DEF PageTypes, FlowTypes, ServedTypes
  <2>3. CASE ~(Return(f, "refused") /\ exist' = exist)
    <3>1. PICK s \in Sessions :
            /\ exist' = exist \cup {s}
            /\ Go(f, Relist([pc |-> "created", session |-> s]))
            /\ UNCHANGED <<served, chatVars>>
      BY <1>4, <2>3 DEF Create
    <3>2. [pc |-> "created", session |-> s] \in Ends
      BY DEF Ends, CreatedFlow
    <3>3. FlowTypes'
      BY <3>1, <3>2, ListKind, Goes DEF FlowTypes
    <3>4. QED BY <2>1, <3>1, <3>3 DEF PageTypes, FlowTypes, chatVars
  <2>4. QED BY <2>2, <2>3
<1>5. CASE Created(f)
  <2>1. flow[f].session \in Sessions
    BY <1>5, HasNext DEF Created, CreatedFlow
  <2>2. /\ selected' = flow[f].session /\ SetMessages(flow[f].session, <<>>) /\ crossed' = FALSE
        /\ Return(f, flow[f].session) /\ UNCHANGED <<exist, db, listed, initial, hurried>>
    BY <1>5 DEF Created, SelectEmpty
  <2>3. effect' = TRUE /\ shown' \in Sessions \cup {"none"}
    BY <2>1, <2>2, LoadTypes
  <2>4. QED BY <2>1, <2>2, <2>3, ReturnTypes DEF PageTypes, FlowTypes, ServedTypes
<1>6. CASE f \in Turns /\ Ensure(f)
  <2>0. /\ flow[f].got \subseteq Sessions /\ listed' = flow[f].got
        /\ UNCHANGED <<exist, db, served, loading, ensuring, hurried, initial, shown, crossed>>
    BY <1>6, HasNext DEF Ensure, ListFlow, serverVars, chatVars, viewVars
  <2>1. CASE flow[f].got # {}
    <3>1. PICK s \in flow[f].got : Select(s) /\ Go(f, Fetching(s, [pc |-> "ensured"]))
      BY <1>6, <2>1 DEF Ensure
    <3>2. s \in Sessions /\ selected' = s /\ effect' \in BOOLEAN
      BY <2>0, <3>1 DEF Select, PageTypes
    <3>3. Kind(Fetching(s, [pc |-> "ensured"]))
      BY <3>2, FetchKind
    <3>4. FlowTypes'
      BY <3>1, <3>3, Goes DEF FlowTypes
    <3>5. QED BY <2>0, <3>2, <3>4 DEF PageTypes, FlowTypes
  <2>2. CASE flow[f].got = {}
    <3>1. Go(f, [pc |-> "create"]) /\ UNCHANGED <<selected, effect>>
      BY <1>6, <2>2 DEF Ensure
    <3>2. FlowTypes'
      BY <3>1, Goes DEF FlowTypes, Kind
    <3>3. QED BY <2>0, <3>1, <3>2 DEF PageTypes, FlowTypes
  <2>3. QED BY <2>1, <2>2
<1>7. CASE f \in Turns /\ Ensured(f)
  <2>1. flow[f].session \in Sessions
    BY <1>7, HasNext DEF Ensured, FetchFlow
  <2>2. /\ effect' = TRUE /\ shown' \in Sessions \cup {"none"} /\ crossed' \in BOOLEAN
        /\ Return(f, flow[f].session) /\ UNCHANGED <<exist, db, listed, initial, hurried, selected>>
    BY <1>7, <2>1, LoadTypes DEF Ensured, Take
  <2>3. QED BY <2>1, <2>2, ReturnTypes DEF PageTypes, FlowTypes, ServedTypes
<1>8. CASE f \in Handlers /\ Delete(f)
  <2> DEFINE r == [flow[f] EXCEPT !.pc = "deleted"]
  <2>1. flow[f] \in DeleteFlow
    BY <1>8, HasNext DEF Delete
  <2>2. r \in DeletedFlow
    BY <2>1 DEF DeleteFlow, DeletedFlow
  <2>3. Go(f, Relist(r)) /\ exist' = exist \ {flow[f].session} /\ DOMAIN db' = DOMAIN db
        /\ UNCHANGED <<served, chatVars, listVars, hurried, initial, shown, crossed>>
    BY <1>8 DEF Delete
  <2> HIDE DEF r
  <2>4. Kind(Relist(r))
    BY <2>2, ListKind DEF Ends
  <2>5. FlowTypes'
    BY <2>3, <2>4, Goes DEF FlowTypes
  <2>6. QED BY <2>3, <2>5 DEF PageTypes, FlowTypes, chatVars, listVars
<1>9. CASE Deleted(f)
  <2>1. Kind(AtRest)
    BY DEF Kind
  <2>2. Go(f, AtRest) /\ UNCHANGED <<exist, db, served, listed, loading, ensuring, hurried, initial>>
    BY <1>9 DEF Deleted, serverVars, chatVars
  <2>3. \/ selected' = "none" /\ SetMessages("none", <<>>) /\ crossed' = FALSE
        \/ UNCHANGED <<selected, effect, shown, crossed>>
    BY <1>9 DEF Deleted, SelectEmpty, viewVars
  <2>4. /\ {selected', shown'} \subseteq Sessions \cup {"none"}
        /\ {effect', crossed'} \subseteq BOOLEAN
    BY <2>3, LoadTypes DEF PageTypes
  <2>5. FlowTypes'
    BY <2>1, <2>2, Goes DEF FlowTypes
  <2>6. QED BY <2>2, <2>4, <2>5 DEF PageTypes, FlowTypes
<1>10. QED BY <1>1, <1>2, <1>r, <1>3, <1>4, <1>5, <1>6, <1>7, <1>8, <1>9

\* And after one of the person, the server or the effect.
LEMMA PersonTypes ==
  ASSUME PageTypes,
         \/ Effect \/ Stop \/ ClearChat
         \/ \E h \in Handlers :
              NewChat(h) \/ \E s \in Sessions : SelectSession(h, s) \/ DeleteSession(h, s)
  PROVE  PageTypes'
<1>1. CASE Effect \/ ClearChat
  <2>1. /\ UNCHANGED <<exist, db, served, flow, listed, selected, loading, ensuring, hurried, initial>>
        /\ UNCHANGED <<shown, crossed>> /\ effect' \in {FALSE, effect}
    BY <1>1 DEF Effect, ClearChat, serverVars, listVars
  <2>2. QED BY <2>1 DEF PageTypes
<1>2. CASE Stop
  <2>1. UNCHANGED <<exist, db, served, loading, ensuring, hurried, initial, listVars, viewVars>>
    BY <1>2 DEF Stop, serverVars
  <2>2. CASE abort \in Streaming
    <3> DEFINE r == [flow[abort] EXCEPT !.pc = "aborted"]
    <3>1. abort \in Flows /\ RunFlow(flow[abort])
      BY <2>2, FlowNames, HasNext DEF Streaming
    <3>2. RunFlow(r)
      BY <3>1 DEF RunFlow
    <3>3. Go(abort, r)
      BY <1>2, <2>2 DEF Stop, Go
    <3> HIDE DEF r
    <3>4. FlowTypes'
      BY <3>1, <3>2, <3>3, Goes DEF FlowTypes, Kind
    <3>5. QED BY <2>1, <3>4 DEF PageTypes, FlowTypes, listVars, viewVars
  <2>3. CASE abort \notin Streaming
    BY <1>2, <2>1, <2>3 DEF Stop, PageTypes, listVars, viewVars
  <2>4. QED BY <2>2, <2>3
<1>3. ASSUME NEW h \in Handlers, NewChat(h) PROVE PageTypes'
  <2>1. Go(h, [pc |-> "create"])
        /\ UNCHANGED <<exist, db, served, listVars, loading, ensuring, hurried, initial, shown, crossed>>
    BY <1>3 DEF NewChat, serverVars
  <2>2. FlowTypes'
    BY <2>1, FlowNames, Goes DEF FlowTypes, Kind
  <2>3. QED BY <2>1, <2>2 DEF PageTypes, FlowTypes, listVars
<1>4. ASSUME NEW h \in Handlers, NEW s \in Sessions, SelectSession(h, s) PROVE PageTypes'
  <2>1. Go(h, Fetching(s, AtRest))
        /\ UNCHANGED <<exist, db, served, listed, chatVars, hurried, initial, viewVars>>
    BY <1>4 DEF SelectSession, serverVars
  <2>2. selected' = s /\ effect' \in BOOLEAN
    BY <1>4 DEF SelectSession, Select, PageTypes
  <2>3. Kind(Fetching(s, AtRest))
    BY FetchKind DEF Ends
  <2>4. FlowTypes'
    BY <2>1, <2>3, FlowNames, Goes DEF FlowTypes
  <2>5. QED BY <2>1, <2>2, <2>4 DEF PageTypes, FlowTypes, chatVars, viewVars
<1>5. ASSUME NEW h \in Handlers, NEW s \in Sessions, DeleteSession(h, s) PROVE PageTypes'
  <2> DEFINE r == [pc |-> "delete", session |-> s, closure |-> selected]
  <2>1. Go(h, r)
        /\ UNCHANGED <<exist, db, served, listVars, loading, ensuring, hurried, initial, shown, crossed>>
    BY <1>5 DEF DeleteSession, serverVars
  <2>2. r \in DeleteFlow
    BY DEF DeleteFlow, PageTypes
  <2> HIDE DEF r
  <2>3. FlowTypes'
    BY <2>1, <2>2, FlowNames, Goes DEF FlowTypes, Kind
  <2>4. QED BY <2>1, <2>3 DEF PageTypes, FlowTypes, listVars
<1>6. QED BY <1>1, <1>2, <1>3, <1>4, <1>5

LEMMA TurnTypes ==
  ASSUME PageTypes, NEW t \in Turns,
         Press(t) \/ ReplyShown(t) \/ Save(t) \/ Replied(t) \/ Aborted(t) \/ Disconnected(t)
  PROVE  PageTypes'
<1>0. t \in Flows
  BY FlowNames
<1>1. CASE Press(t)
  <2>1. UNCHANGED <<exist, db, listVars, initial, shown, crossed>> /\ hurried' \in BOOLEAN
    BY <1>1 DEF Press, PageTypes
  <2>2. CASE \E s \in Sessions \cup {"none"} : Send(t, s, s) /\ UNCHANGED ensuring
    BY <2>1, <2>2, SendTypes DEF PageTypes, FlowTypes, ServedTypes, listVars
  <2>3. CASE Go(t, Relist([pc |-> "ensure"])) /\ ensuring' = TRUE /\ UNCHANGED <<served, loading>>
    <3>1. FlowTypes'
      BY <1>0, <2>3, ListKind, Goes DEF FlowTypes
    <3>2. QED BY <2>1, <2>3, <3>1 DEF PageTypes, FlowTypes, listVars
  <2>4. QED BY <1>1, <2>2, <2>3 DEF Press, PageTypes
<1>2. CASE ReplyShown(t) \/ Save(t)
  <2>1. UNCHANGED <<exist, flow, loading, ensuring, hurried, initial, listVars, shown, crossed>>
    BY <1>2 DEF ReplyShown, Save, chatVars
  <2>2. ServedTypes'
    BY <1>2 DEF ReplyShown, Save, ServedTypes, PageTypes
  <2>3. DOMAIN db' = Sessions
    BY <1>2 DEF ReplyShown, Save, PageTypes
  <2>4. QED BY <2>1, <2>2, <2>3 DEF PageTypes, ServedTypes, listVars
<1>3. CASE Replied(t) \/ Aborted(t) \/ Disconnected(t)
  <2>1. flow[t].pc \in {"streaming", "aborted"} /\ Finish(t)
        /\ UNCHANGED <<exist, db, served, ensuring, hurried, initial, listVars, shown, crossed>>
    BY <1>3 DEF Replied, Aborted, Disconnected, Streaming, serverVars, viewVars
  <2>2. QED BY <2>1, FinishTypes DEF PageTypes, FlowTypes, listVars
<1>4. QED BY <1>1, <1>2, <1>3
-----------------------------------------------------------------------------
(* The turns: one looks for its session at a time.                         *)

TurnsInv == TurnFlows /\ Closures /\ OneFinds /\ OneRuns /\ TurnHasSession

\* Steps that send and end no turn.
LEMMA TurnsQuiet ==
  ASSUME PageTypes, TurnsInv, UNCHANGED <<served, loading, abort, ensuring, hurried>>,
         \A t \in Turns : \/ flow'[t] = flow[t]
                          \/ /\ flow'[t].pc \notin {"idle", "streaming", "aborted"}
                             /\ flow[t].pc \notin {"idle", "streaming", "aborted"}
                             /\ IF served[t].state = "none" THEN Seeks(flow'[t]) ELSE Sent(flow'[t])
  PROVE  TurnsInv'
<1>1. TurnFlows'
  BY DEF TurnsInv, TurnFlows
<1>2. Run' = Run /\ Streaming' = Streaming /\ Finding' = Finding
  BY DEF Run, Streaming, Finding
<1>3. Closures'
  BY <1>2 DEF TurnsInv, Closures, Run
<1>4. OneFinds' /\ OneRuns'
  BY <1>2 DEF TurnsInv, OneFinds, OneRuns
<1>5. TurnHasSession'
  BY DEF TurnsInv, TurnHasSession
<1>6. QED BY <1>1, <1>3, <1>4, <1>5 DEF TurnsInv

\* A turn is sent, at once or when it has found its session.
LEMMA TurnsSend ==
  ASSUME PageTypes, TurnsInv, NEW t \in Turns, served[t].state = "none",
         NEW s \in Sessions \cup {"none", "refused"}, NEW c \in Sessions \cup {"none"},
         Send(t, s, c), c # "none" => s = c, s = "none" => hurried',
         \/ /\ t \in Finding /\ ensuring' = FALSE /\ hurried' = hurried
         \/ /\ flow[t].pc = "idle" /\ ~loading /\ ensuring' = ensuring
            /\ hurried' = (hurried \/ Finding # {})
  PROVE  TurnsInv'
<1>1. /\ loading' = TRUE /\ abort' = t
      /\ flow'[t] = [pc |-> "streaming", closure |-> c]
      /\ \A f \in Flows : f # t => flow'[f] = flow[f]
      /\ served'[t] = [state |-> "asked", session |-> s]
      /\ \A u \in Turns : u # t => served'[u] = served[u]
  BY SendTypes
<1>2. \A u \in Turns : u # t => flow'[u] = flow[u]
  BY <1>1, FlowNames
<1>3. TurnFlows'
  BY <1>1, <1>2 DEF TurnsInv, TurnFlows, Sent
<1>4. /\ Run' = Run \cup {t} /\ Finding' = Finding \ {t} /\ Streaming' = Streaming \cup {t}
  BY <1>1, <1>2 DEF Run, Streaming, Finding
<1>5. Closures'
  BY <1>1, <1>2 DEF TurnsInv, Closures, Run
<1>6. TurnHasSession'
  <2>1. hurried => hurried'
    OBVIOUS
  <2>2. \A u \in Turns : u # t /\ served'[u].state # "none" /\ served'[u].session = "none" => hurried
    BY <1>1 DEF TurnsInv, TurnHasSession
  <2>3. served'[t].session = "none" => hurried'
    BY <1>1
  <2>4. QED BY <2>1, <2>2, <2>3 DEF TurnHasSession
<1>7. OneFinds'
  <2>1. t \in Finding => Finding' = {} /\ ensuring' = FALSE
    BY <1>4 DEF TurnsInv, OneFinds, Finding
  <2>2. t \notin Finding => Finding' = Finding /\ ensuring' = ensuring
    BY <1>4
  <2>3. QED BY <2>1, <2>2 DEF TurnsInv, OneFinds
<1>8. OneRuns'
  <2>1. ~hurried' => Run = {} /\ Finding' = {}
    BY <1>4 DEF TurnsInv, OneRuns, OneFinds, Finding
  <2>2. Streaming \subseteq Run
    BY DEF Streaming, Run
  <2>3. QED BY <1>1, <1>4, <2>1, <2>2 DEF OneRuns
<1>9. QED BY <1>3, <1>5, <1>6, <1>7, <1>8 DEF TurnsInv

\* A turn ends.
LEMMA TurnsFinish ==
  ASSUME PageTypes, TurnsInv, NEW t \in Run, Finish(t), UNCHANGED <<served, ensuring, hurried>>
  PROVE  TurnsInv'
<1>0. t \in Turns /\ flow[t].pc \in {"streaming", "aborted"}
  BY DEF Run
<1>1. /\ loading' = FALSE /\ abort' = "none"
      /\ \A f \in Flows : f = t \/ flow'[f] = flow[f] \/ f \notin Turns
      /\ Sent(flow'[t]) /\ flow'[t].pc \in {"over", "fetch"}
  BY <1>0, FinishTypes
<1>2. \A u \in Turns : u # t => flow'[u] = flow[u]
  BY <1>1, FlowNames
<1>3. served[t].state # "none"
  BY <1>0 DEF TurnsInv, TurnFlows, Seeks
<1>4. /\ Run' = Run \ {t} /\ Finding' = Finding /\ Streaming' = Streaming \ {t}
  BY <1>0, <1>1, <1>2, <1>3 DEF Run, Streaming, Finding
<1>5. TurnFlows'
  BY <1>1, <1>2, <1>3 DEF TurnsInv, TurnFlows
<1>6. Closures' /\ TurnHasSession'
  <2>1. Closures'
    BY <1>2, <1>4 DEF TurnsInv, Closures, Run
  <2>2. TurnHasSession'
    BY DEF TurnsInv, TurnHasSession
  <2>3. QED BY <2>1, <2>2
<1>7. OneFinds'
  BY <1>4 DEF TurnsInv, OneFinds
<1>8. OneRuns'
  <2>1. ~hurried => Run' = {} /\ Streaming' = {}
    BY <1>4 DEF TurnsInv, OneRuns, Streaming, Run
  <2>2. QED BY <1>1, <1>4, <2>1 DEF OneRuns
<1>9. QED BY <1>5, <1>6, <1>7, <1>8 DEF TurnsInv

\* What a turn's fetch or list goes on with.
LEMMA TurnNext ==
  ASSUME PageTypes, TurnsInv, NEW t \in Turns,
         flow[t].pc \in {"fetch", "fetched", "list", "listed"}, flow[t].next \in Ends
  PROVE  /\ flow[t].next.pc \in {"created", "over"}
         /\ IF served[t].state = "none" THEN flow[t].next.pc = "created" ELSE
              flow[t].next.pc = "over" /\ flow[t].pc \in {"fetch", "fetched"}
         /\ IF served[t].state = "none" THEN Seeks(flow[t].next) ELSE Sent(flow[t].next)
<1>1. flow[t].next.pc \in {"idle", "over", "created", "deleted"}
  BY EndKind
<1>2. IF served[t].state = "none" THEN flow[t].next.pc \in {"ensure", "ensured", "created"}
      ELSE flow[t].next.pc = "over" /\ flow[t].pc \in {"fetch", "fetched"}
  BY DEF TurnsInv, TurnFlows, Seeks, Sent
<1>3. QED BY <1>1, <1>2 DEF Seeks, Sent

\* A flow goes on to another step, and if it is a turn's, it neither sends nor ends it.
LEMMA TurnsGo ==
  ASSUME PageTypes, TurnsInv, UNCHANGED <<served, loading, abort, ensuring, hurried>>,
         NEW f \in Flows, NEW r, Go(f, r),
         f \in Turns =>
           /\ r.pc \notin {"idle", "streaming", "aborted"}
           /\ flow[f].pc \notin {"idle", "streaming", "aborted"}
           /\ IF served[f].state = "none" THEN Seeks(r) ELSE Sent(r)
  PROVE  TurnsInv'
<1>1. flow'[f] = r /\ \A x \in Flows : x # f => flow'[x] = flow[x]
  BY Goes
<1>2. QED BY <1>1, FlowNames, TurnsQuiet

LEMMA TurnsReturn ==
  ASSUME PageTypes, TurnsInv, NEW f \in Flows, NEW s \in Sessions \cup {"refused"}, Return(f, s),
         hurried' = hurried,
         f \in Turns => flow[f].pc # "idle" /\ served[f].state = "none"
  PROVE  TurnsInv'
<1>1. CASE f \in Turns
  <2>1. Send(f, s, "none") /\ ensuring' = FALSE
    BY <1>1 DEF Return
  <2>2. f \in Finding /\ s # "none"
    BY <1>1, FlowNames DEF Finding
  <2>3. QED BY <1>1, <2>1, <2>2, TurnsSend
<1>2. CASE f \notin Turns
  <2>1. Go(f, AtRest) /\ UNCHANGED <<served, loading, abort, ensuring>>
    BY <1>2 DEF Return, chatVars
  <2>2. QED BY <1>2, <2>1, TurnsGo
<1>3. QED BY <1>1, <1>2

LEMMA FlowStepTurns ==
  ASSUME PageTypes, TurnsInv, NEW f \in Flows,
         \/ ReadList(f) \/ Refresh(f) \/ Read(f) \/ Fetched(f) \/ Create(f) \/ Created(f)
         \/ f \in Turns /\ (Ensure(f) \/ Ensured(f))
         \/ f \in Handlers /\ Delete(f)
         \/ Deleted(f)
  PROVE  TurnsInv'
<1>1. CASE Refresh(f)
  <2>0. flow[f].pc = "listed" /\ flow[f].next \in Ends /\ flow[f].got \subseteq Sessions
        /\ UNCHANGED <<served, loading, abort, ensuring, hurried>>
    BY <1>1, HasNext DEF Refresh, ListFlow, serverVars, chatVars
  <2>n. f \in Turns => /\ served[f].state = "none" /\ flow[f].next.pc = "created"
                       /\ Seeks(flow[f].next)
    BY <2>0, TurnNext
  <2>1. CASE initial /\ flow[f].got # {}
    <3>1. PICK s \in flow[f].got : Go(f, Fetching(s, flow[f].next))
      BY <1>1, <2>1 DEF Refresh
    <3>2. Fetching(s, flow[f].next).pc = "fetch" /\ Fetching(s, flow[f].next).next = flow[f].next
      BY DEF Fetching
    <3>3. f \in Turns => Seeks(Fetching(s, flow[f].next))
      BY <2>n, <3>2 DEF Seeks
    <3>4. QED BY <2>0, <2>n, <3>1, <3>2, <3>3, TurnsGo
  <2>2. CASE ~(initial /\ flow[f].got # {})
    <3>1. Go(f, flow[f].next)
      BY <1>1, <2>2 DEF Refresh
    <3>2. QED BY <2>0, <2>n, <3>1, TurnsGo
  <2>3. QED BY <2>1, <2>2
<1>2. CASE Read(f)
  <2> DEFINE r == [flow[f] EXCEPT !.pc = "fetched", !.got = db[flow[f].session]]
  <2>1. FetchFlow(flow[f]) /\ flow[f].pc = "fetch"
    BY <1>2, HasNext DEF Read
  <2>2. r.pc = "fetched" /\ r.next = flow[f].next
    BY <2>1 DEF FetchFlow
  <2>3. Go(f, r) /\ UNCHANGED <<served, loading, abort, ensuring, hurried>>
    BY <1>2 DEF Read, Go, serverVars, chatVars
  <2> HIDE DEF r
  <2>4. f \in Turns => IF served[f].state = "none" THEN Seeks(r) ELSE Sent(r)
    BY <2>1, <2>2 DEF TurnsInv, TurnFlows, Seeks, Sent
  <2>5. QED BY <2>1, <2>2, <2>3, <2>4, TurnsGo
<1>r. CASE ReadList(f)
  <2> DEFINE r == [flow[f] EXCEPT !.pc = "listed", !.got = exist]
  <2>1. ListFlow(flow[f]) /\ flow[f].pc = "list"
    BY <1>r, HasNext DEF ReadList
  <2>2. r.pc = "listed" /\ r.next = flow[f].next
    BY <2>1 DEF ListFlow
  <2>3. Go(f, r) /\ UNCHANGED <<served, loading, abort, ensuring, hurried>>
    BY <1>r DEF ReadList, Go, serverVars, chatVars
  <2> HIDE DEF r
  <2>4. f \in Turns => IF served[f].state = "none" THEN Seeks(r) ELSE Sent(r)
    BY <2>1, <2>2 DEF TurnsInv, TurnFlows, Seeks, Sent
  <2>5. QED BY <2>1, <2>2, <2>3, <2>4, TurnsGo
<1>3. CASE Fetched(f)
  <2>1. flow[f].pc = "fetched" /\ flow[f].next \in Ends /\ Go(f, flow[f].next)
        /\ UNCHANGED <<served, loading, abort, ensuring, hurried>>
    BY <1>3, HasNext DEF Fetched, FetchFlow, serverVars, chatVars
  <2>2. f \in Turns => /\ flow[f].next.pc \notin {"idle", "streaming", "aborted"}
                       /\ IF served[f].state = "none" THEN Seeks(flow[f].next) ELSE Sent(flow[f].next)
    BY <2>1, TurnNext
  <2>3. QED BY <2>1, <2>2, TurnsGo
<1>s. \/ flow[f].pc \in {"create", "created", "listed"}
      \/ flow[f].pc = "fetched" /\ flow[f].next.pc = "ensured"
      => (f \in Turns => served[f].state = "none")
  BY DEF TurnsInv, TurnFlows, Seeks, Sent
<1>4. CASE Create(f)
  <2>1. hurried' = hurried /\ flow[f].pc = "create"
    BY <1>4 DEF Create
  <2>2. CASE Return(f, "refused")
    BY <1>s, <2>1, <2>2, TurnsReturn
  <2>3. CASE ~Return(f, "refused")
    <3>1. PICK s \in Sessions :
            /\ Go(f, Relist([pc |-> "created", session |-> s]))
            /\ UNCHANGED <<served, chatVars>>
      BY <1>4, <2>3 DEF Create
    <3>2. /\ Relist([pc |-> "created", session |-> s]).pc = "list"
          /\ Seeks(Relist([pc |-> "created", session |-> s]))
      BY DEF Seeks, Relist
    <3>3. QED BY <1>s, <2>1, <3>1, <3>2, TurnsGo DEF chatVars
  <2>4. QED BY <2>2, <2>3
<1>5. CASE Created(f)
  <2>1. flow[f].session \in Sessions /\ flow[f].pc = "created"
    BY <1>5, HasNext DEF Created, CreatedFlow
  <2>2. Return(f, flow[f].session) /\ hurried' = hurried
    BY <1>5 DEF Created
  <2>3. QED BY <1>s, <2>1, <2>2, TurnsReturn
<1>6. CASE f \in Turns /\ Ensure(f)
  <2>1. flow[f].pc = "listed" /\ UNCHANGED <<served, loading, abort, ensuring, hurried>>
    BY <1>6 DEF Ensure, serverVars, chatVars
  <2>2. PICK r : Go(f, r) /\ Seeks(r) /\ r.pc \in {"fetch", "create"}
    <3>1. \A s : /\ Fetching(s, [pc |-> "ensured"]).pc = "fetch"
                 /\ Seeks(Fetching(s, [pc |-> "ensured"]))
      BY DEF Seeks, Fetching
    <3>2. Seeks([pc |-> "create"])
      BY DEF Seeks
    <3>3. QED BY <1>6, <3>1, <3>2 DEF Ensure
  <2>3. QED BY <1>6, <1>s, <2>1, <2>2, TurnsGo
<1>7. CASE f \in Turns /\ Ensured(f)
  <2>1. flow[f].session \in Sessions /\ flow[f].pc = "fetched" /\ flow[f].next.pc = "ensured"
    BY <1>7, HasNext DEF Ensured, FetchFlow
  <2>2. Return(f, flow[f].session) /\ hurried' = hurried
    BY <1>7 DEF Ensured
  <2>3. QED BY <1>s, <2>1, <2>2, TurnsReturn
<1>8. CASE f \in Handlers /\ Delete(f)
  <2>1. f \notin Turns /\ UNCHANGED <<served, loading, abort, ensuring, hurried>>
    BY <1>8, FlowNames DEF Delete, chatVars
  <2>2. \E r : Go(f, r)
    BY <1>8 DEF Delete
  <2>3. QED BY <2>1, <2>2, TurnsGo
<1>9. CASE Deleted(f)
  <2>1. flow[f].pc = "deleted" /\ Go(f, AtRest)
        /\ UNCHANGED <<served, loading, abort, ensuring, hurried>>
    BY <1>9 DEF Deleted, serverVars, chatVars
  <2>2. f \notin Turns
    BY <2>1 DEF TurnsInv, TurnFlows, Seeks, Sent
  <2>3. QED BY <2>1, <2>2, TurnsGo
<1>10. QED BY <1>1, <1>2, <1>r, <1>3, <1>4, <1>5, <1>6, <1>7, <1>8, <1>9

LEMMA PersonTurns ==
  ASSUME PageTypes, TurnsInv,
         \/ Effect \/ Stop \/ ClearChat
         \/ \E h \in Handlers :
              NewChat(h) \/ \E s \in Sessions : SelectSession(h, s) \/ DeleteSession(h, s)
  PROVE  TurnsInv'
<1>1. CASE Effect \/ ClearChat
  <2>1. UNCHANGED <<served, flow, loading, abort, ensuring, hurried>>
    BY <1>1 DEF Effect, ClearChat, serverVars
  <2>2. QED BY <2>1, TurnsQuiet
<1>2. ASSUME NEW h \in Handlers,
             NewChat(h) \/ \E s \in Sessions : SelectSession(h, s) \/ DeleteSession(h, s)
      PROVE  TurnsInv'
  <2>1. UNCHANGED <<served, loading, abort, ensuring, hurried>>
    BY <1>2 DEF NewChat, SelectSession, DeleteSession, serverVars, chatVars
  <2>2. \E r : Go(h, r)
    BY <1>2 DEF NewChat, SelectSession, DeleteSession
  <2>3. h \in Flows /\ h \notin Turns
    BY FlowNames
  <2>4. QED BY <2>1, <2>2, <2>3, TurnsGo
<1>3. CASE Stop
  <2>1. /\ abort' = "none" /\ UNCHANGED <<served, loading, ensuring, hurried>>
        /\ flow' = IF abort \in Streaming THEN [flow EXCEPT ![abort].pc = "aborted"] ELSE flow
    BY <1>3 DEF Stop, serverVars
  <2>2. CASE abort \in Streaming
    <3> DEFINE r == [flow[abort] EXCEPT !.pc = "aborted"]
    <3>1. abort \in Turns /\ abort \in Flows /\ flow[abort].pc = "streaming" /\ RunFlow(flow[abort])
      BY <2>2, FlowNames, HasNext DEF Streaming
    <3>2. r.pc = "aborted" /\ r.closure = flow[abort].closure
      BY <3>1 DEF RunFlow
    <3> HIDE DEF r
    <3>3. flow'[abort] = r /\ \A t \in Turns : t # abort => flow'[t] = flow[t]
      BY <2>1, <2>2, <3>1, FlowNames DEF PageTypes, r
    <3>4. Run' = Run /\ Finding' = Finding /\ Streaming' = Streaming \ {abort}
      BY <2>1, <3>1, <3>2, <3>3 DEF Run, Finding, Streaming
    <3>5. TurnFlows'
      BY <2>1, <3>1, <3>2, <3>3 DEF TurnsInv, TurnFlows, Seeks, Sent
    <3>6. Closures'
      BY <2>1, <3>2, <3>3, <3>4 DEF TurnsInv, Closures, Run
    <3>7. OneFinds' /\ TurnHasSession'
      BY <2>1, <3>4 DEF TurnsInv, OneFinds, TurnHasSession
    <3>8. OneRuns'
      BY <2>1, <3>4 DEF TurnsInv, OneRuns, Streaming, Run
    <3>9. QED BY <3>5, <3>6, <3>7, <3>8 DEF TurnsInv
  <2>3. CASE abort \notin Streaming
    <3>1. flow' = flow
      BY <2>1, <2>3
    <3>2. Run' = Run /\ Finding' = Finding /\ Streaming' = Streaming
      BY <2>1, <3>1 DEF Run, Finding, Streaming
    <3>3. TurnFlows' /\ Closures'
      BY <2>1, <3>1, <3>2 DEF TurnsInv, TurnFlows, Closures
    <3>4. OneFinds' /\ TurnHasSession'
      BY <2>1, <3>2 DEF TurnsInv, OneFinds, TurnHasSession
    <3>5. OneRuns'
      BY <2>1, <2>3, <3>2 DEF TurnsInv, OneRuns
    <3>6. QED BY <3>3, <3>4, <3>5 DEF TurnsInv
  <2>4. QED BY <2>2, <2>3
<1>4. QED BY <1>1, <1>2, <1>3

LEMMA TurnTurns ==
  ASSUME PageTypes, TurnsInv, NEW t \in Turns,
         Press(t) \/ ReplyShown(t) \/ Save(t) \/ Replied(t) \/ Aborted(t) \/ Disconnected(t)
  PROVE  TurnsInv'
<1>0. t \in Flows /\ selected \in Sessions \cup {"none"}
  BY FlowNames DEF PageTypes
<1>1. CASE Press(t)
  <2>1. flow[t].pc = "idle" /\ ~loading /\ hurried' = (hurried \/ Finding # {})
    BY <1>1 DEF Press
  <2>2. served[t].state = "none"
    BY <2>1 DEF TurnsInv, TurnFlows, Sent
  <2>3. CASE selected # "none"
    <3>1. Send(t, selected, selected) /\ ensuring' = ensuring
      BY <1>1, <2>3 DEF Press
    <3>2. QED BY <1>0, <2>1, <2>2, <2>3, <3>1, TurnsSend
  <2>4. CASE selected = "none" /\ ensuring
    <3>1. Send(t, "none", "none") /\ ensuring' = ensuring
      BY <1>1, <2>4 DEF Press
    <3>2. hurried'
      BY <2>1, <2>4 DEF TurnsInv, OneFinds
    <3>3. QED BY <2>1, <2>2, <3>1, <3>2, TurnsSend
  <2>5. CASE selected = "none" /\ ~ensuring
    <3> DEFINE r == Relist([pc |-> "ensure"])
    <3>1. ensuring' = TRUE /\ Go(t, r) /\ UNCHANGED <<served, loading, abort>>
      BY <1>1, <2>5 DEF Press
    <3>r. r.pc = "list" /\ Seeks(r)
      BY DEF Relist, Seeks
    <3> HIDE DEF r
    <3>2. flow'[t] = r /\ \A u \in Turns : u # t => flow'[u] = flow[u]
      BY <1>0, <3>1, FlowNames, Goes
    <3>3. /\ Finding' = {t} /\ Run' = Run /\ Streaming' = Streaming
      <4>1. Finding = {}
        BY <2>5 DEF TurnsInv, OneFinds
      <4>2. Finding' = Finding \cup {t}
        BY <2>2, <3>1, <3>2, <3>r DEF Finding
      <4>3. Run' = Run /\ Streaming' = Streaming
        BY <2>1, <3>2, <3>r DEF Run, Streaming
      <4>4. QED BY <4>1, <4>2, <4>3
    <3>4. TurnFlows'
      BY <2>2, <3>1, <3>2, <3>r DEF TurnsInv, TurnFlows
    <3>5. Closures' /\ OneFinds'
      BY <2>1, <3>1, <3>2, <3>3 DEF TurnsInv, Closures, OneFinds, Run
    <3>6. hurried => hurried'
      BY <2>1
    <3>7. TurnHasSession'
      BY <3>1, <3>6 DEF TurnsInv, TurnHasSession
    <3>8. OneRuns'
      BY <2>1, <3>1, <3>3, <3>6 DEF TurnsInv, OneRuns, Streaming, Run
    <3>9. QED BY <3>4, <3>5, <3>7, <3>8 DEF TurnsInv
  <2>6. QED BY <2>3, <2>4, <2>5
<1>2. CASE ReplyShown(t) \/ Save(t)
  <2>1. /\ UNCHANGED <<flow, loading, abort, ensuring, hurried>>
        /\ served[t].state # "none"
        /\ served' = [served EXCEPT ![t].state = "replied"] \/ served' = [served EXCEPT ![t].state = "saved"]
    BY <1>2 DEF ReplyShown, Save, chatVars
  <2>2. \A u \in Turns : /\ served'[u].session = served[u].session
                         /\ served'[u].state = "none" <=> served[u].state = "none"
    BY <2>1 DEF PageTypes
  <2>3. Run' = Run /\ Finding' = Finding /\ Streaming' = Streaming
    BY <2>1, <2>2 DEF Run, Finding, Streaming
  <2>4. TurnFlows' /\ Closures'
    BY <2>1, <2>2, <2>3 DEF TurnsInv, TurnFlows, Closures, Run
  <2>5. OneFinds' /\ OneRuns'
    BY <2>1, <2>3 DEF TurnsInv, OneFinds, OneRuns
  <2>6. TurnHasSession'
    BY <2>1, <2>2 DEF TurnsInv, TurnHasSession
  <2>7. QED BY <2>4, <2>5, <2>6 DEF TurnsInv
<1>3. CASE Replied(t) \/ Aborted(t) \/ Disconnected(t)
  <2>1. t \in Run /\ Finish(t) /\ UNCHANGED <<served, ensuring, hurried>>
    BY <1>3 DEF Replied, Aborted, Disconnected, Streaming, serverVars, Run
  <2>2. QED BY <2>1, TurnsFinish
<1>4. QED BY <1>1, <1>2, <1>3

-----------------------------------------------------------------------------
(* The view: it shows the messages loaded last, as they are stored, or a    *)
(* turn is about to load its session again.                                 *)

\* A flow goes on: a turn that was to load its session again still is, unless it is
\* this one, and an answer to come still is, unless it was this one's.
LEMMA ReloadGoes ==
  ASSUME PageTypes, NEW f \in Flows, NEW r, Go(f, r),
         f \in Turns =>
           \/ r.pc \in {"fetch", "fetched"}
           \/ r.pc \in {"streaming", "aborted"} /\ r.closure # "none"
           \/ ~Reloads(f)
  PROVE  Reloading => Reloading'
<1>1. flow'[f] = r /\ \A x \in Flows : x # f => flow'[x] = flow[x]
  BY Goes
<1>2. \A t \in Turns : Reloads(t) => Reloads(t)'
  BY <1>1, FlowNames DEF Reloads
<1>3. QED BY <1>2 DEF Reloading

LEMMA ComingGoes ==
  ASSUME PageTypes, NEW f \in Flows, NEW r, Go(f, r)
  PROVE  /\ \A s \in Sessions : Asks(r, s) => s \in Coming'
         /\ \A s \in Coming : Asks(flow[f], s) \/ s \in Coming'
<1>1. flow'[f] = r /\ \A x \in Flows : x # f => flow'[x] = flow[x]
  BY Goes
<1>2. QED BY <1>1 DEF Coming

\* A step that loads nothing, and writes the view or the store only as named.
LEMMA ViewKeeps ==
  ASSUME PageTypes, ViewInv, UNCHANGED <<loaded, shown, crossed>>,
         Reloading => Reloading',
         \/ selected' \in Coming' \cup {"none"}
         \/ selected' = selected /\ Coming \subseteq Coming',
         effect => effect', selected' = selected \/ effect',
         lags \subseteq lags',
         \/ Reloading' \/ "unread" \in lags'
         \/ shown \in Sessions => db'[shown] = db[shown],
         messages' = messages \/ "local" \in lags' \/ effect' \/ Reloading'
  PROVE  ViewInv'
<1>1. Asked'
  BY DEF Asked, ViewInv
<1>2. Crossing'
  BY DEF ViewInv, Crossing
<1>3. LoadedStored'
  BY DEF ViewInv, LoadedStored
<1>4. Shows'
  BY DEF ViewInv, Shows
<1>5. QED BY <1>1, <1>2, <1>3, <1>4 DEF ViewInv

\* One flow goes on and loads and selects nothing.
LEMMA ViewGoes ==
  ASSUME PageTypes, ViewInv, NEW f \in Flows, NEW r, Go(f, r),
         f \in Turns =>
           \/ r.pc \in {"fetch", "fetched"}
           \/ r.pc \in {"streaming", "aborted"} /\ r.closure # "none"
           \/ ~Reloads(f),
         \A s \in Sessions : Asks(flow[f], s) => Asks(r, s),
         UNCHANGED <<selected, loaded, effect, shown, crossed>>, lags \subseteq lags',
         \/ Reloading' \/ "unread" \in lags'
         \/ shown \in Sessions => db'[shown] = db[shown],
         messages' = messages \/ "local" \in lags' \/ Reloading'
  PROVE  ViewInv'
<1>1. Reloading => Reloading'
  BY ReloadGoes
<1>2. Coming \subseteq Coming'
  BY ComingGoes DEF Coming
<1>3. QED BY <1>1, <1>2, ViewKeeps

\* One flow selects a session and asks for its messages.
LEMMA ViewSelects ==
  ASSUME PageTypes, ViewInv, NEW f \in Flows, NEW s \in Sessions,
         NEW next \in Ends \cup {[pc |-> "ensured"]}, Select(s), Go(f, Fetching(s, next)),
         UNCHANGED <<db, loaded, messages, shown, crossed, lags>>
  PROVE  ViewInv'
<1>1. Fetching(s, next).pc = "fetch" /\ Fetching(s, next).session = s
  BY FetchKind
<1>2. Reloading => Reloading'
  BY <1>1, ReloadGoes
<1>3. Asks(Fetching(s, next), s)
  BY <1>1 DEF Asks
<1>4. s \in Coming'
  BY <1>3, ComingGoes
<1>5. selected' = s /\ (effect => effect') /\ (s # selected => effect')
  BY DEF Select
<1>6. QED BY <1>2, <1>4, <1>5, ViewKeeps

\* The messages of a session, or none, are loaded.
LEMMA ViewLoads ==
  ASSUME PageTypes, NEW s \in Sessions \cup {"none"}, NEW m, SetMessages(s, m), db' = db,
         selected' # "none" => s = selected' \/ crossed', crossed' => s \in Sessions
  PROVE  ViewInv'
<1>1. loaded' = m /\ effect' = TRUE /\ shown' = s
  BY DEF SetMessages
<1>2. lags' \cap {"late", "unread"} = {} /\ s \in Sessions => m = db[s]
  BY FlowNames DEF SetMessages
<1>3. QED BY <1>1, <1>2 DEF ViewInv, Asked, Crossing, LoadedStored, Shows

LEMMA ViewTakes ==
  ASSUME PageTypes, NEW f \in Flows, Take(f), flow[f].session \in Sessions,
         UNCHANGED <<selected, db>>
  PROVE  ViewInv'
<1>1. SetMessages(flow[f].session, flow[f].got) /\ crossed' = (flow[f].session # selected)
  BY DEF Take
<1>2. QED BY <1>1, ViewLoads

\* A message is sent, with the selected session or by a turn that will not load one.
LEMMA ViewSends ==
  ASSUME PageTypes, TurnsInv, ViewInv, NEW t \in Turns, NEW s, NEW c, Send(t, s, c),
         ~Reloads(t), c # "none" \/ "local" \in lags', lags \subseteq lags',
         UNCHANGED <<db, selected, loaded, effect, shown, crossed>>
  PROVE  ViewInv'
<1> DEFINE r == [pc |-> "streaming", closure |-> c]
<1>1. Go(t, r) /\ t \in Flows /\ r.pc = "streaming" /\ r.closure = c
  BY FlowNames DEF Send
<1> HIDE DEF r
<1>2. \A x \in Sessions : ~Asks(flow[t], x)
  BY DEF Reloads, Asks
<1>3. c # "none" => Reloading'
  <2>1. flow'[t] = r
    BY <1>1, Goes
  <2>2. QED BY <1>1, <2>1 DEF Reloading, Reloads
<1>4. QED BY <1>1, <1>2, <1>3, ViewGoes

LEMMA FlowStepView ==
  ASSUME PageTypes, TurnsInv, ViewInv, NEW f \in Flows,
         \/ ReadList(f) \/ Refresh(f) \/ Read(f) \/ Fetched(f) \/ Create(f) \/ Created(f)
         \/ f \in Turns /\ (Ensure(f) \/ Ensured(f))
         \/ f \in Handlers /\ Delete(f)
         \/ Deleted(f)
  PROVE  ViewInv'
<1>0. flow[f].pc \in {"list", "listed", "create", "created", "delete", "deleted"}
      => ~Reloads(f) /\ \A s \in Sessions : ~Asks(flow[f], s)
  BY DEF Reloads, Asks
<1>1. CASE Refresh(f)
  <2>0. /\ flow[f].pc = "listed" /\ flow[f].next \in Ends /\ flow[f].got \subseteq Sessions
        /\ UNCHANGED <<db, loaded, messages, shown, crossed, lags>>
    BY <1>1, HasNext DEF Refresh, ListFlow, serverVars, chatVars, viewVars
  <2>1. CASE initial /\ flow[f].got # {}
    <3>1. PICK s \in flow[f].got : Select(s) /\ Go(f, Fetching(s, flow[f].next))
      BY <1>1, <2>1 DEF Refresh
    <3>2. QED BY <2>0, <3>1, ViewSelects
  <2>2. CASE ~(initial /\ flow[f].got # {})
    <3>1. Go(f, flow[f].next) /\ UNCHANGED <<selected, effect>>
      BY <1>1, <2>2 DEF Refresh
    <3>2. QED BY <1>0, <2>0, <3>1, ViewGoes
  <2>3. QED BY <2>1, <2>2
<1>2. CASE Read(f)
  <2> DEFINE r == [flow[f] EXCEPT !.pc = "fetched", !.got = db[flow[f].session]]
  <2>1. FetchFlow(flow[f])
    BY <1>2, HasNext DEF Read
  <2>2. r.pc = "fetched" /\ r.session = flow[f].session
    BY <2>1 DEF FetchFlow
  <2>3. Go(f, r)
        /\ UNCHANGED <<db, selected, loaded, effect, messages, shown, crossed, lags>>
    BY <1>2 DEF Read, Go, serverVars, listVars, chatVars, viewVars
  <2> HIDE DEF r
  <2>4. \A s \in Sessions : Asks(flow[f], s) => Asks(r, s)
    BY <2>2 DEF Asks
  <2>5. QED BY <2>2, <2>3, <2>4, ViewGoes
<1>r. CASE ReadList(f)
  <2>1. flow[f].pc = "list"
        /\ UNCHANGED <<db, selected, loaded, effect, messages, shown, crossed, lags>>
    BY <1>r DEF ReadList, serverVars, listVars, chatVars, viewVars
  <2>2. \E r : Go(f, r)
    BY <1>r DEF ReadList, Go
  <2>3. QED BY <1>0, <2>1, <2>2, ViewGoes
<1>3. CASE Fetched(f)
  <2>1. flow[f].session \in Sessions
    BY <1>3, HasNext DEF Fetched, FetchFlow
  <2>2. Take(f) /\ UNCHANGED <<selected, db>>
    BY <1>3 DEF Fetched, serverVars
  <2>3. QED BY <2>1, <2>2, ViewTakes
<1>4. CASE Create(f)
  <2>1. UNCHANGED <<db, selected, loaded, effect, shown, crossed>> /\ flow[f].pc = "create"
    BY <1>4 DEF Create, listVars
  <2>2. CASE Return(f, "refused") /\ Untold(f \in Turns)
    <3>1. CASE f \in Turns
      <4>1. Send(f, "refused", "none") /\ "local" \in lags' /\ lags \subseteq lags'
        BY <2>2, <3>1 DEF Return, Untold
      <4>2. QED BY <1>0, <2>1, <3>1, <4>1, ViewSends
    <3>2. CASE f \notin Turns
      <4>1. Go(f, AtRest) /\ messages' = messages /\ lags' = lags
        BY <2>2, <3>2 DEF Return, Untold, chatVars
      <4>2. QED BY <1>0, <2>1, <4>1, ViewGoes
    <3>3. QED BY <3>1, <3>2
  <2>3. CASE ~(Return(f, "refused") /\ Untold(f \in Turns))
    <3>1. PICK s \in Sessions : /\ Go(f, Relist([pc |-> "created", session |-> s]))
                                /\ UNCHANGED <<messages, lags>>
      BY <1>4, <2>3 DEF Create, chatVars
    <3>2. QED BY <1>0, <2>1, <3>1, ViewGoes
  <2>4. QED BY <2>2, <2>3
<1>5. CASE Created(f)
  <2>1. flow[f].session \in Sessions
    BY <1>5, HasNext DEF Created, CreatedFlow
  <2>2. /\ selected' = flow[f].session /\ SetMessages(flow[f].session, <<>>) /\ crossed' = FALSE
        /\ db' = db
    BY <1>5 DEF Created, SelectEmpty
  <2>3. QED BY <2>1, <2>2, ViewLoads
<1>6. CASE f \in Turns /\ Ensure(f)
  <2>0. /\ flow[f].pc = "listed" /\ flow[f].got \subseteq Sessions
        /\ UNCHANGED <<db, loaded, messages, shown, crossed, lags>>
    BY <1>6, HasNext DEF Ensure, ListFlow, serverVars, chatVars, viewVars
  <2>1. CASE flow[f].got # {}
    <3>1. PICK s \in flow[f].got : Select(s) /\ Go(f, Fetching(s, [pc |-> "ensured"]))
      BY <1>6, <2>1 DEF Ensure
    <3>2. QED BY <2>0, <3>1, ViewSelects
  <2>2. CASE flow[f].got = {}
    <3>1. Go(f, [pc |-> "create"]) /\ UNCHANGED <<selected, effect>>
      BY <1>6, <2>2 DEF Ensure
    <3>2. QED BY <1>0, <2>0, <3>1, ViewGoes
  <2>3. QED BY <2>1, <2>2
<1>7. CASE f \in Turns /\ Ensured(f)
  <2>1. flow[f].session \in Sessions
    BY <1>7, HasNext DEF Ensured, FetchFlow
  <2>2. Take(f) /\ UNCHANGED <<selected, db>>
    BY <1>7 DEF Ensured
  <2>3. QED BY <2>1, <2>2, ViewTakes
<1>8. CASE f \in Handlers /\ Delete(f)
  <2>1. /\ flow[f].pc = "delete" /\ \E r : Go(f, r)
        /\ db' = [db EXCEPT ![flow[f].session] = <<>>]
        /\ lags' = IF flow[f].session = shown THEN lags \cup {"unread"} ELSE lags
        /\ UNCHANGED <<selected, loaded, effect, messages, shown, crossed>>
    BY <1>8 DEF Delete, listVars, chatVars
  <2>2. flow[f].session # shown => (shown \in Sessions => db'[shown] = db[shown])
    BY <2>1 DEF PageTypes
  <2>3. lags \subseteq lags' /\ (flow[f].session = shown => "unread" \in lags')
    BY <2>1
  <2>4. QED BY <1>0, <2>1, <2>2, <2>3, ViewGoes
<1>9. CASE Deleted(f)
  <2>1. flow[f].pc = "deleted" /\ Go(f, AtRest) /\ UNCHANGED <<db, messages>>
    BY <1>9 DEF Deleted, serverVars, chatVars
  <2>2. CASE selected' = "none" /\ SetMessages("none", <<>>) /\ crossed' = FALSE
    BY <2>1, <2>2, ViewLoads
  <2>3. CASE UNCHANGED <<selected, loaded, effect, shown, crossed, lags>>
    BY <1>0, <2>1, <2>3, ViewGoes
  <2>4. QED BY <1>9, <2>2, <2>3 DEF Deleted, SelectEmpty, viewVars
<1>10. QED BY <1>1, <1>2, <1>r, <1>3, <1>4, <1>5, <1>6, <1>7, <1>8, <1>9

LEMMA PersonView ==
  ASSUME PageTypes, TurnsInv, ViewInv,
         \/ Effect \/ Stop \/ ClearChat
         \/ \E h \in Handlers :
              NewChat(h) \/ \E s \in Sessions : SelectSession(h, s) \/ DeleteSession(h, s)
  PROVE  ViewInv'
<1>0. \A h \in Handlers : h \in Flows /\ h \notin Turns
  BY FlowNames
<1>1. CASE Effect
  <2>1. /\ effect' = FALSE /\ UNCHANGED <<db, flow, selected, loaded, shown, crossed>>
        /\ \/ selected = "none" /\ UNCHANGED <<messages, lags>>
           \/ messages' = View(loaded) /\ lags' = lags \ {"local"}
    BY <1>1 DEF Effect, serverVars
  <2>2. Reloading' = Reloading /\ Coming' = Coming
    BY <2>1 DEF Reloading, Reloads, Coming
  <2>3. lags' \cap {"late", "unread"} = lags \cap {"late", "unread"}
    BY <2>1
  <2>4. Asked' /\ Crossing'
    BY <2>1, <2>2 DEF ViewInv, Asked, Crossing
  <2>5. LoadedStored'
    BY <2>1, <2>2, <2>3 DEF ViewInv, LoadedStored
  <2>6. Shows'
    BY <2>1 DEF Shows, View
  <2>7. QED BY <2>4, <2>5, <2>6 DEF ViewInv
<1>2. CASE Stop
  <2>1. /\ UNCHANGED <<db, selected, loaded, effect, messages, shown, crossed, lags>>
        /\ flow' = IF abort \in Streaming THEN [flow EXCEPT ![abort].pc = "aborted"] ELSE flow
    BY <1>2 DEF Stop, serverVars, listVars, viewVars
  <2>2. CASE abort \in Streaming
    <3> DEFINE r == [flow[abort] EXCEPT !.pc = "aborted"]
    <3>1. abort \in Flows /\ RunFlow(flow[abort]) /\ flow[abort].pc = "streaming"
      BY <2>2, FlowNames, HasNext DEF Streaming
    <3>2. r.pc = "aborted" /\ r.closure = flow[abort].closure
      BY <3>1 DEF RunFlow
    <3>3. Go(abort, r)
      BY <2>1, <2>2 DEF Go
    <3> HIDE DEF r
    <3>4. /\ \A s \in Sessions : ~Asks(flow[abort], s)
          /\ r.closure # "none" \/ ~Reloads(abort)
      BY <3>1, <3>2 DEF Asks, Reloads
    <3>5. QED BY <2>1, <3>1, <3>2, <3>3, <3>4, ViewGoes
  <2>3. CASE abort \notin Streaming
    <3>1. Reloading' = Reloading /\ Coming' = Coming
      BY <2>1, <2>3 DEF Reloading, Reloads, Coming
    <3>2. QED BY <2>1, <3>1, ViewKeeps
  <2>4. QED BY <2>2, <2>3
<1>3. CASE ClearChat
  <2>1. /\ UNCHANGED <<db, flow, selected, loaded, effect, shown, crossed>>
        /\ "local" \in lags' /\ lags \subseteq lags'
    BY <1>3 DEF ClearChat, ClearMessages, Untold, serverVars, listVars
  <2>2. Reloading' = Reloading /\ Coming' = Coming
    BY <2>1 DEF Reloading, Reloads, Coming
  <2>3. QED BY <2>1, <2>2, ViewKeeps
<1>4. ASSUME NEW h \in Handlers, NewChat(h) PROVE ViewInv'
  <2>1. /\ Go(h, [pc |-> "create"]) /\ flow[h] = AtRest
        /\ UNCHANGED <<db, selected, loaded, effect, shown, crossed>>
        /\ "local" \in lags' /\ lags \subseteq lags'
    BY <1>4 DEF NewChat, Operate, ClearMessages, Untold, serverVars, listVars
  <2>2. \A s \in Sessions : ~Asks(flow[h], s)
    BY <2>1 DEF Asks, AtRest
  <2>3. QED BY <1>0, <2>1, <2>2, ViewGoes
<1>5. ASSUME NEW h \in Handlers, NEW s \in Sessions, SelectSession(h, s) PROVE ViewInv'
  <2>1. /\ Go(h, Fetching(s, AtRest)) /\ Select(s)
        /\ UNCHANGED <<db, loaded, messages, shown, crossed, lags>>
    BY <1>5 DEF SelectSession, serverVars, chatVars, viewVars
  <2>2. AtRest \in Ends
    BY DEF Ends
  <2>3. QED BY <1>0, <2>1, <2>2, ViewSelects
<1>6. ASSUME NEW h \in Handlers, NEW s \in Sessions, DeleteSession(h, s) PROVE ViewInv'
  <2>1. /\ \E r : Go(h, r)
        /\ flow[h] = AtRest
        /\ UNCHANGED <<db, selected, loaded, effect, shown, crossed>>
        /\ lags \subseteq lags'
        /\ "local" \in lags' \/ messages' = messages
    BY <1>6 DEF DeleteSession, Operate, ClearMessages, Untold, serverVars, listVars
  <2>2. \A x \in Sessions : ~Asks(flow[h], x)
    BY <2>1 DEF Asks, AtRest
  <2>3. QED BY <1>0, <2>1, <2>2, ViewGoes
<1>7. QED BY <1>1, <1>2, <1>3, <1>4, <1>5, <1>6

LEMMA TurnView ==
  ASSUME PageTypes, TurnsInv, ViewInv, NEW t \in Turns,
         Press(t) \/ ReplyShown(t) \/ Save(t) \/ Replied(t) \/ Aborted(t) \/ Disconnected(t)
  PROVE  ViewInv'
<1>0. t \in Flows
  BY FlowNames
<1>1. CASE Press(t)
  <2>1. /\ flow[t].pc = "idle" /\ UNCHANGED <<db, selected, loaded, effect, shown, crossed>>
    BY <1>1 DEF Press, listVars
  <2>2. ~Reloads(t) /\ \A s \in Sessions : ~Asks(flow[t], s)
    BY <2>1 DEF Reloads, Asks
  <2>3. CASE selected # "none"
    <3>1. Send(t, selected, selected) /\ lags' = lags
      BY <1>1, <2>3 DEF Press
    <3>2. QED BY <2>1, <2>2, <2>3, <3>1, ViewSends
  <2>4. CASE selected = "none" /\ ensuring
    <3>1. Send(t, "none", "none") /\ "local" \in lags' /\ lags \subseteq lags'
      BY <1>1, <2>4 DEF Press, Untold
    <3>2. QED BY <2>1, <2>2, <3>1, ViewSends
  <2>5. CASE selected = "none" /\ ~ensuring
    <3>1. (\E r : Go(t, r)) /\ UNCHANGED <<messages, lags>>
      BY <1>1, <2>5 DEF Press
    <3>2. QED BY <1>0, <2>1, <2>2, <3>1, ViewGoes
  <2>6. QED BY <2>3, <2>4, <2>5
<1>2. CASE ReplyShown(t)
  <2>1. /\ flow' = flow /\ UNCHANGED <<db, selected, loaded, effect, shown, crossed>>
        /\ lags \subseteq lags' /\ flow[t].pc = "streaming"
        /\ flow[t].closure # "none" \/ "local" \in lags'
    BY <1>2 DEF ReplyShown, Untold, Streaming, listVars
  <2>2. Reloading' = Reloading /\ Coming' = Coming
    BY <2>1 DEF Reloading, Reloads, Coming
  <2>3. flow[t].closure # "none" => Reloading
    BY <2>1 DEF Reloading, Reloads
  <2>4. QED BY <2>1, <2>2, <2>3, ViewKeeps
<1>3. CASE Save(t)
  <2> DEFINE s == served[t].session
  <2>1. /\ flow' = flow /\ UNCHANGED <<selected, loaded, effect, messages, shown, crossed>>
        /\ db' = db \/ db' = [db EXCEPT ![s] = @ \o <<User(t), Reply(t)>>]
        /\ lags \subseteq lags'
        /\ \/ s # shown \/ "unread" \in lags'
           \/ flow[t].pc = "streaming" /\ flow[t].closure # "none"
    BY <1>3 DEF Save, Streaming, listVars, chatVars
  <2>2. Reloading' = Reloading /\ Coming' = Coming
    BY <2>1 DEF Reloading, Reloads, Coming
  <2>3. flow[t].pc = "streaming" /\ flow[t].closure # "none" => Reloading
    BY DEF Reloading, Reloads
  <2>4. s # shown => (shown \in Sessions => db'[shown] = db[shown])
    BY <2>1 DEF PageTypes
  <2>5. QED BY <2>1, <2>2, <2>3, <2>4, ViewKeeps
<1>4. CASE Replied(t) \/ Aborted(t) \/ Disconnected(t)
  <2>1. /\ flow[t].pc \in {"streaming", "aborted"} /\ Finish(t)
        /\ UNCHANGED <<db, selected, loaded, effect, shown, crossed>>
        /\ lags \subseteq lags'
        /\ messages' = messages \/ flow[t].closure # "none" \/ "local" \in lags'
    BY <1>4 DEF Replied, Aborted, Disconnected, Untold, Streaming, serverVars, listVars, viewVars
  <2>2. /\ \A f \in Flows : f = t \/ flow'[f] = flow[f] \/ (f \notin Turns /\ flow[f] = AtRest)
        /\ flow[t].closure # "none" /\ served[t].session = flow[t].closure => Reloads(t)'
    BY <2>1, FinishTypes
  <2>3. flow[t].closure # "none" => Reloads(t)'
    BY <2>1, <2>2 DEF TurnsInv, Closures, Run
  <2>4. Reloading => Reloading'
    <3>1. \A u \in Turns : u # t => flow'[u] = flow[u]
      BY <2>2, FlowNames
    <3>2. \A u \in Turns : u # t /\ Reloads(u) => Reloads(u)'
      BY <3>1 DEF Reloads
    <3>3. Reloads(t) => flow[t].closure # "none"
      BY <2>1 DEF Reloads
    <3>4. QED BY <2>3, <3>2, <3>3 DEF Reloading
  <2>5. Coming \subseteq Coming'
    <3>1. \A f \in Flows, s \in Sessions : Asks(flow[f], s) => flow'[f] = flow[f]
      BY <2>1, <2>2 DEF Asks, AtRest
    <3>2. QED BY <3>1 DEF Coming
  <2>6. flow[t].closure # "none" => Reloading'
    BY <2>3 DEF Reloading
  <2>7. QED BY <2>1, <2>4, <2>5, <2>6, ViewKeeps
<1>5. QED BY <1>1, <1>2, <1>3, <1>4

-----------------------------------------------------------------------------

LEMMA ChatPageStart == ChatPageInit => PageTypes /\ TurnsInv /\ ViewInv
<1> SUFFICES ASSUME ChatPageInit PROVE PageTypes /\ TurnsInv /\ ViewInv
  OBVIOUS
<1> DEFINE r == Relist(AtRest)
<1>1. /\ exist \subseteq Sessions /\ db = [s \in Sessions |-> <<>>] /\ listed = {}
      /\ served = [t \in Turns |-> [state |-> "none", session |-> "none"]]
      /\ flow = [f \in Flows |-> IF f = "mount" THEN r ELSE AtRest]
      /\ selected = "none" /\ effect = FALSE /\ loading = FALSE /\ abort = "none"
      /\ ensuring = FALSE /\ initial = TRUE /\ hurried = FALSE
      /\ shown = "none" /\ crossed = FALSE
  BY FlowNames DEF ChatPageInit
<1>2. Kind(r) /\ Kind(AtRest)
  BY ListKind DEF Ends, Kind
<1> HIDE DEF r
<1>3. PageTypes
  BY <1>1, <1>2 DEF PageTypes
<1>4. \A t \in Turns : flow[t] = AtRest /\ flow[t].pc = "idle" /\ served[t].state = "none"
  BY <1>1, FlowNames DEF AtRest
<1>5. Run = {} /\ Finding = {} /\ Streaming = {}
  BY <1>4 DEF Run, Finding, Streaming
<1>6. TurnsInv
  BY <1>1, <1>4, <1>5 DEF TurnsInv, TurnFlows, Seeks, Closures, OneFinds, OneRuns, TurnHasSession
<1>7. ViewInv
  BY <1>1, FlowNames DEF ViewInv, Asked, Crossing, LoadedStored, Shows
<1>8. QED BY <1>3, <1>6, <1>7

LEMMA ChatPageStep ==
  ASSUME PageTypes, TurnsInv, ViewInv, ChatPageNext
  PROVE  PageTypes' /\ TurnsInv' /\ ViewInv'
<1>1. ASSUME NEW f \in Flows,
             \/ ReadList(f) \/ Refresh(f) \/ Read(f) \/ Fetched(f) \/ Create(f) \/ Created(f)
             \/ f \in Turns /\ (Ensure(f) \/ Ensured(f))
             \/ f \in Handlers /\ Delete(f)
             \/ Deleted(f)
      PROVE  PageTypes' /\ TurnsInv' /\ ViewInv'
  BY <1>1, FlowStepTypes, FlowStepTurns, FlowStepView
<1>2. CASE \/ Effect \/ Stop \/ ClearChat
           \/ \E h \in Handlers :
                NewChat(h) \/ \E s \in Sessions : SelectSession(h, s) \/ DeleteSession(h, s)
  BY <1>2, PersonTypes, PersonTurns, PersonView
<1>3. ASSUME NEW t \in Turns,
             Press(t) \/ ReplyShown(t) \/ Save(t) \/ Replied(t) \/ Aborted(t) \/ Disconnected(t)
      PROVE  PageTypes' /\ TurnsInv' /\ ViewInv'
  BY <1>3, TurnTypes, TurnTurns, TurnView
<1>4. CASE \E f \in Due : Created(f) \/ Deleted(f)
  BY <1>1, <1>4 DEF Due
<1>5. CASE \E h \in Handlers : Delete(h)
  BY <1>1, <1>5, FlowNames
<1>6. CASE \E f \in Flows : ReadList(f) \/ Refresh(f) \/ Read(f) \/ Fetched(f) \/ Create(f)
  BY <1>1, <1>6
<1>7. CASE \E t \in Turns : Ensure(t) \/ Ensured(t)
  BY <1>1, <1>7, FlowNames
<1>8. QED BY <1>2, <1>3, <1>4, <1>5, <1>6, <1>7 DEF ChatPageNext

LEMMA ChatPageInvariant == ChatPageSpec => [](PageTypes /\ TurnsInv /\ ViewInv)
<1>1. PageTypes /\ TurnsInv /\ ViewInv /\ [ChatPageNext]_chatPageVars
      => (PageTypes /\ TurnsInv /\ ViewInv)'
  <2> SUFFICES ASSUME PageTypes, TurnsInv, ViewInv, [ChatPageNext]_chatPageVars
               PROVE  (PageTypes /\ TurnsInv /\ ViewInv)'
    OBVIOUS
  <2>1. CASE UNCHANGED chatPageVars
    <3>1. /\ UNCHANGED <<exist, db, served, flow, listed, selected, loaded, effect, messages>>
          /\ UNCHANGED <<loading, abort, ensuring, initial, hurried, shown, crossed, lags>>
      BY <2>1 DEF chatPageVars, serverVars, listVars, chatVars, viewVars
    <3>2. PageTypes'
      BY <3>1 DEF PageTypes
    <3>3. TurnsInv'
      BY <3>1, TurnsQuiet
    <3>4. Reloading' = Reloading /\ Coming' = Coming
      BY <3>1 DEF Reloading, Reloads, Coming
    <3>5. ViewInv'
      BY <3>1, <3>4, ViewKeeps
    <3>6. QED BY <3>2, <3>3, <3>5
  <2>2. QED BY <2>1, ChatPageStep
<1>2. QED BY ChatPageStart, <1>1, PTL DEF ChatPageSpec

\* The page shows that it is thinking only with a turn to end it, and lets the next
\* message look for a session once the last one has found its own; one turn streams
\* at a time, is shown to, and can be stopped, unless a message was sent while an
\* earlier one was finding its session (use-chat-state.ts sendMessage and
\* stopGeneration, use-sessions.ts ensureSession).
THEOREM ThinkingEnds == ChatPageSpec => []LoadingHonest
<1>1. TurnsInv => LoadingHonest
  BY DEF TurnsInv, OneFinds, OneRuns, Run, Streaming, LoadingHonest
<1>2. QED BY ChatPageInvariant, <1>1, PTL

\* A turn is sent with a session, so that what it says is saved, unless none could
\* be created or the message was sent while an earlier one was finding its session
\* (agent-chat.tsx handleSend, use-sessions.ts ensureSession).
THEOREM TurnsHaveSessions == ChatPageSpec => []TurnHasSession
<1>1. TurnsInv => TurnHasSession
  BY DEF TurnsInv
<1>2. QED BY ChatPageInvariant, <1>1, PTL

\* With any number of selections, creations, deletions and turns under way at once
\* and their answers in any order, once nothing is under way the view is the session
\* whose messages came last, as it is stored, and that is the selected one unless
\* another was selected when they came; the reasons why the view may lag behind
\* what is stored are named (use-sessions.ts, the effect of agent-chat.tsx).
THEOREM ViewSettles == ChatPageSpec => []QuietView
<1>1. PageTypes /\ ViewInv => QuietView
  <2> SUFFICES ASSUME PageTypes, ViewInv, \A f \in Flows : flow[f].pc \in {"idle", "over"},
                      ~effect, selected # "none"
               PROVE  /\ shown = selected \/ crossed
                      /\ lags = {} => messages = View(db[shown])
    BY DEF QuietView
  <2>1. Coming = {} /\ ~Reloading
    BY FlowNames DEF Coming, Asks, Reloading, Reloads
  <2>2. shown = selected \/ crossed
    BY <2>1 DEF ViewInv, Asked
  <2>3. shown \in Sessions
    BY <2>2 DEF ViewInv, Crossing, PageTypes
  <2>4. lags = {} => messages = View(loaded) /\ loaded = db[shown]
    BY <2>1, <2>3 DEF ViewInv, LoadedStored, Shows
  <2>5. QED BY <2>2, <2>4
<1>2. QED BY ChatPageInvariant, <1>1, PTL
==============================================================================
