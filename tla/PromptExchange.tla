---------------------------- MODULE PromptExchange ----------------------------
(***************************************************************************)
(* The questions a turn of the agent puts to the user, and their answers:  *)
(* core/agent.go (RequestPermission, RequestHumanInput and their Respond   *)
(* counterparts), the two respond handlers, and the dialogs of the         *)
(* frontend's chat hook.                                                   *)
(*                                                                         *)
(* One turn runs the tool calls of one response, each in a goroutine of    *)
(* its own.  A call first passes the permission gate; if it is an AskUser  *)
(* call (or a TestWebsite call, whose browser agent asks for a model) it   *)
(* then puts a question.  A question travels as a server-sent event to the *)
(* page, which shows one dialog of each kind; the answer travels back in a *)
(* request of its own and finds the waiting goroutine through a map of     *)
(* channels.                                                               *)
(***************************************************************************)
EXTENDS Naturals, Sequences, FiniteSets

CONSTANTS
  Call,       \* the tool calls of one response
  Writes,     \* the calls of Write or Edit
  Asks,       \* the calls that ask the user a question
  IdOf,       \* the tool-call ID the model gave each call
  Nobody      \* no channel under this id

ASSUME PromptAssumption ==
  /\ IsFiniteSet(Call)
  /\ Writes \subseteq Call /\ Asks \subseteq Call
  /\ Nobody \notin Call
  /\ DOMAIN IdOf = Call

Kind  == {"permission", "human"}
Modes == {"allow_all", "confirm_write", "confirm_all"}
Id    == {IdOf[c] : c \in Call} \cup 1..Cardinality(Call)   \* n stands for human-n
Prompts == [kind : Kind, id : Id, call : Call]              \* call: who asks (history)
Answers == [prompt : Prompts, value : {"yes", "no"}]

VARIABLES
  mode,       \* PermissionMode
  ctx,        \* the turn's context is not cancelled
  pc,         \* per call: <<phase, label>>
  id,         \* per call: the id of its current question
  reg,        \* permissionRequests and humanInputRequests: who waits under an id
  chan,       \* chan[k][c]: no or one answer buffered in the channel c waits on
  got,        \* got[k][c]: how c's question ended
  ran,        \* the calls whose tool was executed
  wire,       \* events on their way to the page
  screen,     \* pendingPermission and pendingHumanInput: no or one question each
  posts,      \* answers on their way to the server
  found,      \* answers whose handler has looked its channel up
  said,       \* history: what the user answered to each question
  lax         \* history: calls that met a mode that needs no confirmation

callVars   == <<pc, id, got, ran>>
pageVars   == <<wire, screen, said>>
answerVars == <<posts, found>>
vars == <<mode, ctx, callVars, reg, chan, pageVars, answerVars, lax>>

Goto(c, phase, label) == pc' = [pc EXCEPT ![c] = <<phase, label>>]
At(c, phase, label)   == pc[c] = <<phase, label>>

\* RequestPermission's switch.
NeedsConfirm(m, c) == m = "confirm_all" \/ (m = "confirm_write" /\ c \in Writes)

Init ==
  /\ mode \in Modes
  /\ ctx = TRUE
  /\ pc = [c \in Call |-> <<"gate", "mode">>]
  /\ id = [c \in Call |-> IdOf[c]]
  /\ reg = [k \in Kind |-> [i \in Id |-> Nobody]]
  /\ chan = [k \in Kind |-> [c \in Call |-> {}]]
  /\ got = [k \in Kind |-> [c \in Call |-> "open"]]
  /\ ran = {}
  /\ wire = <<>>
  /\ screen = [k \in Kind |-> {}]
  /\ posts = {} /\ found = {}
  /\ said = [k \in Kind |-> [c \in Call |-> "nothing"]]
  /\ lax = {c \in Call : ~NeedsConfirm(mode, c)}

-----------------------------------------------------------------------------
(* The gate and the tool.                                                  *)

\* The mode is a plain field, written while calls read it.
SetPermissionMode(m) ==
  /\ mode' = m
  /\ lax' = lax \cup {c \in Call : ~NeedsConfirm(m, c)}
  /\ UNCHANGED <<ctx, callVars, reg, chan, pageVars, answerVars>>

\* It is read twice: first for allow_all, then in the switch.
CheckMode(c) ==
  /\ At(c, "gate", "mode")
  /\ IF mode = "allow_all" THEN Goto(c, "tool", "run") ELSE Goto(c, "gate", "switch")
  /\ UNCHANGED <<mode, ctx, id, got, ran, reg, chan, pageVars, answerVars, lax>>

Switch(c) ==
  /\ At(c, "gate", "switch")
  /\ IF NeedsConfirm(mode, c) THEN Goto(c, "permission", "register")
                              ELSE Goto(c, "tool", "run")
  /\ UNCHANGED <<mode, ctx, id, got, ran, reg, chan, pageVars, answerVars, lax>>

Run(c) ==
  /\ At(c, "tool", "run")
  /\ ran' = ran \cup {c}
  /\ IF c \in Asks THEN Goto(c, "human", "size") ELSE Goto(c, "tool", "end")
  /\ UNCHANGED <<mode, ctx, id, got, reg, chan, pageVars, answerVars, lax>>

\* id = human-(len+1): the map's size is read before its mutex is taken.
Pending == {i \in Id : reg["human"][i] # Nobody}
NewId_FromZero == Cardinality(Pending)
NewId == Cardinality(Pending) + 1

Size(c) ==
  /\ At(c, "human", "size")
  /\ id' = [id EXCEPT ![c] = NewId]
  /\ Goto(c, "human", "register")
  /\ UNCHANGED <<mode, ctx, got, ran, reg, chan, pageVars, answerVars, lax>>

-----------------------------------------------------------------------------
(* A question, of either kind.                                             *)

Register(c, k) ==
  /\ At(c, k, "register")
  /\ reg' = [reg EXCEPT ![k][id[c]] = c]
  /\ Goto(c, k, "emit")
  /\ UNCHANGED <<mode, ctx, id, got, ran, chan, pageVars, answerVars, lax>>

\* The event is handed to the stream's handler, or the context is done: then a
\* permission call returns false, a human-input call goes on to its select.
Emit(c, k) ==
  /\ At(c, k, "emit")
  /\ \/ /\ wire' = IF ctx THEN Append(wire, [kind |-> k, id |-> id[c], call |-> c]) ELSE wire
        /\ Goto(c, k, "wait")
        /\ UNCHANGED got
     \/ /\ ~ctx
        /\ IF k = "human"
           THEN Goto(c, k, "wait") /\ UNCHANGED got
           ELSE Goto(c, k, "delete") /\ got' = [got EXCEPT ![k][c] = "cancelled"]
        /\ UNCHANGED wire
  /\ UNCHANGED <<mode, ctx, id, ran, reg, chan, screen, said, answerVars, lax>>

\* The select: an answer, the time-out (300 or 600 seconds), the context.
Outcomes_Default(c, k) ==                \* a cancelled question counts as a yes
  {"timeout"} \cup (IF ctx THEN {} ELSE {"yes"}) \cup {r.value : r \in chan[k][c]}
Outcomes(c, k) ==
  {"timeout"} \cup (IF ctx THEN {} ELSE {"cancelled"})
              \cup {r.value : r \in chan[k][c]}
Await_NoTimeout(c, k) ==                \* the time-out case is forgotten
  /\ At(c, k, "wait")
  /\ \E o \in Outcomes(c, k) \ {"timeout"} :
       /\ got' = [got EXCEPT ![k][c] = o]
       /\ chan' = [chan EXCEPT ![k][c] = IF o \in {"yes", "no"} THEN {} ELSE @]
  /\ Goto(c, k, "delete")
  /\ UNCHANGED <<mode, ctx, id, ran, reg, pageVars, answerVars, lax>>
Await(c, k) ==
  /\ At(c, k, "wait")
  /\ \E o \in Outcomes(c, k) :
       /\ got' = [got EXCEPT ![k][c] = o]
       /\ chan' = [chan EXCEPT ![k][c] = IF o \in {"yes", "no"} THEN {} ELSE @]
  /\ Goto(c, k, "delete")
  /\ UNCHANGED <<mode, ctx, id, ran, reg, pageVars, answerVars, lax>>

\* The deferred delete; then the tool runs if the user allowed it.
Delete_Keeps(c, k) == UNCHANGED reg     \* the entry is left behind
Delete(c, k) == reg' = [reg EXCEPT ![k][id[c]] = Nobody]

Allowed_UnlessNo(c) == got["permission"][c] # "no"     \* a time-out allows
Allowed(c) == got["permission"][c] = "yes"

Leave(c, k) ==
  /\ At(c, k, "delete")
  /\ Delete(c, k)
  /\ IF k = "permission" /\ Allowed(c) THEN Goto(c, "tool", "run")
                                        ELSE Goto(c, "tool", "end")
  /\ UNCHANGED <<mode, ctx, id, got, ran, chan, pageVars, answerVars, lax>>

-----------------------------------------------------------------------------
(* The page.                                                               *)

\* A dialog replaces the one of its kind that is open.
Show ==
  /\ wire # <<>>
  /\ screen' = [screen EXCEPT ![Head(wire).kind] = {Head(wire)}]
  /\ wire' = Tail(wire)
  /\ UNCHANGED <<mode, ctx, callVars, reg, chan, said, answerVars, lax>>

\* The user decides; the dialog closes and the answer is posted with its id.
Answer(k, v) ==
  /\ \E p \in screen[k] :
       /\ posts' = posts \cup {[prompt |-> p, value |-> v]}
       /\ said' = [said EXCEPT ![k][p.call] = v]
  /\ screen' = [screen EXCEPT ![k] = {}]
  /\ UNCHANGED <<mode, ctx, callVars, reg, chan, wire, found, lax>>

\* Allow, and Deny or Escape.
PermissionDialog == \E v \in {"yes", "no"} : Answer("permission", v)

\* An option or a text that is not blank, and Cancel or Escape.
HumanInputDialog == \E v \in {"yes", "no"} : Answer("human", v)

\* stopGeneration: the request is aborted and the dialogs close.
StopGeneration ==
  /\ ctx
  /\ ctx' = FALSE
  /\ wire' = <<>>
  /\ screen' = [k \in Kind |-> {}]
  /\ UNCHANGED <<mode, callVars, reg, chan, said, answerVars, lax>>

\* A failed fetch is ignored.
Lose(p) ==
  /\ p \in posts
  /\ posts' = posts \ {p}
  /\ UNCHANGED <<mode, ctx, callVars, reg, chan, pageVars, found, lax>>

-----------------------------------------------------------------------------
(* The respond handlers: the channel is looked up under the mutex, the     *)
(* non-blocking send follows after it is released.                         *)

Waiting(p) == reg[p.prompt.kind][p.prompt.id]

Refuse(p) ==
  /\ p \in posts /\ Waiting(p) = Nobody
  /\ posts' = posts \ {p}
  /\ UNCHANGED <<mode, ctx, callVars, reg, chan, pageVars, found, lax>>

Lookup_Takes(p) ==                      \* the entry is removed with the lookup
  /\ p \in posts /\ Waiting(p) # Nobody
  /\ posts' = posts \ {p}
  /\ found' = found \cup {[answer |-> p, to |-> Waiting(p)]}
  /\ reg' = [reg EXCEPT ![p.prompt.kind][p.prompt.id] = Nobody]
  /\ UNCHANGED <<mode, ctx, callVars, chan, pageVars, lax>>
Lookup(p) ==
  /\ p \in posts /\ Waiting(p) # Nobody
  /\ posts' = posts \ {p}
  /\ found' = found \cup {[answer |-> p, to |-> Waiting(p)]}
  /\ UNCHANGED <<mode, ctx, callVars, reg, chan, pageVars, lax>>

Send(f) ==
  /\ f \in found
  /\ found' = found \ {f}
  /\ LET k == f.answer.prompt.kind IN
       chan' = [chan EXCEPT ![k][f.to] = IF @ = {} THEN {f.answer} ELSE @]
  /\ UNCHANGED <<mode, ctx, callVars, reg, pageVars, posts, lax>>

-----------------------------------------------------------------------------

Goroutine(c) ==
  \/ CheckMode(c) \/ Switch(c) \/ Run(c) \/ Size(c)
  \/ \E k \in Kind : Register(c, k) \/ Emit(c, k) \/ Await(c, k) \/ Leave(c, k)

Respond == \/ \E p \in posts : Refuse(p) \/ Lookup(p)
           \/ \E f \in found : Send(f)

Page == \/ Show \/ StopGeneration \/ PermissionDialog \/ HumanInputDialog
        \/ \E p \in posts : Lose(p)

Next ==
  \/ \E c \in Call : Goroutine(c)
  \/ \E m \in Modes : SetPermissionMode(m)
  \/ Respond
  \/ Page

Spec == Init /\ [][Next]_vars

\* Goroutines are scheduled, and their timers fire; nothing is assumed of the
\* user, the page or the network.
FairSpec == Spec /\ \A c \in Call : WF_vars(Goroutine(c))

-----------------------------------------------------------------------------
Labels ==
  ({"gate"} \X {"mode", "switch"}) \cup ({"tool"} \X {"run", "end"})
    \cup (Kind \X {"size", "register", "emit", "wait", "delete"})

TypeOK ==
  /\ mode \in Modes /\ ctx \in BOOLEAN
  /\ pc \in [Call -> Labels]
  /\ id \in [Call -> Id]
  /\ reg \in [Kind -> [Id -> Call \cup {Nobody}]]
  /\ chan \in [Kind -> [Call -> SUBSET Answers]]
  /\ got \in [Kind -> [Call -> {"open", "yes", "no", "timeout", "cancelled"}]]
  /\ ran \subseteq Call /\ lax \subseteq Call
  /\ wire \in Seq(Prompts)
  /\ screen \in [Kind -> SUBSET Prompts]
  /\ posts \subseteq Answers
  /\ found \subseteq [answer : Answers, to : Call]
  /\ said \in [Kind -> [Call -> {"nothing", "yes", "no"}]]

\* A tool that needs confirmation runs only when the user allowed that very
\* call: whatever else is on the screen, in flight or late, and unless the mode
\* was at some time, since the response came, one that needs no confirmation.
RunsOnlyIfAllowed ==
  \A c \in ran : c \in lax \/ said["permission"][c] = "yes"

\* A call has put its question of this kind, and the id it has for good then.
HasAsked(k, c) == got[k][c] # "open" \/ pc[c] \in {k} \X {"emit", "wait", "delete"}
IdUsed(k, c) == IF k = "permission" THEN IdOf[c] ELSE id[c]

\* The other calls that put a question of this kind under the call's id.
Namesakes(k, c) == {d \in Call \ {c} : HasAsked(k, d) /\ IdUsed(k, d) = IdUsed(k, c)}
Shared(k, c) == HasAsked(k, c) /\ Namesakes(k, c) # {}

\* A call that waits can be answered: the server has it under its id, so the
\* respond handler says "not found or already responded" only of a question
\* that is over, or of one whose id another call took too (agent.go:456).
WaitingIsKnown ==
  \A c \in Call, k \in Kind :
    At(c, k, "wait") => reg[k][id[c]] = c \/ Namesakes(k, c) # {}

\* Nothing is left of a question when its call has returned.
NothingLeft ==
  \A k \in Kind, i \in Id :
    reg[k][i] # Nobody =>
      LET c == reg[k][i] IN id[c] = i /\ pc[c] \in {k} \X {"emit", "wait", "delete"}

\* Every tool call ends, answered or not: execToolCalls waits for all of them.
CallsEnd == <>(\A c \in Call : At(c, "tool", "end"))

\* AskUser returns the question together with its answer: the answer is one the
\* user gave to that question.
OwnAnswer ==
  \A c \in Call, k \in Kind : got[k][c] \in {"yes", "no"} => said[k][c] = got[k][c]

Promise == INSTANCE PromptPromise WITH
  Ask     <- Kind \X Call,
  Silence <- {"timeout", "cancelled"},
  said    <- [a \in Kind \X Call |-> said[a[1]][a[2]]],
  end     <- [a \in Kind \X Call |-> got[a[1]][a[2]]],
  shared  <- {a \in Kind \X Call : Shared(a[1], a[2])}

\* Questions and answers keep the promise of PromptPromise (agent.go:455, :487), for any
\* number of calls that ask: only a question whose id another call has or had may
\* get an answer that was given to the other.
KeepsPromise == Promise!Promise
==============================================================================
