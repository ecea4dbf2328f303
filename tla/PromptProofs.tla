----------------------------- MODULE PromptProofs -----------------------------
(***************************************************************************)
(* Type correctness of PromptExchange, that nothing is left of a question  *)
(* when its call has returned (NothingLeft), that no tool runs unconfirmed *)
(* (RunsOnlyIfAllowed), that the server knows whoever waits                *)
(* (WaitingIsKnown), and that the exchange implements PromptPromise        *)
(* (KeepsPromise), for every number of tool calls and of calls that ask.   *)
(***************************************************************************)
EXTENDS PromptExchange, FiniteSetTheorems, FunctionTheorems, SequenceTheorems, TLAPS

\* Labels and kinds.
LEMMA LabelFacts ==
  /\ {<<"gate", "mode">>, <<"gate", "switch">>, <<"tool", "run">>, <<"tool", "end">>} \subseteq Labels
  /\ \A k \in Kind : {<<k, "size">>, <<k, "register">>, <<k, "emit">>, <<k, "wait">>, <<k, "delete">>}
                       \subseteq Labels
  /\ {<<"permission", "register">>, <<"human", "size">>, <<"human", "register">>} \subseteq Labels
  /\ "permission" \in Kind /\ "human" \in Kind
BY DEF Labels, Kind

\* Moving one call's program counter.
LEMMA GotoFacts ==
  ASSUME pc \in [Call -> Labels], NEW c \in Call, NEW phase, NEW label,
         <<phase, label>> \in Labels, Goto(c, phase, label)
  PROVE  /\ pc' \in [Call -> Labels]
         /\ pc'[c] = <<phase, label>>
         /\ \A d \in Call \ {c} : pc'[d] = pc[d]
BY DEF Goto

\* Setting one entry of a function of two arguments.
LEMMA EntryFacts ==
  ASSUME NEW S, NEW T, NEW U, NEW f \in [S -> [T -> U]], NEW a \in S, NEW b \in T, NEW v \in U
  PROVE  /\ [f EXCEPT ![a][b] = v] \in [S -> [T -> U]]
         /\ [f EXCEPT ![a][b] = v][a][b] = v
         /\ \A x \in S, y \in T : x # a \/ y # b => [f EXCEPT ![a][b] = v][x][y] = f[x][y]
<1>1. [f EXCEPT ![a][b] = v] = [f EXCEPT ![a] = [f[a] EXCEPT ![b] = v]]
  OBVIOUS
<1>2. [f[a] EXCEPT ![b] = v] \in [T -> U]
  OBVIOUS
<1>3. QED BY <1>1, <1>2

\* A new id is one of 1..Cardinality(Call): each pending question belongs to a call
\* of its own, and not to the one that counts them.
LEMMA NewIdRange ==
  ASSUME TypeOK, NothingLeft, NEW c \in Call, At(c, "human", "size")
  PROVE  NewId \in Id
<1> DEFINE Others == Call \ {c}
           asker == [i \in Pending |-> reg["human"][i]]
<1>1. IsFiniteSet(Call) /\ Nobody \notin Call
  BY PromptAssumption DEF PromptAssumption
<1>2. /\ IsFiniteSet(Others) /\ Cardinality(Others) = Cardinality(Call) - 1
      /\ Cardinality(Call) \in Nat
  BY <1>1, FS_RemoveElement, FS_CardinalityType
<1>3. ASSUME NEW i \in Pending
      PROVE  reg["human"][i] \in Others /\ id[reg["human"][i]] = i
  <2>1. i \in Id /\ reg["human"][i] # Nobody
    BY DEF Pending
  <2>a. reg["human"] \in [Id -> Call \cup {Nobody}]
    BY LabelFacts DEF TypeOK
  <2>2. reg["human"][i] \in Call
    BY <2>1, <2>a
  <2>3. /\ id[reg["human"][i]] = i
        /\ pc[reg["human"][i]] \in {"human"} \X {"emit", "wait", "delete"}
    BY <2>1, LabelFacts DEF NothingLeft
  <2>4. pc[c] = <<"human", "size">>
    BY DEF At
  <2>5. QED BY <2>2, <2>3, <2>4
<1>4. asker \in [Pending -> Others]
  BY <1>3
<1>5. \A i, j \in Pending : asker[i] = asker[j] => i = j
  BY <1>3
<1> HIDE DEF asker, Others
<1>6. asker \in Injection(Pending, Others)
  BY <1>4, <1>5, Fun_IsInj
<1>7. IsFiniteSet(Pending) /\ Cardinality(Pending) <= Cardinality(Others)
  BY <1>2, <1>6, FS_Injection
<1>8. Cardinality(Pending) \in Nat
  BY <1>7, FS_CardinalityType
<1>9. NewId \in 1..Cardinality(Call)
  BY <1>2, <1>7, <1>8 DEF NewId
<1>10. QED BY <1>9 DEF Id

\* The gate, the tool and the counting of the pending questions.
LEMMA GateType ==
  ASSUME TypeOK, NothingLeft, NEW c \in Call,
         CheckMode(c) \/ Switch(c) \/ Run(c) \/ Size(c)
  PROVE  (TypeOK /\ NothingLeft)'
<1>0. pc \in [Call -> Labels] /\ id \in [Call -> Id]
  BY DEF TypeOK
<1>1. \/ Goto(c, "tool", "run") \/ Goto(c, "gate", "switch") \/ Goto(c, "permission", "register")
      \/ Goto(c, "human", "size") \/ Goto(c, "tool", "end") \/ Goto(c, "human", "register")
  BY DEF CheckMode, Switch, Run, Size
<1>a. PICK phase, label : <<phase, label>> \in Labels /\ Goto(c, phase, label)
  BY <1>1, LabelFacts
<1>2. pc' \in [Call -> Labels] /\ \A d \in Call \ {c} : pc'[d] = pc[d]
  BY <1>0, <1>a, GotoFacts
<1>3. pc[c] \in {<<"gate", "mode">>, <<"gate", "switch">>, <<"tool", "run">>, <<"human", "size">>}
  BY DEF CheckMode, Switch, Run, Size, At
<1>4. id' = id \/ (id' = [id EXCEPT ![c] = NewId] /\ At(c, "human", "size"))
  BY DEF CheckMode, Switch, Run, Size
<1>5. id' \in [Call -> Id] /\ \A d \in Call \ {c} : id'[d] = id[d]
  BY <1>0, <1>4, NewIdRange
<1>6. ran' \subseteq Call
  BY DEF TypeOK, CheckMode, Switch, Run, Size
<1>7. UNCHANGED <<mode, ctx, got, reg, chan, wire, screen, said, posts, found, lax>>
  BY DEF CheckMode, Switch, Run, Size, pageVars, answerVars
<1>8. TypeOK'
  BY <1>2, <1>5, <1>6, <1>7 DEF TypeOK
<1>9. NothingLeft'
  <2> SUFFICES ASSUME NEW k \in Kind, NEW i \in Id, reg[k][i] # Nobody
               PROVE  id'[reg[k][i]] = i /\ pc'[reg[k][i]] \in {k} \X {"emit", "wait", "delete"}
    BY <1>7 DEF NothingLeft
  <2>1. reg[k][i] \in Call
    BY DEF TypeOK
  <2>2. id[reg[k][i]] = i /\ pc[reg[k][i]] \in {k} \X {"emit", "wait", "delete"}
    BY DEF NothingLeft
  <2>3. reg[k][i] # c
    BY <1>3, <2>2
  <2>4. QED BY <1>2, <1>5, <2>1, <2>2, <2>3
<1>10. QED BY <1>8, <1>9

\* The steps of a question.
LEMMA QuestionType ==
  ASSUME TypeOK, NothingLeft, NEW c \in Call, NEW k \in Kind,
         Register(c, k) \/ Emit(c, k) \/ Await(c, k) \/ Leave(c, k)
  PROVE  (TypeOK /\ NothingLeft)'
<1>0. /\ pc \in [Call -> Labels] /\ id \in [Call -> Id] /\ id[c] \in Id
      /\ reg \in [Kind -> [Id -> Call \cup {Nobody}]]
      /\ chan \in [Kind -> [Call -> SUBSET Answers]]
      /\ got \in [Kind -> [Call -> {"open", "yes", "no", "timeout", "cancelled"}]]
      /\ wire \in Seq(Prompts) /\ Nobody \notin Call
  BY PromptAssumption DEF TypeOK, PromptAssumption
<1>1. \/ Goto(c, k, "emit") \/ Goto(c, k, "wait") \/ Goto(c, k, "delete")
      \/ Goto(c, "tool", "run") \/ Goto(c, "tool", "end")
  BY DEF Register, Emit, Await, Leave
<1>a. PICK phase, label : <<phase, label>> \in Labels /\ Goto(c, phase, label)
  BY <1>1, LabelFacts
<1>2. pc' \in [Call -> Labels] /\ \A d \in Call \ {c} : pc'[d] = pc[d]
  BY <1>0, <1>a, GotoFacts
<1>3. CASE Register(c, k)
  <2>1. /\ reg' = [reg EXCEPT ![k][id[c]] = c] /\ pc[c] = <<k, "register">>
        /\ pc' = [pc EXCEPT ![c] = <<k, "emit">>]
        /\ UNCHANGED <<mode, ctx, id, got, ran, chan, wire, screen, said, posts, found, lax>>
    BY <1>3 DEF Register, At, Goto, pageVars, answerVars
  <2>2. /\ reg' \in [Kind -> [Id -> Call \cup {Nobody}]]
        /\ reg'[k][id[c]] = c
        /\ \A x \in Kind, y \in Id : x # k \/ y # id[c] => reg'[x][y] = reg[x][y]
    BY <1>0, <2>1, EntryFacts
  <2>3. TypeOK'
    BY <1>2, <2>1, <2>2 DEF TypeOK
  <2>4. ASSUME NEW x \in Kind, NEW i \in Id, reg'[x][i] # Nobody
        PROVE  id[reg'[x][i]] = i /\ pc'[reg'[x][i]] \in {x} \X {"emit", "wait", "delete"}
    <3>1. CASE x = k /\ i = id[c]
      BY <1>0, <2>1, <2>2, <3>1
    <3>2. CASE x # k \/ i # id[c]
      <4>1. reg'[x][i] = reg[x][i] /\ reg[x][i] \in Call
        BY <1>0, <2>2, <2>4, <3>2
      <4>2. id[reg[x][i]] = i /\ pc[reg[x][i]] \in {x} \X {"emit", "wait", "delete"}
        BY <2>4, <4>1 DEF NothingLeft
      <4>3. reg[x][i] # c
        BY <2>1, <4>2
      <4>4. QED BY <1>2, <4>1, <4>2, <4>3
    <3>3. QED BY <3>1, <3>2
  <2>5. NothingLeft'
    BY <2>1, <2>4 DEF NothingLeft
  <2>6. QED BY <2>3, <2>5
<1>4. CASE Emit(c, k) \/ Await(c, k)
  <2>1. /\ pc[c] \in {<<k, "emit">>, <<k, "wait">>}
        /\ pc' \in {[pc EXCEPT ![c] = <<k, "wait">>], [pc EXCEPT ![c] = <<k, "delete">>]}
        /\ UNCHANGED <<mode, ctx, id, ran, reg, screen, said, posts, found, lax>>
    BY <1>4 DEF Emit, Await, At, Goto, pageVars, answerVars
  <2>2. wire' \in Seq(Prompts)
    <3>1. [kind |-> k, id |-> id[c], call |-> c] \in Prompts
      BY <1>0 DEF Prompts
    <3>2. wire' = wire \/ wire' = Append(wire, [kind |-> k, id |-> id[c], call |-> c])
      BY <1>4 DEF Emit, Await, pageVars
    <3>3. Append(wire, [kind |-> k, id |-> id[c], call |-> c]) \in Seq(Prompts)
      BY <1>0, <3>1, AppendProperties
    <3>4. QED BY <1>0, <3>2, <3>3
  <2>3. got' \in [Kind -> [Call -> {"open", "yes", "no", "timeout", "cancelled"}]]
    <3>1. CASE Emit(c, k)
      <4>1. got' = got \/ got' = [got EXCEPT ![k][c] = "cancelled"]
        BY <3>1 DEF Emit
      <4>2. [got EXCEPT ![k][c] = "cancelled"]
              \in [Kind -> [Call -> {"open", "yes", "no", "timeout", "cancelled"}]]
        BY <1>0, EntryFacts
      <4>3. QED BY <1>0, <4>1, <4>2
    <3>2. CASE Await(c, k)
      <4>1. PICK o \in Outcomes(c, k) : got' = [got EXCEPT ![k][c] = o]
        BY <3>2 DEF Await
      <4>2. chan[k][c] \subseteq Answers
        BY <1>0
      <4>3. o \in {"open", "yes", "no", "timeout", "cancelled"}
        BY <4>1, <4>2 DEF Outcomes, Answers
      <4>4. QED BY <1>0, <4>1, <4>3, EntryFacts
    <3>3. QED BY <1>4, <3>1, <3>2
  <2>4. chan' \in [Kind -> [Call -> SUBSET Answers]]
    <3>1. chan' = chan \/ chan' = [chan EXCEPT ![k][c] = {}] \/ chan' = [chan EXCEPT ![k][c] = @]
      BY <1>4 DEF Emit, Await
    <3>2. {} \in SUBSET Answers /\ chan[k][c] \in SUBSET Answers
      BY <1>0
    <3>3. QED BY <1>0, <3>1, <3>2, EntryFacts
  <2>5. TypeOK'
    BY <1>2, <2>1, <2>2, <2>3, <2>4 DEF TypeOK
  <2>6. ASSUME NEW x \in Kind, NEW i \in Id, reg[x][i] # Nobody
        PROVE  id[reg[x][i]] = i /\ pc'[reg[x][i]] \in {x} \X {"emit", "wait", "delete"}
    <3>1. reg[x][i] \in Call
      BY <1>0, <2>6
    <3>2. id[reg[x][i]] = i /\ pc[reg[x][i]] \in {x} \X {"emit", "wait", "delete"}
      BY <2>6 DEF NothingLeft
    <3>3. CASE reg[x][i] = c
      <4>1. x = k
        BY <2>1, <3>2, <3>3
      <4>2. pc'[c] \in {<<k, "wait">>, <<k, "delete">>}
        BY <1>0, <2>1
      <4>3. QED BY <3>2, <3>3, <4>1, <4>2
    <3>4. CASE reg[x][i] # c
      BY <1>2, <3>1, <3>2, <3>4
    <3>5. QED BY <3>3, <3>4
  <2>7. NothingLeft'
    BY <2>1, <2>6 DEF NothingLeft
  <2>8. QED BY <2>5, <2>7
<1>5. CASE Leave(c, k)
  <2>1. /\ reg' = [reg EXCEPT ![k][id[c]] = Nobody] /\ pc[c] = <<k, "delete">>
        /\ UNCHANGED <<mode, ctx, id, got, ran, chan, wire, screen, said, posts, found, lax>>
    BY <1>5 DEF Leave, Delete, At, pageVars, answerVars
  <2>2. /\ reg' \in [Kind -> [Id -> Call \cup {Nobody}]]
        /\ reg'[k][id[c]] = Nobody
        /\ \A x \in Kind, y \in Id : x # k \/ y # id[c] => reg'[x][y] = reg[x][y]
    BY <1>0, <2>1, EntryFacts
  <2>3. TypeOK'
    BY <1>2, <2>1, <2>2 DEF TypeOK
  <2>4. ASSUME NEW x \in Kind, NEW i \in Id, reg'[x][i] # Nobody
        PROVE  id[reg'[x][i]] = i /\ pc'[reg'[x][i]] \in {x} \X {"emit", "wait", "delete"}
    <3>1. (x # k \/ i # id[c]) /\ reg'[x][i] = reg[x][i]
      BY <2>2, <2>4
    <3>2. reg[x][i] \in Call
      BY <1>0, <2>4, <3>1
    <3>3. id[reg[x][i]] = i /\ pc[reg[x][i]] \in {x} \X {"emit", "wait", "delete"}
      BY <2>4, <3>1 DEF NothingLeft
    <3>4. reg[x][i] # c
      BY <2>1, <3>1, <3>3
    <3>5. QED BY <1>2, <3>1, <3>2, <3>3, <3>4
  <2>5. NothingLeft'
    BY <2>1, <2>4 DEF NothingLeft
  <2>6. QED BY <2>3, <2>5
<1>6. QED BY <1>3, <1>4, <1>5

\* The steps that leave the calls and the map alone.
LEMMA OtherType ==
  ASSUME TypeOK, NothingLeft, Respond \/ Page \/ \E m \in Modes : SetPermissionMode(m)
  PROVE  (TypeOK /\ NothingLeft)'
<1>0. /\ chan \in [Kind -> [Call -> SUBSET Answers]]
      /\ wire \in Seq(Prompts) /\ screen \in [Kind -> SUBSET Prompts]
      /\ posts \subseteq Answers /\ found \subseteq [answer : Answers, to : Call]
      /\ said \in [Kind -> [Call -> {"nothing", "yes", "no"}]]
      /\ reg \in [Kind -> [Id -> Call \cup {Nobody}]]
  BY DEF TypeOK
<1>1. UNCHANGED <<pc, id, reg>>
  BY DEF Respond, Refuse, Lookup, Send, Page, PermissionDialog, HumanInputDialog, Show,
         StopGeneration, Answer, Lose,
         SetPermissionMode, callVars
<1>2. NothingLeft'
  BY <1>1 DEF NothingLeft
<1>3. ASSUME NEW m \in Modes, SetPermissionMode(m) PROVE TypeOK'
  BY <1>3 DEF TypeOK, SetPermissionMode, callVars, pageVars, answerVars
<1>4. ASSUME NEW p \in posts, Refuse(p) \/ Lose(p) PROVE TypeOK'
  BY <1>4 DEF TypeOK, Refuse, Lose, callVars, pageVars
<1>5. ASSUME NEW p \in posts, Lookup(p) PROVE TypeOK'
  <2>1. p \in Answers /\ p.prompt.kind \in Kind /\ p.prompt.id \in Id
    BY <1>0 DEF Answers, Prompts
  <2>2. Waiting(p) \in Call
    BY <1>0, <1>5, <2>1 DEF Lookup, Waiting
  <2>3. found' \subseteq [answer : Answers, to : Call] /\ posts' \subseteq Answers
    BY <1>0, <1>5, <2>1, <2>2 DEF Lookup
  <2>4. QED BY <1>5, <2>3 DEF TypeOK, Lookup, callVars, pageVars
<1>6. ASSUME NEW f \in found, Send(f) PROVE TypeOK'
  <2> DEFINE k == f.answer.prompt.kind
             v == IF chan[k][f.to] = {} THEN {f.answer} ELSE chan[k][f.to]
  <2>1. f.answer \in Answers /\ f.to \in Call /\ k \in Kind
    BY <1>0 DEF Answers, Prompts
  <2>2. chan[k][f.to] \in SUBSET Answers
    BY <1>0, <2>1
  <2>3. v \in SUBSET Answers
    BY <2>1, <2>2
  <2>4. chan' = [chan EXCEPT ![k][f.to] = v]
    BY <1>6 DEF Send
  <2> HIDE DEF k, v
  <2>5. chan' \in [Kind -> [Call -> SUBSET Answers]]
    BY <1>0, <2>1, <2>3, <2>4, EntryFacts
  <2>6. QED BY <1>6, <2>5 DEF TypeOK, Send, callVars, pageVars
<1>7. CASE Show
  <2>1. Head(wire) \in Prompts /\ Tail(wire) \in Seq(Prompts)
    BY <1>0, <1>7, HeadTailProperties DEF Show
  <2>2. screen' \in [Kind -> SUBSET Prompts] /\ wire' \in Seq(Prompts)
    BY <1>0, <1>7, <2>1 DEF Show
  <2>3. QED BY <1>2, <1>7, <2>2 DEF TypeOK, Show, callVars, answerVars
<1>8. ASSUME NEW k \in Kind, NEW v \in {"yes", "no"}, Answer(k, v) PROVE TypeOK'
  <2>1. PICK p \in screen[k] : /\ posts' = posts \cup {[prompt |-> p, value |-> v]}
                               /\ said' = [said EXCEPT ![k][p.call] = v]
    BY <1>8 DEF Answer
  <2>2. p \in Prompts /\ p.call \in Call
    BY <1>0 DEF Prompts
  <2>3. posts' \subseteq Answers
    BY <1>0, <2>1, <2>2 DEF Answers
  <2>4. said' \in [Kind -> [Call -> {"nothing", "yes", "no"}]]
    BY <1>0, <2>1, <2>2, EntryFacts
  <2>5. screen' \in [Kind -> SUBSET Prompts]
    BY <1>0, <1>8 DEF Answer
  <2>6. QED BY <1>8, <2>3, <2>4, <2>5 DEF TypeOK, Answer, callVars
<1>9. CASE StopGeneration
  <2>1. wire' \in Seq(Prompts) /\ screen' \in [Kind -> SUBSET Prompts] /\ ctx' \in BOOLEAN
    BY <1>9, EmptySeq DEF StopGeneration
  <2>2. QED BY <1>2, <1>9, <2>1 DEF TypeOK, StopGeneration, callVars, answerVars
<1>10. QED
  BY <1>2, <1>3, <1>4, <1>5, <1>6, <1>7, <1>8, <1>9 DEF Respond, Page, PermissionDialog,
         HumanInputDialog, Kind

\* Initially no one waits.
LEMMA InitType == Init => TypeOK /\ NothingLeft
<1> SUFFICES ASSUME Init PROVE TypeOK /\ NothingLeft
  OBVIOUS
<1>1. id \in [Call -> Id]
  BY DEF Init, Id
<1>2. pc \in [Call -> Labels] /\ wire \in Seq(Prompts)
  BY LabelFacts, EmptySeq DEF Init
<1>3. TypeOK
  BY <1>1, <1>2 DEF Init, TypeOK
<1>4. NothingLeft
  BY DEF Init, NothingLeft
<1>5. QED BY <1>3, <1>4

\* The two invariants hold together: the numbering of the questions stays in range
\* because nothing is left of questions that are over.
LEMMA TypedAndClean == Spec => [](TypeOK /\ NothingLeft)
<1>1. TypeOK /\ NothingLeft /\ [Next]_vars => (TypeOK /\ NothingLeft)'
  <2> SUFFICES ASSUME TypeOK, NothingLeft, [Next]_vars PROVE (TypeOK /\ NothingLeft)'
    OBVIOUS
  <2>1. CASE UNCHANGED vars
    BY <2>1 DEF vars, callVars, pageVars, answerVars, TypeOK, NothingLeft
  <2>2. ASSUME NEW c \in Call, Goroutine(c) PROVE (TypeOK /\ NothingLeft)'
    BY <2>2, GateType, QuestionType DEF Goroutine
  <2>3. QED BY <2>1, <2>2, OtherType DEF Next
<1>2. QED BY InitType, <1>1, PTL DEF Spec

\* The type invariant, whatever answers are late, lost or refused.
THEOREM PromptTypes == Spec => []TypeOK
<1>1. TypeOK /\ NothingLeft => TypeOK  OBVIOUS
<1>2. QED BY TypedAndClean, <1>1, PTL

\* When a call has returned, by an answer, a time-out or a cancellation, its entry
\* is gone from the map, also when two calls used the same id.
THEOREM NothingIsLeft == Spec => []NothingLeft
<1>1. TypeOK /\ NothingLeft => NothingLeft  OBVIOUS
<1>2. QED BY TypedAndClean, <1>1, PTL

\* The ids a model gives to the tool calls of one response are different.
DistinctIds == \A c, d \in Call : IdOf[c] = IdOf[d] => c = d

Perm == "permission"

\* The steps of the gate before its question is on its way.
Unasked == {<<"gate", "mode">>, <<"gate", "switch">>, <<Perm, "register">>, <<Perm, "emit">>}

\* A call that needs no confirmation in the present mode has met such a mode.
ModeSeen == \A c \in Call : NeedsConfirm(mode, c) \/ c \in lax

\* Behind the gate a call has met such a mode or got a yes.
GatePassed == \A c \in Call : At(c, "tool", "run") => c \in lax \/ got[Perm][c] = "yes"

\* In the gate a call's id is the model's, and so is every id of a permission.
GateIds ==
  /\ \A c \in Call : pc[c] \in Unasked \cup {<<Perm, "wait">>, <<Perm, "delete">>} => id[c] = IdOf[c]
  /\ \A i \in Id : reg[Perm][i] # Nobody => IdOf[reg[Perm][i]] = i

\* A permission question not yet answered is in one place, and was asked.
Unanswered(p) ==
  p.kind = Perm => /\ p.id = IdOf[p.call]
                   /\ said[Perm][p.call] = "nothing"
                   /\ pc[p.call] \notin Unasked
Questions ==
  /\ \A c \in Call : pc[c] \in Unasked => said[Perm][c] = "nothing"
  /\ \A n \in DOMAIN wire : Unanswered(wire[n])
  /\ \A k \in Kind : \A p \in screen[k] : p.kind = k /\ Unanswered(p)
  /\ \A n, l \in DOMAIN wire : wire[n].kind = Perm /\ wire[l] = wire[n] => n = l
  /\ \A n \in DOMAIN wire : wire[n] \notin screen[Perm]

\* A permission's answer is the user's, and on its way to the call that asked.
Genuine(r) == r.prompt.kind = Perm => /\ said[Perm][r.prompt.call] = r.value
                                      /\ r.prompt.id = IdOf[r.prompt.call]
Replies ==
  /\ \A r \in posts : Genuine(r)
  /\ \A f \in found : Genuine(f.answer) /\ (f.answer.prompt.kind = Perm => f.to = f.answer.prompt.call)
  /\ \A c \in Call : \A r \in chan[Perm][c] :
       Genuine(r) /\ r.prompt.kind = Perm /\ r.prompt.call = c
  /\ \A c \in Call : got[Perm][c] = "yes" => said[Perm][c] = "yes"

Confirmed == ModeSeen /\ GatePassed /\ GateIds /\ Questions /\ Replies

\* The invariant of the unconfirmed run needs no more of the initial state than that
\* there are no questions.
LEMMA ConfirmedInit == Init => Confirmed
<1> SUFFICES ASSUME Init PROVE Confirmed
  OBVIOUS
<1>1. ModeSeen /\ GatePassed
  BY DEF Init, ModeSeen, GatePassed, At
<1>2. GateIds
  BY LabelFacts DEF Init, GateIds, Perm
<1>3. Questions
  BY LabelFacts DEF Init, Questions, Perm
<1>4. Replies
  BY LabelFacts DEF Init, Replies, Perm
<1>5. QED BY <1>1, <1>2, <1>3, <1>4 DEF Confirmed

\* Where the first message waits, and where the last one goes.
LEMMA AppendDomain ==
  ASSUME NEW w \in Seq(Prompts), NEW p \in Prompts
  PROVE  \A n \in DOMAIN Append(w, p) :
           \/ n \in DOMAIN w /\ Append(w, p)[n] = w[n]
           \/ n = Len(w) + 1 /\ n \notin DOMAIN w /\ Append(w, p)[n] = p
<1>1. /\ Append(w, p) \in Seq(Prompts) /\ Len(Append(w, p)) = Len(w) + 1
      /\ \A i \in 1..Len(w) : Append(w, p)[i] = w[i]
      /\ Append(w, p)[Len(w) + 1] = p
  BY AppendProperties
<1>2. /\ DOMAIN w = 1..Len(w) /\ Len(w) \in Nat
      /\ DOMAIN Append(w, p) = 1..Len(Append(w, p))
  BY <1>1, LenProperties
<1>3. QED BY <1>1, <1>2

LEMMA TailDomain ==
  ASSUME NEW w \in Seq(Prompts), w # <<>>
  PROVE  /\ 1 \in DOMAIN w /\ Head(w) = w[1]
         /\ \A n \in DOMAIN Tail(w) :
              n \in Nat /\ n + 1 \in DOMAIN w /\ n + 1 # 1 /\ Tail(w)[n] = w[n + 1]
<1>1. /\ Tail(w) \in Seq(Prompts) /\ Len(Tail(w)) = Len(w) - 1
      /\ \A i \in 1..Len(Tail(w)) : Tail(w)[i] = w[i + 1]
  BY HeadTailProperties
<1>2. /\ DOMAIN w = 1..Len(w) /\ Len(w) \in Nat \ {0}
      /\ DOMAIN Tail(w) = 1..Len(Tail(w))
  BY <1>1, LenProperties, EmptySeq
<1>3. Head(w) = w[1]
  OBVIOUS
<1>4. QED BY <1>1, <1>2, <1>3

\* Questions on their way are not disturbed by steps of calls that have asked.
LEMMA QuestionsKept ==
  ASSUME TypeOK, Questions, UNCHANGED <<wire, screen, said>>,
         \A d \in Call : pc'[d] \in Unasked => pc[d] \in Unasked
  PROVE  Questions'
<1>1. \A n \in DOMAIN wire : wire[n] \in Prompts
  BY LenProperties DEF TypeOK
<1>2. \A k \in Kind : \A p \in screen[k] : p \in Prompts
  BY DEF TypeOK
<1>3. ASSUME NEW p \in Prompts, Unanswered(p) PROVE Unanswered(p)'
  BY <1>3 DEF Unanswered, Prompts
<1>4. QED BY <1>1, <1>2, <1>3 DEF Questions

LEMMA RepliesKept ==
  ASSUME Replies, UNCHANGED <<posts, found, said>>, chan'[Perm] = chan[Perm],
         got'[Perm] = got[Perm]
  PROVE  Replies'
BY DEF Replies, Genuine

\* The gate, the tool and the counting of the pending questions.
LEMMA GateConfirmed ==
  ASSUME TypeOK, Confirmed, NEW c \in Call,
         CheckMode(c) \/ Switch(c) \/ Run(c) \/ Size(c)
  PROVE  Confirmed'
<1> USE DEF Confirmed
<1>0. pc \in [Call -> Labels] /\ id \in [Call -> Id]
  BY DEF TypeOK
<1>1. UNCHANGED <<mode, ctx, got, reg, chan, wire, screen, said, posts, found, lax>>
  BY DEF CheckMode, Switch, Run, Size, pageVars, answerVars
<1>2. \A d \in Call \ {c} : pc'[d] = pc[d] /\ id'[d] = id[d]
  BY <1>0 DEF CheckMode, Switch, Run, Size, Goto
<1>3. \/ /\ pc[c] \in {<<"gate", "mode">>, <<"gate", "switch">>} /\ id' = id
         /\ \/ pc'[c] \in {<<"gate", "switch">>, <<Perm, "register">>}
            \/ pc'[c] = <<"tool", "run">> /\ ~NeedsConfirm(mode, c)
      \/ /\ pc[c] \in {<<"tool", "run">>, <<"human", "size">>}
         /\ pc'[c] \in {<<"human", "size">>, <<"tool", "end">>, <<"human", "register">>}
  BY <1>0 DEF CheckMode, Switch, Run, Size, Goto, At, NeedsConfirm, Perm
<1>4. ModeSeen'
  BY <1>1 DEF ModeSeen, NeedsConfirm
<1>5. GatePassed'
  BY <1>1, <1>2, <1>3 DEF GatePassed, ModeSeen, At, Perm
<1>6. GateIds'
  BY <1>1, <1>2, <1>3 DEF GateIds, Unasked, Perm
<1>7. \A d \in Call : pc'[d] \in Unasked => pc[d] \in Unasked
  BY <1>2, <1>3 DEF Unasked, Perm
<1>8. Questions'
  BY <1>1, <1>7, QuestionsKept
<1>9. Replies'
  BY <1>1, RepliesKept
<1>10. QED BY <1>4, <1>5, <1>6, <1>8, <1>9

\* A question to the user that is not a permission leaves the permissions alone.
LEMMA HumanConfirmed ==
  ASSUME TypeOK, Confirmed, NEW c \in Call,
         Register(c, "human") \/ Emit(c, "human") \/ Await(c, "human") \/ Leave(c, "human")
  PROVE  Confirmed'
<1> USE DEF Confirmed
<1>0. /\ pc \in [Call -> Labels] /\ wire \in Seq(Prompts) /\ id[c] \in Id
      /\ DOMAIN got = Kind /\ DOMAIN chan = Kind /\ DOMAIN reg = Kind
      /\ Perm \in Kind /\ Perm # "human"
  BY LabelFacts DEF TypeOK, Perm
<1>p. PICK p : p = [kind |-> "human", id |-> id[c], call |-> c]
  OBVIOUS
<1>1. /\ UNCHANGED <<mode, id, screen, said, posts, found, lax>>
      /\ (wire' = wire \/ wire' = Append(wire, p))
  BY <1>p DEF Register, Emit, Await, Leave, pageVars, answerVars
<1>2. reg'[Perm] = reg[Perm] /\ chan'[Perm] = chan[Perm] /\ got'[Perm] = got[Perm]
  BY <1>0 DEF Register, Emit, Await, Leave, Delete
<1>3. /\ \A d \in Call \ {c} : pc'[d] = pc[d]
      /\ pc'[c] \in {<<"human", "emit">>, <<"human", "wait">>, <<"human", "delete">>,
                     <<"tool", "end">>}
  BY <1>0 DEF Register, Emit, Await, Leave, Goto
<1>4. ModeSeen' /\ GatePassed'
  BY <1>1, <1>2, <1>3 DEF ModeSeen, NeedsConfirm, GatePassed, At
<1>5. GateIds'
  BY <1>1, <1>2, <1>3 DEF GateIds, Unasked, Perm
<1>6. Questions'
  <2>1. \A d \in Call : pc'[d] \in Unasked => pc[d] \in Unasked
    BY <1>3 DEF Unasked, Perm
  <2>2. CASE wire' = wire
    BY <1>1, <2>1, <2>2, QuestionsKept
  <2>3. CASE wire' = Append(wire, p)
    <3>1. p \in Prompts /\ p.kind # Perm
      BY <1>0, <1>p, LabelFacts DEF Prompts
    <3>2. \A n \in DOMAIN wire' : \/ n \in DOMAIN wire /\ wire'[n] = wire[n]
                                  \/ wire'[n] = p
      BY <1>0, <2>3, <3>1, AppendDomain
    <3>3. /\ \A n \in DOMAIN wire : wire[n] \in Prompts
          /\ \A k \in Kind : \A q \in screen[k] : q \in Prompts
      BY LenProperties DEF TypeOK
    <3>4. ASSUME NEW q \in Prompts, Unanswered(q) PROVE Unanswered(q)'
      BY <1>1, <2>1, <3>4 DEF Unanswered, Prompts
    <3>5. Unanswered(p)'
      BY <3>1 DEF Unanswered
    <3>6. \A q \in screen[Perm] : q # p
      BY <1>0, <3>1 DEF Questions
    <3>7. QED
      BY <1>0, <1>1, <2>1, <3>1, <3>2, <3>3, <3>4, <3>5, <3>6 DEF Questions
  <2>4. QED BY <1>1, <2>2, <2>3
<1>7. Replies'
  BY <1>1, <1>2, RepliesKept
<1>8. QED BY <1>4, <1>5, <1>6, <1>7

\* The steps of a permission question.
LEMMA PermissionConfirmed ==
  ASSUME TypeOK, Confirmed, NEW c \in Call,
         Register(c, Perm) \/ Emit(c, Perm) \/ Await(c, Perm) \/ Leave(c, Perm)
  PROVE  Confirmed'
<1> USE DEF Confirmed
<1>0. /\ pc \in [Call -> Labels] /\ wire \in Seq(Prompts) /\ id[c] \in Id
      /\ reg \in [Kind -> [Id -> Call \cup {Nobody}]]
      /\ chan \in [Kind -> [Call -> SUBSET Answers]]
      /\ got \in [Kind -> [Call -> {"open", "yes", "no", "timeout", "cancelled"}]]
      /\ Perm \in Kind /\ Perm # "human"
  BY LabelFacts DEF TypeOK, Perm
<1>p. PICK p : p = [kind |-> Perm, id |-> id[c], call |-> c]
  OBVIOUS
<1>1. /\ UNCHANGED <<mode, id, screen, said, posts, found, lax>>
      /\ \A d \in Call \ {c} : pc'[d] = pc[d]
  BY <1>0 DEF Register, Emit, Await, Leave, pageVars, answerVars, Goto
<1>2. ModeSeen'
  BY <1>1 DEF ModeSeen, NeedsConfirm
<1>3. CASE Register(c, Perm)
  <2>1. /\ pc[c] = <<Perm, "register">> /\ pc'[c] = <<Perm, "emit">>
        /\ reg' = [reg EXCEPT ![Perm][id[c]] = c] /\ UNCHANGED <<wire, chan, got>>
    BY <1>0, <1>3 DEF Register, At, Goto, pageVars
  <2>2. id[c] = IdOf[c]
    BY <2>1 DEF GateIds, Unasked
  <2>3. reg'[Perm][id[c]] = c /\ \A i \in Id : i # id[c] => reg'[Perm][i] = reg[Perm][i]
    BY <1>0, <2>1, EntryFacts
  <2>4. GatePassed'
    BY <1>1, <2>1 DEF GatePassed, At
  <2>5. GateIds'
    BY <1>1, <2>1, <2>2, <2>3 DEF GateIds, Unasked
  <2>6. \A d \in Call : pc'[d] \in Unasked => pc[d] \in Unasked
    BY <1>1, <2>1 DEF Unasked
  <2>7. QED BY <1>1, <1>2, <2>1, <2>4, <2>5, <2>6, QuestionsKept, RepliesKept
<1>4. CASE Emit(c, Perm)
  <2>1. /\ pc[c] = <<Perm, "emit">> /\ pc'[c] \in {<<Perm, "wait">>, <<Perm, "delete">>}
        /\ UNCHANGED <<reg, chan>>
        /\ (wire' = wire \/ wire' = Append(wire, p))
        /\ (got' = got \/ got' = [got EXCEPT ![Perm][c] = "cancelled"])
    BY <1>0, <1>4, <1>p DEF Emit, At, Goto
  <2>2. /\ pc[c] \in Unasked /\ id[c] = IdOf[c] /\ said[Perm][c] = "nothing"
        /\ pc'[c] \notin Unasked
    BY <2>1 DEF GateIds, Questions, Unasked, Perm
  <2>3. \A d \in Call : d # c => got'[Perm][d] = got[Perm][d]
    BY <1>0, <2>1
  <2>4. got'[Perm][c] = "cancelled" \/ got'[Perm] = got[Perm]
    BY <1>0, <2>1
  <2>5. GatePassed'
    BY <1>1, <2>1, <2>3 DEF GatePassed, At
  <2>6. GateIds'
    BY <1>1, <2>1, <2>2 DEF GateIds, Unasked
  <2>7. \A d \in Call : pc'[d] \in Unasked => pc[d] \in Unasked /\ d # c
    BY <1>1, <2>2
  <2>8. Questions'
    <3>1. CASE wire' = wire
      BY <1>1, <2>7, <3>1, QuestionsKept
    <3>2. CASE wire' = Append(wire, p)
      <4>1. p \in Prompts /\ p.kind = Perm /\ p.call = c /\ p.id = IdOf[c]
        BY <1>0, <1>p, <2>2 DEF Prompts
      <4>2. \A n \in DOMAIN wire' :
              \/ n \in DOMAIN wire /\ wire'[n] = wire[n]
              \/ n = Len(wire) + 1 /\ n \notin DOMAIN wire /\ wire'[n] = p
        BY <1>0, <3>2, <4>1, AppendDomain
      <4>3. /\ \A n \in DOMAIN wire : wire[n] \in Prompts
            /\ \A k \in Kind : \A q \in screen[k] : q \in Prompts
        BY LenProperties DEF TypeOK
      <4>4. ASSUME NEW q \in Prompts, Unanswered(q) PROVE Unanswered(q)'
        BY <1>1, <2>7, <4>4 DEF Unanswered, Prompts
      <4>5. Unanswered(p)'
        BY <1>1, <2>2, <4>1 DEF Unanswered
      <4>6. ASSUME NEW q, Unanswered(q) PROVE q # p
        BY <2>2, <4>1, <4>6 DEF Unanswered
      <4>7. /\ \A n \in DOMAIN wire : wire[n] # p
            /\ p \notin screen[Perm]
        BY <1>0, <4>6 DEF Questions
      <4>8. \A d \in Call : pc'[d] \in Unasked => said'[Perm][d] = "nothing"
        BY <1>1, <2>7 DEF Questions
      <4>9. (\A n \in DOMAIN wire : Unanswered(wire[n]))'
        <5>1. ASSUME NEW n \in DOMAIN wire', NEW q, q = wire'[n] PROVE Unanswered(q)'
          BY <4>2, <4>3, <4>4, <4>5, <5>1 DEF Questions
        <5>2. QED BY <5>1 DEF Unanswered
      <4>10. (\A k \in Kind : \A q \in screen[k] : q.kind = k /\ Unanswered(q))'
        BY <1>1, <4>3, <4>4 DEF Questions
      <4>11. ASSUME NEW n \in DOMAIN wire', NEW l \in DOMAIN wire',
                    wire'[n].kind = Perm, wire'[l] = wire'[n]
             PROVE  n = l
        <5>1. CASE wire'[n] = p
          BY <4>2, <4>7, <4>11, <5>1
        <5>2. CASE wire'[n] # p
          BY <4>2, <4>11, <5>2 DEF Questions
        <5>3. QED BY <5>1, <5>2
      <4>12. \A n \in DOMAIN wire' : wire'[n] \notin screen'[Perm]
        BY <1>1, <4>2, <4>7 DEF Questions
      <4>13. QED
        BY <4>8, <4>9, <4>10, <4>11, <4>12 DEF Questions
    <3>3. QED BY <2>1, <3>1, <3>2
  <2>9. Replies'
    BY <1>1, <2>1, <2>3, <2>4 DEF Replies, Genuine
  <2>10. QED BY <1>2, <2>5, <2>6, <2>8, <2>9
<1>5. CASE Await(c, Perm)
  <2>1. PICK o \in Outcomes(c, Perm) :
          /\ got' = [got EXCEPT ![Perm][c] = o]
          /\ chan' = [chan EXCEPT ![Perm][c] = IF o \in {"yes", "no"} THEN {} ELSE @]
    BY <1>5 DEF Await
  <2>2. pc[c] = <<Perm, "wait">> /\ pc'[c] = <<Perm, "delete">> /\ UNCHANGED <<reg, wire>>
    BY <1>0, <1>5 DEF Await, At, Goto, pageVars
  <2>3. \A d \in Call : chan'[Perm][d] \subseteq chan[Perm][d]
    BY <1>0, <2>1
  <2>4. got'[Perm][c] = o /\ \A d \in Call : d # c => got'[Perm][d] = got[Perm][d]
    BY <1>0, <2>1
  <2>5. o = "yes" => said[Perm][c] = "yes"
    BY DEF Outcomes, Replies, Genuine
  <2>6. GatePassed'
    BY <1>1, <2>2, <2>4 DEF GatePassed, At
  <2>7. GateIds'
    BY <1>1, <2>2 DEF GateIds, Unasked
  <2>8. \A d \in Call : pc'[d] \in Unasked => pc[d] \in Unasked
    BY <1>1, <2>2 DEF Unasked
  <2>9. Replies'
    BY <1>1, <2>3, <2>4, <2>5 DEF Replies, Genuine
  <2>10. QED BY <1>1, <1>2, <2>2, <2>6, <2>7, <2>8, <2>9, QuestionsKept
<1>6. CASE Leave(c, Perm)
  <2>1. /\ pc[c] = <<Perm, "delete">> /\ pc'[c] \in {<<"tool", "run">>, <<"tool", "end">>}
        /\ pc'[c] = <<"tool", "run">> => got[Perm][c] = "yes"
        /\ reg' = [reg EXCEPT ![Perm][id[c]] = Nobody] /\ UNCHANGED <<wire, chan, got>>
    BY <1>0, <1>6 DEF Leave, Delete, Allowed, At, Goto, pageVars, Perm
  <2>2. \A i \in Id : reg'[Perm][i] = Nobody \/ reg'[Perm][i] = reg[Perm][i]
    BY <1>0, <2>1, EntryFacts
  <2>3. GatePassed'
    BY <1>1, <2>1 DEF GatePassed, At
  <2>4. GateIds'
    BY <1>1, <2>1, <2>2 DEF GateIds, Unasked, Perm
  <2>5. \A d \in Call : pc'[d] \in Unasked => pc[d] \in Unasked
    BY <1>1, <2>1 DEF Unasked, Perm
  <2>6. QED BY <1>1, <1>2, <2>1, <2>3, <2>4, <2>5, QuestionsKept, RepliesKept
<1>7. QED BY <1>3, <1>4, <1>5, <1>6

\* The page: a question moves from the wire to the screen, and its answer on its way
\* back.
LEMMA PageConfirmed ==
  ASSUME TypeOK, Confirmed, Page
  PROVE  Confirmed'
<1> USE DEF Confirmed
<1>0. /\ wire \in Seq(Prompts) /\ screen \in [Kind -> SUBSET Prompts] /\ Perm \in Kind
      /\ said \in [Kind -> [Call -> {"nothing", "yes", "no"}]]
      /\ posts \subseteq Answers /\ found \subseteq [answer : Answers, to : Call]
      /\ chan \in [Kind -> [Call -> SUBSET Answers]]
  BY LabelFacts DEF TypeOK, Perm
<1>a. \A n \in DOMAIN wire : wire[n] \in Prompts
  BY <1>0, LenProperties
<1>1. UNCHANGED <<mode, pc, id, reg, got, ran, chan, found, lax>>
  BY DEF Page, PermissionDialog, HumanInputDialog, Show, StopGeneration, Answer, Lose,
         callVars, answerVars
<1>2. ModeSeen' /\ GatePassed' /\ GateIds'
  BY <1>1 DEF ModeSeen, NeedsConfirm, GatePassed, GateIds, At
<1>3. CASE Show
  <2>1. /\ wire # <<>> /\ wire' = Tail(wire) /\ UNCHANGED <<posts, said>>
        /\ screen' = [screen EXCEPT ![Head(wire).kind] = {Head(wire)}]
    BY <1>3 DEF Show, answerVars
  <2>2. /\ 1 \in DOMAIN wire /\ Head(wire) = wire[1]
        /\ \A n \in DOMAIN wire' : n \in Nat /\ n + 1 \in DOMAIN wire /\ n + 1 # 1
                                     /\ wire'[n] = wire[n + 1]
    BY <1>0, <2>1, TailDomain
  <2>3. ASSUME NEW q, Unanswered(q) PROVE Unanswered(q)'
    BY <1>1, <2>1, <2>3 DEF Unanswered
  <2>4. PICK q \in Prompts : q = wire[1]
    BY <1>a, <2>2
  <2>5. screen' = [screen EXCEPT ![q.kind] = {q}] /\ q.kind \in Kind /\ Unanswered(q)
    BY <2>1, <2>2, <2>4 DEF Questions, Prompts
  <2>6. \A k \in Kind : \A r \in screen'[k] : r \in screen[k] \/ (r = q /\ k = q.kind)
    BY <1>0, <2>5
  <2>7. (\A n \in DOMAIN wire : Unanswered(wire[n]))'
    <3>1. ASSUME NEW n \in DOMAIN wire', NEW r, r = wire'[n] PROVE Unanswered(r)'
      BY <2>2, <2>3, <3>1 DEF Questions
    <3>2. QED BY <3>1 DEF Unanswered
  <2>8. (\A k \in Kind : \A r \in screen[k] : r.kind = k /\ Unanswered(r))'
    BY <2>3, <2>5, <2>6 DEF Questions
  <2>9. ASSUME NEW n \in DOMAIN wire', NEW l \in DOMAIN wire',
               wire'[n].kind = Perm, wire'[l] = wire'[n]
        PROVE  n = l
    <3>1. n + 1 = l + 1
      BY <2>2, <2>9 DEF Questions
    <3>2. QED BY <2>2, <3>1
  <2>10. ASSUME NEW n \in DOMAIN wire' PROVE wire'[n] \notin screen'[Perm]
    <3>1. wire'[n] = wire[n + 1] /\ n + 1 \in DOMAIN wire /\ n + 1 # 1
      BY <2>2
    <3>2. CASE q.kind = Perm
      <4>1. screen'[Perm] = {q}
        BY <1>0, <2>5, <3>2
      <4>2. wire[n + 1] # wire[1]
        BY <2>2, <2>4, <3>1, <3>2 DEF Questions
      <4>3. QED BY <2>4, <3>1, <4>1, <4>2
    <3>3. CASE q.kind # Perm
      BY <1>0, <2>6, <3>1, <3>3 DEF Questions
    <3>4. QED BY <3>2, <3>3
  <2>11. (\A c \in Call : pc[c] \in Unasked => said[Perm][c] = "nothing")'
    BY <1>1, <2>1 DEF Questions
  <2>12. Questions'
    BY <2>7, <2>8, <2>9, <2>10, <2>11 DEF Questions
  <2>13. Replies'
    BY <1>1, <2>1, RepliesKept
  <2>14. QED BY <1>2, <2>12, <2>13
<1>4. ASSUME NEW k \in Kind, NEW v \in {"yes", "no"}, Answer(k, v) PROVE Confirmed'
  <2>1. PICK q \in screen[k] : /\ posts' = posts \cup {[prompt |-> q, value |-> v]}
                               /\ said' = [said EXCEPT ![k][q.call] = v]
    BY <1>4 DEF Answer
  <2>2. q \in Prompts /\ q.call \in Call /\ q.kind = k /\ Unanswered(q)
    BY <1>0, <2>1 DEF Prompts, Questions
  <2>3. wire' = wire /\ screen' = [screen EXCEPT ![k] = {}]
    BY <1>4 DEF Answer
  <2>4. /\ said'[k][q.call] = v
        /\ \A x \in Kind, d \in Call : x # k \/ d # q.call => said'[x][d] = said[x][d]
    BY <1>0, <2>1, <2>2, EntryFacts
  <2>5. ASSUME NEW r \in Answers, Genuine(r) PROVE Genuine(r)'
    <3>1. r.prompt \in Prompts /\ r.value \in {"yes", "no"} /\ r.prompt.call \in Call
      BY DEF Answers, Prompts
    <3>2. QED
      BY <1>0, <2>2, <2>4, <2>5, <3>1 DEF Genuine, Unanswered
  <2>6. ASSUME NEW r \in Prompts, Unanswered(r), r # q PROVE Unanswered(r)'
    <3>1. CASE k = Perm /\ r.kind = Perm /\ r.call = q.call
      <4>1. r.id = q.id /\ r.kind = q.kind
        BY <2>2, <2>6, <3>1 DEF Unanswered
      <4>2. r = q
        BY <2>2, <3>1, <4>1 DEF Prompts
      <4>3. QED BY <2>6, <4>2
    <3>2. CASE ~(k = Perm /\ r.kind = Perm /\ r.call = q.call)
      <4>1. r.call \in Call
        BY DEF Prompts
      <4>2. r.kind = Perm => said'[Perm][r.call] = said[Perm][r.call]
        BY <1>0, <2>4, <3>2, <4>1
      <4>3. QED BY <1>1, <2>6, <4>2 DEF Unanswered
    <3>3. QED BY <3>1, <3>2
  <2>7. (\A n \in DOMAIN wire : Unanswered(wire[n]))'
    <3>1. ASSUME NEW n \in DOMAIN wire, NEW r, r = wire[n] PROVE Unanswered(r)'
      <4>1. CASE k = Perm
        BY <1>0, <1>a, <2>1, <2>6, <3>1, <4>1 DEF Questions
      <4>2. CASE k # Perm
        BY <1>0, <1>a, <1>1, <2>2, <2>4, <3>1, <4>2 DEF Questions, Unanswered, Prompts
      <4>3. QED BY <4>1, <4>2
    <3>2. QED BY <2>3, <3>1 DEF Unanswered
  <2>8. \A x \in Kind : \A r \in screen'[x] : r \in screen[x] /\ x # k
    BY <1>0, <2>3
  <2>9. (\A x \in Kind : \A r \in screen[x] : r.kind = x /\ Unanswered(r))'
    <3>1. ASSUME NEW x \in Kind, NEW r \in screen'[x] PROVE r.kind = x /\ Unanswered(r)'
      <4>1. r \in Prompts /\ r.kind = x /\ Unanswered(r) /\ r # q
        BY <1>0, <2>2, <2>8, <3>1 DEF Questions
      <4>2. QED BY <2>6, <4>1
    <3>2. QED BY <3>1
  <2>10. (\A c \in Call : pc[c] \in Unasked => said[Perm][c] = "nothing")'
    <3>1. k = Perm => pc[q.call] \notin Unasked
      BY <2>2 DEF Unanswered
    <3>2. QED BY <1>0, <1>1, <2>2, <2>4, <3>1 DEF Questions
  <2>11. screen'[Perm] \subseteq screen[Perm]
    BY <1>0, <2>3
  <2>12. Questions'
    BY <2>3, <2>7, <2>9, <2>10, <2>11 DEF Questions
  <2>13. \A r \in posts' : Genuine(r)'
    <3>1. PICK a : a = [prompt |-> q, value |-> v]
      OBVIOUS
    <3>2. Genuine(a)'
      BY <2>2, <2>4, <3>1 DEF Genuine, Unanswered
    <3>3. QED BY <1>0, <2>1, <2>5, <3>1, <3>2 DEF Replies
  <2>14. \A f \in found' : Genuine(f.answer)' /\ (f.answer.prompt.kind = Perm => f.to = f.answer.prompt.call)
    BY <1>0, <1>1, <2>5 DEF Replies
  <2>15. \A c \in Call : \A r \in chan'[Perm][c] :
           Genuine(r)' /\ r.prompt.kind = Perm /\ r.prompt.call = c
    BY <1>0, <1>1, <2>5 DEF Replies
  <2>16. \A c \in Call : got'[Perm][c] = "yes" => said'[Perm][c] = "yes"
    BY <1>0, <1>1, <2>2, <2>4 DEF Replies, Unanswered
  <2>17. Replies'
    BY <2>13, <2>14, <2>15, <2>16 DEF Replies
  <2>18. QED BY <1>2, <2>12, <2>17
<1>5. CASE StopGeneration
  <2>1. wire' = <<>> /\ screen' = [k \in Kind |-> {}] /\ UNCHANGED <<said, posts>>
    BY <1>5 DEF StopGeneration, answerVars
  <2>2. DOMAIN wire' = {}
    BY <2>1
  <2>3. Questions'
    BY <1>0, <1>1, <2>1, <2>2 DEF Questions
  <2>4. QED BY <1>1, <1>2, <2>1, <2>3, RepliesKept
<1>6. ASSUME NEW p \in posts, Lose(p) PROVE Confirmed'
  <2>1. posts' \subseteq posts /\ UNCHANGED <<wire, screen, said>>
    BY <1>6 DEF Lose, pageVars
  <2>2. Questions'
    BY <1>1, <2>1, QuestionsKept
  <2>3. Replies'
    BY <1>1, <2>1 DEF Replies, Genuine
  <2>4. QED BY <1>2, <2>2, <2>3
<1>7. QED BY <1>3, <1>4, <1>5, <1>6 DEF Page, PermissionDialog, HumanInputDialog, Kind

\* The respond handlers: distinct ids lead an answer to the call that asked.
LEMMA RespondConfirmed ==
  ASSUME DistinctIds, TypeOK, Confirmed, Respond
  PROVE  Confirmed'
<1> USE DEF Confirmed
<1>0. /\ posts \subseteq Answers /\ found \subseteq [answer : Answers, to : Call]
      /\ chan \in [Kind -> [Call -> SUBSET Answers]] /\ Perm \in Kind
      /\ reg \in [Kind -> [Id -> Call \cup {Nobody}]]
  BY LabelFacts DEF TypeOK, Perm
<1>1. UNCHANGED <<mode, pc, id, reg, got, ran, wire, screen, said, lax>>
  BY DEF Respond, Refuse, Lookup, Send, callVars, pageVars
<1>2. ModeSeen' /\ GatePassed' /\ GateIds'
  BY <1>1 DEF ModeSeen, NeedsConfirm, GatePassed, GateIds, At
<1>3. Questions'
  BY <1>1, QuestionsKept
<1>4. ASSUME NEW r, Genuine(r) PROVE Genuine(r)'
  BY <1>1, <1>4 DEF Genuine
<1>5. ASSUME NEW p \in posts, Refuse(p) PROVE Replies'
  BY <1>1, <1>4, <1>5 DEF Refuse, Replies
<1>6. ASSUME NEW p \in posts, Lookup(p) PROVE Replies'
  <2>1. PICK f : f = [answer |-> p, to |-> Waiting(p)]
    OBVIOUS
  <2>2. /\ found' = found \cup {f} /\ posts' \subseteq posts /\ chan' = chan
        /\ Waiting(p) # Nobody
    BY <1>6, <2>1 DEF Lookup
  <2>3. /\ p.prompt.kind \in Kind /\ p.prompt.id \in Id /\ p.prompt.call \in Call
        /\ Genuine(p)
    BY <1>0 DEF Answers, Prompts, Replies
  <2>4. Waiting(p) \in Call
    BY <1>0, <2>2, <2>3 DEF Waiting
  <2>5. p.prompt.kind = Perm => Waiting(p) = p.prompt.call
    <3>1. ASSUME p.prompt.kind = Perm PROVE IdOf[Waiting(p)] = IdOf[p.prompt.call]
      BY <2>2, <2>3, <3>1 DEF GateIds, Genuine, Waiting
    <3>2. QED BY <2>3, <2>4, <3>1 DEF DistinctIds
  <2>6. f.answer = p /\ f.to = Waiting(p)
    BY <2>1
  <2>7. \A x \in found' :
          Genuine(x.answer)' /\ (x.answer.prompt.kind = Perm => x.to = x.answer.prompt.call)
    BY <1>4, <2>2, <2>3, <2>5, <2>6 DEF Replies
  <2>8. QED BY <1>1, <1>4, <2>2, <2>7 DEF Replies
<1>7. ASSUME NEW f \in found, Send(f) PROVE Replies'
  <2> DEFINE k == f.answer.prompt.kind
             v == IF chan[k][f.to] = {} THEN {f.answer} ELSE chan[k][f.to]
  <2>1. f.answer \in Answers /\ f.to \in Call /\ k \in Kind
    BY <1>0 DEF Answers, Prompts
  <2>2. v \in SUBSET Answers /\ chan' = [chan EXCEPT ![k][f.to] = v]
    BY <1>0, <1>7, <2>1 DEF Send
  <2>3. v \subseteq chan[k][f.to] \cup {f.answer}
    OBVIOUS
  <2> HIDE DEF v
  <2>4. /\ chan'[k][f.to] = v
        /\ \A x \in Kind, d \in Call : x # k \/ d # f.to => chan'[x][d] = chan[x][d]
    BY <1>0, <2>1, <2>2, EntryFacts
  <2>5. /\ Genuine(f.answer)
        /\ f.answer.prompt.kind = Perm => f.to = f.answer.prompt.call
    BY DEF Replies
  <2>6. ASSUME NEW c \in Call, NEW r \in chan'[Perm][c]
        PROVE  Genuine(r)' /\ r.prompt.kind = Perm /\ r.prompt.call = c
    <3>1. CASE r \in chan[Perm][c]
      BY <1>4, <3>1 DEF Replies
    <3>2. CASE r \notin chan[Perm][c]
      <4>1. k = Perm /\ c = f.to /\ r = f.answer
        BY <1>0, <2>3, <2>4, <2>6, <3>2
      <4>2. QED BY <1>4, <2>5, <4>1
    <3>3. QED BY <3>1, <3>2
  <2>7. found' \subseteq found /\ posts' = posts
    BY <1>7 DEF Send
  <2>8. QED BY <1>1, <1>4, <2>6, <2>7 DEF Replies
<1>8. Replies'
  BY <1>5, <1>6, <1>7 DEF Respond
<1>9. QED BY <1>2, <1>3, <1>8

\* A change of the mode is remembered by the calls it concerns.
LEMMA ModeConfirmed ==
  ASSUME TypeOK, Confirmed, NEW m \in Modes, SetPermissionMode(m)
  PROVE  Confirmed'
<1>1. /\ mode' = m /\ lax' = lax \cup {c \in Call : ~NeedsConfirm(m, c)}
      /\ UNCHANGED <<pc, id, got, reg, chan, wire, screen, said, posts, found>>
  BY DEF SetPermissionMode, callVars, pageVars, answerVars
<1>2. ModeSeen' /\ GatePassed' /\ GateIds'
  BY <1>1 DEF Confirmed, ModeSeen, NeedsConfirm, GatePassed, GateIds, At
<1>3. Questions' /\ Replies'
  BY <1>1, QuestionsKept, RepliesKept DEF Confirmed
<1>4. QED BY <1>2, <1>3 DEF Confirmed

\* With distinct tool-call ids, a tool that needs a confirmation runs only after the
\* user allowed that very call, or the mode was once one that asks for none: no
\* answer that is late, lost, or given to another dialog lets a call pass.
THEOREM ConfirmedRuns == DistinctIds => (Spec => []RunsOnlyIfAllowed)
<1> SUFFICES ASSUME DistinctIds PROVE Spec => []RunsOnlyIfAllowed
  OBVIOUS
<1> DEFINE Inv == Confirmed /\ RunsOnlyIfAllowed
<1>1. Init => Inv
  BY ConfirmedInit DEF Init, RunsOnlyIfAllowed
<1>2. TypeOK /\ TypeOK' /\ Inv /\ [Next]_vars => Inv'
  <2> SUFFICES ASSUME TypeOK, TypeOK', Confirmed, RunsOnlyIfAllowed, [Next]_vars PROVE Inv'
    OBVIOUS
  <2>1. Confirmed'
    <3>1. CASE UNCHANGED vars
      <4>1. UNCHANGED <<mode, pc, id, got, reg, chan, wire, screen, said, posts, found, lax>>
        BY <3>1 DEF vars, callVars, pageVars, answerVars
      <4>2. ModeSeen' /\ GatePassed' /\ GateIds'
        BY <4>1 DEF Confirmed, ModeSeen, NeedsConfirm, GatePassed, GateIds, At
      <4>3. Questions' /\ Replies'
        BY <4>1, QuestionsKept, RepliesKept DEF Confirmed
      <4>4. QED BY <4>2, <4>3 DEF Confirmed
    <3>2. ASSUME NEW c \in Call, Goroutine(c) PROVE Confirmed'
      BY <3>2, GateConfirmed, HumanConfirmed, PermissionConfirmed DEF Goroutine, Kind, Perm
    <3>3. QED
      BY <3>1, <3>2, PageConfirmed, RespondConfirmed, ModeConfirmed DEF Next
  <2>2. RunsOnlyIfAllowed'
    <3>1. said \in [Kind -> [Call -> {"nothing", "yes", "no"}]] /\ Perm \in Kind
      BY LabelFacts DEF TypeOK, Perm
    <3>2. lax \subseteq lax'
      BY DEF Next, vars, Goroutine, Respond, Page, PermissionDialog,
             HumanInputDialog, Kind, CheckMode, Switch, Run, Size, Register,
             Emit, Await, Leave, Show, Answer, StopGeneration, Lose, Refuse, Lookup, Send,
             SetPermissionMode
    <3>3. \A c \in Call : said[Perm][c] = "yes" /\ c \in ran => said'[Perm][c] = "yes"
      <4>1. CASE said' = said
        BY <4>1
      <4>2. ASSUME NEW k \in Kind, NEW v \in {"yes", "no"}, Answer(k, v)
            PROVE  \A c \in Call : said[Perm][c] = "yes" => said'[Perm][c] = "yes"
        <5>1. PICK q \in screen[k] : said' = [said EXCEPT ![k][q.call] = v]
          BY <4>2 DEF Answer
        <5>2. k = Perm => said[Perm][q.call] = "nothing"
          BY DEF Confirmed, Questions, Unanswered
        <5>3. q.call \in Call
          BY DEF TypeOK, Prompts
        <5>4. \A c \in Call : k # Perm \/ c # q.call => said'[Perm][c] = said[Perm][c]
          BY <3>1, <5>1, <5>3, EntryFacts
        <5>5. QED BY <5>2, <5>4
      <4>3. said' = said \/ \E k \in Kind, v \in {"yes", "no"} : Answer(k, v)
        BY DEF Next, vars, Goroutine, Respond, Page, PermissionDialog,
             HumanInputDialog, Kind, CheckMode, Switch, Run, Size, Register,
               Emit, Await, Leave, Show, StopGeneration, Lose, Refuse, Lookup, Send,
               SetPermissionMode, pageVars
      <4>4. QED BY <4>1, <4>2, <4>3
    <3>4. ran' = ran \/ \E c \in Call : Run(c)
      BY DEF Next, vars, Goroutine, Respond, Page, PermissionDialog,
             HumanInputDialog, Kind, CheckMode, Switch, Size, Register,
             Emit, Await, Leave, Show, Answer, StopGeneration, Lose, Refuse, Lookup, Send,
             SetPermissionMode, callVars
    <3>5. ASSUME NEW c \in Call, Run(c)
          PROVE  ran' = ran \cup {c} /\ (c \in lax \/ said[Perm][c] = "yes") /\ said' = said
      BY <3>5 DEF Run, Confirmed, GatePassed, Replies, pageVars
    <3>6. ran \subseteq Call
      BY DEF TypeOK
    <3>7. QED
      BY <3>2, <3>3, <3>4, <3>5, <3>6 DEF RunsOnlyIfAllowed, Perm
  <2>3. QED BY <2>1, <2>2
<1>3. Inv => RunsOnlyIfAllowed
  OBVIOUS
<1> HIDE DEF Inv
<1>4. QED BY <1>1, <1>2, <1>3, PromptTypes, PTL DEF Spec

\* Where a call is before its question of kind k is on its way.
Before(k) ==
  Unasked \cup (IF k = Perm THEN {}
                ELSE {<<Perm, "wait">>, <<Perm, "delete">>, <<"tool", "run">>,
                      <<"human", "size">>, <<"human", "register">>, <<"human", "emit">>})

\* Before it is asked a question has no answer, and until it is over no end.
Fresh ==
  \A c \in Call, k \in Kind :
    /\ pc[c] \in Before(k) => said[k][c] = "nothing"
    /\ pc[c] \in Before(k) \cup {<<k, "wait">>} => got[k][c] = "open"

\* Calls only move on: none comes back before a question it has put.
LEMMA Onward ==
  ASSUME TypeOK, NEW c \in Call, Goroutine(c)
  PROVE  /\ \A d \in Call \ {c} : pc'[d] = pc[d]
         /\ \A k \in Kind : pc'[c] \in Before(k) => pc[c] \in Before(k)
         /\ \A k \in Kind : pc'[c] = <<k, "wait">> => pc[c] = <<k, "emit">>
<1>0. pc \in [Call -> Labels]
  BY DEF TypeOK
<1>1. \A d \in Call \ {c} : pc'[d] = pc[d]
  BY <1>0 DEF Goroutine, CheckMode, Switch, Run, Size, Register, Emit, Await, Leave, Goto
<1>2. CASE CheckMode(c) \/ Switch(c) \/ Run(c) \/ Size(c)
  <2>1. \/ /\ pc[c] \in {<<"gate", "mode">>, <<"gate", "switch">>}
           /\ pc'[c] \in {<<"gate", "switch">>, <<Perm, "register">>, <<"tool", "run">>}
        \/ /\ pc[c] \in {<<"tool", "run">>, <<"human", "size">>}
           /\ pc'[c] \in {<<"human", "size">>, <<"tool", "end">>, <<"human", "register">>}
    BY <1>0, <1>2 DEF CheckMode, Switch, Run, Size, Goto, At, Perm
  <2>2. QED BY <1>1, <2>1 DEF Before, Unasked, Kind, Perm
<1>3. ASSUME NEW k \in Kind, Register(c, k) \/ Emit(c, k) \/ Await(c, k) PROVE
        /\ \A x \in Kind : pc'[c] \in Before(x) => pc[c] \in Before(x)
        /\ \A x \in Kind : pc'[c] = <<x, "wait">> => pc[c] = <<x, "emit">>
  <2>1. \/ pc[c] = <<k, "register">> /\ pc'[c] = <<k, "emit">>
        \/ pc[c] = <<k, "emit">> /\ pc'[c] \in {<<k, "wait">>, <<k, "delete">>}
        \/ pc[c] = <<k, "wait">> /\ pc'[c] = <<k, "delete">>
    BY <1>0, <1>3 DEF Register, Emit, Await, Goto, At
  <2>2. QED BY <2>1 DEF Before, Unasked, Kind, Perm
<1>4. ASSUME NEW k \in Kind, Leave(c, k) PROVE
        /\ \A x \in Kind : pc'[c] \in Before(x) => pc[c] \in Before(x)
        /\ \A x \in Kind : pc'[c] = <<x, "wait">> => pc[c] = <<x, "emit">>
  <2>1. /\ pc[c] = <<k, "delete">>
        /\ \/ pc'[c] = <<"tool", "run">> /\ k = Perm
           \/ pc'[c] = <<"tool", "end">>
    BY <1>0, <1>4 DEF Leave, Goto, At, Perm
  <2>2. QED BY <2>1 DEF Before, Unasked, Kind, Perm
<1>5. QED BY <1>1, <1>2, <1>3, <1>4 DEF Goroutine

\* A step of a call keeps its questions fresh until they are asked or over.
LEMMA FreshStep ==
  ASSUME TypeOK, Fresh, NEW c \in Call, Goroutine(c)
  PROVE  Fresh'
<1>0. /\ got \in [Kind -> [Call -> {"open", "yes", "no", "timeout", "cancelled"}]]
      /\ pc \in [Call -> Labels]
  BY DEF TypeOK
<1>1. /\ \A d \in Call, k \in Kind : pc'[d] \in Before(k) => pc[d] \in Before(k)
      /\ \A d \in Call, k \in Kind : pc'[d] = <<k, "wait">> => pc[d] \in Before(k) \cup {<<k, "wait">>}
  <2>1. \A k \in Kind : <<k, "emit">> \in Before(k)
    BY DEF Before, Unasked, Kind, Perm
  <2>2. QED BY <2>1, Onward
<1>2. UNCHANGED said
  BY DEF Goroutine, CheckMode, Switch, Run, Size, Register, Emit, Await, Leave, pageVars
<1>3. ASSUME NEW d \in Call, NEW k \in Kind, pc'[d] \in Before(k) \cup {<<k, "wait">>}
      PROVE  got'[k][d] = "open"
  <2>1. got[k][d] = "open"
    BY <1>1, <1>3 DEF Fresh
  <2>2. \/ got' = got
        \/ \E x \in Kind : \E o : got' = [got EXCEPT ![x][c] = o] /\ pc'[c] = <<x, "delete">>
    BY <1>0 DEF Goroutine, CheckMode, Switch, Run, Size, Register, Emit, Await, Leave, Goto
  <2>3. ASSUME NEW x \in Kind, NEW o, got' = [got EXCEPT ![x][c] = o], pc'[c] = <<x, "delete">>
        PROVE  got'[k][d] = "open"
    <3>1. <<x, "delete">> \notin Before(x) \cup {<<x, "wait">>}
      BY DEF Before, Unasked, Kind, Perm
    <3>2. x # k \/ d # c
      BY <1>3, <2>3, <3>1
    <3>3. got'[k][d] = got[k][d]
      BY <1>0, <2>3, <3>2
    <3>4. QED BY <2>1, <3>3
  <2>4. QED BY <2>1, <2>2, <2>3
<1>4. QED BY <1>1, <1>2, <1>3 DEF Fresh

Open(k) == {<<k, "emit">>, <<k, "wait">>, <<k, "delete">>}

\* The id of a permission is the model's, and a question that is over has an end.
Numbered ==
  /\ \A c \in Call : pc[c] \in Unasked \cup Open(Perm) => id[c] = IdOf[c]
  /\ \A c \in Call, k \in Kind : pc[c] = <<k, "delete">> => got[k][c] # "open"

\* A call whose question is open is the one the server has under its id, or another
\* call has put a question under it.
Enlisted ==
  \A c \in Call, k \in Kind :
    pc[c] \in Open(k) => reg[k][id[c]] = c \/ Namesakes(k, c) # {}

\* A step of a call, seen from its labels, its id and its ends.
LEMMA CallMoves ==
  ASSUME TypeOK, NEW c \in Call, Goroutine(c)
  PROVE  /\ \A d \in Call \ {c} : /\ pc'[d] = pc[d] /\ id'[d] = id[d]
                                  /\ \A k \in Kind : got'[k][d] = got[k][d]
         /\ \/ /\ pc[c] \in {<<"gate", "mode">>, <<"gate", "switch">>}
               /\ pc'[c] \in {<<"gate", "switch">>, <<Perm, "register">>, <<"tool", "run">>}
               /\ UNCHANGED <<id, got>>
            \/ /\ pc[c] = <<"tool", "run">> /\ pc'[c] \in {<<"human", "size">>, <<"tool", "end">>}
               /\ UNCHANGED <<id, got>>
            \/ pc[c] = <<"human", "size">> /\ pc'[c] = <<"human", "register">> /\ UNCHANGED got
            \/ \E k \in Kind :
                 /\ UNCHANGED id
                 /\ \/ pc[c] = <<k, "register">> /\ pc'[c] = <<k, "emit">> /\ UNCHANGED got
                    \/ pc[c] = <<k, "emit">> /\ pc'[c] = <<k, "wait">> /\ UNCHANGED got
                    \/ /\ pc[c] \in {<<k, "emit">>, <<k, "wait">>} /\ pc'[c] = <<k, "delete">>
                       /\ got'[k][c] # "open" /\ \A x \in Kind \ {k} : got'[x][c] = got[x][c]
                    \/ /\ pc[c] = <<k, "delete">> /\ UNCHANGED got
                       /\ pc'[c] \in {<<"tool", "run">>, <<"tool", "end">>}
<1>0. /\ pc \in [Call -> Labels] /\ id \in [Call -> Id]
      /\ got \in [Kind -> [Call -> {"open", "yes", "no", "timeout", "cancelled"}]]
      /\ chan \in [Kind -> [Call -> SUBSET Answers]]
  BY DEF TypeOK
<1>1. \A d \in Call \ {c} : pc'[d] = pc[d] /\ id'[d] = id[d]
  BY <1>0 DEF Goroutine, CheckMode, Switch, Run, Size, Register, Emit, Await, Leave, Goto
<1>2. CASE CheckMode(c) \/ Switch(c) \/ Run(c) \/ Size(c)
  BY <1>0, <1>1, <1>2 DEF CheckMode, Switch, Run, Size, Goto, At, Perm
<1>3. ASSUME NEW k \in Kind, Register(c, k) \/ Leave(c, k) PROVE
        /\ UNCHANGED <<id, got>>
        /\ \/ pc[c] = <<k, "register">> /\ pc'[c] = <<k, "emit">>
           \/ pc[c] = <<k, "delete">> /\ pc'[c] \in {<<"tool", "run">>, <<"tool", "end">>}
  BY <1>0, <1>3 DEF Register, Leave, Goto, At
<1>4. ASSUME NEW k \in Kind, Emit(c, k) \/ Await(c, k) PROVE
        /\ UNCHANGED id
        /\ \/ pc[c] = <<k, "emit">> /\ pc'[c] = <<k, "wait">> /\ UNCHANGED got
           \/ /\ pc[c] \in {<<k, "emit">>, <<k, "wait">>} /\ pc'[c] = <<k, "delete">>
              /\ \E o : got' = [got EXCEPT ![k][c] = o] /\ o # "open"
  <2>1. CASE Emit(c, k)
    <3>1. CASE pc' = [pc EXCEPT ![c] = <<k, "wait">>] /\ UNCHANGED got
      BY <1>0, <2>1, <3>1 DEF Emit, At
    <3>2. CASE /\ pc' = [pc EXCEPT ![c] = <<k, "delete">>]
               /\ got' = [got EXCEPT ![k][c] = "cancelled"]
      <4>1. \E o : got' = [got EXCEPT ![k][c] = o] /\ o # "open"
        <5>1. "cancelled" # "open"
          OBVIOUS
        <5>2. QED BY <3>2, <5>1, Zenon
      <4>2. QED BY <1>0, <2>1, <3>2, <4>1 DEF Emit, At
    <3>3. CASE k = "human"
      <4>1. Goto(c, k, "wait") /\ UNCHANGED got
        BY <2>1, <3>3 DEF Emit
      <4>2. QED BY <3>1, <4>1 DEF Goto
    <3>4. CASE k # "human"
      <4>1. \/ Goto(c, k, "wait") /\ UNCHANGED got
            \/ Goto(c, k, "delete") /\ got' = [got EXCEPT ![k][c] = "cancelled"]
        BY <2>1, <3>4 DEF Emit
      <4>2. QED BY <3>1, <3>2, <4>1 DEF Goto
    <3>5. QED BY <3>3, <3>4
  <2>2. CASE Await(c, k)
    <3>1. PICK o \in Outcomes(c, k) : got' = [got EXCEPT ![k][c] = o]
      BY <2>2 DEF Await
    <3>2. \A r \in chan[k][c] : r.value # "open"
      BY <1>0 DEF Answers
    <3>3. o # "open"
      BY <3>1, <3>2 DEF Outcomes
    <3>4. QED BY <1>0, <2>2, <3>1, <3>3 DEF Await, Goto, At
  <2>3. QED BY <1>4, <2>1, <2>2
<1>5. ASSUME NEW k \in Kind, NEW o, got' = [got EXCEPT ![k][c] = o], o # "open" PROVE
        /\ got'[k][c] # "open" /\ \A x \in Kind \ {k} : got'[x][c] = got[x][c]
        /\ \A d \in Call \ {c}, x \in Kind : got'[x][d] = got[x][d]
  BY <1>0, <1>5
<1>6. ASSUME NEW k \in Kind, Emit(c, k) \/ Await(c, k) PROVE
        /\ \A d \in Call \ {c}, x \in Kind : got'[x][d] = got[x][d]
        /\ UNCHANGED id
        /\ \/ pc[c] = <<k, "emit">> /\ pc'[c] = <<k, "wait">> /\ UNCHANGED got
           \/ /\ pc[c] \in {<<k, "emit">>, <<k, "wait">>} /\ pc'[c] = <<k, "delete">>
              /\ got'[k][c] # "open" /\ \A x \in Kind \ {k} : got'[x][c] = got[x][c]
  BY <1>4, <1>5, <1>6
<1>7. QED BY <1>1, <1>2, <1>3, <1>6 DEF Goroutine

\* The ids of permissions and the ends of questions, after a step of a call.
LEMMA NumberedStep ==
  ASSUME TypeOK, Numbered, NEW c \in Call, Goroutine(c)
  PROVE  Numbered'
<1>1. ASSUME NEW d \in Call, pc'[d] \in Unasked \cup Open(Perm) PROVE id'[d] = IdOf[d]
  <2>1. CASE d # c
    BY <1>1, <2>1, CallMoves DEF Numbered
  <2>2. CASE d = c
    <3>1. pc[c] \in Unasked \cup Open(Perm) /\ id' = id
      BY <1>1, <2>2, CallMoves DEF Unasked, Open, Kind, Perm
    <3>2. QED BY <2>2, <3>1 DEF Numbered
  <2>3. QED BY <2>1, <2>2
<1>2. ASSUME NEW d \in Call, NEW k \in Kind, pc'[d] = <<k, "delete">> PROVE got'[k][d] # "open"
  <2>1. CASE d # c
    BY <1>2, <2>1, CallMoves DEF Numbered
  <2>2. CASE d = c
    BY <1>2, <2>2, CallMoves DEF Kind, Perm
  <2>3. QED BY <2>1, <2>2
<1>3. QED BY <1>1, <1>2 DEF Numbered, Open

\* A question that was put stays put, under its id.
LEMMA AskedStays ==
  ASSUME TypeOK, Numbered, Fresh, NEW c \in Call, Goroutine(c), NEW k \in Kind, NEW d \in Call,
         HasAsked(k, d)
  PROVE  HasAsked(k, d)' /\ IdUsed(k, d)' = IdUsed(k, d)
<1>1. CASE d # c
  <2>1. pc'[d] = pc[d] /\ id'[d] = id[d] /\ got'[k][d] = got[k][d]
    BY <1>1, CallMoves
  <2>2. QED BY <2>1 DEF HasAsked, IdUsed
<1>2. CASE d = c
  <2>1. got[k][c] # "open" \/ pc[c] \in Open(k)
    BY <1>2 DEF HasAsked, Open
  <2>2. pc[c] \in Before("human") \ {<<"human", "emit">>} => k # "human" \/ got[k][c] = "open"
    BY DEF Fresh
  <2>3. id'[c] = id[c] \/ k = Perm
    <3>1. id' = id \/ pc[c] = <<"human", "size">>
      BY CallMoves
    <3>2. pc[c] = <<"human", "size">> => pc[c] \notin Open(k) /\ pc[c] \in Before("human") \ {<<"human", "emit">>}
      BY DEF Open, Kind, Before, Perm
    <3>3. QED BY <2>1, <2>2, <3>1, <3>2 DEF Kind, Perm
  <2>4. got'[k][c] # "open" \/ pc'[c] \in Open(k)
    <3>1. CASE got[k][c] # "open"
      <4>1. got'[k][c] = got[k][c] \/ got'[k][c] # "open"
        BY CallMoves
      <4>2. QED BY <3>1, <4>1
    <3>2. CASE pc[c] \in Open(k) /\ got[k][c] = "open"
      <4>1. pc[c] # <<k, "delete">>
        BY <3>2 DEF Numbered
      <4>2. pc'[c] \in Open(k)
        BY <3>2, <4>1, CallMoves DEF Open, Kind, Perm
      <4>3. QED BY <4>2
    <3>3. QED BY <2>1, <3>1, <3>2
  <2>5. QED BY <1>2, <2>3, <2>4 DEF HasAsked, IdUsed, Open, Perm
<1>3. QED BY <1>1, <1>2

\* Whoever shares an id goes on sharing it.
LEMMA SharesOn ==
  ASSUME \A k \in Kind, d \in Call :
           HasAsked(k, d) => HasAsked(k, d)' /\ IdUsed(k, d)' = IdUsed(k, d)
  PROVE  /\ \A k \in Kind, d \in Call : HasAsked(k, d) => Namesakes(k, d) \subseteq Namesakes(k, d)'
         /\ \A k \in Kind, d \in Call : Shared(k, d) => Shared(k, d)'
<1>1. ASSUME NEW k \in Kind, NEW d \in Call, HasAsked(k, d)
      PROVE  Namesakes(k, d) \subseteq Namesakes(k, d)'
  BY <1>1 DEF Namesakes
<1>2. QED BY <1>1 DEF Shared

LEMMA AskedRests ==
  ASSUME UNCHANGED <<pc, id, got>>, NEW k, NEW d
  PROVE  /\ HasAsked(k, d)' = HasAsked(k, d) /\ IdUsed(k, d)' = IdUsed(k, d)
         /\ Namesakes(k, d)' = Namesakes(k, d) /\ Shared(k, d)' = Shared(k, d)
BY DEF HasAsked, IdUsed, Namesakes, Shared

LEMMA SharedStays ==
  ASSUME TypeOK, Numbered, Fresh, [Next]_vars
  PROVE  /\ \A k \in Kind, d \in Call :
              HasAsked(k, d) => HasAsked(k, d)' /\ IdUsed(k, d)' = IdUsed(k, d)
         /\ \A k \in Kind, d \in Call : HasAsked(k, d) => Namesakes(k, d) \subseteq Namesakes(k, d)'
         /\ \A k \in Kind, d \in Call : Shared(k, d) => Shared(k, d)'
<1>1. CASE \E c \in Call : Goroutine(c)
  <2>1. \A k \in Kind, d \in Call :
          HasAsked(k, d) => HasAsked(k, d)' /\ IdUsed(k, d)' = IdUsed(k, d)
    BY <1>1, AskedStays
  <2>2. QED BY <2>1, SharesOn
<1>2. CASE (\E m \in Modes : SetPermissionMode(m)) \/ Respond \/ Page \/ UNCHANGED vars
  <2>1. UNCHANGED <<pc, id, got>>
    BY <1>2 DEF Respond, Page, PermissionDialog, HumanInputDialog, Show, Answer,
           StopGeneration, Lose, Refuse, Lookup, Send, SetPermissionMode, vars, callVars
  <2>2. QED BY <2>1, AskedRests
<1>3. QED BY <1>1, <1>2 DEF Next

\* Two calls with one id in questions of a kind are namesakes.
LEMMA SameId ==
  ASSUME Numbered, NEW k \in Kind, NEW c \in Call, NEW d \in Call,
         pc[c] \in Open(k) \cup {<<k, "register">>}, pc[d] \in Open(k), id[c] = id[d]
  PROVE  IdUsed(k, c) = IdUsed(k, d)
<1>1. CASE k = Perm
  <2>1. id[c] = IdOf[c] /\ id[d] = IdOf[d]
    BY <1>1 DEF Numbered, Unasked
  <2>2. QED BY <1>1, <2>1 DEF IdUsed, Perm
<1>2. CASE k = "human"
  BY <1>2 DEF IdUsed
<1>3. QED BY <1>1, <1>2 DEF Kind, Perm

\* The steps of a call.
LEMMA GoroutineEnlisted ==
  ASSUME TypeOK, Numbered, Fresh, Enlisted, NEW c \in Call, Goroutine(c)
  PROVE  Enlisted'
<1>0. /\ pc \in [Call -> Labels] /\ id \in [Call -> Id]
      /\ reg \in [Kind -> [Id -> Call \cup {Nobody}]]
  BY DEF TypeOK
<1>1. ASSUME NEW d \in Call, NEW x \in Kind, pc[d] \in Open(x), Namesakes(x, d) # {}
      PROVE  Namesakes(x, d)' # {}
  <2>1. HasAsked(x, d)
    BY <1>1 DEF HasAsked, Open
  <2>2. Namesakes(x, d) \subseteq Namesakes(x, d)'
    BY <2>1, SharedStays DEF Next
  <2>3. QED BY <1>1, <2>2
<1>2. CASE reg' = reg /\ \A k \in Kind : ~Register(c, k)
  <2>1. SUFFICES ASSUME NEW d \in Call, NEW x \in Kind, pc'[d] \in Open(x)
                 PROVE  reg'[x][id'[d]] = d \/ Namesakes(x, d)' # {}
    BY DEF Enlisted, Open
  <2>2. pc[d] \in Open(x) /\ id'[d] = id[d]
    <3>1. CASE d # c
      BY <2>1, <3>1, CallMoves
    <3>2. CASE d = c
      <4>1. \A k \in Kind : ~(pc[c] = <<k, "register">> /\ pc'[c] = <<k, "emit">>)
        BY <1>0, <1>2 DEF Goroutine, CheckMode, Switch, Run, Size, Emit, Await, Leave, Goto, At, Kind
      <4>2. pc[c] \in Open(x) /\ id' = id
        BY <2>1, <3>2, <4>1, CallMoves DEF Open, Kind, Perm
      <4>3. QED BY <3>2, <4>2
    <3>3. QED BY <3>1, <3>2
  <2>3. QED BY <1>1, <1>2, <2>2 DEF Enlisted
<1>3. ASSUME NEW k \in Kind, Register(c, k) PROVE Enlisted'
  <2>1. /\ UNCHANGED id /\ \A d \in Call \ {c} : pc'[d] = pc[d]
        /\ pc[c] = <<k, "register">> /\ pc'[c] = <<k, "emit">>
        /\ reg' = [reg EXCEPT ![k][id[c]] = c]
    BY <1>0, <1>3 DEF Register, At, Goto
  <2>2. /\ reg'[k][id[c]] = c
        /\ \A x \in Kind, i \in Id : x # k \/ i # id[c] => reg'[x][i] = reg[x][i]
    BY <1>0, <2>1, EntryFacts
  <2>3. ASSUME NEW d \in Call, NEW x \in Kind, pc'[d] \in Open(x)
        PROVE  reg'[x][id[d]] = d \/ Namesakes(x, d)' # {}
    <3>1. CASE d = c
      BY <2>1, <2>2, <2>3, <3>1 DEF Open, Kind
    <3>2. CASE d # c
      <4>1. /\ pc[d] \in Open(x) /\ id[d] \in Id
            /\ reg[x][id[d]] = d \/ Namesakes(x, d)' # {}
        BY <1>0, <1>1, <2>1, <2>3, <3>2 DEF Enlisted
      <4>2. CASE x # k \/ id[d] # id[c]
        BY <2>2, <4>1, <4>2
      <4>3. CASE x = k /\ id[d] = id[c]
        <5>1. IdUsed(k, c) = IdUsed(k, d)
          BY <2>1, <4>1, <4>3, SameId
        <5>2. IdUsed(k, c)' = IdUsed(k, d)' /\ HasAsked(k, c)'
          BY <2>1, <5>1 DEF IdUsed, HasAsked
        <5>3. c \in Namesakes(k, d)'
          BY <3>2, <5>2 DEF Namesakes
        <5>4. QED BY <4>3, <5>3
      <4>4. QED BY <4>2, <4>3
    <3>3. QED BY <3>1, <3>2
  <2>4. QED BY <2>1, <2>3 DEF Enlisted, Open
<1>4. ASSUME NEW k \in Kind, Leave(c, k) PROVE Enlisted'
  <2>1. /\ UNCHANGED <<id, got>> /\ \A d \in Call \ {c} : pc'[d] = pc[d]
        /\ pc[c] = <<k, "delete">> /\ pc'[c] \in {<<"tool", "run">>, <<"tool", "end">>}
        /\ reg' = [reg EXCEPT ![k][id[c]] = Nobody]
    BY <1>0, <1>4 DEF Leave, Delete, At, Goto
  <2>2. \A x \in Kind, i \in Id : x # k \/ i # id[c] => reg'[x][i] = reg[x][i]
    BY <1>0, <2>1, EntryFacts
  <2>3. \A x \in Kind : pc'[c] \notin Open(x)
    BY <2>1 DEF Open, Kind
  <2>4. ASSUME NEW d \in Call, NEW x \in Kind, pc'[d] \in Open(x)
        PROVE  reg'[x][id[d]] = d \/ Namesakes(x, d)' # {}
    <3>1. /\ d # c /\ pc[d] \in Open(x) /\ id[d] \in Id
          /\ reg[x][id[d]] = d \/ Namesakes(x, d)' # {}
      BY <1>0, <1>1, <2>1, <2>3, <2>4 DEF Enlisted
    <3>2. CASE x # k \/ id[d] # id[c]
      BY <2>2, <3>1, <3>2
    <3>3. CASE x = k /\ id[d] = id[c]
      <4>1. IdUsed(k, c) = IdUsed(k, d)
        BY <2>1, <3>1, <3>3, SameId DEF Open
      <4>2. got[k][c] # "open"
        BY <2>1 DEF Numbered
      <4>3. IdUsed(k, c)' = IdUsed(k, d)' /\ HasAsked(k, c)'
        BY <2>1, <4>1, <4>2 DEF IdUsed, HasAsked
      <4>4. c \in Namesakes(k, d)'
        BY <3>1, <4>3 DEF Namesakes
      <4>5. QED BY <3>3, <4>4
    <3>4. QED BY <3>2, <3>3
  <2>5. QED BY <2>1, <2>4 DEF Enlisted, Open
<1>5. QED
  <2>1. \/ reg' = reg /\ \A k \in Kind : ~Register(c, k)
        \/ \E k \in Kind : Register(c, k) \/ Leave(c, k)
    BY DEF Goroutine, CheckMode, Switch, Run, Size, Emit, Await
  <2>2. QED BY <1>2, <1>3, <1>4, <2>1

\* The respond handlers and the server's map stay in step with the calls that wait.
LEMMA EnlistedStep ==
  ASSUME TypeOK, Numbered, Fresh, Enlisted, [Next]_vars
  PROVE  Numbered' /\ Enlisted'
<1>1. CASE \E c \in Call : Goroutine(c)
  BY <1>1, NumberedStep, GoroutineEnlisted
<1>2. CASE (\E m \in Modes : SetPermissionMode(m)) \/ Respond \/ Page \/ UNCHANGED vars
  <2>1. UNCHANGED <<pc, id, reg, got>>
    BY <1>2 DEF Respond, Page, PermissionDialog, HumanInputDialog, Show, Answer,
           StopGeneration, Lose, Refuse, Lookup, Send, SetPermissionMode, vars, callVars
  <2>2. \A k \in Kind, d \in Call : Namesakes(k, d)' = Namesakes(k, d)
    BY <2>1, AskedRests
  <2>3. QED BY <2>1, <2>2 DEF Numbered, Enlisted, Open
<1>3. QED BY <1>1, <1>2 DEF Next

LEMMA EnlistedInit == Init => Numbered /\ Enlisted
BY DEF Init, Numbered, Enlisted, Open, Unasked, Perm, Kind

\* A question of its call's: it was put, under this id.
Addressed(p) == HasAsked(p.kind, p.call) /\ p.id = IdUsed(p.kind, p.call)

\* A question that was asked and has no answer.
Asked(p) ==
  Addressed(p) /\ pc[p.call] \notin Before(p.kind) /\ said[p.kind][p.call] = "nothing"

\* It is on its way to the page or on the screen, once.
OnPage ==
  /\ \A n \in DOMAIN wire : Asked(wire[n])
  /\ \A k \in Kind : \A p \in screen[k] : p.kind = k /\ Asked(p)
  /\ \A n, l \in DOMAIN wire :
       wire[n].kind = wire[l].kind /\ wire[n].call = wire[l].call => n = l
  /\ \A n \in DOMAIN wire, k \in Kind : \A p \in screen[k] :
       wire[n].kind = k => wire[n].call # p.call

\* An answer under way is the user's, and on its way to the call that asked, or to
\* one that shares its id.
Said(r) == Addressed(r.prompt) /\ said[r.prompt.kind][r.prompt.call] = r.value
UnderWay ==
  /\ \A r \in posts : Said(r)
  /\ \A f \in found : /\ Said(f.answer)
                      /\ f.to = f.answer.prompt.call \/ Shared(f.answer.prompt.kind, f.to)
  /\ \A k \in Kind, c \in Call : \A r \in chan[k][c] : said[k][c] = r.value \/ Shared(k, c)

Honest == Fresh /\ OnPage /\ UnderWay

\* What was put stays so.
LEMMA AddressedStays ==
  ASSUME \A k \in Kind, d \in Call :
           HasAsked(k, d) => HasAsked(k, d)' /\ IdUsed(k, d)' = IdUsed(k, d),
         NEW p \in Prompts, Addressed(p)
  PROVE  Addressed(p)'
<1>1. p.kind \in Kind /\ p.call \in Call
  BY DEF Prompts
<1>2. QED BY <1>1 DEF Addressed

\* The page is as it was when the texts on it are.
LEMMA OnPageKept ==
  ASSUME TypeOK, OnPage, UNCHANGED <<wire, screen>>, \A p \in Prompts : Asked(p) => Asked(p)'
  PROVE  OnPage'
<1>1. /\ \A n \in DOMAIN wire : wire[n] \in Prompts
      /\ \A k \in Kind : \A p \in screen[k] : p \in Prompts
  BY LenProperties DEF TypeOK
<1>2. (\A n \in DOMAIN wire : Asked(wire[n]))'
  <2>1. ASSUME NEW n \in DOMAIN wire, NEW q, q = wire[n] PROVE Asked(q)'
    BY <1>1, <2>1 DEF OnPage
  <2>2. QED BY <2>1 DEF Asked, Addressed, HasAsked, IdUsed
<1>3. (\A k \in Kind : \A p \in screen[k] : p.kind = k /\ Asked(p))'
  BY <1>1 DEF OnPage
<1>4. QED BY <1>2, <1>3 DEF OnPage

\* What was asked stays asked.
LEMMA AskedKept ==
  ASSUME TypeOK, UNCHANGED said,
         \A d \in Call, k \in Kind : pc'[d] \in Before(k) => pc[d] \in Before(k),
         \A k \in Kind, d \in Call :
           HasAsked(k, d) => HasAsked(k, d)' /\ IdUsed(k, d)' = IdUsed(k, d)
  PROVE  \A p \in Prompts : Asked(p) => Asked(p)'
<1>1. ASSUME NEW p \in Prompts, Asked(p) PROVE Asked(p)'
  <2>1. p.kind \in Kind /\ p.call \in Call
    BY DEF Prompts
  <2>2. Addressed(p)'
    BY <1>1, AddressedStays DEF Asked
  <2>3. QED BY <1>1, <2>1, <2>2 DEF Asked
<1>2. QED BY <1>1

\* A call puts its question on the wire: it is the only one of its kind and call.
LEMMA EmitOnPage ==
  ASSUME TypeOK, Numbered, Fresh, OnPage, NEW c \in Call, NEW k \in Kind, Emit(c, k),
         NEW p \in Prompts, p = [kind |-> k, id |-> id[c], call |-> c], wire' = Append(wire, p)
  PROVE  OnPage'
<1>0. /\ pc \in [Call -> Labels] /\ wire \in Seq(Prompts) /\ screen \in [Kind -> SUBSET Prompts]
  BY DEF TypeOK
<1>1. /\ pc[c] = <<k, "emit">> /\ pc'[c] \in {<<k, "wait">>, <<k, "delete">>}
      /\ UNCHANGED <<screen, said, id>>
  BY <1>0 DEF Emit, At, Goto
<1>2. /\ pc[c] \in Before(k) /\ pc'[c] \notin Before(k) /\ said[k][c] = "nothing"
  BY <1>1 DEF Fresh, Before, Unasked, Kind, Perm
<1>3. /\ \A n \in DOMAIN wire : wire[n] \in Prompts
      /\ \A x \in Kind : \A q \in screen[x] : q \in Prompts
  BY <1>0, LenProperties
<1>4. \A d \in Call, x \in Kind : pc'[d] \in Before(x) => pc[d] \in Before(x)
  BY Onward DEF Goroutine
<1>5. \A q \in Prompts : Asked(q) => Asked(q)'
  <2>1. \A x \in Kind, d \in Call :
          HasAsked(x, d) => HasAsked(x, d)' /\ IdUsed(x, d)' = IdUsed(x, d)
    BY AskedStays DEF Goroutine
  <2>2. QED BY <1>1, <1>4, <2>1, AskedKept
<1>6. /\ \A n \in DOMAIN wire : ~(wire[n].kind = k /\ wire[n].call = c)
      /\ \A q \in screen[k] : q.call # c
  BY <1>2 DEF OnPage, Asked
<1>7. /\ p.kind = k /\ p.call = c /\ p.id = id[c]
      /\ pc'[p.call] \notin Before(p.kind) /\ said'[p.kind][p.call] = "nothing"
  BY <1>1, <1>2
<1>8. Asked(p)'
  <2>1. HasAsked(k, c)'
    BY <1>1 DEF HasAsked
  <2>2. id[c] = IdUsed(k, c)'
    <3>1. k = Perm => id[c] = IdOf[c]
      BY <1>1 DEF Numbered, Unasked
    <3>2. QED BY <1>1, <3>1 DEF IdUsed, Perm
  <2>3. Addressed(p)'
    BY <1>7, <2>1, <2>2 DEF Addressed
  <2>4. QED BY <1>7, <2>3 DEF Asked
<1>9. \A n \in DOMAIN wire' :
        \/ n \in DOMAIN wire /\ wire'[n] = wire[n]
        \/ n = Len(wire) + 1 /\ n \notin DOMAIN wire /\ wire'[n] = p
  BY <1>0, AppendDomain
<1>10. (\A n \in DOMAIN wire : Asked(wire[n]))'
  <2>1. ASSUME NEW n \in DOMAIN wire', NEW q, q = wire'[n] PROVE Asked(q)'
    BY <1>3, <1>5, <1>8, <1>9, <2>1 DEF OnPage
  <2>2. QED BY <2>1 DEF Asked, Addressed, HasAsked, IdUsed
<1>11. (\A x \in Kind : \A q \in screen[x] : q.kind = x /\ Asked(q))'
  BY <1>1, <1>3, <1>5 DEF OnPage
<1>12. \A n, l \in DOMAIN wire' :
         wire'[n].kind = wire'[l].kind /\ wire'[n].call = wire'[l].call => n = l
  BY <1>6, <1>7, <1>9 DEF OnPage
<1>13. \A n \in DOMAIN wire', x \in Kind : \A q \in screen'[x] :
         wire'[n].kind = x => wire'[n].call # q.call
  BY <1>1, <1>6, <1>7, <1>9 DEF OnPage
<1>14. QED BY <1>10, <1>11, <1>12, <1>13 DEF OnPage

\* The steps of a call leave what is on its way honest.
LEMMA GoroutineHonest ==
  ASSUME TypeOK, Numbered, Honest, NEW c \in Call, Goroutine(c)
  PROVE  Honest'
<1> USE DEF Honest
<1>0. /\ chan \in [Kind -> [Call -> SUBSET Answers]] /\ id[c] \in Id
      /\ posts \subseteq Answers /\ found \subseteq [answer : Answers, to : Call]
  BY DEF TypeOK
<1>s. /\ \A k \in Kind, d \in Call :
           HasAsked(k, d) => HasAsked(k, d)' /\ IdUsed(k, d)' = IdUsed(k, d)
      /\ \A k \in Kind, d \in Call : Shared(k, d) => Shared(k, d)'
  BY SharedStays DEF Next
<1>1. UNCHANGED <<screen, said, posts, found>>
  BY DEF Goroutine, CheckMode, Switch, Run, Size, Register, Emit, Await, Leave, pageVars, answerVars
<1>2. Fresh'
  BY FreshStep
<1>3. OnPage'
  <2>1. CASE wire' = wire
    <3>1. \A d \in Call, k \in Kind : pc'[d] \in Before(k) => pc[d] \in Before(k)
      BY Onward
    <3>2. \A p \in Prompts : Asked(p) => Asked(p)'
      BY <1>1, <1>s, <3>1, AskedKept
    <3>3. QED BY <1>1, <2>1, <3>2, OnPageKept
  <2>2. CASE wire' # wire
    <3>1. PICK k \in Kind : Emit(c, k) /\ wire' = Append(wire, [kind |-> k, id |-> id[c], call |-> c])
      BY <2>2 DEF Goroutine, CheckMode, Switch, Run, Size, Register, Emit, Await, Leave, pageVars
    <3>2. PICK p : p = [kind |-> k, id |-> id[c], call |-> c]
      OBVIOUS
    <3>3. p \in Prompts
      BY <1>0, <3>2 DEF Prompts
    <3>4. QED BY <3>1, <3>2, <3>3, EmitOnPage
  <2>3. QED BY <2>1, <2>2
<1>4. UnderWay'
  <2>1. \A k \in Kind, d \in Call : chan'[k][d] \subseteq chan[k][d]
    <3>1. \/ chan' = chan
          \/ \E k \in Kind : chan' \in {[chan EXCEPT ![k][c] = {}], [chan EXCEPT ![k][c] = @]}
      BY DEF Goroutine, CheckMode, Switch, Run, Size, Register, Emit, Await, Leave
    <3>2. QED BY <1>0, <3>1
  <2>2. ASSUME NEW r \in Answers, Said(r) PROVE Said(r)'
    <3>1. r.prompt \in Prompts
      BY DEF Answers
    <3>2. Addressed(r.prompt)'
      BY <1>s, <2>2, <3>1, AddressedStays DEF Said
    <3>3. QED BY <1>1, <2>2, <3>2 DEF Said
  <2>3. \A f \in found : f.answer.prompt.kind \in Kind /\ f.to \in Call /\ f.answer \in Answers
    BY <1>0 DEF Answers, Prompts
  <2>4. QED BY <1>0, <1>1, <1>s, <2>1, <2>2, <2>3 DEF UnderWay
<1>5. QED BY <1>2, <1>3, <1>4

\* The page shows a question, asked or not, where it was not before.
LEMMA ShowHonest ==
  ASSUME TypeOK, OnPage, Show
  PROVE  OnPage'
<1>0. wire \in Seq(Prompts) /\ screen \in [Kind -> SUBSET Prompts]
  BY DEF TypeOK
<1>1. /\ wire # <<>> /\ wire' = Tail(wire) /\ UNCHANGED <<pc, id, got, said>>
      /\ screen' = [screen EXCEPT ![Head(wire).kind] = {Head(wire)}]
  BY DEF Show, callVars
<1>2. /\ 1 \in DOMAIN wire /\ Head(wire) = wire[1]
      /\ \A n \in DOMAIN wire' : n \in Nat /\ n + 1 \in DOMAIN wire /\ n + 1 # 1
                                   /\ wire'[n] = wire[n + 1]
  BY <1>0, <1>1, TailDomain
<1>3. PICK q \in Prompts : q = wire[1]
  BY <1>0, <1>2, LenProperties
<1>4. q.kind \in Kind /\ screen' = [screen EXCEPT ![q.kind] = {q}] /\ Asked(q)
  BY <1>1, <1>2, <1>3 DEF Prompts, OnPage
<1>5. \A x \in Kind : \A r \in screen'[x] : r \in screen[x] \/ (r = q /\ x = q.kind)
  BY <1>0, <1>4
<1>6. ASSUME NEW r, Asked(r) PROVE Asked(r)'
  BY <1>1, <1>6 DEF Asked, Addressed, HasAsked, IdUsed
<1>7. (\A n \in DOMAIN wire : Asked(wire[n]))'
  <2>1. ASSUME NEW n \in DOMAIN wire', NEW r, r = wire'[n] PROVE Asked(r)'
    BY <1>2, <1>6, <2>1 DEF OnPage
  <2>2. QED BY <2>1 DEF Asked, Addressed, HasAsked, IdUsed
<1>8. (\A x \in Kind : \A r \in screen[x] : r.kind = x /\ Asked(r))'
  BY <1>4, <1>5, <1>6 DEF OnPage
<1>9. \A n, l \in DOMAIN wire' :
        wire'[n].kind = wire'[l].kind /\ wire'[n].call = wire'[l].call => n = l
  BY <1>2 DEF OnPage
<1>10. \A n \in DOMAIN wire', x \in Kind : \A r \in screen'[x] :
         wire'[n].kind = x => wire'[n].call # r.call
  BY <1>2, <1>3, <1>5 DEF OnPage
<1>11. QED BY <1>7, <1>8, <1>9, <1>10 DEF OnPage

\* The user answers a question that is asked; the answer is posted as it was given.
LEMMA AnswerHonest ==
  ASSUME TypeOK, Honest, NEW k \in Kind, NEW v \in {"yes", "no"}, Answer(k, v)
  PROVE  /\ Honest'
         /\ \E q \in screen[k] : /\ said[k][q.call] = "nothing"
                                 /\ said' = [said EXCEPT ![k][q.call] = v]
<1> USE DEF Honest
<1>0. /\ wire \in Seq(Prompts) /\ screen \in [Kind -> SUBSET Prompts]
      /\ said \in [Kind -> [Call -> {"nothing", "yes", "no"}]]
      /\ posts \subseteq Answers /\ found \subseteq [answer : Answers, to : Call]
      /\ chan \in [Kind -> [Call -> SUBSET Answers]]
  BY DEF TypeOK
<1>a. \A n \in DOMAIN wire : wire[n] \in Prompts
  BY <1>0, LenProperties
<1>1. PICK q \in screen[k] : /\ posts' = posts \cup {[prompt |-> q, value |-> v]}
                             /\ said' = [said EXCEPT ![k][q.call] = v]
  BY DEF Answer
<1>2. /\ screen' = [screen EXCEPT ![k] = {}]
      /\ UNCHANGED <<pc, id, got, chan, wire, found>>
  BY DEF Answer, callVars
<1>r. \A p : Addressed(p)' = Addressed(p)
  BY <1>2 DEF Addressed, HasAsked, IdUsed
<1>s. \A x, d : Shared(x, d)' = Shared(x, d)
  BY <1>2, AskedRests
<1>3. /\ q \in Prompts /\ q.call \in Call /\ q.kind = k /\ Addressed(q) /\ Asked(q)
      /\ said[k][q.call] = "nothing" /\ pc[q.call] \notin Before(k)
  BY <1>0, <1>1 DEF Prompts, OnPage, Asked
<1>4. /\ said'[k][q.call] = v
      /\ \A x \in Kind, d \in Call : x # k \/ d # q.call => said'[x][d] = said[x][d]
  BY <1>0, <1>1, <1>3, EntryFacts
<1>5. Fresh'
  BY <1>2, <1>3, <1>4 DEF Fresh
<1>6. ASSUME NEW r \in Prompts, Asked(r), r.kind # k \/ r.call # q.call PROVE Asked(r)'
  BY <1>2, <1>4, <1>6, <1>r DEF Asked, Prompts
<1>7. \A x \in Kind : \A r \in screen'[x] : x # k /\ r \in screen[x]
  BY <1>0, <1>2
<1>8. OnPage'
  <2>1. (\A n \in DOMAIN wire : Asked(wire[n]))'
    <3>1. ASSUME NEW n \in DOMAIN wire', NEW r, r = wire'[n] PROVE Asked(r)'
      BY <1>a, <1>1, <1>2, <1>6, <3>1 DEF OnPage
    <3>2. QED BY <3>1 DEF Asked, Addressed, HasAsked, IdUsed
  <2>2. (\A x \in Kind : \A r \in screen[x] : r.kind = x /\ Asked(r))'
    BY <1>0, <1>6, <1>7 DEF OnPage
  <2>3. QED BY <1>2, <1>7, <2>1, <2>2 DEF OnPage
<1>9. ASSUME NEW r \in Answers, Said(r) PROVE Said(r)'
  <2>1. r.prompt.kind \in Kind /\ r.prompt.call \in Call /\ r.value # "nothing"
    BY DEF Answers, Prompts
  <2>2. r.prompt.kind # k \/ r.prompt.call # q.call
    BY <1>3, <1>9, <2>1 DEF Said
  <2>3. QED BY <1>4, <1>9, <1>r, <2>1, <2>2 DEF Said
<1>10. \A r \in posts' : Said(r)'
  <2>1. PICK a : a = [prompt |-> q, value |-> v]
    OBVIOUS
  <2>2. Said(a)'
    BY <1>3, <1>4, <1>r, <2>1 DEF Said
  <2>3. QED BY <1>0, <1>1, <1>9, <2>1, <2>2 DEF UnderWay
<1>11. \A f \in found' : /\ Said(f.answer)'
                          /\ \/ f.to = f.answer.prompt.call
                             \/ Shared(f.answer.prompt.kind, f.to)
  BY <1>0, <1>2, <1>9 DEF UnderWay
<1>12. \A x \in Kind, d \in Call : \A r \in chan'[x][d] : said'[x][d] = r.value \/ Shared(x, d)
  <2> SUFFICES ASSUME NEW x \in Kind, NEW d \in Call, NEW r \in chan[x][d], ~Shared(x, d)
               PROVE  said'[x][d] = r.value
    BY <1>2
  <2>1. said[x][d] = r.value /\ r.value # "nothing"
    <3>1. r \in Answers
      BY <1>0
    <3>2. r.value # "nothing"
      BY <3>1 DEF Answers
    <3>3. QED BY <1>0, <3>2 DEF UnderWay
  <2>2. x # k \/ d # q.call
    BY <1>3, <2>1
  <2>3. QED BY <1>4, <2>1, <2>2
<1>13. UnderWay'
  BY <1>10, <1>11, <1>12, <1>s DEF UnderWay
<1>14. QED BY <1>1, <1>3, <1>5, <1>8, <1>13

\* Answers under way stay the user's when nothing but their number changes.
LEMMA RestsUnderWay ==
  ASSUME UnderWay, UNCHANGED <<pc, id, got, said, chan, found>>, posts' \subseteq posts
  PROVE  UnderWay'
<1>1. \A r : Said(r)' = Said(r)
  BY DEF Said, Addressed, HasAsked, IdUsed
<1>2. \A k, c : Shared(k, c)' = Shared(k, c)
  BY AskedRests
<1>3. QED BY <1>1, <1>2 DEF UnderWay

\* The page.
LEMMA PageHonest ==
  ASSUME TypeOK, Honest, Page
  PROVE  Honest'
<1> USE DEF Honest
<1>1. CASE Show
  <2>1. UNCHANGED <<pc, id, got, chan, said, posts, found>>
    BY <1>1 DEF Show, callVars, answerVars
  <2>2. Fresh' /\ UnderWay'
    BY <2>1, RestsUnderWay DEF Fresh
  <2>3. QED BY <1>1, <2>2, ShowHonest
<1>2. CASE StopGeneration
  <2>1. /\ wire' = <<>> /\ screen' = [k \in Kind |-> {}]
        /\ UNCHANGED <<pc, id, got, chan, said, posts, found>>
    BY <1>2 DEF StopGeneration, callVars, answerVars
  <2>2. Fresh' /\ UnderWay'
    BY <2>1, RestsUnderWay DEF Fresh
  <2>3. DOMAIN wire' = {} /\ \A k \in Kind : screen'[k] = {}
    BY <2>1
  <2>4. OnPage'
    BY <2>3 DEF OnPage
  <2>5. QED BY <2>2, <2>4
<1>3. ASSUME NEW p \in posts, Lose(p) PROVE Honest'
  <2>1. posts' \subseteq posts /\ UNCHANGED <<pc, id, got, chan, wire, screen, said, found>>
    BY <1>3 DEF Lose, callVars, pageVars
  <2>2. Fresh' /\ UnderWay'
    BY <2>1, RestsUnderWay DEF Fresh
  <2>3. OnPage'
    BY <2>1, OnPageKept DEF Asked, Addressed, HasAsked, IdUsed
  <2>4. QED BY <2>2, <2>3
<1>4. QED
  BY <1>1, <1>2, <1>3, AnswerHonest DEF Page, PermissionDialog, HumanInputDialog, Kind

\* The respond handlers: an id leads to the call that asked under it, or to one that
\* shares it.
LEMMA RespondHonest ==
  ASSUME TypeOK, NothingLeft, Numbered, Honest, Respond
  PROVE  Honest'
<1> USE DEF Honest
<1>0. /\ posts \subseteq Answers /\ found \subseteq [answer : Answers, to : Call]
      /\ chan \in [Kind -> [Call -> SUBSET Answers]]
      /\ reg \in [Kind -> [Id -> Call \cup {Nobody}]]
  BY DEF TypeOK
<1>1. UNCHANGED <<pc, id, got, wire, screen, said>>
  BY DEF Respond, Refuse, Lookup, Send, callVars, pageVars
<1>2. Fresh' /\ OnPage'
  BY <1>1, OnPageKept DEF Fresh, Asked, Addressed, HasAsked, IdUsed
<1>3. ASSUME NEW r, Said(r) PROVE Said(r)'
  BY <1>1, <1>3 DEF Said, Addressed, HasAsked, IdUsed
<1>s. \A k, c : Shared(k, c)' = Shared(k, c)
  BY <1>1, AskedRests
<1>4. ASSUME NEW p \in posts, Refuse(p) PROVE UnderWay'
  <2>1. posts' \subseteq posts /\ UNCHANGED <<chan, found>>
    BY <1>4 DEF Refuse
  <2>2. QED BY <1>1, <2>1, RestsUnderWay
<1>5. ASSUME NEW p \in posts, Lookup(p) PROVE UnderWay'
  <2>1. PICK f : f = [answer |-> p, to |-> Waiting(p)]
    OBVIOUS
  <2>2. /\ found' = found \cup {f} /\ posts' \subseteq posts /\ chan' = chan
        /\ Waiting(p) # Nobody
    BY <1>5, <2>1 DEF Lookup
  <2>3. /\ p.prompt.kind \in Kind /\ p.prompt.id \in Id /\ p.prompt.call \in Call
        /\ Said(p) /\ Addressed(p.prompt)
    BY <1>0 DEF Answers, Prompts, UnderWay, Said
  <2>4. PICK d \in Call : d = Waiting(p)
    BY <1>0, <2>2, <2>3 DEF Waiting
  <2>5. id[d] = p.prompt.id /\ pc[d] \in Open(p.prompt.kind)
    BY <2>2, <2>3, <2>4 DEF NothingLeft, Waiting, Open
  <2>6. d = p.prompt.call \/ Shared(p.prompt.kind, d)
    <3>1. HasAsked(p.prompt.kind, d)
      BY <2>5 DEF HasAsked, Open
    <3>2. IdUsed(p.prompt.kind, d) = p.prompt.id
      <4>1. p.prompt.kind = Perm => IdOf[d] = id[d]
        BY <2>5 DEF Numbered
      <4>2. QED BY <2>3, <2>5, <4>1 DEF IdUsed, Perm
    <3>3. d # p.prompt.call => p.prompt.call \in Namesakes(p.prompt.kind, d)
      BY <2>3, <3>2 DEF Namesakes, Addressed
    <3>4. QED BY <3>1, <3>3 DEF Shared
  <2>7. \A x \in found' : /\ Said(x.answer)'
                          /\ \/ x.to = x.answer.prompt.call
                             \/ Shared(x.answer.prompt.kind, x.to)
    BY <1>3, <2>1, <2>2, <2>3, <2>4, <2>6 DEF UnderWay
  <2>8. QED BY <1>1, <1>3, <1>s, <2>2, <2>7 DEF UnderWay
<1>6. ASSUME NEW f \in found, Send(f) PROVE UnderWay'
  <2> DEFINE k == f.answer.prompt.kind
             w == IF chan[k][f.to] = {} THEN {f.answer} ELSE chan[k][f.to]
  <2>1. /\ f.answer \in Answers /\ f.to \in Call /\ k \in Kind
        /\ said[k][f.to] = f.answer.value \/ Shared(k, f.to)
    BY <1>0 DEF Answers, Prompts, UnderWay, Said
  <2>2. w \in SUBSET Answers /\ chan' = [chan EXCEPT ![k][f.to] = w]
    BY <1>0, <1>6, <2>1 DEF Send
  <2>3. w \subseteq chan[k][f.to] \cup {f.answer}
    OBVIOUS
  <2> HIDE DEF w
  <2>4. /\ chan'[k][f.to] = w
        /\ \A x \in Kind, d \in Call : x # k \/ d # f.to => chan'[x][d] = chan[x][d]
    BY <1>0, <2>1, <2>2, EntryFacts
  <2>5. \A x \in Kind, d \in Call : \A r \in chan'[x][d] : said'[x][d] = r.value \/ Shared(x, d)
    BY <1>1, <2>1, <2>3, <2>4 DEF UnderWay
  <2>6. found' \subseteq found /\ posts' = posts
    BY <1>6 DEF Send
  <2>7. QED BY <1>3, <1>s, <2>5, <2>6 DEF UnderWay
<1>7. QED BY <1>2, <1>4, <1>5, <1>6 DEF Respond

\* Nothing was asked yet; and every step is honest.
LEMMA HonestInit == Init => Honest
<1> SUFFICES ASSUME Init PROVE Honest
  OBVIOUS
<1>1. Fresh
  BY DEF Init, Fresh
<1>2. OnPage /\ UnderWay
  BY DEF Init, OnPage, UnderWay
<1>3. QED BY <1>1, <1>2 DEF Honest

LEMMA HonestStep ==
  ASSUME TypeOK, NothingLeft, Numbered, Honest, [Next]_vars
  PROVE  Honest'
<1>1. CASE (\E m \in Modes : SetPermissionMode(m)) \/ UNCHANGED vars
  <2>1. UNCHANGED <<pc, id, got, chan, wire, screen, said, posts, found>>
    BY <1>1 DEF SetPermissionMode, vars, callVars, pageVars, answerVars
  <2>2. \A p : Asked(p)' = Asked(p)
    BY <2>1 DEF Asked, Addressed, HasAsked, IdUsed
  <2>3. Fresh' /\ OnPage' /\ UnderWay'
    BY <2>1, <2>2, OnPageKept, RestsUnderWay DEF Honest, Fresh
  <2>4. QED BY <2>3 DEF Honest
<1>2. QED
  BY <1>1, GoroutineHonest, RespondHonest, PageHonest DEF Next

\* A question is a kind and a call.
LEMMA QuestionPairs ==
  \A a \in Kind \X Call : a[1] \in Kind /\ a[2] \in Call /\ a = <<a[1], a[2]>>
OBVIOUS

\* A step of the exchange is one of the promise, or nothing to it: the end of a
\* question that is open, in silence or with its answer, or the first answer to one.
LEMMA PromiseStep ==
  ASSUME TypeOK, TypeOK', Numbered, Honest, [Next]_vars
  PROVE  Promise!Next
<1>0. /\ said \in [Kind -> [Call -> {"nothing", "yes", "no"}]]
      /\ got \in [Kind -> [Call -> {"open", "yes", "no", "timeout", "cancelled"}]]
      /\ pc \in [Call -> Labels] /\ screen \in [Kind -> SUBSET Prompts]
      /\ chan \in [Kind -> [Call -> SUBSET Answers]]
  BY DEF TypeOK
<1>s. {a \in Kind \X Call : Shared(a[1], a[2])} \subseteq {a \in Kind \X Call : Shared(a[1], a[2])}'
  <2>1. \A k \in Kind, d \in Call : Shared(k, d) => Shared(k, d)'
    BY SharedStays DEF Honest
  <2>2. QED BY <2>1, QuestionPairs
<1>1. ASSUME NEW c \in Call, NEW k \in Kind, NEW o, got[k][c] = "open", said' = said,
             o \in {"timeout", "cancelled"} \cup
                   (IF Shared(k, c) THEN {"yes", "no"} ELSE {said[k][c]} \ {"nothing"}),
             got' = [got EXCEPT ![k][c] = o]
      PROVE  Promise!Next
  <2>1. o \in {"open", "yes", "no", "timeout", "cancelled"} /\ <<k, c>> \in Kind \X Call
    BY <1>0, <1>1
  <2>2. [a \in Kind \X Call |-> got'[a[1]][a[2]]]
          = [[a \in Kind \X Call |-> got[a[1]][a[2]]] EXCEPT ![<<k, c>>] = o]
    <3>1. /\ got'[k][c] = o
          /\ \A x \in Kind, d \in Call : x # k \/ d # c => got'[x][d] = got[x][d]
      BY <1>0, <1>1, <2>1, EntryFacts
    <3>2. ASSUME NEW a \in Kind \X Call
          PROVE  got'[a[1]][a[2]] = IF a = <<k, c>> THEN o ELSE got[a[1]][a[2]]
      <4>1. CASE a = <<k, c>>
        BY <3>1, <4>1
      <4>2. CASE a # <<k, c>>
        BY <3>1, <4>2, QuestionPairs
      <4>3. QED BY <4>1, <4>2
    <3>3. QED BY <3>2
  <2>3. <<k, c>> \in {a \in Kind \X Call : Shared(a[1], a[2])} <=> Shared(k, c)
    BY <2>1
  <2>4. Promise!End(<<k, c>>)
    BY <1>1, <2>1, <2>2, <2>3 DEF Promise!End
  <2>5. QED BY <1>s, <2>1, <2>4 DEF Promise!Next
<1>2. ASSUME NEW c \in Call, NEW k \in Kind, NEW v \in {"yes", "no"}, said[k][c] = "nothing",
             said' = [said EXCEPT ![k][c] = v], got' = got
      PROVE  Promise!Next
  <2>1. [a \in Kind \X Call |-> said'[a[1]][a[2]]]
          = [[a \in Kind \X Call |-> said[a[1]][a[2]]] EXCEPT ![<<k, c>>] = v]
    <3>1. /\ said'[k][c] = v
          /\ \A x \in Kind, d \in Call : x # k \/ d # c => said'[x][d] = said[x][d]
      BY <1>0, <1>2, EntryFacts
    <3>2. ASSUME NEW a \in Kind \X Call
          PROVE  said'[a[1]][a[2]] = IF a = <<k, c>> THEN v ELSE said[a[1]][a[2]]
      <4>1. CASE a = <<k, c>>
        BY <3>1, <4>1
      <4>2. CASE a # <<k, c>>
        BY <3>1, <4>2, QuestionPairs
      <4>3. QED BY <4>1, <4>2
    <3>3. QED BY <3>2
  <2>2. <<k, c>> \in Kind \X Call /\ Promise!Say(<<k, c>>, v)
    BY <1>2, <2>1 DEF Promise!Say
  <2>3. QED BY <1>s, <2>2 DEF Promise!Next
<1>3. ASSUME UNCHANGED <<said, got>> PROVE Promise!Next
  BY <1>3, <1>s DEF Promise!Next
<1>4. ASSUME NEW c \in Call, Goroutine(c) PROVE Promise!Next
  <2>1. said' = said
    BY <1>4 DEF Goroutine, CheckMode, Switch, Run, Size, Register, Emit, Await, Leave, pageVars
  <2>2. ASSUME NEW k \in Kind, Emit(c, k) PROVE got' = got \/ Promise!Next
    <3>1. got' = got \/ (got' = [got EXCEPT ![k][c] = "cancelled"] /\ pc[c] = <<k, "emit">>)
      BY <2>2 DEF Emit, At
    <3>2. <<k, "emit">> \in Before(k)
      BY DEF Before, Unasked, Kind, Perm
    <3>3. pc[c] = <<k, "emit">> => got[k][c] = "open"
      BY <3>2 DEF Honest, Fresh
    <3>4. QED BY <1>1, <2>1, <3>1, <3>3
  <2>3. ASSUME NEW k \in Kind, Await(c, k) PROVE Promise!Next
    <3>1. PICK o \in Outcomes(c, k) : got' = [got EXCEPT ![k][c] = o]
      BY <2>3 DEF Await
    <3>2. got[k][c] = "open"
      BY <2>3 DEF Await, At, Honest, Fresh
    <3>3. \A r \in chan[k][c] : /\ (r.value = said[k][c] \/ Shared(k, c))
                                 /\ r.value \in {"yes", "no"}
      BY <1>0 DEF Honest, UnderWay, Answers
    <3>4. o \in {"timeout", "cancelled"} \cup
                (IF Shared(k, c) THEN {"yes", "no"} ELSE {said[k][c]} \ {"nothing"})
      BY <3>1, <3>3 DEF Outcomes
    <3>5. QED BY <1>1, <2>1, <3>1, <3>2, <3>4
  <2>4. ASSUME NEW k \in Kind, Register(c, k) \/ Leave(c, k) PROVE got' = got
    BY <2>4 DEF Register, Leave
  <2>5. CASE CheckMode(c) \/ Switch(c) \/ Run(c) \/ Size(c)
    BY <1>3, <2>1, <2>5 DEF CheckMode, Switch, Run, Size
  <2>6. QED BY <1>3, <1>4, <2>1, <2>2, <2>3, <2>4, <2>5 DEF Goroutine
<1>5. ASSUME NEW k \in Kind, NEW v \in {"yes", "no"}, Answer(k, v) PROVE Promise!Next
  <2>1. PICK q \in screen[k] : /\ said[k][q.call] = "nothing"
                               /\ said' = [said EXCEPT ![k][q.call] = v]
    BY <1>5, AnswerHonest
  <2>2. q.call \in Call /\ got' = got
    BY <1>0, <1>5 DEF Prompts, Answer, callVars
  <2>3. QED BY <1>2, <2>1, <2>2
<1>6. CASE Show \/ StopGeneration \/ (\E p \in posts : Lose(p)) \/ Respond
           \/ (\E m \in Modes : SetPermissionMode(m)) \/ UNCHANGED vars
  <2>1. UNCHANGED <<said, got>>
    BY <1>6 DEF Show, StopGeneration, Lose, Respond, Refuse, Lookup, Send,
           SetPermissionMode, vars, callVars, pageVars
  <2>2. QED BY <1>3, <2>1
<1>7. QED
  BY <1>4, <1>5, <1>6 DEF Next, Page, PermissionDialog, HumanInputDialog, Kind

LEMMA PromiseInit == Init => Promise!Init
<1> SUFFICES ASSUME Init PROVE Promise!Init
  OBVIOUS
<1>1. \A a \in Kind \X Call : a[1] \in Kind /\ a[2] \in Call
  OBVIOUS
<1>2. ASSUME NEW k \in Kind, NEW c \in Call PROVE ~Shared(k, c)
  BY DEF Init, Shared, HasAsked
<1>3. {a \in Kind \X Call : Shared(a[1], a[2])} = {}
  BY <1>1, <1>2
<1>4. QED BY <1>1, <1>3 DEF Init, Promise!Init

LEMMA AllHonest == Spec => [](Numbered /\ Enlisted /\ Honest)
<1> DEFINE Inv == Numbered /\ Enlisted /\ Honest
<1>1. Init => Inv
  BY EnlistedInit, HonestInit
<1>2. (TypeOK /\ NothingLeft) /\ Inv /\ [Next]_vars => Inv'
  BY EnlistedStep, HonestStep DEF Honest
<1> HIDE DEF Inv
<1>3. Spec => []Inv
  BY <1>1, <1>2, TypedAndClean, PTL DEF Spec
<1>4. QED BY <1>3 DEF Inv

\* An answer to a call that waits finds it (the respond handlers refuse only answers to
\* questions that are over), for any number of calls that ask, but for a call whose id
\* another one took too; run prompts_collide shows two that did.
THEOREM WaitersAreKnown == Spec => []WaitingIsKnown
<1>1. Enlisted => WaitingIsKnown
  BY DEF Enlisted, WaitingIsKnown, At, Open
<1>2. QED BY <1>1, AllHonest, PTL

\* The exchange keeps the promise, for any number of calls that ask: a question ends
\* once, in silence or with the answer the user gave to that very question, however
\* answers are lost, late, or find their question over; with another's answer only if
\* the two share an id.
THEOREM PromiseKept == Spec => KeepsPromise
<1>1. TypeOK /\ TypeOK' /\ (Numbered /\ Enlisted /\ Honest) /\ [Next]_vars
        => [Promise!Next]_(Promise!promiseVars)
  BY PromiseStep
<1>2. QED
  BY <1>1, AllHonest, PromiseInit, PromptTypes, PTL DEF Spec, KeepsPromise, Promise!Promise
===============================================================================
