---------------------------- MODULE StreamProofs ----------------------------
(***************************************************************************)
(* The stream of a turn (use-chat-state.ts), proved for any calls, rounds  *)
(* and turns: the badge and the canvas; that the list React renders is the *)
(* story the events tell, whatever was batched; that a card spins for a    *)
(* call without a result and its transcript works with its agent.          *)
(*                                                                         *)
(* The first part shows StreamInv, the message that is being written.  The *)
(* second follows a message through the queue of updaters: MessagesInv     *)
(* says that each message is in the rendered list or carried by an updater *)
(* that no older value overtakes, and that list and queue are in the order *)
(* of the story.  Every step is a render or has one of four forms (Begins, *)
(* Rewrites, Tells, Rests).  The third follows the cards, call by call.    *)
(***************************************************************************)
EXTENDS StreamView, SequenceTheorems, WellFoundedInduction, TLAPS

StreamCards == [status : {"none", "running", "completed", "error"},
                transcript : {"none", "active", "done"}]
StreamMessages == [id : Nat \ {0}, role : {"user", "assistant"},
                   text : {"", "thought", "said", "note"}, cards : [Calls -> StreamCards]]
StreamNodes == [main : {"idle", "running", "analyzing", "error", "done"},
                browser : {"idle", "connected"}, server : {"idle", "running", "done"}]

StreamTypes ==
  /\ phase \in {"off", "starting", "asking", "running", "returned", "resulted", "closing",
                "stopped"}
  /\ call \in [Calls -> {"none", "asked", "working", "resulted", "cut", "lost"}]
  /\ sub \in [Calls -> {"none", "starting", "open", "working", "over", "failed", "unheard"}]
  /\ story \in Seq(StreamMessages) /\ current \in StreamMessages \cup {NoMessage}
  /\ begun \in Nat /\ badge \in BOOLEAN /\ nodes \in StreamNodes /\ edges \subseteq Links

\* The message being written is the last one; a call that is asked or works is on it.
Writing ==
  /\ ~BetweenTurns /\ current # NoMessage =>
       story # <<>> /\ story[Len(story)] = current
  /\ \A c \in Calls :
       /\ call[c] = "asked" => phase = "asking" /\ current # NoMessage
       /\ call[c] = "working" => phase \in {"running", "returned"} /\ current # NoMessage

\* Only a call that works has a browser agent.
Untested == \A c \in Calls : call[c] \in {"none", "asked"} => sub[c] = "none"

\* A server node pulses for a call that is to start it, was cut off, or has failed.
Erred(c) == \E i \in 1..Len(story) : story[i].cards[c].status = "error"
Starts(c) ==
  /\ Kind[c] = "start"
  /\ \/ call[c] \in {"asked", "working", "cut", "lost"}
     \/ call[c] = "resulted" /\ Erred(c)
Topology ==
  /\ nodes.server = "running" => \E c \in Calls : Starts(c)
  /\ phase \in {"closing", "off"} => edges = {} /\ nodes.main \in {"idle", "error", "done"}

StreamInv == StreamTypes /\ Writing /\ Untested /\ Topology /\ BadgeHonest

LEMMA StreamInitInv == StreamInit => StreamInv
<1> SUFFICES ASSUME StreamInit PROVE StreamInv
  OBVIOUS
<1>1. StreamTypes
  BY EmptySeq DEF StreamInit, StreamTypes, StreamNodes
<1>2. Writing /\ Untested /\ Topology /\ BadgeHonest
  BY DEF StreamInit, Writing, Untested, Topology, BadgeHonest, BetweenTurns, Lit
<1>3. QED BY <1>1, <1>2 DEF StreamInv

\* What a write to the message leaves of the story: the message is its last one, and
\* a card that says "error" is there if the write does not change it.
LEMMA WrittenLast ==
  ASSUME StreamTypes, Writing, ~BetweenTurns, NEW m \in StreamMessages,
         Write(m) \/ (Update(m) /\ current # NoMessage)
  PROVE  /\ story' \in Seq(StreamMessages) /\ begun' \in Nat
         /\ current' = m /\ m # NoMessage
         /\ story' # <<>> /\ story'[Len(story')] = m
         /\ \A c \in Calls :
              Erred(c) /\ (current # NoMessage => m.cards[c].status = current.cards[c].status)
                => Erred(c)'
<1>0. /\ story \in Seq(StreamMessages) /\ Len(story) \in Nat /\ begun \in Nat
      /\ current \in StreamMessages \cup {NoMessage}
      /\ current # NoMessage => Len(story) # 0 /\ story[Len(story)] = current
  BY LenProperties, EmptySeq DEF StreamTypes, Writing
<1>1. m # NoMessage /\ current' = m /\ begun' \in Nat
  <2>1. m.id # 0 /\ NoMessage.id = 0
    BY DEF NoMessage, StreamMessages
  <2>2. m # NoMessage
    BY <2>1
  <2>3. current' = m /\ begun' \in Nat
    BY <1>0 DEF Write, Update
  <2>4. QED BY <2>2, <2>3
<1>2. CASE current = NoMessage
  <2>1. story' = Append(story, m)
    BY <1>2 DEF Write
  <2>2. /\ story' \in Seq(StreamMessages) /\ Len(story') = Len(story) + 1
        /\ story'[Len(story) + 1] = m
        /\ \A i \in 1..Len(story) : story'[i] = story[i]
    BY <1>0, <2>1, AppendProperties
  <2>3. ASSUME NEW c \in Calls, Erred(c) PROVE Erred(c)'
    BY <1>0, <2>2, <2>3 DEF Erred
  <2>4. story' # <<>>
    BY <1>0, <2>2, EmptySeq
  <2>5. QED BY <1>1, <2>2, <2>3, <2>4
<1>3. CASE current # NoMessage
  <2>1. story' = [story EXCEPT ![Len(story)] = m]
    BY <1>3 DEF Write, Update
  <2>2. /\ story' \in Seq(StreamMessages) /\ Len(story') = Len(story)
        /\ \A i \in 1..Len(story) : story'[i] = IF i = Len(story) THEN m ELSE story[i]
    BY <1>0, <1>3, <2>1, ExceptSeq
  <2>3. ASSUME NEW c \in Calls, Erred(c), m.cards[c].status = current.cards[c].status
        PROVE  Erred(c)'
    <3>1. PICK i \in 1..Len(story) : story[i].cards[c].status = "error"
      BY <2>3 DEF Erred
    <3>2. story'[i].cards[c].status = "error"
      BY <1>0, <1>3, <2>2, <2>3, <3>1
    <3>3. QED BY <2>2, <3>1, <3>2 DEF Erred
  <2>4. story' # <<>> /\ story'[Len(story')] = m
    BY <1>0, <1>3, <2>2, EmptySeq
  <2>5. QED BY <1>1, <1>3, <2>2, <2>3, <2>4
<1>4. QED BY <1>2, <1>3

\* The message a write begins from, and what is made of it.
LEMMA AssistantType ==
  ASSUME StreamTypes
  PROVE  /\ Assistant \in StreamMessages
         /\ current # NoMessage => Assistant = current
         /\ current = NoMessage =>
              Assistant.id = begun + 1 /\ \A c \in Calls : Assistant.cards[c] = Blank
         /\ \A x \in {"thought", "said", "note"}, m \in StreamMessages :
              /\ [m EXCEPT !.text = x] \in StreamMessages
              /\ [m EXCEPT !.text = x].cards = m.cards /\ [m EXCEPT !.text = x].id = m.id
         /\ \A c \in Calls, k \in StreamCards, m \in StreamMessages :
              /\ [m EXCEPT !.cards[c] = k] \in StreamMessages
              /\ [m EXCEPT !.cards[c] = k].id = m.id
              /\ [m EXCEPT !.cards[c] = k].cards = [m.cards EXCEPT ![c] = k]
         /\ \A x \in {"running", "completed", "error"} : [Blank EXCEPT !.status = x] \in StreamCards
         /\ \A x \in {"running", "completed", "error"} : [Blank EXCEPT !.status = x].status = x
<1>1. begun \in Nat /\ current \in StreamMessages \cup {NoMessage}
  BY DEF StreamTypes
<1>2. NewMessage(begun + 1, "assistant", "") \in StreamMessages
  <2>1. Blank \in StreamCards
    BY DEF Blank, StreamCards
  <2>2. [c \in Calls |-> Blank] \in [Calls -> StreamCards]
    BY <2>1
  <2>3. begun + 1 \in Nat \ {0}
    BY <1>1
  <2>4. QED BY <2>2, <2>3 DEF NewMessage, StreamMessages
<1>3. /\ Assistant \in StreamMessages /\ (current # NoMessage => Assistant = current)
      /\ current = NoMessage =>
           Assistant.id = begun + 1 /\ \A c \in Calls : Assistant.cards[c] = Blank
  BY <1>1, <1>2 DEF Assistant, NewMessage
<1>4. ASSUME NEW x \in {"thought", "said", "note"}, NEW m \in StreamMessages
      PROVE /\ [m EXCEPT !.text = x] \in StreamMessages
            /\ [m EXCEPT !.text = x].cards = m.cards /\ [m EXCEPT !.text = x].id = m.id
  BY DEF StreamMessages
<1>5. ASSUME NEW c \in Calls, NEW k \in StreamCards, NEW m \in StreamMessages
      PROVE /\ [m EXCEPT !.cards[c] = k] \in StreamMessages
            /\ [m EXCEPT !.cards[c] = k].id = m.id
            /\ [m EXCEPT !.cards[c] = k].cards = [m.cards EXCEPT ![c] = k]
  BY DEF StreamMessages
<1>6. ASSUME NEW x \in {"running", "completed", "error"}
      PROVE [Blank EXCEPT !.status = x] \in StreamCards /\ [Blank EXCEPT !.status = x].status = x
  BY DEF Blank, StreamCards
<1>7. QED BY <1>3, <1>4, <1>5, <1>6

\* A server node that pulses for a call goes on with it when the call's card is kept.
LEMMA TopologyKept ==
  ASSUME StreamTypes, Topology,
         \A c \in Calls : Starts(c) => Starts(c)' \/ nodes'.server # "running",
         nodes'.server = "running" => nodes.server = "running",
         phase' \in {"closing", "off"} =>
           edges' = {} /\ nodes'.main \in {"idle", "error", "done"}
  PROVE  Topology'
BY DEF Topology

\* The writes of a turn: thoughts, words and the ends.
LEMMA WordsWritten ==
  ASSUME StreamTypes, Think \/ Token \/ AgentError \/ AgentDone
  PROVE  \E m \in StreamMessages :
           Write(m) /\ m.cards = Assistant.cards /\ m.id = Assistant.id
<1>1. /\ Assistant \in StreamMessages
      /\ \A x \in {"thought", "said", "note"} :
           /\ [Assistant EXCEPT !.text = x] \in StreamMessages
           /\ [Assistant EXCEPT !.text = x].cards = Assistant.cards
           /\ [Assistant EXCEPT !.text = x].id = Assistant.id
  BY AssistantType
<1>2. CASE Think
  <2>1. PICK m \in {Assistant, [Assistant EXCEPT !.text = "thought"]} :
          m = [Assistant EXCEPT !.text = IF @ = "" THEN "thought" ELSE @]
    <3>1. CASE Assistant.text = ""
      BY <3>1
    <3>2. CASE Assistant.text # ""
      <4>1. [Assistant EXCEPT !.text = Assistant.text] = Assistant
        BY <1>1 DEF StreamMessages
      <4>2. QED BY <3>2, <4>1
    <3>3. QED BY <3>1, <3>2
  <2>2. Write(m)
    BY <1>2, <2>1 DEF Think
  <2>3. m \in StreamMessages /\ m.cards = Assistant.cards /\ m.id = Assistant.id
    BY <1>1, <2>1
  <2>4. QED BY <2>2, <2>3
<1>3. CASE Token
  BY <1>1, <1>3 DEF Token
<1>4. CASE AgentError
  BY <1>1, <1>4 DEF AgentError, Note
<1>5. CASE AgentDone
  BY <1>1, <1>5 DEF AgentDone, NoteSilent
<1>6. QED BY <1>2, <1>3, <1>4, <1>5

LEMMA WordsInv ==
  ASSUME StreamInv, Think \/ Token \/ AgentError \/ AgentDone
  PROVE  StreamInv'
<1>1. PICK m \in StreamMessages : Write(m) /\ m.cards = Assistant.cards
  BY WordsWritten DEF StreamInv
<1>2. /\ ~BetweenTurns /\ phase \in {"asking", "resulted"}
      /\ phase' \in {"asking", "closing"}
      /\ phase' = "asking" => phase = "asking" /\ call' = call
      /\ \A c \in Calls : call'[c] = IF call'[c] = call[c] THEN call[c] ELSE "cut"
      /\ \A c \in Calls : call'[c] # call[c] => call[c] = "asked"
      /\ phase' = "closing" => \A c \in Calls : call'[c] # "asked"
      /\ call' \in [Calls -> {"none", "asked", "working", "resulted", "cut", "lost"}]
      /\ sub' = sub /\ badge' = badge
  <2>1. call \in [Calls -> {"none", "asked", "working", "resulted", "cut", "lost"}]
    BY DEF StreamInv, StreamTypes
  <2>2. CASE Think \/ Token
    BY <2>1, <2>2 DEF Think, Token, BetweenTurns, canvasVars
  <2>3. CASE AgentError
    BY <2>1, <2>3 DEF AgentError, BetweenTurns
  <2>4. CASE AgentDone
    BY <2>1, <2>4 DEF AgentDone, BetweenTurns
  <2>5. QED BY <2>2, <2>3, <2>4
<1>3. /\ story' \in Seq(StreamMessages) /\ begun' \in Nat
      /\ current' = m /\ m # NoMessage /\ story' # <<>> /\ story'[Len(story')] = m
      /\ \A c \in Calls : Erred(c) => Erred(c)'
  BY <1>1, <1>2, WrittenLast, AssistantType DEF StreamInv
<1>4. /\ nodes' \in StreamNodes /\ edges' \subseteq Links /\ nodes'.server = nodes.server
      /\ phase' = "closing" => edges' = {} /\ nodes'.main \in {"idle", "error", "done"}
  <2>1. /\ nodes \in StreamNodes /\ edges \subseteq Links
        /\ \A x \in {"analyzing", "error", "done"} :
             /\ [nodes EXCEPT !.main = x] \in StreamNodes /\ [nodes EXCEPT !.main = x].main = x
             /\ [nodes EXCEPT !.main = x].server = nodes.server
    BY DEF StreamInv, StreamTypes, StreamNodes
  <2>2. CASE Think
    BY <2>1, <2>2 DEF Think, SetNode
  <2>3. CASE Token
    BY <2>1, <2>3 DEF Token, canvasVars
  <2>4. CASE AgentError
    BY <2>1, <2>4 DEF AgentError, SetNode
  <2>5. CASE AgentDone
    BY <2>1, <2>5 DEF AgentDone, SetNode
  <2>6. QED BY <2>2, <2>3, <2>4, <2>5
<1>5. StreamTypes'
  BY <1>2, <1>3, <1>4 DEF StreamInv, StreamTypes
<1>6. Writing'
  BY <1>2, <1>3 DEF StreamInv, Writing
<1>7. Untested'
  BY <1>2 DEF StreamInv, Untested
<1>8. \A c \in Calls : Starts(c) => Starts(c)'
  BY <1>2, <1>3 DEF Starts
<1>9. Topology'
  BY <1>2, <1>4, <1>8, TopologyKept DEF StreamInv
<1>10. BadgeHonest'
  BY <1>2 DEF StreamInv, BadgeHonest, Lit
<1>11. QED BY <1>5, <1>6, <1>7, <1>9, <1>10 DEF StreamInv

LEMMA ToolCallInv ==
  ASSUME StreamInv, NEW c \in Calls, ToolCall(c)
  PROVE  StreamInv'
<1> DEFINE k == [Blank EXCEPT !.status = "running"]
           m == [Assistant EXCEPT !.cards[c] = k]
<1>1. /\ m \in StreamMessages /\ m.cards = [Assistant.cards EXCEPT ![c] = k]
      /\ Assistant.cards \in [Calls -> StreamCards]
  BY AssistantType DEF StreamInv, StreamMessages
<1>2. /\ ~BetweenTurns /\ phase = "asking" /\ phase' = phase /\ call[c] = "none"
      /\ call' = [call EXCEPT ![c] = "asked"] /\ sub' = sub /\ badge' = badge
      /\ Write(m)
  BY DEF ToolCall, BetweenTurns
<1>3. /\ story' \in Seq(StreamMessages) /\ begun' \in Nat
      /\ current' = m /\ m # NoMessage /\ story' # <<>> /\ story'[Len(story')] = m
      /\ \A d \in Calls \ {c} : Erred(d) => Erred(d)'
  <2>1. \A d \in Calls \ {c} : current # NoMessage => m.cards[d].status = current.cards[d].status
    BY <1>1, AssistantType DEF StreamInv
  <2> HIDE DEF m
  <2>2. QED BY <1>1, <1>2, <2>1, WrittenLast DEF StreamInv
<1> HIDE DEF m
<1>4. /\ nodes' \in StreamNodes /\ edges' \subseteq Links
      /\ nodes'.server = "running" => nodes.server = "running" \/ Kind[c] = "start"
  BY DEF StreamInv, StreamTypes, StreamNodes, Links, ToolCall
<1>5. /\ call \in [Calls -> {"none", "asked", "working", "resulted", "cut", "lost"}]
      /\ call' \in [Calls -> {"none", "asked", "working", "resulted", "cut", "lost"}]
      /\ call'[c] = "asked" /\ \A d \in Calls \ {c} : call'[d] = call[d]
  BY <1>2 DEF StreamInv, StreamTypes
<1>6. StreamTypes'
  BY <1>2, <1>3, <1>4, <1>5 DEF StreamInv, StreamTypes
<1>7. Writing'
  BY <1>2, <1>3, <1>5 DEF StreamInv, Writing
<1>8. Untested'
  BY <1>2, <1>5 DEF StreamInv, Untested
<1>9. Topology'
  <2>1. \A d \in Calls : Starts(d) => Starts(d)'
    BY <1>2, <1>3, <1>5 DEF Starts
  <2>2. Kind[c] = "start" => Starts(c)'
    BY <1>5 DEF Starts
  <2>3. QED BY <1>2, <1>4, <2>1, <2>2 DEF StreamInv, Topology
<1>10. BadgeHonest'
  BY <1>2 DEF StreamInv, BadgeHonest, Lit
<1>11. QED BY <1>6, <1>7, <1>8, <1>9, <1>10 DEF StreamInv

LEMMA ToolResultInv ==
  ASSUME StreamInv, NEW c \in Calls, ToolResult(c)
  PROVE  StreamInv'
<1>1. /\ ~BetweenTurns /\ phase = "returned" /\ call[c] = "working" /\ current # NoMessage
      /\ phase' \in {"returned", "resulted"}
      /\ phase' = "resulted" => \A d \in Calls \ {c} : call[d] # "working"
      /\ call' = [call EXCEPT ![c] = "resulted"] /\ sub' = sub /\ badge' = badge
      /\ begun' \in Nat
  BY DEF StreamInv, StreamTypes, Writing, ToolResult, BetweenTurns, Update
<1>2. PICK outcome \in {"completed", "error"} :
        /\ Update([current EXCEPT !.cards[c] = [Blank EXCEPT !.status = outcome]])
        /\ nodes' = CASE outcome = "completed" /\ Kind[c] = "start" ->
                           [nodes EXCEPT !.server = "done"]
                      [] outcome = "completed" /\ Kind[c] = "stop" ->
                           [nodes EXCEPT !.server = "idle"]
                      [] OTHER -> nodes
        /\ edges' = IF outcome = "completed" /\ Kind[c] = "test"
                    THEN edges \ {"e-main-browser"} ELSE edges
  BY DEF ToolResult
<1> DEFINE k == [Blank EXCEPT !.status = outcome]
           m == [current EXCEPT !.cards[c] = k]
<1>3. /\ m \in StreamMessages /\ m.cards = [current.cards EXCEPT ![c] = k]
      /\ current.cards \in [Calls -> StreamCards] /\ k.status = outcome
  <2>1. current \in StreamMessages /\ current.cards \in [Calls -> StreamCards]
    BY <1>1 DEF StreamInv, StreamTypes, StreamMessages
  <2>2. k \in StreamCards /\ k.status = outcome
    BY AssistantType DEF StreamInv
  <2> HIDE DEF k
  <2>3. QED BY <2>1, <2>2, AssistantType DEF StreamInv
<1>4. /\ story' \in Seq(StreamMessages) /\ current' = m /\ m # NoMessage
      /\ story' # <<>> /\ story'[Len(story')] = m
      /\ \A d \in Calls \ {c} : Erred(d) => Erred(d)'
  <2>1. \A d \in Calls \ {c} : m.cards[d].status = current.cards[d].status
    BY <1>3
  <2>2. Update(m)
    BY <1>2
  <2> HIDE DEF m
  <2>3. QED BY <1>1, <1>3, <2>1, <2>2, WrittenLast DEF StreamInv
<1>5. outcome = "error" => Erred(c)'
  <2>1. Len(story') \in 1..Len(story')
    BY <1>4, LenProperties, EmptySeq
  <2>2. m.cards[c].status = outcome
    BY <1>3
  <2>3. QED BY <1>4, <2>1, <2>2 DEF Erred
<1> HIDE DEF m
<1>6. /\ nodes' \in StreamNodes /\ edges' \subseteq Links
      /\ nodes'.server = "running" => nodes.server = "running"
      /\ nodes'.server = "running" /\ outcome = "completed" => Kind[c] # "start"
  BY <1>2 DEF StreamInv, StreamTypes, StreamNodes
<1>7. /\ call \in [Calls -> {"none", "asked", "working", "resulted", "cut", "lost"}]
      /\ call' \in [Calls -> {"none", "asked", "working", "resulted", "cut", "lost"}]
      /\ call'[c] = "resulted" /\ \A d \in Calls \ {c} : call'[d] = call[d]
  BY <1>1 DEF StreamInv, StreamTypes
<1>8. StreamTypes'
  BY <1>1, <1>4, <1>3, <1>6, <1>7 DEF StreamInv, StreamTypes
<1>9. Writing'
  BY <1>1, <1>4, <1>7 DEF StreamInv, Writing
<1>10. Untested'
  BY <1>1, <1>7 DEF StreamInv, Untested
<1>11. Topology'
  <2>1. \A d \in Calls \ {c} : Starts(d) => Starts(d)'
    BY <1>4, <1>7 DEF Starts
  <2>2. Starts(c) => Starts(c)' \/ nodes'.server # "running"
    BY <1>5, <1>6, <1>7 DEF Starts
  <2>3. QED BY <1>1, <1>6, <2>1, <2>2, TopologyKept DEF StreamInv
<1>12. BadgeHonest'
  BY <1>1 DEF StreamInv, BadgeHonest, Lit
<1>13. QED BY <1>8, <1>9, <1>10, <1>11, <1>12 DEF StreamInv

\* A message that begins a turn, or tells that the stream broke.
LEMMA Told ==
  ASSUME StreamTypes, NEW role \in {"user", "assistant"}, NEW text \in {"said", "note"},
         story' = Append(story, NewMessage(begun + 1, role, text))
  PROVE  /\ story' \in Seq(StreamMessages)
         /\ \A c \in Calls : Erred(c) => Erred(c)'
<1>1. story \in Seq(StreamMessages) /\ Len(story) \in Nat /\ begun + 1 \in Nat \ {0}
  BY LenProperties DEF StreamTypes
<1>2. NewMessage(begun + 1, role, text) \in StreamMessages
  <2>1. Blank \in StreamCards
    BY DEF Blank, StreamCards
  <2>2. [c \in Calls |-> Blank] \in [Calls -> StreamCards]
    BY <2>1
  <2>3. QED BY <1>1, <2>2 DEF NewMessage, StreamMessages
<1>3. /\ story' \in Seq(StreamMessages) /\ Len(story') = Len(story) + 1
      /\ \A i \in 1..Len(story) : story'[i] = story[i]
  BY <1>1, <1>2, AppendProperties
<1>4. ASSUME NEW c \in Calls, Erred(c) PROVE Erred(c)'
  BY <1>1, <1>3, <1>4 DEF Erred
<1>5. QED BY <1>3, <1>4

LEMMA TurnBeginsInv ==
  ASSUME StreamInv, SendMessage \/ Iteration
  PROVE  StreamInv'
<1>1. /\ story' \in Seq(StreamMessages) /\ \A c \in Calls : Erred(c) => Erred(c)'
      /\ begun' \in Nat
  <2>1. begun \in Nat /\ story \in Seq(StreamMessages)
    BY DEF StreamInv, StreamTypes
  <2>2. CASE SendMessage
    BY <2>1, <2>2, Told DEF StreamInv, SendMessage
  <2>3. CASE Iteration
    BY <2>1, <2>3 DEF Iteration, Erred
  <2>4. QED BY <2>2, <2>3
<1>2. /\ phase \in {"off", "stopped", "starting", "resulted"} /\ phase' \in {"starting", "asking"}
      /\ current' = NoMessage /\ call' = call /\ sub' = sub /\ badge' = badge
      /\ edges' \in {edges, Links}
      /\ nodes' \in {[nodes EXCEPT !.main = "running"], [nodes EXCEPT !.main = "analyzing"]}
  BY DEF SendMessage, Iteration, BetweenTurns, SetNode
<1>3. nodes' \in StreamNodes /\ nodes'.server = nodes.server
  BY <1>2 DEF StreamInv, StreamTypes, StreamNodes
<1>4. StreamTypes'
  BY <1>1, <1>2, <1>3 DEF StreamInv, StreamTypes
<1>5. Writing'
  BY <1>2 DEF StreamInv, Writing
<1>6. Untested'
  BY <1>2 DEF StreamInv, Untested
<1>7. \A c \in Calls : Starts(c) => Starts(c)'
  BY <1>1, <1>2 DEF Starts
<1>8. Topology'
  BY <1>2, <1>3, <1>7, TopologyKept DEF StreamInv
<1>9. BadgeHonest'
  BY <1>2 DEF StreamInv, BadgeHonest, Lit
<1>10. QED BY <1>4, <1>5, <1>6, <1>8, <1>9 DEF StreamInv

LEMMA ToolsRunInv ==
  ASSUME StreamInv, StartTools \/ ToolsReturn
  PROVE  StreamInv'
<1>1. /\ call \in [Calls -> {"none", "asked", "working", "resulted", "cut", "lost"}]
      /\ sub \in [Calls -> {"none", "starting", "open", "working", "over", "failed", "unheard"}]
  BY DEF StreamInv, StreamTypes
<1>2. /\ story' = story /\ current' = current /\ begun' = begun /\ badge' = badge
      /\ nodes' = nodes /\ edges' = edges
      /\ phase \in {"asking", "running"} /\ phase' \in {"running", "returned"}
      /\ call' \in [Calls -> {"none", "asked", "working", "resulted", "cut", "lost"}]
      /\ sub' \in [Calls -> {"none", "starting", "open", "working", "over", "failed", "unheard"}]
      /\ \A c \in Calls :
           /\ call'[c] = IF call[c] = "asked" /\ phase = "asking" THEN "working" ELSE call[c]
           /\ sub'[c] = sub[c] \/ (sub'[c] = "starting" /\ call[c] = "asked" /\ phase = "asking")
  BY <1>1 DEF StartTools, ToolsReturn, pageVars, canvasVars
<1>3. StreamTypes'
  BY <1>2 DEF StreamInv, StreamTypes
<1>4. Writing'
  <2>1. \A c \in Calls : call[c] = "asked" => phase = "asking" /\ current # NoMessage
    BY DEF StreamInv, Writing
  <2>2. \A c \in Calls : call[c] = "working" => current # NoMessage
    BY DEF StreamInv, Writing
  <2>3. current # NoMessage => story # <<>> /\ story[Len(story)] = current
    BY <1>2 DEF StreamInv, Writing, BetweenTurns
  <2>4. QED BY <1>2, <2>1, <2>2, <2>3 DEF Writing
<1>5. Untested'
  <2>1. \A c \in Calls : call[c] = "asked" => phase = "asking"
    BY DEF StreamInv, Writing
  <2>2. QED BY <1>2, <2>1 DEF StreamInv, Untested
<1>6. \A c \in Calls : Starts(c) => Starts(c)'
  BY <1>2 DEF Starts, Erred
<1>7. Topology'
  BY <1>2, <1>6, TopologyKept DEF StreamInv
<1>8. BadgeHonest'
  <2>1. \A c \in Calls : call[c] = "asked" => sub[c] = "none"
    BY DEF StreamInv, Untested
  <2>2. \A c \in Calls : /\ sub[c] \in {"open", "working"} <=> sub'[c] \in {"open", "working"}
                         /\ sub[c] \in {"failed", "unheard"} <=> sub'[c] \in {"failed", "unheard"}
                         /\ sub[c] = "over" <=> sub'[c] = "over"
    BY <1>2, <2>1
  <2>3. QED BY <1>2, <2>2 DEF StreamInv, BadgeHonest, Lit
<1>9. QED BY <1>3, <1>4, <1>5, <1>7, <1>8 DEF StreamInv

\* The end of the stream, its own or the person's.
LEMMA TurnEndsInv ==
  ASSUME StreamInv, StreamEnds \/ Abandon
  PROVE  StreamInv'
<1>1. /\ call \in [Calls -> {"none", "asked", "working", "resulted", "cut", "lost"}]
      /\ sub \in [Calls -> {"none", "starting", "open", "working", "over", "failed", "unheard"}]
      /\ begun \in Nat /\ story \in Seq(StreamMessages)
  BY DEF StreamInv, StreamTypes
<1>2. /\ story' \in Seq(StreamMessages) /\ \A c \in Calls : Erred(c) => Erred(c)'
      /\ begun' \in Nat
  <2>1. CASE story' = story /\ begun' = begun
    BY <1>1, <2>1 DEF Erred
  <2>2. CASE story' = Append(story, NewMessage(begun + 1, "assistant", "note"))
             /\ begun' = begun + 1
    BY <1>1, <2>2, Told DEF StreamInv
  <2>3. QED BY <2>1, <2>2 DEF StreamEnds, Abandon, pageVars
<1>3. /\ current' = current /\ badge' = badge /\ nodes' = nodes /\ edges' = edges
      /\ (phase' = "off" /\ phase = "closing") \/ phase' = "stopped"
      /\ call' \in [Calls -> {"none", "asked", "working", "resulted", "cut", "lost"}]
      /\ \A c \in Calls :
           \/ call'[c] = call[c] /\ (call[c] \notin {"asked", "working"} \/ phase = "closing")
           \/ call[c] \in {"asked", "working"} /\ call'[c] = "lost"
  BY <1>1 DEF StreamEnds, Abandon, pageVars, canvasVars
<1>4. /\ sub' \in [Calls -> {"none", "starting", "open", "working", "over", "failed", "unheard"}]
      /\ \A c \in Calls : sub'[c] = IF sub[c] \in Over THEN sub[c] ELSE "unheard"
  <2>1. Forget
    BY DEF StreamEnds, Abandon
  <2>2. QED BY <1>1, <2>1 DEF Forget, Over
<1>5. StreamTypes'
  BY <1>2, <1>3, <1>4 DEF StreamInv, StreamTypes
<1>6. Writing'
  <2>1. \A c \in Calls : call[c] \in {"asked", "working"} => phase # "closing"
    BY DEF StreamInv, Writing
  <2>2. QED BY <1>3, <2>1 DEF Writing, BetweenTurns
<1>7. Untested'
  BY <1>3, <1>4 DEF StreamInv, Untested, Over
<1>8. \A c \in Calls : Starts(c) => Starts(c)'
  BY <1>2, <1>3 DEF Starts
<1>9. Topology'
  <2>1. phase' = "off" => edges = {} /\ nodes.main \in {"idle", "error", "done"}
    BY <1>3 DEF StreamInv, Topology
  <2>2. QED BY <1>3, <1>8, <2>1 DEF StreamInv, Topology
<1>10. BadgeHonest'
  <2>1. \A c \in Calls : /\ sub'[c] \notin {"open", "working"}
                         /\ sub[c] \in {"open", "working", "failed", "unheard"}
                              => sub'[c] \in {"failed", "unheard"}
    BY <1>4 DEF Over
  <2>2. QED BY <1>3, <2>1 DEF StreamInv, BadgeHonest, Lit
<1>11. QED BY <1>5, <1>6, <1>7, <1>9, <1>10 DEF StreamInv

\* An event of a browser agent writes on the transcript of its card only.
LEMMA CardWritten ==
  ASSUME StreamTypes, current # NoMessage, NEW c \in Calls,
         NEW card, card \in {Live(Card(c)), Ended(Card(c))}, Transcribe(c, card)
  PROVE  \E m \in StreamMessages :
           /\ Update(m) /\ m.id = current.id
           /\ \A d \in Calls : m.cards[d].status = current.cards[d].status
           /\ \A d \in Calls \ {c} : m.cards[d] = current.cards[d]
           /\ m.cards[c] = IF current.cards[c].status = "none" THEN current.cards[c] ELSE card
<1>1. current \in StreamMessages /\ current.cards \in [Calls -> StreamCards]
  BY DEF StreamTypes, StreamMessages
<1>2. card \in StreamCards /\ card.status = Card(c).status
  <2>1. Card(c) \in StreamCards
    BY <1>1 DEF Card
  <2>2. ASSUME NEW k \in StreamCards
        PROVE  /\ Live(k) \in StreamCards /\ Live(k).status = k.status
               /\ Ended(k) \in StreamCards /\ Ended(k).status = k.status
    BY DEF Live, Ended, StreamCards
  <2>3. QED BY <2>1, <2>2
<1>3. CASE Card(c).status = "none"
  BY <1>1, <1>3 DEF Transcribe, Card
<1>4. CASE Card(c).status # "none"
  <2> DEFINE m == [current EXCEPT !.cards[c] = card]
  <2>1. Update(m)
    BY <1>4 DEF Transcribe
  <2>2. m \in StreamMessages /\ m.id = current.id /\ m.cards = [current.cards EXCEPT ![c] = card]
    BY <1>1, <1>2, AssistantType
  <2>3. /\ m.cards[c] = card /\ \A d \in Calls \ {c} : m.cards[d] = current.cards[d]
        /\ \A d \in Calls : m.cards[d].status = current.cards[d].status
    BY <1>1, <1>2, <2>2 DEF Card
  <2> HIDE DEF m
  <2>4. QED BY <1>4, <2>1, <2>2, <2>3 DEF Card
<1>5. QED BY <1>3, <1>4

LEMMA Transcribed ==
  ASSUME StreamInv, ~BetweenTurns, NEW c \in Calls,
         NEW card, card \in {Live(Card(c)), Ended(Card(c))}, Transcribe(c, card)
  PROVE  /\ story' \in Seq(StreamMessages) /\ begun' = begun
         /\ current' \in StreamMessages \cup {NoMessage}
         /\ current' = NoMessage <=> current = NoMessage
         /\ current' # NoMessage => story' # <<>> /\ story'[Len(story')] = current'
         /\ \A d \in Calls : Erred(d) => Erred(d)'
<1>1. CASE current = NoMessage
  <2>1. story' = story /\ begun' = begun /\ current' = current
    BY <1>1 DEF Transcribe, Update
  <2>2. QED BY <1>1, <2>1 DEF StreamInv, StreamTypes, Erred
<1>2. CASE current # NoMessage
  <2>1. PICK m \in StreamMessages :
          /\ Update(m) /\ \A d \in Calls : m.cards[d].status = current.cards[d].status
    BY <1>2, CardWritten DEF StreamInv
  <2>2. begun' = begun
    BY <1>2, <2>1 DEF Update
  <2>3. QED BY <1>2, <2>1, <2>2, WrittenLast DEF StreamInv
<1>3. QED BY <1>1, <1>2

LEMMA BrowserEventInv ==
  ASSUME StreamInv, NEW c \in Calls, BrowserEvent(c)
  PROVE  StreamInv'
<1>1. PICK from \in SUBSET {"starting", "open", "working"},
           to \in {"starting", "open", "working", "over", "failed"},
           card \in {Live(Card(c)), Ended(Card(c))}, lit \in {"on", "off", "same"} :
        /\ SubEvent(c, from, to, card, lit)
        /\ lit = "on" <=> to \in {"open"} \/ (to = "working" /\ from = {"open", "working"})
        /\ to = "open" => from = {"starting"}
        /\ to = "working" => from \in {{"open", "working"}, {"working"}}
        /\ to = "starting" => from = {"starting"}
        /\ to = "failed" => from = {"working"}
        /\ lit = "off" <=> to = "over"
  <2>1. CASE BrowserAsks(c)
    BY <2>1 DEF BrowserAsks
  <2>2. CASE BrowserFails(c)
    BY <2>2 DEF BrowserFails
  <2>3. CASE BrowserOpens(c)
    BY <2>3 DEF BrowserOpens
  <2>4. CASE BrowserIterates(c)
    BY <2>4 DEF BrowserIterates
  <2>5. CASE BrowserWorks(c)
    BY <2>5 DEF BrowserWorks
  <2>6. CASE BrowserModelFails(c)
    BY <2>6 DEF BrowserModelFails
  <2>7. CASE BrowserDone(c)
    BY <2>7 DEF BrowserDone
  <2>8. QED BY <2>1, <2>2, <2>3, <2>4, <2>5, <2>6, <2>7 DEF BrowserEvent
<1>2. /\ ~BetweenTurns /\ sub[c] \in from /\ sub' = [sub EXCEPT ![c] = to]
      /\ badge' = CASE lit = "on" -> TRUE [] lit = "off" -> FALSE [] OTHER -> badge
      /\ Transcribe(c, card)
      /\ phase' = phase /\ call' = call /\ nodes' = nodes /\ edges' = edges
  BY <1>1 DEF SubEvent
<1>3. /\ story' \in Seq(StreamMessages) /\ begun' = begun
      /\ current' \in StreamMessages \cup {NoMessage}
      /\ current' = NoMessage <=> current = NoMessage
      /\ current' # NoMessage => story' # <<>> /\ story'[Len(story')] = current'
      /\ \A d \in Calls : Erred(d) => Erred(d)'
  BY <1>2, Transcribed
<1>4. sub \in [Calls -> {"none", "starting", "open", "working", "over", "failed", "unheard"}]
      /\ badge \in BOOLEAN
  BY DEF StreamInv, StreamTypes
<1>5. StreamTypes'
  BY <1>1, <1>2, <1>3, <1>4 DEF StreamInv, StreamTypes
<1>6. Writing'
  BY <1>2, <1>3 DEF StreamInv, Writing
<1>7. Untested'
  BY <1>2, <1>4 DEF StreamInv, Untested
<1>8. \A d \in Calls : Starts(d) => Starts(d)'
  BY <1>2, <1>3 DEF Starts
<1>9. Topology'
  BY <1>2, <1>8 DEF StreamInv, Topology
<1>10. BadgeHonest'
  <2>1. /\ sub'[c] = to /\ \A d \in Calls \ {c} : sub'[d] = sub[d]
    BY <1>2, <1>4
  <2>2. (badge => (\E d \in Calls : sub[d] \in {"open", "working", "failed", "unheard"}))
        /\ ((\E d \in Calls : sub[d] \in {"open", "working"}) /\ ~badge
              => \E d \in Calls : sub[d] = "over")
    BY DEF StreamInv, BadgeHonest, Lit
  <2>3. badge' => \E d \in Calls : sub'[d] \in {"open", "working", "failed", "unheard"}
    <3>1. CASE to \in {"open", "working", "failed"}
      BY <2>1, <3>1
    <3>2. CASE to = "over"
      BY <1>1, <1>2, <3>2
    <3>3. CASE to = "starting"
      BY <1>1, <1>2, <2>1, <2>2, <3>3
    <3>4. QED BY <3>1, <3>2, <3>3
  <2>4. (\E d \in Calls : sub'[d] \in {"open", "working"}) /\ ~badge'
          => \E d \in Calls : sub'[d] = "over"
    <3>1. CASE to = "over"
      BY <2>1, <3>1
    <3>2. CASE to # "over"
      <4>1. lit \in {"on", "same"}
        BY <1>1, <3>2
      <4>2. ASSUME NEW d \in Calls, sub'[d] \in {"open", "working"}, ~badge'
            PROVE  \E e \in Calls : sub[e] = "over"
        BY <1>1, <1>2, <2>1, <2>2, <4>1, <4>2
      <4>3. \A e \in Calls : sub[e] = "over" => sub'[e] = "over"
        BY <1>1, <1>2, <2>1
      <4>4. QED BY <4>2, <4>3
    <3>3. QED BY <3>1, <3>2
  <2>5. QED BY <2>3, <2>4 DEF BadgeHonest, Lit
<1>11. QED BY <1>5, <1>6, <1>7, <1>9, <1>10 DEF StreamInv

LEMMA StreamInvariant == StreamSpec => []StreamInv
<1>1. StreamInv /\ [StreamNext]_streamVars => StreamInv'
  <2> SUFFICES ASSUME StreamInv, [StreamNext]_streamVars PROVE StreamInv'
    OBVIOUS
  <2>1. CASE UNCHANGED <<agentVars, current, begun, canvasVars>>
    BY <2>1 DEF agentVars, canvasVars, StreamInv, StreamTypes, Writing, Untested, Topology,
                Starts, Erred, BetweenTurns, BadgeHonest, Lit
  <2>2. CASE UNCHANGED streamVars
    BY <2>1, <2>2 DEF streamVars, pageVars
  <2>3. CASE StreamNext
    BY <2>1, <2>3, WordsInv, ToolCallInv, ToolResultInv, TurnBeginsInv, ToolsRunInv,
       TurnEndsInv, BrowserEventInv DEF StreamNext, Render
  <2>4. QED BY <2>2, <2>3
<1>2. QED BY StreamInitInv, <1>1, PTL DEF StreamSpec

\* The browser badge is lit while a browser agent works, and without one only after an
\* agent whose model failed or whose turn ended before it, for any number of calls,
\* iterations and turns, and with any events of agents that run beside each other
\* (use-chat-state.ts, the browser events of a subagent-event).
THEOREM BadgeIsHonest == StreamSpec => []BadgeHonest
<1>1. StreamInv => BadgeHonest
  BY DEF StreamInv
<1>2. QED BY <1>1, StreamInvariant, PTL

\* When a turn has ended by itself the canvas rests: no edge beams, no node pulses, but
\* that of a server whose start was cut off or failed (use-chat-state.ts, the events
\* agent_done, agent_error, tool_call and tool_result).
THEOREM CanvasSettles == StreamSpec => []CanvasRests
<1>1. StreamInv => CanvasRests
  <2> SUFFICES ASSUME StreamInv, phase = "off" PROVE CanvasRests
    BY DEF CanvasRests
  <2>1. edges = {} /\ nodes.main \in {"idle", "error", "done"} /\ nodes \in StreamNodes
    BY DEF StreamInv, Topology, StreamTypes
  <2>2. nodes.browser \in {"idle", "connected"}
    BY <2>1 DEF StreamNodes
  <2>3. \A c \in Calls : call[c] \notin {"asked", "working"}
    BY DEF StreamInv, Writing
  <2>4. \A c \in Calls : Erred(c) => \E m \in ToSet(story) : m.cards[c].status = "error"
    <3>1. DOMAIN story = 1..Len(story)
      BY LenProperties DEF StreamInv, StreamTypes
    <3>2. QED BY <3>1 DEF Erred, ToSet
  <2>5. nodes.server = "running" => \E c \in Calls :
          Kind[c] = "start" /\ \/ call[c] \in {"cut", "lost"}
                               \/ \E m \in ToSet(story) : m.cards[c].status = "error"
    BY <2>3, <2>4 DEF StreamInv, Topology, Starts
  <2>6. nodes.server # "analyzing"
    BY <2>1 DEF StreamNodes
  <2>7. QED BY <2>1, <2>2, <2>5, <2>6 DEF CanvasRests, Beaming, Pulsing
<1>2. QED BY <1>1, StreamInvariant, PTL

-----------------------------------------------------------------------------
(* Steps one after another.  What the provers know of no recursion is had   *)
(* from the least number at which it would fail.                            *)

Less == {ss \in Nat \X Nat : ss[1] < ss[2]}

\* What holds at 0 and goes on to the next number holds up to n.
LEMMA UpTo ==
  ASSUME NEW n \in Nat, NEW G, 0 \in G, \A k \in 0..n : k < n /\ k \in G => k + 1 \in G
  PROVE  \A k \in 0..n : k \in G
<1> DEFINE T == {k \in 0..n : k \notin G}
<1>1. IsWellFoundedOn(Less, Nat)
  BY NatLessThanWellFounded DEF OpToRel, Less
<1>2. ASSUME T # {} PROVE FALSE
  <2>1. T \subseteq Nat
    OBVIOUS
  <2>2. PICK x \in T : \A y \in T : ~ (<<y, x>> \in Less)
    <3> HIDE DEF T
    <3>1. QED BY <1>1, <1>2, <2>1, WFMin
  <2>3. x \in 0..n /\ x \notin G /\ x # 0
    BY <2>2
  <2>4. x - 1 \in 0..n /\ x - 1 < n /\ (x - 1) + 1 = x /\ <<x - 1, x>> \in Less
    BY <2>3 DEF Less
  <2>5. x - 1 \in G
    BY <2>2, <2>4
  <2>6. QED BY <2>3, <2>4, <2>5
<1>3. QED BY <1>2

\* n steps from x, each a function, are a sequence of values.
AreSteps(n, S, x, step) == n \in Nat /\ x \in S /\ step \in [1..n -> [S -> S]]
Stepped(n, S, x, step) ==
  \E f \in [0..n -> S] : f[0] = x /\ \A k \in 1..n : f[k] = step[k][f[k - 1]]

LEMMA StepsAre ==
  ASSUME NEW n, NEW S, NEW x, NEW step, AreSteps(n, S, x, step)
  PROVE  Stepped(n, S, x, step)
<1>0. n \in Nat /\ x \in S /\ step \in [1..n -> [S -> S]]
  BY DEF AreSteps
<1> DEFINE Is(m, f) == f[0] = x /\ \A k \in 1..m : f[k] = step[k][f[k - 1]]
           G == {m \in 0..n : \E f \in [0..m -> S] : Is(m, f)}
<1>1. 0 \in G
  <2>1. [k \in 0..0 |-> x] \in [0..0 -> S] /\ Is(0, [k \in 0..0 |-> x])
    BY <1>0
  <2>2. \E f \in [0..0 -> S] : Is(0, f)
    BY <2>1
  <2>3. 0 \in 0..n
    BY <1>0
  <2> HIDE DEF Is
  <2>4. QED BY <2>2, <2>3
<1>2. ASSUME NEW m \in 0..n, m < n, m \in G PROVE m + 1 \in G
  <2>1. PICK f \in [0..m -> S] : Is(m, f)
    BY <1>2
  <2> DEFINE g == [k \in 0..m + 1 |-> IF k = m + 1 THEN step[m + 1][f[m]] ELSE f[k]]
  <2>2. m + 1 \in 1..n /\ m \in 0..m /\ m \in Nat
    BY <1>0, <1>2
  <2>3. step[m + 1][f[m]] \in S
    BY <1>0, <2>2
  <2>4. g \in [0..m + 1 -> S]
    BY <2>2, <2>3
  <2>5. g[0] = x
    BY <1>0, <2>1, <2>2
  <2>6. ASSUME NEW k \in 1..m + 1 PROVE g[k] = step[k][g[k - 1]]
    <3>1. CASE k = m + 1
      BY <2>2, <3>1
    <3>2. CASE k # m + 1
      <4>1. k \in 1..m /\ k - 1 \in 0..m + 1 /\ k - 1 # m + 1 /\ k \in 0..m + 1
        BY <2>2, <3>2
      <4>2. g[k] = f[k] /\ g[k - 1] = f[k - 1]
        BY <3>2, <4>1
      <4>3. QED BY <2>1, <4>1, <4>2
    <3>3. QED BY <3>1, <3>2
  <2> HIDE DEF g
  <2>7. QED BY <2>2, <2>4, <2>5, <2>6
<1> HIDE DEF G
<1>3. n \in G
  <2>1. n \in 0..n
    BY <1>0
  <2>2. QED BY <1>0, <1>1, <1>2, <2>1, UpTo
<1>4. QED BY <1>3 DEF G, Stepped

-----------------------------------------------------------------------------
(* The messages in the list, and what is done to it.                        *)

Entries == StreamMessages \cup {NoMessage}
Updates == {u \in [op : {"push", "pushCurrent", "put"}, msg : Entries] :
              u.op # "pushCurrent" => u.msg \in StreamMessages}

LEMMA MessageFacts ==
  /\ NoMessage \notin StreamMessages /\ NoMessage.id = 0
  /\ \A m \in Entries : m.id \in Nat /\ (m.id = 0 <=> m = NoMessage)
<1>1. NoMessage.id = 0
  BY DEF NoMessage
<1>2. \A m \in StreamMessages : m.id \in Nat /\ m.id # 0
  BY DEF StreamMessages
<1>3. QED BY <1>1, <1>2 DEF Entries

\* A put is in the list afterwards, in the place of one with its id or at the end.
LEMMA Merged ==
  ASSUME NEW list \in Seq(Entries), NEW m \in StreamMessages
  PROVE  /\ Merge(list, m) \in Seq(Entries)
         /\ \E p \in 1..Len(Merge(list, m)) : Merge(list, m)[p] = m
         /\ \A i \in 1..Len(list) : list[i].id # m.id =>
              i \in 1..Len(Merge(list, m)) /\ Merge(list, m)[i] = list[i]
         /\ \/ /\ Len(Merge(list, m)) = Len(list)
               /\ \A i \in 1..Len(list) : Merge(list, m)[i].id = list[i].id
            \/ /\ Merge(list, m) = Append(list, m)
               /\ \A i \in 1..Len(list) : list[i].id # m.id
<1>1. DOMAIN list = 1..Len(list) /\ Len(list) \in Nat /\ m \in Entries
      /\ \A i \in 1..Len(list) : list[i] \in Entries /\ list[i].id \in Nat
  BY LenProperties, MessageFacts DEF Entries
<1>2. CASE \E i \in DOMAIN list : list[i].id = m.id
  <2> DEFINE First(i) == /\ list[i].id = m.id
                         /\ \A j \in 1..(i - 1) : list[j].id # m.id
  <2>1. \E i \in DOMAIN list : First(i)
    <3> DEFINE T == {i \in 1..Len(list) : list[i].id = m.id}
    <3>1. T # {} /\ T \subseteq Nat
      BY <1>1, <1>2
    <3>2. IsWellFoundedOn(Less, Nat)
      BY NatLessThanWellFounded DEF OpToRel, Less
    <3>3. PICK x \in T : \A y \in T : ~ (<<y, x>> \in Less)
      <4> HIDE DEF T
      <4>1. QED BY <3>1, <3>2, WFMin
    <3>4. x \in 1..Len(list) /\ list[x].id = m.id
      BY <3>3
    <3>5. ASSUME NEW j \in 1..(x - 1) PROVE list[j].id # m.id
      <4>1. j \in 1..Len(list) /\ <<j, x>> \in Less
        BY <1>1, <3>4 DEF Less
      <4>2. QED BY <3>3, <4>1
    <3>6. QED BY <1>1, <3>4, <3>5
  <2> DEFINE at == CHOOSE i \in DOMAIN list : First(i)
  <2>2. at \in DOMAIN list /\ First(at)
    BY <2>1
  <2>3. Merge(list, m) = [list EXCEPT ![at] = m]
    BY <1>2 DEF Merge
  <2> HIDE DEF at
  <2>4. at \in 1..Len(list) /\ list[at].id = m.id
    BY <1>1, <2>2
  <2>5. /\ Merge(list, m) \in Seq(Entries) /\ Len(Merge(list, m)) = Len(list)
        /\ \A i \in 1..Len(list) : Merge(list, m)[i] = IF i = at THEN m ELSE list[i]
    BY <1>1, <2>3, <2>4, ExceptSeq
  <2>6. QED BY <2>4, <2>5
<1>3. CASE ~ \E i \in DOMAIN list : list[i].id = m.id
  <2>1. Merge(list, m) = Append(list, m)
    BY <1>3 DEF Merge
  <2>2. /\ Append(list, m) \in Seq(Entries) /\ Len(Append(list, m)) = Len(list) + 1
        /\ \A i \in 1..Len(list) : Append(list, m)[i] = list[i]
        /\ Append(list, m)[Len(list) + 1] = m
    BY <1>1, AppendProperties
  <2>3. \A i \in 1..Len(list) : list[i].id # m.id /\ i \in 1..Len(list) + 1
    BY <1>1, <1>3
  <2>4. Len(list) + 1 \in 1..Len(list) + 1
    BY <1>1
  <2> DEFINE all == Append(list, m)
  <2> HIDE DEF all
  <2>5. /\ Merge(list, m) = all /\ all \in Seq(Entries) /\ Len(all) = Len(list) + 1
        /\ \A i \in 1..Len(list) : all[i] = list[i]
        /\ all[Len(list) + 1] = m
    BY <2>1, <2>2 DEF all
  <2>6. QED BY <2>1, <2>3, <2>4, <2>5
<1>4. QED BY <1>2, <1>3

\* An updater that runs: a message it appends, or one it puts.
LEMMA Applied ==
  ASSUME NEW list \in Seq(Entries), NEW u \in Updates, current \in Entries
  PROVE  /\ Apply(list, u) \in Seq(Entries)
         /\ u.op = "put" => Apply(list, u) = Merge(list, u.msg) /\ u.msg \in StreamMessages
         /\ u.op = "push" => Apply(list, u) = Append(list, u.msg) /\ u.msg \in StreamMessages
         /\ u.op = "pushCurrent" => Apply(list, u) = Append(list, current)
<1>1. u.op \in {"push", "pushCurrent", "put"} /\ u.msg \in Entries
      /\ (u.op # "pushCurrent" => u.msg \in StreamMessages)
  BY DEF Updates
<1>2. CASE u.op = "put"
  <2>1. Apply(list, u) = Merge(list, u.msg)
    BY <1>2 DEF Apply
  <2>2. QED BY <1>1, <1>2, <2>1, Merged
<1>3. CASE u.op = "push"
  <2>1. Apply(list, u) = Append(list, u.msg)
    BY <1>3 DEF Apply
  <2>2. QED BY <1>1, <1>3, <2>1, AppendProperties
<1>4. CASE u.op = "pushCurrent"
  <2>1. Apply(list, u) = Append(list, current)
    BY <1>4 DEF Apply
  <2>2. QED BY <1>1, <1>4, <2>1, AppendProperties
<1>5. QED BY <1>1, <1>2, <1>3, <1>4

\* A render applies one updater after the other.
LEMMA Rendered ==
  ASSUME view \in Seq(Entries), updates \in Seq(Updates), current \in Entries, Render
  PROVE  \E list \in [0..Len(updates) -> Seq(Entries)] :
           /\ list[0] = view /\ view' = list[Len(updates)]
           /\ \A k \in 1..Len(updates) : list[k] = Apply(list[k - 1], updates[k])
<1> DEFINE N == Len(updates)
           step == [k \in 1..N |-> [s \in Seq(Entries) |-> Apply(s, updates[k])]]
           Is(f) == f = [n \in 0..N |-> IF n = 0 THEN view ELSE Apply(f[n - 1], updates[n])]
<1>1. N \in Nat /\ \A k \in 1..N : updates[k] \in Updates
  BY LenProperties
<1>2. \E f : Is(f) /\ f \in [0..N -> Seq(Entries)]
  <2>1. step \in [1..N -> [Seq(Entries) -> Seq(Entries)]]
    BY <1>1, Applied
  <2>2. \A k \in 1..N, s \in Seq(Entries) : step[k][s] = Apply(s, updates[k])
    OBVIOUS
  <2> HIDE DEF step
  <2>3. PICK f \in [0..N -> Seq(Entries)] : f[0] = view /\ \A k \in 1..N : f[k] = step[k][f[k - 1]]
    <3> DEFINE S == Seq(Entries)
    <3>1. AreSteps(N, S, view, step)
      BY <1>1, <2>1 DEF AreSteps
    <3> HIDE DEF S, N, Is
    <3>2. Stepped(N, S, view, step)
      BY <3>1, StepsAre
    <3>3. QED BY <3>2 DEF S, Stepped
  <2>4. ASSUME NEW n \in 0..N
        PROVE  f[n] = IF n = 0 THEN view ELSE Apply(f[n - 1], updates[n])
    <3>1. CASE n = 0
      BY <2>3, <3>1
    <3>2. CASE n # 0
      <4>1. n \in 1..N /\ n - 1 \in 0..N
        BY <1>1, <3>2
      <4>2. f[n - 1] \in Seq(Entries)
        BY <4>1
      <4>3. QED BY <2>2, <2>3, <3>2, <4>1, <4>2
    <3>3. QED BY <3>1, <3>2
  <2>5. f = [n \in 0..N |-> f[n]]
    OBVIOUS
  <2>6. Is(f)
    BY <2>4, <2>5
  <2> HIDE DEF Is
  <2>7. QED BY <2>6
<1> DEFINE list == CHOOSE f : Is(f)
<1>3. Is(list)
  BY <1>2
<1>4. view' = list[N]
  BY DEF Render
<1> HIDE DEF list
<1>5. DOMAIN list = 0..N /\ list[0] = view
      /\ \A k \in 1..N : list[k] = Apply(list[k - 1], updates[k])
  <2>1. \A n \in 0..N : list[n] = IF n = 0 THEN view ELSE Apply(list[n - 1], updates[n])
    BY <1>3
  <2>2. DOMAIN list = 0..N
    BY <1>3
  <2>3. 0 \in 0..N /\ \A k \in 1..N : k \in 0..N /\ k # 0
    BY <1>1
  <2> HIDE DEF Is
  <2>4. QED BY <2>1, <2>2, <2>3
<1>6. list \in [0..N -> Seq(Entries)]
  <2> DEFINE G == {n \in 0..N : list[n] \in Seq(Entries)}
  <2>1. 0 \in G
    BY <1>1, <1>5
  <2>2. ASSUME NEW n \in 0..N, n < N, n \in G PROVE n + 1 \in G
    <3>1. n + 1 \in 1..N /\ n + 1 \in 0..N /\ (n + 1) - 1 = n
      BY <1>1, <2>2
    <3>2. list[n + 1] = Apply(list[n], updates[n + 1])
      BY <1>5, <3>1
    <3>3. Apply(list[n], updates[n + 1]) \in Seq(Entries)
      BY <1>1, <2>2, <3>1, Applied
    <3>4. QED BY <3>1, <3>2, <3>3
  <2> HIDE DEF G
  <2>3. \A n \in 0..N : n \in G
    BY <1>1, <2>1, <2>2, UpTo
  <2>4. list = [n \in 0..N |-> list[n]]
    BY <1>3
  <2>5. QED BY <2>3, <2>4 DEF G
<1>7. QED BY <1>4, <1>5, <1>6

\* The list the person sees, one entry after the other.
LEMMA ShownSteps ==
  ASSUME view \in Seq(Entries)
  PROVE  \E list \in [0..Len(view) -> Seq(StreamMessages)] :
           /\ list[0] = <<>> /\ Shown = list[Len(view)]
           /\ \A k \in 1..Len(view) :
                list[k] = IF view[k] = NoMessage THEN list[k - 1] ELSE Append(list[k - 1], view[k])
<1> DEFINE N == Len(view)
           Next(s, k) == IF view[k] = NoMessage THEN s ELSE Append(s, view[k])
           step == [k \in 1..N |-> [s \in Seq(StreamMessages) |-> Next(s, k)]]
           Is(f) == f = [n \in 0..N |->
                           IF n = 0 THEN <<>>
                           ELSE IF view[n] = NoMessage THEN f[n - 1] ELSE Append(f[n - 1], view[n])]
<1>1. N \in Nat /\ \A k \in 1..N : view[k] \in Entries
  BY LenProperties
<1>2. \A k \in 1..N, s \in Seq(StreamMessages) : Next(s, k) \in Seq(StreamMessages)
  BY <1>1, AppendProperties DEF Entries
<1>3. \E f : Is(f) /\ f \in [0..N -> Seq(StreamMessages)]
  <2>1. step \in [1..N -> [Seq(StreamMessages) -> Seq(StreamMessages)]]
    BY <1>2
  <2>2. \A k \in 1..N, s \in Seq(StreamMessages) : step[k][s] = Next(s, k)
    OBVIOUS
  <2> HIDE DEF step, Next
  <2>3. PICK f \in [0..N -> Seq(StreamMessages)] :
          f[0] = <<>> /\ \A k \in 1..N : f[k] = step[k][f[k - 1]]
    <3> DEFINE S == Seq(StreamMessages)  none == <<>>
    <3>1. AreSteps(N, S, none, step)
      BY <1>1, <2>1, EmptySeq DEF AreSteps
    <3> HIDE DEF S, N, Is, none
    <3>2. Stepped(N, S, none, step)
      BY <3>1, StepsAre
    <3>3. QED BY <3>2 DEF S, none, Stepped
  <2>4. ASSUME NEW n \in 0..N PROVE f[n] = IF n = 0 THEN <<>> ELSE Next(f[n - 1], n)
    <3>1. CASE n = 0
      BY <2>3, <3>1
    <3>2. CASE n # 0
      <4>1. n \in 1..N /\ n - 1 \in 0..N
        BY <1>1, <3>2
      <4>2. f[n - 1] \in Seq(StreamMessages)
        BY <4>1
      <4>3. QED BY <2>2, <2>3, <3>2, <4>1, <4>2
    <3>3. QED BY <3>1, <3>2
  <2>5. f = [n \in 0..N |-> f[n]]
    OBVIOUS
  <2>6. Is(f)
    BY <2>4, <2>5 DEF Next
  <2> HIDE DEF Is
  <2>7. QED BY <2>6
<1> DEFINE list == CHOOSE f : Is(f)
<1>4. Is(list)
  BY <1>3
<1>5. Shown = list[N]
  BY DEF Shown
<1> HIDE DEF list
<1>6. DOMAIN list = 0..N /\ list[0] = <<>> /\ \A k \in 1..N : list[k] = Next(list[k - 1], k)
  <2>1. \A n \in 0..N : list[n] = IF n = 0 THEN <<>> ELSE Next(list[n - 1], n)
    BY <1>4
  <2>2. DOMAIN list = 0..N
    BY <1>4
  <2>3. 0 \in 0..N /\ \A k \in 1..N : k \in 0..N /\ k # 0
    BY <1>1
  <2> HIDE DEF Is, Next
  <2>4. QED BY <2>1, <2>2, <2>3
<1>7. list \in [0..N -> Seq(StreamMessages)]
  <2> DEFINE G == {n \in 0..N : list[n] \in Seq(StreamMessages)}
  <2>1. 0 \in G
    <3>1. <<>> \in Seq(StreamMessages) /\ 0 \in 0..N
      BY <1>1, EmptySeq
    <3> HIDE DEF Is, Next, N
    <3>2. list[0] = <<>>
      BY <1>6
    <3>3. QED BY <3>1, <3>2
  <2>2. ASSUME NEW n \in 0..N, n < N, n \in G PROVE n + 1 \in G
    <3>1. n + 1 \in 1..N /\ n + 1 \in 0..N /\ (n + 1) - 1 = n
      BY <1>1, <2>2
    <3> HIDE DEF Next
    <3>2. list[n + 1] = Next(list[n], n + 1)
      BY <1>6, <3>1
    <3>3. QED BY <1>2, <2>2, <3>1, <3>2
  <2> HIDE DEF G, Is, Next
  <2>3. \A n \in 0..N : n \in G
    BY <1>1, <2>1, <2>2, UpTo
  <2>4. list = [n \in 0..N |-> list[n]]
    BY <1>4 DEF Is
  <2>5. QED BY <2>3, <2>4 DEF G
<1>8. QED BY <1>5, <1>6, <1>7 DEF Next

\* A put that is queued is the last updater, in place of one before it or behind all.
LEMMA Enqueued ==
  ASSUME NEW us \in Seq(Updates), NEW m \in StreamMessages,
         NEW all, all = Enqueue(us, Put(m))
  PROVE  /\ all \in Seq(Updates) /\ Len(us) \in Nat /\ Len(all) \in {Len(us), Len(us) + 1}
         /\ Len(all) # 0 /\ all[Len(all)].op = "put" /\ all[Len(all)].msg = m
         /\ \A j \in 1..Len(us) : j < Len(all) => all[j] = us[j]
         /\ Len(all) = Len(us) => us[Len(us)].op = "put" /\ us[Len(us)].msg.id = m.id
<1> DEFINE n == Len(us)
<1>1. n \in Nat /\ \A i \in 1..n : us[i] \in Updates
  BY LenProperties
<1>2. Put(m) \in Updates /\ Put(m).op = "put" /\ Put(m).msg = m
  BY DEF Put, Updates, Entries
<1>3. CASE us # <<>> /\ Last(us).op = "put" /\ Last(us).msg.id = Put(m).msg.id
  <2>1. n # 0 /\ Last(us) = us[n]
    BY <1>1, <1>3, EmptySeq DEF Last
  <2>2. /\ Front(us) \in Seq(Updates) /\ Len(Front(us)) = n - 1
        /\ \A i \in 1..n - 1 : Front(us)[i] = us[i]
    <3>1. \A i \in 1..n - 1 : us[i] \in Updates
      BY <1>1
    <3>2. Front(us) = SubSeq(us, 1, n - 1)
      BY DEF Front
    <3> DEFINE front == SubSeq(us, 1, n - 1)
    <3>3. /\ front \in Seq(Updates) /\ Len(front) = IF 1 <= n - 1 THEN n - 1 - 1 + 1 ELSE 0
          /\ \A i \in 1..n - 1 - 1 + 1 : front[i] = us[1 + i - 1]
      BY <1>1, <3>1, SubSeqProperties
    <3> HIDE DEF front
    <3>4. \A i \in 1..n - 1 : front[i] = us[i]
      BY <1>1, <3>3
    <3> HIDE DEF n
    <3>5. Len(front) = n - 1
      BY <1>1, <2>1, <3>3
    <3>6. QED BY <3>2, <3>3, <3>4, <3>5 DEF front
  <2>3. all = Append(Front(us), Put(m))
    BY <1>3, <1>2 DEF Enqueue
  <2> DEFINE front == Front(us)
  <2> HIDE DEF front
  <2>4. front \in Seq(Updates) /\ Len(front) = n - 1 /\ \A i \in 1..n - 1 : front[i] = us[i]
    BY <2>2 DEF front
  <2>5. /\ all \in Seq(Updates) /\ Len(all) = Len(front) + 1
        /\ \A i \in 1..Len(front) : all[i] = front[i]
        /\ all[Len(front) + 1] = Put(m)
    BY <1>2, <2>3, <2>4, AppendProperties DEF front
  <2>6. Len(all) = n /\ all[n] = Put(m) /\ \A i \in 1..n - 1 : all[i] = us[i]
    BY <1>1, <2>1, <2>4, <2>5
  <2>7. \A j \in 1..n : j < n => j \in 1..n - 1
    BY <1>1
  <2>8. QED BY <1>1, <1>2, <1>3, <2>1, <2>5, <2>6, <2>7
<1>4. CASE ~(us # <<>> /\ Last(us).op = "put" /\ Last(us).msg.id = Put(m).msg.id)
  <2>1. all = Append(us, Put(m))
    BY <1>2, <1>4 DEF Enqueue
  <2>2. /\ all \in Seq(Updates) /\ Len(all) = n + 1
        /\ \A i \in 1..n : all[i] = us[i]
        /\ all[n + 1] = Put(m)
    BY <1>2, <2>1, AppendProperties
  <2>3. QED BY <1>1, <1>2, <2>2
<1>5. QED BY <1>3, <1>4

-----------------------------------------------------------------------------
(* The list the person sees.                                                *)

\* The messages of a list are in the order of their ids, each once.
InOrder(list) ==
  \A i, j \in 1..Len(list) :
    i < j /\ list[i].id # 0 /\ list[j].id # 0 => list[i].id < list[j].id

\* Of a list that is in order, one longer by a message that comes last, is in order.
LEMMA GrowsInOrder ==
  ASSUME NEW S, S \subseteq Entries, NEW s \in Seq(S), NEW m \in S, InOrder(s),
         m.id = 0 \/ \A i \in 1..Len(s) : s[i].id < m.id
  PROVE  InOrder(Append(s, m))
<1> DEFINE n == Len(s)  t == Append(s, m)
<1>1. n \in Nat /\ Len(t) = n + 1 /\ t[n + 1] = m /\ \A i \in 1..n : t[i] = s[i]
  BY LenProperties, AppendProperties
<1>2. m.id \in Nat /\ \A i \in 1..n : s[i].id \in Nat
  <2>1. \A i \in 1..n : s[i] \in S
    BY LenProperties
  <2>2. QED BY <2>1, MessageFacts
<1> HIDE DEF t
<1>3. ASSUME NEW i \in 1..n + 1, NEW j \in 1..n + 1, i < j, t[i].id # 0, t[j].id # 0
      PROVE  t[i].id < t[j].id
  <2>1. CASE j = n + 1
    <3>1. i \in 1..n
      BY <1>1, <1>3, <2>1
    <3>2. QED BY <1>1, <1>3, <2>1, <3>1
  <2>2. CASE j # n + 1
    <3>1. i \in 1..n /\ j \in 1..n
      BY <1>1, <1>3, <2>2
    <3>2. QED BY <1>1, <1>3, <3>1 DEF InOrder
  <2>3. QED BY <2>1, <2>2
<1>4. QED BY <1>1, <1>3 DEF InOrder, t

\* What is shown are the messages of the list, in their order.
LEMMA ShownIs ==
  ASSUME view \in Seq(Entries)
  PROVE  /\ Shown \in Seq(StreamMessages)
         /\ \A i \in 1..Len(Shown) : \E j \in 1..Len(view) : view[j] = Shown[i]
         /\ \A j \in 1..Len(view) : view[j] # NoMessage =>
              \E i \in 1..Len(Shown) : Shown[i] = view[j]
         /\ InOrder(view) => InOrder(Shown)
<1> DEFINE N == Len(view)
           From(s, n) == \A i \in 1..Len(s) : \E j \in 1..n : view[j] = s[i]
           To(s, n) == \A j \in 1..n : view[j] # NoMessage => \E i \in 1..Len(s) : s[i] = view[j]
<1>1. N \in Nat /\ \A k \in 1..N : view[k] \in Entries
  BY LenProperties
<1>2. PICK list \in [0..N -> Seq(StreamMessages)] :
        /\ list[0] = <<>> /\ Shown = list[N]
        /\ \A k \in 1..N :
             list[k] = IF view[k] = NoMessage THEN list[k - 1] ELSE Append(list[k - 1], view[k])
  BY ShownSteps
<1> DEFINE G == {n \in 0..N : /\ From(list[n], n) /\ To(list[n], n)
                              /\ InOrder(view) => InOrder(list[n])}
<1>3. 0 \in G
  <2>1. Len(list[0]) = 0 /\ 0 \in 0..N
    BY <1>1, <1>2, EmptySeq
  <2>2. From(list[0], 0) /\ To(list[0], 0) /\ InOrder(list[0])
    BY <2>1 DEF InOrder
  <2> HIDE DEF From, To
  <2>3. QED BY <2>1, <2>2
<1>4. ASSUME NEW n \in 0..N, n < N, n \in G PROVE n + 1 \in G
  <2> DEFINE s == list[n]  t == list[n + 1]  m == view[n + 1]
  <2>1. n + 1 \in 1..N /\ n + 1 \in 0..N /\ (n + 1) - 1 = n /\ n \in Nat
    BY <1>1, <1>4
  <2>2. s \in Seq(StreamMessages) /\ Len(s) \in Nat
    BY LenProperties
  <2>3. t = IF m = NoMessage THEN s ELSE Append(s, m)
    BY <1>2, <2>1
  <2>4. From(s, n) /\ To(s, n) /\ (InOrder(view) => InOrder(s))
    BY <1>4
  <2> HIDE DEF s, t, m
  <2>5. CASE m = NoMessage
    <3>1. t = s
      BY <2>3, <2>5
    <3>2. From(t, n + 1)
      BY <2>1, <2>4, <3>1
    <3>3. To(t, n + 1)
      <4>1. \A j \in 1..n + 1 : j \in 1..n \/ j = n + 1
        BY <2>1
      <4>2. QED BY <2>4, <2>5, <3>1, <4>1 DEF m
    <3> HIDE DEF From, To
    <3>4. QED BY <2>1, <2>4, <3>1, <3>2, <3>3 DEF t
  <2>6. CASE m # NoMessage
    <3>1. m \in StreamMessages /\ t = Append(s, m)
      BY <1>1, <2>1, <2>3, <2>6 DEF m, Entries
    <3>2. Len(t) = Len(s) + 1 /\ t[Len(s) + 1] = m /\ \A i \in 1..Len(s) : t[i] = s[i]
      BY <2>2, <3>1, AppendProperties
    <3>3. From(t, n + 1)
      <4>1. ASSUME NEW i \in 1..Len(t) PROVE \E j \in 1..n + 1 : view[j] = t[i]
        <5>1. CASE i = Len(s) + 1
          <6>1. view[n + 1] = t[i] /\ n + 1 \in 1..n + 1
            BY <2>1, <3>2, <5>1 DEF m
          <6>2. QED BY <6>1
        <5>2. CASE i # Len(s) + 1
          <6>1. i \in 1..Len(s)
            BY <2>2, <3>2, <5>2
          <6>2. QED BY <2>1, <2>4, <3>2, <6>1
        <5>3. QED BY <5>1, <5>2
      <4>2. QED BY <4>1
    <3>4. To(t, n + 1)
      <4>1. ASSUME NEW j \in 1..n + 1, view[j] # NoMessage
            PROVE  \E i \in 1..Len(t) : t[i] = view[j]
        <5>1. CASE j = n + 1
          <6>1. t[Len(s) + 1] = view[j] /\ Len(s) + 1 \in 1..Len(t)
            BY <2>2, <3>2, <5>1 DEF m
          <6>2. QED BY <6>1
        <5>2. CASE j # n + 1
          <6>1. j \in 1..n
            BY <2>1, <5>2
          <6>2. PICK i \in 1..Len(s) : s[i] = view[j]
            BY <2>4, <4>1, <6>1
          <6>3. i \in 1..Len(t) /\ t[i] = view[j]
            BY <2>2, <3>2, <6>2
          <6>4. QED BY <6>3
        <5>3. QED BY <5>1, <5>2
      <4>2. QED BY <4>1
    <3>5. ASSUME InOrder(view) PROVE InOrder(t)
      <4>1. \A i \in 1..Len(s) : s[i].id < m.id
        <5>1. ASSUME NEW i \in 1..Len(s) PROVE s[i].id < m.id
          <6>1. PICK j \in 1..n : view[j] = s[i]
            BY <2>4
          <6>2. s[i] \in StreamMessages
            BY <2>2, ElementOfSeq
          <6>3. s[i].id # 0 /\ m.id # 0
            BY <3>1, <6>2 DEF StreamMessages
          <6>4. j \in 1..N /\ n + 1 \in 1..N /\ j < n + 1
            BY <1>1, <2>1, <6>1
          <6>5. QED BY <3>5, <6>1, <6>3, <6>4 DEF InOrder, m
        <5>2. QED BY <5>1
      <4>2. StreamMessages \subseteq Entries
        BY DEF Entries
      <4>3. QED BY <2>2, <2>4, <3>1, <3>5, <4>1, <4>2, GrowsInOrder
    <3> HIDE DEF From, To
    <3>6. QED BY <2>1, <3>3, <3>4, <3>5 DEF t
  <2>7. QED BY <2>5, <2>6
<1>5. N \in G
  <2>1. N \in 0..N
    BY <1>1
  <2> HIDE DEF G
  <2>2. QED BY <1>1, <1>3, <1>4, <2>1, UpTo
<1>6. Shown \in Seq(StreamMessages)
  BY <1>1, <1>2
<1>7. QED BY <1>2, <1>5, <1>6

\* A list in order that has every message of the story, and no others, is the story.
LEMMA OrderedIsStory ==
  ASSUME NEW s \in Seq(StreamMessages), NEW t \in Seq(StreamMessages), InOrder(s),
         \A k \in 1..Len(t) : t[k].id = k,
         \A i \in 1..Len(s) : s[i].id <= Len(t),
         \A k \in 1..Len(t) : \E i \in 1..Len(s) : s[i] = t[k]
  PROVE  s = t
<1>1. /\ Len(s) \in Nat /\ Len(t) \in Nat
      /\ \A i \in 1..Len(s) : s[i].id \in Nat /\ s[i].id # 0
  <2>1. \A i \in 1..Len(s) : s[i] \in StreamMessages
    BY ElementOfSeq
  <2>2. QED BY <2>1, LenProperties DEF StreamMessages
<1> DEFINE G == {n \in 0..Len(s) : \A i \in 1..n : s[i].id = i /\ i <= Len(t)}
<1>2. 0 \in G
  BY <1>1
<1>3. ASSUME NEW n \in 0..Len(s), n < Len(s), n \in G PROVE n + 1 \in G
  <2>1. n + 1 \in 1..Len(s) /\ n \in Nat
    BY <1>1, <1>3
  <2>2. s[n + 1].id > n
    <3>1. CASE n = 0
      BY <1>1, <2>1, <3>1
    <3>2. CASE n # 0
      <4>1. n \in 1..n /\ n \in 1..Len(s) /\ n < n + 1
        BY <1>1, <2>1, <3>2
      <4>2. s[n].id = n
        BY <1>3, <4>1
      <4>3. QED BY <1>1, <2>1, <4>1, <4>2 DEF InOrder
    <3>3. QED BY <3>1, <3>2
  <2>3. n + 1 <= Len(t)
    BY <1>1, <2>1, <2>2
  <2>4. PICK p \in 1..Len(s) : s[p].id = n + 1
    <3>1. n + 1 \in 1..Len(t)
      BY <1>1, <2>1, <2>3
    <3>2. QED BY <3>1
  <2>5. s[n + 1].id = n + 1
    <3>1. ASSUME s[n + 1].id # n + 1 PROVE FALSE
      <4>1. s[n + 1].id > n + 1
        BY <1>1, <2>1, <2>2, <3>1
      <4>2. CASE p < n + 1
        <5>1. p \in 1..n
          BY <2>1, <4>2
        <5>2. s[p].id = p
          BY <1>3, <5>1
        <5>3. QED BY <2>1, <2>4, <4>2, <5>2
      <4>3. CASE p = n + 1
        BY <2>4, <3>1, <4>3
      <4>4. CASE p > n + 1
        <5>1. s[n + 1].id < s[p].id
          BY <1>1, <2>1, <4>4 DEF InOrder
        <5>2. QED BY <1>1, <2>1, <2>4, <4>1, <5>1
      <4>5. QED BY <2>1, <4>2, <4>3, <4>4
    <3>2. QED BY <3>1
  <2>6. \A i \in 1..n + 1 : i \in 1..n \/ i = n + 1
    BY <2>1
  <2>7. QED BY <1>1, <1>3, <2>1, <2>3, <2>5, <2>6
<1>4. \A i \in 1..Len(s) : s[i].id = i /\ i <= Len(t)
  <2>1. Len(s) \in 0..Len(s)
    BY <1>1
  <2> HIDE DEF G
  <2>2. Len(s) \in G
    BY <1>1, <1>2, <1>3, <2>1, UpTo
  <2>3. QED BY <2>2 DEF G
<1>5. \A k \in 1..Len(t) : k \in 1..Len(s) /\ s[k] = t[k]
  <2>1. ASSUME NEW k \in 1..Len(t) PROVE k \in 1..Len(s) /\ s[k] = t[k]
    <3>1. PICK i \in 1..Len(s) : s[i] = t[k]
      OBVIOUS
    <3>2. i = k
      BY <1>4, <3>1
    <3>3. QED BY <3>1, <3>2
  <2>2. QED BY <2>1
<1>6. Len(s) = Len(t)
  <2>1. Len(s) <= Len(t)
    <3>1. CASE Len(s) = 0
      BY <1>1, <3>1
    <3>2. CASE Len(s) # 0
      <4>1. Len(s) \in 1..Len(s)
        BY <1>1, <3>2
      <4>2. QED BY <1>4, <4>1
    <3>3. QED BY <3>1, <3>2
  <2>2. Len(t) <= Len(s)
    <3>1. CASE Len(t) = 0
      BY <1>1, <3>1
    <3>2. CASE Len(t) # 0
      <4>1. Len(t) \in 1..Len(t)
        BY <1>1, <3>2
      <4>2. Len(t) \in 1..Len(s)
        BY <1>5, <4>1
      <4>3. QED BY <1>1, <4>2
    <3>3. QED BY <3>1, <3>2
  <2>3. QED BY <1>1, <2>1, <2>2
<1>7. \A i \in 1..Len(s) : s[i] = t[i]
  BY <1>5, <1>6
<1>8. QED BY <1>6, <1>7, SeqEqual

-----------------------------------------------------------------------------
(* What the page has of the story, rendered and still to be rendered.       *)

MessageTypes == updates \in Seq(Updates) /\ view \in Seq(Entries)

\* A message has its place in the story as its id; nothing else is about.
Numbers ==
  /\ Len(story) = begun /\ \A k \in 1..begun : story[k].id = k
  /\ current # NoMessage => current.id \in 1..begun /\ story[current.id] = current
  /\ \A j \in 1..Len(updates) :
       updates[j].op # "pushCurrent" => updates[j].msg.id \in 1..begun
  /\ \A i \in 1..Len(view) : view[i].id <= begun

\* Each message, as it is now, is in the list, or an updater is to bring it there;
\* and none behind puts an older one in its place.
PutOf(u, k) == u.op = "put" /\ u.msg.id = k
Brings(u, m) == u.op # "pushCurrent" /\ u.msg = m
Carries(us, m) ==
  \E j \in 0..Len(us) :
    /\ IF j = 0 THEN \E i \in 1..Len(view) : view[i] = m ELSE Brings(us[j], m)
    /\ \A i \in j + 1..Len(us) : ~PutOf(us[i], m.id)
Carried == \A k \in 1..Len(story) : Carries(updates, story[k])

\* The id an updater works on when it runs, and that an id x comes before it.
WorksOn(u, cur) == IF u.op = "pushCurrent" THEN cur.id ELSE u.msg.id
Follows(x, u, cur) ==
  x # 0 /\ WorksOn(u, cur) # 0 =>
    IF u.op = "put" THEN x <= WorksOn(u, cur) ELSE x < WorksOn(u, cur)

\* An updater that reads assistantMsg is the beginning of one message only, and its
\* first put stands behind it.
Pending ==
  \A j \in 1..Len(updates) : updates[j].op = "pushCurrent" =>
    /\ "begunInBatch" \in excuses
    /\ j < Len(updates) /\ updates[j + 1].op = "put"
    /\ current # NoMessage => current.id = updates[j + 1].msg.id

\* The list and the updaters are in the order of the story.
Followed(us, cur) ==
  /\ \A i \in 1..Len(view), j \in 1..Len(us) : Follows(view[i].id, us[j], cur)
  /\ \A i, j \in 1..Len(us) : i < j => Follows(WorksOn(us[i], cur), us[j], cur)
Ordered == InOrder(view) /\ Pending /\ Followed(updates, current)

MessagesInv == MessageTypes /\ Numbers /\ Carried /\ ("crowded" \notin excuses => Ordered)

\* What one updater makes of a list.
LEMMA AppliedIs ==
  ASSUME NEW list \in Seq(Entries), NEW u \in Updates, current \in Entries,
         NEW t, t = Apply(list, u)
  PROVE  /\ \A i \in 1..Len(t) : \/ \E j \in 1..Len(list) : t[i].id = list[j].id
                                 \/ t[i].id = WorksOn(u, current)
         /\ u.op # "pushCurrent" => \E i \in 1..Len(t) : t[i] = u.msg
         /\ \A i \in 1..Len(list) : ~PutOf(u, list[i].id) => i \in 1..Len(t) /\ t[i] = list[i]
         /\ InOrder(list) /\ (\A i \in 1..Len(list) : Follows(list[i].id, u, current)) => InOrder(t)
<1> DEFINE n == Len(list)
<1>1. n \in Nat /\ \A i \in 1..n : list[i] \in Entries /\ list[i].id \in Nat
  BY LenProperties, MessageFacts
<1>2. u.op \in {"push", "pushCurrent", "put"} /\ u.msg \in Entries
      /\ (u.op # "pushCurrent" => u.msg \in StreamMessages)
  BY DEF Updates
<1>3. ASSUME NEW m \in Entries, t = Append(list, m), m.id = WorksOn(u, current),
             u.op # "pushCurrent" => m = u.msg,
             \A i \in 1..n : u.op = "put" => list[i].id # m.id
      PROVE  /\ \A i \in 1..Len(t) : \/ \E j \in 1..Len(list) : t[i].id = list[j].id
                                     \/ t[i].id = WorksOn(u, current)
             /\ u.op # "pushCurrent" => \E i \in 1..Len(t) : t[i] = u.msg
             /\ \A i \in 1..Len(list) : ~PutOf(u, list[i].id) => i \in 1..Len(t) /\ t[i] = list[i]
             /\ InOrder(list) /\ (\A i \in 1..Len(list) : Follows(list[i].id, u, current))
                  => InOrder(t)
  <2>1. Len(t) = n + 1 /\ t[n + 1] = m /\ \A i \in 1..n : t[i] = list[i]
    BY <1>3, AppendProperties
  <2>2. \A i \in 1..Len(t) : i \in 1..n \/ i = n + 1
    BY <1>1, <2>1
  <2>3. n + 1 \in 1..Len(t) /\ \A i \in 1..n : i \in 1..Len(t)
    BY <1>1, <2>1
  <2>4. ASSUME InOrder(list), \A i \in 1..n : Follows(list[i].id, u, current)
        PROVE  InOrder(t)
    <3>1. m.id \in Nat
      BY MessageFacts
    <3>2. m.id = 0 \/ \A i \in 1..n : list[i].id < m.id
      BY <1>1, <1>3, <2>4, <3>1 DEF Follows
    <3>3. QED BY <1>3, <2>4, <3>2, GrowsInOrder
  <2>5. QED BY <1>3, <2>1, <2>2, <2>3, <2>4
<1>4. CASE u.op = "put"
  <2>1. t = Merge(list, u.msg) /\ u.msg \in StreamMessages
    BY <1>4, Applied
  <2>2. /\ \E p \in 1..Len(t) : t[p] = u.msg
        /\ \A i \in 1..n : list[i].id # u.msg.id => i \in 1..Len(t) /\ t[i] = list[i]
        /\ \/ Len(t) = n /\ \A i \in 1..n : t[i].id = list[i].id
           \/ t = Append(list, u.msg) /\ \A i \in 1..n : list[i].id # u.msg.id
    <3> DEFINE m == u.msg
    <3>1. m \in StreamMessages /\ t = Merge(list, m)
      BY <2>1
    <3> HIDE DEF m
    <3>2. /\ \E p \in 1..Len(Merge(list, m)) : Merge(list, m)[p] = m
          /\ \A i \in 1..Len(list) : list[i].id # m.id =>
               i \in 1..Len(Merge(list, m)) /\ Merge(list, m)[i] = list[i]
          /\ \/ /\ Len(Merge(list, m)) = Len(list)
                /\ \A i \in 1..Len(list) : Merge(list, m)[i].id = list[i].id
             \/ /\ Merge(list, m) = Append(list, m)
                /\ \A i \in 1..Len(list) : list[i].id # m.id
      BY <3>1, Merged
    <3>3. QED BY <3>1, <3>2 DEF m
  <2>3. CASE t = Append(list, u.msg) /\ \A i \in 1..n : list[i].id # u.msg.id
    <3>1. u.msg.id = WorksOn(u, current)
      BY <1>4 DEF WorksOn
    <3>2. QED BY <1>2, <1>3, <2>3, <3>1
  <2>4. CASE Len(t) = n /\ \A i \in 1..n : t[i].id = list[i].id
    <3>1. InOrder(list) => InOrder(t)
      BY <2>4 DEF InOrder
    <3>2. QED BY <1>4, <2>2, <2>4, <3>1 DEF PutOf
  <2>5. QED BY <2>2, <2>3, <2>4
<1>5. CASE u.op = "push"
  <2>1. t = Append(list, u.msg) /\ u.msg.id = WorksOn(u, current)
    BY <1>5, Applied DEF WorksOn
  <2>2. QED BY <1>2, <1>3, <1>5, <2>1
<1>6. CASE u.op = "pushCurrent"
  <2>1. t = Append(list, current) /\ current.id = WorksOn(u, current)
    BY <1>6, Applied DEF WorksOn
  <2>2. QED BY <1>3, <1>6, <2>1
<1>7. QED BY <1>2, <1>4, <1>5, <1>6

\* After a render each message of the story is in the list.
LEMMA RenderedAll ==
  ASSUME MessagesInv, current \in Entries, NEW N, N = Len(updates),
         NEW list \in [0..N -> Seq(Entries)], list[0] = view,
         \A n \in 1..N : list[n] = Apply(list[n - 1], updates[n]),
         NEW k \in 1..Len(story)
  PROVE  \E i \in 1..Len(list[N]) : list[N][i] = story[k]
<1>1. N \in Nat /\ updates \in Seq(Updates) /\ \A n \in 1..N : updates[n] \in Updates
  BY LenProperties DEF MessagesInv, MessageTypes
<1>2. story[k].id = k
  BY DEF MessagesInv, Numbers
<1>3. PICK j \in 0..N :
        /\ IF j = 0 THEN \E i \in 1..Len(view) : view[i] = story[k] ELSE Brings(updates[j], story[k])
        /\ \A i \in j + 1..N : ~PutOf(updates[i], k)
  BY <1>2 DEF MessagesInv, Carried, Carries
<1> DEFINE Has(n) == \E i \in 1..Len(list[n]) : list[n][i] = story[k]
           G == {n \in 0..N : j <= n => Has(n)}
<1>4. 0 \in G
  <2>1. ASSUME j <= 0 PROVE Has(0)
    <3>1. j = 0
      BY <1>1, <2>1
    <3>2. \E i \in 1..Len(view) : view[i] = story[k]
      BY <1>3, <3>1
    <3>3. QED BY <3>2
  <2> HIDE DEF Has
  <2>2. QED BY <1>1, <2>1
<1>5. ASSUME NEW n \in 0..N, n < N, n \in G PROVE n + 1 \in G
  <2>1. n + 1 \in 1..N /\ n + 1 \in 0..N /\ (n + 1) - 1 = n
    BY <1>1, <1>5
  <2>2. list[n] \in Seq(Entries) /\ updates[n + 1] \in Updates
        /\ list[n + 1] = Apply(list[n], updates[n + 1])
    BY <1>1, <2>1
  <2>3. /\ updates[n + 1].op # "pushCurrent" =>
             \E i \in 1..Len(list[n + 1]) : list[n + 1][i] = updates[n + 1].msg
        /\ \A i \in 1..Len(list[n]) : ~PutOf(updates[n + 1], list[n][i].id) =>
             i \in 1..Len(list[n + 1]) /\ list[n + 1][i] = list[n][i]
    <3> DEFINE s == list[n]  t == list[n + 1]  u == updates[n + 1]
    <3>1. s \in Seq(Entries) /\ u \in Updates /\ t = Apply(s, u)
      BY <2>2
    <3> HIDE DEF s, t, u
    <3>2. /\ u.op # "pushCurrent" => \E i \in 1..Len(t) : t[i] = u.msg
          /\ \A i \in 1..Len(s) : ~PutOf(u, s[i].id) => i \in 1..Len(t) /\ t[i] = s[i]
      BY <3>1, AppliedIs
    <3>3. QED BY <3>2 DEF s, t, u
  <2>4. CASE j = n + 1
    <3>1. Brings(updates[n + 1], story[k])
      BY <1>3, <1>5, <2>1, <2>4
    <3>2. Has(n + 1)
      BY <2>3, <3>1 DEF Brings
    <3> HIDE DEF Has
    <3>3. QED BY <2>1, <3>2
  <2>5. CASE j <= n
    <3>1. PICK i \in 1..Len(list[n]) : list[n][i] = story[k]
      BY <1>5, <2>5
    <3>2. ~PutOf(updates[n + 1], k)
      BY <1>1, <1>3, <2>1, <2>5
    <3>3. i \in 1..Len(list[n + 1]) /\ list[n + 1][i] = story[k]
      BY <1>2, <2>3, <3>1, <3>2
    <3>4. Has(n + 1)
      BY <3>3
    <3> HIDE DEF Has
    <3>5. QED BY <2>1, <3>4
  <2>6. CASE j > n + 1
    BY <2>1, <2>6
  <2>7. QED BY <1>1, <1>3, <2>1, <2>4, <2>5, <2>6
<1>6. N \in G
  <2>1. N \in 0..N
    BY <1>1
  <2> HIDE DEF G
  <2>2. QED BY <1>1, <1>4, <1>5, <2>1, UpTo
<1>7. QED BY <1>1, <1>3, <1>6

\* After a render the list is of the story's messages, and in order if the updaters were.
LEMMA RenderedOrder ==
  ASSUME MessagesInv, current \in Entries, NEW N, N = Len(updates),
         NEW list \in [0..N -> Seq(Entries)], list[0] = view,
         \A n \in 1..N : list[n] = Apply(list[n - 1], updates[n])
  PROVE  /\ begun \in Nat => \A i \in 1..Len(list[N]) : list[N][i].id <= begun
         /\ Ordered => InOrder(list[N])
<1>1. N \in Nat /\ updates \in Seq(Updates) /\ \A n \in 1..N : updates[n] \in Updates
  BY LenProperties DEF MessagesInv, MessageTypes
<1> DEFINE Low(n) == begun \in Nat => \A i \in 1..Len(list[n]) : list[n][i].id <= begun
           Right(n) == /\ InOrder(list[n])
                       /\ \A i \in 1..Len(list[n]), j \in n + 1..N :
                            Follows(list[n][i].id, updates[j], current)
           G == {n \in 0..N : Low(n) /\ (Ordered => Right(n))}
<1>2. 0 \in G
  <2>1. Low(0)
    BY DEF MessagesInv, Numbers
  <2>2. Ordered => Right(0)
    BY <1>1 DEF Ordered, Followed
  <2> HIDE DEF Low, Right
  <2>3. QED BY <1>1, <2>1, <2>2
<1>3. ASSUME NEW n \in 0..N, n < N, n \in G PROVE n + 1 \in G
  <2> DEFINE s == list[n]  t == list[n + 1]  u == updates[n + 1]
  <2>1. n + 1 \in 1..N /\ n + 1 \in 0..N /\ (n + 1) - 1 = n /\ n \in Nat
    BY <1>1, <1>3
  <2>2. s \in Seq(Entries) /\ u \in Updates /\ t = Apply(s, u)
    BY <1>1, <2>1
  <2>3. Low(n) /\ (Ordered => Right(n))
    BY <1>3
  <2> HIDE DEF s, t, u
  <2>4. /\ \A i \in 1..Len(t) : \/ \E j \in 1..Len(s) : t[i].id = s[j].id
                                \/ t[i].id = WorksOn(u, current)
        /\ InOrder(s) /\ (\A i \in 1..Len(s) : Follows(s[i].id, u, current)) => InOrder(t)
    BY <2>2, AppliedIs
  <2>5. Low(n + 1)
    <3>1. ASSUME begun \in Nat PROVE \A i \in 1..Len(t) : t[i].id <= begun
      <4>1. \A i \in 1..Len(s) : s[i].id <= begun
        BY <2>3, <3>1 DEF s
      <4>2. u.op = "pushCurrent" => WorksOn(u, current) = current.id
        BY DEF WorksOn
      <4>3. u.op # "pushCurrent" => WorksOn(u, current) <= begun
        BY <2>1, <3>1 DEF MessagesInv, Numbers, WorksOn, u
      <4>4. current.id <= begun
        BY <3>1, MessageFacts DEF MessagesInv, Numbers
      <4>5. QED BY <2>4, <4>1, <4>2, <4>3, <4>4
    <3>2. QED BY <3>1 DEF t
  <2>6. ASSUME Ordered PROVE Right(n + 1)
    <3>1. /\ InOrder(s)
          /\ \A i \in 1..Len(s), j \in n + 1..N : Follows(s[i].id, updates[j], current)
      BY <2>3, <2>6 DEF s
    <3>2. \A i \in 1..Len(s) : Follows(s[i].id, u, current)
      BY <2>1, <3>1 DEF u
    <3>3. InOrder(t)
      BY <2>4, <3>1, <3>2
    <3>4. ASSUME NEW i \in 1..Len(t), NEW j \in n + 2..N
          PROVE  Follows(t[i].id, updates[j], current)
      <4>1. j \in n + 1..N /\ j \in 1..N /\ n + 1 < j
        BY <1>1, <2>1
      <4>2. Follows(WorksOn(u, current), updates[j], current)
        BY <2>1, <2>6, <4>1 DEF Ordered, Followed, u
      <4>3. \A l \in 1..Len(s) : Follows(s[l].id, updates[j], current)
        BY <3>1, <4>1
      <4>4. QED BY <2>4, <4>2, <4>3
    <3>5. (n + 1) + 1 = n + 2
      BY <2>1
    <3>6. QED BY <3>3, <3>4, <3>5 DEF t
  <2> HIDE DEF Low, Right
  <2>7. QED BY <2>1, <2>5, <2>6
<1>4. N \in G
  <2>1. N \in 0..N
    BY <1>1
  <2> HIDE DEF G
  <2>2. QED BY <1>1, <1>2, <1>3, <2>1, UpTo
<1>5. QED BY <1>4

LEMMA RenderMessages ==
  ASSUME StreamInv, MessagesInv, Render
  PROVE  MessagesInv'
<1>1. /\ view \in Seq(Entries) /\ updates \in Seq(Updates) /\ current \in Entries
      /\ story \in Seq(StreamMessages) /\ begun \in Nat
  BY DEF MessagesInv, MessageTypes, StreamInv, StreamTypes, Entries
<1>2. /\ updates' = <<>> /\ story' = story /\ current' = current /\ begun' = begun
      /\ excuses' \subseteq excuses /\ ("crowded" \in excuses => "crowded" \in excuses')
  BY DEF Render, agentVars
<1> DEFINE N == Len(updates)
<1>3. PICK list \in [0..N -> Seq(Entries)] :
        /\ list[0] = view /\ view' = list[N]
        /\ \A k \in 1..N : list[k] = Apply(list[k - 1], updates[k])
  BY <1>1, Rendered
<1>4. N \in Nat /\ view' \in Seq(Entries)
  BY <1>1, <1>3, LenProperties
<1>5. Len(updates') = 0
  BY <1>2, EmptySeq
<1>6. MessageTypes'
  BY <1>2, <1>4, EmptySeq DEF MessageTypes
<1>7. /\ \A k \in 1..Len(story) : \E i \in 1..Len(view') : view'[i] = story[k]
      /\ \A i \in 1..Len(view') : view'[i].id <= begun
      /\ Ordered => InOrder(view')
  BY <1>1, <1>3, RenderedAll, RenderedOrder
<1>8. Numbers'
  BY <1>2, <1>5, <1>7 DEF MessagesInv, Numbers
<1>9. Carried'
  <2>1. 0 \in 0..Len(updates') /\ \A i : i \notin 0 + 1..Len(updates')
    BY <1>5
  <2>2. QED BY <1>2, <1>7, <2>1 DEF Carried, Carries
<1>10. ASSUME "crowded" \notin excuses' PROVE Ordered'
  <2>1. Ordered
    BY <1>2, <1>10 DEF MessagesInv
  <2>2. InOrder(view')
    BY <1>7, <2>1
  <2>3. Pending' /\ Followed(updates, current)'
    BY <1>5 DEF Pending, Followed
  <2>4. QED BY <2>2, <2>3 DEF Ordered, InOrder
<1>11. QED BY <1>6, <1>8, <1>9, <1>10 DEF MessagesInv

-----------------------------------------------------------------------------
(* The updaters that an event adds.                                         *)

\* An updater at the end that works on the latest message keeps the order.
LEMMA OrderGrows ==
  ASSUME NEW us \in Seq(Updates), NEW t \in Seq(Updates), NEW cur \in Entries, NEW b \in Nat,
         Followed(us, cur), Len(t) \in {Len(us), Len(us) + 1},
         \A j \in 1..Len(us) : t[j].op = us[j].op /\ WorksOn(t[j], cur) = WorksOn(us[j], cur),
         \A j \in 1..Len(us) : WorksOn(us[j], cur) <= b,
         \A i \in 1..Len(view) : view[i].id \in Nat /\ view[i].id <= b,
         Len(t) = Len(us) + 1 =>
           \/ WorksOn(t[Len(t)], cur) > b
           \/ t[Len(t)].op = "put" /\ WorksOn(t[Len(t)], cur) >= b
  PROVE  Followed(t, cur)
<1> DEFINE n == Len(us)
<1>1. n \in Nat /\ Len(t) \in {n, n + 1} /\ \A j \in 1..n : us[j] \in Updates
  BY LenProperties
<1>2. \A u \in Updates : WorksOn(u, cur) \in Nat
  BY MessageFacts DEF WorksOn, Updates
<1>3. \A x, u, v : Follows(x, u, cur) /\ v.op = u.op /\ WorksOn(v, cur) = WorksOn(u, cur)
                     => Follows(x, v, cur)
  BY DEF Follows
<1>4. ASSUME NEW x \in Nat, x <= b, Len(t) = n + 1 PROVE Follows(x, t[n + 1], cur)
  <2>1. t[n + 1] \in Updates
    <3>1. n + 1 \in 1..Len(t)
      BY <1>1, <1>4
    <3>2. QED BY <3>1, ElementOfSeq
  <2>2. WorksOn(t[n + 1], cur) \in Nat
    BY <1>2, <2>1
  <2>3. \/ WorksOn(t[n + 1], cur) > b
        \/ t[n + 1].op = "put" /\ WorksOn(t[n + 1], cur) >= b
    BY <1>4
  <2>4. QED BY <1>4, <2>2, <2>3 DEF Follows
<1>5. \A j \in 1..Len(t) : j \in 1..n \/ (j = n + 1 /\ Len(t) = n + 1)
  BY <1>1
<1>6. ASSUME NEW i \in 1..Len(view), NEW j \in 1..Len(t) PROVE Follows(view[i].id, t[j], cur)
  <2>1. CASE j \in 1..n
    <3>1. Follows(view[i].id, us[j], cur)
      BY <2>1 DEF Followed
    <3>2. QED BY <1>3, <2>1, <3>1
  <2>2. CASE j = n + 1 /\ Len(t) = n + 1
    BY <1>4, <2>2
  <2>3. QED BY <1>5, <2>1, <2>2
<1>7. ASSUME NEW i \in 1..Len(t), NEW j \in 1..Len(t), i < j
      PROVE  Follows(WorksOn(t[i], cur), t[j], cur)
  <2>1. i \in 1..n
    BY <1>1, <1>7
  <2>2. WorksOn(t[i], cur) = WorksOn(us[i], cur) /\ WorksOn(us[i], cur) \in Nat
        /\ WorksOn(us[i], cur) <= b
    BY <1>1, <1>2, <2>1
  <2>3. CASE j \in 1..n
    <3>1. Follows(WorksOn(us[i], cur), us[j], cur)
      BY <1>7, <2>1, <2>3 DEF Followed
    <3>2. QED BY <1>3, <2>2, <2>3, <3>1
  <2>4. CASE j = n + 1 /\ Len(t) = n + 1
    BY <1>4, <2>2, <2>4
  <2>5. QED BY <1>5, <2>3, <2>4
<1>8. QED BY <1>6, <1>7 DEF Followed

\* A message stays carried when the updaters that bring it stay, and no put of another
\* value of it comes behind.
LEMMA CarriesOn ==
  ASSUME NEW us \in Seq(Updates), NEW t \in Seq(Updates), NEW m, Carries(us, m),
         Len(t) \in {Len(us), Len(us) + 1},
         \A j \in 1..Len(us) : \/ t[j] = us[j]
                               \/ us[j].msg.id # m.id /\ ~PutOf(t[j], m.id),
         Len(t) = Len(us) + 1 => ~PutOf(t[Len(us) + 1], m.id)
  PROVE  Carries(t, m)
<1> DEFINE n == Len(us)
<1>1. n \in Nat /\ Len(t) \in Nat /\ Len(t) \in {n, n + 1}
  BY LenProperties
<1>2. PICK j \in 0..n :
        /\ IF j = 0 THEN \E i \in 1..Len(view) : view[i] = m ELSE Brings(us[j], m)
        /\ \A i \in j + 1..n : ~PutOf(us[i], m.id)
  BY DEF Carries
<1>3. j \in 0..Len(t) /\ (j # 0 => j \in 1..n)
  BY <1>1
<1>4. IF j = 0 THEN \E i \in 1..Len(view) : view[i] = m ELSE Brings(t[j], m)
  BY <1>2, <1>3 DEF Brings
<1>5. ASSUME NEW i \in j + 1..Len(t) PROVE ~PutOf(t[i], m.id)
  <2>1. CASE i = n + 1 /\ Len(t) = n + 1
    BY <2>1
  <2>2. CASE i \in 1..n
    <3>1. i \in j + 1..n
      BY <1>1, <2>2
    <3>2. ~PutOf(us[i], m.id)
      BY <1>2, <3>1
    <3>3. QED BY <2>2, <3>2
  <2>3. QED BY <1>1, <2>1, <2>2
<1>6. QED BY <1>3, <1>4, <1>5 DEF Carries

LEMMA CarriesLast ==
  ASSUME NEW t \in Seq(Updates), NEW m, Len(t) # 0, Brings(t[Len(t)], m)
  PROVE  Carries(t, m)
<1>1. Len(t) \in 0..Len(t) /\ \A i : i \notin Len(t) + 1..Len(t)
  BY LenProperties
<1>2. QED BY <1>1 DEF Carries

-----------------------------------------------------------------------------
(* What an event does to the messages, in one of four ways.                 *)

\* The first write to a new message, by updaters of the two kinds ensureAssistant has.
Begins(m) ==
  /\ current = NoMessage /\ current' = m
  /\ m.id = begun + 1 /\ begun' = begun + 1
  /\ \E x \in Updates :
       /\ x.op = "pushCurrent" \/ (x.op = "push" /\ x.msg.id = begun + 1)
       /\ updates' = Append(Append(updates, x), Put(m))
  /\ story' = Append(story, m) /\ view' = view
  /\ "crowded" \notin excuses' =>
       {"crowded", "begunInBatch"} \cap excuses = {} /\ "begunInBatch" \in excuses'

\* A write to the message there is.
Rewrites(m) ==
  /\ ~BetweenTurns /\ current # NoMessage /\ current' = m
  /\ m.id = current.id /\ begun' = begun
  /\ updates' = Enqueue(updates, Put(m))
  /\ story' = [story EXCEPT ![Len(story)] = m] /\ view' = view
  /\ excuses \subseteq excuses'

\* A message that is complete: the person's, or a note.
Tells(m) ==
  /\ current' \in {current, NoMessage}
  /\ m.id = begun + 1 /\ begun' = begun + 1
  /\ updates' = Append(updates, Push(m))
  /\ story' = Append(story, m) /\ view' = view
  /\ excuses \subseteq excuses'

\* No message changes; the next write may begin a new one.
Rests ==
  /\ current' \in {current, NoMessage}
  /\ story' = story /\ begun' = begun /\ updates' = updates /\ view' = view
  /\ excuses \subseteq excuses'

\* The facts of a state that all four use.
LEMMA MessagesAre ==
  ASSUME StreamInv, MessagesInv
  PROVE  /\ view \in Seq(Entries) /\ updates \in Seq(Updates) /\ current \in Entries
         /\ story \in Seq(StreamMessages) /\ begun \in Nat /\ Len(story) = begun
         /\ Len(updates) \in Nat
         /\ \A j \in 1..Len(updates) : updates[j] \in Updates
         /\ \A j \in 1..Len(updates) : WorksOn(updates[j], current) <= begun
         /\ \A i \in 1..Len(view) : view[i].id \in Nat /\ view[i].id <= begun
         /\ \A k \in 1..begun : story[k].id = k
<1>1. /\ view \in Seq(Entries) /\ updates \in Seq(Updates) /\ current \in Entries
      /\ story \in Seq(StreamMessages) /\ begun \in Nat /\ Len(story) = begun
      /\ \A k \in 1..begun : story[k].id = k
      /\ \A i \in 1..Len(view) : view[i].id <= begun
      /\ \A j \in 1..Len(updates) :
           updates[j].op # "pushCurrent" => updates[j].msg.id \in 1..begun
      /\ current # NoMessage => current.id \in 1..begun
  BY DEF MessagesInv, MessageTypes, Numbers, StreamInv, StreamTypes, Entries
<1>2. \A i \in 1..Len(view) : view[i].id \in Nat
  <2>1. \A i \in 1..Len(view) : view[i] \in Entries
    BY <1>1, LenProperties
  <2>2. QED BY <2>1, MessageFacts
<1>3. \A j \in 1..Len(updates) : updates[j] \in Updates
  BY <1>1, ElementOfSeq
<1>4. \A j \in 1..Len(updates) : WorksOn(updates[j], current) <= begun
  <2>1. current.id <= begun
    BY <1>1, MessageFacts
  <2>2. ASSUME NEW j \in 1..Len(updates) PROVE WorksOn(updates[j], current) <= begun
    <3>1. CASE updates[j].op = "pushCurrent"
      BY <2>1, <3>1 DEF WorksOn
    <3>2. CASE updates[j].op # "pushCurrent"
      BY <1>1, <3>2 DEF WorksOn
    <3>3. QED BY <3>1, <3>2
  <2>3. QED BY <2>2
<1>5. Len(updates) \in Nat
  BY <1>1, LenProperties
<1>6. QED BY <1>1, <1>2, <1>3, <1>4, <1>5

\* What the updaters work on counts for their order, or is not known yet.
LEMMA SameWork ==
  ASSUME NEW us \in Seq(Updates), NEW c, NEW d, Followed(us, c),
         \A j \in 1..Len(us) : WorksOn(us[j], d) \in {0, WorksOn(us[j], c)}
  PROVE  Followed(us, d)
<1>1. ASSUME NEW i \in 1..Len(view), NEW j \in 1..Len(us) PROVE Follows(view[i].id, us[j], d)
  <2>1. Follows(view[i].id, us[j], c)
    BY DEF Followed
  <2>2. WorksOn(us[j], d) \in {0, WorksOn(us[j], c)}
    OBVIOUS
  <2>3. QED BY <2>1, <2>2 DEF Follows
<1>2. ASSUME NEW i \in 1..Len(us), NEW j \in 1..Len(us), i < j
      PROVE  Follows(WorksOn(us[i], d), us[j], d)
  <2>1. Follows(WorksOn(us[i], c), us[j], c)
    BY <1>2 DEF Followed
  <2>2. WorksOn(us[j], d) \in {0, WorksOn(us[j], c)} /\ WorksOn(us[i], d) \in {0, WorksOn(us[i], c)}
    OBVIOUS
  <2>3. QED BY <2>1, <2>2 DEF Follows
<1>3. QED BY <1>1, <1>2 DEF Followed

LEMMA RestsMessages ==
  ASSUME StreamInv, MessagesInv, Rests
  PROVE  MessagesInv'
<1>1. /\ current' \in {current, NoMessage} /\ story' = story /\ begun' = begun
      /\ updates' = updates /\ view' = view /\ excuses \subseteq excuses'
  BY DEF Rests
<1>2. MessageTypes' /\ Numbers' /\ Carried'
  BY <1>1 DEF MessagesInv, MessageTypes, Numbers, Carried, Carries
<1>3. ASSUME "crowded" \notin excuses' PROVE Ordered'
  <2>1. InOrder(view) /\ Pending /\ Followed(updates, current)
    BY <1>1, <1>3 DEF MessagesInv, Ordered
  <2>2. Pending'
    BY <1>1, <2>1 DEF Pending
  <2>3. Followed(updates, current')
    <3>1. \A j \in 1..Len(updates) :
            WorksOn(updates[j], current') \in {0, WorksOn(updates[j], current)}
      BY <1>1, MessageFacts DEF WorksOn
    <3>2. updates \in Seq(Updates)
      BY MessagesAre
    <3> DEFINE d == current'
    <3> HIDE DEF d
    <3>3. QED BY <2>1, <3>1, <3>2, SameWork DEF d
  <2>4. Followed(updates, current)'
    BY <1>1, <2>3 DEF Followed
  <2>5. QED BY <1>1, <2>1, <2>2, <2>4 DEF Ordered, InOrder
<1>4. QED BY <1>2, <1>3 DEF MessagesInv

\* The story grows by a message whose id is its place.
LEMMA StoryGrows ==
  ASSUME StreamInv, MessagesInv, NEW m \in StreamMessages, m.id = begun + 1,
         story' = Append(story, m)
  PROVE  /\ Len(story') = begun + 1 /\ story'[begun + 1] = m
         /\ \A k \in 1..begun : story'[k] = story[k] /\ k \in 1..begun + 1
         /\ \A k \in 1..begun + 1 : story'[k].id = k /\ (k \in 1..begun \/ k = begun + 1)
<1>1. begun \in Nat /\ Len(story) = begun /\ story \in Seq(StreamMessages)
      /\ \A k \in 1..begun : story[k].id = k
  BY MessagesAre
<1>2. /\ Len(story') = begun + 1 /\ story'[begun + 1] = m
      /\ \A k \in 1..begun : story'[k] = story[k]
  BY <1>1, AppendProperties
<1>3. /\ \A k \in 1..begun : k \in 1..begun + 1
      /\ \A k \in 1..begun + 1 : k \in 1..begun \/ k = begun + 1
  BY <1>1
<1>4. QED BY <1>1, <1>2, <1>3

LEMMA CarriesBehind ==
  ASSUME NEW us \in Seq(Updates), NEW t \in Seq(Updates), NEW m, Carries(us, m),
         Len(t) = Len(us) + 1, \A j \in 1..Len(us) : t[j] = us[j],
         ~PutOf(t[Len(us) + 1], m.id)
  PROVE  Carries(t, m)
BY CarriesOn

LEMMA TellsMessages ==
  ASSUME StreamInv, MessagesInv, NEW m \in StreamMessages, Tells(m)
  PROVE  MessagesInv'
<1> DEFINE n == Len(updates)  t == updates'  d == current'
<1>1. /\ view \in Seq(Entries) /\ updates \in Seq(Updates) /\ current \in Entries
      /\ begun \in Nat /\ n \in Nat
      /\ \A j \in 1..n : updates[j] \in Updates /\ WorksOn(updates[j], current) <= begun
      /\ \A i \in 1..Len(view) : view[i].id \in Nat /\ view[i].id <= begun
      /\ \A k \in 1..begun : story[k].id = k
  BY MessagesAre
<1>2. /\ d \in {current, NoMessage} /\ begun' = begun + 1 /\ m.id = begun + 1
      /\ t = Append(updates, Push(m)) /\ story' = Append(story, m)
      /\ view' = view /\ excuses \subseteq excuses'
  BY DEF Tells
<1>3. Push(m) \in Updates /\ Push(m).op = "push" /\ Push(m).msg = m
  BY DEF Push, Updates, Entries
<1>4. /\ t \in Seq(Updates) /\ Len(t) = n + 1 /\ t[n + 1] = Push(m)
      /\ \A j \in 1..n : t[j] = updates[j]
  BY <1>1, <1>2, <1>3, AppendProperties
<1> HIDE DEF t, d
<1>5. \A j \in 1..n + 1 : j \in 1..n \/ j = n + 1
  BY <1>1
<1>6. /\ Len(story') = begun + 1 /\ story'[begun + 1] = m
      /\ \A k \in 1..begun : story'[k] = story[k] /\ k \in 1..begun + 1
      /\ \A k \in 1..begun + 1 : story'[k].id = k /\ (k \in 1..begun \/ k = begun + 1)
  BY <1>2, StoryGrows
<1>7. MessageTypes'
  BY <1>1, <1>2, <1>4 DEF MessageTypes, t
<1>8. Numbers'
  <2>1. d # NoMessage => d.id \in 1..begun + 1 /\ story'[d.id] = d
    BY <1>2, <1>6 DEF MessagesInv, Numbers
  <2>2. \A j \in 1..n + 1 : t[j].op # "pushCurrent" => t[j].msg.id \in 1..begun + 1
    <3>1. \A j \in 1..n : t[j].op # "pushCurrent" => t[j].msg.id \in 1..begun
      BY <1>4 DEF MessagesInv, Numbers
    <3>2. t[n + 1].msg.id \in 1..begun + 1
      BY <1>1, <1>2, <1>3, <1>4
    <3>3. QED BY <1>5, <1>6, <3>1, <3>2
  <2>3. \A i \in 1..Len(view) : view[i].id <= begun + 1
    BY <1>1
  <2>4. QED BY <1>2, <1>4, <1>6, <2>1, <2>2, <2>3 DEF Numbers, t, d
<1>9. Carried'
  <2>1. ASSUME NEW k \in 1..begun PROVE Carries(t, story[k])
    <3>1. Carries(updates, story[k])
      BY <1>1, MessagesAre DEF MessagesInv, Carried
    <3>2. ~PutOf(t[n + 1], story[k].id)
      BY <1>3, <1>4 DEF PutOf
    <3>3. QED BY <1>1, <1>4, <3>1, <3>2, CarriesBehind
  <2>2. Carries(t, m)
    <3>1. Len(t) # 0 /\ Brings(t[Len(t)], m)
      BY <1>1, <1>3, <1>4 DEF Brings
    <3>2. QED BY <1>4, <3>1, CarriesLast
  <2>3. \A k \in 1..begun + 1 : Carries(t, story'[k])
    BY <1>6, <2>1, <2>2
  <2>4. \A k \in 1..begun + 1 : Carries(updates, story[k])'
    BY <1>2, <2>3 DEF Carries, t
  <2>5. QED BY <1>6, <2>4 DEF Carried
<1>10. ASSUME "crowded" \notin excuses' PROVE Ordered'
  <2>1. InOrder(view) /\ Pending /\ Followed(updates, current)
    BY <1>2, <1>10 DEF MessagesInv, Ordered
  <2>2. Pending'
    <3>1. ASSUME NEW j \in 1..n + 1, t[j].op = "pushCurrent"
          PROVE  /\ "begunInBatch" \in excuses' /\ j < n + 1 /\ t[j + 1].op = "put"
                 /\ d # NoMessage => d.id = t[j + 1].msg.id
      <4>1. j \in 1..n
        BY <1>3, <1>4, <1>5, <3>1
      <4>2. /\ "begunInBatch" \in excuses /\ j < n /\ updates[j + 1].op = "put"
            /\ current # NoMessage => current.id = updates[j + 1].msg.id
        BY <1>4, <2>1, <3>1, <4>1 DEF Pending
      <4>3. j + 1 \in 1..n /\ j < n + 1
        BY <1>1, <4>1, <4>2
      <4>4. QED BY <1>2, <1>4, <4>2, <4>3
    <3>2. QED BY <1>4, <3>1 DEF Pending, t, d
  <2>3. /\ Followed(updates, d)
        /\ \A j \in 1..n : WorksOn(updates[j], d) <= begun
    <3>1. \A j \in 1..n : WorksOn(updates[j], d) \in {0, WorksOn(updates[j], current)}
      BY <1>2, MessageFacts DEF WorksOn
    <3>2. QED BY <1>1, <2>1, <3>1, SameWork
  <2>4. Followed(t, d)
    <3>1. WorksOn(t[n + 1], d) = begun + 1
      BY <1>2, <1>3, <1>4 DEF WorksOn
    <3>2. WorksOn(t[Len(t)], d) > begun
      BY <1>1, <1>4, <3>1
    <3>3. d \in Entries
      BY <1>1, <1>2 DEF Entries
    <3>4. QED BY <1>1, <1>4, <2>3, <3>2, <3>3, OrderGrows
  <2>5. Followed(updates, current)'
    BY <1>2, <2>4 DEF Followed, t, d
  <2>6. QED BY <1>2, <2>1, <2>2, <2>5 DEF Ordered, InOrder
<1>11. QED BY <1>7, <1>8, <1>9, <1>10 DEF MessagesInv

LEMMA RewritesMessages ==
  ASSUME StreamInv, MessagesInv, NEW m \in StreamMessages, Rewrites(m)
  PROVE  MessagesInv'
<1> DEFINE n == Len(updates)  t == updates'
<1>1. /\ view \in Seq(Entries) /\ updates \in Seq(Updates) /\ current \in Entries
      /\ begun \in Nat /\ n \in Nat /\ story \in Seq(StreamMessages) /\ Len(story) = begun
      /\ \A j \in 1..n : updates[j] \in Updates /\ WorksOn(updates[j], current) <= begun
      /\ \A i \in 1..Len(view) : view[i].id \in Nat /\ view[i].id <= begun
      /\ \A k \in 1..begun : story[k].id = k
  BY MessagesAre
<1>2. /\ current # NoMessage /\ current' = m /\ m.id = current.id /\ begun' = begun
      /\ t = Enqueue(updates, Put(m)) /\ story' = [story EXCEPT ![begun] = m]
      /\ view' = view /\ excuses \subseteq excuses'
  BY <1>1 DEF Rewrites
<1> HIDE DEF t
<1>3. /\ begun # 0 /\ begun \in 1..begun /\ m.id = begun
  <2>1. story # <<>> /\ story[Len(story)] = current
    BY DEF StreamInv, Writing, Rewrites
  <2>2. begun # 0
    BY <1>1, <2>1, EmptySeq
  <2>3. QED BY <1>1, <1>2, <2>1, <2>2
<1>4. /\ t \in Seq(Updates) /\ Len(t) \in {n, n + 1}
      /\ Len(t) # 0 /\ t[Len(t)].op = "put" /\ t[Len(t)].msg = m
      /\ \A j \in 1..n : j < Len(t) => t[j] = updates[j]
      /\ Len(t) = n => updates[n].op = "put" /\ updates[n].msg.id = m.id
  <2>1. updates \in Seq(Updates) /\ t = Enqueue(updates, Put(m))
    BY <1>1, <1>2
  <2>2. /\ t \in Seq(Updates) /\ Len(t) \in {Len(updates), Len(updates) + 1}
        /\ Len(t) # 0 /\ t[Len(t)].op = "put" /\ t[Len(t)].msg = m
        /\ \A j \in 1..Len(updates) : j < Len(t) => t[j] = updates[j]
        /\ Len(t) = Len(updates) =>
             updates[Len(updates)].op = "put" /\ updates[Len(updates)].msg.id = m.id
    BY <2>1, Enqueued
  <2>3. QED BY <2>2
<1>5. \A j \in 1..n : t[j] = updates[j] \/ (j = n /\ Len(t) = n)
  BY <1>1, <1>4
<1>6. \A j \in 1..Len(t) : j \in 1..n \/ j = Len(t)
  BY <1>1, <1>4
<1>7. /\ Len(story') = begun /\ story'[begun] = m
      /\ \A k \in 1..begun : story'[k] = IF k = begun THEN m ELSE story[k]
  BY <1>1, <1>2, <1>3, ExceptSeq
<1>8. MessageTypes'
  BY <1>1, <1>2, <1>4 DEF MessageTypes, t
<1>9. Numbers'
  <2>1. \A k \in 1..begun : story'[k].id = k
    BY <1>1, <1>3, <1>7
  <2>2. \A j \in 1..Len(t) : t[j].op # "pushCurrent" => t[j].msg.id \in 1..begun
    <3>1. \A j \in 1..n : updates[j].op # "pushCurrent" => updates[j].msg.id \in 1..begun
      BY DEF MessagesInv, Numbers
    <3>2. t[Len(t)].msg.id \in 1..begun
      BY <1>3, <1>4
    <3>3. QED BY <1>4, <1>5, <1>6, <3>1, <3>2
  <2>3. \A i \in 1..Len(view) : view[i].id <= begun
    BY <1>1
  <2>4. QED BY <1>2, <1>3, <1>7, <2>1, <2>2, <2>3 DEF Numbers, t
<1>10. Carried'
  <2>1. ASSUME NEW k \in 1..begun, k # begun PROVE Carries(t, story[k])
    <3>1. Carries(updates, story[k])
      BY <1>1 DEF MessagesInv, Carried
    <3>2. story[k].id # m.id /\ story[k].id = k
      BY <1>1, <1>3, <2>1
    <3>3. ~PutOf(t[Len(t)], story[k].id)
      BY <1>4, <3>2 DEF PutOf
    <3>4. \A j \in 1..n : \/ t[j] = updates[j]
                          \/ updates[j].msg.id # story[k].id /\ ~PutOf(t[j], story[k].id)
      BY <1>4, <1>5, <3>2, <3>3
    <3> DEFINE s == story[k]
    <3> HIDE DEF s
    <3>5. QED BY <1>1, <1>4, <3>1, <3>3, <3>4, CarriesOn DEF s
  <2>2. Carries(t, m)
    <3>1. Brings(t[Len(t)], m)
      BY <1>4 DEF Brings
    <3>2. QED BY <1>4, <3>1, CarriesLast
  <2>3. \A k \in 1..begun : Carries(t, story'[k])
    BY <1>7, <2>1, <2>2
  <2>4. \A k \in 1..begun : Carries(updates, story[k])'
    BY <1>2, <2>3 DEF Carries, t
  <2>5. QED BY <1>7, <2>4 DEF Carried
<1>11. ASSUME "crowded" \notin excuses' PROVE Ordered'
  <2>1. InOrder(view) /\ Pending /\ Followed(updates, current)
    BY <1>2, <1>11 DEF MessagesInv, Ordered
  <2>2. Pending'
    <3>1. ASSUME NEW j \in 1..Len(t), t[j].op = "pushCurrent"
          PROVE  /\ "begunInBatch" \in excuses' /\ j < Len(t) /\ t[j + 1].op = "put"
                 /\ m.id = t[j + 1].msg.id
      <4>1. j \in 1..n /\ j # Len(t) /\ t[j] = updates[j]
        BY <1>4, <1>5, <1>6, <3>1
      <4>2. /\ "begunInBatch" \in excuses /\ j < n /\ updates[j + 1].op = "put"
            /\ current.id = updates[j + 1].msg.id
        BY <1>2, <2>1, <3>1, <4>1 DEF Pending
      <4>3. j + 1 \in 1..n /\ j < Len(t)
        BY <1>1, <1>4, <4>1, <4>2
      <4>4. t[j + 1].op = "put" /\ t[j + 1].msg.id = m.id
        <5>1. CASE j + 1 = n /\ Len(t) = n
          BY <1>4, <5>1
        <5>2. CASE t[j + 1] = updates[j + 1]
          BY <1>2, <4>2, <5>2
        <5>3. QED BY <1>5, <4>3, <5>1, <5>2
      <4>5. QED BY <1>2, <4>2, <4>3, <4>4
    <3>2. QED BY <1>2, <3>1 DEF Pending, t
  <2>3. /\ Followed(updates, m)
        /\ \A j \in 1..n : WorksOn(updates[j], m) <= begun
    <3>1. \A j \in 1..n : WorksOn(updates[j], m) = WorksOn(updates[j], current)
      BY <1>2 DEF WorksOn
    <3>2. \A j \in 1..n : WorksOn(updates[j], m) \in {0, WorksOn(updates[j], current)}
      BY <3>1
    <3>3. Followed(updates, m)
      BY <1>1, <2>1, <3>2, SameWork
    <3>4. QED BY <1>1, <3>1, <3>3
  <2>4. Followed(t, m)
    <3>1. WorksOn(t[Len(t)], m) = begun
      BY <1>3, <1>4 DEF WorksOn
    <3>2. \A j \in 1..n : t[j].op = updates[j].op /\ WorksOn(t[j], m) = WorksOn(updates[j], m)
      <4>1. ASSUME Len(t) = n
            PROVE  t[n].op = updates[n].op /\ WorksOn(t[n], m) = WorksOn(updates[n], m)
        BY <1>4, <4>1 DEF WorksOn
      <4>2. QED BY <1>5, <4>1
    <3>3. m \in Entries
      BY DEF Entries
    <3>4. Len(t) = n + 1 => t[Len(t)].op = "put" /\ WorksOn(t[Len(t)], m) >= begun
      BY <1>1, <1>4, <3>1
    <3>5. QED BY <1>1, <1>4, <2>3, <3>2, <3>3, <3>4, OrderGrows
  <2>5. Followed(updates, current)'
    BY <1>2, <2>4 DEF Followed, t
  <2>6. QED BY <1>2, <2>1, <2>2, <2>5 DEF Ordered, InOrder
<1>12. QED BY <1>8, <1>9, <1>10, <1>11 DEF MessagesInv

LEMMA BeginsMessages ==
  ASSUME StreamInv, MessagesInv, NEW m \in StreamMessages, Begins(m)
  PROVE  MessagesInv'
<1> DEFINE n == Len(updates)  t == updates'
<1>1. /\ view \in Seq(Entries) /\ updates \in Seq(Updates)
      /\ begun \in Nat /\ n \in Nat /\ Len(story) = begun
      /\ \A j \in 1..n : updates[j] \in Updates /\ WorksOn(updates[j], current) <= begun
      /\ \A i \in 1..Len(view) : view[i].id \in Nat /\ view[i].id <= begun
      /\ \A k \in 1..begun : story[k].id = k
  BY MessagesAre
<1>2. /\ current = NoMessage /\ current' = m /\ begun' = begun + 1 /\ m.id = begun + 1
      /\ story' = Append(story, m) /\ view' = view
      /\ "crowded" \notin excuses' =>
           {"crowded", "begunInBatch"} \cap excuses = {} /\ "begunInBatch" \in excuses'
  BY DEF Begins
<1>3. PICK x \in Updates :
        /\ x.op = "pushCurrent" \/ (x.op = "push" /\ x.msg.id = begun + 1)
        /\ t = Append(Append(updates, x), Put(m))
  BY DEF Begins
<1>4. Put(m) \in Updates /\ Put(m).op = "put" /\ Put(m).msg = m
  BY DEF Put, Updates, Entries
<1> DEFINE h == Append(updates, x)
<1>5. /\ h \in Seq(Updates) /\ Len(h) = n + 1 /\ h[n + 1] = x
      /\ \A j \in 1..n : h[j] = updates[j]
  BY <1>1, AppendProperties
<1> HIDE DEF h, t
<1>6. /\ t \in Seq(Updates) /\ Len(t) = Len(h) + 1 /\ t[Len(h) + 1] = Put(m)
      /\ \A j \in 1..Len(h) : t[j] = h[j]
  BY <1>3, <1>4, <1>5, AppendProperties DEF h
<1>7. /\ Len(t) = n + 2 /\ t[n + 2] = Put(m) /\ t[n + 1] = x
      /\ \A j \in 1..n : t[j] = updates[j]
      /\ \A j \in 1..n + 2 : j \in 1..n \/ j = n + 1 \/ j = n + 2
  <2>1. /\ (n + 1) + 1 = n + 2 /\ n + 1 \in 1..n + 1
        /\ \A j \in 1..n : j \in 1..n + 1
        /\ \A j \in 1..n + 2 : j \in 1..n \/ j = n + 1 \/ j = n + 2
    <3>1. n \in Nat
      BY <1>1
    <3> HIDE DEF n
    <3>2. (n + 1) + 1 = n + 2 /\ n + 1 \in 1..n + 1
      BY <3>1
    <3>3. \A j \in 1..n : j \in 1..n + 1
      BY <3>1
    <3>4. \A j \in 1..n + 2 : j \in 1..n \/ j = n + 1 \/ j = n + 2
      BY <3>1
    <3>5. QED BY <3>2, <3>3, <3>4
  <2>2. Len(t) = n + 2 /\ t[n + 2] = Put(m)
    BY <1>5, <1>6, <2>1
  <2>3. t[n + 1] = x
    BY <1>5, <1>6, <2>1
  <2>4. \A j \in 1..n : t[j] = updates[j]
    BY <1>5, <1>6, <2>1
  <2>5. QED BY <2>1, <2>2, <2>3, <2>4
<1>8. /\ Len(story') = begun + 1 /\ story'[begun + 1] = m
      /\ \A k \in 1..begun : story'[k] = story[k] /\ k \in 1..begun + 1
      /\ \A k \in 1..begun + 1 : story'[k].id = k /\ (k \in 1..begun \/ k = begun + 1)
  BY <1>2, StoryGrows
<1>9. begun + 1 \in 1..begun + 1
  BY <1>1
<1>10. MessageTypes'
  BY <1>1, <1>2, <1>6 DEF MessageTypes, t
<1>11. Numbers'
  <2>1. \A j \in 1..n + 2 : t[j].op # "pushCurrent" => t[j].msg.id \in 1..begun + 1
    <3>1. \A j \in 1..n : t[j].op # "pushCurrent" => t[j].msg.id \in 1..begun
      BY <1>7 DEF MessagesInv, Numbers
    <3>2. t[n + 1].op # "pushCurrent" => t[n + 1].msg.id \in 1..begun + 1
      BY <1>3, <1>7, <1>9
    <3>3. t[n + 2].msg.id \in 1..begun + 1
      BY <1>2, <1>4, <1>7, <1>9
    <3>4. QED BY <1>7, <1>8, <3>1, <3>2, <3>3
  <2>2. \A i \in 1..Len(view) : view[i].id <= begun + 1
    BY <1>1
  <2>3. QED BY <1>2, <1>7, <1>8, <1>9, <2>1, <2>2 DEF Numbers, t
<1>12. Carried'
  <2>1. ASSUME NEW k \in 1..begun PROVE Carries(t, story[k])
    <3>1. Carries(updates, story[k])
      BY <1>1 DEF MessagesInv, Carried
    <3>2. ~PutOf(h[n + 1], story[k].id)
      BY <1>3, <1>5 DEF PutOf
    <3>3. Carries(h, story[k])
      BY <1>1, <1>5, <3>1, <3>2, CarriesBehind
    <3>4. ~PutOf(t[Len(h) + 1], story[k].id)
      <4>1. story[k].id # begun + 1
        BY <1>1
      <4>2. QED BY <1>2, <1>4, <1>6, <4>1 DEF PutOf
    <3>5. QED BY <1>5, <1>6, <3>3, <3>4, CarriesBehind
  <2>2. Carries(t, m)
    <3>1. Len(t) # 0 /\ Brings(t[Len(t)], m)
      BY <1>1, <1>4, <1>7 DEF Brings
    <3>2. QED BY <1>6, <3>1, CarriesLast
  <2>3. \A k \in 1..begun + 1 : Carries(t, story'[k])
    BY <1>8, <2>1, <2>2
  <2>4. \A k \in 1..begun + 1 : Carries(updates, story[k])'
    BY <1>2, <2>3 DEF Carries, t
  <2>5. QED BY <1>8, <2>4 DEF Carried
<1>13. ASSUME "crowded" \notin excuses' PROVE Ordered'
  <2>1. /\ InOrder(view) /\ Pending /\ Followed(updates, current)
        /\ "begunInBatch" \notin excuses /\ "begunInBatch" \in excuses'
    BY <1>2, <1>13 DEF MessagesInv, Ordered
  <2>2. \A j \in 1..n : updates[j].op # "pushCurrent"
    BY <2>1 DEF Pending
  <2>3. Pending'
    <3>1. ASSUME NEW j \in 1..n + 2, t[j].op = "pushCurrent"
          PROVE  j < n + 2 /\ t[j + 1].op = "put" /\ m.id = t[j + 1].msg.id
      <4>1. j = n + 1
        BY <1>4, <1>7, <2>2, <3>1
      <4>2. j + 1 = n + 2 /\ j < n + 2
        BY <1>1, <4>1
      <4>3. QED BY <1>4, <1>7, <4>2
    <3>2. QED BY <1>2, <1>7, <2>1, <3>1 DEF Pending, t
  <2>4. Followed(updates, m) /\ \A j \in 1..n : WorksOn(updates[j], m) <= begun
    <3>1. \A j \in 1..n : WorksOn(updates[j], m) = WorksOn(updates[j], current)
      BY <2>2 DEF WorksOn
    <3>2. \A j \in 1..n : WorksOn(updates[j], m) \in {0, WorksOn(updates[j], current)}
      BY <3>1
    <3>3. QED BY <1>1, <2>1, <3>1, <3>2, SameWork
  <2>5. WorksOn(x, m) = begun + 1 /\ WorksOn(Put(m), m) = begun + 1 /\ m \in Entries
    BY <1>2, <1>3, <1>4 DEF WorksOn, Entries
  <2>6. Followed(h, m)
    <3>1. WorksOn(h[Len(h)], m) > begun
      BY <1>1, <1>5, <2>5
    <3>2. QED BY <1>1, <1>5, <2>4, <2>5, <3>1, OrderGrows
  <2>7. Followed(t, m)
    <3>1. begun + 1 \in Nat /\ \A i \in 1..Len(view) : view[i].id \in Nat /\ view[i].id <= begun + 1
      BY <1>1
    <3>2. \A j \in 1..Len(h) : WorksOn(h[j], m) <= begun + 1
      <4>1. \A j \in 1..n : WorksOn(h[j], m) <= begun
        BY <1>5, <2>4
      <4>2. \A j \in 1..n : WorksOn(h[j], m) \in Nat
        <5>1. \A j \in 1..n : h[j] \in Updates
          BY <1>1, <1>5
        <5>2. QED BY <2>5, <5>1, MessageFacts DEF WorksOn, Updates
      <4>3. WorksOn(h[n + 1], m) = begun + 1
        BY <1>5, <2>5
      <4>4. \A j \in 1..n + 1 : j \in 1..n \/ j = n + 1
        BY <1>1
      <4>5. QED BY <1>1, <1>5, <4>1, <4>2, <4>3, <4>4
    <3>3. t[Len(t)].op = "put" /\ WorksOn(t[Len(t)], m) >= begun + 1
      <4>1. t[Len(t)] = Put(m)
        BY <1>7
      <4>2. QED BY <1>4, <2>5, <3>1, <4>1
    <3> DEFINE b == begun + 1
    <3> HIDE DEF b
    <3>4. QED BY <1>5, <1>6, <2>5, <2>6, <3>1, <3>2, <3>3, OrderGrows DEF b
  <2>8. Followed(updates, current)'
    BY <1>2, <2>7 DEF Followed, t
  <2>9. QED BY <1>2, <2>1, <2>3, <2>8 DEF Ordered, InOrder
<1>14. QED BY <1>10, <1>11, <1>12, <1>13 DEF MessagesInv

-----------------------------------------------------------------------------
(* Every step of a turn is a render or one of the four.                     *)

LEMMA WritesMessages ==
  ASSUME StreamInv, MessagesInv, ~BetweenTurns, NEW m \in StreamMessages, Write(m),
         m.id = Assistant.id
  PROVE  MessagesInv'
<1>1. updates \in Seq(Updates) /\ Len(updates) \in Nat /\ begun \in Nat
  BY MessagesAre
<1>2. CASE current = NoMessage
  <2>1. /\ current' = m /\ begun' = begun + 1 /\ m.id = begun + 1
        /\ story' = Append(story, m) /\ view' = view
        /\ "crowded" \notin excuses' =>
             {"crowded", "begunInBatch"} \cap excuses = {} /\ "begunInBatch" \in excuses'
    BY <1>2, AssistantType DEF Write, StreamInv
  <2>2. PICK x \in {Push(Assistant), PushCurrent} :
          updates' = Enqueue(Append(updates, x), Put(m))
    BY <1>2 DEF Write
  <2>3. x \in Updates /\ (x.op = "pushCurrent" \/ (x.op = "push" /\ x.msg.id = begun + 1))
    <3>1. Assistant \in StreamMessages /\ Assistant.id = begun + 1
      BY <1>2, AssistantType DEF StreamInv
    <3>2. QED BY <2>2, <3>1 DEF Push, PushCurrent, Updates, Entries
  <2>4. updates' = Append(Append(updates, x), Put(m))
    <3> DEFINE h == Append(updates, x)
    <3>1. Len(h) = Len(updates) + 1 /\ h[Len(updates) + 1] = x
      BY <1>1, <2>3, AppendProperties
    <3>2. updates' = Enqueue(h, Put(m))
      BY <2>2
    <3> HIDE DEF h
    <3>3. Last(h).op # "put"
      BY <2>3, <3>1 DEF Last
    <3>4. QED BY <3>2, <3>3 DEF Enqueue, h
  <2>5. Begins(m)
    BY <1>2, <2>1, <2>3, <2>4 DEF Begins
  <2>6. QED BY <2>5, BeginsMessages
<1>3. CASE current # NoMessage
  <2>1. m.id = current.id
    BY <1>3, AssistantType DEF StreamInv
  <2>2. Rewrites(m)
    BY <1>3, <2>1 DEF Write, Rewrites
  <2>3. QED BY <2>2, RewritesMessages
<1>4. QED BY <1>2, <1>3

LEMMA UpdatesMessages ==
  ASSUME StreamInv, MessagesInv, ~BetweenTurns, NEW m \in StreamMessages, Update(m),
         current # NoMessage, m.id = current.id, excuses \subseteq excuses'
  PROVE  MessagesInv'
<1>1. Rewrites(m)
  BY DEF Update, Rewrites
<1>2. QED BY <1>1, RewritesMessages

LEMMA ToolCallWrites ==
  ASSUME StreamInv, NEW c \in Calls, ToolCall(c)
  PROVE  \E m \in StreamMessages :
           /\ Write(m) /\ m.id = Assistant.id
           /\ m.cards[c].status = "running" /\ m.cards[c].transcript = "none"
           /\ \A d \in Calls \ {c} : m.cards[d] = Assistant.cards[d]
<1> DEFINE k == [Blank EXCEPT !.status = "running"]
           m == [Assistant EXCEPT !.cards[c] = k]
<1>1. k \in StreamCards /\ k.status = "running" /\ k.transcript = "none"
  BY DEF Blank, StreamCards
<1>2. Assistant \in StreamMessages /\ Assistant.cards \in [Calls -> StreamCards]
  BY AssistantType DEF StreamInv, StreamMessages
<1>3. Write(m)
  BY DEF ToolCall
<1> HIDE DEF k
<1>4. m \in StreamMessages /\ m.id = Assistant.id /\ m.cards = [Assistant.cards EXCEPT ![c] = k]
  BY <1>1, <1>2, AssistantType DEF StreamInv
<1> HIDE DEF m
<1>5. QED BY <1>1, <1>2, <1>3, <1>4

LEMMA ToolResultWrites ==
  ASSUME StreamInv, NEW c \in Calls, ToolResult(c)
  PROVE  /\ ~BetweenTurns /\ current # NoMessage
         /\ \E m \in StreamMessages :
              /\ Update(m) /\ m.id = current.id
              /\ m.cards[c].status \in {"completed", "error"} /\ m.cards[c].transcript = "none"
              /\ \A d \in Calls \ {c} : m.cards[d] = current.cards[d]
<1>1. ~BetweenTurns /\ current # NoMessage
  BY DEF StreamInv, Writing, ToolResult, BetweenTurns
<1>2. PICK outcome \in {"completed", "error"} :
        Update([current EXCEPT !.cards[c] = [Blank EXCEPT !.status = outcome]])
  BY DEF ToolResult
<1> DEFINE k == [Blank EXCEPT !.status = outcome]
           m == [current EXCEPT !.cards[c] = k]
<1>3. k \in StreamCards /\ k.status = outcome /\ k.transcript = "none"
  BY DEF Blank, StreamCards
<1>4. current \in StreamMessages /\ current.cards \in [Calls -> StreamCards]
  BY <1>1 DEF StreamInv, StreamTypes, StreamMessages
<1>5. Update(m)
  BY <1>2
<1> HIDE DEF k
<1>6. m \in StreamMessages /\ m.id = current.id /\ m.cards = [current.cards EXCEPT ![c] = k]
  BY <1>3, <1>4, AssistantType DEF StreamInv
<1> HIDE DEF m
<1>7. QED BY <1>1, <1>3, <1>4, <1>5, <1>6

\* The event of a browser agent: where it is then, and what it makes of the card.
LEMMA BrowserWrites ==
  ASSUME NEW c \in Calls, BrowserEvent(c)
  PROVE  \E from \in SUBSET {"starting", "open", "working"},
            to \in {"starting", "open", "working", "over", "failed"},
            card \in {Live(Card(c)), Ended(Card(c))}, lit \in {"on", "off", "same"} :
           /\ SubEvent(c, from, to, card, lit)
           /\ card = IF to \in {"over", "failed"} THEN Ended(Card(c)) ELSE Live(Card(c))
<1>1. CASE BrowserAsks(c)
  BY <1>1 DEF BrowserAsks
<1>2. CASE BrowserFails(c)
  BY <1>2 DEF BrowserFails
<1>3. CASE BrowserOpens(c)
  BY <1>3 DEF BrowserOpens
<1>4. CASE BrowserIterates(c)
  BY <1>4 DEF BrowserIterates
<1>5. CASE BrowserWorks(c)
  BY <1>5 DEF BrowserWorks
<1>6. CASE BrowserModelFails(c)
  BY <1>6 DEF BrowserModelFails
<1>7. CASE BrowserDone(c)
  BY <1>7 DEF BrowserDone
<1>8. QED BY <1>1, <1>2, <1>3, <1>4, <1>5, <1>6, <1>7 DEF BrowserEvent

LEMMA BrowserMessages ==
  ASSUME StreamInv, MessagesInv, NEW c \in Calls, BrowserEvent(c)
  PROVE  MessagesInv'
<1>1. PICK from \in SUBSET {"starting", "open", "working"},
           to \in {"starting", "open", "working", "over", "failed"},
           card \in {Live(Card(c)), Ended(Card(c))}, lit \in {"on", "off", "same"} :
        SubEvent(c, from, to, card, lit)
  BY BrowserWrites
<1>2. ~BetweenTurns /\ Transcribe(c, card) /\ excuses \subseteq excuses'
  BY <1>1 DEF SubEvent
<1>3. CASE current = NoMessage
  <2>1. Rests
    BY <1>2, <1>3 DEF Transcribe, Update, Rests
  <2>2. QED BY <2>1, RestsMessages
<1>4. CASE current # NoMessage
  <2>1. PICK m \in StreamMessages : Update(m) /\ m.id = current.id
    BY <1>2, <1>4, CardWritten DEF StreamInv
  <2>2. QED BY <1>2, <1>4, <2>1, UpdatesMessages
<1>5. QED BY <1>3, <1>4

LEMMA TellMessages ==
  ASSUME StreamInv, MessagesInv, SendMessage \/ Abandon
  PROVE  MessagesInv'
<1>1. \A role \in {"user", "assistant"}, text \in {"said", "note"} :
        /\ NewMessage(begun + 1, role, text) \in StreamMessages
        /\ NewMessage(begun + 1, role, text).id = begun + 1
  <2>1. begun + 1 \in Nat \ {0}
    BY DEF StreamInv, StreamTypes
  <2>2. [d \in Calls |-> Blank] \in [Calls -> StreamCards]
    BY DEF Blank, StreamCards
  <2>3. QED BY <2>1, <2>2 DEF NewMessage, StreamMessages
<1>2. CASE SendMessage
  <2> DEFINE m == NewMessage(begun + 1, "user", "said")
  <2>1. Tells(m)
    BY <1>1, <1>2 DEF SendMessage, Tells
  <2>2. m \in StreamMessages
    BY <1>1
  <2> HIDE DEF m
  <2>3. QED BY <2>1, <2>2, TellsMessages
<1>3. CASE Abandon
  <2>1. CASE UNCHANGED <<story, pageVars>>
    <3>1. Rests
      BY <1>3, <2>1 DEF Abandon, Rests, pageVars
    <3>2. QED BY <3>1, RestsMessages
  <2>2. CASE ~UNCHANGED <<story, pageVars>>
    <3> DEFINE m == NewMessage(begun + 1, "assistant", "note")
    <3>1. Tells(m)
      BY <1>1, <1>3, <2>2 DEF Abandon, Tells
    <3>2. m \in StreamMessages
      BY <1>1
    <3> HIDE DEF m
    <3>3. QED BY <3>1, <3>2, TellsMessages
  <2>3. QED BY <2>1, <2>2
<1>4. QED BY <1>2, <1>3

LEMMA MessagesInitially == StreamInit => MessagesInv
<1> SUFFICES ASSUME StreamInit PROVE MessagesInv
  OBVIOUS
<1>1. story = <<>> /\ view = <<>> /\ updates = <<>> /\ begun = 0 /\ current = NoMessage
  BY DEF StreamInit
<1>2. Len(story) = 0 /\ Len(view) = 0 /\ Len(updates) = 0
  BY <1>1, EmptySeq
<1>3. MessageTypes
  BY <1>1, EmptySeq DEF MessageTypes
<1>4. Numbers /\ Carried
  BY <1>1, <1>2 DEF Numbers, Carried
<1>5. Ordered
  BY <1>2 DEF Ordered, InOrder, Pending, Followed
<1>6. QED BY <1>3, <1>4, <1>5 DEF MessagesInv

LEMMA MessagesStep ==
  ASSUME StreamInv, MessagesInv, [StreamNext]_streamVars
  PROVE  MessagesInv'
<1>1. CASE Think \/ Token \/ AgentError \/ AgentDone
  <2>1. PICK m \in StreamMessages : Write(m) /\ m.id = Assistant.id
    BY <1>1, WordsWritten DEF StreamInv
  <2>2. ~BetweenTurns
    BY <1>1 DEF Think, Token, AgentError, AgentDone, BetweenTurns
  <2>3. QED BY <2>1, <2>2, WritesMessages
<1>2. ASSUME NEW c \in Calls, ToolCall(c) PROVE MessagesInv'
  <2>1. PICK m \in StreamMessages : Write(m) /\ m.id = Assistant.id
    BY <1>2, ToolCallWrites
  <2>2. ~BetweenTurns
    BY <1>2 DEF ToolCall, BetweenTurns
  <2>3. QED BY <2>1, <2>2, WritesMessages
<1>3. ASSUME NEW c \in Calls, ToolResult(c) PROVE MessagesInv'
  <2>1. PICK m \in StreamMessages : Update(m) /\ m.id = current.id
    BY <1>3, ToolResultWrites
  <2>2. ~BetweenTurns /\ current # NoMessage /\ excuses \subseteq excuses'
    BY <1>3, ToolResultWrites DEF ToolResult
  <2>3. QED BY <2>1, <2>2, UpdatesMessages
<1>4. ASSUME NEW c \in Calls, BrowserEvent(c) PROVE MessagesInv'
  BY <1>4, BrowserMessages
<1>5. CASE SendMessage \/ Abandon
  BY <1>5, TellMessages
<1>6. CASE Iteration \/ StartTools \/ ToolsReturn \/ StreamEnds \/ UNCHANGED streamVars
  <2>1. Rests
    BY <1>6 DEF Iteration, StartTools, ToolsReturn, StreamEnds, streamVars, agentVars, pageVars,
                Rests
  <2>2. QED BY <2>1, RestsMessages
<1>7. CASE Render
  BY <1>7, RenderMessages
<1>8. QED BY <1>1, <1>2, <1>3, <1>4, <1>5, <1>6, <1>7 DEF StreamNext

LEMMA MessagesInvariant == StreamSpec => [](StreamInv /\ MessagesInv)
<1>1. StreamInv /\ MessagesInv /\ [StreamNext]_streamVars => MessagesInv'
  BY MessagesStep
<1>2. QED BY <1>1, MessagesInitially, StreamInvariant, PTL DEF StreamSpec

\* When all is rendered, the list is the story, and shown as it is.
LEMMA RenderedIsStory ==
  ASSUME StreamInv, MessagesInv, Settled
  PROVE  /\ \A k \in 1..Len(story) : \E i \in 1..Len(Shown) : Shown[i] = story[k]
         /\ "crowded" \notin excuses => Shown = story
<1>1. /\ view \in Seq(Entries) /\ story \in Seq(StreamMessages) /\ begun \in Nat
      /\ Len(story) = begun /\ Len(updates) = 0
      /\ \A k \in 1..begun : story[k].id = k
      /\ \A i \in 1..Len(view) : view[i].id <= begun
  BY MessagesAre, EmptySeq DEF Settled
<1>2. \A k \in 1..Len(story) : \E i \in 1..Len(view) : view[i] = story[k]
  BY <1>1 DEF MessagesInv, Carried, Carries
<1>3. \A k \in 1..Len(story) : \E i \in 1..Len(Shown) : Shown[i] = story[k]
  <2>1. ASSUME NEW k \in 1..Len(story) PROVE \E i \in 1..Len(Shown) : Shown[i] = story[k]
    <3>1. PICK j \in 1..Len(view) : view[j] = story[k]
      BY <1>2
    <3>2. view[j] # NoMessage
      <4>1. story[k] \in StreamMessages
        BY <1>1, ElementOfSeq
      <4>2. QED BY <3>1, <4>1, MessageFacts
    <3>3. QED BY <1>1, <3>1, <3>2, ShownIs
  <2>2. QED BY <2>1
<1>4. ASSUME "crowded" \notin excuses PROVE Shown = story
  <2>1. InOrder(Shown) /\ Shown \in Seq(StreamMessages)
    BY <1>1, <1>4, ShownIs DEF MessagesInv, Ordered
  <2>2. \A i \in 1..Len(Shown) : Shown[i].id <= Len(story)
    BY <1>1, ShownIs
  <2>3. \A k \in 1..Len(story) : story[k].id = k
    BY <1>1
  <2> DEFINE s == Shown
  <2> HIDE DEF s
  <2>4. QED BY <1>1, <1>3, <2>1, <2>2, <2>3, OrderedIsStory DEF s
<1>5. QED BY <1>3, <1>4

\* When everything is rendered, the person sees the messages that the events told, in
\* their order and once each, however the events of the agents were batched, unless one
\* batch held the beginning of two messages (use-chat-state.ts ensureAssistant, and the
\* updaters of setMessages).
THEOREM MessagesAreStory == StreamSpec => []ViewIsStory
<1>1. StreamInv /\ MessagesInv => ViewIsStory
  BY RenderedIsStory DEF ViewIsStory
<1>2. QED BY <1>1, MessagesInvariant, PTL

\* And even then nothing of what was said is missing from the page.
THEOREM NothingIsLost == StreamSpec => []NothingUnshown
<1>1. StreamInv /\ MessagesInv => NothingUnshown
  <2> SUFFICES ASSUME StreamInv, MessagesInv, Settled PROVE ToSet(story) \subseteq ToSet(Shown)
    BY DEF NothingUnshown
  <2>1. \A k \in 1..Len(story) : \E i \in 1..Len(Shown) : Shown[i] = story[k]
    BY RenderedIsStory
  <2>2. DOMAIN story = 1..Len(story) /\ DOMAIN Shown = 1..Len(Shown)
    BY MessagesAre, ShownIs, LenProperties
  <2>3. QED BY <2>1, <2>2 DEF ToSet
<1>2. QED BY <1>1, MessagesInvariant, PTL

-----------------------------------------------------------------------------
(* The tool cards of the story.                                             *)

\* What a card of a call says, on the last message or on one before it.
CardRight(card, place, cl, sb, ex) ==
  /\ cl = "none" => card.status = "none"
  /\ card.status = "none" => card.transcript = "none"
  /\ cl \in {"asked", "working"} =>
       card.status = (IF place = "last" THEN "running" ELSE "none")
  /\ cl = "resulted" => card.status # "running"
  /\ cl \in {"cut", "lost"} => card.status \in {"none", "running"}
  /\ card.transcript = "active" =>
       \/ "lateEvent" \in ex
       \/ sb \in {"starting", "open", "working", "unheard"} /\ cl # "resulted"

Place(k) == IF k = Len(story) THEN "last" ELSE "before"
Cards == \A k \in 1..Len(story), c \in Calls :
           CardRight(story[k].cards[c], Place(k), call[c], sub[c], excuses)

\* A browser agent that works belongs to a call that works or has its result.
Heard == \A c \in Calls : sub[c] \in {"starting", "open", "working"} =>
                            call[c] \in {"working", "resulted"}

\* What a step does to the cards, given call by call.
LastKept(c) ==
  CardRight(story[Len(story)].cards[c], "last", call[c], sub[c], excuses) =>
    CardRight(story'[Len(story)].cards[c], "last", call'[c], sub'[c], excuses')
BeforeKept(c, place) ==
  \A card \in StreamCards :
    CardRight(card, place, call[c], sub[c], excuses) =>
      CardRight(card, "before", call'[c], sub'[c], excuses')

LEMMA CardTypes ==
  ASSUME StreamTypes
  PROVE  \A k \in 1..Len(story), c \in Calls : story[k].cards[c] \in StreamCards
<1>1. \A k \in 1..Len(story) : story[k] \in StreamMessages
  BY ElementOfSeq DEF StreamTypes
<1>2. QED BY <1>1 DEF StreamMessages

\* A step that leaves the number of messages, and at most the last one changed.
LEMMA CardsKept ==
  ASSUME StreamInv, Cards, Len(story') = Len(story),
         \A k \in 1..Len(story) : k # Len(story) => story'[k] = story[k],
         \A c \in Calls : LastKept(c) /\ BeforeKept(c, "before")
  PROVE  Cards'
<1>1. ASSUME NEW k \in 1..Len(story), NEW c \in Calls
      PROVE  CardRight(story'[k].cards[c], Place(k), call'[c], sub'[c], excuses')
  <2>1. CardRight(story[k].cards[c], Place(k), call[c], sub[c], excuses)
    BY DEF Cards
  <2>2. CASE k = Len(story)
    BY <2>1, <2>2 DEF Place, LastKept
  <2>3. CASE k # Len(story)
    <3>1. story[k].cards[c] \in StreamCards
      BY CardTypes DEF StreamInv
    <3>2. QED BY <2>1, <2>3, <3>1 DEF Place, BeforeKept
  <2>4. QED BY <2>2, <2>3
<1>2. \A k \in 1..Len(story) : Place(k)' = Place(k)
  BY DEF Place
<1>3. QED BY <1>1, <1>2 DEF Cards

\* A step that adds a message.
LEMMA CardsAdded ==
  ASSUME StreamInv, Cards, NEW m \in StreamMessages, story' = Append(story, m),
         \A c \in Calls : /\ CardRight(m.cards[c], "last", call'[c], sub'[c], excuses')
                          /\ BeforeKept(c, "before") /\ BeforeKept(c, "last")
  PROVE  Cards'
<1> DEFINE n == Len(story)
<1>1. /\ story \in Seq(StreamMessages) /\ n \in Nat
      /\ Len(story') = n + 1 /\ story'[n + 1] = m
      /\ \A k \in 1..n : story'[k] = story[k]
  BY AppendProperties, LenProperties DEF StreamInv, StreamTypes
<1>2. ASSUME NEW k \in 1..n + 1, NEW c \in Calls
      PROVE  CardRight(story'[k].cards[c], Place(k)', call'[c], sub'[c], excuses')
  <2>1. CASE k = n + 1
    BY <1>1, <2>1 DEF Place
  <2>2. CASE k # n + 1
    <3>1. k \in 1..n /\ Place(k)' = "before"
      BY <1>1, <2>2 DEF Place
    <3>2. CardRight(story[k].cards[c], Place(k), call[c], sub[c], excuses)
      BY <3>1 DEF Cards
    <3>3. story[k].cards[c] \in StreamCards
      BY <3>1, CardTypes DEF StreamInv
    <3>4. Place(k) \in {"last", "before"}
      BY DEF Place
    <3>5. CardRight(story[k].cards[c], "before", call'[c], sub'[c], excuses')
      BY <3>2, <3>3, <3>4 DEF BeforeKept
    <3>6. QED BY <1>1, <3>1, <3>5
  <2>3. QED BY <2>1, <2>2
<1>3. QED BY <1>1, <1>2 DEF Cards

\* A write, given by what becomes of each card of the message.
LEMMA CardsWritten ==
  ASSUME StreamInv, Cards, ~BetweenTurns, NEW m \in StreamMessages,
         \/ Write(m)
         \/ Update(m) /\ current # NoMessage /\ excuses \subseteq excuses',
         \A c \in Calls :
           CardRight(Assistant.cards[c], "last", call[c], sub[c], excuses) =>
             CardRight(m.cards[c], "last", call'[c], sub'[c], excuses'),
         \A c \in Calls, place \in {"last", "before"} :
           place = "before" \/ call[c] \notin {"asked", "working"} => BeforeKept(c, place)
  PROVE  Cards'
<1> DEFINE n == Len(story)
<1>1. story \in Seq(StreamMessages) /\ n \in Nat
  BY LenProperties DEF StreamInv, StreamTypes
<1>2. CASE current = NoMessage
  <2>1. story' = Append(story, m)
    BY <1>2 DEF Write
  <2>2. \A c \in Calls : call[c] \notin {"asked", "working"} /\ Assistant.cards[c] = Blank
    BY <1>2, AssistantType DEF StreamInv, Writing
  <2>3. \A c \in Calls : CardRight(Assistant.cards[c], "last", call[c], sub[c], excuses)
    BY <2>2 DEF CardRight, Blank
  <2>4. \A c \in Calls : /\ CardRight(m.cards[c], "last", call'[c], sub'[c], excuses')
                         /\ BeforeKept(c, "before") /\ BeforeKept(c, "last")
    BY <2>2, <2>3
  <2>5. QED BY <2>1, <2>4, CardsAdded
<1>3. CASE current # NoMessage
  <2>1. Assistant = current /\ n # 0 /\ story[n] = current
    BY <1>1, <1>3, AssistantType, EmptySeq DEF StreamInv, Writing
  <2>2. story' = [story EXCEPT ![n] = m]
    BY <1>3 DEF Write, Update
  <2>3. /\ Len(story') = n /\ story'[n] = m
        /\ \A k \in 1..n : k # n => story'[k] = story[k]
    BY <1>1, <2>1, <2>2, ExceptSeq
  <2>4. \A c \in Calls : LastKept(c)
    BY <2>1, <2>3 DEF LastKept
  <2>5. \A c \in Calls : BeforeKept(c, "before")
    OBVIOUS
  <2>6. QED BY <2>3, <2>4, <2>5, CardsKept
<1>4. QED BY <1>2, <1>3

\* A call that the step leaves alone.
LEMMA CallKept ==
  ASSUME NEW c \in Calls, call'[c] = call[c], sub'[c] = sub[c],
         "lateEvent" \in excuses => "lateEvent" \in excuses'
  PROVE  /\ \A card, place : CardRight(card, place, call[c], sub[c], excuses) =>
                               CardRight(card, place, call'[c], sub'[c], excuses')
         /\ BeforeKept(c, "before")
         /\ call[c] \notin {"asked", "working"} => BeforeKept(c, "last")
<1>1. \A card, place : CardRight(card, place, call[c], sub[c], excuses) =>
                         CardRight(card, place, call'[c], sub'[c], excuses')
  BY DEF CardRight
<1>2. BeforeKept(c, "before")
  BY <1>1 DEF BeforeKept
<1>3. call[c] \notin {"asked", "working"} => BeforeKept(c, "last")
  BY DEF BeforeKept, CardRight
<1>4. QED BY <1>1, <1>2, <1>3

\* A call that is given up: its model failed, or its stream was left.
LEMMA CallGivenUp ==
  ASSUME NEW c \in Calls, call[c] \in {"asked", "working"}, call'[c] \in {"cut", "lost"},
         \/ sub'[c] = sub[c]
         \/ sub[c] \in {"starting", "open", "working"} /\ sub'[c] = "unheard",
         "lateEvent" \in excuses => "lateEvent" \in excuses'
  PROVE  \A card, place, other :
           CardRight(card, place, call[c], sub[c], excuses) =>
             CardRight(card, other, call'[c], sub'[c], excuses')
BY DEF CardRight

LEMMA WordsCards ==
  ASSUME StreamInv, Cards, Think \/ Token \/ AgentError \/ AgentDone
  PROVE  Cards'
<1>1. PICK m \in StreamMessages : Write(m) /\ m.cards = Assistant.cards
  BY WordsWritten DEF StreamInv
<1>2. "lateEvent" \in excuses => "lateEvent" \in excuses'
  BY <1>1 DEF Write
<1>3. /\ ~BetweenTurns /\ sub' = sub
      /\ \A c \in Calls : \/ call'[c] = call[c]
                          \/ call[c] = "asked" /\ call'[c] = "cut"
  <2>1. CASE Think \/ Token \/ AgentDone
    BY <2>1 DEF Think, Token, AgentDone, BetweenTurns
  <2>2. CASE AgentError
    BY <2>2 DEF AgentError, BetweenTurns
  <2>3. QED BY <2>1, <2>2
<1>4. ASSUME NEW c \in Calls
      PROVE  /\ \A card, place : CardRight(card, place, call[c], sub[c], excuses) =>
                                   CardRight(card, place, call'[c], sub'[c], excuses')
             /\ BeforeKept(c, "before")
             /\ call[c] \notin {"asked", "working"} => BeforeKept(c, "last")
  <2>1. CASE call'[c] = call[c]
    BY <1>2, <1>3, <2>1, CallKept
  <2>2. CASE call[c] = "asked" /\ call'[c] = "cut"
    BY <1>2, <1>3, <2>2, CallGivenUp DEF BeforeKept
  <2>3. QED BY <1>3, <2>1, <2>2
<1>5. QED BY <1>1, <1>3, <1>4, CardsWritten

LEMMA ToolCallCards ==
  ASSUME StreamInv, Cards, NEW c \in Calls, ToolCall(c)
  PROVE  Cards'
<1>1. PICK m \in StreamMessages :
        /\ Write(m) /\ m.cards[c].status = "running" /\ m.cards[c].transcript = "none"
        /\ \A d \in Calls \ {c} : m.cards[d] = Assistant.cards[d]
  BY ToolCallWrites
<1>2. "lateEvent" \in excuses => "lateEvent" \in excuses'
  BY <1>1 DEF Write
<1>3. /\ ~BetweenTurns /\ sub' = sub /\ call[c] = "none" /\ call'[c] = "asked"
      /\ \A d \in Calls \ {c} : call'[d] = call[d]
  BY DEF ToolCall, BetweenTurns, StreamInv, StreamTypes
<1>4. ASSUME NEW d \in Calls \ {c}
      PROVE  /\ CardRight(Assistant.cards[d], "last", call[d], sub[d], excuses) =>
                  CardRight(m.cards[d], "last", call'[d], sub'[d], excuses')
             /\ BeforeKept(d, "before")
             /\ call[d] \notin {"asked", "working"} => BeforeKept(d, "last")
  <2>1. call'[d] = call[d] /\ sub'[d] = sub[d] /\ m.cards[d] = Assistant.cards[d]
    BY <1>1, <1>3
  <2>2. QED BY <1>2, <2>1, CallKept
<1>5. CardRight(m.cards[c], "last", call'[c], sub'[c], excuses')
  BY <1>1, <1>3 DEF CardRight
<1>6. \A place \in {"last", "before"} : BeforeKept(c, place)
  BY <1>2, <1>3 DEF BeforeKept, CardRight
<1>7. QED BY <1>1, <1>3, <1>4, <1>5, <1>6, CardsWritten

LEMMA ToolResultCards ==
  ASSUME StreamInv, Cards, NEW c \in Calls, ToolResult(c)
  PROVE  Cards'
<1>1. /\ ~BetweenTurns /\ current # NoMessage /\ excuses' = excuses /\ sub' = sub
      /\ call[c] = "working" /\ call'[c] = "resulted"
      /\ \A d \in Calls \ {c} : call'[d] = call[d]
  BY ToolResultWrites DEF ToolResult, StreamInv, StreamTypes
<1>2. PICK m \in StreamMessages :
        /\ Update(m) /\ m.cards[c].status \in {"completed", "error"}
        /\ m.cards[c].transcript = "none"
        /\ \A d \in Calls \ {c} : m.cards[d] = Assistant.cards[d]
  BY <1>1, ToolResultWrites, AssistantType DEF StreamInv
<1>3. ASSUME NEW d \in Calls \ {c}
      PROVE  /\ CardRight(Assistant.cards[d], "last", call[d], sub[d], excuses) =>
                  CardRight(m.cards[d], "last", call'[d], sub'[d], excuses')
             /\ BeforeKept(d, "before")
             /\ call[d] \notin {"asked", "working"} => BeforeKept(d, "last")
  <2>1. call'[d] = call[d] /\ sub'[d] = sub[d] /\ m.cards[d] = Assistant.cards[d]
    BY <1>1, <1>2
  <2>2. QED BY <1>1, <2>1, CallKept
<1>4. CardRight(m.cards[c], "last", call'[c], sub'[c], excuses')
  BY <1>1, <1>2 DEF CardRight
<1>5. BeforeKept(c, "before")
  BY <1>1 DEF BeforeKept, CardRight
<1>6. QED BY <1>1, <1>2, <1>3, <1>4, <1>5, CardsWritten

LEMMA BrowserCards ==
  ASSUME StreamInv, Cards, Heard, NEW c \in Calls, BrowserEvent(c)
  PROVE  Cards'
<1>1. PICK from \in SUBSET {"starting", "open", "working"},
           to \in {"starting", "open", "working", "over", "failed"},
           card \in {Live(Card(c)), Ended(Card(c))}, lit \in {"on", "off", "same"} :
        /\ SubEvent(c, from, to, card, lit)
        /\ card = IF to \in {"over", "failed"} THEN Ended(Card(c)) ELSE Live(Card(c))
  BY BrowserWrites
<1>2. /\ ~BetweenTurns /\ sub[c] \in from /\ sub'[c] = to
      /\ call' = call /\ Transcribe(c, card)
      /\ excuses \subseteq excuses'
      /\ call[c] = "resulted" /\ to \notin Over => "lateEvent" \in excuses'
      /\ \A d \in Calls \ {c} : sub'[d] = sub[d]
  BY <1>1 DEF SubEvent, StreamInv, StreamTypes
<1>3. call[c] \in {"working", "resulted"}
  BY <1>1, <1>2 DEF Heard
<1>4. ASSUME NEW d \in Calls \ {c}
      PROVE  /\ \A k, place : CardRight(k, place, call[d], sub[d], excuses) =>
                                CardRight(k, place, call'[d], sub'[d], excuses')
             /\ BeforeKept(d, "before")
             /\ call[d] \notin {"asked", "working"} => BeforeKept(d, "last")
  BY <1>2, CallKept
<1>5. BeforeKept(c, "before")
  BY <1>1, <1>2, <1>3 DEF BeforeKept, CardRight, Over
<1>6. CASE current = NoMessage
  <2>1. call[c] = "resulted" /\ story' = story
    <3>1. call[c] # "working"
      BY <1>6 DEF StreamInv, Writing
    <3>2. story' = story
      BY <1>2, <1>6 DEF Transcribe, Update
    <3>3. QED BY <1>3, <3>1, <3>2
  <2>2. LastKept(c)
    <3>1. ASSUME NEW k, CardRight(k, "last", call[c], sub[c], excuses)
          PROVE  CardRight(k, "last", call'[c], sub'[c], excuses')
      <4>1. /\ k.status = "none" => k.transcript = "none"
            /\ k.status # "running"
            /\ k.transcript = "active" => "lateEvent" \in excuses
        BY <2>1, <3>1 DEF CardRight
      <4>2. call'[c] = "resulted" /\ excuses \subseteq excuses'
        BY <1>2, <2>1
      <4>3. QED BY <4>1, <4>2 DEF CardRight
    <3>2. QED BY <2>1, <3>1 DEF LastKept
  <2>3. \A d \in Calls \ {c} : LastKept(d)
    BY <1>4, <2>1 DEF LastKept
  <2>4. QED BY <1>4, <1>5, <2>1, <2>2, <2>3, CardsKept
<1>7. CASE current # NoMessage
  <2>1. PICK m \in StreamMessages :
          /\ Update(m)
          /\ \A d \in Calls \ {c} : m.cards[d] = current.cards[d]
          /\ m.cards[c] = IF current.cards[c].status = "none" THEN current.cards[c] ELSE card
    BY <1>2, <1>7, CardWritten DEF StreamInv
  <2>2. Assistant = current /\ current.cards[c] \in StreamCards
    <3>1. Assistant = current
      BY <1>7, AssistantType DEF StreamInv
    <3>2. current \in StreamMessages
      BY <1>7 DEF StreamInv, StreamTypes
    <3>3. QED BY <3>1, <3>2 DEF StreamMessages
  <2>3. ASSUME CardRight(current.cards[c], "last", call[c], sub[c], excuses)
        PROVE  CardRight(m.cards[c], "last", call'[c], sub'[c], excuses')
    <3> DEFINE k == current.cards[c]
    <3>1. CASE k.status = "none"
      <4>1. m.cards[c] = k /\ k.transcript = "none" /\ call[c] = "resulted"
        BY <1>3, <2>1, <2>3, <3>1 DEF CardRight
      <4>2. QED BY <1>2, <3>1, <4>1 DEF CardRight
    <3>2. CASE k.status # "none" /\ to \in {"over", "failed"}
      <4>1. m.cards[c] = [k EXCEPT !.transcript = "done"]
        BY <1>1, <2>1, <3>2 DEF Ended, Card
      <4>2. m.cards[c].status = k.status /\ m.cards[c].transcript = "done"
        BY <2>2, <4>1 DEF StreamCards
      <4>3. QED BY <1>2, <1>3, <2>3, <3>2, <4>2 DEF CardRight
    <3>3. CASE k.status # "none" /\ to \notin {"over", "failed"}
      <4>1. m.cards[c] = [k EXCEPT !.transcript = IF @ = "none" THEN "active" ELSE @]
        BY <1>1, <2>1, <3>3 DEF Live, Card
      <4>2. m.cards[c].status = k.status
        BY <2>2, <4>1 DEF StreamCards
      <4>3. to \in {"starting", "open", "working"} /\ to \notin Over
        BY <1>1, <3>3 DEF Over
      <4>4. QED BY <1>2, <1>3, <2>3, <3>3, <4>2, <4>3 DEF CardRight
    <3>4. QED BY <3>1, <3>2, <3>3
  <2>4. call[c] \notin {"asked", "working"} => BeforeKept(c, "last")
    BY <1>1, <1>2, <1>3 DEF BeforeKept, CardRight, Over
  <2>5. \A d \in Calls : CardRight(Assistant.cards[d], "last", call[d], sub[d], excuses) =>
                           CardRight(m.cards[d], "last", call'[d], sub'[d], excuses')
    BY <1>4, <2>1, <2>2, <2>3
  <2>6. \A d \in Calls, place \in {"last", "before"} :
          place = "before" \/ call[d] \notin {"asked", "working"} => BeforeKept(d, place)
    BY <1>4, <1>5, <2>4
  <2>7. QED BY <1>2, <1>7, <2>1, <2>5, <2>6, CardsWritten
<1>8. QED BY <1>6, <1>7

LEMMA TellsCards ==
  ASSUME StreamInv, Cards, SendMessage \/ Abandon
  PROVE  Cards'
<1>1. /\ call \in [Calls -> {"none", "asked", "working", "resulted", "cut", "lost"}]
      /\ sub \in [Calls -> {"none", "starting", "open", "working", "over", "failed", "unheard"}]
      /\ begun + 1 \in Nat \ {0}
  BY DEF StreamInv, StreamTypes
<1>2. /\ excuses' = excuses
      /\ \A c \in Calls :
           \/ call[c] \notin {"asked", "working"} /\ call'[c] = call[c]
           \/ call[c] \in {"asked", "working"} /\ call'[c] = "lost"
      /\ \A c \in Calls :
           \/ sub'[c] = sub[c]
           \/ sub[c] \in {"starting", "open", "working"} /\ sub'[c] = "unheard"
  <2>1. CASE SendMessage
    <3>1. \A c \in Calls : call[c] \notin {"asked", "working"}
      BY <2>1 DEF SendMessage, BetweenTurns, StreamInv, Writing
    <3>2. QED BY <2>1, <3>1 DEF SendMessage
  <2>2. CASE Abandon
    <3>1. \A c \in Calls : sub'[c] = IF sub[c] \in Over THEN sub[c] ELSE "unheard"
      BY <2>2 DEF Abandon, Forget
    <3>2. \A c \in Calls :
            call'[c] = IF call[c] \in {"none", "resulted", "cut"} THEN call[c] ELSE "lost"
      BY <2>2 DEF Abandon
    <3>3. excuses' = excuses
      BY <2>2 DEF Abandon
    <3>4. \A c \in Calls : sub[c] \in Over \/ sub[c] \in {"starting", "open", "working"}
      BY <1>1 DEF Over
    <3>5. QED BY <1>1, <3>1, <3>2, <3>3, <3>4
  <2>3. QED BY <2>1, <2>2
<1>3. ASSUME NEW c \in Calls
      PROVE  /\ LastKept(c) \/ story' # story
             /\ BeforeKept(c, "before") /\ BeforeKept(c, "last")
             /\ CardRight(Blank, "last", call'[c], sub'[c], excuses')
  <2>1. \/ sub'[c] = sub[c]
        \/ sub[c] \in {"starting", "open", "working"} /\ sub'[c] = "unheard"
    BY <1>2
  <2>2. CASE call[c] \notin {"asked", "working"} /\ call'[c] = call[c]
    <3>1. \A card, place : CardRight(card, place, call[c], sub[c], excuses) =>
                             \A other : CardRight(card, other, call'[c], sub'[c], excuses')
      BY <1>2, <2>1, <2>2 DEF CardRight
    <3>2. QED BY <2>2, <3>1 DEF LastKept, BeforeKept, CardRight, Blank
  <2>3. CASE call[c] \in {"asked", "working"} /\ call'[c] = "lost"
    <3>1. \A card, place, other :
            CardRight(card, place, call[c], sub[c], excuses) =>
              CardRight(card, other, call'[c], sub'[c], excuses')
      BY <1>2, <2>1, <2>3, CallGivenUp
    <3>2. QED BY <2>3, <3>1 DEF LastKept, BeforeKept, CardRight, Blank
  <2>4. QED BY <1>2, <2>2, <2>3
<1>4. CASE story' = story
  BY <1>3, <1>4, CardsKept
<1>5. ASSUME NEW role \in {"user", "assistant"}, NEW text \in {"said", "note"},
             story' = Append(story, NewMessage(begun + 1, role, text))
      PROVE  Cards'
  <2> DEFINE m == NewMessage(begun + 1, role, text)
  <2>1. [c \in Calls |-> Blank] \in [Calls -> StreamCards]
    BY DEF Blank, StreamCards
  <2>2. m \in StreamMessages /\ \A c \in Calls : m.cards[c] = Blank
    BY <1>1, <2>1 DEF NewMessage, StreamMessages
  <2>3. story' = Append(story, m)
    BY <1>5
  <2> HIDE DEF m
  <2>4. \A c \in Calls : /\ CardRight(m.cards[c], "last", call'[c], sub'[c], excuses')
                         /\ BeforeKept(c, "before") /\ BeforeKept(c, "last")
    BY <1>3, <2>2
  <2>5. QED BY <2>2, <2>3, <2>4, CardsAdded
<1>6. QED BY <1>4, <1>5 DEF SendMessage, Abandon

\* The steps that leave the story alone.
LEMMA QuietCards ==
  ASSUME StreamInv, Cards,
         Iteration \/ StartTools \/ ToolsReturn \/ StreamEnds \/ Render \/ UNCHANGED streamVars
  PROVE  Cards'
<1>1. story' = story
  BY DEF Iteration, StartTools, ToolsReturn, StreamEnds, Render, streamVars, agentVars
<1>2. "lateEvent" \in excuses => "lateEvent" \in excuses'
  BY DEF Iteration, StartTools, ToolsReturn, StreamEnds, Render, streamVars
<1>3. ASSUME NEW c \in Calls PROVE LastKept(c) /\ BeforeKept(c, "before")
  <2>1. CASE call' = call /\ sub' = sub
    BY <1>1, <1>2, <2>1, CallKept DEF LastKept
  <2>2. CASE StartTools
    <3>1. \/ call'[c] = call[c] /\ sub'[c] = sub[c]
          \/ call[c] = "asked" /\ call'[c] = "working"
      BY <2>2 DEF StartTools
    <3>2. CASE call'[c] = call[c] /\ sub'[c] = sub[c]
      BY <1>1, <1>2, <3>2, CallKept DEF LastKept
    <3>3. CASE call[c] = "asked" /\ call'[c] = "working"
      <4>1. sub[c] = "none"
        BY <3>3 DEF StreamInv, Untested
      <4>2. \A card, place : CardRight(card, place, call[c], sub[c], excuses) =>
                               CardRight(card, place, call'[c], sub'[c], excuses')
        BY <1>2, <3>3, <4>1 DEF CardRight
      <4>3. QED BY <1>1, <4>2 DEF LastKept, BeforeKept
    <3>4. QED BY <3>1, <3>2, <3>3
  <2>3. CASE StreamEnds
    <3>1. call'[c] = call[c] /\ call[c] # "working"
      BY <2>3 DEF StreamEnds, StreamInv, Writing
    <3>2. sub'[c] = sub[c] \/ sub'[c] = "unheard"
      BY <2>3 DEF StreamEnds, Forget
    <3>3. \A card, place : CardRight(card, place, call[c], sub[c], excuses) =>
                             CardRight(card, place, call'[c], sub'[c], excuses')
      BY <1>2, <3>1, <3>2 DEF CardRight
    <3>4. QED BY <1>1, <3>3 DEF LastKept, BeforeKept
  <2>4. QED BY <2>1, <2>2, <2>3 DEF Iteration, ToolsReturn, Render, streamVars, agentVars
<1>4. QED BY <1>1, <1>3, CardsKept

LEMMA HeardStep ==
  ASSUME StreamInv, Heard, [StreamNext]_streamVars
  PROVE  Heard'
<1>0. /\ call \in [Calls -> {"none", "asked", "working", "resulted", "cut", "lost"}]
      /\ sub \in [Calls -> {"none", "starting", "open", "working", "over", "failed", "unheard"}]
  BY DEF StreamInv, StreamTypes
<1>1. CASE Think \/ Token \/ AgentDone \/ SendMessage \/ Iteration \/ ToolsReturn \/ Render
           \/ UNCHANGED streamVars
  <2>1. call' = call /\ sub' = sub
    BY <1>1 DEF Think, Token, AgentDone, SendMessage, Iteration, ToolsReturn, Render,
                streamVars, agentVars
  <2>2. QED BY <2>1 DEF Heard
<1>2. CASE AgentError
  BY <1>2 DEF AgentError, Heard
<1>3. CASE StartTools
  BY <1>3 DEF StartTools, Heard
<1>4. CASE StreamEnds \/ Abandon
  BY <1>4 DEF StreamEnds, Abandon, Forget, Heard, Over
<1>5. ASSUME NEW c \in Calls, ToolCall(c) PROVE Heard'
  BY <1>0, <1>5 DEF ToolCall, Heard
<1>6. ASSUME NEW c \in Calls, ToolResult(c) PROVE Heard'
  BY <1>0, <1>6 DEF ToolResult, Heard
<1>7. ASSUME NEW c \in Calls, BrowserEvent(c) PROVE Heard'
  <2>1. PICK from \in SUBSET {"starting", "open", "working"},
             to \in {"starting", "open", "working", "over", "failed"},
             card \in {Live(Card(c)), Ended(Card(c))}, lit \in {"on", "off", "same"} :
          SubEvent(c, from, to, card, lit)
    BY <1>7, BrowserWrites
  <2>2. sub[c] \in from /\ sub' = [sub EXCEPT ![c] = to] /\ call' = call
    BY <2>1 DEF SubEvent
  <2>3. QED BY <1>0, <2>1, <2>2 DEF Heard
<1>8. QED BY <1>1, <1>2, <1>3, <1>4, <1>5, <1>6, <1>7 DEF StreamNext

LEMMA CardsInvariant == StreamSpec => [](StreamInv /\ MessagesInv /\ Cards /\ Heard)
<1>1. StreamInit => Cards /\ Heard
  <2> SUFFICES ASSUME StreamInit PROVE Cards /\ Heard
    OBVIOUS
  <2>1. Len(story) = 0
    BY EmptySeq DEF StreamInit
  <2>2. QED BY <2>1 DEF StreamInit, Cards, Heard
<1>2. StreamInv /\ Cards /\ Heard /\ [StreamNext]_streamVars => Cards'
  <2> SUFFICES ASSUME StreamInv, Cards, Heard, [StreamNext]_streamVars PROVE Cards'
    OBVIOUS
  <2>1. QED BY WordsCards, ToolCallCards, ToolResultCards, BrowserCards, TellsCards, QuietCards
            DEF StreamNext
<1>3. StreamInv /\ Heard /\ [StreamNext]_streamVars => Heard'
  BY HeardStep
<1>4. QED BY <1>1, <1>2, <1>3, MessagesInvariant, PTL DEF StreamSpec

\* A card that is shown is one of the story.
LEMMA ShownIsCard ==
  ASSUME StreamInv, MessagesInv, Cards, Settled, "crowded" \notin excuses,
         NEW p \in ShownCards
  PROVE  /\ p[2] \in Calls /\ p[1].cards[p[2]].status # "none"
         /\ \E place \in {"last", "before"} :
              CardRight(p[1].cards[p[2]], place, call[p[2]], sub[p[2]], excuses)
<1>1. Shown = story /\ DOMAIN story = 1..Len(story)
  BY RenderedIsStory, MessagesAre, LenProperties
<1>2. PICK k \in 1..Len(story) : p[1] = story[k]
  BY <1>1 DEF ShownCards, ToSet
<1>3. p[2] \in Calls /\ p[1].cards[p[2]].status # "none"
  BY DEF ShownCards
<1>4. Place(k) \in {"last", "before"}
  BY DEF Place
<1>5. QED BY <1>2, <1>3, <1>4 DEF Cards

\* When everything is rendered, a card spins just when its call has no result: it is
\* still to come, or was cut off by an error of the model or by leaving the stream
\* (use-chat-state.ts, the events tool_call, tool_result and agent_error).
THEOREM SpinnersTellTruth == StreamSpec => []SpinnersHonest
<1>1. StreamInv /\ MessagesInv /\ Cards => SpinnersHonest
  <2> SUFFICES ASSUME StreamInv, MessagesInv, Cards, Settled, "crowded" \notin excuses,
                      NEW p \in ShownCards
               PROVE  Spinning(p[1].cards[p[2]]) <=> call[p[2]] # "resulted"
    BY DEF SpinnersHonest
  <2>1. PICK place \in {"last", "before"} :
          CardRight(p[1].cards[p[2]], place, call[p[2]], sub[p[2]], excuses)
    BY ShownIsCard
  <2>2. p[1].cards[p[2]].status # "none" /\ p[2] \in Calls
    BY ShownIsCard
  <2>3. call[p[2]] \in {"none", "asked", "working", "resulted", "cut", "lost"}
    BY <2>2 DEF StreamInv, StreamTypes
  <2>4. QED BY <2>1, <2>2, <2>3 DEF CardRight, Spinning
<1>2. QED BY <1>1, CardsInvariant, PTL

\* "Working" stands below a card only while its browser agent works, or when it was cut
\* off with its turn, or was heard of after the result of its call (agent.go
\* runBrowserTest, use-chat-state.ts updateAssistTranscript).
THEOREM TranscriptsTellTruth == StreamSpec => []TranscriptHonest
<1>1. StreamInv /\ MessagesInv /\ Cards => TranscriptHonest
  <2> SUFFICES ASSUME StreamInv, MessagesInv, Cards, Settled,
                      {"crowded", "lateEvent"} \cap excuses = {}, NEW p \in ShownCards,
                      Working(p[1].cards[p[2]])
               PROVE  sub[p[2]] \notin {"none", "over", "failed"}
    BY DEF TranscriptHonest
  <2>1. PICK place \in {"last", "before"} :
          CardRight(p[1].cards[p[2]], place, call[p[2]], sub[p[2]], excuses)
    BY ShownIsCard
  <2>2. QED BY <2>1 DEF CardRight, Working
<1>2. QED BY <1>1, CardsInvariant, PTL
=============================================================================
