---------------------------- MODULE PromptPromise ----------------------------
(***************************************************************************)
(* What a tool call may expect of a question it puts to the user, whether  *)
(* a permission prompt or AskUser: it ends once, with the answer the user  *)
(* gave to that very question, or without one, because the time ran out or *)
(* the turn was cancelled.  An answer is neither invented nor swapped,     *)
(* but for questions that share an id.                                     *)
(***************************************************************************)
CONSTANTS
  Ask,        \* the questions
  Silence     \* how a question ends without an answer: "timeout", "cancelled"

VARIABLES
  said,       \* said[a]: what the user has answered to question a, or "nothing"
  end,        \* end[a]: how a ended, "open" until then
  shared      \* questions with the id of another

promiseVars == <<said, end, shared>>

Init ==
  /\ said = [a \in Ask |-> "nothing"]
  /\ end = [a \in Ask |-> "open"]
  /\ shared = {}

Say(a, v) ==
  /\ said[a] = "nothing"
  /\ said' = [said EXCEPT ![a] = v]
  /\ UNCHANGED end

End(a) ==
  /\ end[a] = "open"
  /\ \E e \in Silence \cup (IF a \in shared THEN {"yes", "no"} ELSE {said[a]} \ {"nothing"}) :
       end' = [end EXCEPT ![a] = e]
  /\ UNCHANGED said

\* Ids come to be shared at any time, and remain so.
Next ==
  /\ shared \subseteq shared'
  /\ \/ UNCHANGED <<said, end>>
     \/ \E a \in Ask : End(a) \/ \E v \in {"yes", "no"} : Say(a, v)

Promise == Init /\ [][Next]_promiseVars
==============================================================================
