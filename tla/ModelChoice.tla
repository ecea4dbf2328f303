----------------------------- MODULE ModelChoice -----------------------------
(***************************************************************************)
(* The model the page shows as current (use-model.ts, model-selector.tsx)  *)
(* over the one the agent's client uses (llm/openrouter.go).               *)
(***************************************************************************)
EXTENDS Integers

CONSTANTS
  Models,   \* model ids the selector may show
  MaxPicks  \* bound: models picked and lists loaded

ASSUME ModelConstants == Models # {} /\ "none" \notin Models /\ MaxPicks \in Nat

VARIABLES
  agentModel,  \* the model of the agent's client
  pageModel,   \* currentModel
  modelCalls,  \* loadModels and selectModel under way
  picks,       \* calls so far
  swapped      \* the page may show another model than the agent's (history)

modelVars == <<agentModel, pageModel, modelCalls, picks, swapped>>

LoadAsked == [kind |-> "load", at |-> "asked", n |-> picks, model |-> "none"]

ModelInit ==
  /\ agentModel \in Models /\ pageModel = "none" /\ picks = 0 /\ swapped = FALSE
  /\ modelCalls = {LoadAsked}

\* Closing the dialog loads the models; a choice in the selector sets one.
LoadModels ==
  /\ picks < MaxPicks /\ picks' = picks + 1
  /\ modelCalls' = modelCalls \cup {[LoadAsked EXCEPT !.n = picks']}
  /\ UNCHANGED <<agentModel, pageModel, swapped>>

SelectModel(m) ==
  /\ picks < MaxPicks /\ picks' = picks + 1
  /\ modelCalls' = modelCalls \cup {[kind |-> "select", at |-> "asked", n |-> picks', model |-> m]}
  /\ UNCHANGED <<agentModel, pageModel, swapped>>

\* SetModel of an id that is gone takes the default model.  An earlier answer
\* still to come will show another one.
SelectRuns(c) ==
  /\ c \in modelCalls /\ c.kind = "select" /\ c.at = "asked"
  /\ \E m \in Models :
       /\ agentModel' = m
       /\ swapped' = (swapped \/ m # c.model \/ \E d \in modelCalls : d.at = "done")
       /\ modelCalls' = (modelCalls \ {c}) \cup {[c EXCEPT !.at = "done"]}
  /\ UNCHANGED <<pageModel, picks>>

SelectAnswered_Forgets(c) ==
  /\ c \in modelCalls /\ c.kind = "select" /\ c.at = "done"
  /\ modelCalls' = modelCalls \ {c}
  /\ UNCHANGED <<agentModel, pageModel, picks, swapped>>
SelectAnswered(c) ==
  /\ c \in modelCalls /\ c.kind = "select" /\ c.at = "done"
  /\ pageModel' = c.model /\ modelCalls' = modelCalls \ {c}
  /\ UNCHANGED <<agentModel, picks, swapped>>

\* Read with nothing else under way, the model will be the agent's.
LoadRuns(c) ==
  /\ c \in modelCalls /\ c.kind = "load" /\ c.at = "asked"
  /\ modelCalls' = (modelCalls \ {c}) \cup {[c EXCEPT !.at = "done", !.model = agentModel]}
  /\ swapped' = (swapped /\ modelCalls # {c})
  /\ UNCHANGED <<agentModel, pageModel, picks>>

LoadModelsAnswered(c) ==
  /\ c \in modelCalls /\ c.kind = "load" /\ c.at = "done"
  /\ pageModel' = c.model /\ modelCalls' = modelCalls \ {c}
  /\ UNCHANGED <<agentModel, picks, swapped>>

\* The model chosen for the browser agent is set on the client they share.
BrowserChooses(m) ==
  /\ picks < MaxPicks /\ picks' = picks + 1
  /\ agentModel' = m /\ swapped' = TRUE
  /\ UNCHANGED <<pageModel, modelCalls>>

ModelNext ==
  \/ LoadModels
  \/ \E m \in Models : SelectModel(m) \/ BrowserChooses(m)
  \/ \E c \in modelCalls :
       SelectRuns(c) \/ SelectAnswered(c) \/ LoadRuns(c) \/ LoadModelsAnswered(c)

ModelSpec == ModelInit /\ [][ModelNext]_modelVars

-----------------------------------------------------------------------------
\* When nothing is under way the page shows the agent's model, unless it was
\* set before an earlier answer came, was gone, or was chosen for the browser
\* agent, and no load has read it since (use-model.ts).
ModelAgrees == modelCalls = {} /\ ~swapped => pageModel = agentModel
=============================================================================
