------------------------- MODULE ServerManagerProofs -------------------------
(***************************************************************************)
(* ServerManager, for every number of managers, goroutines, directories    *)
(* and processes: its types, that no running server is lost (Tracked), and *)
(* then the generations of a server and the registry file.                 *)
(***************************************************************************)
EXTENDS ServerManager, TLAPS

\* A call that has passed its lookup or registration knows its instance.  This
\* is what makes the types inductive: RestartServer and a successful start read
\* sm.servers[id] when they end.
Before == {"check", "spawn", "register"}
InHand ==
  \A t \in Thread :
    /\ pc[t] \in Before => op[t] = "start"
    /\ pc[t] \notin Before \cup {"idle"} /\ op[t] # "failed" => cur[t] \in Ids

LEMMA LabelFacts ==
  /\ {"idle", "check", "spawn", "register", "wait", "ready"} \subseteq Labels
  /\ {"failKill", "failDelete", "persist", "truncate", "write", "done"} \subseteq Labels
  /\ {"stopLookup", "stopCheck", "stopKill", "stopWait", "stopDelete"} \subseteq Labels
  /\ {"none", "start", "failed", "stop", "restart", "stopAll"} \subseteq Ops
  /\ {"starting", "running", "stopped"} \subseteq Status
BY DEF Labels, Ops, Status

\* Setting the status of an instance keeps the registry's type.
LEMMA InstStatusType ==
  ASSUME NEW f \in [Manager -> [Ids -> Instances]], NEW m \in Manager, NEW i,
         NEW s \in Status
  PROVE  [f EXCEPT ![m][i].status = s] \in [Manager -> [Ids -> Instances]]
<1>1. ASSUME NEW g \in [Ids -> Instances]
      PROVE  [g EXCEPT ![i].status = s] \in [Ids -> Instances]
  BY DEF Instances
<1>2. [f EXCEPT ![m] = [@ EXCEPT ![i].status = s]] = [f EXCEPT ![m][i].status = s]
  OBVIOUS
<1>3. [f[m] EXCEPT ![i].status = s] \in [Ids -> Instances]
  BY <1>1
<1>4. QED BY <1>2, <1>3

\* The same for the members of one process tree.
LEMMA LiveType ==
  ASSUME NEW f \in [Pid -> SUBSET Tree], NEW p, NEW s, p \in Pid => s \subseteq Tree
  PROVE  [f EXCEPT ![p] = s] \in [Pid -> SUBSET Tree]
<1>1. CASE p \in Pid     BY <1>1
<1>2. CASE p \notin Pid  BY <1>2
<1>3. QED BY <1>1, <1>2

\* Counting processes and numbers.
LEMMA NextPidRange ==
  ASSUME NEW n \in Pid
  PROVE  n \in Nat /\ n + 1 \in 1..(MaxPid + 1)
<1>1. MaxPid \in Nat  BY ManagerAssumption
<1>2. QED BY <1>1 DEF Pid

LEMMA NextNumberRange == 1..(MaxPid + 1) \subseteq Nat \ {0}
<1>1. MaxPid \in Nat  BY ManagerAssumption
<1>2. QED BY <1>1

LEMMA NextIDType ==
  ASSUME NEW f \in [Manager -> Nat \ {0}], NEW m \in Manager
  PROVE  [f EXCEPT ![m] = f[m] + 1] \in [Manager -> Nat \ {0}]
<1>1. \A k \in Nat \ {0} : k + 1 \in Nat \ {0}  OBVIOUS
<1>2. QED BY <1>1

\* StartServer's steps keep the types.
LEMMA StartingType ==
  ASSUME TypeOK, NEW t \in Thread, Starting(t)
  PROVE  TypeOK'
<1> USE ManagerAssumption, LabelFacts
<1>0. /\ pc \in [Thread -> Labels] /\ op \in [Thread -> Ops]
      /\ dir \in [Thread -> Path] /\ new \in [Thread -> Pid \cup {0}]
      /\ cur \in [Thread -> Ids \cup {0}] /\ live \in [Pid -> SUBSET Tree]
      /\ servers \in [Manager -> SUBSET Ids] /\ kids \in [Manager -> SUBSET Pid]
      /\ inst \in [Manager -> [Ids -> Instances]] /\ nextID \in [Manager -> Nat \ {0}]
      /\ Home[t] \in Manager /\ MaxPid \in Nat
  BY DEF TypeOK, ManagerAssumption
<1>1. CASE Check(t)
  <2>1. dir' = dir \/ dir' = [dir EXCEPT ![t] = Abs[dir[t]]]
    BY <1>1 DEF Check
  <2>2. pc' = [pc EXCEPT ![t] = "done"] \/ pc' = [pc EXCEPT ![t] = "spawn"]
    BY <1>1 DEF Check, Goto
  <2>3. \E i \in Ids \cup {0} : cur' = [cur EXCEPT ![t] = i]
    BY <1>1, <1>0 DEF Check, Reusable, Mgr
  <2>4. dir' \in [Thread -> Path]
    BY <1>0, <2>1
  <2>5. pc' \in [Thread -> Labels]
    BY <1>0, <2>2
  <2>6. cur' \in [Thread -> Ids \cup {0}]
    BY <1>0, <2>3
  <2>7. QED BY <1>1, <2>4, <2>5, <2>6 DEF TypeOK, Check, osVars, mapVars, histVars
<1>2. CASE SpawnFails(t)
  BY <1>2 DEF TypeOK, SpawnFails, GiveUp, Goto, osVars, mapVars, histVars
<1>3. CASE Spawn(t)
  <2>a. nextPid \in Pid /\ nextPid' = nextPid + 1
    BY <1>3 DEF Spawn
  <2>1. nextPid \in Pid /\ nextPid' \in 1..(MaxPid + 1)
    BY <2>a, NextPidRange
  <2>2. PICK s \in SUBSET Tree : live' = [live EXCEPT ![nextPid] = s]
    BY <1>3 DEF Spawn
  <2>3. live' \in [Pid -> SUBSET Tree]
    BY <1>0, <2>1, <2>2
  <2>4. kids' \in [Manager -> SUBSET Pid]
    BY <1>0, <1>3, <2>1 DEF Spawn, Mgr
  <2>5. pc' \in [Thread -> Labels] /\ new' \in [Thread -> Pid \cup {0}]
    BY <1>0, <1>3, <2>1 DEF Spawn, Goto
  <2>6. QED BY <1>3, <2>1, <2>3, <2>4, <2>5 DEF TypeOK, Spawn, mapVars
<1>4. CASE Register(t)
  <2> DEFINE m == Mgr(t)  n == nextID[m]
  <2>1. m \in Manager /\ n \in Ids
    BY <1>4 DEF Register, Mgr
  <2>2. NewInstance(new[t], dir[t]) \in Instances
    BY <1>0 DEF NewInstance, Instances
  <2>3. inst' = [inst EXCEPT ![m] = [@ EXCEPT ![n] = NewInstance(new[t], dir[t])]]
    BY <1>4 DEF Register
  <2>4. inst' \in [Manager -> [Ids -> Instances]]
    BY <1>0, <2>1, <2>2, <2>3
  <2>5. /\ servers' = [servers EXCEPT ![m] = @ \cup {n}]
        /\ nextID' = [nextID EXCEPT ![m] = n + 1]
    BY <1>4 DEF Register
  <2>8. servers' \in [Manager -> SUBSET Ids]
    BY <1>0, <2>1, <2>5
  <2>9. nextID' \in [Manager -> Nat \ {0}]
    BY <1>0, <2>1, <2>5, NextIDType
  <2>6. /\ pc' \in [Thread -> Labels] /\ cur' \in [Thread -> Ids \cup {0}]
        /\ new' \in [Thread -> Pid \cup {0}] /\ dir' \in [Thread -> Path]
    BY <1>0, <1>4, <2>1 DEF Register, Goto, NoPath
  <2>7. QED
    BY <1>4, <2>4, <2>6, <2>8, <2>9 DEF TypeOK, Register, osVars, histVars
<1>5. CASE Ready(t) \/ NotReady(t)
  <2>1. /\ Advance(t, "wait", "ready") \/ Advance(t, "wait", "failKill")
        /\ UNCHANGED <<osVars, mapVars, file, histVars>>
    BY <1>5 DEF Ready, NotReady
  <2>2. pc' \in [Thread -> Labels]
    BY <1>0, <2>1 DEF Advance, Goto
  <2>3. UNCHANGED <<up, callVars>>
    BY <2>1 DEF Advance
  <2>4. QED
    BY <2>1, <2>2, <2>3 DEF TypeOK, callVars, osVars, mapVars, histVars
<1>6. CASE FailKill(t)
  <2>1. live' \in [Pid -> SUBSET Tree]
    BY <1>0, <1>6, LiveType DEF FailKill, KillRoot
  <2>2. QED
    BY <1>6, <2>1 DEF TypeOK, FailKill, Advance, Goto, callVars, mapVars, histVars
<1>7. CASE FailDelete(t)
  BY <1>7 DEF TypeOK, FailDelete, Delete, Goto, osVars, histVars
<1>8. CASE FinishStart(t)
  <2>1. inst' \in [Manager -> [Ids -> Instances]]
    BY <1>0, <1>8, InstStatusType DEF FinishStart, SetStatus, Mgr
  <2>2. QED
    BY <1>8, <2>1 DEF TypeOK, FinishStart, Advance, Goto, callVars, osVars, histVars
<1>9. QED
  BY <1>1, <1>2, <1>3, <1>4, <1>5, <1>6, <1>7, <1>8 DEF Starting

\* StopServer's steps keep the types.
LEMMA StoppingType ==
  ASSUME TypeOK, NEW t \in Thread, Stopping(t)
  PROVE  TypeOK'
<1> USE ManagerAssumption, LabelFacts
<1>0. /\ pc \in [Thread -> Labels] /\ op \in [Thread -> Ops]
      /\ live \in [Pid -> SUBSET Tree] /\ servers \in [Manager -> SUBSET Ids]
      /\ inst \in [Manager -> [Ids -> Instances]] /\ Home[t] \in Manager
      /\ started \in SUBSET (Pid \cup {0})
  BY DEF TypeOK
<1>1. ASSUME GiveUp(t) PROVE TypeOK'
  BY <1>1 DEF TypeOK, GiveUp, Goto, osVars, mapVars, histVars
<1>2. CASE StopLookup(t)
  <2>1. CASE Advance(t, "stopLookup", "stopCheck") /\ UNCHANGED <<osVars, mapVars, file, histVars>>
    BY <2>1 DEF TypeOK, Advance, Goto, callVars, osVars, mapVars, histVars
  <2>2. QED BY <1>1, <1>2, <2>1 DEF StopLookup
<1>3. CASE StopCheck(t)
  <2>1. CASE Advance(t, "stopCheck", "stopKill") /\ UNCHANGED <<osVars, mapVars, file, histVars>>
    BY <2>1 DEF TypeOK, Advance, Goto, callVars, osVars, mapVars, histVars
  <2>2. QED BY <1>1, <1>3, <2>1 DEF StopCheck
<1>4. CASE StopKill(t)
  <2>1. PICK s \in SUBSET live[Cur(t).pid] : live' = [live EXCEPT ![Cur(t).pid] = s]
    BY <1>4 DEF StopKill
  <2>2. live' \in [Pid -> SUBSET Tree]
    BY <1>0, <2>1, LiveType
  <2>3. pc' \in [Thread -> Labels]
    BY <1>0, <1>4 DEF StopKill, Goto
  <2>4. QED
    BY <1>4, <2>2, <2>3 DEF TypeOK, StopKill, callVars, mapVars, histVars
<1>5. CASE StopWait(t)
  <2>1. live' \in [Pid -> SUBSET Tree]
    BY <1>0, <1>5, LiveType DEF StopWait, KillRoot
  <2>2. QED
    BY <1>5, <2>1 DEF TypeOK, StopWait, Advance, Goto, callVars, mapVars, histVars
<1>6. CASE StopDelete(t)
  <2>1. inst' \in [Manager -> [Ids -> Instances]]
    BY <1>0, <1>6, InstStatusType DEF StopDelete, SetStatus, Mgr
  <2>2. servers' \in [Manager -> SUBSET Ids]
    BY <1>0, <1>6 DEF StopDelete, Delete
  <2>3. QED
    BY <1>6, <2>1, <2>2 DEF TypeOK, StopDelete, Advance, Goto, callVars, osVars
<1>7. QED
  BY <1>2, <1>3, <1>4, <1>5, <1>6 DEF Stopping

\* persist's steps and the end of a call keep the types.
LEMMA SavingType ==
  ASSUME TypeOK, InHand, NEW t \in Thread, Saving(t)
  PROVE  TypeOK'
<1> USE LabelFacts
<1>0. /\ pc \in [Thread -> Labels] /\ op \in [Thread -> Ops]
      /\ dir \in [Thread -> Path] /\ snap \in [Thread -> SUBSET Records]
      /\ cur \in [Thread -> Ids \cup {0}] /\ todo \in [Thread -> SUBSET Ids]
      /\ servers \in [Manager -> SUBSET Ids] /\ kids \in [Manager -> SUBSET Pid]
      /\ inst \in [Manager -> [Ids -> Instances]] /\ up \in [Manager -> BOOLEAN]
      /\ started \in SUBSET (Pid \cup {0})
      /\ file \in [state : {"absent", "ok", "torn"}, recs : SUBSET Records]
      /\ Home[t] \in Manager /\ NoPath \in Path /\ Persistent \in BOOLEAN
  BY ManagerAssumption DEF TypeOK, ManagerAssumption, NoPath
<1>1. CASE Persist(t)
  <2>1. Snapshot(Mgr(t)) \in SUBSET Records
    BY <1>0 DEF Snapshot, Records, Instances, Mgr
  <2>2. snap' \in [Thread -> SUBSET Records]
    BY <1>0, <1>1, <2>1 DEF Persist
  <2>3. pc' \in [Thread -> Labels]
    BY <1>0, <1>1 DEF Persist, Goto
  <2>4. QED BY <1>1, <2>2, <2>3 DEF TypeOK, Persist, osVars, mapVars, histVars
<1>2. CASE Truncate(t)
  <2>1. file' \in [state : {"absent", "ok", "torn"}, recs : SUBSET Records]
    BY <1>2 DEF Truncate
  <2>2. QED
    BY <1>2, <2>1 DEF TypeOK, Truncate, Advance, Goto, callVars, osVars, mapVars, histVars
<1>3. CASE Write(t)
  <2>1. file' \in [state : {"absent", "ok", "torn"}, recs : SUBSET Records]
    BY <1>0, <1>3 DEF Write
  <2>2. QED
    BY <1>3, <2>1 DEF TypeOK, Write, Advance, Goto, callVars, osVars, mapVars, histVars
<1>4. CASE Done(t)
  <2>1. op[t] \in {"start", "restart"} => Cur(t) \in Instances
    BY <1>0, <1>4 DEF InHand, Before, Done, At, Cur, Mgr
  <2>2. op[t] \in {"start", "restart"} => Cur(t).dir \in Path /\ Cur(t).pid \in Pid \cup {0}
    BY <2>1 DEF Instances
  <2>3. started' \in SUBSET (Pid \cup {0})
    BY <1>0, <1>4, <2>2 DEF Done
  <2>4. CASE op[t] = "restart" /\ Finish(t)
    <3>1. /\ pc' = [pc EXCEPT ![t] = "check"] /\ op' = [op EXCEPT ![t] = "start"]
          /\ dir' = [dir EXCEPT ![t] = Cur(t).dir]
          /\ UNCHANGED <<up, cur, new, todo, snap, kids>>
      BY <2>4 DEF Finish, Goto
    <3>2. /\ pc' \in [Thread -> Labels] /\ op' \in [Thread -> Ops]
          /\ dir' \in [Thread -> Path]
      BY <1>0, <2>2, <2>4, <3>1
    <3>3. QED BY <1>4, <2>3, <3>1, <3>2 DEF TypeOK, Done, osVars, mapVars
  <2>5. CASE op[t] = "stopAll" /\ todo[t] # {} /\ Finish(t)
    <3>1. PICK i \in todo[t] : /\ cur' = [cur EXCEPT ![t] = i]
                               /\ todo' = [todo EXCEPT ![t] = @ \ {i}]
      BY <2>5 DEF Finish
    <3>2. /\ pc' = [pc EXCEPT ![t] = "stopLookup"]
          /\ UNCHANGED <<up, op, new, dir, snap, kids>>
      BY <2>5 DEF Finish, Goto
    <3>3. /\ cur' \in [Thread -> Ids \cup {0}] /\ todo' \in [Thread -> SUBSET Ids]
      BY <1>0, <3>1
    <3>4. pc' \in [Thread -> Labels]
      BY <1>0, <3>2
    <3>5. QED BY <1>4, <2>3, <3>2, <3>3, <3>4 DEF TypeOK, Done, osVars, mapVars
  <2>6. CASE ~(op[t] = "restart") /\ ~(op[t] = "stopAll" /\ todo[t] # {}) /\ Finish(t)
    <3>1. /\ pc' = [pc EXCEPT ![t] = "idle"] /\ op' = [op EXCEPT ![t] = "none"]
          /\ snap' = [snap EXCEPT ![t] = {}] /\ cur' = [cur EXCEPT ![t] = 0]
          /\ dir' = [dir EXCEPT ![t] = NoPath]
          /\ up' = [up EXCEPT ![Mgr(t)] = ~Persistent]
          /\ kids' = [kids EXCEPT ![Mgr(t)] = IF Persistent THEN {} ELSE @]
          /\ UNCHANGED <<new, todo>>
      BY <2>6 DEF Finish, Goto
    <3>2. /\ pc' \in [Thread -> Labels] /\ op' \in [Thread -> Ops]
          /\ snap' \in [Thread -> SUBSET Records] /\ dir' \in [Thread -> Path]
          /\ cur' \in [Thread -> Ids \cup {0}]
      BY <1>0, <3>1
    <3>3. up' \in [Manager -> BOOLEAN] /\ kids' \in [Manager -> SUBSET Pid]
      BY <1>0, <3>1
    <3>4. QED BY <1>4, <2>3, <3>1, <3>2, <3>3 DEF TypeOK, Done, osVars, mapVars
  <2>7. QED BY <1>4, <2>4, <2>5, <2>6 DEF Done
<1>5. QED BY <1>1, <1>2, <1>3, <1>4 DEF Saving

\* The environment's steps and the beginning of a call keep the types.
LEMMA OtherType ==
  ASSUME TypeOK,
         \/ \E p \in Pid : Exits(p)
         \/ \E m \in Manager : Boot(m) \/ Crash(m)
         \/ \E t \in Thread : Call(t)
  PROVE  TypeOK'
<1> USE LabelFacts
<1>0. /\ pc \in [Thread -> Labels] /\ op \in [Thread -> Ops]
      /\ dir \in [Thread -> Path] /\ snap \in [Thread -> SUBSET Records]
      /\ cur \in [Thread -> Ids \cup {0}] /\ todo \in [Thread -> SUBSET Ids]
      /\ servers \in [Manager -> SUBSET Ids] /\ kids \in [Manager -> SUBSET Pid]
      /\ inst \in [Manager -> [Ids -> Instances]] /\ up \in [Manager -> BOOLEAN]
      /\ new \in [Thread -> Pid \cup {0}] /\ nextID \in [Manager -> Nat \ {0}]
      /\ live \in [Pid -> SUBSET Tree]
      /\ file \in [state : {"absent", "ok", "torn"}, recs : SUBSET Records]
      /\ Arg \subseteq Path /\ NoPath \in Path /\ Home \in [Thread -> Manager]
  BY ManagerAssumption DEF TypeOK, ManagerAssumption, NoPath
<1>1. ASSUME NEW p \in Pid, Exits(p) PROVE TypeOK'
  <2>1. live' \in [Pid -> SUBSET Tree]
    BY <1>0, <1>1 DEF Exits
  <2>2. QED
    BY <1>1, <2>1 DEF TypeOK, Exits, threadVars, callVars, mapVars, histVars
<1>2. ASSUME NEW m \in Manager, Boot(m) PROVE TypeOK'
  <2> DEFINE recs == IF Persistent THEN AliveRecords(file.recs) ELSE {}
             used == {r.id : r \in recs}
             pick(i) == CHOOSE r \in recs : r.id = i
  <2>1. recs \subseteq Records
    BY <1>0 DEF AliveRecords
  <2>2. used \subseteq Ids
    BY <2>1 DEF Records
  <2>3. \A i \in used : pick(i) \in Records
    BY <2>1
  <2>4. \A i \in Ids : (IF i \in used
           THEN [pid |-> pick(i).pid, dir |-> pick(i).dir, status |-> "running", cmd |-> FALSE]
           ELSE NoInst) \in Instances
    BY <1>0, <2>3 DEF Records, Instances, NoInst
  <2>5. inst' = [inst EXCEPT ![m] = [i \in Ids |-> IF i \in used
           THEN [pid |-> pick(i).pid, dir |-> pick(i).dir, status |-> "running", cmd |-> FALSE]
           ELSE NoInst]]
    BY <1>2 DEF Boot
  <2> HIDE DEF pick, used, recs
  <2>6. inst' \in [Manager -> [Ids -> Instances]]
    BY <1>0, <2>4, <2>5
  <2>7. servers' = [servers EXCEPT ![m] = used] /\ up' = [up EXCEPT ![m] = TRUE]
    BY <1>2 DEF Boot, used, recs
  <2>8. servers' \in [Manager -> SUBSET Ids] /\ up' \in [Manager -> BOOLEAN]
    BY <1>0, <2>2, <2>7
  <2>9. PICK n \in 1..(MaxPid + 1) : nextID' = [nextID EXCEPT ![m] = n]
    BY <1>2 DEF Boot
  <2>10. n \in Nat \ {0}
    BY <2>9, NextNumberRange
  <2>11. nextID' \in [Manager -> Nat \ {0}]
    BY <1>0, <2>9, <2>10
  <2>12. QED
    BY <1>2, <2>6, <2>8, <2>11 DEF TypeOK, Boot, osVars, threadVars, callVars, histVars
<1>3. ASSUME NEW m \in Manager, Crash(m) PROVE TypeOK'
  <2>1. Leave(m)
    BY <1>3 DEF Crash
  <2>2. /\ pc' \in [Thread -> Labels] /\ op' \in [Thread -> Ops]
        /\ cur' \in [Thread -> Ids \cup {0}] /\ new' \in [Thread -> Pid \cup {0}]
        /\ dir' \in [Thread -> Path] /\ todo' \in [Thread -> SUBSET Ids]
        /\ snap' \in [Thread -> SUBSET Records]
    BY <1>0, <2>1 DEF Leave
  <2>3. up' \in [Manager -> BOOLEAN] /\ kids' \in [Manager -> SUBSET Pid]
    BY <1>0, <2>1 DEF Leave
  <2>4. QED BY <2>1, <2>2, <2>3 DEF TypeOK, Leave, osVars, mapVars
<1>4. ASSUME NEW t \in Thread, Call(t) PROVE TypeOK'
  <2>1. ASSUME NEW d \in Arg, CallStart(t, d) PROVE TypeOK'
    <3>1. /\ pc' \in [Thread -> Labels] /\ op' \in [Thread -> Ops]
          /\ dir' \in [Thread -> Path]
      BY <1>0, <2>1 DEF CallStart, Goto
    <3>2. QED BY <2>1, <3>1 DEF TypeOK, CallStart, osVars, mapVars, histVars
  <2>2. ASSUME NEW o \in {"stop", "restart", "stopAll"}, NEW i \in Ids, CallOn(t, o, i),
               todo' \in [Thread -> SUBSET Ids]
        PROVE  TypeOK'
    <3>1. /\ pc' \in [Thread -> Labels] /\ op' \in [Thread -> Ops]
          /\ cur' \in [Thread -> Ids \cup {0}]
      BY <1>0, <2>2 DEF CallOn, Goto
    <3>2. QED BY <2>2, <3>1 DEF TypeOK, CallOn, osVars, mapVars, histVars
  <2>3. ASSUME NEW i \in Ids, CallStop(t, i) \/ CallRestart(t, i) PROVE TypeOK'
    BY <1>0, <2>2, <2>3 DEF CallStop, CallRestart
  <2>4. CASE CallStopAll(t)
    <3>1. servers[Mgr(t)] \in SUBSET Ids
      BY <1>0 DEF Mgr
    <3>2. PICK i \in servers[Mgr(t)] :
            CallOn(t, "stopAll", i) /\ todo' = [todo EXCEPT ![t] = servers[Mgr(t)] \ {i}]
      BY <2>4 DEF CallStopAll
    <3>3. todo' \in [Thread -> SUBSET Ids]
      BY <1>0, <3>1, <3>2
    <3>4. QED BY <2>2, <3>1, <3>2, <3>3
  <2>5. QED BY <1>4, <2>1, <2>3, <2>4 DEF Call
<1>5. QED BY <1>1, <1>2, <1>3, <1>4

-----------------------------------------------------------------------------
(* Steps of a call, seen through the thread's own variables.               *)

\* A step that moves thread t to label l, in operation o with instance i, keeps
\* InHand if the new values satisfy it.
LEMMA InHandKept ==
  ASSUME TypeOK, InHand, NEW t \in Thread, NEW l, NEW o, NEW i,
         pc' = [pc EXCEPT ![t] = l], op' = [op EXCEPT ![t] = o],
         cur' = [cur EXCEPT ![t] = i],
         l \in Before => o = "start",
         l \notin Before \cup {"idle"} /\ o # "failed" => i \in Ids
  PROVE  InHand'
<1>1. /\ pc \in [Thread -> Labels] /\ op \in [Thread -> Ops]
      /\ cur \in [Thread -> Ids \cup {0}]
  BY DEF TypeOK
<1>2. /\ pc'[t] = l /\ op'[t] = o /\ cur'[t] = i
      /\ \A u \in Thread \ {t} : pc'[u] = pc[u] /\ op'[u] = op[u] /\ cur'[u] = cur[u]
  BY <1>1
<1>3. QED BY <1>2 DEF InHand

\* A step that only moves on keeps operation and instance.
LEMMA AdvanceInHand ==
  ASSUME TypeOK, InHand, NEW t \in Thread, NEW k, NEW l,
         Advance(t, k, l) \/ (At(t, k) /\ Goto(t, l) /\ UNCHANGED <<op, cur>>),
         k \notin Before \cup {"idle"}, l \notin Before
  PROVE  InHand'
<1>1. /\ pc \in [Thread -> Labels] /\ op \in [Thread -> Ops]
      /\ cur \in [Thread -> Ids \cup {0}]
  BY DEF TypeOK
<1>2. /\ pc[t] = k /\ pc' = [pc EXCEPT ![t] = l]
      /\ op' = [op EXCEPT ![t] = op[t]] /\ cur' = [cur EXCEPT ![t] = cur[t]]
  BY <1>1 DEF Advance, At, Goto, callVars
<1>3. op[t] # "failed" => cur[t] \in Ids
  BY <1>2 DEF InHand
<1>4. QED BY <1>2, <1>3, InHandKept

LEMMA InHandStep ==
  ASSUME TypeOK, InHand, [Next]_vars
  PROVE  InHand'
<1> USE DEF Before
<1>0. /\ pc \in [Thread -> Labels] /\ op \in [Thread -> Ops]
      /\ cur \in [Thread -> Ids \cup {0}] /\ todo \in [Thread -> SUBSET Ids]
      /\ servers \in [Manager -> SUBSET Ids] /\ Home \in [Thread -> Manager]
  BY ManagerAssumption DEF TypeOK, ManagerAssumption
<1>1. ASSUME UNCHANGED <<pc, op, cur>> PROVE InHand'
  BY <1>1 DEF InHand
<1>2. CASE \/ UNCHANGED vars
           \/ \E p \in Pid : Exits(p)
           \/ \E m \in Manager : Boot(m)
  BY <1>1, <1>2 DEF vars, threadVars, callVars, Exits, Boot
<1>3. ASSUME NEW m \in Manager, Crash(m) PROVE InHand'
  BY <1>0, <1>3 DEF InHand, Crash, Leave
<1>4. ASSUME NEW t \in Thread, Call(t) PROVE InHand'
  <2>1. ASSUME NEW d, CallStart(t, d) PROVE InHand'
    <3>1. /\ pc' = [pc EXCEPT ![t] = "check"] /\ op' = [op EXCEPT ![t] = "start"]
          /\ cur' = [cur EXCEPT ![t] = cur[t]]
      BY <1>0, <2>1 DEF CallStart, Goto
    <3>2. QED BY <3>1, InHandKept
  <2>2. ASSUME NEW o, NEW i \in Ids, CallOn(t, o, i) PROVE InHand'
    <3>1. /\ pc' = [pc EXCEPT ![t] = "stopLookup"] /\ op' = [op EXCEPT ![t] = o]
          /\ cur' = [cur EXCEPT ![t] = i]
      BY <2>2 DEF CallOn, Goto
    <3>2. QED BY <3>1, InHandKept
  <2>3. servers[Mgr(t)] \subseteq Ids
    BY <1>0 DEF Mgr
  <2>4. QED BY <1>4, <2>1, <2>2, <2>3 DEF Call, CallStop, CallRestart, CallStopAll
<1>5. ASSUME NEW t \in Thread, At(t, "spawn") \/ At(t, "stopLookup") \/ At(t, "stopCheck"),
             GiveUp(t)
      PROVE  InHand'
  <2>1. PICK o : /\ op' = [op EXCEPT ![t] = o]
                 /\ o = IF op[t] = "stopAll" THEN "stopAll" ELSE "failed"
    BY <1>5 DEF GiveUp
  <2>2. /\ pc' = [pc EXCEPT ![t] = "done"] /\ cur' = [cur EXCEPT ![t] = cur[t]]
    BY <1>0, <1>5 DEF GiveUp, Goto
  <2>3. op[t] = "stopAll" => cur[t] \in Ids
    BY <1>5 DEF At, InHand
  <2>4. QED BY <2>1, <2>2, <2>3, InHandKept
<1>6. ASSUME NEW t \in Thread, Starting(t) PROVE InHand'
  <2>1. CASE Check(t)
    <3>1. op[t] = "start" /\ op' = [op EXCEPT ![t] = op[t]]
      BY <1>0, <2>1 DEF Check, At, InHand
    <3>2. CASE pc' = [pc EXCEPT ![t] = "spawn"] /\ cur' = [cur EXCEPT ![t] = 0]
      BY <3>1, <3>2, InHandKept
    <3>3. CASE /\ pc' = [pc EXCEPT ![t] = "done"]
               /\ \E i \in Ids : cur' = [cur EXCEPT ![t] = i]
      BY <3>1, <3>3, InHandKept
    <3>4. Reusable(Mgr(t), dir[t]) \subseteq Ids
      BY <1>0 DEF Reusable, Mgr
    <3>5. QED BY <2>1, <3>2, <3>3, <3>4 DEF Check, Goto
  <2>2. CASE SpawnFails(t)
    BY <1>5, <2>2 DEF SpawnFails
  <2>3. CASE Spawn(t)
    <3>1. /\ op[t] = "start" /\ op' = [op EXCEPT ![t] = op[t]]
          /\ pc' = [pc EXCEPT ![t] = "register"] /\ cur' = [cur EXCEPT ![t] = cur[t]]
      BY <1>0, <2>3 DEF Spawn, At, Goto, InHand
    <3>2. QED BY <3>1, InHandKept
  <2>4. CASE Register(t)
    <3>1. /\ op' = [op EXCEPT ![t] = op[t]] /\ pc' = [pc EXCEPT ![t] = "wait"]
          /\ cur' = [cur EXCEPT ![t] = nextID[Mgr(t)]] /\ nextID[Mgr(t)] \in Ids
      BY <1>0, <2>4 DEF Register, Goto
    <3>2. QED BY <3>1, InHandKept
  <2>5. CASE Ready(t)      BY <2>5, AdvanceInHand DEF Ready
  <2>6. CASE NotReady(t)   BY <2>6, AdvanceInHand DEF NotReady
  <2>7. CASE FailKill(t)   BY <2>7, AdvanceInHand DEF FailKill
  <2>8. CASE FinishStart(t)  BY <2>8, AdvanceInHand DEF FinishStart
  <2>9. CASE FailDelete(t)
    <3>1. /\ op' = [op EXCEPT ![t] = "failed"] /\ pc' = [pc EXCEPT ![t] = "persist"]
          /\ cur' = [cur EXCEPT ![t] = cur[t]]
      BY <1>0, <2>9 DEF FailDelete, Goto
    <3>2. QED BY <3>1, InHandKept
  <2>10. QED
    BY <1>6, <2>1, <2>2, <2>3, <2>4, <2>5, <2>6, <2>7, <2>8, <2>9 DEF Starting
<1>7. ASSUME NEW t \in Thread, Stopping(t) PROVE InHand'
  <2>1. CASE StopLookup(t)  BY <1>5, <2>1, AdvanceInHand DEF StopLookup
  <2>2. CASE StopCheck(t)
    BY <1>5, <2>2, AdvanceInHand DEF StopCheck, Advance
  <2>3. CASE StopKill(t)
    <3>1. UNCHANGED <<op, cur>> /\ At(t, "stopKill")
      BY <2>3 DEF StopKill, callVars
    <3>2. CASE Goto(t, "stopWait")    BY <3>1, <3>2, AdvanceInHand
    <3>3. CASE Goto(t, "stopDelete")  BY <3>1, <3>3, AdvanceInHand
    <3>4. QED BY <2>3, <3>2, <3>3 DEF StopKill
  <2>4. CASE StopWait(t)    BY <2>4, AdvanceInHand DEF StopWait
  <2>5. CASE StopDelete(t)  BY <2>5, AdvanceInHand DEF StopDelete
  <2>6. QED BY <1>7, <2>1, <2>2, <2>3, <2>4, <2>5 DEF Stopping
<1>8. ASSUME NEW t \in Thread, Saving(t) PROVE InHand'
  <2>1. CASE Persist(t)
    <3>1. UNCHANGED <<op, cur>> /\ At(t, "persist")
      BY <2>1 DEF Persist
    <3>2. CASE Goto(t, "truncate")  BY <3>1, <3>2, AdvanceInHand
    <3>3. CASE Goto(t, "done")      BY <3>1, <3>3, AdvanceInHand
    <3>4. QED BY <2>1, <3>2, <3>3 DEF Persist
  <2>2. CASE Truncate(t)  BY <2>2, AdvanceInHand DEF Truncate
  <2>3. CASE Write(t)     BY <2>3, AdvanceInHand DEF Write
  <2>4. CASE Done(t)
    <3>1. CASE /\ pc' = [pc EXCEPT ![t] = "check"] /\ op' = [op EXCEPT ![t] = "start"]
               /\ cur' = cur
      BY <1>0, <3>1, InHandKept, cur' = [cur EXCEPT ![t] = cur[t]]
    <3>2. CASE /\ pc' = [pc EXCEPT ![t] = "stopLookup"] /\ op' = op
               /\ \E i \in todo[t] : cur' = [cur EXCEPT ![t] = i]
      <4>1. op' = [op EXCEPT ![t] = op[t]] /\ todo[t] \subseteq Ids
        BY <1>0, <3>2
      <4>2. QED BY <3>2, <4>1, InHandKept
    <3>3. CASE /\ pc' = [pc EXCEPT ![t] = "idle"] /\ op' = [op EXCEPT ![t] = "none"]
               /\ cur' = [cur EXCEPT ![t] = 0]
      BY <3>3, InHandKept
    <3>4. QED BY <2>4, <3>1, <3>2, <3>3 DEF Done, Finish, Goto
  <2>5. QED BY <1>8, <2>1, <2>2, <2>3, <2>4 DEF Saving
<1>9. QED
  BY <1>2, <1>3, <1>4, <1>6, <1>7, <1>8 DEF Next, Step

LEMMA TypesInvariant == Spec => [](TypeOK /\ InHand)
<1>1. Init => TypeOK /\ InHand
  <2> SUFFICES ASSUME Init PROVE TypeOK /\ InHand
    OBVIOUS
  <2>1. NoPath \in Path /\ Home \in [Thread -> Manager]
    BY ManagerAssumption DEF ManagerAssumption, NoPath
  <2>2. TypeOK
    <3>1. NoInst \in Instances
      BY <2>1, LabelFacts DEF NoInst, Instances
    <3>2. 1 \in 1..(MaxPid + 1)
      <4>1. MaxPid \in Nat  BY ManagerAssumption
      <4>2. QED BY <4>1
    <3>3. QED BY <2>1, <3>1, <3>2, LabelFacts DEF Init, TypeOK
  <2>3. InHand
    BY DEF Init, InHand, Before
  <2>4. QED BY <2>2, <2>3
<1>2. TypeOK /\ InHand /\ [Next]_vars => TypeOK' /\ InHand'
  <2> SUFFICES ASSUME TypeOK, InHand, [Next]_vars PROVE TypeOK' /\ InHand'
    OBVIOUS
  <2>1. ASSUME UNCHANGED vars PROVE TypeOK'
    BY <2>1 DEF TypeOK, vars, osVars, mapVars, threadVars, callVars, histVars
  <2>2. ASSUME Next PROVE TypeOK'
    BY <2>2, StartingType, StoppingType, SavingType, OtherType DEF Next, Step
  <2>3. QED BY <2>1, <2>2, InHandStep
<1>3. QED BY <1>1, <1>2, PTL DEF Spec

\* Every variable keeps its type, whatever the number of managers, goroutines
\* and processes.
THEOREM TypeCorrect == Spec => []TypeOK
BY TypesInvariant, PTL

-----------------------------------------------------------------------------
(* No running server is lost: Tracked, for every number of managers,       *)
(* goroutines, directories and processes, with crashes and restarts.       *)
(*                                                                         *)
(* Tracked is not inductive.  A delete is safe because the thread killed   *)
(* the process before (Killed); that stays true because process ids and    *)
(* server numbers are not handed out twice (Spawned, Numbered), because a  *)
(* thread in a call belongs to a manager that is up (Awake), and because   *)
(* an instance without a cmd, which StopServer deletes unseen, was not     *)
(* spawned by this process (Owned).                                        *)
\* The labels at which a thread is about to act on a registered instance.
Holding == {"wait", "ready", "failKill", "failDelete", "stopCheck", "stopKill",
            "stopWait", "stopDelete"}

Awake ==
  /\ \A t \in Thread : pc[t] # "idle" => up[Mgr(t)]
  /\ \A m \in Manager : ~up[m] => kids[m] = {}

Numbered ==
  /\ \A m \in Manager : \A i \in servers[m] : i < nextID[m]
  /\ \A t \in Thread : pc[t] \in Holding => cur[t] \in Ids /\ cur[t] < nextID[Mgr(t)]

Spawned ==
  /\ \A p \in Pid : live[p] # {} => p < nextPid
  /\ \A m \in Manager : \A p \in kids[m] : p < nextPid
  /\ \A m \in Manager : \A i \in Ids : inst[m][i].pid < nextPid
  /\ \A t \in Thread : new[t] < nextPid

Owned ==
  \A m \in Manager : \A i \in Ids : inst[m][i].pid \in kids[m] => inst[m][i].cmd

Killed ==
  \A t \in Thread :
    pc[t] \in {"failDelete", "stopDelete"} /\ Cur(t).pid \in kids[Mgr(t)]
      => "root" \notin live[Cur(t).pid]

Safe == Awake /\ Numbered /\ Spawned /\ Owned /\ Killed /\ Tracked
IInv == TypeOK /\ InHand /\ Safe

\* A step of thread t that spawns, registers and deletes nothing: it moves t on,
\* may change the status of an instance, and may only end processes.
Local(t) ==
  /\ UNCHANGED <<nextPid, servers, nextID, new, kids, up>>
  /\ up[Mgr(t)]
  /\ \A p \in Pid : live'[p] \subseteq live[p]
  /\ \A m \in Manager, i \in Ids :
       inst'[m][i].pid = inst[m][i].pid /\ inst'[m][i].cmd = inst[m][i].cmd
  /\ \A u \in Thread \ {t} : pc'[u] = pc[u] /\ cur'[u] = cur[u]
  /\ pc[t] # "register" /\ pc'[t] # "register"
  /\ pc'[t] \in Holding =>
       cur'[t] = cur[t] /\ (pc[t] \in Holding \/ cur[t] \in servers[Mgr(t)])
  /\ pc'[t] \in {"failDelete", "stopDelete"} /\ Cur(t).pid \in kids[Mgr(t)]
       => "root" \notin live'[Cur(t).pid]

LEMMA LocalStep ==
  ASSUME IInv, NEW t \in Thread, Local(t)
  PROVE  Safe'
<1>0. /\ servers \in [Manager -> SUBSET Ids] /\ kids \in [Manager -> SUBSET Pid]
      /\ inst \in [Manager -> [Ids -> Instances]] /\ Home \in [Thread -> Manager]
      /\ live \in [Pid -> SUBSET Tree]
  BY ManagerAssumption DEF ManagerAssumption, IInv, TypeOK
<1>1. Awake'
  BY DEF IInv, Safe, Awake, Local, Mgr
<1>2. Numbered'
  <2>1. \A m \in Manager : \A i \in servers'[m] : i < nextID'[m]
    BY DEF IInv, Safe, Numbered, Local
  <2>2. pc'[t] \in Holding => cur'[t] \in Ids /\ cur'[t] < nextID'[Mgr(t)]
    BY <1>0 DEF IInv, Safe, Numbered, Local, Mgr
  <2>3. \A u \in Thread \ {t} : pc'[u] \in Holding => cur'[u] \in Ids /\ cur'[u] < nextID'[Mgr(u)]
    BY DEF IInv, Safe, Numbered, Local, Mgr
  <2>4. QED BY <2>1, <2>2, <2>3 DEF Numbered, Mgr
<1>3. Spawned'
  BY DEF IInv, Safe, Spawned, Local
<1>4. Owned'
  BY DEF IInv, Safe, Owned, Local
<1>5. Killed'
  <2>1. ASSUME NEW u \in Thread, pc'[u] \in {"failDelete", "stopDelete"},
               Cur(u)'.pid \in kids'[Mgr(u)]
        PROVE  "root" \notin live'[Cur(u)'.pid]
    <3>1. pc'[u] \in Holding
      BY <2>1 DEF Holding
    <3>2. cur'[u] = cur[u] /\ cur[u] \in Ids
      BY <1>0, <1>2, <3>1 DEF Local, Numbered
    <3>3. Cur(u)'.pid = Cur(u).pid
      BY <1>0, <3>2 DEF Cur, Mgr, Local
    <3>4. CASE u = t
      BY <2>1, <3>3, <3>4 DEF Local, Mgr
    <3>5. CASE u # t
      <4>1. /\ pc[u] \in {"failDelete", "stopDelete"} /\ Cur(u).pid \in kids[Mgr(u)]
            /\ Cur(u).pid \in Pid
        BY <1>0, <2>1, <3>3, <3>5 DEF Local, Mgr
      <4>2. "root" \notin live[Cur(u).pid] /\ live'[Cur(u).pid] \subseteq live[Cur(u).pid]
        BY <4>1 DEF IInv, Safe, Killed, Local
      <4>3. QED BY <3>3, <4>2
    <3>6. QED BY <3>4, <3>5
  <2>2. QED BY <2>1 DEF Killed, Mgr
<1>6. Tracked'
  <2>1. ASSUME NEW m \in Manager, NEW p \in kids'[m], "root" \in live'[p]
        PROVE  \/ \E i \in servers'[m] : inst'[m][i].pid = p
               \/ \E u \in Thread : Mgr(u) = m /\ pc'[u] = "register" /\ new'[u] = p
    <3>1. p \in kids[m] /\ p \in Pid /\ "root" \in live[p]
      BY <1>0, <2>1 DEF Local
    <3>2. CASE \E i \in servers[m] : inst[m][i].pid = p
      BY <1>0, <3>2 DEF Local
    <3>3. CASE \E u \in Thread : Mgr(u) = m /\ pc[u] = "register" /\ new[u] = p
      BY <3>3 DEF Local
    <3>4. QED BY <3>1, <3>2, <3>3 DEF IInv, Safe, Tracked
  <2>2. QED BY <2>1 DEF Tracked, Mgr
<1>7. QED BY <1>1, <1>2, <1>3, <1>4, <1>5, <1>6 DEF Safe

\* The steps that are local.
LEMMA QuietIsLocal ==
  ASSUME IInv, NEW t \in Thread,
         \/ Call(t) \/ Check(t) \/ SpawnFails(t) \/ Ready(t) \/ NotReady(t)
         \/ StopLookup(t) \/ StopCheck(t) \/ Persist(t) \/ Truncate(t) \/ Write(t)
  PROVE  Local(t)
<1>0. /\ pc \in [Thread -> Labels] /\ cur \in [Thread -> Ids \cup {0}]
  BY DEF IInv, TypeOK
<1>1. /\ UNCHANGED <<osVars, mapVars, new, kids, up>> /\ up[Mgr(t)]
      /\ pc[t] # "register"
      /\ \A u \in Thread \ {t} : pc'[u] = pc[u] /\ cur'[u] = cur[u]
  <2>1. CASE Call(t)
    BY <1>0, <2>1 DEF Call, CallStart, CallStop, CallRestart, CallStopAll, CallOn, Free,
       At, Goto, histVars
  <2>2. CASE Check(t)
    BY <1>0, <2>2 DEF Check, At, Goto, histVars
  <2>3. CASE SpawnFails(t)
    BY <1>0, <2>3 DEF SpawnFails, GiveUp, At, Goto, histVars
  <2>4. CASE Ready(t) \/ NotReady(t)
    BY <1>0, <2>4 DEF Ready, NotReady, Advance, At, Goto, callVars, histVars
  <2>5. CASE StopLookup(t)
    BY <1>0, <2>5 DEF StopLookup, GiveUp, Advance, At, Goto, callVars, histVars
  <2>6. CASE StopCheck(t)
    BY <1>0, <2>6 DEF StopCheck, GiveUp, Advance, At, Goto, callVars, histVars
  <2>7. CASE Persist(t)
    BY <1>0, <2>7 DEF Persist, At, Goto, histVars
  <2>8. CASE Truncate(t) \/ Write(t)
    BY <1>0, <2>8 DEF Truncate, Write, Advance, At, Goto, callVars, histVars
  <2>9. QED BY <2>1, <2>2, <2>3, <2>4, <2>5, <2>6, <2>7, <2>8
<1>2. /\ pc'[t] \notin {"register", "failDelete", "stopDelete"}
      /\ pc'[t] \in Holding =>
           cur'[t] = cur[t] /\ (pc[t] \in Holding \/ cur[t] \in servers[Mgr(t)])
  <2>1. CASE Call(t)
    BY <1>0, <2>1 DEF Call, CallStart, CallStop, CallRestart, CallStopAll, CallOn, Goto, Holding
  <2>2. CASE Check(t)
    BY <1>0, <2>2 DEF Check, Goto, Holding
  <2>3. CASE SpawnFails(t)
    BY <1>0, <2>3 DEF SpawnFails, GiveUp, Goto, Holding
  <2>4. CASE Ready(t) \/ NotReady(t)
    BY <1>0, <2>4 DEF Ready, NotReady, Advance, At, Goto, callVars, Holding
  <2>5. CASE StopLookup(t)
    BY <1>0, <2>5 DEF StopLookup, GiveUp, Advance, Goto, callVars, Holding
  <2>6. CASE StopCheck(t)
    BY <1>0, <2>6 DEF StopCheck, GiveUp, Advance, At, Goto, callVars, Holding
  <2>7. CASE Persist(t)
    BY <1>0, <2>7 DEF Persist, Goto, Holding
  <2>8. CASE Truncate(t) \/ Write(t)
    BY <1>0, <2>8 DEF Truncate, Write, Advance, Goto, callVars, Holding
  <2>9. QED BY <2>1, <2>2, <2>3, <2>4, <2>5, <2>6, <2>7, <2>8
<1>3. QED BY <1>1, <1>2 DEF Local, osVars, mapVars

\* A status change touches neither process nor cmd.
LEMMA StatusKeeps ==
  ASSUME IInv, NEW t \in Thread, NEW s, SetStatus(t, s)
  PROVE  \A m \in Manager, i \in Ids :
           inst'[m][i].pid = inst[m][i].pid /\ inst'[m][i].cmd = inst[m][i].cmd
<1>1. inst \in [Manager -> [Ids -> Instances]]
  BY DEF IInv, TypeOK
<1>2. QED BY <1>1 DEF SetStatus, Instances

\* Killing the root, or some members, of tree p.
LEMMA KillKeeps ==
  ASSUME IInv, NEW p, NEW s, live' = [live EXCEPT ![p] = s], p \in Pid => s \subseteq live[p]
  PROVE  /\ \A q \in Pid : live'[q] \subseteq live[q]
         /\ p \in Pid => live'[p] = s
<1>1. live \in [Pid -> SUBSET Tree]
  BY DEF IInv, TypeOK
<1>2. QED BY <1>1

LEMMA KillIsLocal ==
  ASSUME IInv, NEW t \in Thread,
         FailKill(t) \/ StopKill(t) \/ StopWait(t) \/ FinishStart(t)
  PROVE  Local(t)
<1>0. /\ pc \in [Thread -> Labels] /\ cur \in [Thread -> Ids \cup {0}]
      /\ kids \in [Manager -> SUBSET Pid] /\ Mgr(t) \in Manager
  BY ManagerAssumption DEF ManagerAssumption, IInv, TypeOK, Mgr
<1>1. Cur(t).pid \in kids[Mgr(t)] => Cur(t).pid \in Pid
  BY <1>0
<1>2. CASE FailKill(t) \/ StopWait(t)
  <2>1. live' = [live EXCEPT ![Cur(t).pid] = live[Cur(t).pid] \ {"root"}]
    BY <1>2 DEF FailKill, StopWait, KillRoot
  <2>2. /\ \A q \in Pid : live'[q] \subseteq live[q]
        /\ Cur(t).pid \in kids[Mgr(t)] => "root" \notin live'[Cur(t).pid]
    <3> DEFINE p == Cur(t).pid  s == live[p] \ {"root"}
    <3>1. live' = [live EXCEPT ![p] = s] /\ (p \in Pid => s \subseteq live[p])
      BY <2>1
    <3> HIDE DEF p, s
    <3>2. (\A q \in Pid : live'[q] \subseteq live[q]) /\ (p \in Pid => live'[p] = s)
      BY <3>1, KillKeeps
    <3>3. QED BY <1>1, <3>2 DEF p, s
  <2>3. /\ UNCHANGED <<nextPid, mapVars, new, kids, up, cur>> /\ up[Mgr(t)]
        /\ pc[t] \in {"failKill", "stopWait"}
        /\ pc' = [pc EXCEPT ![t] = "failDelete"] \/ pc' = [pc EXCEPT ![t] = "stopDelete"]
    BY <1>2 DEF FailKill, StopWait, Advance, At, Goto, callVars, histVars
  <2>4. QED BY <1>0, <2>2, <2>3 DEF Local, mapVars, Holding
<1>3. CASE StopKill(t)
  <2>1. PICK s \in SUBSET live[Cur(t).pid] : live' = [live EXCEPT ![Cur(t).pid] = s]
    BY <1>3 DEF StopKill
  <2>2. \A q \in Pid : live'[q] \subseteq live[q]
    BY <2>1, KillKeeps
  <2>3. /\ UNCHANGED <<nextPid, mapVars, new, kids, up, cur>> /\ up[Mgr(t)]
        /\ pc[t] = "stopKill"
        /\ pc' = [pc EXCEPT ![t] = IF Cur(t).cmd THEN "stopWait" ELSE "stopDelete"]
    BY <1>3 DEF StopKill, At, Goto, callVars, histVars
  <2>4. pc'[t] = "stopDelete" => Cur(t).pid \notin kids[Mgr(t)]
    <3>1. pc[t] \in Holding => cur[t] \in Ids
      BY DEF IInv, Safe, Numbered
    <3>2. cur[t] \in Ids
      BY <2>3, <3>1 DEF Holding
    <3>3. Cur(t).pid \in kids[Mgr(t)] => Cur(t).cmd
      BY <1>0, <3>2 DEF IInv, Safe, Owned, Cur
    <3>4. QED BY <1>0, <2>3, <3>3
  <2>5. QED BY <1>0, <2>2, <2>3, <2>4 DEF Local, mapVars, Holding
<1>4. CASE FinishStart(t)
  <2>1. \A m \in Manager, i \in Ids :
          inst'[m][i].pid = inst[m][i].pid /\ inst'[m][i].cmd = inst[m][i].cmd
    BY <1>4, StatusKeeps DEF FinishStart
  <2>2. /\ UNCHANGED <<osVars, servers, nextID, new, kids, up, cur>> /\ up[Mgr(t)]
        /\ pc[t] = "ready" /\ pc' = [pc EXCEPT ![t] = "persist"]
    BY <1>4 DEF FinishStart, Advance, At, Goto, callVars, histVars
  <2>3. QED BY <1>0, <2>1, <2>2 DEF Local, osVars, Holding
<1>5. QED BY <1>2, <1>3, <1>4

\* Processes of the operating system exit.
LEMMA ExitsSafe ==
  ASSUME IInv, NEW p \in Pid, Exits(p)
  PROVE  Safe'
<1>1. \A q \in Pid : live'[q] \subseteq live[q]
  BY KillKeeps DEF Exits
<1>2. UNCHANGED <<nextPid, up, servers, inst, nextID, pc, cur, new, kids>>
  BY DEF Exits, mapVars, threadVars, callVars, histVars
<1>3. kids \in [Manager -> SUBSET Pid] /\ Home \in [Thread -> Manager]
  BY ManagerAssumption DEF ManagerAssumption, IInv, TypeOK
<1>4. Awake' /\ Numbered' /\ Owned'
  BY <1>2 DEF IInv, Safe, Awake, Numbered, Owned, Mgr
<1>5. Spawned'
  BY <1>1, <1>2 DEF IInv, Safe, Spawned
<1>6. Killed'
  BY <1>1, <1>2, <1>3 DEF IInv, Safe, Killed, Cur, Mgr
<1>7. Tracked'
  BY <1>1, <1>2, <1>3 DEF IInv, Safe, Tracked, Mgr
<1>8. QED BY <1>4, <1>5, <1>6, <1>7 DEF Safe

\* A process of the registry starts: it owns nothing yet, and its goroutines
\* are idle.
LEMMA BootSafe ==
  ASSUME IInv, NEW m \in Manager, Boot(m)
  PROVE  Safe'
<1>0. /\ kids \in [Manager -> SUBSET Pid] /\ Home \in [Thread -> Manager]
      /\ inst \in [Manager -> [Ids -> Instances]] /\ up \in [Manager -> BOOLEAN]
      /\ servers \in [Manager -> SUBSET Ids] /\ nextID \in [Manager -> Nat \ {0}]
      /\ nextPid \in 1..(MaxPid + 1) /\ 1..(MaxPid + 1) \subseteq Nat \ {0}
  BY ManagerAssumption, NextNumberRange DEF ManagerAssumption, IInv, TypeOK
<1>1. /\ UNCHANGED <<live, nextPid, pc, cur, new, kids>> /\ ~up[m]
      /\ up' = [up EXCEPT ![m] = TRUE]
  BY DEF Boot, osVars, threadVars, callVars, histVars
<1>2. kids[m] = {} /\ \A t \in Thread : pc[t] # "idle" => Mgr(t) # m
  BY <1>1 DEF IInv, Safe, Awake
<1>3. \E used, n : /\ servers' = [servers EXCEPT ![m] = used]
                   /\ nextID' = [nextID EXCEPT ![m] = n]
                   /\ \A k \in used : k < n
  BY DEF Boot, NextNumber
<1>4. /\ \A i \in servers'[m] : i < nextID'[m]
      /\ \A o \in Manager \ {m} : servers'[o] = servers[o] /\ nextID'[o] = nextID[o]
  BY <1>0, <1>3
<1>5. /\ \A o \in Manager \ {m} : inst'[o] = inst[o]
      /\ \A i \in Ids : inst'[m][i].pid < nextPid
  <2> DEFINE recs == IF Persistent THEN AliveRecords(file.recs) ELSE {}
             used == {r.id : r \in recs}
             pick(i) == CHOOSE r \in recs : r.id = i
  <2>1. inst' = [inst EXCEPT ![m] = [i \in Ids |-> IF i \in used
           THEN [pid |-> pick(i).pid, dir |-> pick(i).dir, status |-> "running", cmd |-> FALSE]
           ELSE NoInst]]
    BY DEF Boot
  <2>2. \A i \in used : pick(i) \in recs
    OBVIOUS
  <2>3. \A i \in used : pick(i).pid < nextPid
    BY <2>2 DEF AliveRecords, IInv, Safe, Spawned
  <2>4. 0 < nextPid
    BY <1>0
  <2> HIDE DEF pick, used, recs
  <2>5. \A i \in Ids : inst'[m][i].pid = IF i \in used THEN pick(i).pid ELSE 0
    BY <1>0, <2>1 DEF NoInst
  <2>6. \A o \in Manager \ {m} : inst'[o] = inst[o]
    BY <1>0, <2>1
  <2>7. QED BY <2>3, <2>4, <2>5, <2>6
<1>6. Awake'
  BY <1>0, <1>1 DEF IInv, Safe, Awake, Mgr
<1>7. Numbered'
  <2>1. \A t \in Thread : pc'[t] \in Holding => cur'[t] \in Ids /\ cur'[t] < nextID'[Mgr(t)]
    BY <1>0, <1>1, <1>2, <1>4 DEF IInv, Safe, Numbered, Holding, Mgr
  <2>2. \A o \in Manager : \A i \in servers'[o] : i < nextID'[o]
    BY <1>4 DEF IInv, Safe, Numbered
  <2>3. QED BY <2>1, <2>2 DEF Numbered, Mgr
<1>8. Spawned'
  BY <1>1, <1>5 DEF IInv, Safe, Spawned
<1>9. Owned'
  BY <1>1, <1>2, <1>5 DEF IInv, Safe, Owned
<1>10. Killed'
  BY <1>0, <1>1, <1>2, <1>5 DEF IInv, Safe, Killed, Cur, Mgr
<1>11. Tracked'
  BY <1>1, <1>2, <1>4, <1>5 DEF IInv, Safe, Tracked, Mgr
<1>12. QED BY <1>6, <1>7, <1>8, <1>9, <1>10, <1>11 DEF Safe

\* A process that goes away owns nothing any more, nor do its goroutines act.
LEMMA GoneSafe ==
  ASSUME IInv, NEW m \in Manager,
         UNCHANGED <<osVars, mapVars>>,
         up' = [up EXCEPT ![m] = FALSE], kids' = [kids EXCEPT ![m] = {}],
         \A t \in Thread : Mgr(t) = m => pc'[t] = "idle" /\ new'[t] \in {new[t], 0},
         \A t \in Thread :
           Mgr(t) # m => pc'[t] = pc[t] /\ cur'[t] = cur[t] /\ new'[t] = new[t]
  PROVE  Safe'
<1>0. /\ kids \in [Manager -> SUBSET Pid] /\ up \in [Manager -> BOOLEAN]
      /\ Home \in [Thread -> Manager]
      /\ nextPid \in 1..(MaxPid + 1) /\ 1..(MaxPid + 1) \subseteq Nat \ {0}
  BY ManagerAssumption, NextNumberRange DEF ManagerAssumption, IInv, TypeOK
<1>1. UNCHANGED <<live, nextPid, servers, inst, nextID>>
  BY DEF osVars, mapVars
<1>2. \A o \in Manager : kids'[o] \subseteq kids[o]
  BY <1>0
<1>3. Awake'
  BY <1>0 DEF IInv, Safe, Awake, Mgr
<1>4. Numbered'
  BY <1>1 DEF IInv, Safe, Numbered, Holding, Mgr
<1>5. Spawned'
  BY <1>0, <1>1, <1>2 DEF IInv, Safe, Spawned
<1>6. Owned'
  BY <1>1, <1>2 DEF IInv, Safe, Owned
<1>7. Killed'
  BY <1>0, <1>1, <1>2 DEF IInv, Safe, Killed, Cur, Mgr
<1>8. Tracked'
  BY <1>0, <1>1 DEF IInv, Safe, Tracked, Mgr
<1>9. QED BY <1>3, <1>4, <1>5, <1>6, <1>7, <1>8 DEF Safe

LEMMA LeaveSafe ==
  ASSUME IInv, NEW m \in Manager, Crash(m)
  PROVE  Safe'
<1>0. new \in [Thread -> Pid \cup {0}]
  BY DEF IInv, TypeOK
<1>1. /\ UNCHANGED <<osVars, mapVars>>
      /\ up' = [up EXCEPT ![m] = FALSE] /\ kids' = [kids EXCEPT ![m] = {}]
      /\ \A t \in Thread : Mgr(t) = m => pc'[t] = "idle" /\ new'[t] \in {new[t], 0}
      /\ \A t \in Thread :
           Mgr(t) # m => pc'[t] = pc[t] /\ cur'[t] = cur[t] /\ new'[t] = new[t]
  BY <1>0 DEF Crash, Leave
<1>2. QED BY <1>1, GoneSafe

\* A call returns: a command-line invocation goes away with it.
LEMMA DoneSafe ==
  ASSUME IInv, NEW t \in Thread, Done(t)
  PROVE  Safe'
<1>0. /\ pc \in [Thread -> Labels] /\ cur \in [Thread -> Ids \cup {0}]
      /\ up \in [Manager -> BOOLEAN] /\ kids \in [Manager -> SUBSET Pid]
      /\ Mgr(t) \in Manager /\ Persistent \in BOOLEAN
      /\ Persistent => \A u \in Thread : Mgr(u) = Mgr(t) => u = t
  BY ManagerAssumption DEF ManagerAssumption, IInv, TypeOK, Mgr
<1>1. /\ UNCHANGED <<osVars, mapVars, new>> /\ up[Mgr(t)] /\ pc[t] = "done"
      /\ \E l \in {"check", "stopLookup", "idle"} : pc' = [pc EXCEPT ![t] = l]
      /\ \E i : cur' = [cur EXCEPT ![t] = i]
  <2>1. pc' = [pc EXCEPT ![t] = "check"] => cur' = [cur EXCEPT ![t] = cur[t]]
    BY <1>0 DEF Done, Finish, At, Goto
  <2>2. QED BY <1>0, <2>1 DEF Done, Finish, At, Goto
<1>2. CASE UNCHANGED <<up, kids>>
  <2>1. Local(t)
    BY <1>0, <1>1, <1>2 DEF Local, osVars, mapVars, Holding
  <2>2. QED BY <2>1, LocalStep
<1>3. CASE /\ Persistent /\ pc' = [pc EXCEPT ![t] = "idle"]
           /\ up' = [up EXCEPT ![Mgr(t)] = FALSE] /\ kids' = [kids EXCEPT ![Mgr(t)] = {}]
  <2>1. /\ \A u \in Thread : Mgr(u) = Mgr(t) => pc'[u] = "idle" /\ new'[u] \in {new[u], 0}
        /\ \A u \in Thread :
             Mgr(u) # Mgr(t) => pc'[u] = pc[u] /\ cur'[u] = cur[u] /\ new'[u] = new[u]
    BY <1>0, <1>1, <1>3
  <2>2. QED BY <1>0, <1>1, <1>3, <2>1, GoneSafe
<1>4. \/ UNCHANGED <<up, kids>>
      \/ /\ Persistent /\ pc' = [pc EXCEPT ![t] = "idle"]
         /\ up' = [up EXCEPT ![Mgr(t)] = FALSE] /\ kids' = [kids EXCEPT ![Mgr(t)] = {}]
  <2>1. CASE UNCHANGED <<up, kids>>
    BY <2>1
  <2>2. CASE /\ pc' = [pc EXCEPT ![t] = "idle"]
             /\ up' = [up EXCEPT ![Mgr(t)] = ~Persistent]
             /\ kids' = [kids EXCEPT ![Mgr(t)] = IF Persistent THEN {} ELSE @]
    <3>1. CASE Persistent   BY <2>2, <3>1
    <3>2. CASE ~Persistent  BY <1>0, <1>1, <2>2, <3>2
    <3>3. QED BY <3>1, <3>2
  <2>3. QED BY <2>1, <2>2 DEF Done, Finish, Goto
<1>5. QED BY <1>2, <1>3, <1>4

LEMMA SpawnSafe ==
  ASSUME IInv, NEW t \in Thread, Spawn(t)
  PROVE  Safe'
<1> DEFINE m == Mgr(t)  p == nextPid
<1>0. /\ pc \in [Thread -> Labels] /\ live \in [Pid -> SUBSET Tree]
      /\ kids \in [Manager -> SUBSET Pid] /\ m \in Manager
      /\ new \in [Thread -> Pid \cup {0}] /\ Home \in [Thread -> Manager]
      /\ inst \in [Manager -> [Ids -> Instances]]
  BY ManagerAssumption DEF ManagerAssumption, IInv, TypeOK, Mgr
<1>1. /\ p \in Pid /\ p \in Nat /\ nextPid' = p + 1
      /\ \E s : live' = [live EXCEPT ![p] = s]
      /\ new' = [new EXCEPT ![t] = p] /\ kids' = [kids EXCEPT ![m] = @ \cup {p}]
      /\ pc[t] = "spawn" /\ pc' = [pc EXCEPT ![t] = "register"] /\ up[m]
      /\ UNCHANGED <<up, servers, inst, nextID, cur>>
  BY NextPidRange DEF Spawn, At, Goto, mapVars
<1>2. /\ \A q \in Pid \ {p} : live'[q] = live[q]
      /\ \A o \in Manager : kids'[o] \subseteq kids[o] \cup {p}
      /\ \A o \in Manager \ {m} : kids'[o] = kids[o]
      /\ \A u \in Thread \ {t} : pc'[u] = pc[u] /\ new'[u] = new[u]
      /\ pc'[t] = "register" /\ new'[t] = p
  BY <1>0, <1>1
<1>3. Awake'
  BY <1>0, <1>1, <1>2 DEF IInv, Safe, Awake, Mgr
<1>4. Numbered'
  BY <1>1, <1>2 DEF IInv, Safe, Numbered, Holding, Mgr
<1>5. Spawned'
  <2>1. \A o \in Manager, i \in Ids : inst[o][i].pid \in Pid \cup {0}
    BY <1>0 DEF Instances
  <2>2. \A n \in Pid \cup {0} : n < p => n < p + 1
    BY <1>1 DEF Pid
  <2>3. p < p + 1
    BY <1>1
  <2>4. \A q \in Pid : live'[q] # {} => q < nextPid'
    BY <1>1, <1>2, <2>2, <2>3 DEF IInv, Safe, Spawned
  <2>5. \A o \in Manager : \A q \in kids'[o] : q < nextPid'
    BY <1>0, <1>1, <1>2, <2>2, <2>3 DEF IInv, Safe, Spawned
  <2>6. \A o \in Manager, i \in Ids : inst'[o][i].pid < nextPid'
    BY <1>1, <2>1, <2>2 DEF IInv, Safe, Spawned
  <2>7. \A u \in Thread : new'[u] < nextPid'
    BY <1>0, <1>1, <1>2, <2>2, <2>3 DEF IInv, Safe, Spawned
  <2>8. QED BY <2>4, <2>5, <2>6, <2>7 DEF Spawned
<1>6. \A o \in Manager, i \in Ids : inst[o][i].pid # p
  BY <1>1 DEF IInv, Safe, Spawned
<1>7. Owned'
  BY <1>1, <1>2, <1>6 DEF IInv, Safe, Owned
<1>8. Killed'
  <2>1. ASSUME NEW u \in Thread, pc'[u] \in {"failDelete", "stopDelete"},
               Cur(u).pid \in kids'[Mgr(u)]
        PROVE  "root" \notin live'[Cur(u).pid]
    <3>1. /\ u # t /\ pc[u] \in {"failDelete", "stopDelete"} /\ Mgr(u) \in Manager
          /\ cur[u] \in Ids
      BY <1>0, <1>2, <2>1 DEF Mgr, IInv, Safe, Numbered, Holding
    <3>2. Cur(u).pid # p
      BY <1>6, <3>1 DEF Cur
    <3>3. Cur(u).pid \in kids[Mgr(u)] /\ Cur(u).pid \in Pid
      BY <1>0, <1>2, <2>1, <3>1, <3>2
    <3>4. QED BY <1>2, <3>1, <3>2, <3>3 DEF IInv, Safe, Killed
  <2>2. QED BY <1>1, <2>1 DEF Killed, Cur, Mgr
<1>9. Tracked'
  <2>1. ASSUME NEW o \in Manager, NEW q \in kids'[o], "root" \in live'[q]
        PROVE  \/ \E i \in servers[o] : inst[o][i].pid = q
               \/ \E u \in Thread : Mgr(u) = o /\ pc'[u] = "register" /\ new'[u] = q
    <3>1. CASE q = p /\ o = m
      BY <1>2, <3>1
    <3>2. CASE ~(q = p /\ o = m)
      <4>1. q \in kids[o] /\ q < p /\ q \in Pid
        BY <1>0, <1>1, <1>2, <2>1, <3>2 DEF IInv, Safe, Spawned
      <4>2. q # p
        BY <1>1, <4>1 DEF Pid
      <4>3. "root" \in live[q]
        BY <1>2, <2>1, <4>1, <4>2
      <4>4. \A u \in Thread : pc[u] = "register" => u # t
        BY <1>1
      <4>5. QED BY <1>2, <4>1, <4>3, <4>4 DEF IInv, Safe, Tracked
    <3>3. QED BY <3>1, <3>2
  <2>2. QED BY <1>1, <2>1 DEF Tracked, Mgr
<1>10. QED BY <1>3, <1>4, <1>5, <1>7, <1>8, <1>9 DEF Safe

LEMMA RegisterSafe ==
  ASSUME IInv, NEW t \in Thread, Register(t)
  PROVE  Safe'
<1> DEFINE m == Mgr(t)  n == nextID[m]  x == NewInstance(new[t], dir[t])
<1>0. /\ pc \in [Thread -> Labels] /\ cur \in [Thread -> Ids \cup {0}]
      /\ kids \in [Manager -> SUBSET Pid] /\ m \in Manager
      /\ new \in [Thread -> Pid \cup {0}] /\ Home \in [Thread -> Manager]
      /\ inst \in [Manager -> [Ids -> Instances]] /\ nextID \in [Manager -> Nat \ {0}]
      /\ servers \in [Manager -> SUBSET Ids]
      /\ nextPid \in 1..(MaxPid + 1) /\ 1..(MaxPid + 1) \subseteq Nat \ {0}
  BY ManagerAssumption, NextNumberRange DEF ManagerAssumption, IInv, TypeOK, Mgr
<1>1. /\ inst' = [inst EXCEPT ![m] = [@ EXCEPT ![n] = x]] /\ n \in Ids
      /\ servers' = [servers EXCEPT ![m] = @ \cup {n}]
      /\ nextID' = [nextID EXCEPT ![m] = n + 1]
      /\ cur' = [cur EXCEPT ![t] = n] /\ new' = [new EXCEPT ![t] = 0]
      /\ pc[t] = "register" /\ pc' = [pc EXCEPT ![t] = "wait"] /\ up[m]
      /\ UNCHANGED <<live, nextPid, up, kids>>
  BY DEF Register, At, Goto, osVars, histVars
<1>2. x.pid = new[t] /\ x.cmd = TRUE
  BY DEF NewInstance
<1> HIDE DEF x
<1>3. /\ inst'[m][n].pid = new[t] /\ inst'[m][n].cmd = TRUE
      /\ \A o \in Manager, i \in Ids : ~(o = m /\ i = n) => inst'[o][i] = inst[o][i]
  BY <1>0, <1>1, <1>2
<1>4. /\ \A o \in Manager \ {m} : servers'[o] = servers[o] /\ nextID'[o] = nextID[o]
      /\ servers'[m] = servers[m] \cup {n} /\ nextID'[m] = n + 1
      /\ \A u \in Thread \ {t} : pc'[u] = pc[u] /\ new'[u] = new[u] /\ cur'[u] = cur[u]
      /\ pc'[t] = "wait" /\ new'[t] = 0 /\ cur'[t] = n
  BY <1>0, <1>1
<1>5. n \notin servers[m] /\ n \in Nat /\ \A k \in Nat : k < n => k < n + 1
  BY <1>0 DEF IInv, Safe, Numbered
<1>6. Awake'
  BY <1>0, <1>1, <1>4 DEF IInv, Safe, Awake, Mgr
<1>7. Numbered'
  <2>1. Ids \subseteq Nat
    <3>1. MaxPid \in Nat  BY ManagerAssumption
    <3>2. QED BY <3>1 DEF Ids
  <2>2. \A o \in Manager : \A i \in servers'[o] : i < nextID'[o]
    <3>1. \A o \in Manager : \A i \in servers[o] : i < nextID[o]
      BY DEF IInv, Safe, Numbered
    <3>2. \A i \in servers'[m] : i < nextID'[m]
      <4>1. \A i \in servers[m] : i \in Nat /\ i < n
        BY <1>0, <2>1, <3>1
      <4>2. n < n + 1  BY <1>5
      <4>3. QED BY <1>4, <1>5, <4>1, <4>2
    <3>3. QED BY <1>4, <3>1, <3>2
  <2>3. \A u \in Thread : pc'[u] \in Holding => cur'[u] \in Ids /\ cur'[u] < nextID'[Mgr(u)]
    <3>1. ASSUME NEW u \in Thread \ {t}, pc'[u] \in Holding
          PROVE  cur'[u] \in Ids /\ cur'[u] < nextID'[Mgr(u)]
      <4>1. cur[u] \in Ids /\ cur[u] < nextID[Mgr(u)] /\ Mgr(u) \in Manager
        BY <1>0, <1>4, <3>1 DEF IInv, Safe, Numbered, Mgr
      <4>2. QED BY <1>4, <1>5, <2>1, <4>1
    <3>2. QED BY <1>1, <1>4, <1>5, <3>1
  <2>4. QED BY <2>2, <2>3 DEF Numbered, Mgr
<1>8. Spawned'
  BY <1>0, <1>1, <1>3, <1>4 DEF IInv, Safe, Spawned
<1>9. Owned'
  BY <1>1, <1>3 DEF IInv, Safe, Owned
<1>10. Killed'
  <2>1. ASSUME NEW u \in Thread, pc'[u] \in {"failDelete", "stopDelete"},
               Cur(u)'.pid \in kids[Mgr(u)]
        PROVE  "root" \notin live[Cur(u)'.pid]
    <3>1. /\ u # t /\ pc[u] \in {"failDelete", "stopDelete"} /\ Mgr(u) \in Manager
          /\ cur[u] \in Ids /\ cur[u] < nextID[Mgr(u)] /\ cur'[u] = cur[u]
      BY <1>0, <1>4, <2>1 DEF IInv, Safe, Numbered, Holding, Mgr
    <3>2. ~(Mgr(u) = m /\ cur[u] = n)
      BY <1>0, <3>1
    <3>3. Cur(u)'.pid = Cur(u).pid
      BY <1>3, <3>1, <3>2 DEF Cur, Mgr
    <3>4. QED BY <2>1, <3>1, <3>3 DEF IInv, Safe, Killed
  <2>2. QED BY <1>1, <2>1 DEF Killed, Mgr
<1>11. Tracked'
  <2>1. ASSUME NEW o \in Manager, NEW q \in kids[o], "root" \in live[q]
        PROVE  \/ \E i \in servers'[o] : inst'[o][i].pid = q
               \/ \E u \in Thread : Mgr(u) = o /\ pc'[u] = "register" /\ new'[u] = q
    <3>1. CASE \E i \in servers[o] : inst[o][i].pid = q
      <4>1. PICK i \in servers[o] : inst[o][i].pid = q
        BY <3>1
      <4>2. i \in servers'[o] /\ i \in Ids /\ ~(o = m /\ i = n)
        BY <1>0, <1>4, <1>5, <4>1
      <4>3. QED BY <1>3, <4>1, <4>2
    <3>2. CASE o = m /\ new[t] = q
      BY <1>3, <1>4, <3>2
    <3>3. CASE \E u \in Thread \ {t} : Mgr(u) = o /\ pc[u] = "register" /\ new[u] = q
      BY <1>4, <3>3
    <3>4. QED BY <2>1, <3>1, <3>2, <3>3 DEF IInv, Safe, Tracked
  <2>2. QED BY <1>1, <2>1 DEF Tracked, Mgr
<1>12. QED BY <1>6, <1>7, <1>8, <1>9, <1>10, <1>11 DEF Safe

\* An entry is deleted only when its process was killed before.
LEMMA DeleteSafe ==
  ASSUME IInv, NEW t \in Thread, FailDelete(t) \/ StopDelete(t)
  PROVE  Safe'
<1> DEFINE m == Mgr(t)
<1>0. /\ pc \in [Thread -> Labels] /\ cur \in [Thread -> Ids \cup {0}]
      /\ kids \in [Manager -> SUBSET Pid] /\ m \in Manager
      /\ Home \in [Thread -> Manager] /\ servers \in [Manager -> SUBSET Ids]
  BY ManagerAssumption DEF ManagerAssumption, IInv, TypeOK, Mgr
<1>1. /\ servers' = [servers EXCEPT ![m] = @ \ {cur[t]}]
      /\ UNCHANGED <<live, nextPid, up, nextID, cur, new, kids>> /\ up[m]
      /\ pc[t] \in {"failDelete", "stopDelete"} /\ pc' = [pc EXCEPT ![t] = "persist"]
  BY DEF FailDelete, StopDelete, Delete, Advance, At, Goto, callVars, osVars, histVars
<1>2. \A o \in Manager, i \in Ids :
        inst'[o][i].pid = inst[o][i].pid /\ inst'[o][i].cmd = inst[o][i].cmd
  <2>1. CASE FailDelete(t)  BY <2>1 DEF FailDelete
  <2>2. CASE StopDelete(t)  BY <2>2, StatusKeeps DEF StopDelete
  <2>3. QED BY <2>1, <2>2
<1>3. /\ cur[t] \in Ids
      /\ Cur(t).pid \in kids[m] => "root" \notin live[Cur(t).pid]
  BY <1>1 DEF IInv, Safe, Numbered, Holding, Killed
<1>4. /\ \A u \in Thread \ {t} : pc'[u] = pc[u]
      /\ pc'[t] = "persist"
      /\ \A o \in Manager : servers'[o] \subseteq servers[o]
      /\ \A o \in Manager \ {m} : servers'[o] = servers[o]
      /\ servers'[m] = servers[m] \ {cur[t]}
  BY <1>0, <1>1
<1>5. Awake'
  BY <1>0, <1>1, <1>4 DEF IInv, Safe, Awake, Mgr
<1>6. Numbered'
  BY <1>0, <1>1, <1>4 DEF IInv, Safe, Numbered, Holding, Mgr
<1>7. Spawned'
  BY <1>1, <1>2 DEF IInv, Safe, Spawned
<1>8. Owned'
  BY <1>1, <1>2 DEF IInv, Safe, Owned
<1>9. Killed'
  <2>1. ASSUME NEW u \in Thread, pc'[u] \in {"failDelete", "stopDelete"},
               Cur(u)'.pid \in kids[Mgr(u)]
        PROVE  "root" \notin live[Cur(u)'.pid]
    <3>1. /\ pc[u] \in {"failDelete", "stopDelete"} /\ Mgr(u) \in Manager
          /\ cur[u] \in Ids /\ cur'[u] = cur[u]
      BY <1>0, <1>1, <1>4, <2>1 DEF IInv, Safe, Numbered, Holding, Mgr
    <3>2. Cur(u)'.pid = Cur(u).pid
      BY <1>2, <3>1 DEF Cur, Mgr
    <3>3. QED BY <2>1, <3>1, <3>2 DEF IInv, Safe, Killed
  <2>2. QED BY <1>1, <2>1 DEF Killed, Mgr
<1>10. Tracked'
  <2>1. ASSUME NEW o \in Manager, NEW q \in kids[o], "root" \in live[q]
        PROVE  \/ \E i \in servers'[o] : inst'[o][i].pid = q
               \/ \E u \in Thread : Mgr(u) = o /\ pc'[u] = "register" /\ new[u] = q
    <3>1. ASSUME NEW i \in servers[o], inst[o][i].pid = q
          PROVE  \E j \in servers'[o] : inst'[o][j].pid = q
      <4>1. ~(o = m /\ i = cur[t])
        BY <1>3, <2>1, <3>1 DEF Cur
      <4>2. i \in servers'[o] /\ i \in Ids
        BY <1>0, <1>4, <4>1
      <4>3. QED BY <1>2, <3>1, <4>2
    <3>2. ASSUME NEW u \in Thread, Mgr(u) = o, pc[u] = "register", new[u] = q
          PROVE  pc'[u] = "register"
      BY <1>1, <1>4, <3>2
    <3>3. QED BY <2>1, <3>1, <3>2 DEF IInv, Safe, Tracked
  <2>2. QED BY <1>1, <2>1 DEF Tracked, Mgr
<1>11. QED BY <1>5, <1>6, <1>7, <1>8, <1>9, <1>10 DEF Safe

LEMMA SafeInit == Init => Safe
<1> SUFFICES ASSUME Init PROVE Safe
  OBVIOUS
<1>1. \A m \in Manager, i \in Ids : inst[m][i].pid = 0
  BY DEF Init, NoInst
<1>2. Awake /\ Owned /\ Killed /\ Tracked
  BY DEF Init, Awake, Owned, Killed, Tracked
<1>3. Numbered
  BY DEF Init, Numbered, Holding
<1>4. Spawned
  BY <1>1 DEF Init, Spawned
<1>5. QED BY <1>2, <1>3, <1>4 DEF Safe

LEMMA SafeStep ==
  ASSUME IInv, [Next]_vars
  PROVE  Safe'
<1>1. CASE UNCHANGED vars
  <2>1. UNCHANGED <<live, nextPid, up, servers, inst, nextID, pc, cur, new, kids>>
    BY <1>1 DEF vars, osVars, mapVars, threadVars, callVars, histVars
  <2>2. QED
    BY <2>1 DEF IInv, Safe, Awake, Numbered, Spawned, Owned, Killed, Tracked, Cur, Mgr
<1>2. ASSUME NEW t \in Thread, Call(t) \/ Step(t) PROVE Safe'
  BY <1>2, QuietIsLocal, KillIsLocal, LocalStep, SpawnSafe, RegisterSafe, DeleteSafe,
     DoneSafe DEF Step, Starting, Stopping, Saving
<1>3. QED BY <1>1, <1>2, ExitsSafe, BootSafe, LeaveSafe DEF Next

\* No server process runs that its manager has lost sight of, in any number of
\* concurrent starts, stops and restarts.
THEOREM NoServerLost == Spec => []Tracked
<1>1. Init => Safe
  BY SafeInit
<1>2. TypeOK /\ InHand /\ Safe /\ [Next]_vars => Safe'
  BY SafeStep DEF IInv
<1>3. Spec => [](TypeOK /\ InHand)
  BY TypesInvariant
<1>4. Safe => Tracked
  BY DEF Safe
<1>5. QED BY <1>1, <1>2, <1>3, <1>4, PTL DEF Spec

-----------------------------------------------------------------------------
(* The generations of a server, and the registry file.                     *)
(*                                                                         *)
(* A restart is followed through the stop of its first half: behind        *)
(* stopDelete the number in hand is one the manager has handed out, and    *)
(* the root of its process is gone (Ended).  Another goroutine may delete  *)
(* the entry meanwhile; no step revives a process or reuses a number       *)
(* (Apart).                                                                *)
(*                                                                         *)
(* Of the command line, one invocation runs at a time (Alone).  What was   *)
(* started and runs is then in one of three places: in the file between    *)
(* two invocations (OnDisk), in the map of the invocation (InMap), and in  *)
(* what persist is about to write (Course).  That a project has one entry  *)
(* needs that every server but the one being started is running, so that   *)
(* the reuse check sees it (Sole), and that Abs leaves its name (Plain).   *)
LEMMA SafeInvariant == Spec => []IInv
<1>1. Init => Safe
  BY SafeInit
<1>2. TypeOK /\ InHand /\ Safe /\ [Next]_vars => Safe'
  BY SafeStep DEF IInv
<1>3. QED BY <1>1, <1>2, TypesInvariant, PTL DEF Spec, IInv

-----------------------------------------------------------------------------
(* A restart.                                                              *)

\* What registers was spawned, and a call that waits for a server started it.
Begun == {"wait", "ready", "failKill", "failDelete"}
Routed ==
  \A t \in Thread :
    /\ pc[t] \in Begun => op[t] = "start"
    /\ pc[t] = "register" => new[t] \in Pid

\* An instance with a cmd has a process, and when the stop of a restart is over
\* its root is gone.
Saved == {"persist", "truncate", "write", "done"}
Commanded == \A m \in Manager, i \in Ids : inst[m][i].cmd => inst[m][i].pid \in Pid
Ended ==
  \A t \in Thread :
    pc[t] \in Saved \cup {"stopDelete"} /\ op[t] = "restart" =>
      /\ cur[t] \in Ids /\ cur[t] < nextID[Mgr(t)]
      /\ Cur(t).cmd => "root" \notin live[Cur(t).pid]
Generation == Routed /\ Commanded /\ Ended

\* A step of thread t leaves the others where they are, and neither revives a process
\* nor reuses a number.
Apart(t) ==
  /\ \A u \in Thread \ {t} : pc'[u] = pc[u] /\ op'[u] = op[u] /\ cur'[u] = cur[u] /\ new'[u] = new[u]
  /\ \A m \in Manager, i \in Ids : i < nextID[m] =>
       i < nextID'[m] /\ inst'[m][i].pid = inst[m][i].pid /\ inst'[m][i].cmd = inst[m][i].cmd
  /\ \A p \in Pid : p < nextPid => live'[p] \subseteq live[p]

\* Where thread t may go: not behind the stop of a restart, or on from there, or
\* there when the process is gone.
Entitled(t) ==
  \/ pc'[t] \notin Saved \cup {"stopDelete"} \/ op'[t] # "restart"
  \/ pc[t] \in Saved \cup {"stopDelete"} /\ op'[t] = op[t] /\ cur'[t] = cur[t]
  \/ /\ cur'[t] = cur[t] /\ cur[t] \in Ids /\ cur[t] < nextID[Mgr(t)]
     /\ Cur(t).cmd => "root" \notin live'[Cur(t).pid]

LEMMA EndedKept ==
  ASSUME IInv, Commanded, Ended, NEW t \in Thread, Apart(t), Entitled(t)
  PROVE  Ended'
<1>0. inst \in [Manager -> [Ids -> Instances]] /\ Home \in [Thread -> Manager]
  BY ManagerAssumption DEF ManagerAssumption, IInv, TypeOK
<1>1. ASSUME NEW u \in Thread, cur[u] \in Ids, cur[u] < nextID[Mgr(u)],
             cur'[u] = cur[u],
             Cur(u).cmd => "root" \notin live[Cur(u).pid] \/ "root" \notin live'[Cur(u).pid]
      PROVE  /\ cur'[u] < nextID'[Mgr(u)]
             /\ Cur(u)'.cmd => "root" \notin live'[Cur(u)'.pid]
  <2>1. Mgr(u) \in Manager
    BY <1>0 DEF Mgr
  <2>2. /\ cur[u] < nextID'[Mgr(u)]
        /\ Cur(u)'.pid = Cur(u).pid /\ Cur(u)'.cmd = Cur(u).cmd
    BY <1>1, <2>1 DEF Apart, Cur, Mgr
  <2>3. Cur(u).cmd => Cur(u).pid \in Pid /\ Cur(u).pid < nextPid
    BY <1>1, <2>1 DEF Commanded, IInv, Safe, Spawned, Cur
  <2>4. Cur(u).cmd => live'[Cur(u).pid] \subseteq live[Cur(u).pid]
    BY <2>3 DEF Apart
  <2>5. QED BY <1>1, <2>2, <2>4
<1>2. ASSUME NEW u \in Thread, pc'[u] \in Saved \cup {"stopDelete"}, op'[u] = "restart"
      PROVE  /\ cur'[u] \in Ids /\ cur'[u] < nextID'[Mgr(u)]
             /\ Cur(u)'.cmd => "root" \notin live'[Cur(u)'.pid]
  <2>1. CASE u # t \/ (pc[t] \in Saved \cup {"stopDelete"} /\ op'[t] = op[t] /\ cur'[t] = cur[t])
    <3>1. pc[u] \in Saved \cup {"stopDelete"} /\ op[u] = "restart" /\ cur'[u] = cur[u]
      BY <1>2, <2>1 DEF Apart
    <3>2. /\ cur[u] \in Ids /\ cur[u] < nextID[Mgr(u)]
          /\ Cur(u).cmd => "root" \notin live[Cur(u).pid]
      BY <3>1 DEF Ended
    <3>3. QED BY <1>1, <3>1, <3>2
  <2>2. CASE u = t /\ ~(pc[t] \in Saved \cup {"stopDelete"} /\ op'[t] = op[t] /\ cur'[t] = cur[t])
    BY <1>1, <1>2, <2>2 DEF Entitled
  <2>3. QED BY <2>1, <2>2
<1>3. QED BY <1>2 DEF Ended, Mgr

\* A step of a call keeps what a restart needs.
LEMMA StepApart ==
  ASSUME IInv, NEW t \in Thread, Call(t) \/ Step(t)
  PROVE  Apart(t)
<1>0. /\ pc \in [Thread -> Labels] /\ op \in [Thread -> Ops] /\ cur \in [Thread -> Ids \cup {0}]
      /\ new \in [Thread -> Pid \cup {0}] /\ inst \in [Manager -> [Ids -> Instances]]
      /\ nextID \in [Manager -> Nat \ {0}] /\ live \in [Pid -> SUBSET Tree]
      /\ Ids \subseteq Nat
  <2>1. MaxPid \in Nat  BY ManagerAssumption
  <2>2. Ids \subseteq Nat  BY <2>1 DEF Ids
  <2>3. QED BY <2>2 DEF IInv, TypeOK
<1>1. CASE Local(t)
  <2>1. /\ \A u \in Thread \ {t} : pc'[u] = pc[u] /\ cur'[u] = cur[u] /\ new'[u] = new[u]
        /\ \A m \in Manager, i \in Ids : i < nextID[m] =>
             i < nextID'[m] /\ inst'[m][i].pid = inst[m][i].pid /\ inst'[m][i].cmd = inst[m][i].cmd
        /\ \A p \in Pid : p < nextPid => live'[p] \subseteq live[p]
    BY <1>1 DEF Local
  <2>2. \A u \in Thread \ {t} : op'[u] = op[u]
    <3>1. op' = op \/ \E o : op' = [op EXCEPT ![t] = o]
      BY DEF Call, CallStart, CallStop, CallRestart, CallStopAll, CallOn, Step, Starting,
         Stopping, Saving, Check, SpawnFails, GiveUp, Spawn, Register, Ready, NotReady,
         FailKill, FailDelete, FinishStart, StopLookup, StopCheck, StopKill, StopWait,
         StopDelete, Persist, Truncate, Write, Done, Finish, Advance, callVars
    <3>2. QED BY <1>0, <3>1
  <2>3. QED BY <2>1, <2>2 DEF Apart
<1>2. CASE Spawn(t)
  <2>1. /\ \A u \in Thread \ {t} : pc'[u] = pc[u] /\ new'[u] = new[u]
        /\ UNCHANGED <<op, cur, inst, nextID>> /\ nextPid \in Pid
        /\ \E s : live' = [live EXCEPT ![nextPid] = s]
    BY <1>0, <1>2 DEF Spawn, Goto, mapVars
  <2>2. \A p \in Pid : p < nextPid => live'[p] = live[p]
    <3>1. nextPid \in Nat  BY <2>1, NextPidRange
    <3>2. \A p \in Pid : p < nextPid => p # nextPid  BY <3>1
    <3>3. QED BY <1>0, <2>1, <3>2
  <2>3. QED BY <2>1, <2>2 DEF Apart
<1>3. CASE Register(t)
  <2> DEFINE m == Mgr(t)  n == nextID[m]  x == NewInstance(new[t], dir[t])
  <2>1. /\ \A u \in Thread \ {t} : pc'[u] = pc[u] /\ op'[u] = op[u] /\ cur'[u] = cur[u]
                                     /\ new'[u] = new[u]
        /\ inst' = [inst EXCEPT ![m] = [@ EXCEPT ![n] = x]] /\ n \in Ids
        /\ nextID' = [nextID EXCEPT ![m] = n + 1] /\ live' = live
    BY <1>0, <1>3 DEF Register, Goto, osVars
  <2> HIDE DEF x
  <2>2. \A o \in Manager, i \in Ids : i < nextID[o] => i < nextID'[o] /\ inst'[o][i] = inst[o][i]
    <3>1. ASSUME NEW o \in Manager, NEW i \in Ids, i < nextID[o]
          PROVE  i < nextID'[o] /\ inst'[o][i] = inst[o][i]
      <4>1. CASE o = m
        <5>1. i \in Nat /\ n \in Nat /\ i < n /\ i # n
          BY <1>0, <2>1, <3>1, <4>1
        <5>2. i < n + 1  BY <5>1
        <5>3. QED BY <1>0, <2>1, <4>1, <5>1, <5>2
      <4>2. CASE o # m
        BY <1>0, <2>1, <3>1, <4>2
      <4>3. QED BY <4>1, <4>2
    <3>2. QED BY <3>1
  <2>3. QED BY <2>1, <2>2 DEF Apart
<1>4. CASE FailDelete(t) \/ StopDelete(t)
  <2>1. /\ \A u \in Thread \ {t} : pc'[u] = pc[u] /\ op'[u] = op[u] /\ cur'[u] = cur[u]
                                     /\ new'[u] = new[u]
        /\ UNCHANGED <<live, nextID>>
    BY <1>0, <1>4 DEF FailDelete, StopDelete, Advance, Goto, callVars, osVars
  <2>2. \A o \in Manager, i \in Ids :
          inst'[o][i].pid = inst[o][i].pid /\ inst'[o][i].cmd = inst[o][i].cmd
    BY <1>4, StatusKeeps DEF FailDelete, StopDelete
  <2>3. QED BY <2>1, <2>2 DEF Apart
<1>5. CASE Done(t)
  <2>1. /\ UNCHANGED <<new, inst, nextID, live>>
        /\ \E l : pc' = [pc EXCEPT ![t] = l]
        /\ op' = op \/ \E o : op' = [op EXCEPT ![t] = o]
        /\ cur' = cur \/ \E i : cur' = [cur EXCEPT ![t] = i]
    BY <1>5 DEF Done, Finish, Goto, osVars, mapVars
  <2>2. QED BY <1>0, <2>1 DEF Apart
<1>6. QED
  BY <1>1, <1>2, <1>3, <1>4, <1>5, QuietIsLocal, KillIsLocal DEF Step, Starting, Stopping, Saving

LEMMA StepEntitled ==
  ASSUME IInv, Generation, NEW t \in Thread, Call(t) \/ Step(t)
  PROVE  Entitled(t)
<1> USE DEF Saved
<1>0. /\ pc \in [Thread -> Labels] /\ op \in [Thread -> Ops] /\ cur \in [Thread -> Ids \cup {0}]
      /\ live \in [Pid -> SUBSET Tree] /\ inst \in [Manager -> [Ids -> Instances]]
      /\ Mgr(t) \in Manager
  BY ManagerAssumption DEF ManagerAssumption, IInv, TypeOK, Mgr
<1>1. CASE Call(t)
  <2>1. pc'[t] \in {"check", "stopLookup"}
    BY <1>0, <1>1 DEF Call, CallStart, CallStop, CallRestart, CallStopAll, CallOn, Goto
  <2>2. QED BY <2>1 DEF Entitled
<1>2. CASE Check(t)
  <2>1. op' = op /\ op[t] = "start"
    BY <1>2 DEF Check, At, IInv, InHand, Before
  <2>2. QED BY <2>1 DEF Entitled
<1>3. ASSUME GiveUp(t) PROVE Entitled(t)
  BY <1>0, <1>3 DEF GiveUp, Entitled
<1>4. CASE SpawnFails(t) \/ StopLookup(t) \/ StopCheck(t)
  <2>1. GiveUp(t) \/ pc'[t] \in {"stopCheck", "stopKill"}
    BY <1>0, <1>4 DEF SpawnFails, StopLookup, StopCheck, Advance, Goto
  <2>2. QED BY <1>3, <2>1 DEF Entitled
<1>5. CASE Spawn(t) \/ Register(t) \/ Ready(t) \/ NotReady(t) \/ FailKill(t)
  <2>1. pc'[t] \in {"register", "wait", "ready", "failKill", "failDelete"}
    BY <1>0, <1>5 DEF Spawn, Register, Ready, NotReady, FailKill, Advance, Goto
  <2>2. QED BY <2>1 DEF Entitled
<1>6. CASE FailDelete(t)
  BY <1>0, <1>6 DEF FailDelete, Entitled
<1>7. CASE FinishStart(t)
  <2>1. op' = op /\ op[t] = "start"
    BY <1>7 DEF FinishStart, Advance, At, callVars, Generation, Routed, Begun
  <2>2. QED BY <2>1 DEF Entitled
<1>8. CASE StopKill(t) \/ StopWait(t)
  <2>1. /\ pc[t] \in Holding /\ cur' = cur
    BY <1>8 DEF StopKill, StopWait, Advance, At, callVars, Holding
  <2>2. cur[t] \in Ids /\ cur[t] < nextID[Mgr(t)]
    BY <2>1 DEF IInv, Safe, Numbered
  <2>3. Cur(t).cmd => Cur(t).pid \in Pid
    BY <1>0, <2>2 DEF Generation, Commanded, Cur
  <2>4. CASE StopKill(t) /\ Cur(t).cmd
    <3>1. pc'[t] = "stopWait"
      BY <1>0, <2>4 DEF StopKill, Goto
    <3>2. QED BY <3>1 DEF Entitled
  <2>5. CASE StopKill(t) /\ ~Cur(t).cmd
    BY <2>1, <2>2, <2>5 DEF Entitled
  <2>6. CASE StopWait(t)
    <3>1. live' = [live EXCEPT ![Cur(t).pid] = live[Cur(t).pid] \ {"root"}]
      BY <2>6 DEF StopWait, KillRoot
    <3>2. Cur(t).cmd => "root" \notin live'[Cur(t).pid]
      BY <1>0, <2>3, <3>1
    <3>3. QED BY <2>1, <2>2, <3>2 DEF Entitled
  <2>7. QED BY <1>8, <2>4, <2>5, <2>6
<1>9. CASE StopDelete(t) \/ Persist(t) \/ Truncate(t) \/ Write(t)
  <2>1. pc[t] \in Saved \cup {"stopDelete"} /\ op' = op /\ cur' = cur
    BY <1>9 DEF StopDelete, Persist, Truncate, Write, Advance, At, callVars
  <2>2. QED BY <2>1 DEF Entitled
<1>10. CASE Done(t)
  <2>1. pc'[t] \in {"check", "stopLookup", "idle"}
    BY <1>0, <1>10 DEF Done, Finish, Goto
  <2>2. QED BY <2>1 DEF Entitled
<1>11. QED
  BY <1>1, <1>2, <1>4, <1>5, <1>6, <1>7, <1>8, <1>9, <1>10 DEF Step, Starting, Stopping, Saving

\* A call that waits for a server is a start, and registers the process it spawned.
LEMMA RoutedStep ==
  ASSUME IInv, Routed, NEW t \in Thread, Call(t) \/ Step(t)
  PROVE  Routed'
<1>0. /\ pc \in [Thread -> Labels] /\ op \in [Thread -> Ops] /\ new \in [Thread -> Pid \cup {0}]
  BY DEF IInv, TypeOK
<1>1. /\ pc'[t] \in Begun => op'[t] = "start"
      /\ pc'[t] = "register" => new'[t] \in Pid
  <2>1. CASE Spawn(t)
    BY <1>0, <2>1 DEF Spawn, Goto, Begun
  <2>2. CASE Register(t)
    <3>1. op' = op /\ pc'[t] = "wait" /\ op[t] = "start"
      BY <1>0, <2>2 DEF Register, At, Goto, IInv, InHand, Before
    <3>2. QED BY <3>1
  <2>3. CASE Ready(t) \/ NotReady(t) \/ FailKill(t)
    <3>1. op' = op /\ pc[t] \in Begun /\ pc'[t] # "register"
      BY <1>0, <2>3 DEF Ready, NotReady, FailKill, Advance, At, Goto, callVars, Begun
    <3>2. QED BY <3>1 DEF Routed
  <2>4. CASE Call(t) \/ Check(t) \/ SpawnFails(t) \/ FailDelete(t) \/ FinishStart(t)
             \/ Stopping(t) \/ Saving(t)
    <3>1. pc'[t] \notin Begun \cup {"register"}
      <4>1. CASE Call(t)
        BY <1>0, <4>1 DEF Call, CallStart, CallStop, CallRestart, CallStopAll, CallOn, Goto, Begun
      <4>2. CASE Check(t) \/ SpawnFails(t) \/ FailDelete(t) \/ FinishStart(t)
        BY <1>0, <4>2 DEF Check, SpawnFails, GiveUp, FailDelete, FinishStart, Advance, Goto, Begun
      <4>3. CASE Stopping(t)
        BY <1>0, <4>3 DEF Stopping, StopLookup, StopCheck, StopKill, StopWait, StopDelete,
           GiveUp, Advance, Goto, Begun
      <4>4. CASE Saving(t)
        BY <1>0, <4>4 DEF Saving, Persist, Truncate, Write, Done, Finish, Advance, Goto, Begun
      <4>5. QED BY <2>4, <4>1, <4>2, <4>3, <4>4
    <3>2. QED BY <3>1
  <2>5. QED BY <2>1, <2>2, <2>3, <2>4 DEF Step, Starting
<1>2. Apart(t)
  BY StepApart
<1>3. QED BY <1>1, <1>2 DEF Routed, Apart

LEMMA CommandedStep ==
  ASSUME IInv, Routed, Commanded, NEW t \in Thread, Call(t) \/ Step(t)
  PROVE  Commanded'
<1>0. /\ inst \in [Manager -> [Ids -> Instances]]
  BY DEF IInv, TypeOK
<1>1. CASE Register(t)
  <2> DEFINE m == Mgr(t)  n == nextID[m]  x == NewInstance(new[t], dir[t])
  <2>1. /\ inst' = [inst EXCEPT ![m] = [@ EXCEPT ![n] = x]] /\ new[t] \in Pid
    BY <1>1 DEF Register, At, Routed
  <2>2. x.pid \in Pid
    BY <2>1 DEF NewInstance
  <2> HIDE DEF x
  <2>3. \A o \in Manager, i \in Ids : inst'[o][i] = inst[o][i] \/ inst'[o][i] = x
    BY <1>0, <2>1
  <2>4. QED BY <2>2, <2>3 DEF Commanded
<1>2. CASE ~Register(t)
  <2>1. \A o \in Manager, i \in Ids :
          inst'[o][i].pid = inst[o][i].pid /\ inst'[o][i].cmd = inst[o][i].cmd
    <3>1. CASE Local(t)
      BY <3>1 DEF Local
    <3>2. CASE FailDelete(t) \/ StopDelete(t)
      BY <3>2, StatusKeeps DEF FailDelete, StopDelete
    <3>3. CASE Spawn(t) \/ Done(t)
      BY <3>3 DEF Spawn, Done, mapVars
    <3>4. QED
      BY <1>2, <3>1, <3>2, <3>3, QuietIsLocal, KillIsLocal DEF Step, Starting, Stopping, Saving
  <2>2. QED BY <2>1 DEF Commanded
<1>3. QED BY <1>1, <1>2

\* The steps of the operating system and of whole processes.
LEMMA WorldGeneration ==
  ASSUME IInv, Generation,
         \/ UNCHANGED vars
         \/ \E p \in Pid : Exits(p)
         \/ \E m \in Manager : Boot(m) \/ Crash(m)
  PROVE  Generation'
<1> USE DEF Generation
<1>0. /\ inst \in [Manager -> [Ids -> Instances]] /\ Home \in [Thread -> Manager]
  BY ManagerAssumption DEF ManagerAssumption, IInv, TypeOK
<1>c. \A t \in Thread : pc[t] \in Saved \cup {"stopDelete"} /\ op[t] = "restart" =>
         /\ cur[t] \in Ids /\ Mgr(t) \in Manager
         /\ Cur(t).cmd => Cur(t).pid \in Pid
  BY <1>0 DEF Ended, Commanded, Cur, Mgr
<1>1. CASE UNCHANGED vars
  <2>1. UNCHANGED <<live, inst, nextID, pc, op, cur, new>>
    BY <1>1 DEF vars, osVars, mapVars, threadVars, callVars
  <2>2. QED BY <2>1 DEF Routed, Commanded, Ended, Cur, Mgr
<1>2. ASSUME NEW p \in Pid, Exits(p) PROVE Generation'
  <2>1. UNCHANGED <<inst, nextID, pc, op, cur, new>>
    BY <1>2 DEF Exits, mapVars, threadVars, callVars
  <2>2. \A q \in Pid : live'[q] \subseteq live[q]
    BY <1>2, KillKeeps DEF Exits
  <2>3. Routed' /\ Commanded'
    BY <2>1 DEF Routed, Commanded
  <2>4. Ended'
    BY <1>c, <2>1, <2>2 DEF Ended, Cur, Mgr
  <2>5. QED BY <2>3, <2>4
<1>3. ASSUME NEW m \in Manager, Boot(m) PROVE Generation'
  <2>1. UNCHANGED <<live, pc, op, cur, new>> /\ ~up[m]
    BY <1>3 DEF Boot, osVars, threadVars, callVars
  <2>2. /\ \A o \in Manager \ {m} : inst'[o] = inst[o] /\ nextID'[o] = nextID[o]
        /\ \A i \in Ids : inst'[m][i].cmd = FALSE
    <3> DEFINE recs == IF Persistent THEN AliveRecords(file.recs) ELSE {}
               used == {r.id : r \in recs}
               pick(i) == CHOOSE r \in recs : r.id = i
    <3>1. inst' = [inst EXCEPT ![m] = [i \in Ids |-> IF i \in used
             THEN [pid |-> pick(i).pid, dir |-> pick(i).dir, status |-> "running", cmd |-> FALSE]
             ELSE NoInst]]
      BY <1>3 DEF Boot
    <3>2. \E n : nextID' = [nextID EXCEPT ![m] = n]
      BY <1>3 DEF Boot
    <3> HIDE DEF pick, used, recs
    <3>3. \A i \in Ids : inst'[m][i].cmd = FALSE
      BY <1>0, <3>1 DEF NoInst
    <3>4. nextID \in [Manager -> Nat \ {0}]
      BY DEF IInv, TypeOK
    <3>5. QED BY <1>0, <3>1, <3>2, <3>3, <3>4
  <2>3. \A t \in Thread : pc[t] # "idle" => Mgr(t) # m
    BY <2>1 DEF IInv, Safe, Awake
  <2>4. Routed' /\ Commanded'
    BY <2>1, <2>2 DEF Routed, Commanded
  <2>5. Ended'
    BY <1>c, <2>1, <2>2, <2>3 DEF Ended, Saved, Cur, Mgr
  <2>6. QED BY <2>4, <2>5
<1>4. ASSUME NEW m \in Manager, Crash(m) PROVE Generation'
  <2>1. /\ UNCHANGED <<live, inst, nextID>>
        /\ \A t \in Thread : \/ pc'[t] = "idle"
                             \/ pc'[t] = pc[t] /\ op'[t] = op[t] /\ cur'[t] = cur[t] /\ new'[t] = new[t]
    BY <1>4 DEF Crash, Leave, osVars, mapVars
  <2>2. Routed' /\ Commanded'
    BY <2>1 DEF Routed, Commanded, Begun
  <2>3. Ended'
    BY <2>1 DEF Ended, Saved, Cur, Mgr
  <2>4. QED BY <2>2, <2>3
<1>5. QED BY <1>1, <1>2, <1>3, <1>4

LEMMA GenerationInvariant == Spec => [](IInv /\ Generation)
<1>1. Init => Generation
  BY DEF Init, Generation, Routed, Commanded, Ended, Begun, Saved, NoInst
<1>2. IInv /\ Generation /\ [Next]_vars => Generation'
  <2> SUFFICES ASSUME IInv, Generation, [Next]_vars PROVE Generation'
    OBVIOUS
  <2>1. ASSUME NEW t \in Thread, Call(t) \/ Step(t) PROVE Generation'
    <3>1. Routed' /\ Commanded'
      BY <2>1, RoutedStep, CommandedStep DEF Generation
    <3>2. Ended'
      BY <2>1, StepApart, StepEntitled, EndedKept DEF Generation
    <3>3. QED BY <3>1, <3>2 DEF Generation
  <2>2. QED BY <2>1, WorldGeneration DEF Next
<1>3. QED BY <1>1, <1>2, SafeInvariant, PTL DEF Spec

\* The second half of RestartServer starts when the root of what it stopped is gone,
\* whatever other goroutines do; children of that root may outlive it.
THEOREM RestartIsClean == Spec => RestartReplaces
<1> DEFINE Replaces(t) ==
      (At(t, "done") /\ op[t] = "restart" /\ Cur(t).cmd /\ pc'[t] = "check")
         => "root" \notin live[Cur(t).pid]
<1>1. Generation => \A t \in Thread : Replaces(t)
  BY DEF Generation, Ended, Saved, At
<1>2. (IInv /\ Generation) /\ [Next]_vars => [\A t \in Thread : Replaces(t)]_vars
  BY <1>1
<1>3. QED BY <1>2, GenerationInvariant, PTL DEF Spec, RestartReplaces

-----------------------------------------------------------------------------
(* The command line: one invocation at a time, and the registry file.      *)

Runs(p) == "root" \in live[p]
Lists(recs, p) == \E r \in recs : r.pid = p
OnFile(p) == file.state # "torn" => Lists(file.recs, p)
UniqueIds(recs) == \A r, s \in recs : r.id = s.id => r = s

\* At most one invocation runs, and it has no command that restarts or stops all.
Alone ==
  /\ \A m, n \in Manager : up[m] /\ up[n] => m = n
  /\ \A t \in Thread : op[t] \notin {"restart", "stopAll"}

\* What was started and runs is in the file, unless a write was cut short.
OnDisk ==
  /\ UniqueIds(file.recs)
  /\ \A p \in started : p \in Pid /\ p < nextPid /\ (Runs(p) => OnFile(p))

\* An invocation knows what was started and runs.
InMap ==
  \A m \in Manager : up[m] =>
    /\ \A i \in servers[m] : inst[m][i].pid \in Pid
    /\ \A p \in started : Runs(p) => \E i \in servers[m] : inst[m][i].pid = p

\* Where it is in its command: what it loaded is in the file, what it starts is in
\* its map, and what it is about to write, and has written, lists all of it.
Stops == {"stopLookup", "stopCheck", "stopKill", "stopWait", "stopDelete"}
Course(t) ==
  /\ up[Mgr(t)] /\ pc[t] \in {"idle", "check"} =>
       \A i \in servers[Mgr(t)] : Runs(inst[Mgr(t)][i].pid) => OnFile(inst[Mgr(t)][i].pid)
  /\ pc[t] \in Stops => op[t] # "start"
  /\ pc[t] \in Begun \/ (pc[t] \in Saved /\ op[t] = "start") => cur[t] \in servers[Mgr(t)]
  /\ pc[t] = "failDelete" => ~Runs(Cur(t).pid)
  /\ pc[t] \in {"truncate", "write"} =>
       /\ UniqueIds(snap[t])
       /\ \A p \in started : Runs(p) => Lists(snap[t], p)
       /\ op[t] = "start" => Lists(snap[t], Cur(t).pid)
  /\ pc[t] = "done" /\ op[t] = "start" /\ Runs(Cur(t).pid) => OnFile(Cur(t).pid)

Stored == Alone /\ OnDisk /\ InMap /\ \A t \in Thread : Course(t)
DInv == IInv /\ Routed /\ Stored

\* A command-line invocation is alone with its thread.
LEMMA Focus ==
  ASSUME Persistent, IInv, Alone, NEW t \in Thread, Call(t) \/ Step(t)
  PROVE  /\ Mgr(t) \in Manager /\ up[Mgr(t)] /\ \A m \in Manager \ {Mgr(t)} : ~up[m] /\ ~up'[m]
         /\ \A u \in Thread \ {t} : pc'[u] = "idle" /\ ~up'[Mgr(u)] /\ op'[u] = op[u]
<1>0. /\ Home \in [Thread -> Manager] /\ up \in [Manager -> BOOLEAN]
      /\ \A u \in Thread : Mgr(u) = Mgr(t) => u = t
  BY ManagerAssumption DEF ManagerAssumption, IInv, TypeOK, Mgr
<1>1. up[Mgr(t)]
  BY DEF Call, CallStart, CallStop, CallRestart, CallStopAll, CallOn, Free, Step, Starting,
     Stopping, Saving, Check, SpawnFails, Spawn, Register, Ready, NotReady,
     FailKill, FailDelete, FinishStart, StopLookup, StopCheck, StopKill, StopWait,
     StopDelete, Persist, Truncate, Write, Done, Advance, At
<1>2. up' = up \/ \E b : up' = [up EXCEPT ![Mgr(t)] = b]
  <2>1. CASE Done(t)
    BY <2>1 DEF Done, Finish
  <2>2. CASE ~Done(t)
    BY <2>2 DEF Call, CallStart, CallStop, CallRestart, CallStopAll, CallOn, Step, Starting,
     Stopping, Saving, Check, SpawnFails, GiveUp, Spawn, Register, Ready, NotReady,
     FailKill, FailDelete, FinishStart, StopLookup, StopCheck, StopKill, StopWait,
     StopDelete, Persist, Truncate, Write, Advance
  <2>3. QED BY <2>1, <2>2
<1>3. \A m \in Manager \ {Mgr(t)} : ~up[m] /\ ~up'[m]
  <2>1. \A m \in Manager \ {Mgr(t)} : ~up[m]
    BY <1>0, <1>1 DEF Alone, Mgr
  <2>2. QED BY <1>0, <1>2, <2>1
<1>4. \A u \in Thread \ {t} : Mgr(u) \in Manager \ {Mgr(t)}
  BY <1>0 DEF Mgr
<1>5. \A u \in Thread \ {t} : pc[u] = "idle"
  BY <1>3, <1>4 DEF IInv, Safe, Awake
<1>6. Apart(t)
  BY StepApart
<1>7. QED BY <1>0, <1>1, <1>3, <1>4, <1>5, <1>6 DEF Apart, Mgr

\* It has no restart and no stop-all.
LEMMA AloneStep ==
  ASSUME Persistent, IInv, Alone, NEW t \in Thread, Call(t) \/ Step(t)
  PROVE  Alone'
<1>0. op \in [Thread -> Ops] /\ Persistent = TRUE
  BY DEF IInv, TypeOK
<1>1. \A m, n \in Manager : up'[m] /\ up'[n] => m = n
  BY Focus
<1>2. op'[t] = op[t] \/ op'[t] \in {"start", "stop", "failed", "none"}
  <2>1. CASE Call(t)
    BY <1>0, <2>1 DEF Call, CallStart, CallStop, CallRestart, CallStopAll, CallOn
  <2>2. CASE Starting(t)
    BY <1>0, <2>2 DEF Starting, Check, SpawnFails, GiveUp, Spawn, Register, Ready, NotReady,
       FailKill, FailDelete, FinishStart, Advance, callVars
  <2>3. CASE Stopping(t)
    BY <1>0, <2>3 DEF Stopping, StopLookup, StopCheck, StopKill, StopWait, StopDelete, GiveUp,
       Advance, callVars
  <2>4. CASE Saving(t)
    BY <1>0, <2>4 DEF Saving, Persist, Truncate, Write, Done, Finish, Advance, callVars
  <2>5. QED BY <2>1, <2>2, <2>3, <2>4 DEF Step
<1>3. \A u \in Thread \ {t} : op'[u] = op[u]
  BY Focus
<1>4. QED BY <1>1, <1>2, <1>3 DEF Alone

\* With the thread's own course, and the map of its invocation, all is said.
LEMMA StoredFocus ==
  ASSUME Persistent, IInv, Alone, NEW t \in Thread, Call(t) \/ Step(t), OnDisk', Course(t)',
         up'[Mgr(t)] =>
           /\ \A i \in servers'[Mgr(t)] : inst'[Mgr(t)][i].pid \in Pid
           /\ \A p \in started' : Runs(p)' => \E i \in servers'[Mgr(t)] : inst'[Mgr(t)][i].pid = p
  PROVE  Stored'
<1>1. Alone'
  BY AloneStep
<1>2. InMap'
  BY Focus DEF InMap
<1>3. ASSUME NEW u \in Thread, u # t PROVE Course(u)'
  <2>1. pc'[u] = "idle" /\ ~up'[Mgr(u)]
    BY <1>3, Focus
  <2>2. QED BY <2>1 DEF Course, Stops, Begun, Saved, Mgr
<1>4. QED BY <1>1, <1>2, <1>3 DEF Stored

\* A step that leaves file, map and history alone, and revives nothing.
Quiet(t) ==
  /\ UNCHANGED <<file, started, servers, nextPid, snap>> /\ up' = up
  /\ \A m \in Manager, i \in Ids : inst'[m][i].pid = inst[m][i].pid
  /\ \A p \in Pid : live'[p] \subseteq live[p]

LEMMA QuietSteps ==
  ASSUME IInv, NEW t \in Thread,
         \/ Call(t) \/ Check(t) \/ SpawnFails(t) \/ Ready(t) \/ NotReady(t)
         \/ StopLookup(t) \/ StopCheck(t)
         \/ FailKill(t) \/ StopKill(t) \/ StopWait(t) \/ FinishStart(t)
  PROVE  Quiet(t)
<1>1. Local(t)
  BY QuietIsLocal, KillIsLocal
<1>2. UNCHANGED <<file, started, snap>>
  BY DEF Call, CallStart, CallStop, CallRestart, CallStopAll, CallOn, Check, SpawnFails, GiveUp,
     Ready, NotReady, StopLookup, StopCheck, FailKill, StopKill, StopWait, FinishStart, Advance,
     callVars, histVars
<1>3. QED BY <1>1, <1>2 DEF Local, Quiet

LEMMA QuietStored ==
  ASSUME Persistent, DInv, NEW t \in Thread, Quiet(t), Call(t) \/ Step(t), Course(t)'
  PROVE  Stored'
<1>1. OnDisk'
  BY DEF DInv, Stored, OnDisk, Quiet, Runs, OnFile
<1>2. Mgr(t) \in Manager /\ up[Mgr(t)]
  BY Focus DEF DInv, Stored
<1>3. servers \in [Manager -> SUBSET Ids]
  BY DEF DInv, IInv, TypeOK
<1>4. \A i \in servers'[Mgr(t)] : inst'[Mgr(t)][i].pid \in Pid
  BY <1>2, <1>3 DEF DInv, Stored, InMap, Quiet
<1>5. ASSUME NEW p \in started', Runs(p)'
      PROVE  \E i \in servers'[Mgr(t)] : inst'[Mgr(t)][i].pid = p
  <2>1. p \in started /\ p \in Pid /\ Runs(p)
    BY <1>5 DEF Quiet, Runs, DInv, Stored, OnDisk
  <2>2. PICK i \in servers[Mgr(t)] : inst[Mgr(t)][i].pid = p
    BY <1>2, <2>1 DEF DInv, Stored, InMap
  <2>3. QED BY <1>2, <1>3, <2>2 DEF Quiet
<1>6. QED BY <1>1, <1>4, <1>5, StoredFocus DEF DInv, Stored

\* The course of a call that leaves file and map alone.
LEMMA QuietCourse ==
  ASSUME Persistent, DInv, NEW t \in Thread,
         \/ Call(t) \/ Check(t) \/ SpawnFails(t) \/ Ready(t) \/ NotReady(t)
         \/ StopLookup(t) \/ StopCheck(t)
         \/ FailKill(t) \/ StopKill(t) \/ StopWait(t) \/ FinishStart(t)
  PROVE  Course(t)'
<1> USE DEF Saved, Begun, Stops
<1>0. /\ pc \in [Thread -> Labels] /\ op \in [Thread -> Ops] /\ cur \in [Thread -> Ids \cup {0}]
      /\ live \in [Pid -> SUBSET Tree] /\ Persistent = TRUE
  BY DEF DInv, IInv, TypeOK
<1>1. /\ Mgr(t) \in Manager /\ up[Mgr(t)] /\ Mgr(t)' = Mgr(t)
      /\ op[t] \notin {"restart", "stopAll"} /\ Course(t)
  BY Focus DEF DInv, Stored, Alone, Step, Starting, Stopping, Mgr
<1>2. Quiet(t)
  BY QuietSteps DEF DInv
<1>3. CASE Call(t)
  <2>1. /\ pc[t] = "idle" /\ live' = live /\ inst' = inst
        /\ \/ pc'[t] = "check"
           \/ pc'[t] = "stopLookup" /\ op'[t] = "stop"
    BY <1>0, <1>3 DEF Call, CallStart, CallStop, CallRestart, CallStopAll, CallOn, Free, At, Goto,
       osVars, mapVars
  <2>2. \A i \in servers'[Mgr(t)] :
          (Runs(inst[Mgr(t)][i].pid) => OnFile(inst[Mgr(t)][i].pid))'
    BY <1>1, <1>2, <2>1 DEF Course, Quiet, Runs, OnFile
  <2>3. QED BY <1>1, <2>1, <2>2 DEF Course
<1>4. CASE Check(t)
  <2>1. /\ pc[t] = "check" /\ live' = live /\ inst' = inst /\ op' = op
        /\ \/ pc'[t] = "spawn"
           \/ pc'[t] = "done" /\ cur'[t] \in servers[Mgr(t)]
    BY <1>0, <1>4 DEF Check, Reusable, At, Goto, osVars, mapVars
  <2>2. CASE pc'[t] = "spawn"
    BY <2>2 DEF Course
  <2>3. CASE pc'[t] = "done" /\ cur'[t] \in servers[Mgr(t)]
    <3>1. (Runs(Cur(t).pid) => OnFile(Cur(t).pid))'
      BY <1>1, <1>2, <2>1, <2>3 DEF Course, Quiet, Runs, OnFile, Cur
    <3>2. QED BY <1>1, <1>2, <2>3, <3>1 DEF Course, Quiet
  <2>4. QED BY <2>1, <2>2, <2>3
<1>5. ASSUME GiveUp(t) PROVE Course(t)'
  <2>1. pc'[t] = "done" /\ op'[t] = "failed"
    BY <1>0, <1>1, <1>5 DEF GiveUp, Goto
  <2>2. QED BY <2>1 DEF Course
<1>6. CASE StopLookup(t) \/ StopCheck(t) \/ StopKill(t) \/ StopWait(t)
  <2>1. \/ GiveUp(t)
        \/ /\ pc[t] \in Stops /\ op' = op
           /\ pc'[t] \in {"stopCheck", "stopKill", "stopWait", "stopDelete"}
    BY <1>0, <1>6 DEF StopLookup, StopCheck, StopKill, StopWait, Advance, At, Goto, callVars
  <2>2. CASE /\ pc[t] \in Stops /\ op' = op
             /\ pc'[t] \in {"stopCheck", "stopKill", "stopWait", "stopDelete"}
    BY <1>1, <2>2 DEF Course
  <2>3. QED BY <1>5, <2>1, <2>2
<1>7. CASE Ready(t) \/ NotReady(t)
  <2>1. pc[t] = "wait" /\ pc'[t] \in {"ready", "failKill"} /\ cur' = cur
    BY <1>0, <1>7 DEF Ready, NotReady, Advance, At, Goto, callVars
  <2>2. QED BY <1>1, <1>2, <2>1 DEF Course, Quiet
<1>8. CASE FailKill(t)
  <2>1. /\ pc[t] = "failKill" /\ pc'[t] = "failDelete" /\ cur' = cur /\ inst' = inst
        /\ live' = [live EXCEPT ![Cur(t).pid] = live[Cur(t).pid] \ {"root"}]
    BY <1>0, <1>8 DEF FailKill, KillRoot, Advance, At, Goto, callVars, mapVars
  <2>2. cur[t] \in servers[Mgr(t)]
    BY <1>1, <2>1 DEF Course
  <2>3. Cur(t).pid \in Pid /\ Cur(t)' = Cur(t)
    BY <1>1, <2>1, <2>2 DEF DInv, Stored, InMap, Cur, Mgr
  <2>4. ~Runs(Cur(t).pid)'
    BY <1>0, <2>1, <2>3 DEF Runs
  <2>5. QED BY <1>1, <1>2, <2>1, <2>2, <2>3, <2>4 DEF Course, Quiet
<1>9. CASE FinishStart(t)
  <2>1. pc[t] = "ready" /\ pc'[t] = "persist" /\ cur' = cur
    BY <1>0, <1>9 DEF FinishStart, Advance, At, Goto, callVars
  <2>2. QED BY <1>1, <1>2, <2>1 DEF Course, Quiet
<1>10. QED
  BY <1>3, <1>4, <1>5, <1>6, <1>7, <1>8, <1>9 DEF SpawnFails

\* A process starts, and is registered.
LEMMA SpawnStored ==
  ASSUME Persistent, DInv, NEW t \in Thread, Spawn(t)
  PROVE  Stored'
<1>0. /\ pc \in [Thread -> Labels] /\ live \in [Pid -> SUBSET Tree]
      /\ servers \in [Manager -> SUBSET Ids]
  BY DEF DInv, IInv, TypeOK
<1>1. /\ Mgr(t) \in Manager /\ up[Mgr(t)]
  BY Focus DEF DInv, Stored, Step, Starting
<1>2. /\ UNCHANGED <<servers, inst, file, started>> /\ pc'[t] = "register"
      /\ nextPid \in Pid /\ nextPid \in Nat /\ nextPid' = nextPid + 1
      /\ \E s : live' = [live EXCEPT ![nextPid] = s]
  BY <1>0, NextPidRange DEF Spawn, Goto, mapVars
<1>3. ASSUME NEW p \in Pid, p < nextPid PROVE live'[p] = live[p] /\ p < nextPid'
  <2>1. p # nextPid /\ p \in Nat
    <3>1. MaxPid \in Nat  BY ManagerAssumption
    <3>2. QED BY <1>2, <1>3, <3>1 DEF Pid
  <2>2. QED BY <1>0, <1>2, <1>3, <2>1
<1>4. OnDisk'
  BY <1>2, <1>3 DEF DInv, Stored, OnDisk, Runs, OnFile
<1>5. /\ \A i \in servers'[Mgr(t)] : inst'[Mgr(t)][i].pid \in Pid
      /\ \A p \in started' : Runs(p)' => \E i \in servers'[Mgr(t)] : inst'[Mgr(t)][i].pid = p
  BY <1>1, <1>2, <1>3 DEF DInv, Stored, InMap, OnDisk, Runs
<1>6. Course(t)'
  BY <1>2 DEF Course, Saved, Begun, Stops
<1>7. QED BY <1>4, <1>5, <1>6, StoredFocus DEF DInv, Stored, Step, Starting

LEMMA RegisterStored ==
  ASSUME Persistent, DInv, NEW t \in Thread, Register(t)
  PROVE  Stored'
<1> DEFINE m == Mgr(t)  n == nextID[m]  x == NewInstance(new[t], dir[t])
<1>0. /\ pc \in [Thread -> Labels] /\ cur \in [Thread -> Ids \cup {0}]
      /\ servers \in [Manager -> SUBSET Ids] /\ inst \in [Manager -> [Ids -> Instances]]
      /\ nextID \in [Manager -> Nat \ {0}]
  BY DEF DInv, IInv, TypeOK
<1>1. /\ m \in Manager /\ up[m]
  BY Focus DEF DInv, Stored, Step, Starting
<1>2. /\ inst' = [inst EXCEPT ![m] = [@ EXCEPT ![n] = x]] /\ n \in Ids
      /\ servers' = [servers EXCEPT ![m] = @ \cup {n}]
      /\ cur'[t] = n /\ pc'[t] = "wait" /\ new[t] \in Pid
      /\ UNCHANGED <<live, nextPid, file, started>>
  BY <1>0 DEF Register, At, Goto, osVars, histVars, DInv, Routed
<1>3. x.pid = new[t]
  BY DEF NewInstance
<1> HIDE DEF x
<1>4. /\ servers'[m] = servers[m] \cup {n} /\ n \notin servers[m]
      /\ inst'[m][n].pid = new[t] /\ \A i \in Ids \ {n} : inst'[m][i] = inst[m][i]
  <2>1. n \notin servers[m]
    BY <1>0, <1>1 DEF DInv, IInv, Safe, Numbered
  <2>2. QED BY <1>0, <1>1, <1>2, <1>3, <2>1
<1>5. OnDisk'
  BY <1>2 DEF DInv, Stored, OnDisk, Runs, OnFile
<1>6. /\ \A i \in servers'[m] : inst'[m][i].pid \in Pid
      /\ \A p \in started' : Runs(p)' => \E i \in servers'[m] : inst'[m][i].pid = p
  <2>1. servers[m] \subseteq Ids \ {n}
    BY <1>0, <1>1, <1>4
  <2>2. /\ \A i \in servers[m] : inst[m][i].pid \in Pid
        /\ \A p \in started : Runs(p) => \E i \in servers[m] : inst[m][i].pid = p
    BY <1>1 DEF DInv, Stored, InMap
  <2>3. QED BY <1>2, <1>4, <2>1, <2>2 DEF Runs
<1>7. Course(t)'
  BY <1>2, <1>4 DEF Course, Saved, Begun, Stops, Mgr
<1>8. QED BY <1>5, <1>6, <1>7, StoredFocus DEF DInv, Stored, Step, Starting, Mgr

\* What is deleted does not run any more, or is to be forgotten.
LEMMA DeleteStored ==
  ASSUME Persistent, DInv, NEW t \in Thread, FailDelete(t) \/ StopDelete(t)
  PROVE  Stored'
<1> DEFINE m == Mgr(t)
<1>0. /\ pc \in [Thread -> Labels] /\ op \in [Thread -> Ops]
      /\ servers \in [Manager -> SUBSET Ids]
  BY DEF DInv, IInv, TypeOK
<1>1. /\ m \in Manager /\ up[m] /\ Course(t)
  BY Focus DEF DInv, Stored, Step, Starting, Stopping
<1>2. /\ servers' = [servers EXCEPT ![m] = @ \ {cur[t]}] /\ pc'[t] = "persist"
      /\ UNCHANGED <<live, nextPid, file>> /\ started' \subseteq started
      /\ \A p \in started' : p = Cur(t).pid => ~Runs(p)
      /\ op'[t] # "start"
  <2>1. CASE FailDelete(t)
    BY <1>0, <1>1, <2>1 DEF FailDelete, Delete, At, Goto, osVars, histVars, Course
  <2>2. CASE StopDelete(t)
    BY <1>0, <1>1, <2>2 DEF StopDelete, Delete, Advance, At, Goto, callVars, osVars, Course, Stops
  <2>3. QED BY <2>1, <2>2
<1>3. \A o \in Manager, i \in Ids : inst'[o][i].pid = inst[o][i].pid
  <2>1. CASE FailDelete(t)  BY <2>1 DEF FailDelete
  <2>2. CASE StopDelete(t)  BY <2>2, StatusKeeps DEF StopDelete, DInv
  <2>3. QED BY <2>1, <2>2
<1>4. OnDisk'
  BY <1>2 DEF DInv, Stored, OnDisk, Runs, OnFile
<1>5. servers'[m] = servers[m] \ {cur[t]} /\ servers[m] \subseteq Ids
  BY <1>0, <1>1, <1>2
<1>6. \A i \in servers'[m] : inst'[m][i].pid \in Pid
  BY <1>1, <1>3, <1>5 DEF DInv, Stored, InMap
<1>7. ASSUME NEW p \in started', Runs(p)'
      PROVE  \E i \in servers'[m] : inst'[m][i].pid = p
  <2>1. p \in started /\ Runs(p) /\ p # Cur(t).pid
    BY <1>2, <1>7 DEF Runs
  <2>2. PICK i \in servers[m] : inst[m][i].pid = p
    BY <1>1, <2>1 DEF DInv, Stored, InMap
  <2>3. i # cur[t]
    BY <2>1, <2>2 DEF Cur
  <2>4. QED BY <1>1, <1>3, <1>5, <2>2, <2>3
<1>8. Course(t)'
  BY <1>2 DEF Course, Saved, Begun, Stops
<1>9. QED BY <1>4, <1>6, <1>7, <1>8, StoredFocus DEF DInv, Stored, Step, Starting, Stopping, Mgr

\* What persist reads under the lock, and then writes, lists what is in the map.
LEMMA SaveStored ==
  ASSUME Persistent, DInv, NEW t \in Thread, Persist(t) \/ Truncate(t) \/ Write(t)
  PROVE  Stored'
<1> DEFINE m == Mgr(t)
<1>0. /\ pc \in [Thread -> Labels] /\ op \in [Thread -> Ops] /\ snap \in [Thread -> SUBSET Records]
      /\ servers \in [Manager -> SUBSET Ids] /\ Persistent = TRUE
  BY DEF DInv, IInv, TypeOK
<1>1. /\ m \in Manager /\ up[m] /\ Course(t)
      /\ \A i \in servers[m] : inst[m][i].pid \in Pid
      /\ \A p \in started : Runs(p) => \E i \in servers[m] : inst[m][i].pid = p
  BY Focus DEF DInv, Stored, InMap, Step, Saving
<1>2. UNCHANGED <<live, nextPid, servers, inst, started, op, cur>>
  BY DEF Persist, Truncate, Write, Advance, osVars, mapVars, callVars, histVars
<1>3. /\ \A i \in servers'[m] : inst'[m][i].pid \in Pid
      /\ \A p \in started' : Runs(p)' => \E i \in servers'[m] : inst'[m][i].pid = p
  BY <1>1, <1>2 DEF Runs
<1>4. OnDisk' /\ Course(t)'
  <2>1. CASE Persist(t)
    <3>1. /\ pc[t] = "persist" /\ pc'[t] = "truncate" /\ snap'[t] = Snapshot(m) /\ file' = file
      BY <1>0, <2>1 DEF Persist, At, Goto
    <3>2. UniqueIds(Snapshot(m))
      BY DEF UniqueIds, Snapshot
    <3>3. ASSUME NEW i \in servers[m] PROVE Lists(Snapshot(m), inst[m][i].pid)
      <4> DEFINE r == [id |-> i, pid |-> inst[m][i].pid, dir |-> inst[m][i].dir]
      <4>1. r \in Snapshot(m) /\ r.pid = inst[m][i].pid
        BY DEF Snapshot
      <4>2. QED BY <4>1 DEF Lists
    <3>4. op[t] = "start" => cur[t] \in servers[m]
      BY <1>1, <3>1 DEF Course, Saved
    <3>5. OnDisk'
      BY <1>2, <3>1 DEF DInv, Stored, OnDisk, Runs, OnFile
    <3>6. \A p \in started' : Runs(p)' => Lists(snap'[t], p)
      BY <1>3, <1>2, <3>1, <3>3
    <3>7. Course(t)'
      BY <1>2, <3>1, <3>2, <3>3, <3>4, <3>6 DEF Course, Stops, Begun, Saved, Cur, Mgr
    <3>8. QED BY <3>5, <3>7
  <2>2. CASE Truncate(t)
    <3>1. /\ pc[t] = "truncate" /\ pc'[t] = "write" /\ snap' = snap
          /\ file' = [state |-> "torn", recs |-> {}]
      BY <1>0, <2>2 DEF Truncate, Advance, At, Goto, callVars
    <3>2. OnDisk'
      BY <1>2, <3>1 DEF DInv, Stored, OnDisk, Runs, OnFile, UniqueIds
    <3>3. Course(t)'
      BY <1>1, <1>2, <3>1 DEF Course, Stops, Begun, Saved, Cur, Mgr, Runs
    <3>4. QED BY <3>2, <3>3
  <2>3. CASE Write(t)
    <3>1. /\ pc[t] = "write" /\ pc'[t] = "done"
          /\ file' = [state |-> "ok", recs |-> snap[t]]
      BY <1>0, <2>3 DEF Write, Advance, At, Goto, callVars
    <3>2. /\ UniqueIds(snap[t])
          /\ \A p \in started : Runs(p) => Lists(snap[t], p)
          /\ op[t] = "start" => Lists(snap[t], Cur(t).pid) /\ cur[t] \in servers[m]
      BY <1>1, <3>1 DEF Course, Saved
    <3>3. OnDisk'
      BY <1>2, <3>1, <3>2 DEF DInv, Stored, OnDisk, Runs, OnFile
    <3>4. Course(t)'
      BY <1>2, <3>1, <3>2 DEF Course, Stops, Begun, Saved, Cur, Mgr, OnFile
    <3>5. QED BY <3>3, <3>4
  <2>4. QED BY <2>1, <2>2, <2>3
<1>5. QED BY <1>3, <1>4, StoredFocus DEF DInv, Stored, Step, Saving

\* A start returns: what it started is in the file, and the invocation ends.
LEMMA DoneStored ==
  ASSUME Persistent, DInv, NEW t \in Thread, Done(t)
  PROVE  Stored'
<1> DEFINE m == Mgr(t)
<1>0. /\ pc \in [Thread -> Labels] /\ op \in [Thread -> Ops] /\ up \in [Manager -> BOOLEAN]
      /\ servers \in [Manager -> SUBSET Ids] /\ Persistent = TRUE
  BY DEF DInv, IInv, TypeOK
<1>1. /\ m \in Manager /\ up[m] /\ Course(t) /\ op[t] \notin {"restart", "stopAll"}
      /\ \A i \in servers[m] : inst[m][i].pid \in Pid
  BY Focus DEF DInv, Stored, InMap, Alone, Step, Saving
<1>2. /\ UNCHANGED <<live, nextPid, servers, inst, file>> /\ pc[t] = "done"
      /\ up'[m] = FALSE /\ pc'[t] = "idle"
      /\ started' = IF op[t] = "start" THEN started \cup {Cur(t).pid} ELSE started
  BY <1>0, <1>1 DEF Done, Finish, At, Goto, osVars, mapVars
<1>3. op[t] = "start" =>
        Cur(t).pid \in Pid /\ Cur(t).pid < nextPid /\ (Runs(Cur(t).pid) => OnFile(Cur(t).pid))
  <2>1. op[t] = "start" => cur[t] \in servers[m] /\ cur[t] \in Ids
    BY <1>0, <1>1, <1>2 DEF Course, Saved
  <2>2. QED BY <1>1, <1>2, <2>1 DEF Course, Cur, DInv, IInv, Safe, Spawned
<1>4. OnDisk'
  <2>1. \A p \in started : p \in Pid /\ p < nextPid /\ (Runs(p) => OnFile(p))
    BY DEF DInv, Stored, OnDisk
  <2>2. \A p \in started' : p \in Pid /\ p < nextPid /\ (Runs(p) => OnFile(p))
    BY <1>2, <1>3, <2>1
  <2>3. QED BY <1>2, <2>2 DEF DInv, Stored, OnDisk, Runs, OnFile
<1>5. Course(t)'
  BY <1>2 DEF Course, Stops, Begun, Saved, Mgr
<1>6. QED BY <1>2, <1>4, <1>5, StoredFocus DEF DInv, Stored, Step, Saving

\* An invocation starts with what the file lists and runs.
LEMMA BootStored ==
  ASSUME Persistent, ~Overlap, DInv, NEW m \in Manager, Boot(m)
  PROVE  Stored'
<1> DEFINE recs == AliveRecords(file.recs)
           used == {r.id : r \in recs}
           pick(i) == CHOOSE r \in recs : r.id = i
<1>0. /\ inst \in [Manager -> [Ids -> Instances]] /\ up \in [Manager -> BOOLEAN]
      /\ servers \in [Manager -> SUBSET Ids] /\ file.recs \in SUBSET Records
      /\ Home \in [Thread -> Manager]
  BY ManagerAssumption DEF ManagerAssumption, DInv, IInv, TypeOK
<1>1. /\ UNCHANGED <<live, nextPid, pc, op, file, started>> /\ file.state # "torn"
      /\ up' = [up EXCEPT ![m] = TRUE] /\ \A n \in Manager : ~up[n]
  BY DEF Boot, osVars, threadVars, callVars, histVars
<1>2. /\ servers' = [servers EXCEPT ![m] = used]
      /\ inst' = [inst EXCEPT ![m] = [i \in Ids |-> IF i \in used
           THEN [pid |-> pick(i).pid, dir |-> pick(i).dir, status |-> "running", cmd |-> FALSE]
           ELSE NoInst]]
  BY DEF Boot
<1>3. \A i \in used : i \in Ids /\ pick(i) \in file.recs /\ pick(i).pid \in Pid
  <2>1. \A i \in used : pick(i) \in recs /\ i \in Ids
    BY <1>0 DEF AliveRecords, Records
  <2>2. QED BY <2>1 DEF AliveRecords
<1>4. \A r \in recs : r.id \in used /\ pick(r.id) = r
  <2>1. \A r \in recs : r \in file.recs
    BY DEF AliveRecords
  <2>2. QED BY <2>1 DEF DInv, Stored, OnDisk, UniqueIds
<1> HIDE DEF pick, used
<1>5. servers'[m] = used /\ \A i \in used : inst'[m][i].pid = pick(i).pid
  BY <1>0, <1>2, <1>3
<1>6. \A n \in Manager : up'[n] <=> n = m
  BY <1>0, <1>1
<1>7. Alone'
  BY <1>1, <1>6 DEF DInv, Stored, Alone
<1>8. OnDisk'
  BY <1>1 DEF DInv, Stored, OnDisk, Runs, OnFile
<1>9. InMap'
  <2>1. \A i \in servers'[m] : inst'[m][i].pid \in Pid
    BY <1>3, <1>5
  <2>2. ASSUME NEW p \in started', Runs(p)'
        PROVE  \E i \in servers'[m] : inst'[m][i].pid = p
    <3>1. p \in Pid /\ Runs(p) /\ Lists(file.recs, p)
      BY <1>1, <2>2 DEF DInv, Stored, OnDisk, Runs, OnFile
    <3>2. PICK r \in file.recs : r.pid = p
      BY <3>1 DEF Lists
    <3>3. r \in recs
      BY <3>1, <3>2 DEF AliveRecords, Runs
    <3>4. QED BY <1>4, <1>5, <3>2, <3>3
  <2>3. QED BY <1>6, <2>1, <2>2 DEF InMap
<1>10. ASSUME NEW t \in Thread PROVE Course(t)'
  <2>1. Mgr(t) \in Manager
    BY <1>0 DEF Mgr
  <2>2. pc'[t] = "idle"
    BY <1>1, <2>1 DEF DInv, IInv, Safe, Awake
  <2>3. \A i \in used : Lists(file.recs, pick(i).pid)
    BY <1>3 DEF Lists
  <2>4. \A i \in servers'[m] : (OnFile(inst[m][i].pid))'
    BY <1>1, <1>5, <2>3 DEF OnFile
  <2>5. QED BY <1>6, <2>1, <2>2, <2>4 DEF Course, Stops, Begun, Saved, Mgr
<1>11. QED BY <1>7, <1>8, <1>9, <1>10 DEF Stored

\* An invocation is killed, in whatever step it is.
LEMMA CrashStored ==
  ASSUME DInv, NEW m \in Manager, Crash(m)
  PROVE  Stored'
<1>0. /\ up \in [Manager -> BOOLEAN] /\ Home \in [Thread -> Manager]
  BY ManagerAssumption DEF ManagerAssumption, DInv, IInv, TypeOK
<1>1. /\ UNCHANGED <<live, nextPid, servers, inst, file, started>> /\ up[m]
      /\ up' = [up EXCEPT ![m] = FALSE]
      /\ \A t \in Thread : Mgr(t) = m => pc'[t] = "idle"
      /\ \A t \in Thread : op'[t] \in {op[t], "none"}
      /\ \A t \in Thread : Mgr(t) # m => pc'[t] = pc[t]
  BY DEF Crash, Leave, osVars, mapVars
<1>2. \A n \in Manager : ~up'[n]
  BY <1>0, <1>1 DEF DInv, Stored, Alone
<1>3. \A t \in Thread : pc'[t] = "idle" /\ ~up'[Mgr(t)]
  BY <1>0, <1>1, <1>2 DEF DInv, IInv, Safe, Awake, Stored, Alone, Mgr
<1>4. Alone'
  BY <1>1, <1>2 DEF DInv, Stored, Alone
<1>5. OnDisk'
  BY <1>1 DEF DInv, Stored, OnDisk, Runs, OnFile
<1>6. InMap'
  BY <1>2 DEF InMap
<1>7. \A t \in Thread : Course(t)'
  BY <1>3 DEF Course, Stops, Begun, Saved, Mgr
<1>8. QED BY <1>4, <1>5, <1>6, <1>7 DEF Stored

\* A process exits on its own.
LEMMA ExitStored ==
  ASSUME DInv, NEW p \in Pid, Exits(p)
  PROVE  Stored'
<1>0. Home \in [Thread -> Manager] /\ servers \in [Manager -> SUBSET Ids]
  BY ManagerAssumption DEF ManagerAssumption, DInv, IInv, TypeOK
<1>1. UNCHANGED <<nextPid, up, servers, inst, pc, op, cur, snap, file, started>>
  BY DEF Exits, mapVars, threadVars, callVars, histVars
<1>2. \A q \in Pid : live'[q] \subseteq live[q]
  BY KillKeeps DEF Exits, DInv
<1>3. \A q \in Pid : Runs(q)' => Runs(q)
  BY <1>2 DEF Runs
<1>4. Alone' /\ OnDisk' /\ InMap'
  BY <1>1, <1>3 DEF DInv, Stored, Alone, OnDisk, OnFile, InMap
<1>5. ASSUME NEW t \in Thread PROVE Course(t)'
  <2>1. Course(t) /\ Mgr(t) \in Manager /\ (pc[t] # "idle" => up[Mgr(t)])
    BY <1>0 DEF DInv, Stored, Mgr, IInv, Safe, Awake
  <2>2. up[Mgr(t)] => \A i \in servers[Mgr(t)] : inst[Mgr(t)][i].pid \in Pid
    BY <2>1 DEF DInv, Stored, InMap
  <2>3. pc[t] \in Begun \/ (pc[t] \in Saved /\ op[t] = "start") => Cur(t).pid \in Pid
    BY <2>1, <2>2 DEF Course, Cur, Begun, Saved
  <2>4. \A q \in started : q \in Pid
    BY DEF DInv, Stored, OnDisk
  <2>5. (pc[t] = "failDelete" => ~Runs(Cur(t).pid))'
    BY <1>1, <1>3, <2>1, <2>3 DEF Course, Begun, Cur, Mgr
  <2>6. (pc[t] = "done" /\ op[t] = "start" /\ Runs(Cur(t).pid) => OnFile(Cur(t).pid))'
    BY <1>1, <1>3, <2>1, <2>3 DEF Course, Saved, Cur, Mgr, OnFile
  <2>7. (up[Mgr(t)] /\ pc[t] \in {"idle", "check"} =>
          \A i \in servers[Mgr(t)] : Runs(inst[Mgr(t)][i].pid) => OnFile(inst[Mgr(t)][i].pid))'
    BY <1>1, <1>3, <2>1, <2>2 DEF Course, OnFile, Mgr
  <2>8. QED BY <1>1, <1>3, <2>1, <2>4, <2>5, <2>6, <2>7 DEF Course, Stops, Cur, Mgr
<1>6. QED BY <1>4, <1>5 DEF Stored

LEMMA StoredStep ==
  ASSUME Persistent, ~Overlap, DInv, [Next]_vars
  PROVE  Stored'
<1>1. CASE UNCHANGED vars
  <2>1. UNCHANGED <<live, nextPid, up, servers, inst, pc, op, cur, snap, file, started>>
    BY <1>1 DEF vars, osVars, mapVars, threadVars, callVars, histVars
  <2>2. Alone' /\ OnDisk' /\ InMap'
    BY <2>1 DEF DInv, Stored, Alone, OnDisk, InMap, Runs, OnFile
  <2>3. \A t \in Thread : Course(t)'
    BY <2>1 DEF DInv, Stored, Course, Runs, OnFile, Stops, Begun, Saved, Cur, Mgr
  <2>4. QED BY <2>2, <2>3 DEF Stored
<1>2. ASSUME NEW t \in Thread, Call(t) \/ Step(t) PROVE Stored'
  <2>1. CASE \/ Call(t) \/ Check(t) \/ SpawnFails(t) \/ Ready(t) \/ NotReady(t)
             \/ StopLookup(t) \/ StopCheck(t)
             \/ FailKill(t) \/ StopKill(t) \/ StopWait(t) \/ FinishStart(t)
    BY <1>2, <2>1, QuietSteps, QuietCourse, QuietStored DEF DInv
  <2>2. QED
    BY <1>2, <2>1, SpawnStored, RegisterStored, DeleteStored, SaveStored, DoneStored
       DEF Step, Starting, Stopping, Saving
<1>3. QED BY <1>1, <1>2, BootStored, CrashStored, ExitStored DEF Next

LEMMA StoredInvariant ==
  ASSUME Persistent, ~Overlap
  PROVE  Spec => []DInv
<1>1. Init => Stored
  <2> SUFFICES ASSUME Init PROVE Stored
    OBVIOUS
  <2>1. \A t \in Thread : Mgr(t) \in Manager
    BY ManagerAssumption DEF ManagerAssumption, Mgr
  <2>2. Alone /\ OnDisk /\ InMap
    BY DEF Init, Alone, OnDisk, InMap, UniqueIds
  <2>3. \A t \in Thread : Course(t)
    BY <2>1 DEF Init, Course, Stops, Begun, Saved
  <2>4. QED BY <2>2, <2>3 DEF Stored
<1>2. DInv /\ [Next]_vars => Stored'
  BY StoredStep
<1>3. IInv /\ Generation => IInv /\ Routed
  BY DEF Generation
<1>4. QED BY <1>1, <1>2, <1>3, GenerationInvariant, PTL DEF Spec, DInv

\* With one invocation of the command line at a time, the registry file lists every
\* server that was started, not stopped and still runs, unless an invocation was
\* killed between the two halves of a write.
THEOREM FileKeepsServers ==
  (Persistent /\ ~Overlap) => (Spec => []StartedOnDisk)
<1> SUFFICES ASSUME Persistent, ~Overlap PROVE Spec => []StartedOnDisk
  OBVIOUS
<1>1. DInv => StartedOnDisk
  BY DEF DInv, Stored, OnDisk, StartedOnDisk, Runs, OnFile, Lists
<1>2. QED BY <1>1, StoredInvariant, PTL

-----------------------------------------------------------------------------
(* One project, one server.                                                *)

UniqueDirs(recs) == \A r, s \in recs : Plain(r.dir) /\ r.dir = s.dir => r = s
Distinct(m) ==
  \A i, j \in servers[m] :
    Plain(inst[m][i].dir) /\ inst[m][i].dir = inst[m][j].dir => i = j

\* What thread t must know not to start a second server of a project: all servers
\* can be reused but the one it is starting, and none is of the project it starts.
Sole(t) ==
  /\ up[Mgr(t)] => \A i \in servers[Mgr(t)] :
       inst[Mgr(t)][i].status = "running" \/ (cur[t] = i /\ pc[t] \in Begun)
  /\ pc[t] = "check" => dir[t] \in Arg
  /\ pc[t] \in {"spawn", "register"} /\ Plain(dir[t]) =>
       \A i \in servers[Mgr(t)] : inst[Mgr(t)][i].dir # dir[t]
  /\ pc[t] \in {"truncate", "write"} => UniqueDirs(snap[t])

Single ==
  /\ UniqueDirs(file.recs)
  /\ \A m \in Manager : Distinct(m)
  /\ \A t \in Thread : Sole(t)

LEMMA SingleFocus ==
  ASSUME Persistent, DInv, Single, NEW t \in Thread, Call(t) \/ Step(t),
         UniqueDirs(file.recs)', Distinct(Mgr(t))', Sole(t)'
  PROVE  Single'
<1>0. /\ servers \in [Manager -> SUBSET Ids] /\ inst \in [Manager -> [Ids -> Instances]]
      /\ Home \in [Thread -> Manager]
  BY ManagerAssumption DEF ManagerAssumption, DInv, IInv, TypeOK
<1>1. \A n \in Manager \ {Mgr(t)} : servers'[n] = servers[n] /\ inst'[n] = inst[n]
  <2>1. servers' = servers \/ \E s : servers' = [servers EXCEPT ![Mgr(t)] = s]
    BY DEF Call, CallStart, CallStop, CallRestart, CallStopAll, CallOn, Step, Starting,
       Stopping, Saving, Check, SpawnFails, GiveUp, Spawn, Register, Ready, NotReady,
       FailKill, FailDelete, FinishStart, StopLookup, StopCheck, StopKill, StopWait,
       StopDelete, Delete, Persist, Truncate, Write, Done, mapVars
  <2>2. inst' = inst \/ \E f : inst' = [inst EXCEPT ![Mgr(t)] = f]
    BY DEF Call, CallStart, CallStop, CallRestart, CallStopAll, CallOn, Step, Starting,
       Stopping, Saving, Check, SpawnFails, GiveUp, Spawn, Register, Ready, NotReady,
       FailKill, FailDelete, FinishStart, StopLookup, StopCheck, StopKill, StopWait,
       StopDelete, SetStatus, Persist, Truncate, Write, Done, mapVars
  <2>3. QED BY <1>0, <2>1, <2>2
<1>2. \A n \in Manager : Distinct(n)'
  <2>1. \A n \in Manager \ {Mgr(t)} : Distinct(n)'
    BY <1>1 DEF Single, Distinct
  <2>2. Mgr(t)' = Mgr(t) /\ Mgr(t) \in Manager
    BY <1>0 DEF Mgr
  <2>3. QED BY <2>1, <2>2 DEF Distinct
<1>3. ASSUME NEW u \in Thread, u # t PROVE Sole(u)'
  <2>1. pc'[u] = "idle" /\ ~up'[Mgr(u)]
    BY <1>3, Focus DEF DInv, Stored
  <2>2. QED BY <2>1 DEF Sole, Mgr
<1>4. QED BY <1>2, <1>3 DEF Single

\* The steps that leave the map alone.
LEMMA StillSole ==
  ASSUME Persistent, DInv, Single, NEW t \in Thread,
         \/ Call(t) \/ Check(t) \/ SpawnFails(t) \/ Spawn(t) \/ Ready(t) \/ NotReady(t)
         \/ StopLookup(t) \/ StopCheck(t)
         \/ FailKill(t) \/ StopKill(t) \/ StopWait(t)
         \/ Persist(t) \/ Truncate(t) \/ Write(t) \/ Done(t)
  PROVE  Single'
<1> DEFINE m == Mgr(t)
<1>0. /\ pc \in [Thread -> Labels] /\ cur \in [Thread -> Ids \cup {0}] /\ dir \in [Thread -> Path]
      /\ op \in [Thread -> Ops] /\ snap \in [Thread -> SUBSET Records]
      /\ up \in [Manager -> BOOLEAN] /\ Persistent = TRUE
  BY DEF DInv, IInv, TypeOK
<1>1. /\ Mgr(t) \in Manager /\ up[Mgr(t)] /\ Sole(t) /\ Distinct(Mgr(t))
      /\ op[t] \notin {"restart", "stopAll"}
  BY Focus DEF DInv, Stored, Single, Alone, Step, Starting, Stopping, Saving, Mgr
<1>2. servers' = servers /\ inst' = inst
  BY DEF Call, CallStart, CallStop, CallRestart, CallStopAll, CallOn, Check, SpawnFails, GiveUp,
     Spawn, Ready, NotReady, StopLookup, StopCheck, FailKill, StopKill, StopWait,
     Persist, Truncate, Write, Done, mapVars
<1>3. UniqueDirs(file.recs)'
  <2>1. file' = file \/ Truncate(t) \/ Write(t)
    BY DEF Call, CallStart, CallStop, CallRestart, CallStopAll, CallOn, Check, SpawnFails,
     GiveUp, Spawn, Ready, NotReady, StopLookup, StopCheck, FailKill, StopKill, StopWait,
     Persist, Done
  <2>2. CASE file' = file
    BY <2>2 DEF Single
  <2>3. CASE Truncate(t)
    BY <2>3 DEF Truncate, UniqueDirs
  <2>4. CASE Write(t)
    BY <1>1, <2>4 DEF Write, Advance, At, Sole
  <2>5. QED BY <2>1, <2>2, <2>3, <2>4
<1>4. Distinct(Mgr(t))'
  BY <1>1, <1>2 DEF Distinct, Mgr
<1>5. Sole(t)'
  <2>1. CASE pc[t] \in Begun
    <3>1. pc'[t] \in Begun /\ cur' = cur /\ up' = up
      BY <1>0, <2>1 DEF Begun, Call, CallStart, CallStop, CallRestart, CallStopAll, CallOn, Free,
         Check, SpawnFails, Spawn, Ready, NotReady, StopLookup, StopCheck, FailKill, StopKill,
         StopWait, Persist, Truncate, Write, Done, Advance, At, Goto, callVars
    <3>2. QED BY <1>1, <1>2, <3>1 DEF Sole, Begun, Mgr
  <2>2. CASE pc[t] \notin Begun
    <3>1. \A i \in servers[m] : inst[m][i].status = "running"
      BY <1>1, <2>2 DEF Sole
    <3>2. pc'[t] = "check" => dir'[t] \in Arg
      <4>1. CASE Call(t)
        BY <1>0, <1>1, <4>1 DEF Call, CallStart, CallStop, CallRestart, CallStopAll, CallOn, Goto
      <4>2. CASE ~Call(t)
        BY <1>0, <1>1, <4>2 DEF Check, SpawnFails, GiveUp, Spawn, Ready, NotReady, StopLookup,
           StopCheck, FailKill, StopKill, StopWait, Persist, Truncate, Write, Done, Finish,
           Advance, At, Goto
      <4>3. QED BY <4>1, <4>2
    <3>3. pc'[t] \in {"spawn", "register"} /\ Plain(dir'[t]) =>
            \A i \in servers[m] : inst[m][i].dir # dir'[t]
      <4>1. CASE Check(t)
        <5> SUFFICES ASSUME pc'[t] \in {"spawn", "register"}, Plain(dir'[t])
                     PROVE  \A i \in servers[m] : inst[m][i].dir # dir'[t]
          OBVIOUS
        <5>1. /\ Reusable(m, dir[t]) = {} /\ dir'[t] = Abs[dir[t]] /\ dir[t] \in Arg
          BY <1>0, <1>1, <4>1 DEF Check, At, Goto, Sole
        <5>2. dir'[t] = dir[t]
          BY <5>1 DEF Plain
        <5>3. QED BY <3>1, <5>1, <5>2 DEF Reusable
      <4>2. CASE Spawn(t)
        BY <1>0, <1>1, <4>2 DEF Spawn, At, Goto, Sole
      <4>3. CASE ~Check(t) /\ ~Spawn(t)
        BY <1>0, <1>1, <4>3 DEF Call, CallStart, CallStop, CallRestart, CallStopAll, CallOn,
           SpawnFails, GiveUp, Ready, NotReady, StopLookup,
           StopCheck, FailKill, StopKill, StopWait, Persist, Truncate, Write, Done, Finish,
           Advance, At, Goto
      <4>4. QED BY <4>1, <4>2, <4>3
    <3>4. pc'[t] \in {"truncate", "write"} => UniqueDirs(snap'[t])
      <4>1. CASE Persist(t)
        <5>1. snap'[t] = Snapshot(m)
          BY <1>0, <4>1 DEF Persist
        <5>2. UniqueDirs(Snapshot(m))
          BY <1>1 DEF UniqueDirs, Snapshot, Distinct
        <5>3. QED BY <5>1, <5>2
      <4>2. CASE Truncate(t)
        BY <1>0, <1>1, <4>2 DEF Truncate, Advance, At, Goto, callVars, Sole
      <4>3. CASE ~Persist(t) /\ ~Truncate(t)
        BY <1>0, <1>1, <4>3 DEF Call, CallStart, CallStop, CallRestart, CallStopAll, CallOn, Check,
           SpawnFails, GiveUp, Spawn, Ready, NotReady, StopLookup,
           StopCheck, FailKill, StopKill, StopWait, Write, Done, Finish, Advance, At, Goto
      <4>4. QED BY <4>1, <4>2, <4>3
    <3>5. QED BY <1>2, <3>1, <3>2, <3>3, <3>4 DEF Sole, Mgr
  <2>3. QED BY <2>1, <2>2
<1>6. QED BY <1>3, <1>4, <1>5, SingleFocus DEF Step, Starting, Stopping, Saving

\* A server is registered for a project that has none.
LEMMA RegisterSole ==
  ASSUME Persistent, DInv, Single, NEW t \in Thread, Register(t)
  PROVE  Single'
<1> DEFINE m == Mgr(t)  n == nextID[m]  x == NewInstance(new[t], dir[t])
<1>0. /\ pc \in [Thread -> Labels] /\ cur \in [Thread -> Ids \cup {0}]
      /\ servers \in [Manager -> SUBSET Ids] /\ inst \in [Manager -> [Ids -> Instances]]
  BY DEF DInv, IInv, TypeOK
<1>1. m \in Manager /\ up[m] /\ Sole(t) /\ Distinct(m)
  BY Focus DEF DInv, Stored, Single, Step, Starting
<1>2. /\ inst' = [inst EXCEPT ![m] = [@ EXCEPT ![n] = x]] /\ n \in Ids
      /\ servers' = [servers EXCEPT ![m] = @ \cup {n}] /\ pc[t] = "register"
      /\ cur'[t] = n /\ pc'[t] = "wait" /\ file' = file
  BY <1>0 DEF Register, At, Goto
<1>3. x.dir = dir[t]
  BY DEF NewInstance
<1> HIDE DEF x
<1>4. /\ servers'[m] = servers[m] \cup {n} /\ servers[m] \subseteq Ids \ {n}
      /\ inst'[m][n].dir = dir[t] /\ \A i \in Ids \ {n} : inst'[m][i] = inst[m][i]
  <2>1. n \notin servers[m]
    BY <1>0, <1>1 DEF DInv, IInv, Safe, Numbered, TypeOK
  <2>2. QED BY <1>0, <1>1, <1>2, <1>3, <2>1
<1>5. /\ Plain(dir[t]) => \A i \in servers[m] : inst[m][i].dir # dir[t]
      /\ \A i \in servers[m] : inst[m][i].status = "running"
  BY <1>1, <1>2 DEF Sole, Begun
<1>6. UniqueDirs(file.recs)'
  BY <1>2 DEF Single
<1>7. Distinct(Mgr(t))'
  BY <1>1, <1>4, <1>5 DEF Distinct, Mgr
<1>8. Sole(t)'
  BY <1>2, <1>4, <1>5 DEF Sole, Begun, Mgr
<1>9. QED BY <1>6, <1>7, <1>8, SingleFocus DEF Step, Starting

\* It becomes reusable, or goes.
LEMMA ChangeSole ==
  ASSUME Persistent, DInv, Single, NEW t \in Thread,
         FinishStart(t) \/ FailDelete(t) \/ StopDelete(t)
  PROVE  Single'
<1> DEFINE m == Mgr(t)
<1>0. /\ pc \in [Thread -> Labels] /\ cur \in [Thread -> Ids \cup {0}]
      /\ servers \in [Manager -> SUBSET Ids] /\ inst \in [Manager -> [Ids -> Instances]]
  BY DEF DInv, IInv, TypeOK
<1>1. m \in Manager /\ up[m] /\ Sole(t) /\ Distinct(m)
  BY Focus DEF DInv, Stored, Single, Step, Starting, Stopping
<1>2. /\ cur' = cur /\ pc'[t] = "persist" /\ file' = file
      /\ servers[m] \subseteq Ids
  BY <1>0, <1>1 DEF FinishStart, FailDelete, StopDelete, Advance, At, Goto, callVars
<1>3. \A i \in servers'[m] : /\ i \in servers[m] /\ inst'[m][i].dir = inst[m][i].dir
                             /\ inst'[m][i].status = "running"
  <2>1. CASE FinishStart(t)
    <3>1. servers' = servers /\ inst' = [inst EXCEPT ![m] = [@ EXCEPT ![cur[t]].status = "running"]]
      BY <2>1 DEF FinishStart, SetStatus
    <3>2. \A i \in Ids : /\ inst'[m][i].dir = inst[m][i].dir
                         /\ inst'[m][i].status = IF i = cur[t] THEN "running" ELSE inst[m][i].status
      BY <1>0, <1>1, <3>1 DEF Instances
    <3>3. QED BY <1>1, <1>2, <3>1, <3>2 DEF Sole
  <2>2. CASE FailDelete(t)
    <3>1. inst' = inst /\ servers'[m] = servers[m] \ {cur[t]}
      BY <1>0, <1>1, <2>2 DEF FailDelete, Delete
    <3>2. QED BY <1>1, <3>1 DEF Sole
  <2>3. CASE StopDelete(t)
    <3>1. /\ servers'[m] = servers[m] \ {cur[t]}
          /\ inst' = [inst EXCEPT ![m] = [@ EXCEPT ![cur[t]].status = "stopped"]]
      BY <1>0, <1>1, <2>3 DEF StopDelete, SetStatus, Delete
    <3>2. \A i \in Ids \ {cur[t]} : inst'[m][i] = inst[m][i]
      BY <1>0, <1>1, <3>1
    <3>3. QED BY <1>1, <1>2, <3>1, <3>2 DEF Sole
  <2>4. QED BY <2>1, <2>2, <2>3
<1>4. UniqueDirs(file.recs)'
  BY <1>2 DEF Single
<1>5. Distinct(Mgr(t))'
  BY <1>1, <1>3 DEF Distinct, Mgr
<1>6. Sole(t)'
  BY <1>2, <1>3 DEF Sole, Mgr
<1>7. QED BY <1>4, <1>5, <1>6, SingleFocus DEF Step, Starting, Stopping

\* An invocation starts with the servers of the file, which are of different projects.
LEMMA BootSole ==
  ASSUME Persistent, ~Overlap, DInv, Single, NEW m \in Manager, Boot(m)
  PROVE  Single'
<1> DEFINE recs == AliveRecords(file.recs)
           used == {r.id : r \in recs}
           pick(i) == CHOOSE r \in recs : r.id = i
<1>0. /\ inst \in [Manager -> [Ids -> Instances]] /\ up \in [Manager -> BOOLEAN]
      /\ servers \in [Manager -> SUBSET Ids] /\ file.recs \in SUBSET Records
      /\ Home \in [Thread -> Manager]
  BY ManagerAssumption DEF ManagerAssumption, DInv, IInv, TypeOK
<1>1. /\ UNCHANGED <<pc, file>>
      /\ up' = [up EXCEPT ![m] = TRUE] /\ \A n \in Manager : ~up[n]
  BY DEF Boot, threadVars, histVars
<1>2. /\ servers' = [servers EXCEPT ![m] = used]
      /\ inst' = [inst EXCEPT ![m] = [i \in Ids |-> IF i \in used
           THEN [pid |-> pick(i).pid, dir |-> pick(i).dir, status |-> "running", cmd |-> FALSE]
           ELSE NoInst]]
  BY DEF Boot
<1>3. \A i \in used : i \in Ids /\ pick(i) \in file.recs /\ pick(i).id = i
  <2>1. \A i \in used : pick(i) \in recs /\ i \in Ids /\ pick(i).id = i
    BY <1>0 DEF AliveRecords, Records
  <2>2. QED BY <2>1 DEF AliveRecords
<1> HIDE DEF pick, used
<1>4. /\ servers'[m] = used
      /\ \A i \in used : inst'[m][i].dir = pick(i).dir /\ inst'[m][i].status = "running"
      /\ \A n \in Manager \ {m} : servers'[n] = servers[n] /\ inst'[n] = inst[n]
  BY <1>0, <1>2, <1>3
<1>5. \A n \in Manager : up'[n] <=> n = m
  BY <1>0, <1>1
<1>6. \A n \in Manager : Distinct(n)'
  <2>1. \A n \in Manager \ {m} : Distinct(n)'
    BY <1>4 DEF Single, Distinct
  <2>2. ASSUME NEW i \in used, NEW j \in used,
               Plain(pick(i).dir), pick(i).dir = pick(j).dir PROVE i = j
    <3>1. pick(i) = pick(j)
      BY <1>3, <2>2 DEF Single, UniqueDirs
    <3>2. QED BY <1>3, <3>1
  <2>3. Distinct(m)'
    BY <1>4, <2>2 DEF Distinct
  <2>4. QED BY <2>1, <2>3
<1>7. ASSUME NEW t \in Thread PROVE Sole(t)'
  <2>1. Mgr(t) \in Manager
    BY <1>0 DEF Mgr
  <2>2. pc'[t] = "idle"
    BY <1>1, <2>1 DEF DInv, IInv, Safe, Awake
  <2>3. QED BY <1>4, <1>5, <2>1, <2>2 DEF Sole, Mgr
<1>8. UniqueDirs(file.recs)'
  BY <1>1 DEF Single
<1>9. QED BY <1>6, <1>7, <1>8 DEF Single

LEMMA SingleStep ==
  ASSUME Persistent, ~Overlap, DInv, Single, [Next]_vars
  PROVE  Single'
<1>1. CASE UNCHANGED vars \/ \E p \in Pid : Exits(p)
  <2>1. UNCHANGED <<up, servers, inst, pc, cur, dir, snap, file>>
    BY <1>1 DEF Exits, vars, osVars, mapVars, threadVars, callVars, histVars
  <2>2. QED BY <2>1 DEF Single, Distinct, Sole, Mgr
<1>2. ASSUME NEW m \in Manager, Crash(m) PROVE Single'
  <2>0. /\ up \in [Manager -> BOOLEAN] /\ Home \in [Thread -> Manager]
    BY ManagerAssumption DEF ManagerAssumption, DInv, IInv, TypeOK
  <2>1. /\ UNCHANGED <<servers, inst, file>> /\ up[m]
        /\ up' = [up EXCEPT ![m] = FALSE]
        /\ \A t \in Thread : Mgr(t) = m => pc'[t] = "idle"
        /\ \A t \in Thread : Mgr(t) # m => pc'[t] = pc[t]
    BY <1>2 DEF Crash, Leave, mapVars
  <2>2. \A t \in Thread : pc'[t] = "idle" /\ ~up'[Mgr(t)]
    BY <2>0, <2>1 DEF DInv, IInv, Safe, Awake, Stored, Alone, Mgr
  <2>3. \A t \in Thread : Sole(t)'
    BY <2>2 DEF Sole, Mgr
  <2>4. QED BY <2>1, <2>3 DEF Single, Distinct
<1>3. ASSUME NEW t \in Thread, Call(t) \/ Step(t) PROVE Single'
  BY <1>3, StillSole, RegisterSole, ChangeSole DEF Step, Starting, Stopping, Saving
<1>4. QED BY <1>1, <1>2, <1>3, BootSole DEF Next

\* With one invocation of the command line at a time, the manager lists at most one
\* running server of a project that is named by its absolute path only.
THEOREM ProjectsApart == (Persistent /\ ~Overlap) => (Spec => []OnePerName)
<1> SUFFICES ASSUME Persistent, ~Overlap PROVE Spec => []OnePerName
  OBVIOUS
<1>1. Init => Single
  <2> SUFFICES ASSUME Init PROVE Single
    OBVIOUS
  <2>1. \A t \in Thread : Mgr(t) \in Manager
    BY ManagerAssumption DEF ManagerAssumption, Mgr
  <2>2. UniqueDirs(file.recs) /\ \A m \in Manager : Distinct(m)
    BY DEF Init, UniqueDirs, Distinct
  <2>3. \A t \in Thread : Sole(t)
    BY <2>1 DEF Init, Sole
  <2>4. QED BY <2>2, <2>3 DEF Single
<1>2. DInv /\ Single /\ [Next]_vars => Single'
  BY SingleStep
<1>3. Single => OnePerName
  BY DEF Single, Distinct, OnePerName
<1>4. Spec => []DInv
  BY StoredInvariant
<1>5. QED BY <1>1, <1>2, <1>3, <1>4, PTL DEF Spec
==============================================================================
