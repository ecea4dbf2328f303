---------------------------- MODULE ServerManager ----------------------------
(***************************************************************************)
(* The dev-server registry of tools/server_manager.go: goroutines that     *)
(* call StartServer, StopServer, RestartServer and StopAll on a            *)
(* ServerManager, the operating-system processes they spawn and kill, and  *)
(* the registry file that the command-line harness (cmd/demios) keeps      *)
(* between its invocations.                                                *)
(*                                                                         *)
(* A manager is one incarnation of a Go process: the desktop application   *)
(* (Persistent = FALSE, many threads) or one command-line invocation       *)
(* (Persistent = TRUE, one thread, one command, then the process exits).   *)
(* Every lock region of the code is one action; what the code does between *)
(* two lock regions happens in steps of its own.                           *)
(*                                                                         *)
(* Ports, URLs and the probing of waitForServer are abstracted: a start    *)
(* becomes ready or does not.  A process tree is its root (the spawned     *)
(* command) and its children (what npm or go run forks).                   *)
(***************************************************************************)
EXTENDS Naturals, FiniteSets

CONSTANTS
  Manager,      \* Go processes that may hold a ServerManager
  Thread,       \* goroutines that call it
  Home,         \* the manager a thread belongs to
  Path,         \* spellings of directories, "" among them
  Arg,          \* the spellings callers pass as workdir
  Abs,          \* filepath.Abs on them, and the current directory for ""
  Tree,         \* members of a process tree: "root" and the children it forks
  MaxPid,       \* bound: processes ever spawned
  Persistent,   \* EnablePersistence was called (command-line harness)
  Overlap,      \* command-line invocations may run at the same time
  MayCrash,     \* a manager may be killed in the middle of an operation
  ForeignPage   \* some page the managers do not own answers the port scan

ASSUME ManagerAssumption ==
  /\ Home \in [Thread -> Manager]
  /\ Abs \in [Path -> Path]
  /\ Arg \subseteq Path /\ "" \in Path
  /\ "root" \in Tree
  /\ MaxPid \in Nat
  /\ {Persistent, Overlap, MayCrash, ForeignPage} \subseteq BOOLEAN
  \* a command-line invocation runs one command
  /\ Persistent => \A s, t \in Thread : Home[s] = Home[t] => s = t

Pid == 1..MaxPid
Ids == 1..MaxPid      \* server-N: at most one new number per spawned process

VARIABLES
  live,       \* live[p]: the members of process tree p that run
  nextPid,    \* the next process id the operating system hands out
  up,         \* up[m]: manager m's Go process runs
  servers,    \* servers[m]: the keys of sm.servers
  inst,       \* inst[m][i]: the ServerInstance that had number i
  nextID,     \* nextID[m]
  pc, op,     \* per thread: where it is, and in which operation
  cur,        \* per thread: the number of the instance in hand
  new,        \* per thread: the process it has just spawned
  dir,        \* per thread: the workdir argument
  todo,       \* per thread: StopAll's remaining ids
  snap,       \* per thread: the records persist has read under the lock
  file,       \* the registry file: [state, recs]
  kids,       \* kids[m]: history, the processes this incarnation of m spawned
  started     \* history, the processes whose StartServer returned success and
              \* that no StopServer has stopped since

osVars     == <<live, nextPid>>
mapVars    == <<servers, inst, nextID>>
callVars   == <<op, cur, new, dir, todo, snap>>
threadVars == <<pc, callVars>>
histVars   == <<kids, started>>
vars == <<osVars, up, mapVars, threadVars, file, histVars>>

Status == {"starting", "running", "stopped"}
NoPath == ""
NoInst == [pid |-> 0, dir |-> NoPath, status |-> "stopped", cmd |-> FALSE]
Instances == [pid : Pid \cup {0}, dir : Path, status : Status, cmd : BOOLEAN]
Records   == [id : Ids, pid : Pid \cup {0}, dir : Path]
Labels == {"idle", "check", "spawn", "register", "wait", "ready", "failKill",
           "failDelete", "stopLookup", "stopCheck", "stopKill", "stopWait",
           "stopDelete", "persist", "truncate", "write", "done"}
Ops == {"none", "start", "failed", "stop", "restart", "stopAll"}

Mgr(t) == Home[t]
Cur(t) == inst[Mgr(t)][cur[t]]
Goto(t, l) == pc' = [pc EXCEPT ![t] = l]
At(t, l)   == pc[t] = l /\ up[Mgr(t)]

SetStatus(t, s) ==
  inst' = [inst EXCEPT ![Mgr(t)][cur[t]].status = s]
Delete(t) ==
  servers' = [servers EXCEPT ![Mgr(t)] = @ \ {cur[t]}]

Init ==
  /\ live = [p \in Pid |-> {}]
  /\ nextPid = 1
  /\ up = [m \in Manager |-> FALSE]
  /\ servers = [m \in Manager |-> {}]
  /\ inst = [m \in Manager |-> [i \in Ids |-> NoInst]]
  /\ nextID = [m \in Manager |-> 1]
  /\ pc = [t \in Thread |-> "idle"]
  /\ op = [t \in Thread |-> "none"]
  /\ cur = [t \in Thread |-> 0]
  /\ new = [t \in Thread |-> 0]
  /\ dir = [t \in Thread |-> NoPath]
  /\ todo = [t \in Thread |-> {}]
  /\ snap = [t \in Thread |-> {}]
  /\ file = [state |-> "absent", recs |-> {}]
  /\ kids = [m \in Manager |-> {}]
  /\ started = {}

-----------------------------------------------------------------------------
(* The operating system: a tree's members exit on their own at any time.   *)

Exits(p) ==
  /\ live[p] # {}
  /\ \E s \in SUBSET live[p] :
       /\ s # live[p]
       /\ live' = [live EXCEPT ![p] = s]
  /\ UNCHANGED <<nextPid, up, mapVars, threadVars, file, histVars>>

-----------------------------------------------------------------------------
(* A manager's life.                                                       *)

\* The nextID a manager has after loading the numbers in used.
NextNumber_NotBumped(n, used) == n = 1     \* nextID is left as it was
NextNumber(n, used) ==
  /\ \A k \in used : k < n
  /\ n = 1 \/ n - 1 \in used

\* A record is loaded iff processAlive(rec.PID), which asks for the root.
AliveRecords(recs) == {r \in recs : r.pid \in Pid /\ "root" \in live[r.pid]}

\* NewServerManager, then EnablePersistence.  A registry file that does not
\* parse makes the command fail before it does anything: Boot is disabled.
Boot(m) ==
  /\ ~up[m]
  /\ Overlap \/ \A n \in Manager : ~up[n]
  /\ file.state # "torn"
  /\ LET recs == IF Persistent THEN AliveRecords(file.recs) ELSE {}
         used == {r.id : r \in recs}
     IN /\ servers' = [servers EXCEPT ![m] = used]
        /\ \E n \in 1..(MaxPid + 1) :
             NextNumber(n, used) /\ nextID' = [nextID EXCEPT ![m] = n]
        /\ inst' = [inst EXCEPT ![m] = [i \in Ids |->
             IF i \in used
             THEN LET r == CHOOSE r \in recs : r.id = i
                  IN [pid |-> r.pid, dir |-> r.dir, status |-> "running", cmd |-> FALSE]
             ELSE NoInst]]
  /\ up' = [up EXCEPT ![m] = TRUE]
  /\ UNCHANGED <<osVars, threadVars, file, histVars>>

\* The Go process of m goes away, its goroutines with it.  Spawned servers
\* have their own process group and stay.
Leave(m) ==
  /\ up' = [up EXCEPT ![m] = FALSE]
  /\ pc' = [t \in Thread |-> IF Mgr(t) = m THEN "idle" ELSE pc[t]]
  /\ op' = [t \in Thread |-> IF Mgr(t) = m THEN "none" ELSE op[t]]
  /\ cur' = [t \in Thread |-> IF Mgr(t) = m THEN 0 ELSE cur[t]]
  /\ new' = [t \in Thread |-> IF Mgr(t) = m THEN 0 ELSE new[t]]
  /\ dir' = [t \in Thread |-> IF Mgr(t) = m THEN NoPath ELSE dir[t]]
  /\ todo' = [t \in Thread |-> IF Mgr(t) = m THEN {} ELSE todo[t]]
  /\ snap' = [t \in Thread |-> IF Mgr(t) = m THEN {} ELSE snap[t]]
  /\ kids' = [kids EXCEPT ![m] = {}]
  /\ UNCHANGED <<file, started, osVars, mapVars>>

\* The application is closed, or the command line is interrupted.
Crash(m) == MayCrash /\ up[m] /\ Leave(m)

-----------------------------------------------------------------------------
(* A call ends.  A command-line invocation exits with it; StopAll goes on  *)
(* with its next id, RestartServer with StartServer.                       *)

Finish(t) ==
  \/ /\ op[t] = "restart"
     /\ Goto(t, "check")
     /\ op' = [op EXCEPT ![t] = "start"]
     /\ dir' = [dir EXCEPT ![t] = Cur(t).dir]
     /\ UNCHANGED <<up, cur, new, todo, snap, kids>>
  \/ /\ op[t] = "stopAll" /\ todo[t] # {}
     /\ \E i \in todo[t] :
          /\ cur' = [cur EXCEPT ![t] = i]
          /\ todo' = [todo EXCEPT ![t] = @ \ {i}]
     /\ Goto(t, "stopLookup")
     /\ UNCHANGED <<up, op, new, dir, snap, kids>>
  \/ /\ op[t] \in {"start", "failed", "stop"} \/ (op[t] = "stopAll" /\ todo[t] = {})
     /\ Goto(t, "idle")
     /\ op' = [op EXCEPT ![t] = "none"]
     /\ snap' = [snap EXCEPT ![t] = {}]
     /\ cur' = [cur EXCEPT ![t] = 0]
     /\ dir' = [dir EXCEPT ![t] = NoPath]
     /\ up' = [up EXCEPT ![Mgr(t)] = ~Persistent]
     /\ kids' = [kids EXCEPT ![Mgr(t)] = IF Persistent THEN {} ELSE @]
     /\ UNCHANGED <<new, todo>>

Done(t) ==
  /\ At(t, "done")
  /\ Finish(t)
  /\ started' = IF op[t] = "start" THEN started \cup {Cur(t).pid} ELSE started
  /\ UNCHANGED <<osVars, mapVars, file>>

\* The call returns an error and has changed nothing: a restart whose stop
\* fails ends here too; StopAll ignores the error.
GiveUp(t) ==
  /\ Goto(t, "done")
  /\ op' = [op EXCEPT ![t] = IF @ = "stopAll" THEN @ ELSE "failed"]
  /\ UNCHANGED <<osVars, up, mapVars, cur, new, dir, todo, snap, file, histVars>>

\* A step inside a call that only moves on and leaves the thread's locals.
Advance(t, from, to) ==
  /\ At(t, from)
  /\ Goto(t, to)
  /\ UNCHANGED <<up, callVars>>

-----------------------------------------------------------------------------
(* StartServer                                                             *)

Free(t) == At(t, "idle")

CallStart(t, d) ==
  /\ Free(t)
  /\ Goto(t, "check")
  /\ op' = [op EXCEPT ![t] = "start"]
  /\ dir' = [dir EXCEPT ![t] = d]
  /\ UNCHANGED <<osVars, up, mapVars, cur, new, todo, snap, file, histVars>>

\* The servers a start of workdir d returns instead of spawning one.
Reusable_None(m, d) == {}                  \* no reuse check
Reusable(m, d) ==
  {i \in servers[m] : inst[m][i].dir = d /\ inst[m][i].status = "running"}

Check(t) ==
  /\ At(t, "check")
  /\ \/ \E i \in Reusable(Mgr(t), dir[t]) :
          /\ cur' = [cur EXCEPT ![t] = i]
          /\ Goto(t, "done")
          /\ UNCHANGED dir
     \/ /\ Reusable(Mgr(t), dir[t]) = {}
        /\ Goto(t, "spawn")
        /\ dir' = [dir EXCEPT ![t] = Abs[@]]
        /\ cur' = [cur EXCEPT ![t] = 0]
  /\ UNCHANGED <<osVars, up, mapVars, op, new, todo, snap, file, histVars>>

\* A missing directory, an empty command or an exec failure.
SpawnFails(t) == At(t, "spawn") /\ GiveUp(t)

Spawn(t) ==
  /\ At(t, "spawn") /\ nextPid \in Pid
  /\ \E s \in SUBSET Tree : "root" \in s /\ live' = [live EXCEPT ![nextPid] = s]
  /\ nextPid' = nextPid + 1
  /\ new' = [new EXCEPT ![t] = nextPid]
  /\ kids' = [kids EXCEPT ![Mgr(t)] = @ \cup {nextPid}]
  /\ Goto(t, "register")
  /\ UNCHANGED <<up, mapVars, op, cur, dir, todo, snap, file, started>>

NewInstance_NoStatus(p, d) == [pid |-> p, dir |-> d, status |-> "", cmd |-> TRUE]
NewInstance(p, d) == [pid |-> p, dir |-> d, status |-> "starting", cmd |-> TRUE]

Register(t) ==
  LET m == Mgr(t) IN
  /\ At(t, "register") /\ nextID[m] \in Ids
  /\ inst' = [inst EXCEPT ![m][nextID[m]] = NewInstance(new[t], dir[t])]
  /\ servers' = [servers EXCEPT ![m] = @ \cup {nextID[m]}]
  /\ nextID' = [nextID EXCEPT ![m] = @ + 1]
  /\ cur' = [cur EXCEPT ![t] = nextID[m]]
  /\ new' = [new EXCEPT ![t] = 0]
  /\ dir' = [dir EXCEPT ![t] = NoPath]
  /\ Goto(t, "wait")
  /\ UNCHANGED <<osVars, up, op, todo, snap, file, histVars>>

\* waitForServer returns a URL: the server's own, or any page its port scan
\* finds, whoever serves it.
Ready(t) ==
  /\ Advance(t, "wait", "ready")
  /\ ForeignPage \/ \E p \in Pid : live[p] # {}
  /\ UNCHANGED <<osVars, mapVars, file, histVars>>

\* It returns "" after its 60 seconds.
NotReady(t) ==
  /\ Advance(t, "wait", "failKill")
  /\ UNCHANGED <<osVars, mapVars, file, histVars>>

\* Process.Kill and Wait reach the root only.
KillRoot_Not(p) == UNCHANGED live          \* the entry goes, the process stays
KillRoot(p) == live' = [live EXCEPT ![p] = @ \ {"root"}]

FailKill(t) ==
  /\ Advance(t, "failKill", "failDelete")
  /\ KillRoot(Cur(t).pid)
  /\ UNCHANGED <<nextPid, mapVars, file, histVars>>

FailDelete(t) ==
  /\ At(t, "failDelete")
  /\ Delete(t)
  /\ Goto(t, "persist")
  /\ op' = [op EXCEPT ![t] = "failed"]
  /\ UNCHANGED <<osVars, up, inst, nextID, cur, new, dir, todo, snap, file, histVars>>

\* The status is set without looking whether the server is still registered.
FinishStart(t) ==
  /\ Advance(t, "ready", "persist")
  /\ SetStatus(t, "running")
  /\ UNCHANGED <<osVars, servers, nextID, file, histVars>>

-----------------------------------------------------------------------------
(* StopServer, RestartServer, StopAll                                      *)

CallOn(t, o, i) ==
  /\ Free(t)
  /\ Goto(t, "stopLookup")
  /\ op' = [op EXCEPT ![t] = o]
  /\ cur' = [cur EXCEPT ![t] = i]
  /\ UNCHANGED <<osVars, up, mapVars, new, dir, snap, file, histVars>>

\* The command line has no command that restarts a server or stops them all.
CallStop(t, i) == CallOn(t, "stop", i) /\ UNCHANGED todo
CallRestart(t, i) ==
  /\ ~Persistent /\ i \in servers[Mgr(t)]
  /\ CallOn(t, "restart", i) /\ UNCHANGED todo
CallStopAll(t) ==
  /\ ~Persistent
  /\ \E i \in servers[Mgr(t)] :
       /\ CallOn(t, "stopAll", i)
       /\ todo' = [todo EXCEPT ![t] = servers[Mgr(t)] \ {i}]

StopLookup(t) ==
  \/ /\ cur[t] \in servers[Mgr(t)]
     /\ Advance(t, "stopLookup", "stopCheck")
     /\ UNCHANGED <<osVars, mapVars, file, histVars>>
  \/ /\ cur[t] \notin servers[Mgr(t)]
     /\ At(t, "stopLookup") /\ GiveUp(t)

StopCheck(t) ==
  /\ At(t, "stopCheck")
  /\ \/ /\ Cur(t).status \in {"running", "starting"}
        /\ Advance(t, "stopCheck", "stopKill")
        /\ UNCHANGED <<osVars, mapVars, file, histVars>>
     \/ Cur(t).status = "stopped" /\ GiveUp(t)

\* killProcessTree sends SIGTERM to the group; a member may ignore it or die
\* later.  Only an instance this process spawned has a cmd to wait for.
StopKill_NoWait(t) ==                      \* deleted without waiting for the exit
  /\ At(t, "stopKill")
  /\ Goto(t, "stopDelete")
  /\ \E s \in SUBSET live[Cur(t).pid] : live' = [live EXCEPT ![Cur(t).pid] = s]
  /\ UNCHANGED <<nextPid, up, mapVars, callVars, file, histVars>>
StopKill(t) ==
  /\ At(t, "stopKill")
  /\ Goto(t, IF Cur(t).cmd THEN "stopWait" ELSE "stopDelete")
  /\ \E s \in SUBSET live[Cur(t).pid] : live' = [live EXCEPT ![Cur(t).pid] = s]
  /\ UNCHANGED <<nextPid, up, mapVars, callVars, file, histVars>>

\* cmd.Wait, and after five seconds Process.Kill.
StopWait_Forever(t) ==                     \* no five-second limit
  /\ At(t, "stopWait") /\ "root" \notin live[Cur(t).pid]
  /\ Advance(t, "stopWait", "stopDelete")
  /\ UNCHANGED <<osVars, mapVars, file, histVars>>
StopWait(t) ==
  /\ Advance(t, "stopWait", "stopDelete")
  /\ KillRoot(Cur(t).pid)
  /\ UNCHANGED <<nextPid, mapVars, file, histVars>>

StopDelete(t) ==
  /\ Advance(t, "stopDelete", "persist")
  /\ SetStatus(t, "stopped")
  /\ Delete(t)
  /\ started' = started \ {Cur(t).pid}
  /\ UNCHANGED <<osVars, nextID, file, kids>>

-----------------------------------------------------------------------------
(* persist: the records are read under the lock, the file is written after *)
(* it is released.  os.WriteFile truncates the file and then writes it.    *)

Snapshot(m) ==
  {[id |-> i, pid |-> inst[m][i].pid, dir |-> inst[m][i].dir] : i \in servers[m]}

Persist(t) ==
  /\ At(t, "persist")
  /\ Goto(t, IF Persistent THEN "truncate" ELSE "done")
  /\ snap' = [snap EXCEPT ![t] = IF Persistent THEN Snapshot(Mgr(t)) ELSE @]
  /\ UNCHANGED <<osVars, up, mapVars, op, cur, new, dir, todo, file, histVars>>

Truncate(t) ==
  /\ Advance(t, "truncate", "write")
  /\ file' = [state |-> "torn", recs |-> {}]
  /\ UNCHANGED <<osVars, mapVars, histVars>>

Write(t) ==
  /\ Advance(t, "write", "done")
  /\ file' = [state |-> "ok", recs |-> snap[t]]
  /\ UNCHANGED <<osVars, mapVars, histVars>>

-----------------------------------------------------------------------------

Starting(t) == Check(t) \/ SpawnFails(t) \/ Spawn(t) \/ Register(t) \/ Ready(t)
               \/ NotReady(t) \/ FailKill(t) \/ FailDelete(t) \/ FinishStart(t)
Stopping(t) == StopLookup(t) \/ StopCheck(t) \/ StopKill(t) \/ StopWait(t)
               \/ StopDelete(t)
Saving(t)   == Persist(t) \/ Truncate(t) \/ Write(t) \/ Done(t)
Step(t)     == Starting(t) \/ Stopping(t) \/ Saving(t)

Call(t) ==
  \/ \E d \in Arg : CallStart(t, d)
  \/ \E i \in Ids : CallStop(t, i) \/ CallRestart(t, i)
  \/ CallStopAll(t)

Next ==
  \/ \E p \in Pid : Exits(p)
  \/ \E m \in Manager : Boot(m) \/ Crash(m)
  \/ \E t \in Thread : Call(t) \/ Step(t)

\* Goroutines are scheduled, and every wait in a call has a timeout.
Fairness == \A t \in Thread : WF_vars(Step(t))

Spec     == Init /\ [][Next]_vars
FairSpec == Spec /\ Fairness

-----------------------------------------------------------------------------
TypeOK ==
  /\ live \in [Pid -> SUBSET Tree]
  /\ nextPid \in 1..(MaxPid + 1)
  /\ up \in [Manager -> BOOLEAN]
  /\ servers \in [Manager -> SUBSET Ids]
  /\ inst \in [Manager -> [Ids -> Instances]]
  /\ nextID \in [Manager -> Nat \ {0}]
  /\ pc \in [Thread -> Labels]
  /\ op \in [Thread -> Ops]
  /\ cur \in [Thread -> Ids \cup {0}]
  /\ new \in [Thread -> Pid \cup {0}]
  /\ dir \in [Thread -> Path]
  /\ todo \in [Thread -> SUBSET Ids]
  /\ snap \in [Thread -> SUBSET Records]
  /\ file \in [state : {"absent", "ok", "torn"}, recs : SUBSET Records]
  /\ kids \in [Manager -> SUBSET Pid]
  /\ started \in SUBSET (Pid \cup {0})

\* No server process runs that its manager has lost sight of: the root of
\* every tree a live manager spawned is registered, or in the hands of the
\* thread that has just spawned it.  Stop, failed start and restart all
\* delete entries; each must have killed the process first.
Tracked ==
  \A m \in Manager : \A p \in kids[m] :
    "root" \in live[p] =>
      \/ \E i \in servers[m] : inst[m][i].pid = p
      \/ \E t \in Thread : Mgr(t) = m /\ pc[t] = "register" /\ new[t] = p

\* A restart never has two generations of the server running: when the second
\* half of RestartServer spawns, the root of the stopped one is gone.
RestartReplaces ==
  [][\A t \in Thread :
       (At(t, "done") /\ op[t] = "restart" /\ Cur(t).cmd /\ pc'[t] = "check")
         => "root" \notin live[Cur(t).pid]]_vars

\* Every call returns, even when the server ignores SIGTERM or never answers.
CallsReturn ==
  \A t \in Thread : (pc[t] # "idle") ~> (pc[t] = "idle")

\* Servers persist across command-line invocations: as long as the registry
\* file can be read, it lists every server that was started, not stopped and
\* still runs.
StartedOnDisk ==
  file.state # "torn" =>
    \A p \in started : "root" \in live[p] => \E r \in file.recs : r.pid = p

\* One project has at most one server: StartServer returns the running one, "so
\* subsequent runs reuse them" (cmd/demios/main.go:11).  Relative names break it.
OnePerProject ==
  \A m \in Manager : \A i, j \in servers[m] :
    ( /\ inst[m][i].dir = inst[m][j].dir
      /\ inst[m][i].status = "running" /\ inst[m][j].status = "running") => i = j

\* A project that callers name by its absolute path only.
Plain(d) == \A a \in Arg : Abs[a] = d => a = d

\* The reuse check of StartServer (server_manager.go:404) as far as it reaches: of a
\* project that is named by its absolute path only, a manager lists at most one running
\* server, also one that other invocations started and stored.
OnePerName ==
  \A m \in Manager : \A i, j \in servers[m] :
    ( /\ inst[m][i].dir = inst[m][j].dir /\ Plain(inst[m][i].dir)
      /\ inst[m][i].status = "running" /\ inst[m][j].status = "running") => i = j

\* StopServer's description: the process and all its children are killed.
TreeKilled ==
  [][\A t \in Thread :
       (At(t, "stopDelete") /\ pc'[t] = "persist") => live[Cur(t).pid] = {}]_vars
=============================================================================
