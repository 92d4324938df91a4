----------------------------- MODULE MemfracArm -----------------------------
(***************************************************************************)
(* Experiment E6 (scripts/run-e6-memfrac-ab.sh): two arms of the server,   *)
(* MEMFRAC=0.85 and then 0.68, each started on two nodes, measured, and    *)
(* torn down by one bash process, while a memory guard on either node      *)
(* (scripts/host-memory-guard.sh) may remove the container under it.  The  *)
(* arms end in status files from which benchmarks/evaluate_memfrac.py      *)
(* decides.                                                                *)
(*                                                                         *)
(* The runner, the guards and the launchers run concurrently.  A command   *)
(* the script lets fail (|| true) may be lost; one it does not aborts it,  *)
(* through the EXIT trap.  Docker, ssh, the kernel and the server are      *)
(* modelled from how the scripts use them; every external command returns. *)
(***************************************************************************)
EXTENDS Integers, FiniteSets

CONSTANTS
  MaxTrouble \* bound on the commands that fail to reach docker or a node and
             \* on OOM kills, crashes, failed launches and interrupts, together

ASSUME ArmAssumption == MaxTrouble \in Nat

Arms  == 1..2
Nodes == {"head", "worker"}
None  == 0

VARIABLES
  pc,          \* where the runner is
  arm,         \* the arm it runs
  cont,        \* per node, the arm whose launcher started inkling-sglang
  launcher,    \* per node, what the launcher of this arm does next
  healthy,     \* /health answers on the head
  guard,       \* per arm and node, the guard process
  known,       \* per node, the arm of the guard whose PID the runner holds
  evidence,    \* of memory pressure, per arm and node: a trip file, or a
               \* line of the kernel or earlyoom journal
  result,      \* the locals of run_arm: the benchmark and post gate passed,
               \* and both containers were seen running
  status,      \* the status files
  verdict,     \* what evaluate_memfrac.py prints
  lost,        \* history: the number of commands lost
  faults,      \* history: the number of faults
  interrupted, \* history: the runner got a signal
  killed       \* history: the nodes where this arm lost its container to its
               \* guard or an OOM kill before the evidence was read

runnerVars == <<pc, arm, known, result, status, verdict, interrupted>>
serverVars == <<cont, launcher, healthy>>
memoryVars == <<evidence, killed>>
vars == <<runnerVars, serverVars, guard, memoryVars, lost, faults>>

Alive == {"waiting", "watching", "low"}
NoResult == [bench |-> FALSE, post |-> FALSE, running |-> FALSE]
NoStatus == [stable |-> FALSE, memory |-> FALSE]

Goto(from, to) == pc = from /\ pc' = to

Lose(n)  == lost + n + faults <= MaxTrouble /\ lost' = lost + n
Fault    == lost + faults < MaxTrouble /\ faults' = faults + 1

(* Completions need both ranks of one server. *)
Serving == healthy /\ cont["head"] = cont["worker"] /\ cont["head"] # None

(* What /health may answer when the containers of the nodes gone end: with *)
(* its worker gone the head may answer or not.                             *)
HealthAfter(gone) ==
  IF "head" \in gone \/ ~healthy THEN {FALSE}
  ELSE IF gone = {} THEN {TRUE} ELSE BOOLEAN

Remove(gone) ==
  /\ cont' = [n \in Nodes |-> IF n \in gone THEN None ELSE cont[n]]
  /\ healthy' \in HealthAfter(gone)

(* The arm whose evidence is still to be read, and has begun. *)
BeforeStart == {"stop_guards", "stop_arm", "wait_stopped"}
AfterCollect == {"teardown", "next", "evaluate", "cleanup_guards",
                 "cleanup_arm", "exited"}
Open == pc \notin BeforeStart \cup AfterCollect

LostToMemory(n, by) ==
  killed' = IF Open /\ cont[n] = arm /\ by \in {None, arm}
            THEN killed \cup {n} ELSE killed
-----------------------------------------------------------------------------
Init ==
  /\ pc = "stop_guards" /\ arm = 1
  /\ cont = [n \in Nodes |-> None]
  /\ launcher = [n \in Nodes |-> "off"]
  /\ healthy = FALSE
  /\ guard = [g \in Arms \X Nodes |-> "off"]
  /\ known = [n \in Nodes |-> None]
  /\ evidence = {} /\ killed = {}
  /\ result = NoResult
  /\ status = [a \in Arms |-> NoStatus]
  /\ verdict = "none"
  /\ lost = 0 /\ faults = 0 /\ interrupted = FALSE
-----------------------------------------------------------------------------
(***************************************************************************)
(* The runner.                                                             *)
(***************************************************************************)
(* stop_guards: kill the guards whose PIDs are held.  The ssh to the       *)
(* worker may be lost.  A guard killed while its docker rm runs leaves     *)
(* that child behind: it stays "tripped".                                  *)
StopGuards(from, to) ==
  /\ Goto(from, to)
  /\ known' = [n \in Nodes |-> None]
  /\ \E missed \in SUBSET ({"worker"} \cap {n \in Nodes : known[n] # None}),
        rm \in SUBSET {g \in Arms \X Nodes : guard[g] = "tripped"} :
       /\ Lose(Cardinality(missed))
       /\ guard' = [g \in Arms \X Nodes |->
            IF known[g[2]] = g[1] /\ g[2] \notin missed
               /\ guard[g] \in Alive \cup {"tripped"} /\ g \notin rm
            THEN "off" ELSE guard[g]]
  /\ UNCHANGED <<arm, result, status, verdict, interrupted,
                 serverVars, memoryVars, faults>>

(* stop_arm: docker rm -f on both nodes, either of which may be lost. *)
StopArm(from, to) ==
  /\ Goto(from, to)
  /\ \E missed \in SUBSET {n \in Nodes : cont[n] # None} :
       /\ Lose(Cardinality(missed))
       /\ Remove({n \in Nodes : cont[n] # None} \ missed)
  /\ UNCHANGED <<arm, known, result, status, verdict, interrupted,
                 launcher, guard, memoryVars, faults>>

(* wait_stopped: a server that still answers aborts the arm. *)
WaitStopped ==
  /\ pc = "wait_stopped"
  /\ pc' = IF healthy THEN "cleanup_guards" ELSE "guard_head"
  /\ UNCHANGED <<arm, known, result, status, verdict, interrupted,
                 serverVars, guard, memoryVars, lost, faults>>

StartHeadGuard ==
  /\ Goto("guard_head", "guard_worker")
  /\ guard' = [guard EXCEPT ![<<arm, "head">>] = "waiting"]
  /\ known' = [known EXCEPT !["head"] = arm]
  /\ UNCHANGED <<arm, result, status, verdict, interrupted,
                 serverVars, memoryVars, lost, faults>>

(* The worker's guard is started and reported over ssh; when that fails    *)
(* the runner aborts, and the guard may run without anyone knowing its PID.*)
StartWorkerGuard ==
  /\ pc = "guard_worker"
  /\ \/ /\ pc' = "launch_worker"
        /\ guard' = [guard EXCEPT ![<<arm, "worker">>] = "waiting"]
        /\ known' = [known EXCEPT !["worker"] = arm]
        /\ UNCHANGED lost
     \/ /\ pc' = "cleanup_guards"
        /\ \E g \in {"off", "waiting"} :
             guard' = [guard EXCEPT ![<<arm, "worker">>] = g]
        /\ Lose(1)
        /\ UNCHANGED known
  /\ UNCHANGED <<arm, result, status, verdict, interrupted,
                 serverVars, memoryVars, faults>>

(* The launchers are started and left to themselves. *)
Launch(n, from, to) ==
  /\ \/ /\ Goto(from, to)
        /\ launcher' = [launcher EXCEPT ![n] = "clearing"]
        /\ UNCHANGED lost
     \/ /\ n = "worker" /\ Goto(from, "cleanup_guards")
        /\ Lose(1)
        /\ UNCHANGED launcher
  /\ UNCHANGED <<arm, known, result, status, verdict, interrupted,
                 cont, healthy, guard, memoryVars, faults>>

(* wait_ready and the gate before the benchmark.  READY_TIMEOUT is long    *)
(* against the time a launcher takes to reach docker run.                  *)
BootBound == \A n \in Nodes : launcher[n] = "off"

NeverGiveUp == FALSE     \* a wait without a deadline

GiveUp == BootBound

WaitReady ==
  /\ pc = "wait_ready"
  /\ \/ /\ healthy
        /\ \E pass \in {ok \in BOOLEAN : ok => Serving} :
             pc' = IF pass THEN "benchmark" ELSE "running"
     \/ ~healthy /\ GiveUp /\ pc' = "running"
  /\ UNCHANGED <<arm, known, result, status, verdict, interrupted,
                 serverVars, guard, memoryVars, lost, faults>>

(* concurrency_bench.py succeeds only while the server serves. *)
Benchmark ==
  /\ pc = "benchmark"
  /\ \E ok \in {b \in BOOLEAN : b => Serving} :
       /\ result' = [result EXCEPT !.bench = ok]
       /\ pc' = IF ok THEN "post_gate" ELSE "running"
  /\ UNCHANGED <<arm, known, status, verdict, interrupted,
                 serverVars, guard, memoryVars, lost, faults>>

PostGate ==
  /\ Goto("post_gate", "running")
  /\ \E ok \in {b \in BOOLEAN : b => Serving} :
       result' = [result EXCEPT !.post = ok]
  /\ UNCHANGED <<arm, known, status, verdict, interrupted,
                 serverVars, guard, memoryVars, lost, faults>>

(* containers_running: by name, whichever arm started them. *)
CheckRunning ==
  /\ pc = "running"
  /\ LET up == \A n \in Nodes : cont[n] # None
     IN  /\ result' = [result EXCEPT !.running = up]
         /\ pc' = IF up THEN "docker_stats" ELSE "unguard"
  /\ UNCHANGED <<arm, known, status, verdict, interrupted,
                 serverVars, guard, memoryVars, lost, faults>>

(* docker stats is not allowed to fail: a container that has gone since,   *)
(* or a lost ssh, aborts the runner.                                       *)
DockerStats ==
  /\ pc = "docker_stats"
  /\ \/ /\ pc' = IF \A n \in Nodes : cont[n] # None THEN "unguard"
                                                    ELSE "cleanup_guards"
        /\ UNCHANGED lost
     \/ pc' = "cleanup_guards" /\ Lose(1)
  /\ UNCHANGED <<arm, known, result, status, verdict, interrupted,
                 serverVars, guard, memoryVars, faults>>

(* has_memory_event: a trip file with content, or a journal line. *)
EventOrGone(a) ==        \* a container that has gone was lost to memory
  \E n \in Nodes : <<a, n>> \in evidence \/ cont[n] = None

MemoryEvent(a) == \E n \in Nodes : <<a, n>> \in evidence

StableIfRunning(memory) == result.bench /\ result.post /\ result.running

Stable(memory) == result.bench /\ result.post /\ result.running /\ ~memory

(* collect_host_evidence and the status file, or a failed ssh. *)
Collect ==
  /\ pc = "collect"
  /\ \/ /\ pc' = "teardown"
        /\ status' = [status EXCEPT ![arm] =
             [stable |-> Stable(MemoryEvent(arm)), memory |-> MemoryEvent(arm)]]
        /\ UNCHANGED lost
     \/ pc' = "cleanup_guards" /\ Lose(1) /\ UNCHANGED status
  /\ result' = NoResult
  /\ UNCHANGED <<arm, known, verdict, interrupted,
                 serverVars, guard, memoryVars, faults>>

(* Between the arms: exit 3 unless the first was stable or met memory      *)
(* pressure.                                                               *)
NextArm ==
  /\ pc = "next"
  /\ \/ /\ arm = 2
        /\ pc' = "evaluate"
        /\ UNCHANGED <<arm, killed>>
     \/ /\ arm = 1 /\ (status[1].stable \/ status[1].memory)
        /\ pc' = "stop_guards"
        /\ arm' = 2 /\ killed' = {}
     \/ /\ arm = 1 /\ ~status[1].stable /\ ~status[1].memory
        /\ pc' = "cleanup_guards"
        /\ UNCHANGED <<arm, killed>>
  /\ UNCHANGED <<known, result, status, verdict, interrupted,
                 serverVars, guard, evidence, lost, faults>>

(* decide, the throughput comparison of two stable arms left out: neither  *)
(* of its outcomes accepts.                                                *)
Decide(baseline, candidate) ==
  IF ~candidate.stable THEN "REJECT_0.68"
  ELSE IF baseline.stable THEN "RETAIN_0.85"
  ELSE IF baseline.memory THEN "ACCEPT_0.68" ELSE "INVALID"

Evaluate ==
  /\ Goto("evaluate", "cleanup_guards")
  /\ verdict' = Decide(status[1], status[2])
  /\ UNCHANGED <<arm, known, result, status, interrupted,
                 serverVars, guard, memoryVars, lost, faults>>

(* The EXIT trap. *)
CleanupGuardsOnly == StopGuards("cleanup_guards", "exited")

Cleanup ==
  \/ StopGuards("cleanup_guards", "cleanup_arm")
  \/ StopArm("cleanup_arm", "exited")

Interrupt ==
  /\ pc \notin {"cleanup_guards", "cleanup_arm", "exited"}
  /\ Fault
  /\ pc' = "cleanup_guards" /\ interrupted' = TRUE
  /\ UNCHANGED <<arm, known, result, status, verdict,
                 serverVars, guard, memoryVars, lost>>

Runner ==
  \/ StopGuards("stop_guards", "stop_arm")
  \/ StopArm("stop_arm", "wait_stopped")
  \/ WaitStopped \/ StartHeadGuard \/ StartWorkerGuard
  \/ Launch("worker", "launch_worker", "launch_head")
  \/ Launch("head", "launch_head", "wait_ready")
  \/ WaitReady \/ Benchmark \/ PostGate \/ CheckRunning \/ DockerStats
  \/ StopGuards("unguard", "collect")
  \/ Collect
  \/ StopArm("teardown", "next")
  \/ NextArm \/ Evaluate \/ Cleanup
-----------------------------------------------------------------------------
(***************************************************************************)
(* A launcher: it removes a container of that name, then starts its own;   *)
(* docker run refuses a name in use.                                       *)
(***************************************************************************)
LauncherClears(n) ==
  /\ launcher[n] = "clearing"
  /\ launcher' = [launcher EXCEPT ![n] = "starting"]
  /\ \/ Remove({n} \cap {m \in Nodes : cont[m] # None}) /\ UNCHANGED lost
     \/ cont[n] # None /\ Lose(1) /\ UNCHANGED <<cont, healthy>>
  /\ UNCHANGED <<runnerVars, guard, memoryVars, faults>>

LauncherStarts(n) ==
  /\ launcher[n] = "starting"
  /\ launcher' = [launcher EXCEPT ![n] = "off"]
  /\ cont' = [cont EXCEPT ![n] = IF @ = None THEN arm ELSE @]
  /\ UNCHANGED <<runnerVars, healthy, guard, memoryVars, lost, faults>>

(* docker run fails, or a check of the launcher in front of it. *)
LauncherFails(n) ==
  /\ launcher[n] # "off" /\ Fault
  /\ launcher' = [launcher EXCEPT ![n] = "off"]
  /\ UNCHANGED <<runnerVars, cont, healthy, guard, memoryVars, lost>>

(* The server: up once both ranks have met; a rank may die, and takes its  *)
(* --rm container with it.                                                 *)
ServerReady ==
  /\ ~healthy /\ cont["head"] = cont["worker"] /\ cont["head"] # None
  /\ healthy' = TRUE
  /\ UNCHANGED <<runnerVars, cont, launcher, guard, memoryVars, lost, faults>>

ServerCrash(n) ==
  /\ cont[n] # None /\ Fault
  /\ Remove({n})
  /\ UNCHANGED <<runnerVars, launcher, guard, memoryVars, lost>>

(* The kernel or earlyoom kills the container, or another process. *)
OomKill(n) ==
  /\ Fault
  /\ evidence' = IF Open THEN evidence \cup {<<arm, n>>} ELSE evidence
  /\ \/ cont[n] # None /\ Remove({n}) /\ LostToMemory(n, None)
     \/ Open /\ UNCHANGED <<cont, healthy, killed>>
  /\ UNCHANGED <<runnerVars, launcher, guard, lost>>
-----------------------------------------------------------------------------
(***************************************************************************)
(* A guard: it waits for the container, samples memory while it runs, and  *)
(* below the threshold writes the trip file and removes it.                *)
(***************************************************************************)
GuardStep(g, from, to) ==
  guard[g] = from /\ guard' = [guard EXCEPT ![g] = to]

GuardSees(g) ==
  /\ cont[g[2]] # None /\ GuardStep(g, "waiting", "watching")
  /\ UNCHANGED <<runnerVars, serverVars, memoryVars, lost, faults>>

(* WAIT_FOR_CONTAINER_SECONDS is as long as READY_TIMEOUT. *)
NeverTimesOut(g) == GuardStep(g, "off", "off") /\ UNCHANGED vars

GuardTimesOut(g) ==
  /\ cont[g[2]] = None /\ BootBound
  /\ pc \notin {"guard_worker", "launch_worker", "launch_head"}
  /\ GuardStep(g, "waiting", "off")
  /\ UNCHANGED <<runnerVars, serverVars, memoryVars, lost, faults>>

(* The container has ended, or docker inspect fails and it seems so. *)
GuardLeaves(g) ==
  /\ GuardStep(g, "watching", "off")
  /\ IF cont[g[2]] = None THEN UNCHANGED lost ELSE Lose(1)
  /\ UNCHANGED <<runnerVars, serverVars, memoryVars, faults>>

GuardReadsLow(g) ==
  /\ cont[g[2]] # None /\ GuardStep(g, "watching", "low")
  /\ UNCHANGED <<runnerVars, serverVars, memoryVars, lost, faults>>

TripInOneFile(g) ==      \* a trip file that is not the node's own
  /\ GuardStep(g, "low", "tripped")
  /\ evidence' = evidence \cup {<<g[1], "any">>}
  /\ UNCHANGED <<runnerVars, serverVars, killed, lost, faults>>

GuardTrips(g) ==
  /\ GuardStep(g, "low", "tripped")
  /\ evidence' = evidence \cup {g}
  /\ UNCHANGED <<runnerVars, serverVars, killed, lost, faults>>

GuardRemoves(g) ==
  /\ GuardStep(g, "tripped", "off")
  /\ \/ Remove({g[2]}) /\ LostToMemory(g[2], g[1]) /\ UNCHANGED lost
     \/ cont[g[2]] # None /\ Lose(1) /\ UNCHANGED <<cont, healthy, killed>>
  /\ UNCHANGED <<runnerVars, launcher, evidence, faults>>

Guard(g) ==
  \/ GuardSees(g) \/ GuardTimesOut(g) \/ GuardLeaves(g)
  \/ GuardReadsLow(g) \/ GuardTrips(g) \/ GuardRemoves(g)
-----------------------------------------------------------------------------
Next ==
  \/ Runner \/ Interrupt
  \/ \E n \in Nodes : \/ LauncherClears(n) \/ LauncherStarts(n)
                      \/ LauncherFails(n) \/ ServerCrash(n)
                      \/ OomKill(n)
  \/ ServerReady
  \/ \E g \in Arms \X Nodes : Guard(g)

(* bash, docker and the guards are processes of live hosts. *)
Fairness ==
  /\ WF_vars(Runner)
  /\ \A n \in Nodes : WF_vars(LauncherClears(n) \/ LauncherStarts(n))
  /\ \A g \in Arms \X Nodes : WF_vars(Guard(g))

Spec == Init /\ [][Next]_vars /\ Fairness
-----------------------------------------------------------------------------
(***************************************************************************)
(* The types of the variables.                                             *)
(***************************************************************************)
TypeOK ==
  /\ arm \in Arms
  /\ cont \in [Nodes -> Arms \cup {None}]
  /\ launcher \in [Nodes -> {"off", "clearing", "starting"}]
  /\ guard \in [Arms \X Nodes -> Alive \cup {"off", "tripped"}]
  /\ known \in [Nodes -> Arms \cup {None}]
  /\ evidence \subseteq Arms \X Nodes
  /\ status \in [Arms -> [stable : BOOLEAN, memory : BOOLEAN]]
  /\ {lost, faults, lost + faults} \subseteq 0..MaxTrouble

(***************************************************************************)
(* "Stable" means that no container of the arm was lost to its own guard   *)
(* or to an OOM kill before its evidence was read, whatever that raced     *)
(* with: the benchmark, the check that both containers run, stop_guards.   *)
(***************************************************************************)
StableClean == status[arm].stable => killed = {}

(***************************************************************************)
(* 0.68 is accepted only on concrete evidence: in the first arm a guard    *)
(* tripped or something was killed for memory, and the second is stable.   *)
(***************************************************************************)
AcceptJustified ==
  verdict = "ACCEPT_0.68" =>
    /\ \E n \in Nodes : <<1, n>> \in evidence
    /\ status[2].stable

(***************************************************************************)
(* A runner that nobody interrupted, and none of whose commands got lost,  *)
(* leaves nothing behind when it exits, from wherever it aborted.          *)
(***************************************************************************)
CleanExit ==
  pc = "exited" /\ lost = 0 /\ ~interrupted =>
    /\ \A n \in Nodes : cont[n] = None /\ launcher[n] = "off"
    /\ \A g \in Arms \X Nodes : guard[g] \notin Alive

(***************************************************************************)
(* What docs/MIAAI-PLUS-GOAL.md says of every experiment: "automatic       *)
(* cleanup leaves both ranks stopped after experiments".  Commands that    *)
(* get lost are not held against it.                                       *)
(***************************************************************************)
StoppedAfterExit ==
  pc = "exited" /\ lost = 0 => \A n \in Nodes : cont[n] = None

(***************************************************************************)
(* Whatever happens to the server, the runner ends.                        *)
(***************************************************************************)
Terminates == <>(pc = "exited")

(***************************************************************************)
(* A guard whose PID nobody holds does not outlive the container for good. *)
(***************************************************************************)
GuardsEnd ==
  <>[](\A n \in Nodes : cont[n] = None) =>
    <>[](\A g \in Arms \X Nodes : guard[g] \notin Alive \cup {"tripped"})
=============================================================================
