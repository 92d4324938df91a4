-------------------------- MODULE MemfracArmProofs --------------------------
(***************************************************************************)
(* The safety properties of MemfracArm, for any number of faults and lost  *)
(* commands, as theorems checked by TLAPS.                                 *)
(***************************************************************************)
EXTENDS MemfracArm, FiniteSetTheorems, TLAPS

USE ArmAssumption
-----------------------------------------------------------------------------
(***************************************************************************)
(* The inductive invariant.                                                *)
(***************************************************************************)
Cleaning == {"cleanup_guards", "cleanup_arm", "exited"}
Launching == {"launch_head", "wait_ready"}
Working == {"guard_head", "guard_worker", "launch_worker", "launch_head",
            "wait_ready", "benchmark", "post_gate", "running",
            "docker_stats", "unguard", "collect"}

Types ==
  /\ TypeOK
  /\ pc \in BeforeStart \cup Working \cup AfterCollect
  /\ healthy \in BOOLEAN /\ interrupted \in BOOLEAN
  /\ killed \subseteq Nodes
  /\ result \in [bench : BOOLEAN, post : BOOLEAN, running : BOOLEAN]
  /\ verdict \in {"none", "REJECT_0.68", "RETAIN_0.85", "ACCEPT_0.68", "INVALID"}

(* Whoever removes a container for memory has left evidence before.        *)
EvidenceFirst ==
  /\ \A g \in Arms \X Nodes : guard[g] = "tripped" => g \in evidence
  /\ \A n \in killed : <<arm, n>> \in evidence

(* A status file is written once, after the arm, from evidence that stays. *)
Reported ==
  /\ pc \notin AfterCollect => ~status[arm].stable /\ ~status[arm].memory
  /\ arm = 1 => ~status[2].stable /\ ~status[2].memory
  /\ \A a \in Arms : status[a].memory => \E n \in Nodes : <<a, n>> \in evidence
  /\ StableClean
  /\ verdict # "none" => pc \in Cleaning
  /\ verdict = "ACCEPT_0.68" => status[1].memory /\ status[2].stable

(* The runner holds the PID of every guard that is alive, and holds none   *)
(* where it starts a new one.                                              *)
GuardsKnown ==
  /\ lost = 0 =>
       \A g \in Arms \X Nodes : guard[g] \in Alive => known[g[2]] = g[1]
  /\ pc \in {"stop_arm", "wait_stopped", "guard_head", "cleanup_arm", "exited"} =>
       \A n \in Nodes : known[n] = None
  /\ pc = "guard_worker" => known["worker"] = None

(* No launcher outlives the wait for its server, and none is started next  *)
(* to a container.                                                         *)
LaunchedInTime ==
  /\ healthy => cont["head"] # None
  /\ lost = 0 /\ ~interrupted =>
       /\ \A n \in Nodes : launcher[n] # "off" =>
            cont[n] = None /\ ~healthy /\ pc \in Launching
       /\ pc \in {"wait_stopped", "guard_head", "guard_worker",
                  "launch_worker", "exited"} => \A n \in Nodes : cont[n] = None
       /\ pc = "launch_head" => launcher["head"] = "off" /\ cont["head"] = None

IInv == Types /\ EvidenceFirst /\ Reported /\ GuardsKnown /\ LaunchedInTime
-----------------------------------------------------------------------------
USE DEF vars, runnerVars, serverVars, memoryVars, Goto, None, Arms, Nodes,
        Alive, NoResult, NoStatus, BeforeStart, AfterCollect, Open,
        Cleaning, Launching, Working

(***************************************************************************)
(* What a removed container, a lost command and a fault leave.             *)
(***************************************************************************)
LEMMA NodeCount ==
  ASSUME NEW S \in SUBSET Nodes
  PROVE  Cardinality(S) \in Nat /\ (Cardinality(S) = 0 => S = {})
<1>1. IsFiniteSet({"head"}) /\ IsFiniteSet({"worker"})
  BY FS_Singleton
<1>2. IsFiniteSet({"head"} \cup {"worker"})
  BY <1>1, FS_Union
<1>3. S \subseteq {"head"} \cup {"worker"}
  OBVIOUS
<1>4. IsFiniteSet(S)
  BY <1>2, <1>3, FS_Subset
<1> QED  BY <1>4, FS_CardinalityType, FS_EmptySet

LEMMA RemoveFacts ==
  ASSUME Types, NEW gone \in SUBSET Nodes, Remove(gone)
  PROVE  /\ cont' \in [Nodes -> Arms \cup {None}] /\ healthy' \in BOOLEAN
         /\ \A n \in Nodes : cont'[n] = IF n \in gone THEN None ELSE cont[n]
         /\ healthy' => healthy /\ "head" \notin gone
<1>1. cont \in [Nodes -> Arms \cup {None}] /\ healthy \in BOOLEAN
  BY DEF Types, TypeOK
<1>2. cont' \in [Nodes -> Arms \cup {None}]
      /\ \A n \in Nodes : cont'[n] = IF n \in gone THEN None ELSE cont[n]
  BY <1>1 DEF Remove
<1>3. healthy' \in BOOLEAN /\ (healthy' => healthy /\ "head" \notin gone)
  BY <1>1 DEF Remove, HealthAfter
<1> QED  BY <1>2, <1>3

LEMMA LoseFacts ==
  ASSUME Types, NEW n \in Nat, Lose(n), UNCHANGED faults
  PROVE  /\ {lost, faults, lost + faults}' \subseteq 0..MaxTrouble
         /\ lost' = 0 => lost = 0 /\ n = 0
<1>1. lost \in 0..MaxTrouble /\ faults \in 0..MaxTrouble
  BY DEF Types, TypeOK
<1> QED  BY <1>1 DEF Lose

LEMMA FaultFacts ==
  ASSUME Types, Fault, UNCHANGED lost
  PROVE  {lost, faults, lost + faults}' \subseteq 0..MaxTrouble
<1>1. lost \in 0..MaxTrouble /\ faults \in 0..MaxTrouble
  BY DEF Types, TypeOK
<1> QED  BY <1>1 DEF Fault

LEMMA InitInv == Init => IInv
<1> SUFFICES ASSUME Init PROVE IInv
    OBVIOUS
<1>1. /\ cont \in [Nodes -> Arms \cup {None}]
      /\ launcher \in [Nodes -> {"off", "clearing", "starting"}]
      /\ known \in [Nodes -> Arms \cup {None}]
  BY DEF Init
<1>2. guard \in [Arms \X Nodes -> Alive \cup {"off", "tripped"}]
  BY DEF Init
<1>3. status \in [Arms -> [stable : BOOLEAN, memory : BOOLEAN]]
  BY DEF Init
<1>4. {lost, faults, lost + faults} \subseteq 0..MaxTrouble
  BY DEF Init
<1>5. TypeOK
  BY <1>1, <1>2, <1>3, <1>4 DEF Init, TypeOK
<1>6. Types
  BY <1>5 DEF Init, Types
<1>7. EvidenceFirst /\ Reported
  BY DEF Init, EvidenceFirst, Reported, StableClean
<1>8. GuardsKnown /\ LaunchedInTime
  BY DEF Init, GuardsKnown, LaunchedInTime
<1> QED  BY <1>6, <1>7, <1>8 DEF IInv

(***************************************************************************)
(* stop_guards and stop_arm, wherever they are called.                     *)
(***************************************************************************)
LEMMA StopGuardsInv ==
  ASSUME IInv, NEW from, NEW to,
         \/ from = "stop_guards" /\ to = "stop_arm"
         \/ from = "unguard" /\ to = "collect"
         \/ from = "cleanup_guards" /\ to = "cleanup_arm",
         StopGuards(from, to)
  PROVE  IInv'
<1> USE DEF IInv
<1>1. PICK missed \in SUBSET ({"worker"} \cap {n \in Nodes : known[n] # None}),
           rm \in SUBSET {g \in Arms \X Nodes : guard[g] = "tripped"} :
       /\ Lose(Cardinality(missed))
       /\ guard' = [g \in Arms \X Nodes |->
            IF known[g[2]] = g[1] /\ g[2] \notin missed
               /\ guard[g] \in Alive \cup {"tripped"} /\ g \notin rm
            THEN "off" ELSE guard[g]]
  BY DEF StopGuards
<1>2. /\ {lost, faults, lost + faults}' \subseteq 0..MaxTrouble
      /\ lost' = 0 => lost = 0 /\ missed = {}
  <2>1. missed \in SUBSET Nodes
    OBVIOUS
  <2>2. Cardinality(missed) \in Nat /\ (Cardinality(missed) = 0 => missed = {})
    BY <2>1, NodeCount
  <2> QED  BY <1>1, <2>2, LoseFacts DEF StopGuards
<1>3. /\ guard' \in [Arms \X Nodes -> Alive \cup {"off", "tripped"}]
      /\ \A g \in Arms \X Nodes : guard'[g] # "off" => guard'[g] = guard[g]
  BY <1>1 DEF Types, TypeOK
<1>4. known' \in [Nodes -> Arms \cup {None}]
      /\ \A n \in Nodes : known'[n] = None
  BY DEF StopGuards
<1>5. Types'
  BY <1>2, <1>3, <1>4 DEF StopGuards, Types, TypeOK
<1>6. EvidenceFirst' /\ Reported'
  BY <1>3 DEF StopGuards, EvidenceFirst, Reported, StableClean
<1>7. ASSUME lost' = 0, NEW g \in Arms \X Nodes
      PROVE  guard'[g] \notin Alive
  <2>1. guard[g] \in Alive => known[g[2]] = g[1] /\ missed = {} /\ g \notin rm
    BY <1>2, <1>7 DEF GuardsKnown
  <2> QED  BY <1>1, <1>3, <2>1
<1>8. GuardsKnown'
  BY <1>4, <1>7 DEF StopGuards, GuardsKnown
<1>9. LaunchedInTime'
  BY <1>2 DEF StopGuards, LaunchedInTime
<1> QED  BY <1>5, <1>6, <1>8, <1>9

LEMMA StopArmInv ==
  ASSUME IInv, NEW from, NEW to,
         \/ from = "stop_arm" /\ to = "wait_stopped"
         \/ from = "teardown" /\ to = "next"
         \/ from = "cleanup_arm" /\ to = "exited",
         StopArm(from, to)
  PROVE  IInv'
<1> USE DEF IInv
<1>1. PICK missed \in SUBSET {n \in Nodes : cont[n] # None} :
        /\ Lose(Cardinality(missed))
        /\ Remove({n \in Nodes : cont[n] # None} \ missed)
  BY DEF StopArm
<1>2. /\ {lost, faults, lost + faults}' \subseteq 0..MaxTrouble
      /\ lost' = 0 => lost = 0 /\ missed = {}
  <2>1. missed \in SUBSET Nodes
    OBVIOUS
  <2>2. Cardinality(missed) \in Nat /\ (Cardinality(missed) = 0 => missed = {})
    BY <2>1, NodeCount
  <2> QED  BY <1>1, <2>2, LoseFacts DEF StopArm
<1> DEFINE gone == {n \in Nodes : cont[n] # None} \ missed
<1>3. /\ cont' \in [Nodes -> Arms \cup {None}] /\ healthy' \in BOOLEAN
      /\ \A n \in Nodes : cont'[n] = IF n \in gone THEN None ELSE cont[n]
      /\ healthy' => healthy /\ "head" \notin gone
  <2>1. gone \in SUBSET Nodes /\ Remove(gone)
    BY <1>1
  <2> HIDE DEF gone
  <2> QED  BY <2>1, RemoveFacts
<1>4. Types'
  BY <1>2, <1>3 DEF StopArm, Types, TypeOK
<1>5. EvidenceFirst' /\ Reported'
  BY DEF StopArm, EvidenceFirst, Reported, StableClean
<1>6. GuardsKnown'
  BY <1>2 DEF StopArm, GuardsKnown
<1>7. LaunchedInTime'
  <2>1. healthy' => cont'["head"] # None
    BY <1>3 DEF LaunchedInTime
  <2>2. lost' = 0 => \A n \in Nodes : cont'[n] = None
    BY <1>2, <1>3
  <2> QED  BY <1>2, <2>1, <2>2 DEF StopArm, LaunchedInTime
<1> QED  BY <1>4, <1>5, <1>6, <1>7

(***************************************************************************)
(* The start of an arm.                                                    *)
(***************************************************************************)
LEMMA WaitStoppedInv == ASSUME IInv, WaitStopped PROVE IInv'
<1> USE DEF IInv, WaitStopped
<1>1. Types'
  BY DEF Types, TypeOK
<1>2. EvidenceFirst' /\ Reported'
  BY DEF EvidenceFirst, Reported, StableClean
<1>3. GuardsKnown'
  BY DEF GuardsKnown
<1>4. LaunchedInTime'
  BY DEF LaunchedInTime
<1> QED  BY <1>1, <1>2, <1>3, <1>4

LEMMA StartHeadGuardInv == ASSUME IInv, StartHeadGuard PROVE IInv'
<1> USE DEF IInv, StartHeadGuard
<1>1. arm \in Arms /\ <<arm, "head">> \in Arms \X Nodes
  BY DEF Types, TypeOK
<1>2. /\ guard' \in [Arms \X Nodes -> Alive \cup {"off", "tripped"}]
      /\ known' \in [Nodes -> Arms \cup {None}]
  BY <1>1 DEF Types, TypeOK
<1>3. \A g \in Arms \X Nodes :
        guard'[g] = IF g = <<arm, "head">> THEN "waiting" ELSE guard[g]
  BY <1>1 DEF Types, TypeOK
<1>4. \A n \in Nodes : known[n] = None
                       /\ known'[n] = IF n = "head" THEN arm ELSE known[n]
  BY DEF GuardsKnown, Types, TypeOK
<1>5. Types'
  BY <1>2 DEF Types, TypeOK
<1>6. EvidenceFirst' /\ Reported'
  BY <1>3 DEF EvidenceFirst, Reported, StableClean
<1>7. ASSUME lost' = 0, NEW g \in Arms \X Nodes, guard'[g] \in Alive
      PROVE  known'[g[2]] = g[1]
  <2>1. CASE g = <<arm, "head">>
    BY <1>4, <2>1
  <2>2. CASE g # <<arm, "head">>
    <3>1. known[g[2]] = g[1]
      BY <1>3, <1>7, <2>2 DEF GuardsKnown
    <3> QED  BY <1>4, <3>1
  <2> QED  BY <2>1, <2>2
<1>8. GuardsKnown'
  BY <1>4, <1>7 DEF GuardsKnown
<1>9. LaunchedInTime'
  BY DEF LaunchedInTime
<1> QED  BY <1>5, <1>6, <1>8, <1>9

LEMMA StartWorkerGuardInv == ASSUME IInv, StartWorkerGuard PROVE IInv'
<1> USE DEF IInv
<1>1. arm \in Arms /\ <<arm, "worker">> \in Arms \X Nodes
      /\ pc = "guard_worker" /\ known["worker"] = None
  BY DEF StartWorkerGuard, Types, TypeOK, GuardsKnown
<1>2. PICK w \in {"off", "waiting"} :
        guard' = [guard EXCEPT ![<<arm, "worker">>] = w]
  BY DEF StartWorkerGuard
<1>3. /\ guard' \in [Arms \X Nodes -> Alive \cup {"off", "tripped"}]
      /\ \A g \in Arms \X Nodes :
           guard'[g] = IF g = <<arm, "worker">> THEN w ELSE guard[g]
  BY <1>1, <1>2 DEF Types, TypeOK
<1>4. known' \in [Nodes -> Arms \cup {None}]
  BY <1>1 DEF StartWorkerGuard, Types, TypeOK
<1>5. /\ {lost, faults, lost + faults}' \subseteq 0..MaxTrouble
      /\ lost' = 0 => /\ lost = 0 /\ pc' = "launch_worker"
                      /\ known' = [known EXCEPT !["worker"] = arm]
  <2>1. CASE UNCHANGED lost /\ pc' = "launch_worker"
             /\ known' = [known EXCEPT !["worker"] = arm]
    BY <2>1 DEF StartWorkerGuard, Types, TypeOK
  <2>2. CASE Lose(1)
    BY <2>2, LoseFacts DEF StartWorkerGuard
  <2> QED  BY <2>1, <2>2 DEF StartWorkerGuard
<1>6. Types'
  BY <1>3, <1>4, <1>5 DEF StartWorkerGuard, Types, TypeOK
<1>7. EvidenceFirst'
  BY <1>3 DEF StartWorkerGuard, EvidenceFirst
<1>8. Reported'
  BY DEF StartWorkerGuard, Reported, StableClean
<1>9. ASSUME lost' = 0, NEW g \in Arms \X Nodes, guard'[g] \in Alive
      PROVE  known'[g[2]] = g[1]
  <2>1. \A n \in Nodes : known'[n] = IF n = "worker" THEN arm ELSE known[n]
    BY <1>5, <1>9 DEF Types, TypeOK
  <2>2. CASE g = <<arm, "worker">>
    BY <2>1, <2>2
  <2>3. CASE g # <<arm, "worker">>
    <3>1. known[g[2]] = g[1]
      BY <1>3, <1>5, <1>9, <2>3 DEF GuardsKnown
    <3>2. g[2] # "worker"
      BY <1>1, <3>1
    <3> QED  BY <2>1, <3>1, <3>2
  <2> QED  BY <2>2, <2>3
<1>10. GuardsKnown'
  BY <1>9 DEF StartWorkerGuard, GuardsKnown
<1>11. LaunchedInTime'
  BY <1>1, <1>5 DEF StartWorkerGuard, LaunchedInTime
<1> QED  BY <1>6, <1>7, <1>8, <1>10, <1>11

LEMMA LaunchInv ==
  ASSUME IInv, NEW n \in Nodes, NEW from, NEW to,
         \/ n = "worker" /\ from = "launch_worker" /\ to = "launch_head"
         \/ n = "head" /\ from = "launch_head" /\ to = "wait_ready",
         Launch(n, from, to)
  PROVE  IInv'
<1> USE DEF IInv
<1>1. launcher' \in [Nodes -> {"off", "clearing", "starting"}]
      /\ \A m \in Nodes : m # n => launcher'[m] = launcher[m]
  BY DEF Launch, Types, TypeOK
<1>2. /\ {lost, faults, lost + faults}' \subseteq 0..MaxTrouble
      /\ lost' = 0 => lost = 0 /\ pc' = to
  <2>1. CASE Goto(from, to) /\ UNCHANGED lost
    BY <2>1 DEF Launch, Types, TypeOK
  <2>2. CASE Lose(1)
    BY <2>2, LoseFacts DEF Launch
  <2> QED  BY <2>1, <2>2 DEF Launch
<1>3. Types'
  BY <1>1, <1>2 DEF Launch, Types, TypeOK
<1>4. EvidenceFirst' /\ Reported'
  BY DEF Launch, EvidenceFirst, Reported, StableClean
<1>5. GuardsKnown'
  BY <1>2 DEF Launch, GuardsKnown
<1>6. LaunchedInTime'
  <2>1. healthy' => cont'["head"] # None
    BY DEF Launch, LaunchedInTime
  <2> SUFFICES ASSUME lost' = 0, ~interrupted' PROVE LaunchedInTime'
      BY <2>1 DEF LaunchedInTime
  <2>2. lost = 0 /\ ~interrupted /\ pc = from /\ pc' = to
    BY <1>2 DEF Launch
  <2>3. cont[n] = None /\ ~healthy
    BY <2>2 DEF LaunchedInTime
  <2> QED  BY <1>1, <2>1, <2>2, <2>3 DEF Launch, LaunchedInTime
<1> QED  BY <1>3, <1>4, <1>5, <1>6

(***************************************************************************)
(* The measurement.                                                        *)
(***************************************************************************)
LEMMA WaitReadyInv == ASSUME IInv, WaitReady PROVE IInv'
<1> USE DEF IInv, WaitReady
<1>1. Types'
  BY DEF Types, TypeOK
<1>2. EvidenceFirst' /\ Reported'
  BY DEF EvidenceFirst, Reported, StableClean
<1>3. GuardsKnown'
  BY DEF GuardsKnown
<1>4. LaunchedInTime'
  BY DEF LaunchedInTime, GiveUp, BootBound
<1> QED  BY <1>1, <1>2, <1>3, <1>4

LEMMA MeasureInv ==
  ASSUME IInv, Benchmark \/ PostGate \/ CheckRunning
  PROVE  IInv'
<1> USE DEF IInv, Benchmark, PostGate, CheckRunning
<1>1. result' \in [bench : BOOLEAN, post : BOOLEAN, running : BOOLEAN]
  BY DEF Types
<1>2. Types'
  BY <1>1 DEF Types, TypeOK
<1>3. EvidenceFirst' /\ Reported'
  BY DEF EvidenceFirst, Reported, StableClean
<1>4. GuardsKnown'
  BY DEF GuardsKnown
<1>5. LaunchedInTime'
  BY DEF LaunchedInTime
<1> QED  BY <1>2, <1>3, <1>4, <1>5

LEMMA DockerStatsInv == ASSUME IInv, DockerStats PROVE IInv'
<1> USE DEF IInv
<1>1. /\ {lost, faults, lost + faults}' \subseteq 0..MaxTrouble
      /\ lost' = 0 => lost = 0
  <2>1. CASE UNCHANGED lost
    BY <2>1 DEF DockerStats, Types, TypeOK
  <2>2. CASE Lose(1)
    BY <2>2, LoseFacts DEF DockerStats
  <2> QED  BY <2>1, <2>2 DEF DockerStats
<1>2. Types'
  BY <1>1 DEF DockerStats, Types, TypeOK
<1>3. EvidenceFirst' /\ Reported'
  BY DEF DockerStats, EvidenceFirst, Reported, StableClean
<1>4. GuardsKnown'
  BY <1>1 DEF DockerStats, GuardsKnown
<1>5. LaunchedInTime'
  BY <1>1 DEF DockerStats, LaunchedInTime
<1> QED  BY <1>2, <1>3, <1>4, <1>5

(***************************************************************************)
(* The status file: a stable arm has no evidence against it, so nothing    *)
(* was killed for memory.                                                  *)
(***************************************************************************)
LEMMA CollectInv == ASSUME IInv, Collect PROVE IInv'
<1> USE DEF IInv
<1>1. /\ {lost, faults, lost + faults}' \subseteq 0..MaxTrouble
      /\ lost' = 0 => lost = 0
  <2>1. CASE UNCHANGED lost
    BY <2>1 DEF Collect, Types, TypeOK
  <2>2. CASE Lose(1)
    BY <2>2, LoseFacts DEF Collect
  <2> QED  BY <2>1, <2>2 DEF Collect
<1>2. arm \in Arms /\ pc = "collect" /\ verdict = "none"
      /\ arm' = arm /\ evidence' = evidence /\ killed' = killed
      /\ verdict' = verdict /\ pc' \in {"teardown", "cleanup_guards"}
  BY DEF Collect, Types, TypeOK, Reported
<1> DEFINE event == MemoryEvent(arm)
           stable == result.bench /\ result.post /\ result.running /\ ~event
<1>3. event \in BOOLEAN /\ stable \in BOOLEAN
  BY DEF MemoryEvent, Types
<1>4. event <=> \E n \in Nodes : <<arm, n>> \in evidence
  BY DEF MemoryEvent
<1>5. CASE UNCHANGED status
  <2>1. Types'
    BY <1>1, <1>2, <1>5 DEF Collect, Types, TypeOK
  <2>2. Reported'
    BY <1>2, <1>5 DEF Reported, StableClean
  <2> QED  BY <1>1, <1>2, <2>1, <2>2
           DEF Collect, EvidenceFirst, GuardsKnown, LaunchedInTime
<1>6. CASE status' = [status EXCEPT ![arm] = [stable |-> stable, memory |-> event]]
  <2> HIDE DEF event, stable
  <2>1. /\ status' \in [Arms -> [stable : BOOLEAN, memory : BOOLEAN]]
        /\ status'[arm].stable = stable /\ status'[arm].memory = event
        /\ \A a \in Arms : a # arm => status'[a] = status[a]
    BY <1>2, <1>3, <1>6 DEF Types, TypeOK
  <2>2. Types'
    BY <1>1, <1>2, <2>1 DEF Collect, Types, TypeOK
  <2>3. stable => killed = {}
    BY <1>4 DEF EvidenceFirst, Types, stable
  <2>4. Reported'
    BY <1>2, <1>4, <2>1, <2>3 DEF Reported, StableClean
  <2>5. EvidenceFirst' /\ GuardsKnown' /\ LaunchedInTime'
    BY <1>1, <1>2 DEF Collect, EvidenceFirst, GuardsKnown, LaunchedInTime
  <2> QED  BY <2>2, <2>4, <2>5
<1> QED  BY <1>5, <1>6 DEF Collect, Stable

(***************************************************************************)
(* Between the arms, the decision, and a signal.                           *)
(***************************************************************************)
LEMMA NextArmInv == ASSUME IInv, NextArm PROVE IInv'
<1> USE DEF IInv
<1>1. pc = "next" /\ verdict = "none"
  BY DEF NextArm, Reported
<1>2. /\ arm' \in Arms /\ killed' \subseteq Nodes
      /\ pc' \in {"evaluate", "stop_guards", "cleanup_guards"}
      /\ \/ arm' = arm /\ killed' = killed /\ pc' # "stop_guards"
         \/ arm' = 2 /\ arm = 1 /\ killed' = {}
  <2>1. arm \in Arms /\ killed \subseteq Nodes
    BY DEF Types, TypeOK
  <2>2. CASE arm' = 2 /\ arm = 1 /\ killed' = {} /\ pc' = "stop_guards"
    BY <2>2
  <2>3. CASE UNCHANGED <<arm, killed>> /\ pc' \in {"evaluate", "cleanup_guards"}
    BY <2>1, <2>3
  <2> QED  BY <2>2, <2>3 DEF NextArm
<1>3. Types'
  BY <1>1, <1>2 DEF NextArm, Types, TypeOK
<1>4. EvidenceFirst'
  BY <1>1, <1>2 DEF NextArm, EvidenceFirst
<1>5. Reported'
  BY <1>1, <1>2 DEF NextArm, Reported, StableClean
<1>6. GuardsKnown'
  BY <1>1, <1>2 DEF NextArm, GuardsKnown
<1>7. LaunchedInTime'
  BY <1>1, <1>2 DEF NextArm, LaunchedInTime
<1> QED  BY <1>3, <1>4, <1>5, <1>6, <1>7

LEMMA EvaluateInv == ASSUME IInv, Evaluate PROVE IInv'
<1> USE DEF IInv, Evaluate
<1>1. Types'
  BY DEF Types, TypeOK, Decide
<1>2. EvidenceFirst' /\ Reported'
  BY DEF EvidenceFirst, Reported, StableClean, Decide
<1>3. GuardsKnown'
  BY DEF GuardsKnown
<1>4. LaunchedInTime'
  BY DEF LaunchedInTime
<1> QED  BY <1>1, <1>2, <1>3, <1>4

LEMMA InterruptInv == ASSUME IInv, Interrupt PROVE IInv'
<1> USE DEF IInv, Interrupt
<1>1. {lost, faults, lost + faults}' \subseteq 0..MaxTrouble
  BY FaultFacts
<1>2. Types'
  BY <1>1 DEF Types, TypeOK
<1>3. EvidenceFirst' /\ Reported'
  BY DEF EvidenceFirst, Reported, StableClean
<1>4. GuardsKnown'
  BY DEF GuardsKnown
<1>5. LaunchedInTime'
  BY DEF LaunchedInTime
<1> QED  BY <1>2, <1>3, <1>4, <1>5

(***************************************************************************)
(* The launchers.                                                          *)
(***************************************************************************)
LEMMA LauncherClearsInv ==
  ASSUME IInv, NEW n \in Nodes, LauncherClears(n)
  PROVE  IInv'
<1> USE DEF IInv
<1> DEFINE gone == {n} \cap {m \in Nodes : cont[m] # None}
<1>1. /\ {lost, faults, lost + faults}' \subseteq 0..MaxTrouble
      /\ lost' = 0 => lost = 0 /\ Remove(gone)
  <2>1. CASE UNCHANGED lost /\ Remove(gone)
    BY <2>1 DEF LauncherClears, Types, TypeOK
  <2>2. CASE Lose(1)
    BY <2>2, LoseFacts DEF LauncherClears
  <2> QED  BY <2>1, <2>2 DEF LauncherClears
<1>2. /\ cont' \in [Nodes -> Arms \cup {None}] /\ healthy' \in BOOLEAN
      /\ \A m \in Nodes : cont'[m] \in {None, cont[m]}
      /\ healthy' => healthy /\ cont'["head"] = cont["head"]
  <2>1. CASE Remove(gone)
    <3>1. gone \in SUBSET Nodes
      OBVIOUS
    <3> HIDE DEF gone
    <3> QED  BY <2>1, <3>1, RemoveFacts
  <2>2. CASE UNCHANGED <<cont, healthy>>
    BY <2>2 DEF Types, TypeOK
  <2> QED  BY <2>1, <2>2 DEF LauncherClears
<1>3. /\ launcher' \in [Nodes -> {"off", "clearing", "starting"}]
      /\ \A m \in Nodes : launcher'[m] # "off" => launcher[m] # "off"
  BY DEF LauncherClears, Types, TypeOK
<1>4. Types'
  BY <1>1, <1>2, <1>3 DEF LauncherClears, Types, TypeOK
<1>5. EvidenceFirst' /\ Reported'
  BY DEF LauncherClears, EvidenceFirst, Reported, StableClean
<1>6. GuardsKnown'
  BY <1>1 DEF LauncherClears, GuardsKnown
<1>7. LaunchedInTime'
  BY <1>1, <1>2, <1>3 DEF LauncherClears, LaunchedInTime
<1> QED  BY <1>4, <1>5, <1>6, <1>7

LEMMA LauncherStartsInv ==
  ASSUME IInv, NEW n \in Nodes, LauncherStarts(n)
  PROVE  IInv'
<1> USE DEF IInv, LauncherStarts
<1>1. /\ cont' \in [Nodes -> Arms \cup {None}]
      /\ \A m \in Nodes : m # n => cont'[m] = cont[m]
      /\ cont["head"] # None => cont'["head"] # None
  BY DEF Types, TypeOK
<1>2. /\ launcher' \in [Nodes -> {"off", "clearing", "starting"}]
      /\ \A m \in Nodes : launcher'[m] # "off" => m # n /\ launcher[m] # "off"
  BY DEF Types, TypeOK
<1>3. Types'
  BY <1>1, <1>2 DEF Types, TypeOK
<1>4. EvidenceFirst' /\ Reported'
  BY DEF EvidenceFirst, Reported, StableClean
<1>5. GuardsKnown'
  BY DEF GuardsKnown
<1>6. LaunchedInTime'
  BY <1>1, <1>2 DEF LaunchedInTime
<1> QED  BY <1>3, <1>4, <1>5, <1>6

LEMMA LauncherFailsInv ==
  ASSUME IInv, NEW n \in Nodes, LauncherFails(n)
  PROVE  IInv'
<1> USE DEF IInv, LauncherFails
<1>1. {lost, faults, lost + faults}' \subseteq 0..MaxTrouble
  BY FaultFacts
<1>2. /\ launcher' \in [Nodes -> {"off", "clearing", "starting"}]
      /\ \A m \in Nodes : launcher'[m] # "off" => launcher[m] # "off"
      /\ \A m \in Nodes : launcher[m] = "off" => launcher'[m] = "off"
  BY DEF Types, TypeOK
<1>3. Types'
  BY <1>1, <1>2 DEF Types, TypeOK
<1>4. EvidenceFirst' /\ Reported'
  BY DEF EvidenceFirst, Reported, StableClean
<1>5. GuardsKnown'
  BY DEF GuardsKnown
<1>6. LaunchedInTime'
  BY <1>2 DEF LaunchedInTime
<1> QED  BY <1>3, <1>4, <1>5, <1>6

(***************************************************************************)
(* The server, and who kills it.                                           *)
(***************************************************************************)
LEMMA ServerReadyInv == ASSUME IInv, ServerReady PROVE IInv'
<1> USE DEF IInv, ServerReady
<1>1. Types'
  BY DEF Types, TypeOK
<1>2. EvidenceFirst' /\ Reported'
  BY DEF EvidenceFirst, Reported, StableClean
<1>3. GuardsKnown'
  BY DEF GuardsKnown
<1>4. LaunchedInTime'
  BY DEF LaunchedInTime
<1> QED  BY <1>1, <1>2, <1>3, <1>4

(* A container that goes disturbs nothing the runner relies on. *)
LEMMA GoneFacts ==
  ASSUME IInv, NEW n \in Nodes,
         Remove({n}) \/ UNCHANGED <<cont, healthy>>,
         UNCHANGED <<runnerVars, launcher>>,
         lost' = 0 => lost = 0
  PROVE  /\ cont' \in [Nodes -> Arms \cup {None}] /\ healthy' \in BOOLEAN
         /\ LaunchedInTime'
<1> USE DEF IInv
<1>1. /\ cont' \in [Nodes -> Arms \cup {None}] /\ healthy' \in BOOLEAN
      /\ \A m \in Nodes : cont'[m] \in {None, cont[m]}
      /\ healthy' => healthy /\ cont'["head"] = cont["head"]
  <2>1. CASE Remove({n})
    BY <2>1, RemoveFacts
  <2>2. CASE UNCHANGED <<cont, healthy>>
    BY <2>2 DEF Types, TypeOK
  <2> QED  BY <2>1, <2>2
<1> QED  BY <1>1 DEF LaunchedInTime

LEMMA ServerCrashInv ==
  ASSUME IInv, NEW n \in Nodes, ServerCrash(n)
  PROVE  IInv'
<1> USE DEF IInv, ServerCrash
<1>1. {lost, faults, lost + faults}' \subseteq 0..MaxTrouble
  BY FaultFacts
<1>2. /\ cont' \in [Nodes -> Arms \cup {None}] /\ healthy' \in BOOLEAN
      /\ LaunchedInTime'
  BY GoneFacts
<1>3. Types'
  BY <1>1, <1>2 DEF Types, TypeOK
<1>4. EvidenceFirst' /\ Reported'
  BY DEF EvidenceFirst, Reported, StableClean
<1>5. GuardsKnown'
  BY DEF GuardsKnown
<1> QED  BY <1>2, <1>3, <1>4, <1>5

LEMMA OomKillInv ==
  ASSUME IInv, NEW n \in Nodes, OomKill(n)
  PROVE  IInv'
<1> USE DEF IInv
<1>1. {lost, faults, lost + faults}' \subseteq 0..MaxTrouble
  BY FaultFacts DEF OomKill
<1>2. /\ cont' \in [Nodes -> Arms \cup {None}] /\ healthy' \in BOOLEAN
      /\ LaunchedInTime'
  BY GoneFacts DEF OomKill
<1>3. arm \in Arms /\ killed \subseteq Nodes /\ evidence \subseteq Arms \X Nodes
  BY DEF Types, TypeOK
<1>4. /\ evidence \subseteq evidence' /\ evidence' \subseteq Arms \X Nodes
      /\ Open => <<arm, n>> \in evidence'
      /\ killed' = killed \/ (Open /\ killed' = killed \cup {n})
  <2>1. /\ evidence \subseteq evidence' /\ evidence' \subseteq Arms \X Nodes
        /\ Open => <<arm, n>> \in evidence'
    BY <1>3 DEF OomKill
  <2> HIDE DEF Open
  <2>2. killed' = killed \/ (Open /\ killed' = killed \cup {n})
    BY DEF OomKill, LostToMemory
  <2> QED  BY <2>1, <2>2
<1>5. Types'
  <2>1. killed' \subseteq Nodes
    BY <1>3, <1>4
  <2>2. UNCHANGED <<runnerVars, launcher, guard, lost>>
    BY DEF OomKill
  <2> QED  BY <1>1, <1>2, <1>4, <2>1, <2>2 DEF Types, TypeOK
<1>6. EvidenceFirst'
  BY <1>4 DEF OomKill, EvidenceFirst
<1>7. Reported'
  <2>1. Open => ~status[arm].stable
    BY DEF Reported
  <2> QED  BY <1>4, <2>1 DEF OomKill, Reported, StableClean
<1>8. GuardsKnown'
  BY DEF OomKill, GuardsKnown
<1> QED  BY <1>2, <1>5, <1>6, <1>7, <1>8

(***************************************************************************)
(* The guards: evidence first, then the removal.                           *)
(***************************************************************************)
LEMMA GuardWatchesInv ==
  ASSUME IInv, NEW g \in Arms \X Nodes,
         GuardSees(g) \/ GuardTimesOut(g) \/ GuardLeaves(g) \/ GuardReadsLow(g)
  PROVE  IInv'
<1> USE DEF IInv, GuardSees, GuardTimesOut, GuardLeaves, GuardReadsLow, GuardStep
<1>1. /\ {lost, faults, lost + faults}' \subseteq 0..MaxTrouble
      /\ lost' = 0 => lost = 0
  <2>1. CASE UNCHANGED lost
    BY <2>1 DEF Types, TypeOK
  <2>2. CASE Lose(1)
    BY <2>2, LoseFacts
  <2> QED  BY <2>1, <2>2
<1>2. /\ guard' \in [Arms \X Nodes -> Alive \cup {"off", "tripped"}]
      /\ \A h \in Arms \X Nodes : guard'[h] = "tripped" => guard[h] = "tripped"
      /\ \A h \in Arms \X Nodes : guard'[h] \in Alive => guard[h] \in Alive
  <2>1. guard \in [Arms \X Nodes -> Alive \cup {"off", "tripped"}]
    BY DEF Types, TypeOK
  <2>2. PICK to \in {"watching", "low", "off"} :
          guard[g] \in Alive /\ guard' = [guard EXCEPT ![g] = to]
    OBVIOUS
  <2> QED  BY <2>1, <2>2
<1>3. Types'
  <2> HIDE DEF GuardSees, GuardTimesOut, GuardLeaves, GuardReadsLow, GuardStep
  <2>1. UNCHANGED <<runnerVars, serverVars, memoryVars>>
    BY DEF GuardSees, GuardTimesOut, GuardLeaves, GuardReadsLow
  <2> QED  BY <1>1, <1>2, <2>1 DEF Types, TypeOK
<1>4. EvidenceFirst' /\ Reported'
  BY <1>2 DEF EvidenceFirst, Reported, StableClean
<1>5. GuardsKnown'
  BY <1>1, <1>2 DEF GuardsKnown
<1>6. LaunchedInTime'
  BY <1>1 DEF LaunchedInTime
<1> QED  BY <1>3, <1>4, <1>5, <1>6

LEMMA GuardTripsInv ==
  ASSUME IInv, NEW g \in Arms \X Nodes, GuardTrips(g)
  PROVE  IInv'
<1> USE DEF IInv, GuardTrips, GuardStep
<1>1. /\ guard' \in [Arms \X Nodes -> Alive \cup {"off", "tripped"}]
      /\ \A h \in Arms \X Nodes : h # g => guard'[h] = guard[h]
      /\ guard'[g] = "tripped"
  BY DEF Types, TypeOK
<1>2. Types'
  BY <1>1 DEF Types, TypeOK
<1>3. EvidenceFirst' /\ Reported'
  BY <1>1 DEF EvidenceFirst, Reported, StableClean
<1>4. GuardsKnown'
  BY <1>1 DEF GuardsKnown
<1>5. LaunchedInTime'
  BY DEF LaunchedInTime
<1> QED  BY <1>2, <1>3, <1>4, <1>5

LEMMA GuardRemovesInv ==
  ASSUME IInv, NEW g \in Arms \X Nodes, GuardRemoves(g)
  PROVE  IInv'
<1> USE DEF IInv, GuardStep
<1>1. /\ {lost, faults, lost + faults}' \subseteq 0..MaxTrouble
      /\ lost' = 0 => lost = 0
  <2>1. CASE UNCHANGED lost
    BY <2>1 DEF GuardRemoves, Types, TypeOK
  <2>2. CASE Lose(1)
    BY <2>2, LoseFacts DEF GuardRemoves
  <2> QED  BY <2>1, <2>2 DEF GuardRemoves
<1>2. /\ guard' \in [Arms \X Nodes -> Alive \cup {"off", "tripped"}]
      /\ \A h \in Arms \X Nodes : guard'[h] # "off" => guard'[h] = guard[h]
  BY DEF GuardRemoves, Types, TypeOK
<1>3. g[2] \in Nodes /\ g = <<g[1], g[2]>> /\ g \in evidence
      /\ killed \subseteq Nodes
  BY DEF GuardRemoves, EvidenceFirst, Types
<1>4. killed' = killed \/ (Open /\ g[1] = arm /\ killed' = killed \cup {g[2]})
  <2>1. g[1] # None
    OBVIOUS
  <2> HIDE DEF Open, None
  <2> QED  BY <2>1 DEF GuardRemoves, LostToMemory
<1>5. /\ cont' \in [Nodes -> Arms \cup {None}] /\ healthy' \in BOOLEAN
      /\ LaunchedInTime'
  BY <1>1, <1>3, GoneFacts DEF GuardRemoves
<1>6. Types'
  <2>1. killed' \subseteq Nodes
    BY <1>3, <1>4
  <2>2. UNCHANGED <<runnerVars, launcher, evidence, faults>>
    BY DEF GuardRemoves
  <2> QED  BY <1>1, <1>2, <1>5, <2>1, <2>2 DEF Types, TypeOK
<1>7. EvidenceFirst'
  <2>1. evidence' = evidence /\ arm' = arm
    BY DEF GuardRemoves
  <2>2. \A m \in killed' : <<arm, m>> \in evidence
    BY <1>3, <1>4 DEF EvidenceFirst
  <2>3. \A h \in Arms \X Nodes : guard'[h] = "tripped" => h \in evidence
    BY <1>2 DEF EvidenceFirst
  <2> QED  BY <2>1, <2>2, <2>3 DEF EvidenceFirst
<1>8. Reported'
  <2>1. Open => ~status[arm].stable
    BY DEF Reported
  <2> QED  BY <1>4, <2>1 DEF GuardRemoves, Reported, StableClean
<1>9. GuardsKnown'
  BY <1>1, <1>2 DEF GuardRemoves, GuardsKnown
<1> QED  BY <1>5, <1>6, <1>7, <1>8, <1>9

LEMMA StutterInv == ASSUME IInv, UNCHANGED vars PROVE IInv'
<1> USE DEF IInv
<1>1. Types'
  BY DEF Types, TypeOK
<1>2. EvidenceFirst' /\ Reported'
  BY DEF EvidenceFirst, Reported, StableClean
<1>3. GuardsKnown' /\ LaunchedInTime'
  BY DEF GuardsKnown, LaunchedInTime
<1> QED  BY <1>1, <1>2, <1>3

LEMMA RunnerInv == ASSUME IInv, Runner PROVE IInv'
<1>1. CASE \/ StopGuards("stop_guards", "stop_arm") \/ StopGuards("unguard", "collect")
           \/ StopGuards("cleanup_guards", "cleanup_arm")
  BY <1>1, StopGuardsInv
<1>2. CASE \/ StopArm("stop_arm", "wait_stopped") \/ StopArm("teardown", "next")
           \/ StopArm("cleanup_arm", "exited")
  BY <1>2, StopArmInv
<1>3. CASE WaitStopped \/ StartHeadGuard \/ StartWorkerGuard
  BY <1>3, WaitStoppedInv, StartHeadGuardInv, StartWorkerGuardInv
<1>4. CASE \/ Launch("worker", "launch_worker", "launch_head")
           \/ Launch("head", "launch_head", "wait_ready")
  BY <1>4, LaunchInv
<1>5. CASE WaitReady \/ Benchmark \/ PostGate \/ CheckRunning \/ DockerStats
  BY <1>5, WaitReadyInv, MeasureInv, DockerStatsInv
<1>6. CASE Collect \/ NextArm \/ Evaluate
  BY <1>6, CollectInv, NextArmInv, EvaluateInv
<1> QED  BY <1>1, <1>2, <1>3, <1>4, <1>5, <1>6 DEF Runner, Cleanup

LEMMA StepInv == IInv /\ [Next]_vars => IInv'
<1> SUFFICES ASSUME IInv, [Next]_vars PROVE IInv'
    OBVIOUS
<1> HIDE DEF vars
<1>1. CASE Runner \/ Interrupt \/ ServerReady
  BY <1>1, RunnerInv, InterruptInv, ServerReadyInv
<1>2. ASSUME NEW n \in Nodes,
             \/ LauncherClears(n) \/ LauncherStarts(n) \/ LauncherFails(n)
             \/ ServerCrash(n) \/ OomKill(n)
      PROVE  IInv'
  BY <1>2, LauncherClearsInv, LauncherStartsInv, LauncherFailsInv,
     ServerCrashInv, OomKillInv
<1>3. ASSUME NEW g \in Arms \X Nodes, Guard(g)
      PROVE  IInv'
  BY <1>3, GuardWatchesInv, GuardTripsInv, GuardRemovesInv DEF Guard
<1>4. CASE UNCHANGED vars
  BY <1>4, StutterInv
<1> QED  BY <1>1, <1>2, <1>3, <1>4 DEF Next
-----------------------------------------------------------------------------
(***************************************************************************)
(* The theorems.                                                           *)
(***************************************************************************)

(***************************************************************************)
(* The inductive invariant holds in every run of the experiment.           *)
(***************************************************************************)
THEOREM ArmInvariant == Spec => []IInv
BY InitInv, StepInv, PTL DEF Spec

(***************************************************************************)
(* Every variable keeps its type, and the commands lost and the faults     *)
(* stay within their bound.                                                *)
(***************************************************************************)
THEOREM TypeCorrect == Spec => []TypeOK
<1>1. IInv => TypeOK
  BY DEF IInv, Types
<1> QED  BY <1>1, ArmInvariant, PTL

(***************************************************************************)
(* An arm that run-e6-memfrac-ab.sh calls stable lost no container to its  *)
(* guard or to an OOM kill, in whatever order the guard, the kernel, the   *)
(* benchmark and the collection of the evidence took their steps.          *)
(***************************************************************************)
THEOREM StableArmsAreClean == Spec => []StableClean
<1>1. IInv => StableClean
  BY DEF IInv, Reported
<1> QED  BY <1>1, ArmInvariant, PTL

(***************************************************************************)
(* evaluate_memfrac.py accepts 0.68 only when there is evidence of memory  *)
(* pressure against 0.85 and the second arm was stable.                    *)
(***************************************************************************)
THEOREM AcceptIsJustified == Spec => []AcceptJustified
<1>1. IInv => AcceptJustified
  BY DEF IInv, Reported, AcceptJustified
<1> QED  BY <1>1, ArmInvariant, PTL

(***************************************************************************)
(* Without a signal and without lost commands, the runner leaves neither a *)
(* container nor a launcher nor a watching guard, from wherever it aborts. *)
(***************************************************************************)
THEOREM ExitIsClean == Spec => []CleanExit
<1>1. IInv => CleanExit
  BY DEF IInv, GuardsKnown, LaunchedInTime, CleanExit
<1> QED  BY <1>1, ArmInvariant, PTL
=============================================================================
