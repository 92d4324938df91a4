------------------------- MODULE LatencySweepProofs -------------------------
(***************************************************************************)
(* The safety properties of LatencySweep, for any number of candidate arms *)
(* and any number of faults and lost commands, as theorems checked by      *)
(* TLAPS.                                                                  *)
(***************************************************************************)
EXTENDS LatencySweep, TLAPS

USE SweepAssumption
USE DEF vars, armVars, serverVars, Goto, Lose, Fault, Baseline, Arms, None,
        OldSession
-----------------------------------------------------------------------------
(***************************************************************************)
(* The inductive invariant.                                                *)
(***************************************************************************)
Answering == {"contract", "pre_gate", "bench", "post_gate"}
Measuring == {"stop", "launch", "wait_ready"} \cup Answering
Comparing == {"last_stop", "compare_all", "compare"}

Types ==
  /\ pc \in Measuring \cup Comparing \cup {"cleanup", "exited"}
  /\ arm \in 0..(Candidates + 1)
  /\ seen \in BOOLEAN /\ healthy \in BOOLEAN
  /\ failed \subseteq Arms
  /\ file \in [Arms -> Arms \cup {None, OldSession}]
  /\ gates \in [Arms -> SUBSET {"boot", "contract", "pre", "post"}]
  /\ decision \in [Arms -> {"none", "ACCEPT", "REJECT"}]
  /\ cont \in Arms \cup {None}
  /\ launcher \in [Arms -> {"off", "clearing", "starting"}]
  /\ lost \in Nat /\ faults \in Nat

(* An arm that has been measured and has not failed passed what start_arm  *)
(* can see.                                                                *)
Worked(a) == {"boot", "post"} \subseteq gates[a]

MeasuredSoFar ==
  pc \in Measuring =>
    /\ arm \in Arms /\ \A a \in Arms : decision[a] = "none"
    /\ \A a \in Arms : a < arm /\ a \notin failed => Worked(a)
    /\ \A a \in failed : a < arm /\ a # Baseline
    /\ pc \in Answering => "boot" \in gates[arm]

(* The comparisons go through the arms in order and skip the failed ones.  *)
ComparedSoFar ==
  pc \in Comparing =>
    /\ \A a \in Arms : a \notin failed => Worked(a)
    /\ Baseline \notin failed /\ decision[Baseline] = "none"
    /\ IF pc = "compare"
       THEN /\ arm > Baseline
            /\ \A a \in Arms \ {Baseline} :
                 IF a < arm THEN a \in failed <=> decision[a] = "none"
                            ELSE decision[a] = "none"
       ELSE \A a \in Arms : decision[a] = "none"

Decided ==
  /\ \A a \in Arms : decision[a] # "none" => Worked(a) /\ Worked(Baseline)
  /\ pc \in {"cleanup", "exited"} /\ status = 0 =>
       \A a \in Arms \ {Baseline} : a \in failed <=> decision[a] = "none"

(* While docker obeys, no launcher outlives the wait for its server, so a  *)
(* server that answers is that of the arm that asks.                       *)
OwnServer ==
  /\ healthy => cont # None
  /\ MeasuredOwnServer
  /\ lost = 0 /\ pc \in Measuring =>
       /\ \A a \in Arms : launcher[a] # "off" =>
            a = arm /\ pc = "wait_ready" /\ cont = None /\ ~seen
       /\ pc = "launch" => cont = None
       /\ pc \in {"wait_ready"} \cup Answering => cont \in {None, arm}

IInv == Types /\ MeasuredSoFar /\ ComparedSoFar /\ Decided /\ OwnServer
-----------------------------------------------------------------------------
USE DEF Answering, Measuring, Comparing

(***************************************************************************)
(* Every directory a session may start in satisfies it.                    *)
(***************************************************************************)
LEMMA InitInv == Init => IInv
<1> SUFFICES ASSUME Init PROVE IInv
    OBVIOUS
<1>1. /\ file \in [Arms -> Arms \cup {None, OldSession}]
      /\ gates \in [Arms -> SUBSET {"boot", "contract", "pre", "post"}]
      /\ decision \in [Arms -> {"none", "ACCEPT", "REJECT"}]
      /\ launcher \in [Arms -> {"off", "clearing", "starting"}]
  BY DEF Init
<1>2. /\ arm \in 0..(Candidates + 1) /\ failed \subseteq Arms
      /\ cont \in Arms \cup {None} /\ lost \in Nat /\ faults \in Nat
  BY DEF Init
<1>3. pc \in Measuring /\ seen \in BOOLEAN /\ healthy \in BOOLEAN
  BY DEF Init
<1> HIDE DEF Arms, None, OldSession, Measuring, Comparing
<1>4. Types
  BY <1>1, <1>2, <1>3 DEF Types
<1> USE DEF Arms, None, OldSession, Measuring, Comparing
<1>5. MeasuredSoFar /\ ComparedSoFar /\ Decided
  BY DEF Init, MeasuredSoFar, ComparedSoFar, Decided
<1>6. OwnServer
  BY DEF Init, OwnServer, MeasuredOwnServer
<1> QED  BY <1>4, <1>5, <1>6 DEF IInv

(***************************************************************************)
(* start_arm: stop, launch, wait.                                          *)
(***************************************************************************)
LEMMA StopArmInv ==
  ASSUME IInv,
         NEW from, NEW to,
         \/ from = "stop" /\ to = "launch"
         \/ from = "last_stop" /\ to = "compare_all"
         \/ from = "cleanup" /\ to = "exited",
         StopArm(from, to)
  PROVE  IInv'
<1> USE DEF IInv, StopArm
<1>1. lost \in Nat /\ lost' \in Nat
  BY DEF Types
<1>2. cont' \in Arms \cup {None} /\ healthy' \in BOOLEAN
  BY DEF Types
<1>3. Types'
  BY <1>1, <1>2 DEF Types
<1>4. MeasuredSoFar'
  BY DEF MeasuredSoFar, Worked
<1>5. ComparedSoFar'
  BY DEF ComparedSoFar, Worked
<1>6. Decided'
  BY DEF Decided, Worked
<1>7. OwnServer'
  BY DEF Types, OwnServer, MeasuredOwnServer
<1> QED  BY <1>3, <1>4, <1>5, <1>6, <1>7

LEMMA LaunchInv == ASSUME IInv, Launch PROVE IInv'
<1> USE DEF IInv, Launch
<1>1. Types'
  BY DEF Types
<1>2. MeasuredSoFar' /\ ComparedSoFar'
  BY DEF MeasuredSoFar, ComparedSoFar, Worked
<1>3. Decided'
  BY DEF Decided, Worked
<1>4. OwnServer'
  BY DEF Types, OwnServer, MeasuredOwnServer, MeasuredSoFar
<1> QED  BY <1>1, <1>2, <1>3, <1>4

(***************************************************************************)
(* The end of start_arm: what it claims of the arm is what the gates say,  *)
(* and no launcher is left when docker has obeyed.                         *)
(***************************************************************************)
LEMMA ArmEndsInv ==
  ASSUME IInv,
         NEW ok \in BOOLEAN, pc \in Measuring, ArmEnds(ok),
         gates' \in [Arms -> SUBSET {"boot", "contract", "pre", "post"}],
         \A a \in Arms : gates[a] \subseteq gates'[a],
         ok => {"boot", "post"} \subseteq gates'[arm],
         lost = 0 => \A a \in Arms : launcher[a] = "off",
         UNCHANGED <<seen, file, decision, serverVars, lost, faults>>
  PROVE  IInv'
<1> USE DEF IInv, ArmEnds, Aborts
<1>1. Types' /\ arm \in Arms
  BY DEF Types, MeasuredSoFar
<1>2. \A a \in Arms : a # arm /\ Worked(a) => Worked(a)'
  BY DEF Worked
<1>3. MeasuredSoFar'
  <2> SUFFICES ASSUME pc' \in Measuring PROVE MeasuredSoFar'
      BY DEF MeasuredSoFar
  <2>1. pc' = "stop" /\ arm' = arm + 1 /\ arm' \in Arms /\ arm < arm'
    BY <1>1 DEF Types
  <2>2. \A a \in failed' : a < arm' /\ a # Baseline
    BY <1>1, <2>1 DEF MeasuredSoFar, Types
  <2>3. ASSUME NEW a \in Arms, a < arm', a \notin failed'
        PROVE  Worked(a)'
    <3>1. CASE a = arm
      BY <2>1, <2>3, <3>1 DEF Worked
    <3>2. CASE a # arm
      <4>1. a < arm /\ a \notin failed
        BY <1>1, <2>1, <2>3, <3>2
      <4> QED  BY <1>2, <3>2, <4>1 DEF MeasuredSoFar
    <3> QED  BY <3>1, <3>2
  <2> QED  BY <2>1, <2>2, <2>3 DEF MeasuredSoFar
<1>4. ComparedSoFar'
  <2> SUFFICES ASSUME pc' \in Comparing PROVE ComparedSoFar'
      BY DEF ComparedSoFar
  <2>1. pc' = "last_stop" /\ arm = Candidates /\ (ok \/ arm # Baseline)
    BY <1>1 DEF Types
  <2>2. Baseline \notin failed' /\ \A a \in Arms : decision'[a] = "none"
    BY <2>1 DEF MeasuredSoFar, Types
  <2>3. ASSUME NEW a \in Arms, a \notin failed'
        PROVE  Worked(a)'
    <3>1. CASE a = arm
      BY <2>3, <3>1 DEF Worked
    <3>2. CASE a # arm
      <4>1. a < arm /\ a \notin failed
        BY <1>1, <2>1, <2>3, <3>2
      <4> QED  BY <1>2, <3>2, <4>1 DEF MeasuredSoFar
    <3> QED  BY <3>1, <3>2
  <2> QED  BY <2>1, <2>2, <2>3 DEF ComparedSoFar
<1>5. Decided'
  BY <1>1 DEF Decided, MeasuredSoFar, Types
<1>6. OwnServer'
  BY <1>1 DEF OwnServer, MeasuredOwnServer, MeasuredSoFar, Types
<1> QED  BY <1>1, <1>3, <1>4, <1>5, <1>6

LEMMA WaitReadyInv == ASSUME IInv, WaitReady PROVE IInv'
<1> USE DEF IInv
<1> DEFINE Ready ==
      /\ healthy /\ pc' = "contract"
      /\ gates' = [gates EXCEPT ![arm] = @ \cup {"boot"}]
      /\ UNCHANGED <<arm, seen, failed, status>>
<1>1. CASE Ready
  <2> USE <1>1 DEF WaitReady
  <2>1. arm \in Arms /\ cont # None
    BY DEF MeasuredSoFar, OwnServer
  <2>2. \A a \in Arms : gates[a] \subseteq gates'[a]
    BY <2>1 DEF Types
  <2>3. Types' /\ "boot" \in gates'[arm]
    BY <2>1 DEF Types
  <2>4. MeasuredSoFar' /\ ComparedSoFar'
    BY <2>1, <2>2, <2>3 DEF MeasuredSoFar, ComparedSoFar, Worked
  <2>5. Decided'
    BY <2>2 DEF Decided, Worked
  <2>6. OwnServer'
    BY <2>1 DEF OwnServer, MeasuredOwnServer
  <2> QED  BY <2>3, <2>4, <2>5, <2>6
<1>2. CASE ~Ready /\ ~healthy /\ cont # None /\ ~seen /\ seen' = TRUE
           /\ UNCHANGED <<pc, arm, failed, gates, status>>
  <2> USE <1>2 DEF WaitReady
  <2>1. Types'
    BY DEF Types
  <2>2. MeasuredSoFar' /\ ComparedSoFar' /\ Decided'
    BY DEF MeasuredSoFar, ComparedSoFar, Decided, Worked
  <2>3. OwnServer'
    BY DEF OwnServer, MeasuredOwnServer
  <2> QED  BY <2>1, <2>2, <2>3
<1>3. CASE ~healthy /\ GivesUp /\ ArmEnds(FALSE) /\ UNCHANGED <<seen, gates>>
  <2>1. lost = 0 => \A a \in Arms : launcher[a] = "off"
    BY <1>3 DEF WaitReady, GivesUp, OwnServer, Types
  <2>2. gates' \in [Arms -> SUBSET {"boot", "contract", "pre", "post"}]
    BY <1>3 DEF Types
  <2> QED  BY <1>3, <2>1, <2>2, ArmEndsInv DEF WaitReady
<1> QED  BY <1>1, <1>2, <1>3 DEF WaitReady

(***************************************************************************)
(* The gates and the benchmark.                                            *)
(***************************************************************************)
LEMMA GateInv ==
  ASSUME IInv,
         NEW name \in {"contract", "pre"}, NEW from, NEW to, NEW may,
         from \in {"contract", "pre_gate"}, to \in {"pre_gate", "bench"},
         Gate(name, from, to, may)
  PROVE  IInv'
<1> USE DEF IInv, Gate
<1>1. arm \in Arms
  BY DEF MeasuredSoFar
<1>2. Types'
  BY <1>1 DEF Types
<1>3. \A a \in Arms : gates[a] \subseteq gates'[a]
  BY <1>1 DEF Types
<1>4. MeasuredSoFar' /\ ComparedSoFar'
  BY <1>1, <1>3 DEF MeasuredSoFar, ComparedSoFar, Worked
<1>5. Decided'
  BY <1>3 DEF Decided, Worked
<1>6. OwnServer'
  BY DEF OwnServer, MeasuredOwnServer
<1> QED  BY <1>2, <1>4, <1>5, <1>6

LEMMA BenchmarkInv == ASSUME IInv, Benchmark PROVE IInv'
<1> USE DEF IInv, Benchmark
<1>1. arm \in Arms
  BY DEF MeasuredSoFar
<1>2. Types'
  BY <1>1 DEF Types
<1>3. MeasuredSoFar' /\ ComparedSoFar'
  BY DEF MeasuredSoFar, ComparedSoFar, Worked
<1>4. Decided'
  BY DEF Decided, Worked
<1>5. OwnServer'
  BY <1>1 DEF OwnServer, MeasuredOwnServer, Types
<1> QED  BY <1>2, <1>3, <1>4, <1>5

LEMMA PostGateInv == ASSUME IInv, PostGate PROVE IInv'
<1> USE DEF IInv
<1>1. arm \in Arms /\ "boot" \in gates[arm] /\ pc \in Measuring
  BY DEF PostGate, MeasuredSoFar
<1>2. PICK ok \in BOOLEAN :
        /\ gates' = [gates EXCEPT ![arm] = IF ok THEN @ \cup {"post"} ELSE @]
        /\ ArmEnds(ok)
  BY DEF PostGate
<1>3. /\ gates' \in [Arms -> SUBSET {"boot", "contract", "pre", "post"}]
      /\ \A a \in Arms : gates[a] \subseteq gates'[a]
      /\ ok => {"boot", "post"} \subseteq gates'[arm]
  BY <1>1, <1>2 DEF Types
<1>4. lost = 0 => \A a \in Arms : launcher[a] = "off"
  BY DEF PostGate, OwnServer, Types
<1> QED  BY <1>1, <1>2, <1>3, <1>4, ArmEndsInv DEF PostGate

(***************************************************************************)
(* The comparisons and the end.                                            *)
(***************************************************************************)
LEMMA StartComparingInv == ASSUME IInv, StartComparing PROVE IInv'
<1> USE DEF IInv, StartComparing, FirstCandidate
<1>1. Types'
  BY DEF Types
<1>2. MeasuredSoFar'
  BY DEF MeasuredSoFar
<1>3. ComparedSoFar'
  BY DEF ComparedSoFar, Worked
<1>4. Decided'
  BY DEF Decided, Worked
<1>5. OwnServer'
  BY DEF OwnServer, MeasuredOwnServer
<1> QED  BY <1>1, <1>2, <1>3, <1>4, <1>5

LEMMA CompareInv == ASSUME IInv, Compare PROVE IInv'
<1> USE DEF IInv, Skipped
<1>1. /\ arm \in Arms \ {Baseline} /\ pc = "compare" /\ arm + 1 > Baseline
      /\ arm + 1 \in 0..(Candidates + 1)
      /\ \A a \in Arms : a < arm + 1 <=> a < arm \/ a = arm
  BY DEF Compare, ComparedSoFar, Types
<1>2. \A a \in Arms : a \notin failed => Worked(a)
  BY <1>1 DEF ComparedSoFar
<1>3. \A a \in Arms : Worked(a) <=> Worked(a)'
  BY DEF Compare, Worked
<1>4. OwnServer'
  BY <1>1 DEF Compare, OwnServer, MeasuredOwnServer
<1>5. CASE arm \in failed /\ arm' = arm + 1 /\ UNCHANGED <<pc, decision, status>>
  <2> USE <1>5
  <2>1. Types' /\ MeasuredSoFar'
    BY <1>1 DEF Compare, Types, MeasuredSoFar
  <2>2. ComparedSoFar'
    BY <1>1, <1>3 DEF Compare, ComparedSoFar
  <2>3. Decided'
    BY <1>1, <1>3 DEF Compare, Decided
  <2> QED  BY <2>1, <2>2, <2>3, <1>4
<1>6. CASE arm \notin failed /\ pc' = "cleanup" /\ status' = 1
           /\ UNCHANGED <<arm, decision>>
  <2> USE <1>6
  <2>1. Types' /\ MeasuredSoFar' /\ ComparedSoFar'
    BY DEF Compare, Types, MeasuredSoFar, ComparedSoFar
  <2>2. Decided'
    BY <1>3 DEF Compare, Decided
  <2> QED  BY <2>1, <2>2, <1>4
<1>7. ASSUME NEW d \in {"ACCEPT", "REJECT"}, arm \notin failed,
             decision' = [decision EXCEPT ![arm] = d],
             arm' = arm + 1, UNCHANGED <<pc, status>>
      PROVE  IInv'
  <2> USE <1>7
  <2>1. decision'[arm] # "none"
        /\ \A a \in Arms : a # arm => decision'[a] = decision[a]
    BY <1>1 DEF Types
  <2>2. Types' /\ MeasuredSoFar'
    BY <1>1 DEF Compare, Types, MeasuredSoFar
  <2>3. ComparedSoFar'
    BY <1>1, <1>3, <2>1 DEF Compare, ComparedSoFar
  <2>4. Worked(arm) /\ Worked(Baseline)
    BY <1>1, <1>2 DEF ComparedSoFar
  <2>5. Decided'
    BY <1>1, <1>3, <2>1, <2>4 DEF Compare, Decided
  <2> QED  BY <2>2, <2>3, <2>5, <1>4
<1> QED  BY <1>5, <1>6, <1>7 DEF Compare

LEMMA EndOfSessionInv == ASSUME IInv, EndOfSession PROVE IInv'
<1> USE DEF IInv, EndOfSession
<1>1. Types' /\ MeasuredSoFar' /\ ComparedSoFar'
  BY DEF Types, MeasuredSoFar, ComparedSoFar
<1>2. Decided'
  BY DEF Decided, ComparedSoFar, Types, Worked
<1>3. OwnServer'
  BY DEF OwnServer, MeasuredOwnServer
<1> QED  BY <1>1, <1>2, <1>3

LEMMA InterruptInv == ASSUME IInv, Interrupt PROVE IInv'
<1> USE DEF IInv, Interrupt
<1>1. Types' /\ MeasuredSoFar' /\ ComparedSoFar'
  BY DEF Types, MeasuredSoFar, ComparedSoFar
<1>2. Decided'
  BY DEF Decided, Worked
<1>3. OwnServer'
  BY DEF OwnServer, MeasuredOwnServer
<1> QED  BY <1>1, <1>2, <1>3

(***************************************************************************)
(* The launchers, the server, and no step.                                 *)
(***************************************************************************)
LEMMA LauncherInv ==
  ASSUME IInv, NEW a \in Arms,
         LauncherClears(a) \/ LauncherStarts(a) \/ LauncherFails(a)
  PROVE  IInv'
<1> USE DEF IInv, LauncherClears, LauncherStarts, LauncherFails
<1>1. /\ lost \in Nat /\ lost' \in Nat /\ faults' \in Nat
      /\ lost' = 0 => lost = 0
  BY DEF Types
<1>2. cont' \in Arms \cup {None} /\ healthy' \in BOOLEAN
  BY DEF Types
<1>3. launcher' \in [Arms -> {"off", "clearing", "starting"}]
  BY DEF Types
<1>4. Types'
  BY <1>1, <1>2, <1>3 DEF Types
<1>5. MeasuredSoFar' /\ ComparedSoFar'
  BY DEF MeasuredSoFar, ComparedSoFar, Worked
<1>6. Decided'
  BY DEF Decided, Worked
<1>7. OwnServer'
  <2>1. healthy' => cont' # None
    BY DEF OwnServer
  <2>2. MeasuredOwnServer'
    BY <1>1 DEF OwnServer, MeasuredOwnServer
  <2> SUFFICES ASSUME lost' = 0, pc' \in Measuring PROVE OwnServer'
      BY <2>1, <2>2 DEF OwnServer
  <2>3. a = arm /\ pc = "wait_ready" /\ cont = None /\ ~seen
    BY <1>1 DEF OwnServer, Types
  <2>4. \A b \in Arms : launcher[b] # "off" => b = arm
    BY <1>1 DEF OwnServer
  <2>5. \A b \in Arms : launcher'[b] # "off" => b = arm /\ cont' = None
    BY <2>3, <2>4 DEF Types
  <2> QED  BY <2>1, <2>2, <2>3, <2>5 DEF OwnServer
<1> QED  BY <1>4, <1>5, <1>6, <1>7

LEMMA ServerInv == ASSUME IInv, ServerReady \/ ServerCrash PROVE IInv'
<1> USE DEF IInv, ServerReady, ServerCrash
<1>1. faults' \in Nat
  BY DEF Types
<1>2. cont' \in Arms \cup {None} /\ healthy' \in BOOLEAN
  BY DEF Types
<1>3. Types'
  BY <1>1, <1>2 DEF Types
<1>4. MeasuredSoFar' /\ ComparedSoFar'
  BY DEF MeasuredSoFar, ComparedSoFar, Worked
<1>5. Decided'
  BY DEF Decided, Worked
<1>6. OwnServer'
  BY DEF OwnServer, MeasuredOwnServer
<1> QED  BY <1>3, <1>4, <1>5, <1>6

LEMMA StutterInv == ASSUME IInv, UNCHANGED vars PROVE IInv'
BY DEF IInv, Types, MeasuredSoFar, ComparedSoFar, Decided, OwnServer,
       MeasuredOwnServer, Worked

LEMMA StepInv == IInv /\ [Next]_vars => IInv'
<1> SUFFICES ASSUME IInv, [Next]_vars PROVE IInv'
    OBVIOUS
<1> HIDE DEF vars
<1>1. CASE StopArm("stop", "launch") \/ StopArm("last_stop", "compare_all")
           \/ StopArm("cleanup", "exited")
  BY <1>1, StopArmInv
<1>2. CASE Launch \/ WaitReady
  BY <1>2, LaunchInv, WaitReadyInv
<1>3. CASE Gate("contract", "contract", "pre_gate", cont = arm)
  BY <1>3, GateInv
<1>4. CASE Gate("pre", "pre_gate", "bench", healthy)
  BY <1>4, GateInv
<1>5. CASE Benchmark \/ PostGate
  BY <1>5, BenchmarkInv, PostGateInv
<1>6. CASE StartComparing \/ Compare \/ EndOfSession \/ Interrupt
  BY <1>6, StartComparingInv, CompareInv, EndOfSessionInv, InterruptInv
<1>7. CASE \E a \in Arms :
             LauncherClears(a) \/ LauncherStarts(a) \/ LauncherFails(a)
  BY <1>7, LauncherInv
<1>8. CASE ServerReady \/ ServerCrash
  BY <1>8, ServerInv
<1>9. CASE UNCHANGED vars
  BY <1>9, StutterInv
<1> QED
  BY <1>1, <1>2, <1>3, <1>4, <1>5, <1>6, <1>7, <1>8, <1>9 DEF Next, Runner
-----------------------------------------------------------------------------
(***************************************************************************)
(* The theorems.                                                           *)
(***************************************************************************)

(***************************************************************************)
(* The inductive invariant holds in every session.                         *)
(***************************************************************************)
THEOREM SweepInvariant == Spec => []IInv
BY InitInv, StepInv, PTL DEF Spec

(***************************************************************************)
(* run-e8-decode-latency-ab.sh compares nothing without a baseline of this *)
(* session that booted and passed its last lossless gate, for any number   *)
(* of candidates, whatever the directory held and whatever was lost.       *)
(***************************************************************************)
THEOREM BaselineComesFirst == Spec => []NoComparisonWithoutBaseline
<1>1. IInv => NoComparisonWithoutBaseline
  BY DEF IInv, Decided, Worked, NoComparisonWithoutBaseline
<1> QED  BY <1>1, SweepInvariant, PTL

(***************************************************************************)
(* An accepted arm booted and passed its last lossless gate in this        *)
(* session.                                                                *)
(***************************************************************************)
THEOREM AcceptedArmBooted == Spec => []AcceptedBooted
<1>1. IInv => AcceptedBooted
  BY DEF IInv, Decided, Worked, AcceptedBooted
<1> QED  BY <1>1, SweepInvariant, PTL

(***************************************************************************)
(* A session that exits with 0 has either decided on a candidate or listed *)
(* it as rejected, never both and never neither.                           *)
(***************************************************************************)
THEOREM SessionReportsAll == Spec => []EveryArmReported
<1>1. IInv => EveryArmReported
  BY DEF IInv, Decided, EveryArmReported
<1> QED  BY <1>1, SweepInvariant, PTL

(***************************************************************************)
(* A result of this session was measured on the server of its own arm,     *)
(* under any number of crashes, failed launches and interrupts, as long as *)
(* no docker command is lost.                                              *)
(***************************************************************************)
THEOREM ResultsAreOwn == Spec => []MeasuredOwnServer
<1>1. IInv => MeasuredOwnServer
  BY DEF IInv, OwnServer
<1> QED  BY <1>1, SweepInvariant, PTL
=============================================================================
