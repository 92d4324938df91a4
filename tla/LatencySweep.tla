---------------------------- MODULE LatencySweep ----------------------------
(***************************************************************************)
(* Experiment E8 (scripts/run-e8-decode-latency-ab.sh): a baseline arm and *)
(* candidate arms that each change one factor, measured one after the      *)
(* other in one session; then benchmarks/compare_ab.py compares every      *)
(* candidate with the baseline.                                            *)
(*                                                                         *)
(* start_arm is called as the condition of an if, where bash ignores       *)
(* "set -e": inside it only the explicit return after wait_ready and the   *)
(* status of its last command count.  RESULT_DIR may be that of an earlier *)
(* session.  The two ranks of a server are one here: it answers when both  *)
(* run.  Docker, ssh, the launchers and the server are modelled from how   *)
(* the script uses them; every external command returns, and tee writes    *)
(* what it is given.                                                       *)
(***************************************************************************)
EXTENDS Integers

CONSTANTS
  Candidates,  \* the number of candidate arms
  MaxMishaps   \* bound on the faults (crashes, failed launches, interrupts)
               \* and the docker rm that never reach docker, together

ASSUME SweepAssumption ==
  Candidates \in Nat \ {0} /\ MaxMishaps \in Nat

Baseline == 0
Arms == 0..Candidates          \* ARM_SPECS, the baseline in front
None == -1
OldSession == -2

VARIABLES
  pc,        \* where the runner is
  arm,       \* the arm it runs or compares
  seen,      \* seen_container of wait_ready
  failed,    \* FAILED_ARMS
  file,      \* per arm, its result: none, of an old session, or the arm on
             \* whose server this session measured it
  gates,     \* per arm, the gates it has passed
  decision,  \* per arm, the verdict in decision-<arm>.txt
  status,    \* the exit status
  cont,      \* the arm whose container runs
  healthy,   \* /health answers
  launcher,  \* per arm, what its launcher does next
  lost,      \* history: commands lost
  faults     \* history: faults

armVars == <<seen, failed, file, gates>>
serverVars == <<cont, healthy, launcher>>
vars == <<pc, arm, armVars, decision, status, serverVars, lost, faults>>

Goto(from, to) == pc = from /\ pc' = to
Lose  == lost + faults < MaxMishaps /\ lost' = lost + 1
Fault == lost + faults < MaxMishaps /\ faults' = faults + 1

Init ==
  /\ pc = "stop" /\ arm = Baseline /\ seen = FALSE /\ failed = {}
  /\ file \in [Arms -> {None, OldSession}]
  /\ gates = [a \in Arms |-> {}]
  /\ decision = [a \in Arms |-> "none"]
  /\ status = 0
  /\ cont = None /\ healthy = FALSE
  /\ launcher = [a \in Arms |-> "off"]
  /\ lost = 0 /\ faults = 0
-----------------------------------------------------------------------------
(***************************************************************************)
(* start_arm.                                                              *)
(***************************************************************************)
(* stop_arm: docker rm -f, which may be lost. *)
KeepServer(from, to) ==
  /\ Goto(from, to)
  /\ UNCHANGED <<arm, armVars, decision, status, serverVars, lost, faults>>

StopArm(from, to) ==
  /\ Goto(from, to)
  /\ \/ cont' = None /\ healthy' = FALSE /\ UNCHANGED lost
     \/ cont # None /\ Lose /\ UNCHANGED <<cont, healthy>>
  /\ UNCHANGED <<arm, armVars, decision, status, launcher, faults>>

Launch ==
  /\ Goto("launch", "wait_ready")
  /\ launcher' = [launcher EXCEPT ![arm] = "clearing"]
  /\ seen' = FALSE
  /\ UNCHANGED <<arm, failed, file, gates, decision, status, cont, healthy,
                 lost, faults>>

(* The end of start_arm with status ok, and the loop over the arms. *)
NeverAborts(ok) == FALSE         \* a baseline that fails like any other arm

Aborts(ok) == ~ok /\ arm = Baseline

ArmEnds(ok) ==
  /\ failed' = IF ok THEN failed ELSE failed \cup {arm}
  /\ status' = IF Aborts(ok) THEN 4 ELSE status
  /\ \/ Aborts(ok) /\ pc' = "cleanup" /\ UNCHANGED arm
     \/ ~Aborts(ok) /\ arm < Candidates /\ pc' = "stop" /\ arm' = arm + 1
     \/ ~Aborts(ok) /\ arm = Candidates /\ pc' = "last_stop" /\ UNCHANGED arm

(* wait_ready: a container that was seen and is gone, or the deadline,     *)
(* which is long against the time a launcher takes to reach docker run.    *)
NeverGivesUp == FALSE            \* a wait without a deadline

GivesUp == (seen /\ cont = None) \/ launcher[arm] = "off"

WaitReady ==
  /\ pc = "wait_ready"
  /\ \/ /\ healthy
        /\ pc' = "contract"
        /\ gates' = [gates EXCEPT ![arm] = @ \cup {"boot"}]
        /\ UNCHANGED <<arm, seen, failed, status>>
     \/ /\ ~healthy /\ cont # None /\ ~seen
        /\ seen' = TRUE
        /\ UNCHANGED <<pc, arm, failed, gates, status>>
     \/ /\ ~healthy /\ GivesUp
        /\ ArmEnds(FALSE)
        /\ UNCHANGED <<seen, gates>>
  /\ UNCHANGED <<file, decision, serverVars, lost, faults>>

(* A gate whose failure nobody sees: verify_runtime_contract and the first *)
(* lossless_gate.  The contract is read off both ranks' docker inspect; it *)
(* fails on another arm's container, and on a flag the build ignores.      *)
Gate(name, from, to, may) ==
  /\ Goto(from, to)
  /\ \E ok \in {b \in BOOLEAN : b => may} :
       gates' = [gates EXCEPT ![arm] = IF ok THEN @ \cup {name} ELSE @]
  /\ UNCHANGED <<arm, seen, failed, file, decision, status, serverVars,
                 lost, faults>>

(* chat_bench.py writes its result when every request has succeeded. *)
Benchmark ==
  /\ Goto("bench", "post_gate")
  /\ \E ok \in {b \in BOOLEAN : b => healthy} :
       file' = [file EXCEPT ![arm] = IF ok THEN cont ELSE @]
  /\ UNCHANGED <<arm, seen, failed, gates, decision, status, serverVars,
                 lost, faults>>

(* The last lossless_gate, whose status is that of start_arm. *)
PostGate ==
  /\ pc = "post_gate"
  /\ \E ok \in {b \in BOOLEAN : b => healthy} :
       /\ gates' = [gates EXCEPT ![arm] = IF ok THEN @ \cup {"post"} ELSE @]
       /\ ArmEnds(ok)
  /\ UNCHANGED <<seen, file, decision, serverVars, lost, faults>>
-----------------------------------------------------------------------------
(***************************************************************************)
(* The comparisons, and the EXIT trap.                                     *)
(***************************************************************************)
SecondCandidate == 2

FirstCandidate == 1              \* ARM_SPECS[@]:1

StartComparing ==
  /\ pc = "compare_all"
  /\ pc' = "compare" /\ arm' = FirstCandidate
  /\ UNCHANGED <<armVars, decision, status, serverVars, lost, faults>>

NeverSkipped(a) == FALSE

Skipped(a) == a \in failed

(* compare_ab.py on the two result files: ACCEPT (0) and REJECT (2, or     *)
(* INCONCLUSIVE, 3) go on; a missing file, or that of an earlier session   *)
(* with another plan, raises (1) and ends the session.                     *)
Compare ==
  /\ pc = "compare" /\ arm <= Candidates
  /\ \/ /\ Skipped(arm)
        /\ arm' = arm + 1
        /\ UNCHANGED <<pc, decision, status>>
     \/ /\ ~Skipped(arm)
        /\ file[Baseline] # None /\ file[arm] # None
        /\ \E d \in {"ACCEPT", "REJECT"} :
             decision' = [decision EXCEPT ![arm] = d]
        /\ arm' = arm + 1
        /\ UNCHANGED <<pc, status>>
     \/ /\ ~Skipped(arm)
        /\ {file[Baseline], file[arm]} \cap {None, OldSession} # {}
        /\ pc' = "cleanup" /\ status' = 1
        /\ UNCHANGED <<arm, decision>>
  /\ UNCHANGED <<armVars, serverVars, lost, faults>>

(* rejected-arms.txt lists FAILED_ARMS. *)
EndOfSession ==
  /\ Goto("compare", "cleanup") /\ arm > Candidates
  /\ UNCHANGED <<arm, armVars, decision, status, serverVars, lost, faults>>

Interrupt ==
  /\ pc \notin {"cleanup", "exited"} /\ Fault
  /\ pc' = "cleanup" /\ status' = 130
  /\ UNCHANGED <<arm, armVars, decision, serverVars, lost>>

Runner ==
  \/ StopArm("stop", "launch") \/ Launch \/ WaitReady
  \/ Gate("contract", "contract", "pre_gate", cont = arm)
  \/ Gate("pre", "pre_gate", "bench", healthy)
  \/ Benchmark \/ PostGate
  \/ StopArm("last_stop", "compare_all")
  \/ StartComparing \/ Compare \/ EndOfSession
  \/ StopArm("cleanup", "exited")
-----------------------------------------------------------------------------
(***************************************************************************)
(* The launchers, each with its docker rm and docker run, and the server.  *)
(***************************************************************************)
LauncherClears(a) ==
  /\ launcher[a] = "clearing"
  /\ launcher' = [launcher EXCEPT ![a] = "starting"]
  /\ \/ cont' = None /\ healthy' = FALSE /\ UNCHANGED lost
     \/ cont # None /\ Lose /\ UNCHANGED <<cont, healthy>>
  /\ UNCHANGED <<pc, arm, armVars, decision, status, faults>>

LauncherStarts(a) ==
  /\ launcher[a] = "starting"
  /\ launcher' = [launcher EXCEPT ![a] = "off"]
  /\ cont' = IF cont = None THEN a ELSE cont
  /\ UNCHANGED <<pc, arm, armVars, decision, status, healthy, lost, faults>>

(* docker run fails, or a check of the launcher in front of it. *)
LauncherFails(a) ==
  /\ launcher[a] # "off" /\ Fault
  /\ launcher' = [launcher EXCEPT ![a] = "off"]
  /\ UNCHANGED <<pc, arm, armVars, decision, status, cont, healthy, lost>>

ServerReady ==
  /\ cont # None /\ ~healthy /\ healthy' = TRUE
  /\ UNCHANGED <<pc, arm, armVars, decision, status, cont, launcher, lost,
                 faults>>

ServerCrash ==
  /\ cont # None /\ Fault
  /\ cont' = None /\ healthy' = FALSE
  /\ UNCHANGED <<pc, arm, armVars, decision, status, launcher, lost>>

Next ==
  \/ Runner \/ Interrupt \/ ServerReady \/ ServerCrash
  \/ \E a \in Arms : LauncherClears(a) \/ LauncherStarts(a) \/ LauncherFails(a)

(* bash and docker are processes of live hosts; a server may never boot. *)
Fairness ==
  /\ WF_vars(Runner)
  /\ \A a \in Arms : WF_vars(LauncherClears(a) \/ LauncherStarts(a))

Spec == Init /\ [][Next]_vars /\ Fairness
-----------------------------------------------------------------------------
(***************************************************************************)
(* A session without a working baseline compares nothing, although the     *)
(* directory may hold the baseline of an earlier one: the baseline of this *)
(* session booted and its last lossless gate passed.                       *)
(***************************************************************************)
NoComparisonWithoutBaseline ==
  (\E a \in Arms : decision[a] # "none") => {"boot", "post"} \subseteq gates[Baseline]

(***************************************************************************)
(* An arm that did not boot, or whose last lossless gate failed, is never  *)
(* accepted, whatever result an earlier session has left under its name.   *)
(***************************************************************************)
AcceptedBooted ==
  \A a \in Arms : decision[a] = "ACCEPT" => {"boot", "post"} \subseteq gates[a]

(***************************************************************************)
(* A session that ends well has reported on every candidate, once: it has  *)
(* a decision or it is in the list of rejected arms.                       *)
(***************************************************************************)
EveryArmReported ==
  pc = "exited" /\ status = 0 =>
    \A a \in Arms \ {Baseline} : a \in failed <=> decision[a] = "none"

(***************************************************************************)
(* A result of this session was measured on the server of its own arm, not *)
(* on the one the arm before left behind, as long as docker obeys.         *)
(***************************************************************************)
MeasuredOwnServer ==
  lost = 0 => \A a \in Arms : file[a] \in {None, OldSession, a}

(***************************************************************************)
(* Whatever happens to the servers, the session ends.                      *)
(***************************************************************************)
Terminates == <>(pc = "exited")

(***************************************************************************)
(* What docs/EXPERIMENT-E8-DECODE-LATENCY.md asks of an arm: "Any T4       *)
(* mismatch on any arm invalidates that arm regardless of throughput".     *)
(***************************************************************************)
MismatchInvalidates ==
  \A a \in Arms : decision[a] = "ACCEPT" => {"pre", "post"} \subseteq gates[a]
=============================================================================
