---------------------------- MODULE QualityGates ----------------------------
(***************************************************************************)
(* The quality gates (scripts/run-quality-gates.sh) in a result directory  *)
(* that outlives the runner: NIAH with a checkpoint replaced after every   *)
(* case (benchmarks/niah_eval.py), then GSM8K with an append-only log      *)
(* (benchmarks/gsm8k_eval.py).  A run may be killed anywhere, and the next *)
(* one resumes, perhaps with another concurrency or another build of the   *)
(* repository.  The server, and the tool-call gate, which keeps no state   *)
(* between runs, are not modelled.                                         *)
(***************************************************************************)
EXTENDS Integers, Sequences, FiniteSets

CONSTANTS
  Cases,       \* the number of NIAH cases
  Items,       \* the number of GSM8K items
  Threshold,   \* the number of correct items that passes
  Concurrency, \* the values of GSM_CONCURRENCY
  Builds,      \* the repo and image identities
  MaxRuns      \* bound on the runs in the directory

ASSUME GatesAssumption ==
  /\ Cases \in Nat \ {0} /\ Items \in Nat \ {0} /\ Threshold \in 0..Items
  /\ Concurrency \subseteq Nat \ {0} /\ MaxRuns \in Nat
  /\ "none" \notin Builds       \* the name of a missing run-identity.txt

VARIABLES
  pc,        \* where the runner is
  runs,      \* the number of runs so far
  build,     \* what this run runs
  conc,      \* its concurrency
  identity,  \* run-identity.txt: "none", a build, or Cut short
  niah,      \* niah.json and its temporary file
  log,       \* gsm8k-responses.jsonl: the records written
  tail,      \* its last line: "clean", "open" (no newline yet) or "torn"
  decision,  \* quality-decision.json says that q2_passed
  results,   \* the NIAH results in memory
  done,      \* the GSM8K records in memory
  batch,     \* the answered items that are still to be appended
  passed,    \* niah_rc and gsm_rc are 0
  refused    \* history: what this run would not resume

directory == <<identity, niah, log, tail, decision>>
memory == <<results, done, batch, passed>>
vars == <<pc, runs, build, conc, directory, memory, refused>>

Cut == "cut"

(* What a file of NIAH results holds. *)
NoFile == [kind |-> "none", cases |-> << >>]
Garbled == [kind |-> "garbled", cases |-> << >>]
CasesIn(s) == [kind |-> "cases", cases |-> s]

Goto(from, to) == pc = from /\ pc' = to
Correct(s) == {k \in DOMAIN s : s[k].ok}
Indices(s) == {s[k].index : k \in DOMAIN s}

Init ==
  /\ pc = "off" /\ runs = 0
  /\ build \in Builds /\ conc \in Concurrency
  /\ identity = "none" /\ niah = [f \in {"file", "temporary"} |-> NoFile]
  /\ log = << >> /\ tail = "clean" /\ decision = FALSE
  /\ results = << >> /\ done = << >> /\ batch = << >>
  /\ passed = {} /\ refused = {}

Start(b, c) ==
  /\ Goto("off", "identity") /\ runs < MaxRuns
  /\ runs' = runs + 1 /\ build' = b /\ conc' = c
  /\ results' = << >> /\ done' = << >> /\ batch' = << >>
  /\ passed' = {} /\ refused' = {}
  /\ UNCHANGED directory
-----------------------------------------------------------------------------
(***************************************************************************)
(* verify_reproducibility: the directory belongs to the build that wrote   *)
(* run-identity.txt; any other run exits.                                  *)
(***************************************************************************)
AnyBuild == TRUE

SameBuild == identity = build

CheckIdentity ==
  /\ pc = "identity"
  /\ \/ /\ identity = "none"
        /\ identity' = build /\ pc' = "niah_load"
        /\ UNCHANGED refused
     \/ /\ identity # "none" /\ SameBuild
        /\ pc' = "niah_load"
        /\ UNCHANGED <<identity, refused>>
     \/ /\ identity # "none" /\ ~SameBuild
        /\ pc' = "off" /\ refused' = {"identity"}
        /\ UNCHANGED identity
  /\ UNCHANGED <<runs, build, conc, niah, log, tail, decision, memory>>
-----------------------------------------------------------------------------
(***************************************************************************)
(* niah_eval.py --resume.                                                  *)
(***************************************************************************)
LoadNiah ==
  LET readable == niah["file"] # Garbled
  IN  /\ pc = "niah_load"
      /\ pc' = IF readable THEN "niah" ELSE "gsm_load"
      /\ results' = niah["file"].cases
      /\ refused' = IF readable THEN refused ELSE refused \cup {"niah"}
      /\ UNCHANGED <<runs, build, conc, directory, done, batch, passed>>

(* run_case: a verdict, or a failed request, which ends niah_eval.py. *)
NiahCase ==
  /\ pc = "niah" /\ Len(results) < Cases
  /\ \/ /\ pc' = "niah_write"
        /\ \E ok \in BOOLEAN :
             results' = Append(results, [ok |-> ok, build |-> build])
     \/ pc' = "gsm_load" /\ UNCHANGED results
  /\ UNCHANGED <<runs, build, conc, directory, done, batch, passed, refused>>

(* write_checkpoint: a temporary file, then the rename. *)
InPlace == "file"                  \* without the temporary file

WrittenFile == "temporary"

WriteCheckpoint ==
  /\ Goto("niah_write", "niah_replace")
  /\ niah' = [niah EXCEPT ![WrittenFile] = CasesIn(results)]
  /\ UNCHANGED <<runs, build, conc, identity, log, tail, decision, memory,
                 refused>>

ReplaceCheckpoint ==
  /\ Goto("niah_replace", "niah")
  /\ niah' = [niah EXCEPT !["file"] = niah[WrittenFile],
                          !["temporary"] = NoFile]
  /\ UNCHANGED <<runs, build, conc, identity, log, tail, decision, memory,
                 refused>>

(* The last write_checkpoint rewrites what the file holds. *)
NiahVerdict ==
  /\ Goto("niah", "gsm_load") /\ Len(results) = Cases
  /\ passed' = IF Cardinality(Correct(results)) = Cases THEN {"niah"} ELSE {}
  /\ UNCHANGED <<runs, build, conc, directory, results, done, batch, refused>>
-----------------------------------------------------------------------------
(***************************************************************************)
(* gsm8k_eval.py.                                                          *)
(***************************************************************************)
(* load_resume: every line must parse, name an item and be the first to. *)
Resumable ==
  /\ tail # "torn"
  /\ Indices(log) \subseteq 1..Items
  /\ Cardinality(Indices(log)) = Len(log)

LoadLog ==
  /\ pc = "gsm_load"
  /\ \/ /\ Resumable
        /\ pc' = "gsm" /\ done' = log /\ UNCHANGED refused
     \/ /\ ~Resumable
        /\ pc' = "decide" /\ refused' = refused \cup {"gsm"} /\ UNCHANGED done
  /\ UNCHANGED <<runs, build, conc, directory, results, batch, passed>>

(* The items the next batch asks for: the first conc that are pending. *)
RestartItems ==                    \* the pending items start one early
  {i \in 1..Items : Len(done) <= i /\ i < Len(done) + conc}

NextItems ==
  LET pending == (1..Items) \ Indices(done)
  IN  {i \in pending : Cardinality({j \in pending : j < i}) < conc}

(* The records of a batch, in the order they are appended. *)
AnyOrder(I) == {s \in [1..Cardinality(I) -> I] :
                  \A j, k \in DOMAIN s : s[j] = s[k] => j = k}

ByIndex(I) == {s \in [1..Cardinality(I) -> I] :
                 \A j, k \in DOMAIN s : j < k => s[j] < s[k]}

(* The batch is answered as a whole, or a failed request ends the program. *)
AskBatch ==
  /\ pc = "gsm" /\ NextItems # {}
  /\ \/ /\ pc' = "append"
        /\ \E s \in ByIndex(NextItems), ok \in [NextItems -> BOOLEAN] :
             batch' = [k \in DOMAIN s |-> [index |-> s[k], ok |-> ok[s[k]],
                                           build |-> build]]
     \/ pc' = "decide" /\ UNCHANGED batch
  /\ UNCHANGED <<runs, build, conc, directory, results, done, passed, refused>>

(* One record, written and flushed.  Behind a line without a newline it    *)
(* makes that line unreadable.                                             *)
AppendRecord ==
  /\ pc = "append"
  /\ log' = Append(log, Head(batch))
  /\ done' = Append(done, Head(batch))
  /\ tail' = IF tail = "clean" THEN "clean" ELSE "torn"
  /\ batch' = Tail(batch)
  /\ pc' = IF batch' = << >> THEN "gsm" ELSE "append"
  /\ UNCHANGED <<runs, build, conc, identity, niah, decision, results, passed,
                 refused>>

GsmVerdict ==
  /\ Goto("gsm", "decide") /\ NextItems = {}
  /\ passed' = IF Cardinality(Correct(done)) >= Threshold
               THEN passed \cup {"gsm"} ELSE passed
  /\ UNCHANGED <<runs, build, conc, directory, results, done, batch, refused>>

(* q2_passed of quality-decision.json. *)
OneGate == passed # {}

BothGates == passed = {"niah", "gsm"}

Decide ==
  /\ Goto("decide", "off")
  /\ decision' = BothGates
  /\ UNCHANGED <<runs, build, conc, identity, niah, log, tail, memory, refused>>
-----------------------------------------------------------------------------
(***************************************************************************)
(* A kill or a host crash, which may cut short the write it meets, and an  *)
(* exit under set -e (a lossless gate, a server that never boots), which   *)
(* does not.                                                               *)
(***************************************************************************)
Crash ==
  /\ pc # "off" /\ pc' = "off"
  /\ \/ UNCHANGED directory
     \/ /\ pc = "identity" /\ identity = "none" /\ identity' = Cut
        /\ UNCHANGED <<niah, log, tail, decision>>
     \/ /\ pc = "niah_write" /\ niah' = [niah EXCEPT ![WrittenFile] = Garbled]
        /\ UNCHANGED <<identity, log, tail, decision>>
     \/ /\ pc = "append" /\ tail' = "torn"
        /\ UNCHANGED <<identity, niah, log, decision>>
     \/ /\ pc = "append" /\ log' = Append(log, Head(batch))
        /\ tail' = IF tail = "clean" THEN "open" ELSE "torn"
        /\ UNCHANGED <<identity, niah, decision>>
     \/ /\ pc = "decide" /\ decision' = FALSE
        /\ UNCHANGED <<identity, niah, log, tail>>
  /\ UNCHANGED <<runs, build, conc, memory, refused>>

Next ==
  \/ \E b \in Builds, c \in Concurrency : Start(b, c)
  \/ CheckIdentity
  \/ LoadNiah \/ NiahCase \/ WriteCheckpoint \/ ReplaceCheckpoint \/ NiahVerdict
  \/ LoadLog \/ AskBatch \/ AppendRecord \/ GsmVerdict \/ Decide
  \/ Crash

Spec == Init /\ [][Next]_vars
-----------------------------------------------------------------------------
(***************************************************************************)
(* After any number of kills and resumes, with any concurrency each time,  *)
(* the log holds the first items of the dataset, in order and once each.   *)
(***************************************************************************)
LogIsPrefix == \A k \in DOMAIN log : log[k].index = k

(***************************************************************************)
(* An item whose answer is recorded is never asked again.                  *)
(***************************************************************************)
NeverAskedAgain ==
  [][pc' = "append" /\ pc # "append" => Indices(batch') \cap Indices(log) = {}]_vars

(***************************************************************************)
(* The gates pass only on what is in the directory, whichever runs put it  *)
(* there: every case of the checkpoint recovered, every item written to    *)
(* the log, enough of them correct.                                        *)
(***************************************************************************)
PassJustified ==
  decision =>
    /\ Cardinality(Correct(niah["file"].cases)) = Cases
    /\ Len(log) = Items
    /\ Cardinality(Correct(log)) >= Threshold

(***************************************************************************)
(* The results in a directory come from one build.                         *)
(***************************************************************************)
OneBuild ==
  LET cases == niah["file"].cases
  IN  \A r, q \in {cases[k].build : k \in DOMAIN cases}
                    \cup {log[k].build : k \in DOMAIN log} : r = q

(***************************************************************************)
(* NIAH always resumes: a checkpoint that was cut short is never read.     *)
(***************************************************************************)
CheckpointReadable == "niah" \notin refused

(***************************************************************************)
(* What docs/QUALITY-GATES-Q2-Q3.md says of GSM8K: "Responses are          *)
(* append-only and identity-checked so a long run can resume".             *)
(***************************************************************************)
LogResumes == "gsm" \notin refused
=============================================================================
