------------------------- MODULE QualityGatesProofs -------------------------
(***************************************************************************)
(* The quality gates, for any number of cases and items, any concurrency,  *)
(* any builds and any number of runs and kills: the properties of          *)
(* QualityGates as theorems checked by TLAPS.                              *)
(***************************************************************************)
EXTENDS QualityGates, WellFoundedInduction, SequenceTheorems, FiniteSetTheorems,
        TLAPS

USE GatesAssumption
-----------------------------------------------------------------------------
(***************************************************************************)
(* The inductive invariant.                                                *)
(***************************************************************************)
Result == [ok : BOOLEAN, build : Builds]
Record == [index : 1..Items, ok : BOOLEAN, build : Builds]
NiahFile == [kind : {"none", "garbled", "cases"}, cases : Seq(Result)]

Types ==
  /\ build \in Builds /\ conc \in Nat \ {0}
  /\ identity \in Builds \cup {"none", Cut}
  /\ niah \in [{"file", "temporary"} -> NiahFile]
  /\ log \in Seq(Record) /\ done \in Seq(Record) /\ batch \in Seq(Record)
  /\ results \in Seq(Result)
  /\ decision \in BOOLEAN

FromBuild(s, b) == \A k \in 1..Len(s) : s[k].build = b

(* A run past its identity check owns the directory, and what it holds is  *)
(* of the build the identity names: nothing at all when there is none.     *)
OwnDirectory ==
  /\ pc \notin {"off", "identity"} => identity = build
  /\ FromBuild(niah["file"].cases, identity) /\ FromBuild(log, identity)
  /\ pc \in {"niah", "niah_write", "niah_replace"} => FromBuild(results, build)
  /\ pc = "append" => FromBuild(batch, build)

(* The checkpoint is whole, and at most one case behind the results.       *)
CheckpointBehind ==
  /\ niah["file"].kind # "garbled" /\ "niah" \notin refused
  /\ Len(niah["file"].cases) <= Cases
  /\ pc = "niah" => results = niah["file"].cases
  /\ pc \in {"niah_write", "niah_replace"} =>
       Len(niah["file"].cases) < Len(results) /\ Len(results) <= Cases
  /\ pc = "niah_replace" => niah["temporary"] = CasesIn(results)

(* The log is a prefix of the dataset, the records in memory are those of  *)
(* the log, and the batch continues both.                                  *)
LogAndBatch ==
  /\ LogIsPrefix /\ Len(log) <= Items
  /\ pc \in {"gsm", "append"} => done = log
  /\ pc = "append" =>
       /\ batch # << >> /\ Len(log) + Len(batch) <= Items
       /\ \A k \in DOMAIN batch : batch[k].index = Len(log) + k

(* A gate that has passed cannot be undone: its file is full.              *)
NiahFull == Cardinality(Correct(niah["file"].cases)) = Cases
GsmFull == Len(log) = Items /\ Cardinality(Correct(log)) >= Threshold

Passed ==
  /\ "niah" \in passed => NiahFull
  /\ "gsm" \in passed => GsmFull
  /\ decision => NiahFull /\ GsmFull

IInv == Types /\ OwnDirectory /\ CheckpointBehind /\ LogAndBatch /\ Passed
-----------------------------------------------------------------------------
(***************************************************************************)
(* Counting.                                                               *)
(***************************************************************************)
LEMMA IntervalCount ==
  ASSUME NEW a \in Int, NEW b \in Int, a <= b + 1
  PROVE  IsFiniteSet(a..b) /\ Cardinality(a..b) = b - a + 1
<1>1. IsFiniteSet(a..b) /\ Cardinality(a..b) = IF a > b THEN 0 ELSE b - a + 1
  BY FS_Interval
<1> QED
  BY <1>1

LEMMA CorrectCount ==
  ASSUME NEW S, NEW s \in Seq(S)
  PROVE  /\ Cardinality(Correct(s)) \in Nat
         /\ Cardinality(Correct(s)) <= Len(s)
<1>1. Correct(s) \in SUBSET (1..Len(s)) /\ Len(s) \in Nat
  BY DEF Correct
<1>2. IsFiniteSet(1..Len(s)) /\ Cardinality(1..Len(s)) = Len(s) - 1 + 1
  BY <1>1, IntervalCount, 1 <= Len(s) + 1
<1>3. /\ IsFiniteSet(Correct(s))
      /\ Cardinality(Correct(s)) <= Cardinality(1..Len(s))
  BY <1>1, <1>2, FS_Subset
<1> QED
  BY <1>1, <1>2, <1>3, FS_CardinalityType

(* Records in the order of the dataset name its first items.               *)
LEMMA PrefixIndices ==
  ASSUME NEW s \in Seq(Record), \A k \in DOMAIN s : s[k].index = k
  PROVE  Indices(s) = 1..Len(s)
BY DEF Indices

(* The next batch is the run of items that follows the recorded ones.      *)
LEMMA NextItemsFollow ==
  ASSUME Types, Indices(done) = 1..Len(done), Len(done) <= Items,
         NextItems # {}
  PROVE  \E m \in 1..(Items - Len(done)) :
           NextItems = (Len(done) + 1)..(Len(done) + m)
<1> DEFINE n == Len(done)
           m == IF conc <= Items - n THEN conc ELSE Items - n
           pending == (1..Items) \ Indices(done)
<1>1. n \in Nat /\ conc \in Nat \ {0} /\ Items \in Nat
  BY DEF Types
<1>2. pending = (n + 1)..Items
  BY <1>1
<1>3. NextItems = {i \in pending : Cardinality({j \in pending : j < i}) < conc}
  BY DEF NextItems
<1> HIDE DEF n, pending
<1>4. ASSUME NEW i \in pending
      PROVE  Cardinality({j \in pending : j < i}) = i - 1 - n
  <2> DEFINE below == {j \in pending : j < i}
  <2>1. below = (n + 1)..(i - 1)
    BY <1>1, <1>2
  <2>2. i \in Int /\ n + 1 <= i
    BY <1>1, <1>2
  <2>3. Cardinality((n + 1)..(i - 1)) = (i - 1) - (n + 1) + 1
    BY <1>1, <2>2, IntervalCount, n + 1 \in Int, i - 1 \in Int, n + 1 <= (i - 1) + 1
  <2>4. (i - 1) - (n + 1) + 1 = i - 1 - n
    BY <1>1, <2>2
  <2> HIDE DEF below
  <2>5. Cardinality(below) = i - 1 - n
    BY <2>1, <2>3, <2>4
  <2> QED
    BY <2>5 DEF below
<1>5. NextItems = {i \in (n + 1)..Items : i - 1 - n < conc}
  BY <1>2, <1>3, <1>4
<1>6. NextItems = (n + 1)..(n + m)
  BY <1>1, <1>5
<1>7. PICK i \in (n + 1)..Items : TRUE
  BY <1>5
<1>8. m \in 1..(Items - n)
  BY <1>1, <1>7
<1> QED
  BY <1>6, <1>8 DEF n

(* A nonempty set of naturals has a least element.                         *)
LEMMA Least ==
  ASSUME NEW T \in SUBSET Nat, T # {}
  PROVE  \E x \in T : \A y \in T : x <= y
<1> DEFINE R == OpToRel(<, Nat)
<1>1. IsWellFoundedOn(R, Nat)
  BY NatLessThanWellFounded
<1>2. \A x, y \in Nat : <<y, x>> \in R <=> y < x
  BY DEF OpToRel
<1> HIDE DEF R
<1>3. PICK x \in T : \A y \in T : ~(<<y, x>> \in R)
  BY <1>1, WFMin
<1>4. ASSUME NEW y \in T PROVE x <= y
  <2>1. ~(<<y, x>> \in R) /\ (<<y, x>> \in R <=> y < x)
    BY <1>2, <1>3
  <2>2. x \in Nat /\ y \in Nat
    OBVIOUS
  <2> QED BY <2>1, <2>2
<1> QED BY <1>4

(* A strictly increasing enumeration of an interval lists it in order.     *)
LEMMA InOrder ==
  ASSUME NEW n \in Nat, NEW m \in Nat, NEW s \in [1..m -> (n + 1)..(n + m)],
         \A j, k \in 1..m : j < k => s[j] < s[k]
  PROVE  \A j \in 1..m : s[j] = n + j
<1>1. \A j \in 1..m : s[j] \in Nat
  OBVIOUS
<1>2. \A j \in 1..m : s[j] >= n + j
  <2> DEFINE T == {j \in 1..m : s[j] < n + j}
  <2> SUFFICES ASSUME T # {} PROVE FALSE
    BY <1>1
  <2>1. PICK x \in T : \A y \in T : x <= y
    BY Least, T \in SUBSET Nat
  <2>2. x > 1
    BY <1>1, <2>1
  <2>3. x - 1 \in 1..m /\ x - 1 \notin T
    BY <2>1, <2>2
  <2> QED
    BY <1>1, <2>1, <2>3
<1>3. \A j \in 1..m : s[j] <= n + j
  <2> DEFINE T == {d \in 0..(m - 1) : s[m - d] > n + m - d}
  <2> SUFFICES ASSUME NEW j \in 1..m, s[j] > n + j PROVE FALSE
    BY <1>1
  <2>1. m - j \in T
    <3>1. m - (m - j) = j /\ m - j \in 0..(m - 1)
      OBVIOUS
    <3> QED
      BY <3>1, <1>1
  <2>2. PICK x \in T : \A y \in T : x <= y
    BY <2>1, Least, T \in SUBSET Nat
  <2>3. x > 0
    <3>1. s[m] \in (n + 1)..(n + m)
      OBVIOUS
    <3> QED
      BY <2>2, <3>1
  <2>4. x - 1 \in 0..(m - 1) /\ x - 1 \notin T
    <3>1. x \in 0..(m - 1)
      OBVIOUS
    <3>2. x - 1 \in T => x <= x - 1
      <4> HIDE DEF T
      <4> QED
        BY <2>2
    <3> QED
      BY <2>3, <3>1, <3>2
  <2>5. m - x \in 1..m /\ m - (x - 1) \in 1..m /\ m - x < m - (x - 1)
    BY <2>2, <2>3
  <2>6. s[m - (x - 1)] <= n + m - (x - 1)
    BY <1>1, <2>4, <2>5
  <2>7. s[m - x] < s[m - (x - 1)]
    BY <2>5
  <2> QED
    BY <1>1, <2>2, <2>5, <2>6, <2>7
<1> QED
  BY <1>1, <1>2, <1>3
-----------------------------------------------------------------------------
(***************************************************************************)
(* The inductive step, one lemma per action that changes a file or the     *)
(* records in memory.                                                      *)
(***************************************************************************)
USE DEF vars, directory, memory, Goto

(* Records of no build are no records.                                     *)
LEMMA NoBuildNothing ==
  /\ \A s \in Seq(Result) : FromBuild(s, "none") => s = << >>
  /\ \A s \in Seq(Record) : FromBuild(s, "none") => s = << >>
<1>1. ASSUME NEW s \in Seq(Result), FromBuild(s, "none"), s # << >>
      PROVE  FALSE
  <2>1. 1 \in 1..Len(s) /\ s[1] \in Result
    BY <1>1
  <2> QED
    BY <1>1, <2>1 DEF FromBuild, Result
<1>2. ASSUME NEW s \in Seq(Record), FromBuild(s, "none"), s # << >>
      PROVE  FALSE
  <2>1. 1 \in 1..Len(s) /\ s[1] \in Record
    BY <1>2
  <2> QED
    BY <1>2, <2>1 DEF FromBuild, Record
<1> QED
  BY <1>1, <1>2

LEMMA FromBuildAppend ==
  ASSUME NEW S, NEW s \in Seq(S), NEW r \in S, NEW b, FromBuild(s, b),
         r.build = b
  PROVE  FromBuild(Append(s, r), b)
BY DEF FromBuild

LEMMA InitIInv == Init => IInv
<1> SUFFICES ASSUME Init PROVE IInv
  OBVIOUS
<1>1. /\ niah["file"] = NoFile /\ niah["file"].cases = << >>
      /\ niah["file"].kind = "none"
  BY DEF Init, NoFile
<1>2. Types
  <2>1. NoFile \in NiahFile
    BY DEF NoFile, NiahFile
  <2>2. niah \in [{"file", "temporary"} -> NiahFile]
    BY <2>1 DEF Init
  <2>3. << >> \in Seq(Record) /\ << >> \in Seq(Result)
    OBVIOUS
  <2> QED
    BY <2>2, <2>3 DEF Init, Types
<1>3. OwnDirectory
  <2>1. FromBuild(<< >>, identity)
    BY DEF FromBuild
  <2> QED
    BY <1>1, <2>1 DEF Init, OwnDirectory
<1>4. CheckpointBehind
  BY <1>1 DEF Init, CheckpointBehind
<1>5. LogAndBatch
  BY DEF Init, LogAndBatch, LogIsPrefix
<1>6. Passed
  BY DEF Init, Passed
<1> QED
  BY <1>2, <1>3, <1>4, <1>5, <1>6 DEF IInv

LEMMA StutterIInv == ASSUME IInv, UNCHANGED vars PROVE IInv'
BY DEF IInv, Types, OwnDirectory, CheckpointBehind, LogAndBatch, LogIsPrefix,
       Passed, NiahFull, GsmFull, Correct

LEMMA StartIInv ==
  ASSUME IInv, NEW b \in Builds, NEW c \in Concurrency, Start(b, c)
  PROVE  IInv'
BY DEF Start, IInv, Types, OwnDirectory, CheckpointBehind, LogAndBatch,
       LogIsPrefix, Passed, NiahFull, GsmFull, Correct

(* A directory without an identity holds nothing of any build.             *)
LEMMA CheckIdentityIInv == ASSUME IInv, CheckIdentity PROVE IInv'
<1>1. CASE identity' = identity
  BY <1>1 DEF CheckIdentity, IInv, Types, OwnDirectory, CheckpointBehind,
     LogAndBatch, LogIsPrefix, Passed, NiahFull, GsmFull, Correct, SameBuild
<1>2. CASE identity = "none" /\ identity' = build /\ pc' = "niah_load"
  <2>1. niah["file"].cases = << >> /\ log = << >>
    BY <1>2, NoBuildNothing DEF IInv, Types, OwnDirectory, NiahFile
  <2>2. Types'
    BY <1>2 DEF CheckIdentity, IInv, Types
  <2>3. OwnDirectory'
    <3>1. niah' = niah /\ log' = log /\ build' = build
      BY DEF CheckIdentity
    <3>2. FromBuild(<< >>, identity')
      BY DEF FromBuild
    <3> QED
      BY <1>2, <2>1, <3>1, <3>2 DEF OwnDirectory
  <2>4. CheckpointBehind' /\ LogAndBatch' /\ Passed'
    BY <1>2 DEF CheckIdentity, IInv, CheckpointBehind, LogAndBatch,
       LogIsPrefix, Passed, NiahFull, GsmFull, Correct
  <2> QED
    BY <2>2, <2>3, <2>4 DEF IInv
<1> QED
  BY <1>1, <1>2 DEF CheckIdentity

LEMMA LoadNiahIInv == ASSUME IInv, LoadNiah PROVE IInv'
<1>1. niah["file"].cases \in Seq(Result)
  BY DEF IInv, Types, NiahFile
<1>2. niah["file"] # Garbled
  BY DEF IInv, CheckpointBehind, Garbled
<1> QED
  BY <1>1, <1>2 DEF LoadNiah, IInv, Types, OwnDirectory, CheckpointBehind,
     LogAndBatch, LogIsPrefix, Passed, NiahFull, GsmFull, Correct

LEMMA NiahCaseIInv == ASSUME IInv, NiahCase PROVE IInv'
<1>1. CASE UNCHANGED results /\ pc' = "gsm_load"
  BY <1>1 DEF NiahCase, IInv, Types, OwnDirectory, CheckpointBehind,
     LogAndBatch, LogIsPrefix, Passed, NiahFull, GsmFull, Correct
<1>2. ASSUME NEW ok \in BOOLEAN, pc' = "niah_write",
             results' = Append(results, [ok |-> ok, build |-> build])
      PROVE  IInv'
  <2> DEFINE r == [ok |-> ok, build |-> build]
  <2>1. r \in Result /\ r.build = build /\ results \in Seq(Result)
    BY DEF IInv, Types, Result
  <2>2. /\ results' \in Seq(Result) /\ Len(results') = Len(results) + 1
        /\ FromBuild(results', build)
    BY <1>2, <2>1, FromBuildAppend DEF NiahCase, IInv, OwnDirectory
  <2>3. results = niah["file"].cases /\ Len(results) < Cases
    BY DEF NiahCase, IInv, CheckpointBehind
  <2>4. Types' /\ OwnDirectory'
    BY <1>2, <2>2 DEF NiahCase, IInv, Types, OwnDirectory
  <2>5. CheckpointBehind'
    BY <1>2, <2>1, <2>2, <2>3 DEF NiahCase, IInv, CheckpointBehind
  <2>6. LogAndBatch' /\ Passed'
    BY <1>2 DEF NiahCase, IInv, LogAndBatch, LogIsPrefix, Passed, NiahFull,
       GsmFull, Correct
  <2> QED
    BY <2>4, <2>5, <2>6 DEF IInv
<1> QED
  BY <1>1, <1>2 DEF NiahCase

LEMMA WriteCheckpointIInv == ASSUME IInv, WriteCheckpoint PROVE IInv'
<1>1. CasesIn(results) \in NiahFile
  BY DEF IInv, Types, NiahFile, CasesIn
<1>2. /\ niah' \in [{"file", "temporary"} -> NiahFile]
      /\ niah'["file"] = niah["file"]
      /\ niah'["temporary"] = CasesIn(results)
  BY <1>1 DEF WriteCheckpoint, WrittenFile, IInv, Types
<1>3. Types' /\ OwnDirectory'
  BY <1>2 DEF WriteCheckpoint, IInv, Types, OwnDirectory
<1>4. CheckpointBehind'
  BY <1>2 DEF WriteCheckpoint, IInv, CheckpointBehind
<1>5. LogAndBatch' /\ Passed'
  BY <1>2 DEF WriteCheckpoint, IInv, LogAndBatch, LogIsPrefix, Passed,
     NiahFull, GsmFull, Correct
<1> QED
  BY <1>3, <1>4, <1>5 DEF IInv

(* A full checkpoint is never rewritten: a case more would be one too many.*)
LEMMA FullIsLast ==
  ASSUME IInv, NiahFull
  PROVE  ~(Len(niah["file"].cases) < Len(results) /\ Len(results) <= Cases)
<1>1. niah["file"].cases \in Seq(Result) /\ results \in Seq(Result)
  BY DEF IInv, Types, NiahFile
<1>2. Cases <= Len(niah["file"].cases)
  BY <1>1, CorrectCount DEF NiahFull
<1> QED
  BY <1>1, <1>2

LEMMA ReplaceCheckpointIInv == ASSUME IInv, ReplaceCheckpoint PROVE IInv'
<1>1. NoFile \in NiahFile
  BY DEF NoFile, NiahFile
<1>2. /\ niah["temporary"] = CasesIn(results)
      /\ Len(niah["file"].cases) < Len(results) /\ Len(results) <= Cases
  BY DEF ReplaceCheckpoint, IInv, CheckpointBehind
<1>3. niah' \in [{"file", "temporary"} -> NiahFile]
  BY <1>1 DEF ReplaceCheckpoint, WrittenFile, IInv, Types
<1>4. /\ niah'["file"] = CasesIn(results)
      /\ niah'["file"].cases = results /\ niah'["file"].kind = "cases"
  BY <1>2 DEF ReplaceCheckpoint, WrittenFile, IInv, Types, CasesIn
<1>5. Types'
  BY <1>3 DEF ReplaceCheckpoint, IInv, Types
<1>6. OwnDirectory'
  BY <1>4 DEF ReplaceCheckpoint, IInv, OwnDirectory
<1>7. CheckpointBehind'
  BY <1>2, <1>4 DEF ReplaceCheckpoint, IInv, CheckpointBehind
<1>8. LogAndBatch'
  BY DEF ReplaceCheckpoint, IInv, LogAndBatch, LogIsPrefix
<1>9. Passed'
  <2>1. ~NiahFull
    BY <1>2, FullIsLast
  <2> QED
    BY <2>1 DEF ReplaceCheckpoint, IInv, Passed, GsmFull, Correct
<1> QED
  BY <1>5, <1>6, <1>7, <1>8, <1>9 DEF IInv

LEMMA NiahVerdictIInv == ASSUME IInv, NiahVerdict PROVE IInv'
<1>1. results = niah["file"].cases
  BY DEF NiahVerdict, IInv, CheckpointBehind
<1>2. Types' /\ OwnDirectory' /\ CheckpointBehind' /\ LogAndBatch'
  BY DEF NiahVerdict, IInv, Types, OwnDirectory, CheckpointBehind, LogAndBatch,
     LogIsPrefix
<1>3. Passed'
  BY <1>1 DEF NiahVerdict, IInv, Passed, NiahFull, GsmFull, Correct
<1> QED
  BY <1>2, <1>3 DEF IInv

LEMMA LoadLogIInv == ASSUME IInv, LoadLog PROVE IInv'
<1>1. Types' /\ OwnDirectory'
  BY DEF LoadLog, IInv, Types, OwnDirectory
<1>2. CheckpointBehind' /\ LogAndBatch'
  BY DEF LoadLog, IInv, CheckpointBehind, LogAndBatch, LogIsPrefix
<1>3. Passed'
  BY DEF LoadLog, IInv, Passed, NiahFull, GsmFull, Correct
<1> QED
  BY <1>1, <1>2, <1>3 DEF IInv

(* What a batch that is asked holds.                                       *)
LEMMA BatchFollows ==
  ASSUME IInv, pc = "gsm", NextItems # {}, NEW s \in ByIndex(NextItems)
  PROVE  /\ \E m \in 1..(Items - Len(log)) : s \in [1..m -> NextItems]
         /\ \A k \in DOMAIN s : s[k] = Len(log) + k
         /\ NextItems \subseteq (Len(log) + 1)..Items
<1>1. done = log /\ log \in Seq(Record) /\ Len(log) <= Items /\ Items \in Nat
  BY DEF IInv, Types, LogAndBatch
<1>2. Indices(done) = 1..Len(done)
  BY <1>1, PrefixIndices DEF IInv, LogAndBatch, LogIsPrefix
<1>3. PICK m \in 1..(Items - Len(log)) :
        NextItems = (Len(log) + 1)..(Len(log) + m)
  BY <1>1, <1>2, NextItemsFollow DEF IInv
<1> DEFINE n == Len(log)
<1>4. n \in Nat /\ m \in Nat /\ n + m <= Items
  BY <1>1, <1>3
<1>5. Cardinality(NextItems) = m
  <2>1. Cardinality((n + 1)..(n + m)) = (n + m) - (n + 1) + 1
    BY <1>4, IntervalCount, n + 1 \in Int, n + m \in Int,
       n + 1 <= (n + m) + 1
  <2> QED
    BY <1>3, <1>4, <2>1
<1>6. /\ s \in [1..m -> (n + 1)..(n + m)]
      /\ \A j, k \in 1..m : j < k => s[j] < s[k]
  BY <1>3, <1>5 DEF ByIndex
<1>7. \A k \in 1..m : s[k] = n + k
  BY <1>4, <1>6, InOrder
<1>8. s \in [1..m -> NextItems] /\ DOMAIN s = 1..m
  BY <1>3, <1>6
<1>9. NextItems \subseteq (n + 1)..Items
  BY <1>3, <1>4
<1> QED
  BY <1>3, <1>7, <1>8, <1>9

LEMMA AskBatchIInv == ASSUME IInv, AskBatch PROVE IInv'
<1>1. CASE UNCHANGED batch /\ pc' = "decide"
  <2>1. Types' /\ OwnDirectory'
    BY <1>1 DEF AskBatch, IInv, Types, OwnDirectory
  <2>2. CheckpointBehind' /\ LogAndBatch' /\ Passed'
    BY <1>1 DEF AskBatch, IInv, CheckpointBehind, LogAndBatch, LogIsPrefix,
       Passed, NiahFull, GsmFull, Correct
  <2> QED
    BY <2>1, <2>2 DEF IInv
<1>2. ASSUME NEW s \in ByIndex(NextItems), NEW ok \in [NextItems -> BOOLEAN],
             pc' = "append",
             batch' = [k \in DOMAIN s |-> [index |-> s[k], ok |-> ok[s[k]],
                                           build |-> build]]
      PROVE  IInv'
  <2>1. PICK m \in 1..(Items - Len(log)) : s \in [1..m -> NextItems]
    BY <1>2, BatchFollows DEF AskBatch
  <2>2. /\ \A k \in 1..m : s[k] = Len(log) + k
        /\ NextItems \subseteq (Len(log) + 1)..Items
    BY <1>2, <2>1, BatchFollows DEF AskBatch
  <2>3. log \in Seq(Record) /\ Len(log) \in Nat /\ build \in Builds
    BY DEF IInv, Types
  <2>4. m \in Nat \ {0} /\ Len(log) + m <= Items
    BY <2>1, <2>3
  <2>5. ASSUME NEW k \in 1..m
        PROVE  /\ batch'[k] \in Record
               /\ batch'[k].index = Len(log) + k
               /\ batch'[k].build = build
    <3>1. batch'[k] = [index |-> s[k], ok |-> ok[s[k]], build |-> build]
      BY <1>2, <2>1
    <3>2. s[k] \in 1..Items /\ ok[s[k]] \in BOOLEAN
      BY <2>1, <2>2, <2>3
    <3> QED
      BY <2>2, <2>3, <3>1, <3>2 DEF Record
  <2>6. batch' \in Seq(Record) /\ Len(batch') = m /\ DOMAIN batch' = 1..m
    <3>1. batch' \in [1..m -> Record]
      BY <1>2, <2>1, <2>5
    <3> QED
      BY <2>4, <3>1
  <2>7. FromBuild(batch', build)
    BY <2>5, <2>6 DEF FromBuild
  <2>8. Types'
    BY <2>6 DEF AskBatch, IInv, Types
  <2>9. OwnDirectory'
    BY <1>2, <2>7 DEF AskBatch, IInv, OwnDirectory
  <2>10. LogAndBatch'
    <3>1. batch' # << >>
      BY <2>4, <2>6
    <3> QED
      BY <1>2, <2>4, <2>5, <2>6, <3>1 DEF AskBatch, IInv, LogAndBatch, LogIsPrefix
  <2>11. CheckpointBehind' /\ Passed'
    BY <1>2 DEF AskBatch, IInv, CheckpointBehind, Passed, NiahFull, GsmFull,
       Correct
  <2> QED
    BY <2>8, <2>9, <2>10, <2>11 DEF IInv
<1> QED
  BY <1>1, <1>2 DEF AskBatch

(* One record of the batch moves to the log, which was not full.           *)
LEMMA RecordMoves ==
  ASSUME IInv, pc = "append"
  PROVE  LET longer == Append(log, Head(batch))
         IN  /\ longer \in Seq(Record) /\ Len(longer) = Len(log) + 1
             /\ Len(log) < Items
             /\ \A k \in DOMAIN longer : longer[k].index = k
             /\ FromBuild(longer, identity)
             /\ ~GsmFull
<1> DEFINE r == Head(batch)
<1>1. /\ log \in Seq(Record) /\ batch \in Seq(Record) /\ batch # << >>
      /\ Len(log) + Len(batch) <= Items
      /\ \A k \in DOMAIN batch : batch[k].index = Len(log) + k
      /\ \A k \in DOMAIN log : log[k].index = k
      /\ FromBuild(log, identity) /\ FromBuild(batch, build)
      /\ identity = build
  BY DEF IInv, Types, LogAndBatch, LogIsPrefix, OwnDirectory
<1>2. 1 \in DOMAIN batch /\ r = batch[1] /\ r \in Record
  BY <1>1
<1>3. r.index = Len(log) + 1 /\ r.build = identity
  BY <1>1, <1>2 DEF FromBuild
<1>4. Len(log) < Items /\ Len(log) \in Nat
  BY <1>1, <1>2
<1>5. FromBuild(Append(log, r), identity)
  BY <1>1, <1>2, <1>3, FromBuildAppend
<1>6. /\ Append(log, r) \in Seq(Record)
      /\ Len(Append(log, r)) = Len(log) + 1
      /\ \A k \in 1..Len(log) : Append(log, r)[k] = log[k]
      /\ Append(log, r)[Len(log) + 1] = r
  BY <1>1, <1>2, AppendProperties
<1>7. \A k \in DOMAIN Append(log, r) : Append(log, r)[k].index = k
  BY <1>1, <1>3, <1>4, <1>6
<1>8. ~GsmFull
  BY <1>4 DEF GsmFull
<1> QED
  BY <1>4, <1>5, <1>6, <1>7, <1>8

LEMMA AppendRecordIInv == ASSUME IInv, AppendRecord PROVE IInv'
<1>1. pc = "append" /\ log' = Append(log, Head(batch)) /\ batch' = Tail(batch)
  BY DEF AppendRecord
<1>2. /\ log' \in Seq(Record) /\ Len(log') = Len(log) + 1 /\ Len(log') <= Items
      /\ \A k \in DOMAIN log' : log'[k].index = k
      /\ FromBuild(log', identity)
      /\ ~GsmFull
  BY <1>1, RecordMoves DEF IInv, Types
<1>3. done' = log' /\ identity' = identity /\ build' = build /\ niah' = niah
  BY <1>1 DEF AppendRecord, IInv, LogAndBatch
<1>4. /\ batch \in Seq(Record) /\ batch # << >>
      /\ log \in Seq(Record) /\ Len(log) + Len(batch) <= Items
      /\ \A k \in DOMAIN batch : batch[k].index = Len(log) + k
      /\ FromBuild(batch, build)
  BY <1>1 DEF IInv, Types, LogAndBatch, OwnDirectory
<1>5. /\ batch' \in Seq(Record) /\ Len(batch') = Len(batch) - 1
      /\ \A k \in 1..Len(batch') : batch'[k] = batch[k + 1]
  BY <1>1, <1>4, HeadTailProperties
<1>6. /\ FromBuild(batch', build)
      /\ \A k \in DOMAIN batch' : batch'[k].index = Len(log') + k
      /\ Len(log') + Len(batch') <= Items
  <2>1. /\ Len(batch) \in Nat \ {0} /\ Len(log) \in Nat
        /\ DOMAIN batch = 1..Len(batch) /\ DOMAIN batch' = 1..Len(batch')
    BY <1>4, <1>5
  <2>2. ASSUME NEW k \in 1..Len(batch')
        PROVE  batch'[k].build = build /\ batch'[k].index = Len(log) + (k + 1)
    <3>1. k + 1 \in 1..Len(batch) /\ batch'[k] = batch[k + 1]
      BY <1>5, <2>1
    <3> QED
      BY <1>4, <2>1, <3>1 DEF FromBuild
  <2>3. Len(log') + Len(batch') <= Items
    BY <1>2, <1>4, <1>5, <2>1
  <2>4. FromBuild(batch', build)
    BY <2>2 DEF FromBuild
  <2>5. ASSUME NEW k \in DOMAIN batch'
        PROVE  batch'[k].index = Len(log') + k
    <3>1. k \in Nat /\ batch'[k].index = Len(log) + (k + 1)
      BY <2>1, <2>2
    <3> QED
      BY <1>2, <2>1, <3>1
  <2> QED
    BY <2>3, <2>4, <2>5
<1>7. Types'
  BY <1>2, <1>3, <1>5 DEF AppendRecord, IInv, Types
<1>8. OwnDirectory'
  BY <1>1, <1>2, <1>3, <1>6 DEF AppendRecord, IInv, OwnDirectory
<1>9. CheckpointBehind'
  BY DEF AppendRecord, IInv, CheckpointBehind
<1>10. LogAndBatch'
  BY <1>2, <1>3, <1>6 DEF AppendRecord, LogAndBatch, LogIsPrefix
<1>11. Passed'
  BY <1>2 DEF AppendRecord, IInv, Passed, NiahFull, Correct
<1> QED
  BY <1>7, <1>8, <1>9, <1>10, <1>11 DEF IInv

LEMMA GsmVerdictIInv == ASSUME IInv, GsmVerdict PROVE IInv'
<1>1. /\ done = log /\ log \in Seq(Record) /\ Len(log) <= Items
      /\ Indices(done) = 1..Len(done) /\ conc \in Nat \ {0}
  BY PrefixIndices DEF GsmVerdict, IInv, Types, LogAndBatch, LogIsPrefix
<1>2. Len(log) = Items
  <2> SUFFICES ASSUME Len(log) < Items PROVE FALSE
    BY <1>1
  <2> DEFINE next == Len(log) + 1
             pending == (1..Items) \ Indices(done)
             below == {j \in pending : j < next}
  <2>1. next \in pending /\ below = {}
    BY <1>1
  <2>2. Cardinality(below) = 0
    BY <2>1, FS_EmptySet
  <2>3. NextItems = {i \in pending : Cardinality({j \in pending : j < i}) < conc}
    BY DEF NextItems
  <2>4. next \in NextItems
    <3> HIDE DEF next, pending
    <3> QED
      BY <1>1, <2>1, <2>2, <2>3
  <2> QED
    BY <2>4 DEF GsmVerdict
<1>3. Types' /\ OwnDirectory'
  BY DEF GsmVerdict, IInv, Types, OwnDirectory
<1>4. CheckpointBehind' /\ LogAndBatch'
  BY DEF GsmVerdict, IInv, CheckpointBehind, LogAndBatch, LogIsPrefix
<1>5. Passed'
  BY <1>1, <1>2 DEF GsmVerdict, IInv, Passed, NiahFull, GsmFull, Correct
<1> QED
  BY <1>3, <1>4, <1>5 DEF IInv

LEMMA DecideIInv == ASSUME IInv, Decide PROVE IInv'
<1>1. Types' /\ OwnDirectory'
  BY DEF Decide, BothGates, IInv, Types, OwnDirectory
<1>2. CheckpointBehind' /\ LogAndBatch'
  BY DEF Decide, IInv, CheckpointBehind, LogAndBatch, LogIsPrefix
<1>3. Passed'
  BY DEF Decide, BothGates, IInv, Passed, NiahFull, GsmFull, Correct
<1> QED
  BY <1>1, <1>2, <1>3 DEF IInv

(* Wherever a run is killed, and whatever write that cuts short.           *)
LEMMA CrashIInv == ASSUME IInv, Crash PROVE IInv'
<1>1. /\ pc' = "off"
      /\ UNCHANGED <<runs, build, conc, memory, refused>>
  BY DEF Crash
<1>2. CASE UNCHANGED directory
  BY <1>1, <1>2 DEF IInv, Types, OwnDirectory, CheckpointBehind, LogAndBatch,
     LogIsPrefix, Passed, NiahFull, GsmFull, Correct
<1>3. CASE /\ pc = "identity" /\ identity = "none" /\ identity' = Cut
           /\ UNCHANGED <<niah, log, tail, decision>>
  <2>1. niah["file"].cases = << >> /\ log = << >>
    BY <1>3, NoBuildNothing DEF IInv, Types, OwnDirectory, NiahFile
  <2>2. FromBuild(<< >>, Cut)
    BY DEF FromBuild
  <2>3. OwnDirectory'
    BY <1>1, <1>3, <2>1, <2>2 DEF OwnDirectory
  <2> QED
    BY <1>1, <1>3, <2>3 DEF IInv, Types, CheckpointBehind, LogAndBatch,
       LogIsPrefix, Passed, NiahFull, GsmFull, Correct
<1>4. CASE /\ pc = "niah_write"
           /\ niah' = [niah EXCEPT ![WrittenFile] = Garbled]
           /\ UNCHANGED <<identity, log, tail, decision>>
  <2>1. Garbled \in NiahFile
    <3>1. << >> \in Seq(Result)
      OBVIOUS
    <3> QED
      BY <3>1 DEF Garbled, NiahFile
  <2>2. /\ niah' \in [{"file", "temporary"} -> NiahFile]
        /\ niah'["file"] = niah["file"]
    BY <1>4, <2>1 DEF WrittenFile, IInv, Types
  <2>3. Types' /\ OwnDirectory'
    BY <1>1, <1>4, <2>2 DEF IInv, Types, OwnDirectory
  <2> QED
    BY <1>1, <1>4, <2>2, <2>3 DEF IInv, CheckpointBehind, LogAndBatch,
       LogIsPrefix, Passed, NiahFull, GsmFull, Correct
<1>5. CASE /\ pc = "append" /\ tail' = "torn"
           /\ UNCHANGED <<identity, niah, log, decision>>
  BY <1>1, <1>5 DEF IInv, Types, OwnDirectory, CheckpointBehind, LogAndBatch,
     LogIsPrefix, Passed, NiahFull, GsmFull, Correct
<1>6. CASE /\ pc = "append" /\ log' = Append(log, Head(batch))
           /\ UNCHANGED <<identity, niah, decision>>
  <2>1. /\ log' \in Seq(Record) /\ Len(log') = Len(log) + 1
        /\ Len(log) < Items /\ Len(log) \in Nat
        /\ \A k \in DOMAIN log' : log'[k].index = k
        /\ FromBuild(log', identity)
        /\ ~GsmFull
    BY <1>6, RecordMoves DEF IInv, Types
  <2>2. Types' /\ OwnDirectory'
    BY <1>1, <1>6, <2>1 DEF IInv, Types, OwnDirectory
  <2>3. CheckpointBehind' /\ LogAndBatch'
    BY <1>1, <1>6, <2>1 DEF IInv, CheckpointBehind, LogAndBatch, LogIsPrefix
  <2>4. Passed'
    BY <1>1, <1>6, <2>1 DEF IInv, Passed, NiahFull, Correct
  <2> QED
    BY <2>2, <2>3, <2>4 DEF IInv
<1>7. CASE /\ pc = "decide" /\ decision' = FALSE
           /\ UNCHANGED <<identity, niah, log, tail>>
  BY <1>1, <1>7 DEF IInv, Types, OwnDirectory, CheckpointBehind, LogAndBatch,
     LogIsPrefix, Passed, NiahFull, GsmFull, Correct
<1> QED
  BY <1>2, <1>3, <1>4, <1>5, <1>6, <1>7 DEF Crash

LEMMA NextIInv == ASSUME IInv, [Next]_vars PROVE IInv'
<1>1. ASSUME NEW b \in Builds, NEW c \in Concurrency, Start(b, c) PROVE IInv'
  BY <1>1, StartIInv
<1>2. CASE CheckIdentity BY <1>2, CheckIdentityIInv
<1>3. CASE LoadNiah BY <1>3, LoadNiahIInv
<1>4. CASE NiahCase BY <1>4, NiahCaseIInv
<1>5. CASE WriteCheckpoint BY <1>5, WriteCheckpointIInv
<1>6. CASE ReplaceCheckpoint BY <1>6, ReplaceCheckpointIInv
<1>7. CASE NiahVerdict BY <1>7, NiahVerdictIInv
<1>8. CASE LoadLog BY <1>8, LoadLogIInv
<1>9. CASE AskBatch BY <1>9, AskBatchIInv
<1>10. CASE AppendRecord BY <1>10, AppendRecordIInv
<1>11. CASE GsmVerdict BY <1>11, GsmVerdictIInv
<1>12. CASE Decide BY <1>12, DecideIInv
<1>13. CASE Crash BY <1>13, CrashIInv
<1>14. CASE UNCHANGED vars BY <1>14, StutterIInv
<1> QED
  BY <1>1, <1>2, <1>3, <1>4, <1>5, <1>6, <1>7, <1>8, <1>9, <1>10, <1>11, <1>12,
     <1>13, <1>14 DEF Next

LEMMA Invariant == Spec => []IInv
BY InitIInv, NextIInv, PTL DEF Spec
-----------------------------------------------------------------------------
(***************************************************************************)
(* After any number of kills and resumes the log holds the first items of  *)
(* the dataset, in order and once each: an item is never recorded twice    *)
(* and none is skipped, whatever concurrency each run was given.           *)
(***************************************************************************)
THEOREM LogStaysPrefix == Spec => []LogIsPrefix
<1>1. IInv => LogIsPrefix
  BY DEF IInv, LogAndBatch
<1> QED
  BY <1>1, Invariant, PTL

(***************************************************************************)
(* q2_passed is only ever found true in a directory whose checkpoint has   *)
(* every case recovered and whose log has every item, enough of them       *)
(* correct: no resume, kill or later run can take that evidence away.      *)
(***************************************************************************)
THEOREM PassStaysJustified == Spec => []PassJustified
<1>1. IInv => PassJustified
  BY DEF IInv, Passed, PassJustified, NiahFull, GsmFull
<1> QED
  BY <1>1, Invariant, PTL

(***************************************************************************)
(* What a directory holds comes from one build, although runs of other     *)
(* builds may be started in it at any time.                                *)
(***************************************************************************)
THEOREM DirectoryHasOneBuild == Spec => []OneBuild
<1>1. ASSUME IInv PROVE OneBuild
  <2> DEFINE cases == niah["file"].cases
  <2>1. /\ cases \in Seq(Result) /\ log \in Seq(Record)
        /\ FromBuild(cases, identity) /\ FromBuild(log, identity)
    BY <1>1 DEF IInv, Types, OwnDirectory, NiahFile
  <2>2. /\ \A k \in DOMAIN cases : cases[k].build = identity
        /\ \A k \in DOMAIN log : log[k].build = identity
    BY <2>1 DEF FromBuild
  <2> QED
    BY <2>2 DEF OneBuild
<1> QED
  BY <1>1, Invariant, PTL

(***************************************************************************)
(* The checkpoint a run loads is always whole: what a kill cuts short is   *)
(* the temporary file only.                                                *)
(***************************************************************************)
THEOREM CheckpointStaysReadable == Spec => []CheckpointReadable
<1>1. IInv => CheckpointReadable
  BY DEF IInv, CheckpointBehind, CheckpointReadable
<1> QED
  BY <1>1, Invariant, PTL

(***************************************************************************)
(* No run asks again for an item whose answer is in the log.               *)
(***************************************************************************)
THEOREM AnswersAreKept == Spec => NeverAskedAgain
<1> DEFINE Step == pc' = "append" /\ pc # "append"
                     => Indices(batch') \cap Indices(log) = {}
<1>1. ASSUME IInv, [Next]_vars PROVE [Step]_vars
  <2> SUFFICES ASSUME pc' = "append", pc # "append"
               PROVE  Indices(batch') \cap Indices(log) = {}
    OBVIOUS
  <2>1. AskBatch
    BY <1>1 DEF Next, Start, CheckIdentity, LoadNiah, NiahCase,
       WriteCheckpoint, ReplaceCheckpoint, NiahVerdict, LoadLog, AppendRecord,
       GsmVerdict, Decide, Crash
  <2>2. PICK s \in ByIndex(NextItems), ok \in [NextItems -> BOOLEAN] :
          batch' = [k \in DOMAIN s |-> [index |-> s[k], ok |-> ok[s[k]],
                                        build |-> build]]
    BY <2>1 DEF AskBatch
  <2>3. PICK m \in 1..(Items - Len(log)) : s \in [1..m -> NextItems]
    BY <1>1, <2>1, BatchFollows DEF AskBatch
  <2>4. Indices(batch') \subseteq NextItems
    BY <2>2, <2>3 DEF Indices
  <2>5. done = log
    BY <1>1, <2>1 DEF IInv, LogAndBatch, AskBatch
  <2> QED
    BY <2>4, <2>5 DEF NextItems
<1> QED
  BY <1>1, Invariant, PTL DEF Spec, NeverAskedAgain
=============================================================================
