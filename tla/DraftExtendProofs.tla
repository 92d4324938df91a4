------------------------- MODULE DraftExtendProofs --------------------------
(***************************************************************************)
(* The in-place kernel of DraftExtend, for any number of requests, kernel  *)
(* size, draft length, interval and number of launches, with any accept    *)
(* counts and any stale slot numbers in the padded rows: its properties as *)
(* theorems checked by TLAPS.                                              *)
(***************************************************************************)
EXTENDS DraftExtend, ConvWindowProofs

LEMMA Sizes ==
  /\ DraftTokens \in Nat \ {0} /\ TrackInterval \in Nat \ {0}
  /\ Prefill \in Nat \ {0} /\ Rounds \in Nat
BY DraftAssumption

USE StateLenAssumption, Sizes
-----------------------------------------------------------------------------
(***************************************************************************)
(* The inductive invariant.                                                *)
(***************************************************************************)
Work(r)  == <<r, "work">>
Track(r) == <<r, "track">>

Types ==
  /\ round \in 0..Rounds
  /\ ctx \in [Reqs -> Seq(Inputs)]
  /\ snapLen \in [Reqs -> Nat]
  /\ cache \in [Slots -> Window] /\ before \in [Slots -> Window]
  /\ phase \in [Reqs -> {"idle", "start", "track", "accept", "done"}]
  /\ w \in [Reqs -> 1..StateLen]
  /\ nAcc \in [Reqs -> -1..DraftTokens]
  /\ ci \in [Reqs -> Slots]
  /\ hidden \in [Reqs -> Seq(Inputs)]

(* A row that is not padding works on its own slot, and its draft tokens   *)
(* fit what Inputs was made for.                                           *)
Launched ==
  \A r \in Reqs :
    /\ ~Padded(r) => ci[r] = Work(r)
    /\ phase[r] \in {"track", "accept"} => ~Padded(r)
    /\ phase[r] = "track" => Crossed(r)
    /\ phase[r] \notin {"track", "accept"} => w[r] = 1
    /\ phase[r] # "idle" => Len(hidden[r]) = DraftTokens
    /\ Len(ctx[r]) + (IF phase[r] = "idle" THEN 0 ELSE DraftTokens)
         <= Prefill + round * DraftTokens

(* What the loops of a row have done: the cells before the loop counter    *)
(* hold the window that the loop writes, computed from the slot as it was  *)
(* before the launch, and the others are untouched.                        *)
Moved(r, slot, base, upTo) ==
  \A k \in 1..StateLen :
    cache[slot][k] =
      IF k < upTo THEN WindowAt(before[Work(r)], hidden[r], base)[k]
                  ELSE before[slot][k]

WorkCells(r) ==
  IF Padded(r) \/ phase[r] \in {"idle", "start", "track"}
  THEN cache[Work(r)] = before[Work(r)]
  ELSE Moved(r, Work(r), nAcc[r],
             IF phase[r] = "done" THEN StateLen + 1 ELSE w[r])

TrackCells(r) ==
  IF Padded(r) \/ phase[r] \in {"idle", "start"} \/ ~Crossed(r)
  THEN cache[Track(r)] = before[Track(r)]
  ELSE Moved(r, Track(r), TrackStep(r),
             IF phase[r] = "track" THEN w[r] ELSE StateLen + 1)

Cells == \A r \in Reqs : WorkCells(r) /\ TrackCells(r)

(* Between the launches a request's slot holds the window of its committed *)
(* tokens, and its snapshot that of a prefix of them.                      *)
Windows ==
  \A r \in Reqs :
    /\ before[Work(r)] = WindowOf(ctx[r])
    /\ snapLen[r] > 0 =>
         \E n \in 0..Len(ctx[r]) :
           before[Track(r)] = WindowOf(SubSeq(ctx[r], 1, n))

IInv == Types /\ Launched /\ Cells /\ Windows
-----------------------------------------------------------------------------
(***************************************************************************)
(* Slots, boundaries and the padded sequence.                              *)
(***************************************************************************)
LEMMA SlotNames ==
  ASSUME NEW r \in Reqs
  PROVE  /\ Work(r) \in Slots /\ Track(r) \in Slots
         /\ \A q \in Reqs : /\ Work(r) # Track(q) /\ Track(r) # Work(q)
                            /\ q # r => Work(r) # Work(q) /\ Track(r) # Track(q)
BY DEF Work, Track, Slots

(* A snapshot is taken at a step of the accepted tokens. *)
LEMMA TrackStepAccepted ==
  ASSUME Types, NEW r \in Reqs, ~Padded(r)
  PROVE  nAcc[r] \in 0..DraftTokens /\ TrackStep(r) \in 0..nAcc[r]
<1>1. Len(ctx[r]) \in Nat /\ nAcc[r] \in 0..DraftTokens
  BY DEF Types, Padded
<1> DEFINE post == Len(ctx[r]) + nAcc[r]
           q == post \div TrackInterval
<1>2. post \in Nat
  BY <1>1
<1>3. q \in Nat /\ q * TrackInterval \in Int /\ q * TrackInterval <= post
  BY <1>2, FloorBounds
<1>4. Boundary(r) = q * TrackInterval
  BY DEF Boundary, PostLen, PreLen
<1> DEFINE n == Boundary(r) - Len(ctx[r]) - 1
<1>5. n \in Int /\ n <= nAcc[r] - 1
  <2>1. Boundary(r) \in Int /\ Boundary(r) <= post
    BY <1>3, <1>4
  <2> QED  BY <1>1, <2>1
<1>6. TrackStep(r) = IF n < 0 THEN 0 ELSE IF n > DraftTokens THEN DraftTokens ELSE n
  BY DEF TrackStep, PreLen
<1> HIDE DEF n
<1> QED  BY <1>1, <1>5, <1>6

(* The host's numbers of a row stay as long as its length and count do.    *)
LEMMA SameNumbers ==
  ASSUME UNCHANGED <<ctx, nAcc>>
  PROVE  \A r \in Reqs : /\ Padded(r)' <=> Padded(r)
                         /\ Crossed(r)' <=> Crossed(r)
                         /\ TrackStep(r)' = TrackStep(r)
BY DEF Padded, Crossed, TrackStep, Boundary, PostLen, PreLen

(* What an iteration reads is the cell of the window it writes: the slot   *)
(* is still untouched from the loop counter on.                            *)
LEMMA CellRead ==
  ASSUME Types, NEW r \in Reqs, ci[r] = Work(r),
         NEW base \in Nat,
         \A k \in 1..StateLen :
           k >= w[r] => cache[Work(r)][k] = before[Work(r)][k]
  PROVE  PaddedCell(r, base + w[r]) = WindowAt(before[Work(r)], hidden[r], base)[w[r]]
<1>1. w[r] \in 1..StateLen
  BY DEF Types
<1> DEFINE pos == base + w[r]
<1>2. pos >= w[r] /\ pos \in Nat /\ pos >= 1
  BY <1>1
<1>3. CASE pos > StateLen
  BY <1>1, <1>2, <1>3 DEF PaddedCell, WindowAt
<1>4. CASE pos <= StateLen
  <2>1. PaddedCell(r, pos) = cache[Work(r)][pos]
    BY <1>2, <1>4 DEF PaddedCell
  <2>2. cache[Work(r)][pos] = before[Work(r)][pos]
    BY <1>2, <1>4
  <2> QED  BY <1>1, <1>4, <2>1, <2>2 DEF WindowAt
<1> QED  BY <1>1, <1>3, <1>4

LEMMA WindowAtType ==
  ASSUME NEW win \in Window, NEW xs \in Seq(Inputs), NEW base \in 0..Len(xs)
  PROVE  WindowAt(win, xs, base) \in Window
<1>1. ASSUME NEW i \in 1..StateLen
      PROVE  (IF base + i <= StateLen THEN win[base + i] ELSE xs[base + i - StateLen])
               \in Cell
  <2>1. CASE base + i <= StateLen
    BY <2>1 DEF Window
  <2>2. CASE base + i > StateLen
    <3>1. base + i - StateLen \in 1..Len(xs)
      BY <2>2
    <3> QED  BY <2>2, <3>1 DEF Cell
  <2> QED  BY <2>1, <2>2
<1> QED  BY <1>1 DEF WindowAt, Window

(* The cell written by an iteration. *)
Writes(s, k, v) == cache' = [cache EXCEPT ![s][k] = v]

LEMMA CellWritten ==
  ASSUME Types, NEW s \in Slots, NEW k \in 1..StateLen, NEW v \in Cell,
         Writes(s, k, v)
  PROVE  /\ cache' \in [Slots -> Window]
         /\ \A t \in Slots : t # s => cache'[t] = cache[t]
         /\ \A j \in 1..StateLen : cache'[s][j] = IF j = k THEN v ELSE cache[s][j]
<1>1. cache \in [Slots -> Window] /\ cache[s] \in Window
  BY DEF Types
<1>2. [cache[s] EXCEPT ![k] = v] \in Window
      /\ \A j \in 1..StateLen :
           [cache[s] EXCEPT ![k] = v][j] = IF j = k THEN v ELSE cache[s][j]
  BY <1>1 DEF Window
<1>3. cache' = [cache EXCEPT ![s] = [cache[s] EXCEPT ![k] = v]]
  BY <1>1 DEF Writes
<1> QED  BY <1>1, <1>2, <1>3

(* Two windows with the same cells are the same. *)
LEMMA SameCells ==
  ASSUME NEW a \in Window, NEW b \in Window, \A k \in 1..StateLen : a[k] = b[k]
  PROVE  a = b
BY DEF Window

(* The other rows are not disturbed by what a row does to its own slots.   *)
LEMMA OtherRows ==
  ASSUME Types, Cells, NEW r \in Reqs,
         UNCHANGED <<ctx, nAcc, hidden, before>>,
         \A q \in Reqs : q # r => phase'[q] = phase[q] /\ w'[q] = w[q],
         \A s \in Slots : s # Work(r) /\ s # Track(r) => cache'[s] = cache[s]
  PROVE  \A q \in Reqs : q # r => WorkCells(q)' /\ TrackCells(q)'
<1> SUFFICES ASSUME NEW q \in Reqs, q # r
             PROVE  WorkCells(q)' /\ TrackCells(q)'
    OBVIOUS
<1>1. /\ Work(q) \in Slots /\ Work(q) # Work(r) /\ Work(q) # Track(r)
      /\ Track(q) \in Slots /\ Track(q) # Work(r) /\ Track(q) # Track(r)
  BY SlotNames
<1>2. cache'[Work(q)] = cache[Work(q)] /\ cache'[Track(q)] = cache[Track(q)]
  BY <1>1
<1>3. /\ Padded(q)' <=> Padded(q)
      /\ Crossed(q)' <=> Crossed(q)
      /\ TrackStep(q)' = TrackStep(q)
  BY SameNumbers
<1>4. Work(q)' = Work(q) /\ Track(q)' = Track(q)
  BY DEF Work, Track
<1>5. WorkCells(q) /\ TrackCells(q)
  BY DEF Cells
<1>6. WorkCells(q)'
  BY <1>2, <1>3, <1>4, <1>5 DEF WorkCells, Moved
<1>7. TrackCells(q)'
  BY <1>2, <1>3, <1>4, <1>5 DEF TrackCells, Moved
<1> QED  BY <1>6, <1>7

(***************************************************************************)
(* Init and the launch.                                                    *)
(***************************************************************************)
LEMMA TokenIsInput ==
  ASSUME NEW r \in Reqs, NEW p \in 1..(Prefill + Rounds * DraftTokens),
         NEW n \in 0..Rounds
  PROVE  Token(r, p, n) \in Inputs
BY DraftAssumption DEF Token

LEMMA TableIsSeq ==
  ASSUME NEW n \in Nat, NEW f \in [1..n -> Inputs]
  PROVE  f \in Seq(Inputs) /\ Len(f) = n
OBVIOUS

LEMMA InitInv == Init => IInv
<1> SUFFICES ASSUME Init PROVE IInv
    OBVIOUS
<1>1. PICK n \in [Reqs -> 1..Prefill] : ctx = [r \in Reqs |-> Prefilled(r, n[r])]
  BY DEF Init
<1>2. ASSUME NEW r \in Reqs
      PROVE  Prefilled(r, n[r]) \in Seq(Inputs) /\ Len(Prefilled(r, n[r])) = n[r]
  <2>1. n[r] \in 1..Prefill /\ Rounds * DraftTokens \in Nat
    OBVIOUS
  <2>2. \A p \in 1..n[r] : Token(r, p, 0) \in Inputs
    BY <2>1, TokenIsInput
  <2>3. Prefilled(r, n[r]) \in [1..n[r] -> Inputs]
    BY <2>2 DEF Prefilled
  <2> QED  BY <2>1, <2>3
<1>3. /\ ctx \in [Reqs -> Seq(Inputs)]
      /\ \A r \in Reqs : Len(ctx[r]) \in 1..Prefill
  BY <1>1, <1>2
<1>4. StaleWindow \in Window
  BY DEF StaleWindow, Window, Cell
<1>5. cache \in [Slots -> Window] /\ before = cache
  <2>1. \A s \in Slots : s[2] = "work" => WindowOf(ctx[s[1]]) \in Window
    BY <1>3, WindowOfType DEF Slots
  <2> QED  BY <1>4, <2>1 DEF Init
<1>6. /\ round = 0 /\ snapLen = [r \in Reqs |-> 0]
      /\ phase = [r \in Reqs |-> "idle"] /\ w = [r \in Reqs |-> 1]
      /\ nAcc = [r \in Reqs |-> 0] /\ ci = [r \in Reqs |-> Work(r)]
      /\ hidden = [r \in Reqs |-> << >>]
  BY DEF Init, Work
<1>7. Types
  <2>1. ci \in [Reqs -> Slots]
    BY <1>6, SlotNames
  <2>2. hidden \in [Reqs -> Seq(Inputs)] /\ w \in [Reqs -> 1..StateLen]
    BY <1>6
  <2>3. nAcc \in [Reqs -> -1..DraftTokens] /\ snapLen \in [Reqs -> Nat]
    BY <1>6
  <2> QED  BY <1>3, <1>5, <1>6, <2>1, <2>2, <2>3 DEF Types
<1>8. Launched
  BY <1>3, <1>6 DEF Launched, Padded
<1>9. Cells
  BY <1>5, <1>6 DEF Cells, WorkCells, TrackCells
<1>10. Windows
  <2>1. \A r \in Reqs : cache[Work(r)] = WindowOf(ctx[r])
    BY DEF Init, Work, Slots
  <2> QED  BY <1>5, <1>6, <2>1 DEF Windows
<1> QED  BY <1>7, <1>8, <1>9, <1>10 DEF IInv

(* Before a launch nothing has been written since the last one. *)
LEMMA IdleCache ==
  ASSUME Types, Cells, \A r \in Reqs : phase[r] = "idle"
  PROVE  cache = before
<1>1. \A r \in Reqs : cache[Work(r)] = before[Work(r)] /\ cache[Track(r)] = before[Track(r)]
  BY DEF Cells, WorkCells, TrackCells
<1>2. \A s \in Slots : \E r \in Reqs : s = Work(r) \/ s = Track(r)
  BY DEF Slots, Work, Track
<1>3. \A s \in Slots : cache[s] = before[s]
  BY <1>1, <1>2
<1> QED  BY <1>3 DEF Types

LEMMA LaunchInv ==
  ASSUME IInv, NEW live \in SUBSET Reqs,
         NEW n \in [live -> 0..DraftTokens], NEW stale \in [Reqs \ live -> Slots],
         Launch(live, n, stale)
  PROVE  IInv'
<1> USE DEF IInv, Launch
<1>1. /\ round' = round + 1 /\ round \in 0..Rounds /\ round' \in 0..Rounds
      /\ \A r \in Reqs : phase[r] = "idle" /\ phase'[r] = "start"
  BY DEF Types, Idle
<1>2. cache = before /\ before' = before /\ cache' = cache
  BY <1>1, IdleCache
<1>3. \A r \in Reqs : Len(ctx[r]) \in Nat
                      /\ Len(ctx[r]) + DraftTokens <= Prefill + round' * DraftTokens
  <2>1. (round + 1) * DraftTokens = round * DraftTokens + DraftTokens
        /\ round * DraftTokens \in Nat
    BY <1>1
  <2>2. \A r \in Reqs : Len(ctx[r]) \in Nat /\ Len(ctx[r]) <= Prefill + round * DraftTokens
    BY <1>1 DEF Launched, Types
  <2> QED  BY <1>1, <2>1, <2>2
<1>4. round' * DraftTokens <= Rounds * DraftTokens /\ Rounds * DraftTokens \in Nat
      /\ round' * DraftTokens \in Nat
  BY <1>1
<1>5. ASSUME NEW r \in Reqs
      PROVE  hidden'[r] \in Seq(Inputs) /\ Len(hidden'[r]) = DraftTokens
  <2>1. \A t \in 1..DraftTokens : Len(ctx[r]) + t \in 1..(Prefill + Rounds * DraftTokens)
    BY <1>3, <1>4
  <2>2. \A t \in 1..DraftTokens : Token(r, Len(ctx[r]) + t, round') \in Inputs
    BY <1>1, <2>1, TokenIsInput
  <2>3. hidden'[r] = [t \in 1..DraftTokens |-> Token(r, Len(ctx[r]) + t, round')]
    OBVIOUS
  <2>4. hidden'[r] \in [1..DraftTokens -> Inputs]
    BY <2>2, <2>3
  <2> QED  BY <2>4, TableIsSeq
<1>6. /\ nAcc' \in [Reqs -> -1..DraftTokens]
      /\ ci' \in [Reqs -> Slots]
      /\ \A r \in Reqs : ~Padded(r)' => ci'[r] = Work(r)
  <2>1. \A r \in Reqs : <<r, "work">> \in Slots
    BY DEF Slots
  <2> QED  BY <2>1 DEF Padded, Work
<1>7. Types'
  <2>1. hidden' \in [Reqs -> Seq(Inputs)]
    BY <1>5
  <2>2. phase' \in [Reqs -> {"idle", "start", "track", "accept", "done"}]
    OBVIOUS
  <2> QED  BY <1>1, <1>2, <1>6, <2>1, <2>2 DEF Types
<1>8. Launched'
  BY <1>1, <1>3, <1>5, <1>6 DEF Launched, Work
<1>9. Cells'
  BY <1>1, <1>2 DEF Cells, WorkCells, TrackCells, Work, Track
<1>10. Windows'
  BY <1>2 DEF Windows, Work, Track
<1> QED  BY <1>7, <1>8, <1>9, <1>10

LEMMA StartInv == ASSUME IInv, NEW r \in Reqs, Start(r) PROVE IInv'
<1> USE DEF IInv, Start
<1>1. /\ phase[r] = "start"
      /\ phase'[r] = IF Padded(r) THEN "done" ELSE IF Crossed(r) THEN "track" ELSE "accept"
      /\ \A q \in Reqs : q # r => phase'[q] = phase[q]
      /\ phase' \in [Reqs -> {"idle", "start", "track", "accept", "done"}]
  BY DEF NextPhase, Types
<1>2. Types'
  BY <1>1 DEF Types
<1>3. \A q \in Reqs : /\ Padded(q)' <=> Padded(q)
                      /\ Crossed(q)' <=> Crossed(q)
                      /\ TrackStep(q)' = TrackStep(q)
                      /\ Work(q)' = Work(q) /\ Track(q)' = Track(q)
  BY SameNumbers DEF Work, Track
<1>4. Launched'
  BY <1>1, <1>3 DEF Launched
<1>5. WorkCells(r)' /\ TrackCells(r)'
  <2>1. cache[Work(r)] = before[Work(r)] /\ cache[Track(r)] = before[Track(r)]
    BY <1>1 DEF Cells, WorkCells, TrackCells
  <2>2. w[r] = 1
    BY <1>1 DEF Launched
  <2>3. WorkCells(r)'
    BY <1>1, <1>3, <2>1, <2>2 DEF WorkCells, Moved
  <2>4. TrackCells(r)'
    BY <1>1, <1>3, <2>1, <2>2 DEF TrackCells, Moved
  <2> QED  BY <2>3, <2>4
<1>6. Cells'
  BY <1>1, <1>5, OtherRows DEF Cells
<1>7. Windows'
  BY <1>3 DEF Windows
<1> QED  BY <1>2, <1>4, <1>6, <1>7

(***************************************************************************)
(* The two loops: an iteration writes the next cell of its window.         *)
(***************************************************************************)
LEMMA MovedOn ==
  ASSUME Types, NEW r \in Reqs, NEW slot \in Slots, NEW base \in Nat, NEW v \in Cell,
         v = WindowAt(before[Work(r)], hidden[r], base)[w[r]],
         Moved(r, slot, base, w[r]),
         Writes(slot, w[r], v),
         UNCHANGED <<before, hidden>>
  PROVE  \A k \in 1..StateLen :
           cache'[slot][k] =
             IF k < w[r] + 1 THEN WindowAt(before[Work(r)], hidden[r], base)[k]
                             ELSE before[slot][k]
<1>1. w[r] \in 1..StateLen
  BY DEF Types
<1>2. \A j \in 1..StateLen : cache'[slot][j] = IF j = w[r] THEN v ELSE cache[slot][j]
  BY <1>1, CellWritten
<1>3. \A k \in 1..StateLen : k < w[r] + 1 <=> k < w[r] \/ k = w[r]
  BY <1>1
<1> QED  BY <1>1, <1>2, <1>3 DEF Moved

(* The loop counter at the end of an iteration. *)
LEMMA LoopAdvance ==
  ASSUME Types, NEW r \in Reqs, Advance(r),
         NEW next \in {"accept", "done"}, NextPhase(r, phase[r]) = next
  PROVE  /\ \A q \in Reqs : q # r => phase'[q] = phase[q] /\ w'[q] = w[q]
         /\ w' \in [Reqs -> 1..StateLen]
         /\ phase' \in [Reqs -> {"idle", "start", "track", "accept", "done"}]
         /\ IF w[r] < StateLen THEN w'[r] = w[r] + 1 /\ phase'[r] = phase[r]
                               ELSE w'[r] = 1 /\ phase'[r] = next
<1>1. /\ w \in [Reqs -> 1..StateLen] /\ w[r] \in 1..StateLen
      /\ phase \in [Reqs -> {"idle", "start", "track", "accept", "done"}]
  BY DEF Types
<1>2. CASE w[r] < StateLen
  <2>1. w' = [w EXCEPT ![r] = w[r] + 1] /\ phase' = phase
    BY <1>2 DEF Advance
  <2>2. w[r] + 1 \in 1..StateLen
    BY <1>1, <1>2
  <2> QED  BY <1>1, <1>2, <2>1, <2>2
<1>3. CASE ~(w[r] < StateLen)
  <2>1. w' = [w EXCEPT ![r] = 1] /\ phase' = [phase EXCEPT ![r] = next]
    BY <1>3 DEF Advance
  <2>2. 1 \in 1..StateLen
    OBVIOUS
  <2> QED  BY <1>1, <1>3, <2>1, <2>2
<1> QED  BY <1>2, <1>3

LEMMA TrackWriteInv == ASSUME IInv, NEW r \in Reqs, TrackWrite(r) PROVE IInv'
<1> USE DEF IInv, TrackWrite, LoopCell
<1> DEFINE base == TrackStep(r)
           v == PaddedCell(r, base + w[r])
<1>1. /\ ~Padded(r) /\ Crossed(r) /\ ci[r] = Work(r) /\ phase[r] = "track"
      /\ w[r] \in 1..StateLen
  BY DEF Launched, Types
<1>2. nAcc[r] \in 0..DraftTokens /\ base \in 0..nAcc[r] /\ Len(hidden[r]) = DraftTokens
  BY <1>1, TrackStepAccepted DEF Launched
<1>3. /\ cache[Work(r)] = before[Work(r)]
      /\ Moved(r, Track(r), base, w[r])
  BY <1>1 DEF Cells, WorkCells, TrackCells
<1>4. v = WindowAt(before[Work(r)], hidden[r], base)[w[r]] /\ v \in Cell
  <2>1. base \in Nat
    BY <1>2
  <2>2. WindowAt(before[Work(r)], hidden[r], base) \in Window
    BY <1>2, SlotNames, WindowAtType DEF Types
  <2> HIDE DEF base
  <2>3. PaddedCell(r, base + w[r]) = WindowAt(before[Work(r)], hidden[r], base)[w[r]]
    BY <1>1, <1>3, <2>1, CellRead
  <2> QED  BY <1>1, <2>2, <2>3 DEF Window
<1>5. Writes(Track(r), w[r], v) /\ Track(r) \in Slots
  BY SlotNames DEF Track, Writes
<1> HIDE DEF v
<1>6. /\ cache' \in [Slots -> Window]
      /\ \A s \in Slots : s # Track(r) => cache'[s] = cache[s]
  BY <1>1, <1>4, <1>5, CellWritten
<1>7. \A k \in 1..StateLen :
        cache'[Track(r)][k] =
          IF k < w[r] + 1 THEN WindowAt(before[Work(r)], hidden[r], base)[k]
                          ELSE before[Track(r)][k]
  BY <1>2, <1>3, <1>4, <1>5, MovedOn
<1>8. /\ \A q \in Reqs : q # r => phase'[q] = phase[q] /\ w'[q] = w[q]
      /\ w' \in [Reqs -> 1..StateLen]
      /\ phase' \in [Reqs -> {"idle", "start", "track", "accept", "done"}]
      /\ IF w[r] < StateLen THEN w'[r] = w[r] + 1 /\ phase'[r] = "track"
                            ELSE w'[r] = 1 /\ phase'[r] = "accept"
  <2>1. NextPhase(r, phase[r]) = "accept" /\ Types /\ Advance(r)
    BY <1>1 DEF NextPhase
  <2> QED  BY <1>1, <2>1, LoopAdvance
<1>9. \A q \in Reqs : /\ Padded(q)' <=> Padded(q)
                      /\ Crossed(q)' <=> Crossed(q)
                      /\ TrackStep(q)' = TrackStep(q)
                      /\ Work(q)' = Work(q) /\ Track(q)' = Track(q)
  BY SameNumbers DEF Work, Track
<1>10. Types'
  BY <1>6, <1>8 DEF Types
<1>11. Launched'
  BY <1>1, <1>8, <1>9 DEF Launched
<1>12. WorkCells(r)'
  <2>1. cache'[Work(r)] = cache[Work(r)]
    BY <1>6, SlotNames
  <2>2. CASE w[r] < StateLen
    BY <1>3, <1>8, <1>9, <2>1, <2>2 DEF WorkCells
  <2>3. CASE ~(w[r] < StateLen)
    <3>1. phase'[r] = "accept" /\ w'[r] = 1 /\ ~Padded(r)'
      BY <1>1, <1>8, <1>9, <2>3
    <3> QED  BY <1>3, <1>9, <2>1, <3>1 DEF WorkCells, Moved
  <2> QED  BY <2>2, <2>3
<1>13. TrackCells(r)'
  <2>1. CASE w[r] < StateLen
    BY <1>1, <1>7, <1>8, <1>9, <2>1 DEF TrackCells, Moved
  <2>2. CASE ~(w[r] < StateLen)
    <3>1. w[r] = StateLen
      BY <1>1, <2>2
    <3> QED  BY <1>1, <1>7, <1>8, <1>9, <2>2, <3>1 DEF TrackCells, Moved
  <2> QED  BY <2>1, <2>2
<1>14. Cells'
  BY <1>6, <1>8, <1>12, <1>13, OtherRows DEF Cells
<1>15. Windows'
  BY <1>9 DEF Windows
<1> QED  BY <1>10, <1>11, <1>14, <1>15

LEMMA AcceptWriteInv == ASSUME IInv, NEW r \in Reqs, AcceptWrite(r) PROVE IInv'
<1> USE DEF IInv, AcceptWrite, LoopCell, AcceptBase
<1> DEFINE base == nAcc[r]
           v == PaddedCell(r, base + w[r])
<1>1. /\ ~Padded(r) /\ ci[r] = Work(r) /\ phase[r] = "accept"
      /\ w[r] \in 1..StateLen
  BY DEF Launched, Types
<1>2. base \in 0..DraftTokens /\ Len(hidden[r]) = DraftTokens
  BY <1>1, TrackStepAccepted DEF Launched
<1>3. Moved(r, Work(r), base, w[r])
  BY <1>1 DEF Cells, WorkCells
<1>4. v = WindowAt(before[Work(r)], hidden[r], base)[w[r]] /\ v \in Cell
  <2>1. base \in Nat
    BY <1>2
  <2>2. WindowAt(before[Work(r)], hidden[r], base) \in Window
    BY <1>2, SlotNames, WindowAtType DEF Types
  <2>3. \A k \in 1..StateLen : k >= w[r] => cache[Work(r)][k] = before[Work(r)][k]
    BY <1>1, <1>3 DEF Moved
  <2> HIDE DEF base
  <2>4. PaddedCell(r, base + w[r]) = WindowAt(before[Work(r)], hidden[r], base)[w[r]]
    BY <1>1, <2>1, <2>3, CellRead
  <2> QED  BY <1>1, <2>2, <2>4 DEF Window
<1>5. Writes(Work(r), w[r], v) /\ Work(r) \in Slots
  BY <1>1, SlotNames DEF Writes
<1> HIDE DEF v
<1>6. /\ cache' \in [Slots -> Window]
      /\ \A s \in Slots : s # Work(r) => cache'[s] = cache[s]
  BY <1>1, <1>4, <1>5, CellWritten
<1>7. \A k \in 1..StateLen :
        cache'[Work(r)][k] =
          IF k < w[r] + 1 THEN WindowAt(before[Work(r)], hidden[r], base)[k]
                          ELSE before[Work(r)][k]
  BY <1>2, <1>3, <1>4, <1>5, MovedOn
<1>8. /\ \A q \in Reqs : q # r => phase'[q] = phase[q] /\ w'[q] = w[q]
      /\ w' \in [Reqs -> 1..StateLen]
      /\ phase' \in [Reqs -> {"idle", "start", "track", "accept", "done"}]
      /\ IF w[r] < StateLen THEN w'[r] = w[r] + 1 /\ phase'[r] = "accept"
                            ELSE w'[r] = 1 /\ phase'[r] = "done"
  <2>1. NextPhase(r, phase[r]) = "done" /\ Types /\ Advance(r)
    BY <1>1 DEF NextPhase
  <2> QED  BY <1>1, <2>1, LoopAdvance
<1>9. \A q \in Reqs : /\ Padded(q)' <=> Padded(q)
                      /\ Crossed(q)' <=> Crossed(q)
                      /\ TrackStep(q)' = TrackStep(q)
                      /\ Work(q)' = Work(q) /\ Track(q)' = Track(q)
  BY SameNumbers DEF Work, Track
<1>10. Types'
  BY <1>6, <1>8 DEF Types
<1>11. Launched'
  BY <1>1, <1>8, <1>9 DEF Launched
<1>12. TrackCells(r)'
  <2>1. cache'[Track(r)] = cache[Track(r)]
    BY <1>6, SlotNames
  <2>2. TrackCells(r)
    BY DEF Cells
  <2>3. phase'[r] \in {"accept", "done"}
    BY <1>8
  <2> QED  BY <1>1, <1>9, <2>1, <2>2, <2>3 DEF TrackCells, Moved
<1>13. WorkCells(r)'
  <2>1. CASE w[r] < StateLen
    BY <1>1, <1>7, <1>8, <1>9, <2>1 DEF WorkCells, Moved
  <2>2. CASE ~(w[r] < StateLen)
    <3>1. w[r] = StateLen
      BY <1>1, <2>2
    <3> QED  BY <1>1, <1>7, <1>8, <1>9, <2>2, <3>1 DEF WorkCells, Moved
  <2> QED  BY <2>1, <2>2
<1>14. Cells'
  BY <1>6, <1>8, <1>12, <1>13, OtherRows DEF Cells
<1>15. Windows'
  BY <1>9 DEF Windows
<1> QED  BY <1>10, <1>11, <1>14, <1>15

(***************************************************************************)
(* The retirement: what the rows have written is the window and the        *)
(* snapshot of the request they served.                                    *)
(***************************************************************************)
LEMMA RetiredRow ==
  ASSUME IInv, NEW r \in Reqs, phase[r] = "done", ~Padded(r)
  PROVE  /\ cache[Work(r)] = WindowOf(ctx[r] \o SubSeq(hidden[r], 1, nAcc[r]))
         /\ Crossed(r) => cache[Track(r)]
              = WindowOf(ctx[r] \o SubSeq(hidden[r], 1, TrackStep(r)))
<1> USE DEF IInv
<1>1. /\ ctx[r] \in Seq(Inputs) /\ hidden[r] \in Seq(Inputs)
      /\ Len(hidden[r]) = DraftTokens
      /\ nAcc[r] \in 0..DraftTokens /\ TrackStep(r) \in 0..nAcc[r]
  BY TrackStepAccepted DEF Types, Launched
<1>2. /\ before[Work(r)] = WindowOf(ctx[r]) /\ before[Work(r)] \in Window
      /\ cache[Work(r)] \in Window /\ cache[Track(r)] \in Window
  BY SlotNames DEF Windows, Types
<1>3. ASSUME NEW slot \in Slots, NEW base \in 0..DraftTokens,
             Moved(r, slot, base, StateLen + 1), cache[slot] \in Window
      PROVE  cache[slot] = WindowOf(ctx[r] \o SubSeq(hidden[r], 1, base))
  <2>1. WindowAt(before[Work(r)], hidden[r], base)
          = WindowOf(ctx[r] \o SubSeq(hidden[r], 1, base))
    BY <1>1, <1>2, WindowAdvance
  <2>2. WindowAt(before[Work(r)], hidden[r], base) \in Window
    BY <1>1, <1>2, WindowAtType
  <2>3. \A k \in 1..StateLen : k < StateLen + 1
    OBVIOUS
  <2>4. \A k \in 1..StateLen :
          cache[slot][k] = WindowAt(before[Work(r)], hidden[r], base)[k]
    BY <1>3, <2>3 DEF Moved
  <2> QED  BY <1>3, <2>1, <2>2, <2>4, SameCells
<1>4. Moved(r, Work(r), nAcc[r], StateLen + 1)
  BY DEF Cells, WorkCells
<1>5. Crossed(r) => Moved(r, Track(r), TrackStep(r), StateLen + 1)
  BY DEF Cells, TrackCells
<1>6. TrackStep(r) \in 0..DraftTokens
  BY <1>1
<1> QED  BY <1>1, <1>2, <1>3, <1>4, <1>5, <1>6, SlotNames

LEMMA RetireInv == ASSUME IInv, Retire PROVE IInv'
<1>1. /\ \A r \in Reqs : phase[r] = "done" /\ phase'[r] = "idle"
      /\ \A r \in Reqs : Work(r)' = Work(r) /\ Track(r)' = Track(r)
      /\ cache' = cache /\ before' = cache /\ round' = round
      /\ UNCHANGED <<w, nAcc, ci>>
  BY DEF Work, Track, Retire
<1>2. ASSUME NEW r \in Reqs
      PROVE  /\ ctx[r] \in Seq(Inputs) /\ hidden[r] \in Seq(Inputs)
             /\ Len(hidden[r]) = DraftTokens
             /\ Len(ctx[r]) + DraftTokens <= Prefill + round * DraftTokens
             /\ before[Work(r)] = WindowOf(ctx[r])
             /\ snapLen[r] \in Nat
  BY <1>1 DEF IInv, Types, Launched, Windows
<1>3. ASSUME NEW r \in Reqs
      PROVE  /\ ctx'[r] = IF Padded(r) THEN ctx[r]
                          ELSE ctx[r] \o SubSeq(hidden[r], 1, nAcc[r])
             /\ snapLen'[r] = IF ~Padded(r) /\ Crossed(r) THEN Boundary(r)
                                                          ELSE snapLen[r]
  BY DEF Retire
<1>4. ASSUME NEW r \in Reqs, ~Padded(r)
      PROVE  /\ nAcc[r] \in 0..Len(hidden[r]) /\ TrackStep(r) \in 0..nAcc[r]
             /\ ctx'[r] \in Seq(Inputs)
             /\ Len(ctx'[r]) = Len(ctx[r]) + nAcc[r]
             /\ Boundary(r) \in Nat
  <2>1. nAcc[r] \in 0..Len(hidden[r]) /\ TrackStep(r) \in 0..nAcc[r]
    BY <1>2, <1>4, TrackStepAccepted DEF IInv
  <2>2. ctx'[r] \in Seq(Inputs) /\ Len(ctx'[r]) = Len(ctx[r]) + nAcc[r]
    <3>1. ctx'[r] = ctx[r] \o SubSeq(hidden[r], 1, nAcc[r])
      BY <1>3, <1>4
    <3>2. ctx[r] \in Seq(Inputs) /\ hidden[r] \in Seq(Inputs)
      BY <1>2
    <3> QED  BY <2>1, <3>1, <3>2, RunAppended
  <2>3. PostLen(r) \in Nat
    BY <1>2, <2>1 DEF PostLen, PreLen
  <2>4. PostLen(r) \div TrackInterval \in Nat
    BY <2>3, FloorBounds
  <2>5. Boundary(r) \in Nat
    BY <2>4 DEF Boundary
  <2> QED  BY <2>1, <2>2, <2>5
<1>5. ASSUME NEW r \in Reqs
      PROVE  /\ ctx'[r] \in Seq(Inputs)
             /\ Len(ctx'[r]) <= Prefill + round * DraftTokens
             /\ snapLen'[r] \in Nat
  <2>1. CASE Padded(r)
    <3>1. ctx'[r] = ctx[r] /\ snapLen'[r] = snapLen[r] /\ Len(ctx[r]) \in Nat
      BY <1>2, <1>3, <2>1
    <3>2. Prefill + round * DraftTokens \in Int
      BY DEF IInv, Types
    <3> DEFINE top == Prefill + round * DraftTokens
    <3>3. Len(ctx[r]) + DraftTokens <= top
      BY <1>2
    <3> HIDE DEF top
    <3>4. Len(ctx[r]) <= top
      BY <3>1, <3>2, <3>3 DEF top
    <3> QED  BY <1>2, <3>1, <3>4 DEF top
  <2>2. CASE ~Padded(r)
    <3>1. nAcc[r] <= DraftTokens /\ nAcc[r] \in Int /\ Len(ctx[r]) \in Nat
          /\ Prefill + round * DraftTokens \in Int
      BY <1>2, <1>4, <2>2 DEF IInv, Types
    <3>2. Len(ctx'[r]) <= Prefill + round * DraftTokens
      BY <1>2, <1>4, <2>2, <3>1
    <3> QED  BY <1>2, <1>3, <1>4, <2>2, <3>2
  <2> QED  BY <2>1, <2>2
<1>6. Types'
  <2>1. /\ ctx' \in [Reqs -> Seq(Inputs)] /\ snapLen' \in [Reqs -> Nat]
    BY <1>5 DEF Retire
  <2>2. /\ hidden' \in [Reqs -> Seq(Inputs)]
        /\ phase' \in [Reqs -> {"idle", "start", "track", "accept", "done"}]
    BY DEF Retire
  <2> QED  BY <1>1, <2>1, <2>2 DEF IInv, Types
<1>7. Launched'
  <2>1. \A r \in Reqs : (Padded(r)' <=> Padded(r)) /\ ci'[r] = ci[r] /\ w'[r] = w[r]
    BY <1>1 DEF Padded
  <2>2. \A r \in Reqs : /\ ~Padded(r) => ci[r] = Work(r)
                        /\ w[r] = 1
    BY <1>1 DEF IInv, Launched
  <2>3. \A r \in Reqs : Len(ctx'[r]) \in Nat /\ Len(ctx'[r]) + 0 <= Prefill + round * DraftTokens
    BY <1>5
  <2> QED  BY <1>1, <2>1, <2>2, <2>3 DEF Launched
<1>8. Cells'
  BY <1>1 DEF IInv, Cells, WorkCells, TrackCells
<1>9. ASSUME NEW r \in Reqs
      PROVE  /\ cache[Work(r)] = WindowOf(ctx'[r])
             /\ snapLen'[r] > 0 =>
                  \E n \in 0..Len(ctx'[r]) :
                    cache[Track(r)] = WindowOf(SubSeq(ctx'[r], 1, n))
  <2>1. CASE Padded(r)
    <3>1. cache[Work(r)] = before[Work(r)] /\ cache[Track(r)] = before[Track(r)]
      BY <2>1 DEF IInv, Cells, WorkCells, TrackCells
    <3> QED  BY <1>3, <2>1, <3>1 DEF IInv, Windows
  <2>2. CASE ~Padded(r)
    <3>1. cache[Work(r)] = WindowOf(ctx'[r])
      BY <1>1, <1>3, <2>2, RetiredRow
    <3>2. CASE Crossed(r)
      <4> DEFINE n == Len(ctx[r]) + TrackStep(r)
      <4>1. n \in 0..Len(ctx'[r])
        BY <1>2, <1>4, <2>2
      <4>2. SubSeq(ctx'[r], 1, n) = ctx[r] \o SubSeq(hidden[r], 1, TrackStep(r))
        <5>1. ctx'[r] = ctx[r] \o SubSeq(hidden[r], 1, nAcc[r])
          BY <1>3, <2>2
        <5>2. nAcc[r] \in 0..Len(hidden[r]) /\ TrackStep(r) \in 0..nAcc[r]
          BY <1>4, <2>2
        <5>3. ctx[r] \in Seq(Inputs) /\ hidden[r] \in Seq(Inputs)
          BY <1>2
        <5> QED  BY <5>3, <5>1, <5>2, PrefixOfRun
      <4>3. cache[Track(r)] = WindowOf(SubSeq(ctx'[r], 1, n))
        BY <1>1, <2>2, <3>2, <4>2, RetiredRow
      <4> HIDE DEF n
      <4> QED  BY <3>1, <4>1, <4>3
    <3>3. CASE ~Crossed(r)
      <4>1. cache[Track(r)] = before[Track(r)] /\ snapLen'[r] = snapLen[r]
        BY <1>3, <3>3 DEF IInv, Cells, TrackCells
      <4>2. SUFFICES ASSUME snapLen[r] > 0
                     PROVE  \E n \in 0..Len(ctx'[r]) :
                              cache[Track(r)] = WindowOf(SubSeq(ctx'[r], 1, n))
        BY <3>1, <4>1
      <4>3. PICK n \in 0..Len(ctx[r]) : before[Track(r)] = WindowOf(SubSeq(ctx[r], 1, n))
        BY <4>2 DEF IInv, Windows
      <4>4. SubSeq(ctx'[r], 1, n) = SubSeq(ctx[r], 1, n)
        <5>1. ctx'[r] = ctx[r] \o SubSeq(hidden[r], 1, nAcc[r])
          BY <1>3, <2>2
        <5>2. nAcc[r] \in 0..Len(hidden[r])
          BY <1>4, <2>2
        <5>3. ctx[r] \in Seq(Inputs) /\ hidden[r] \in Seq(Inputs)
          BY <1>2
        <5> QED  BY <5>1, <5>2, <5>3, ShorterPrefix
      <4>5. n \in 0..Len(ctx'[r])
        BY <1>2, <1>4, <2>2
      <4> QED  BY <4>1, <4>3, <4>4, <4>5
    <3> QED  BY <3>2, <3>3
  <2> QED  BY <2>1, <2>2
<1>10. Windows'
  <2> SUFFICES ASSUME NEW r \in Reqs
               PROVE  /\ cache[Work(r)] = WindowOf(ctx'[r])
                      /\ snapLen'[r] > 0 =>
                           \E n \in 0..Len(ctx'[r]) :
                             cache[Track(r)] = WindowOf(SubSeq(ctx'[r], 1, n))
    BY <1>1 DEF Windows, Work, Track, WindowOf
  <2> QED  BY <1>9
<1> QED  BY <1>6, <1>7, <1>8, <1>10 DEF IInv

LEMMA StutterInv == ASSUME IInv, UNCHANGED vars PROVE IInv'
<1> USE DEF vars
<1>1. Types' /\ Launched'
  BY DEF IInv, Types, Launched, Padded, Crossed, PreLen, PostLen, Work
<1>2. Cells'
  BY DEF IInv, Cells, WorkCells, TrackCells, Moved, Padded, Crossed, TrackStep,
         Boundary, PreLen, PostLen, Work, Track
<1>3. Windows'
  BY DEF IInv, Windows, Work, Track
<1> QED  BY <1>1, <1>2, <1>3 DEF IInv

LEMMA StepInv == IInv /\ [Next]_vars => IInv'
<1> SUFFICES ASSUME IInv, [Next]_vars PROVE IInv'
    OBVIOUS
<1>1. ASSUME NEW live \in SUBSET Reqs, NEW n \in [live -> 0..DraftTokens],
             NEW stale \in [Reqs \ live -> Slots], Launch(live, n, stale)
      PROVE  IInv'
  BY <1>1, LaunchInv
<1>2. ASSUME NEW r \in Reqs, Start(r) PROVE IInv'
  BY <1>2, StartInv
<1>3. ASSUME NEW r \in Reqs, TrackWrite(r) PROVE IInv'
  BY <1>3, TrackWriteInv
<1>4. ASSUME NEW r \in Reqs, AcceptWrite(r) PROVE IInv'
  BY <1>4, AcceptWriteInv
<1>5. CASE Retire
  BY <1>5, RetireInv
<1>6. CASE UNCHANGED vars
  BY <1>6, StutterInv
<1> QED  BY <1>1, <1>2, <1>3, <1>4, <1>5, <1>6 DEF Next

(***************************************************************************)
(* The kernel keeps the invariant: after every launch, whatever order the  *)
(* rows ran in, the slot of a request holds the window of its accepted     *)
(* tokens.                                                                 *)
(***************************************************************************)
THEOREM KernelInvariant == Spec => []IInv
<1>1. Init => IInv
  BY InitInv
<1>2. IInv /\ [Next]_vars => IInv'
  BY StepInv
<1> QED  BY <1>1, <1>2, PTL DEF Spec

(***************************************************************************)
(* The docstring's argument for writing in place: a cell that an iteration *)
(* still has to read has not been written since the launch, by this row or *)
(* by any other.                                                           *)
(***************************************************************************)
THEOREM UnreadCellsAreIntact == Spec => []RawSafety
<1>1. IInv => RawSafety
  <2> SUFFICES ASSUME IInv, NEW r \in Reqs, phase[r] \in {"track", "accept"},
                      NEW base \in Int,
                      base = (IF phase[r] = "track" THEN TrackStep(r) ELSE nAcc[r]),
                      NEW k \in w[r]..StateLen, base + k \in 1..StateLen
               PROVE  cache[ci[r]][base + k] = before[ci[r]][base + k]
    <3>1. ASSUME IInv, NEW q \in Reqs, phase[q] \in {"track", "accept"}
          PROVE  (IF phase[q] = "track" THEN TrackStep(q) ELSE nAcc[q]) \in Int
      <4>1. ~Padded(q) /\ Types
        BY <3>1 DEF IInv, Launched
      <4>2. nAcc[q] \in Int /\ TrackStep(q) \in Int
        BY <4>1, TrackStepAccepted
      <4> QED  BY <4>2
    <3> QED  BY <3>1 DEF RawSafety, LoopCell
  <2>1. ~Padded(r) /\ ci[r] = Work(r) /\ w[r] \in 1..StateLen
    BY DEF IInv, Launched, Types
  <2>2. base >= 0
    BY <2>1, TrackStepAccepted DEF IInv
  <2>3. CASE phase[r] = "track"
    BY <2>1, <2>3 DEF IInv, Cells, WorkCells
  <2>4. CASE phase[r] = "accept"
    <3>1. Moved(r, Work(r), nAcc[r], w[r])
      BY <2>1, <2>4 DEF IInv, Cells, WorkCells
    <3>2. ~(base + k < w[r])
      BY <2>1, <2>2
    <3> QED  BY <2>1, <3>1, <3>2 DEF Moved
  <2> QED  BY <2>3, <2>4
<1> QED  BY <1>1, KernelInvariant, PTL

(***************************************************************************)
(* A padded row of the graph writes nothing, whatever slot number it       *)
(* carries: the request outside the launch keeps its state.                *)
(***************************************************************************)
THEOREM PaddingIsInert == Spec => []PaddedRowsWriteNothing
<1>1. IInv => PaddedRowsWriteNothing
  BY DEF IInv, Cells, WorkCells, TrackCells, Padded, PaddedRowsWriteNothing, Work, Track
<1> QED  BY <1>1, KernelInvariant, PTL

(***************************************************************************)
(* A snapshot for the prefix cache is the window of accepted tokens only.  *)
(***************************************************************************)
THEOREM SnapshotsAreAccepted == Spec => []SnapshotAccepted
<1>1. IInv => SnapshotAccepted
  <2> SUFFICES ASSUME IInv, Idle PROVE SnapshotAccepted
      BY DEF SnapshotAccepted
  <2>1. cache = before
    BY IdleCache DEF IInv, Idle
  <2> QED  BY <2>1 DEF IInv, Windows, SnapshotAccepted, Track
<1> QED  BY <1>1, KernelInvariant, PTL

(***************************************************************************)
(* What the kernel is for: between launches the working slot of a request  *)
(* holds the window of exactly its accepted tokens.                        *)
(***************************************************************************)
THEOREM WorkingWindowKept ==
  Spec => [](Idle => \A r \in Reqs : cache[Work(r)] = WindowOf(ctx[r]))
<1>1. IInv => (Idle => \A r \in Reqs : cache[Work(r)] = WindowOf(ctx[r]))
  BY IdleCache DEF IInv, Idle, Windows
<1> QED  BY <1>1, KernelInvariant, PTL
-----------------------------------------------------------------------------
(***************************************************************************)
(* The refinement of ConvReference: what the stream shows of a request's   *)
(* slot is the window of its tokens, and only a retirement appends tokens. *)
(***************************************************************************)
ShowsOwnWindow == StreamWindow = [r \in Reqs |-> WindowOf(ctx[r])]

LEMMA StreamShowsWindow == IInv => ShowsOwnWindow
BY DEF IInv, Windows, Work, StreamWindow, ShowsOwnWindow

LEMMA StreamBeforeAndAfter ==
  IInv /\ IInv' => /\ StreamWindow = [r \in Reqs |-> WindowOf(ctx[r])]
                   /\ StreamWindow' = [r \in Reqs |-> WindowOf(ctx'[r])]
<1>1. IInv' => ShowsOwnWindow'
  BY StreamShowsWindow, PTL
<1> QED BY <1>1, StreamShowsWindow DEF ShowsOwnWindow

LEMMA SameFeed == \A win, xs : Ref!FeedAll(win, xs) = FeedAll(win, xs)
BY DEF Ref!FeedAll, FeedAll, Ref!ShiftIn, ShiftIn

(* What the reference does for a request whose tokens are continued.       *)
LEMMA ContinuedInRef ==
  ASSUME NEW g \in Seq(Inputs), NEW h \in Seq(Inputs), Continues(g, h), g # h
  PROVE  /\ Ref!IsStrictPrefix(g, h)
         /\ WindowOf(h) = Ref!FeedAll(WindowOf(g), SubSeq(h, Len(g) + 1, Len(h)))
BY Continued, SameFeed DEF Ref!IsStrictPrefix, Ref!IsPrefix

LEMMA RetireFeeds == ASSUME IInv, IInv', Retire PROVE Ref!Next
<1> DEFINE S == {r \in Reqs : ctx'[r] # ctx[r]}
<1>1. /\ StreamWindow = [r \in Reqs |-> WindowOf(ctx[r])]
      /\ StreamWindow' = [r \in Reqs |-> WindowOf(ctx'[r])]
  BY StreamBeforeAndAfter
<1>2. \A r \in Reqs : ctx[r] \in Seq(Inputs) /\ ctx'[r] \in Seq(Inputs)
  BY DEF IInv, Types
<1>3. ASSUME NEW r \in Reqs PROVE Continues(ctx[r], ctx'[r])
  <2>1. ctx'[r] = IF Padded(r) THEN ctx[r]
                  ELSE ctx[r] \o SubSeq(hidden[r], 1, nAcc[r])
    BY DEF Retire
  <2>2. CASE Padded(r)
    BY <1>2, <2>1, <2>2, ContinuesItself
  <2>3. CASE ~Padded(r)
    <3>1. hidden[r] \in Seq(Inputs) /\ Len(hidden[r]) = DraftTokens
      BY DEF Retire, IInv, Types, Launched
    <3>2. nAcc[r] \in 0 .. Len(hidden[r])
      BY <2>3, <3>1 DEF IInv, Types, Padded
    <3>3. SubSeq(hidden[r], 1, nAcc[r]) \in Seq(Inputs)
      BY <3>1, <3>2
    <3> QED BY <2>1, <2>3, <3>3 DEF Continues
  <2> QED BY <2>2, <2>3
<1>4. ASSUME NEW r \in S
      PROVE  /\ Ref!IsStrictPrefix(ctx[r], ctx'[r])
             /\ StreamWindow'[r] = Ref!FeedAll(StreamWindow[r],
                                      SubSeq(ctx'[r], Len(ctx[r]) + 1, Len(ctx'[r])))
  BY <1>1, <1>2, <1>3, ContinuedInRef
<1>5. ASSUME NEW r \in Reqs \ S
      PROVE  ctx'[r] = ctx[r] /\ StreamWindow'[r] = StreamWindow[r]
  BY <1>1
<1>6. Ref!Feed(S)
  BY <1>4, <1>5 DEF Ref!Feed
<1>7. S \in SUBSET Reqs
  OBVIOUS
<1> HIDE DEF S
<1> QED BY <1>6, <1>7 DEF Ref!Next

LEMMA StepFeeds ==
  ASSUME IInv, [Next]_vars
  PROVE  [Ref!Next]_(Ref!refVars)
<1>1. IInv'
  BY StepInv
<1>2. CASE Retire
  BY <1>1, <1>2, RetireFeeds
<1>3. CASE ctx' = ctx
  BY <1>1, <1>3, StreamBeforeAndAfter DEF Ref!refVars
<1>4. Retire \/ ctx' = ctx
  BY DEF Next, Launch, Start, TrackWrite, AcceptWrite, vars
<1> QED BY <1>2, <1>3, <1>4

(***************************************************************************)
(* Launched with any accept counts, the kernel feeds each request exactly  *)
(* its accepted tokens, as if one at a time.                               *)
(***************************************************************************)
THEOREM KernelImplementsReference == Spec => FeedsAccepted
<1>1. Init => RefInit
  BY InitInv, StreamShowsWindow DEF ShowsOwnWindow, RefInit
<1>2. IInv /\ [Next]_vars => [Ref!Next]_(Ref!refVars)
  BY StepFeeds
<1> QED BY <1>1, <1>2, KernelInvariant, PTL DEF Spec, FeedsAccepted
=============================================================================
