-------------------------- MODULE SconvCacheProofs --------------------------
(***************************************************************************)
(* Proofs about SconvCache: for every number of requests and slots, every  *)
(* kernel size, draft length, chunk size and interval, the short-          *)
(* convolution cache holds the right state.                                *)
(***************************************************************************)
EXTENDS SconvCache, ConvWindowProofs, SequenceTheorems, FiniteSetTheorems

USE StateLenAssumption, SconvAssumption DEF Steps
-----------------------------------------------------------------------------
(***************************************************************************)
(* Arithmetic of the snapshot boundaries.                                  *)
(***************************************************************************)
LEMMA FloorMonotone ==
  ASSUME NEW p \in Nat, NEW q \in Nat, NEW c \in Nat \ {0}, p < q
  PROVE  p * c + c <= q * c
OBVIOUS

(* A prefill long enough to be snapshotted covers a whole chunk, and the   *)
(* chunk-aligned length lies within its new tokens.                        *)
LEMMA AlignedBounds ==
  ASSUME NEW n \in Nat, n >= ChunkSize
  PROVE  /\ AlignedLen(n) \in Nat
         /\ ChunkSize <= AlignedLen(n) /\ AlignedLen(n) <= n
<1>1. /\ n \div ChunkSize \in Nat
      /\ (n \div ChunkSize) * ChunkSize <= n
      /\ n < (n \div ChunkSize) * ChunkSize + ChunkSize
  BY FloorBounds
<1>2. n \div ChunkSize # 0
  BY <1>1
<1>3. 0 * ChunkSize + ChunkSize <= (n \div ChunkSize) * ChunkSize
  BY <1>1, <1>2, FloorMonotone
<1> QED
  BY <1>1, <1>3 DEF AlignedLen

(* The step a commit snapshots is one of the accepted steps, and it is the *)
(* one after which the request has Boundary(post) tokens.                  *)
LEMMA TrackStepBounds ==
  ASSUME NEW pre \in Nat, NEW post \in Nat, pre <= post
  PROVE  /\ StepToTrack(pre, post) \in Int
         /\ StepToTrack(pre, post) >= 0 =>
              /\ StepToTrack(pre, post) + 1 <= post - pre
              /\ Boundary(post) = pre + StepToTrack(pre, post) + 1
              /\ Boundary(post) <= post
<1>1. /\ pre \div TrackInterval \in Nat /\ post \div TrackInterval \in Nat
      /\ (post \div TrackInterval) * TrackInterval <= post
      /\ (post \div TrackInterval) * TrackInterval \in Nat
  BY FloorBounds
<1> QED
  BY <1>1 DEF StepToTrack, Boundary

(* The prefill snapshot is the window at the aligned length.               *)
LEMMA ChunkWindowIsWindow ==
  ASSUME NEW h \in Seq(Inputs), NEW xs \in Seq(Inputs),
         Len(xs) >= ChunkSize
  PROVE  ChunkWindow(xs)
           = WindowOf(SubSeq(h \o xs, 1, Len(h) + AlignedLen(Len(xs))))
<1> DEFINE n == AlignedLen(Len(xs))
           g == SubSeq(h \o xs, 1, Len(h) + n)
<1>1. n \in Nat /\ StateLen <= n /\ n <= Len(xs)
  BY AlignedBounds
<1> HIDE DEF n
<1>2. Len(g) = Len(h) + n /\ \A j \in 1..n : g[Len(h) + j] = xs[j]
  BY <1>1
<1>3. ASSUME NEW i \in 1..StateLen
      PROVE  ChunkWindow(xs)[i] = WindowOf(g)[i]
  <2>1. n - StateLen + i \in 1..n
    BY <1>1
  <2>2. ChunkWindow(xs)[i] = xs[n - StateLen + i]
    BY <1>1, <2>1 DEF ChunkWindow, PackedCell, n
  <2>3. WindowOf(g)[i] = g[Len(h) + (n - StateLen + i)]
    <3> HIDE DEF g
    <3>1. Len(h) \in Nat /\ i \in Int /\ StateLen \in Int /\ i >= 1
      BY StateLenAssumption
    <3>2. /\ Len(g) + i > StateLen
          /\ Len(g) + i - StateLen = Len(h) + (n - StateLen + i)
      BY <1>1, <1>2, <3>1
    <3> QED
      BY <3>2 DEF WindowOf
  <2> QED
    BY <1>2, <2>1, <2>2, <2>3
<1>4. ChunkWindow(xs) = WindowOf(g)
  BY <1>3 DEF ChunkWindow, WindowOf
<1> QED
  BY <1>4 DEF n
-----------------------------------------------------------------------------
(***************************************************************************)
(* A scatter writes the row that names a slot and leaves the others alone. *)
(***************************************************************************)
LEMMA ScatterAt ==
  ASSUME NEW c, NEW I, NEW dst, NEW w, NEW i \in I, dst[i] \in Slots,
         \A j \in I : dst[j] = dst[i] => j = i
  PROVE  Scatter(c, I, dst, w)[dst[i]] = w[i]
BY DEF Scatter

LEMMA ScatterElsewhere ==
  ASSUME NEW c, NEW I, NEW dst, NEW w, NEW s \in Slots,
         \A j \in I : dst[j] # s
  PROVE  Scatter(c, I, dst, w)[s] = c[s]
BY DEF Scatter

LEMMA ScatterType ==
  ASSUME NEW c \in [Slots -> Window], NEW I, NEW dst, NEW w,
         \A i \in I : w[i] \in Window
  PROVE  Scatter(c, I, dst, w) \in [Slots -> Window]
BY DEF Scatter

(* Two scatters to distinct slots: each row is where it was sent, and the  *)
(* slots neither names are untouched.                                      *)
LEMMA ScatterTwice ==
  ASSUME NEW c \in [Slots -> Window], NEW I, NEW d, NEW v, NEW J, NEW e, NEW w,
         \A i \in I : d[i] \in Slots /\ v[i] \in Window,
         \A j \in J : e[j] \in Slots /\ w[j] \in Window,
         \A i, k \in I : d[i] = d[k] => i = k,
         \A j, k \in J : e[j] = e[k] => j = k,
         \A i \in I, j \in J : d[i] # e[j],
         NEW out, out = Scatter(Scatter(c, I, d, v), J, e, w)
  PROVE  /\ out \in [Slots -> Window]
         /\ \A i \in I : out[d[i]] = v[i]
         /\ \A j \in J : out[e[j]] = w[j]
         /\ \A s \in Slots : (\A i \in I : d[i] # s) /\ (\A j \in J : e[j] # s)
                               => out[s] = c[s]
<1> DEFINE mid == Scatter(c, I, d, v)
<1>1. mid \in [Slots -> Window]
  BY ScatterType
<1>2. \A i \in I : mid[d[i]] = v[i]
  BY ScatterAt
<1>3. \A s \in Slots : (\A i \in I : d[i] # s) => mid[s] = c[s]
  BY ScatterElsewhere
<1>4. out = Scatter(mid, J, e, w)
  OBVIOUS
<1> HIDE DEF mid
<1>5. out \in [Slots -> Window]
  BY <1>1, <1>4, ScatterType
<1>6. \A j \in J : out[e[j]] = w[j]
  BY <1>4, ScatterAt
<1>7. \A s \in Slots : (\A j \in J : e[j] # s) => out[s] = mid[s]
  BY <1>4, ScatterElsewhere
<1> QED
  BY <1>2, <1>3, <1>5, <1>6, <1>7

LEMMA PickIn ==
  ASSUME NEW S, S # {}
  PROVE  Pick(S) \in S
BY DEF Pick
-----------------------------------------------------------------------------
(***************************************************************************)
(* The inductive invariant, one lemma per action.                          *)
(***************************************************************************)
LEMMA RunIsSeq ==
  ASSUME NEW n \in Nat, NEW f \in [1..n -> Inputs]
  PROVE  f \in Seq(Inputs) /\ Len(f) = n
OBVIOUS

LEMMA InitIInv == Init => IInv
<1> SUFFICES ASSUME Init PROVE IInv
  OBVIOUS
<1>1. TypeOK
  BY DEF Init, TypeOK, Rows, StaleWindow, Window, Cell
<1> QED
  BY <1>1 DEF Init, IInv, IdleRequests, SlotOwnership, SavedRows, Rows,
     WorkingWindow, TrackedWindow, CachedPrefix

LEMMA WholeSeq ==
  ASSUME NEW s \in Seq(Inputs)
  PROVE  SubSeq(s, 1, Len(s)) = s
OBVIOUS

LEMMA SeqWiden ==
  ASSUME NEW S, NEW T, S \subseteq T, NEW s \in Seq(S)
  PROVE  s \in Seq(T)
OBVIOUS

(* SlotOwnership read slot by slot. *)
LEMMA SlotsApart ==
  ASSUME IInv
  PROVE  /\ \A q \in live : /\ q \in Reqs
                            /\ work[q] \in Slots /\ work[q] \notin free
                            /\ track[q] \in Slots /\ track[q] \notin free
                            /\ work[q] # track[q]
         /\ \A p, q \in live : p # q =>
              /\ work[p] # work[q] /\ track[p] # track[q]
              /\ work[p] # track[q] /\ track[p] # work[q]
         /\ \A e \in tree : /\ e.slot \in Slots /\ e.slot \notin free
                            /\ e.prefix \in Seq(Inputs)
         /\ \A e \in tree, q \in live : e.slot # work[q] /\ e.slot # track[q]
         /\ \A e, f \in tree : e.slot = f.slot => e = f
         /\ free \subseteq Slots
<1>1. /\ \A q \in live : /\ q \in Reqs
                         /\ work[q] \in Slots /\ work[q] \notin free
                         /\ track[q] \in Slots /\ track[q] \notin free
                         /\ work[q] # track[q]
      /\ free \subseteq Slots
  BY DEF IInv, TypeOK, SlotOwnership, Owned
<1>2. \A p, q \in live : p # q =>
         /\ work[p] # work[q] /\ track[p] # track[q]
         /\ work[p] # track[q] /\ track[p] # work[q]
  BY DEF IInv, SlotOwnership, Owned
<1>3. \A e \in tree : e.slot \in Slots /\ e.prefix \in Seq(Inputs)
  BY DEF IInv, TypeOK, Prefix
<1>4. /\ \A e \in tree : e.slot \notin free
      /\ \A e \in tree, q \in live : e.slot # work[q] /\ e.slot # track[q]
      /\ \A e, f \in tree : e.slot = f.slot => e = f
  BY DEF IInv, SlotOwnership, Owned
<1> QED
  BY <1>1, <1>2, <1>3, <1>4

(* What the rows of a batch in flight name. *)
LEMMA RowsLive ==
  ASSUME IInv
  PROVE  \A i \in Rows : batch[i] \in live /\ batch[i] \in Reqs
BY DEF IInv, TypeOK, Rows

(* A request whose tokens, recorded length and two windows a step leaves   *)
(* alone keeps its part of the invariant.                                  *)
LEMMA RequestKept ==
  ASSUME IInv, NEW q \in live,
         ctx'[q] = ctx[q], trackLen'[q] = trackLen[q],
         conv'[work'[q]] = conv[work[q]], conv'[track'[q]] = conv[track[q]]
  PROVE  /\ Len(ctx'[q]) > 0 => conv'[work'[q]] = WindowOf(ctx'[q])
         /\ trackLen'[q] > 0 =>
              /\ trackLen'[q] <= Len(ctx'[q])
              /\ conv'[track'[q]] = WindowOf(SubSeq(ctx'[q], 1, trackLen'[q]))
BY DEF IInv, HasInitialState, WorkingWindow, TrackedWindow

(* What admission does to the slots, hit or miss. *)
LEMMA AllocateSlots ==
  ASSUME IInv, NEW r \in Reqs, Allocate(r)
  PROVE  /\ live' = live \cup {r} /\ r \notin live
         /\ work' \in [Reqs -> Slots \cup {NoSlot}]
         /\ track' \in [Reqs -> Slots \cup {NoSlot}]
         /\ work'[r] \in free /\ track'[r] \in free /\ work'[r] # track'[r]
         /\ \A q \in Reqs : q # r => work'[q] = work[q] /\ track'[q] = track[q]
         /\ free' = free \ {work'[r], track'[r]}
<1>1. /\ Pick(free) \in free
      /\ Pick(free \ {Pick(free)}) \in free \ {Pick(free)}
  BY PickIn DEF Allocate
<1> QED
  BY <1>1 DEF Allocate, IInv, TypeOK

LEMMA AllocateOwnership ==
  ASSUME IInv, NEW r \in Reqs, Allocate(r), UNCHANGED tree
  PROVE  SlotOwnership'
<1>1. /\ live' = live \cup {r} /\ r \notin live
      /\ work'[r] \in free /\ track'[r] \in free /\ work'[r] # track'[r]
      /\ free' = free \ {work'[r], track'[r]}
  BY AllocateSlots
<1>2. \A q \in live : /\ work'[q] = work[q] /\ track'[q] = track[q]
                      /\ work'[q] \notin free /\ track'[q] \notin free
                      /\ work'[q] \in Slots /\ track'[q] \in Slots
                      /\ work'[q] # track'[q]
  BY <1>1, AllocateSlots, SlotsApart
<1>3. ASSUME NEW q \in live'
      PROVE  /\ work'[q] \in Slots /\ track'[q] \in Slots
             /\ work'[q] # track'[q]
             /\ {work'[q], track'[q]} \cap free' = {}
  BY <1>1, <1>2, SlotsApart
<1>4. ASSUME NEW p \in live', NEW q \in live', p # q
      PROVE  {work'[p], track'[p]} \cap {work'[q], track'[q]} = {}
  <2>1. CASE p = r
    BY <2>1, <1>1, <1>2, <1>4
  <2>2. CASE q = r
    BY <2>2, <1>1, <1>2, <1>4
  <2>3. CASE p \in live /\ q \in live
    BY <2>3, <1>2, <1>4, SlotsApart
  <2> QED
    BY <2>1, <2>2, <2>3, <1>1
<1>5. ASSUME NEW e \in tree
      PROVE  /\ e.slot \notin free'
             /\ \A q \in live' : e.slot \notin {work'[q], track'[q]}
  BY <1>1, <1>2, SlotsApart
<1> QED
  BY <1>3, <1>4, <1>5, SlotsApart DEF SlotOwnership, Owned

LEMMA AdmitMissIInv ==
  ASSUME IInv, NEW r \in Reqs, AdmitMiss(r)
  PROVE  IInv'
<1>1. Allocate(r) /\ UNCHANGED tree
  BY DEF AdmitMiss
<1>2. SlotOwnership'
  BY <1>1, AllocateOwnership
<1>3. batch \in Seq(live') /\ live' \in SUBSET Reqs /\ free' \in SUBSET Slots
  BY <1>1, AllocateSlots, SeqWiden, SlotsApart DEF IInv, TypeOK
<1>4. TypeOK' /\ IdleRequests'
  BY <1>1, <1>3, AllocateSlots DEF AdmitMiss, IInv, TypeOK, IdleRequests, Rows
<1>5. ctx[r] = << >> /\ trackLen[r] = 0
  BY <1>1, AllocateSlots DEF IInv, IdleRequests
<1>6. \A q \in live : q \in Reqs /\ work'[q] = work[q] /\ track'[q] = track[q]
  BY <1>1, AllocateSlots, SlotsApart
<1>7. WorkingWindow' /\ TrackedWindow'
  BY <1>1, <1>5, <1>6, AllocateSlots
     DEF AdmitMiss, IInv, HasInitialState, WorkingWindow, TrackedWindow
<1>8. SavedRows' /\ CachedPrefix'
  BY DEF AdmitMiss, IInv, SavedRows, Rows, HasInitialState, CachedPrefix
<1> QED
  BY <1>2, <1>4, <1>7, <1>8 DEF IInv

LEMMA AdmitHitIInv ==
  ASSUME IInv, NEW r \in Reqs, NEW e \in tree, AdmitHit(r, e)
  PROVE  IInv'
<1>1. Allocate(r) /\ UNCHANGED tree
  BY DEF AdmitHit
<1>2. SlotOwnership'
  BY <1>1, AllocateOwnership
<1>3. /\ e.prefix \in Seq(Inputs) /\ e.slot \in Slots
      /\ conv[e.slot] = WindowOf(e.prefix)
  BY SlotsApart DEF IInv, CachedPrefix
<1>4. work'[r] \in Slots /\ work'[r] \in free
  BY <1>1, AllocateSlots, SlotsApart
<1>5. /\ conv'[work'[r]] = WindowOf(e.prefix)
      /\ \A s \in Slots : s # work'[r] => conv'[s] = conv[s]
      /\ conv' \in [Slots -> Window]
  BY <1>3, <1>4 DEF AdmitHit, IInv, TypeOK
<1>6. /\ ctx'[r] = e.prefix
      /\ \A q \in Reqs : q # r => ctx'[q] = ctx[q]
      /\ ctx' \in [Reqs -> Seq(Inputs)]
      /\ trackLen' = trackLen /\ trackLen[r] = 0
  BY <1>1, <1>3, AllocateSlots DEF AdmitHit, IInv, TypeOK, IdleRequests
<1>7. batch \in Seq(live') /\ live' \in SUBSET Reqs /\ free' \in SUBSET Slots
  BY <1>1, AllocateSlots, SeqWiden, SlotsApart DEF IInv, TypeOK
<1>8. TypeOK' /\ IdleRequests'
  <2>1. TypeOK'
    BY <1>1, <1>5, <1>6, <1>7, AllocateSlots DEF AdmitHit, IInv, TypeOK, Rows
  <2>2. IdleRequests'
    BY <1>1, <1>6, AllocateSlots DEF IInv, IdleRequests
  <2> QED
    BY <2>1, <2>2
<1>9. \A q \in live : /\ q # r /\ q \in Reqs
                      /\ work'[q] = work[q] /\ track'[q] = track[q]
                      /\ conv'[work[q]] = conv[work[q]]
                      /\ conv'[track[q]] = conv[track[q]]
  BY <1>1, <1>4, <1>5, AllocateSlots, SlotsApart
<1>10. WorkingWindow' /\ TrackedWindow'
  <2>1. live' = live \cup {r}
    BY <1>1, AllocateSlots
  <2>2. \A q \in live : /\ ctx'[q] = ctx[q] /\ trackLen'[q] = trackLen[q]
                        /\ conv'[work'[q]] = conv[work[q]]
                        /\ conv'[track'[q]] = conv[track[q]]
    BY <1>6, <1>9
  <2> QED
    BY <2>1, <2>2, <1>5, <1>6, RequestKept
       DEF HasInitialState, WorkingWindow, TrackedWindow
<1>11. CachedPrefix'
  BY <1>1, <1>4, <1>5, SlotsApart DEF IInv, CachedPrefix
<1>12. \A i \in Rows : ctx'[batch[i]] = ctx[batch[i]]
  BY <1>6, <1>9, RowsLive
<1>13. SavedRows'
  BY <1>12 DEF AdmitHit, IInv, SavedRows, Rows, HasInitialState
<1> QED
  BY <1>2, <1>8, <1>10, <1>11, <1>13 DEF IInv

(* The state an extend starts from is the window of the tokens so far.     *)
LEMMA InitialStateIsWindow ==
  ASSUME IInv, NEW r \in live
  PROVE  InitialState(r) = WindowOf(ctx[r])
<1>1. ctx[r] \in Seq(Inputs)
  BY SlotsApart DEF IInv, TypeOK
<1>2. CASE HasInitialState(r)
  BY <1>2 DEF InitialState, IInv, WorkingWindow
<1>3. CASE ~HasInitialState(r)
  <2>1. ctx[r] = << >>
    BY <1>1, <1>3 DEF HasInitialState
  <2> QED
    BY <1>3, <2>1, WindowOfEmpty DEF InitialState
<1> QED
  BY <1>2, <1>3

LEMMA ExtendIInv ==
  ASSUME IInv, NEW S \in SUBSET live, NEW xs \in [S -> Run(1, MaxContext)],
         Extend(S, xs)
  PROVE  IInv'
<1> DEFINE tracked == {r \in S : Len(xs[r]) >= ChunkSize}
           snap == [r \in tracked |-> ChunkWindow(xs[r])]
           next == [r \in S |-> WindowAt(InitialState(r), xs[r], Len(xs[r]))]
           post(r) == ctx[r] \o xs[r]
<1>1. \A r \in S : /\ r \in live /\ r \in Reqs
                   /\ ctx[r] \in Seq(Inputs)
                   /\ xs[r] \in Seq(Inputs) /\ Len(xs[r]) > 0
                   /\ post(r) \in Seq(Inputs)
                   /\ Len(post(r)) = Len(ctx[r]) + Len(xs[r])
  <2> TAKE r \in S
  <2>1. r \in live /\ r \in Reqs /\ ctx[r] \in Seq(Inputs) /\ Len(xs[r]) > 0
    BY SlotsApart DEF Extend, IInv, TypeOK
  <2>2. xs[r] \in Run(1, MaxContext)
    OBVIOUS
  <2>3. PICK n \in 1..MaxContext : xs[r] \in [1..n -> Inputs]
    BY <2>2 DEF Run
  <2>4. xs[r] \in Seq(Inputs)
    BY <2>3, RunIsSeq
  <2> QED
    BY <2>1, <2>4
<1>2. \A r \in S : next[r] = WindowOf(post(r))
  <2> TAKE r \in S
  <2>1. InitialState(r) = WindowOf(ctx[r])
    BY <1>1, InitialStateIsWindow
  <2>2. SubSeq(xs[r], 1, Len(xs[r])) = xs[r]
    BY <1>1
  <2>3. WindowAt(WindowOf(ctx[r]), xs[r], Len(xs[r]))
          = WindowOf(ctx[r] \o SubSeq(xs[r], 1, Len(xs[r])))
    BY <1>1, WindowAdvance
  <2> QED
    BY <2>1, <2>2, <2>3
<1>3. \A r \in tracked :
         /\ Len(ctx[r]) + AlignedLen(Len(xs[r])) \in Nat
         /\ Len(ctx[r]) + AlignedLen(Len(xs[r])) <= Len(post(r))
         /\ snap[r] = WindowOf(SubSeq(post(r), 1,
                                      Len(ctx[r]) + AlignedLen(Len(xs[r]))))
         /\ snap[r] \in Window
  <2> TAKE r \in tracked
  <2>1. /\ AlignedLen(Len(xs[r])) \in Nat
        /\ AlignedLen(Len(xs[r])) <= Len(xs[r])
    BY <1>1, AlignedBounds
  <2>2. ChunkWindow(xs[r]) = WindowOf(SubSeq(post(r), 1,
                               Len(ctx[r]) + AlignedLen(Len(xs[r]))))
    BY <1>1, ChunkWindowIsWindow
  <2>3. SubSeq(post(r), 1, Len(ctx[r]) + AlignedLen(Len(xs[r]))) \in Seq(Inputs)
    BY SMTT(30), <1>1, <2>1
  <2> QED
    <3>1. /\ Len(ctx[r]) \in Nat /\ Len(post(r)) = Len(ctx[r]) + Len(xs[r])
          /\ Len(xs[r]) \in Nat
      BY <1>1
    <3>2. snap[r] = ChunkWindow(xs[r])
      OBVIOUS
    <3>3. ChunkWindow(xs[r]) \in Window
      BY <2>2, <2>3, WindowOfType
    <3> HIDE DEF snap, post
    <3> QED
      BY <2>1, <2>2, <3>1, <3>2, <3>3
<1>4. \A r \in S : next[r] \in Window
  BY <1>1, <1>2, WindowOfType
<1>5. conv' = Scatter(Scatter(conv, tracked, track, snap), S, work, next)
  BY DEF Extend
<1> HIDE DEF snap, next
<1>6. /\ conv' \in [Slots -> Window]
      /\ \A r \in tracked : conv'[track[r]] = snap[r]
      /\ \A r \in S : conv'[work[r]] = next[r]
      /\ \A s \in Slots : /\ \A r \in tracked : track[r] # s
                          /\ \A r \in S : work[r] # s
                          => conv'[s] = conv[s]
  <2>1. /\ \A r \in tracked : track[r] \in Slots /\ snap[r] \in Window
        /\ \A r \in S : work[r] \in Slots /\ next[r] \in Window
        /\ \A r, q \in tracked : track[r] = track[q] => r = q
        /\ \A r, q \in S : work[r] = work[q] => r = q
        /\ \A r \in tracked, q \in S : track[r] # work[q]
        /\ conv \in [Slots -> Window]
    BY <1>1, <1>3, <1>4, SlotsApart DEF IInv, TypeOK
  <2> QED
    BY SMTT(30), <1>5, <2>1, ScatterTwice
<1>7. /\ ctx' = [r \in Reqs |-> IF r \in S THEN post(r) ELSE ctx[r]]
      /\ trackLen' = [r \in Reqs |-> IF r \in tracked
                        THEN Len(ctx[r]) + AlignedLen(Len(xs[r]))
                        ELSE trackLen[r]]
      /\ batch = << >>
      /\ UNCHANGED <<live, work, track, inter, batch, drafts, free, tree>>
  BY DEF Extend
<1> HIDE DEF tracked, post
<1>8. TypeOK' /\ IdleRequests'
  <2>1. ctx' \in [Reqs -> Seq(Inputs)] /\ trackLen' \in [Reqs -> Nat]
    BY <1>1, <1>3, <1>7 DEF IInv, TypeOK
  <2>2. \A r \in tracked : r \in S
    BY DEF tracked
  <2> QED
    BY <1>1, <1>6, <1>7, <2>1, <2>2 DEF IInv, TypeOK, IdleRequests, Rows
<1>9. \A r \in live \ S :
         /\ ctx'[r] = ctx[r] /\ trackLen'[r] = trackLen[r]
         /\ conv'[work'[r]] = conv[work[r]]
         /\ conv'[track'[r]] = conv[track[r]]
  <2> TAKE r \in live \ S
  <2>1. /\ r \in Reqs /\ work[r] \in Slots /\ track[r] \in Slots
        /\ \A q \in S : /\ work[q] # work[r] /\ track[q] # work[r]
                        /\ work[q] # track[r] /\ track[q] # track[r]
    BY SlotsApart
  <2>2. r \notin tracked /\ \A q \in tracked : q \in S
    BY DEF tracked
  <2>3. conv'[work[r]] = conv[work[r]] /\ conv'[track[r]] = conv[track[r]]
    BY <1>6, <2>1, <2>2
  <2> QED
    BY <1>7, <2>1, <2>2, <2>3
<1>10. \A r \in S : /\ ctx'[r] = post(r)
                    /\ conv'[work'[r]] = WindowOf(ctx'[r])
  BY <1>1, <1>2, <1>6, <1>7
<1>11. \A r \in tracked :
         /\ trackLen'[r] <= Len(ctx'[r])
         /\ conv'[track'[r]] = WindowOf(SubSeq(ctx'[r], 1, trackLen'[r]))
  <2> TAKE r \in tracked
  <2>1. r \in S /\ r \in Reqs
    BY <1>1 DEF tracked
  <2>2. /\ ctx'[r] = post(r)
        /\ trackLen'[r] = Len(ctx[r]) + AlignedLen(Len(xs[r]))
        /\ conv'[track'[r]] = snap[r]
    BY <1>6, <1>7, <1>10, <2>1
  <2> QED
    BY <1>3, <2>2
<1>12. ASSUME NEW r \in S, r \notin tracked, trackLen'[r] > 0
       PROVE  /\ trackLen'[r] <= Len(ctx'[r])
              /\ conv'[track'[r]] = WindowOf(SubSeq(ctx'[r], 1, trackLen'[r]))
  <2>1. /\ trackLen'[r] = trackLen[r] /\ trackLen[r] \in Nat
        /\ conv'[track'[r]] = conv[track[r]]
    <3>1. r \in live /\ r \in Reqs
      BY <1>1, <1>12
    <3>2. trackLen'[r] = trackLen[r] /\ track'[r] = track[r]
      BY <1>7, <1>12, <3>1
    <3>3. trackLen[r] \in Nat
      BY <3>1 DEF IInv, TypeOK
    <3>4. /\ track[r] \in Slots
          /\ \A q \in S : work[q] # track[r]
          /\ \A q \in tracked : q \in S /\ track[q] # track[r]
      BY <1>1, <1>12, <3>1, SlotsApart DEF tracked
    <3>5. conv'[track[r]] = conv[track[r]]
      BY <1>6, <3>4
    <3> QED
      BY <3>2, <3>3, <3>5
  <2>2. /\ trackLen[r] <= Len(ctx[r])
        /\ conv[track[r]] = WindowOf(SubSeq(ctx[r], 1, trackLen[r]))
    BY <1>1, <1>12, <2>1 DEF IInv, TrackedWindow
  <2>3. SubSeq(post(r), 1, trackLen[r]) = SubSeq(ctx[r], 1, trackLen[r])
    BY <1>1, <2>1, <2>2 DEF post
  <2> QED
    <3>1. ctx'[r] = post(r) /\ Len(ctx[r]) <= Len(post(r))
      BY <1>1, <1>10
    <3>2. Len(ctx[r]) \in Nat /\ Len(post(r)) \in Nat
      BY <1>1
    <3>3. trackLen'[r] <= Len(ctx'[r])
      BY <2>1, <2>2, <3>1, <3>2
    <3>4. SubSeq(ctx'[r], 1, trackLen'[r]) = SubSeq(ctx[r], 1, trackLen[r])
      BY <2>1, <2>3, <3>1
    <3> QED
      BY <2>1, <2>2, <3>3, <3>4
<1>13. WorkingWindow' /\ TrackedWindow'
  <2>1. live' = live
    BY <1>7
  <2>2. ASSUME NEW r \in live
        PROVE  /\ HasInitialState(r)' => (conv[work[r]] = WindowOf(ctx[r]))'
               /\ trackLen'[r] > 0 =>
                    /\ trackLen'[r] <= Len(ctx'[r])
                    /\ conv'[track'[r]]
                         = WindowOf(SubSeq(ctx'[r], 1, trackLen'[r]))
    <3>1. CASE r \in S
      BY <1>10, <1>11, <1>12, <3>1
    <3>2. CASE r \notin S
      BY <1>9, <3>2, RequestKept DEF HasInitialState
    <3> QED
      BY <3>1, <3>2
  <2> QED
    BY <2>1, <2>2 DEF WorkingWindow, TrackedWindow
<1>14. CachedPrefix'
  BY SMTT(30), <1>1, <1>6, <1>7, SlotsApart DEF IInv, CachedPrefix, tracked
<1>15. SlotOwnership' /\ SavedRows'
  BY <1>7 DEF IInv, SlotOwnership, Owned, SavedRows, Rows
<1> QED
  BY <1>8, <1>13, <1>14, <1>15 DEF IInv

LEMMA DecodeIInv ==
  ASSUME IInv, NEW S \in SUBSET live, NEW x \in [S -> Inputs], Decode(S, x)
  PROVE  IInv'
<1> DEFINE next == [r \in S |-> WindowAt(conv[work[r]], <<x[r]>>, 1)]
           tracked == {r \in S : (Len(ctx[r]) + 1) % TrackInterval = 0}
           post(r) == Append(ctx[r], x[r])
<1>1. \A r \in S : /\ r \in live /\ r \in Reqs
                   /\ ctx[r] \in Seq(Inputs) /\ x[r] \in Inputs
                   /\ conv[work[r]] = WindowOf(ctx[r])
                   /\ post(r) \in Seq(Inputs)
                   /\ Len(post(r)) = Len(ctx[r]) + 1
  BY SlotsApart DEF Decode, IInv, TypeOK, WorkingWindow
<1>2. \A r \in S : next[r] = WindowOf(post(r))
  BY <1>1, WindowPush
<1>3. \A r \in S : next[r] \in Window
  BY <1>1, <1>2, WindowOfType
<1>4. conv' = Scatter(Scatter(conv, S, work, next), tracked, track, next)
  BY DEF Decode
<1>5. \A r \in tracked : r \in S
  OBVIOUS
<1>6. /\ ctx' = [r \in Reqs |-> IF r \in S THEN post(r) ELSE ctx[r]]
      /\ trackLen' = [r \in Reqs |-> IF r \in tracked THEN Len(ctx[r]) + 1
                                                      ELSE trackLen[r]]
      /\ batch = << >>
      /\ UNCHANGED <<live, work, track, inter, batch, drafts, free, tree>>
  BY DEF Decode
<1> HIDE DEF next, tracked
<1>7. /\ conv' \in [Slots -> Window]
      /\ \A r \in S : conv'[work[r]] = next[r]
      /\ \A r \in tracked : conv'[track[r]] = next[r]
      /\ \A s \in Slots : /\ \A r \in S : work[r] # s
                          /\ \A r \in tracked : track[r] # s
                          => conv'[s] = conv[s]
  <2>1. /\ \A r \in tracked : track[r] \in Slots /\ next[r] \in Window
        /\ \A r \in S : work[r] \in Slots /\ next[r] \in Window
        /\ \A r, q \in tracked : track[r] = track[q] => r = q
        /\ \A r, q \in S : work[r] = work[q] => r = q
        /\ \A r \in S, q \in tracked : work[r] # track[q]
        /\ conv \in [Slots -> Window]
    BY <1>1, <1>3, <1>5, SlotsApart DEF IInv, TypeOK
  <2> QED
    BY <1>4, <2>1, ScatterTwice
<1>8. \A r \in S : /\ ctx'[r] = post(r)
                   /\ conv'[work'[r]] = WindowOf(ctx'[r])
  BY <1>1, <1>2, <1>6, <1>7
<1>9. TypeOK' /\ IdleRequests'
  <2>1. ctx' \in [Reqs -> Seq(Inputs)] /\ trackLen' \in [Reqs -> Nat]
    BY <1>1, <1>5, <1>6 DEF IInv, TypeOK
  <2>2. \A r \in tracked : r \in live
    BY <1>1, <1>5
  <2> QED
    BY <1>1, <1>6, <1>7, <2>1, <2>2 DEF IInv, TypeOK, IdleRequests, Rows
<1>10. \A r \in live \ S :
         /\ ctx'[r] = ctx[r] /\ trackLen'[r] = trackLen[r]
         /\ conv'[work'[r]] = conv[work[r]]
         /\ conv'[track'[r]] = conv[track[r]]
  <2> TAKE r \in live \ S
  <2>1. /\ r \in Reqs /\ work[r] \in Slots /\ track[r] \in Slots
        /\ \A q \in S : /\ work[q] # work[r] /\ track[q] # work[r]
                        /\ work[q] # track[r] /\ track[q] # track[r]
    BY SlotsApart
  <2>2. conv'[work[r]] = conv[work[r]] /\ conv'[track[r]] = conv[track[r]]
    BY <1>5, <1>7, <2>1
  <2> QED
    BY <1>5, <1>6, <2>1, <2>2
<1>11. \A r \in tracked :
         /\ trackLen'[r] <= Len(ctx'[r])
         /\ conv'[track'[r]] = WindowOf(SubSeq(ctx'[r], 1, trackLen'[r]))
  <2> TAKE r \in tracked
  <2>1. /\ ctx'[r] = post(r) /\ trackLen'[r] = Len(post(r))
        /\ Len(post(r)) \in Nat
    BY <1>1, <1>5, <1>6, <1>8
  <2>2. post(r) \in Seq(Inputs)
    BY <1>1, <1>5
  <2> HIDE DEF post
  <2>3. SubSeq(post(r), 1, Len(post(r))) = post(r)
    BY <2>2, WholeSeq
  <2>4. conv'[track'[r]] = WindowOf(post(r))
    BY <1>2, <1>5, <1>6, <1>7
  <2> QED
    <3>1. trackLen'[r] <= Len(ctx'[r])
      BY <2>1
    <3>2. SubSeq(ctx'[r], 1, trackLen'[r]) = post(r)
      BY <2>1, <2>3
    <3> QED
      BY <2>4, <3>1, <3>2
<1>12. ASSUME NEW r \in S, r \notin tracked, trackLen'[r] > 0
       PROVE  /\ trackLen'[r] <= Len(ctx'[r])
              /\ conv'[track'[r]] = WindowOf(SubSeq(ctx'[r], 1, trackLen'[r]))
  <2>1. /\ r \in live /\ r \in Reqs
        /\ trackLen'[r] = trackLen[r] /\ trackLen[r] \in Nat
    BY <1>1, <1>6, <1>12 DEF IInv, TypeOK
  <2>2. /\ track[r] \in Slots
        /\ \A q \in S : work[q] # track[r]
        /\ \A q \in tracked : track[q] # track[r]
    BY <1>1, <1>5, <1>12, SlotsApart
  <2>3. conv'[track'[r]] = conv[track[r]]
    BY <1>6, <1>7, <2>2
  <2>4. /\ trackLen[r] <= Len(ctx[r])
        /\ conv[track[r]] = WindowOf(SubSeq(ctx[r], 1, trackLen[r]))
    BY <1>12, <2>1 DEF IInv, TrackedWindow
  <2>5. SubSeq(post(r), 1, trackLen[r]) = SubSeq(ctx[r], 1, trackLen[r])
    BY <1>1, <2>1, <2>4
  <2>6. trackLen'[r] <= Len(ctx'[r])
    BY <1>1, <1>8, <2>1, <2>4
  <2>7. SubSeq(ctx'[r], 1, trackLen'[r]) = SubSeq(ctx[r], 1, trackLen[r])
    BY <1>8, <2>1, <2>5
  <2> QED
    BY <2>3, <2>4, <2>6, <2>7
<1>13. WorkingWindow' /\ TrackedWindow'
  <2>1. live' = live
    BY <1>6
  <2>2. ASSUME NEW r \in live
        PROVE  /\ HasInitialState(r)' => (conv[work[r]] = WindowOf(ctx[r]))'
               /\ trackLen'[r] > 0 =>
                    /\ trackLen'[r] <= Len(ctx'[r])
                    /\ conv'[track'[r]]
                         = WindowOf(SubSeq(ctx'[r], 1, trackLen'[r]))
    <3>1. CASE r \in S
      BY <1>8, <1>11, <1>12, <3>1
    <3>2. CASE r \notin S
      BY <1>10, <3>2, RequestKept DEF HasInitialState
    <3> QED
      BY <3>1, <3>2
  <2> QED
    BY <2>1, <2>2 DEF WorkingWindow, TrackedWindow
<1>14. CachedPrefix'
  BY <1>1, <1>5, <1>6, <1>7, SlotsApart DEF IInv, CachedPrefix
<1>15. SlotOwnership' /\ SavedRows'
  BY <1>6 DEF IInv, SlotOwnership, Owned, SavedRows, Rows
<1> QED
  BY <1>9, <1>13, <1>14, <1>15 DEF IInv

LEMMA TargetVerifyIInv ==
  ASSUME IInv, NEW b \in Batches,
         NEW xs \in [DOMAIN b -> [1..DraftTokens -> Inputs]],
         TargetVerify(b, xs)
  PROVE  IInv'
<1>1. PICK n \in 1..Cardinality(live) :
         /\ b \in [1..n -> live]
         /\ \A i, j \in 1..n : b[i] = b[j] => i = j
  BY DEF Batches
<1>2. /\ n \in Nat /\ DOMAIN b = 1..n /\ b \in Seq(live)
  <2>1. n \in Nat
    BY <1>1, FS_Subset, FS_CardinalityType DEF IInv, TypeOK
  <2> QED
    BY <1>1, <2>1
<1>3. \A i \in 1..n : /\ b[i] \in live /\ b[i] \in Reqs
                      /\ ctx[b[i]] \in Seq(Inputs)
                      /\ HasInitialState(b[i])
                      /\ conv[work[b[i]]] = WindowOf(ctx[b[i]])
                      /\ xs[i] \in Seq(Inputs) /\ Len(xs[i]) = DraftTokens
  <2> TAKE i \in 1..n
  <2>1. b[i] \in live /\ HasInitialState(b[i])
    BY <1>1, <1>2 DEF TargetVerify
  <2>2. /\ b[i] \in Reqs /\ ctx[b[i]] \in Seq(Inputs)
        /\ conv[work[b[i]]] = WindowOf(ctx[b[i]])
    BY <2>1, SlotsApart DEF IInv, TypeOK, WorkingWindow
  <2>3. xs[i] \in Seq(Inputs) /\ Len(xs[i]) = DraftTokens
    BY <1>1, <1>2, SconvAssumption, RunIsSeq
  <2> QED
    BY <2>1, <2>2, <2>3
<1>4. /\ inter' = [i \in 1..n |-> SavedWindows(conv[work[b[i]]], xs[i])]
      /\ batch' = b /\ drafts' = xs /\ Rows' = 1..n
      /\ UNCHANGED <<live, ctx, work, track, trackLen, conv, free, tree>>
  BY <1>2 DEF TargetVerify, Rows
<1>5. ASSUME NEW i \in 1..n, NEW t \in Steps
      PROVE  /\ inter'[i][t]
                  = WindowOf(ctx[b[i]] \o SubSeq(xs[i], 1, t + 1))
             /\ inter'[i][t] \in Window
  <2>1. t + 1 \in 0..Len(xs[i])
    BY <1>3
  <2>2. inter'[i][t] = WindowAt(WindowOf(ctx[b[i]]), xs[i], t + 1)
    BY <1>3, <1>4 DEF SavedWindows, SavedOperand
  <2>3. WindowAt(WindowOf(ctx[b[i]]), xs[i], t + 1)
          = WindowOf(ctx[b[i]] \o SubSeq(xs[i], 1, t + 1))
    BY <1>3, <2>1, WindowAdvance
  <2>4. ctx[b[i]] \o SubSeq(xs[i], 1, t + 1) \in Seq(Inputs)
    BY <1>3, <2>1
  <2> QED
    BY <2>2, <2>3, <2>4, WindowOfType
<1>6. SavedRows'
  BY <1>1, <1>3, <1>4, <1>5 DEF SavedRows, HasInitialState
<1>7. inter' \in [1..n -> [Steps -> Window]]
  BY <1>4, <1>5 DEF SavedWindows
<1>8. TypeOK'
  BY <1>2, <1>4, <1>7 DEF IInv, TypeOK
<1>9. /\ IdleRequests' /\ SlotOwnership' /\ WorkingWindow'
      /\ TrackedWindow' /\ CachedPrefix'
  BY <1>4 DEF IInv, IdleRequests, SlotOwnership, Owned, WorkingWindow,
     HasInitialState, TrackedWindow, CachedPrefix
<1> QED
  BY <1>6, <1>8, <1>9 DEF IInv

(* With the bias, the step passed by the worker is the last accepted draft. *)
LEMMA CommitStepIsAccepted ==
  ASSUME NEW a \in Steps
  PROVE  CommitStep(LastCorrectStep(a)) = a
BY DEF CommitStep, LastCorrectStep

(* The snapshot of a commit: the step is an accepted one, and its window   *)
(* is that of the prefix up to the boundary.                               *)
LEMMA TrackedRow ==
  ASSUME NEW h \in Seq(Inputs), NEW xs \in Seq(Inputs), NEW a \in Nat,
         a < Len(xs), StepToTrack(Len(h), Len(h) + a + 1) >= 0
  PROVE  LET t == StepToTrack(Len(h), Len(h) + a + 1)
             n == Boundary(Len(h) + a + 1)
         IN  /\ t \in 0..a /\ n \in Nat /\ n <= Len(h) + a + 1
             /\ SubSeq(h \o SubSeq(xs, 1, a + 1), 1, n)
                  = h \o SubSeq(xs, 1, t + 1)
<1> DEFINE pre == Len(h)
           pst == pre + a + 1
           t == StepToTrack(pre, pst)
<1>1. pre \in Nat /\ pst \in Nat /\ pre <= pst /\ pst - pre = a + 1 /\ t >= 0
  OBVIOUS
<1> HIDE DEF pre, pst
<1>2. /\ t \in Int /\ t + 1 <= pst - pre
      /\ Boundary(pst) = pre + t + 1 /\ Boundary(pst) <= pst
  BY <1>1, TrackStepBounds
<1> HIDE DEF t
<1>3. /\ t \in 0..a /\ t + 1 \in 0..(a + 1) /\ a + 1 \in 0..Len(xs)
      /\ Boundary(pst) = pre + (t + 1) /\ Boundary(pst) \in Nat
  BY <1>1, <1>2
<1>4. SubSeq(h \o SubSeq(xs, 1, a + 1), 1, Len(h) + (t + 1))
        = h \o SubSeq(xs, 1, t + 1)
  BY <1>3, PrefixOfRun
<1> QED
  BY <1>2, <1>3, <1>4 DEF pre, pst, t

LEMMA CommitVerifiedIInv ==
  ASSUME IInv, NEW accepted \in [Rows -> Steps], CommitVerified(accepted)
  PROVE  IInv'
<1> DEFINE step == [i \in Rows |-> CommitStep(LastCorrectStep(accepted[i]))]
           valid == {i \in Rows : step[i] >= 0}
           tstep == [i \in Rows |-> StepToTrack(Len(ctx[batch[i]]),
                                      Len(ctx[batch[i]]) + accepted[i] + 1)]
           tvalid == {i \in Rows : tstep[i] >= 0}
           d == [i \in valid |-> work[batch[i]]]
           v == [i \in valid |-> inter[i][step[i]]]
           e == [i \in tvalid |-> track[batch[i]]]
           w == [i \in tvalid |-> inter[i][tstep[i]]]
           post(i) == ctx[batch[i]] \o SubSeq(drafts[i], 1, accepted[i] + 1)
           bound(i) == Boundary(Len(ctx[batch[i]]) + accepted[i] + 1)
<1>1. \A i \in Rows : /\ batch[i] \in live /\ batch[i] \in Reqs
                      /\ ctx[batch[i]] \in Seq(Inputs)
                      /\ drafts[i] \in Seq(Inputs)
                      /\ Len(drafts[i]) = DraftTokens
                      /\ accepted[i] \in Steps
  <2> TAKE i \in Rows
  <2>1. batch[i] \in live /\ batch[i] \in Reqs
    BY RowsLive
  <2>2. drafts[i] \in [1..DraftTokens -> Inputs]
    BY DEF IInv, TypeOK
  <2>3. ctx[batch[i]] \in Seq(Inputs)
    BY <2>1 DEF IInv, TypeOK
  <2> QED
    BY <2>1, <2>2, <2>3, RunIsSeq
<1>2. \A i \in Rows : /\ post(i) \in Seq(Inputs)
                      /\ Len(post(i)) = Len(ctx[batch[i]]) + accepted[i] + 1
  <2> TAKE i \in Rows
  <2>1. /\ ctx[batch[i]] \in Seq(Inputs) /\ drafts[i] \in Seq(Inputs)
        /\ accepted[i] + 1 \in 0..Len(drafts[i])
    BY <1>1
  <2>2. /\ post(i) \in Seq(Inputs)
        /\ Len(post(i)) = Len(ctx[batch[i]]) + (accepted[i] + 1)
    BY <2>1, RunAppended
  <2>3. Len(ctx[batch[i]]) \in Nat /\ accepted[i] \in Nat
    BY <1>1
  <2> QED
    BY <2>2, <2>3
<1>3. \A i, j \in Rows : batch[i] = batch[j] => i = j
  BY DEF IInv, SavedRows
<1>4. \A i \in Rows : InFlight(batch[i]) /\ RowOf(batch[i]) = i
  BY <1>3 DEF InFlight, RowOf
<1>5. /\ valid = Rows
      /\ \A i \in Rows : v[i] = WindowOf(post(i)) /\ v[i] \in Window
  <2>1. \A i \in Rows : step[i] = accepted[i]
    BY <1>1, CommitStepIsAccepted
  <2>2. valid = Rows
    BY <1>1, <2>1
  <2>3. \A i \in Rows : inter[i][accepted[i]] = WindowOf(post(i))
    BY <1>1 DEF IInv, SavedRows
  <2> QED
    BY <1>2, <2>1, <2>2, <2>3, WindowOfType
<1>6. \A i \in tvalid : /\ bound(i) \in Nat /\ bound(i) <= Len(post(i))
                        /\ w[i] = WindowOf(SubSeq(post(i), 1, bound(i)))
                        /\ w[i] \in Window
  <2> TAKE i \in tvalid
  <2>1. i \in Rows /\ tstep[i] >= 0
    OBVIOUS
  <2> DEFINE h == ctx[batch[i]]
             xs == drafts[i]
             a == accepted[i]
             t == tstep[i]
  <2>2. /\ h \in Seq(Inputs) /\ xs \in Seq(Inputs)
        /\ a \in Nat /\ a < Len(xs)
        /\ t = StepToTrack(Len(h), Len(h) + a + 1)
        /\ t >= 0
    BY <1>1, <2>1
  <2>3. w[i] = inter[i][t]
    BY <2>1
  <2>4. /\ t \in 0..a
        /\ bound(i) \in Nat /\ bound(i) <= Len(h) + a + 1
        /\ SubSeq(post(i), 1, bound(i)) = h \o SubSeq(xs, 1, t + 1)
    <3> HIDE DEF t
    <3>1. StepToTrack(Len(h), Len(h) + a + 1) >= 0
      BY <2>2
    <3> QED
      BY <2>2, <3>1, TrackedRow
  <2>5. tstep[i] \in Steps
    BY <1>1, <2>1, <2>4
  <2>6. inter[i][tstep[i]] = WindowOf(ctx[batch[i]]
                                        \o SubSeq(drafts[i], 1, tstep[i] + 1))
    BY <2>1, <2>5 DEF IInv, SavedRows
  <2>7. w[i] = WindowOf(SubSeq(post(i), 1, bound(i)))
    BY <2>3, <2>4, <2>6
  <2>8. SubSeq(post(i), 1, bound(i)) \in Seq(Inputs)
    <3> HIDE DEF post, bound
    <3> QED
      BY SMTT(30), <1>2, <2>1, <2>4
  <2>9. WindowOf(SubSeq(post(i), 1, bound(i))) \in Window
    BY <2>8, WindowOfType
  <2> HIDE DEF w, bound, post
  <2> QED
    BY <1>2, <2>1, <2>4, <2>7, <2>9
<1>7. conv' = Scatter(Scatter(conv, valid, d, v), tvalid, e, w)
  BY DEF CommitVerified
<1>8. /\ ctx' = [r \in Reqs |-> IF InFlight(r)
                   THEN ctx[r] \o SubSeq(drafts[RowOf(r)], 1,
                                         accepted[RowOf(r)] + 1)
                   ELSE ctx[r]]
      /\ trackLen' = [r \in Reqs |-> IF InFlight(r) /\ RowOf(r) \in tvalid
                        THEN Boundary(Len(ctx[r]) + accepted[RowOf(r)] + 1)
                        ELSE trackLen[r]]
      /\ inter' = << >> /\ batch' = << >> /\ drafts' = << >>
      /\ UNCHANGED <<live, work, track, free, tree>>
  BY DEF CommitVerified
<1>9. \A i \in Rows : /\ ctx'[batch[i]] = post(i)
                      /\ trackLen'[batch[i]] = IF i \in tvalid THEN bound(i)
                                               ELSE trackLen[batch[i]]
  BY <1>1, <1>4, <1>8
<1>10. \A r \in Reqs : ~InFlight(r) =>
          ctx'[r] = ctx[r] /\ trackLen'[r] = trackLen[r]
  BY <1>8
<1>11. /\ \A i \in valid : d[i] = work[batch[i]]
       /\ \A i \in tvalid : e[i] = track[batch[i]] /\ i \in Rows
  OBVIOUS
<1>12. \A r \in Reqs : InFlight(r) => \E i \in Rows : r = batch[i]
  BY DEF InFlight
<1> HIDE DEF step, valid, tstep, tvalid, d, v, e, w, post, bound
<1>13. /\ conv' \in [Slots -> Window]
       /\ \A i \in Rows : conv'[work[batch[i]]] = WindowOf(post(i))
       /\ \A i \in tvalid : conv'[track[batch[i]]]
                              = WindowOf(SubSeq(post(i), 1, bound(i)))
       /\ \A s \in Slots : /\ \A i \in Rows : work[batch[i]] # s
                           /\ \A i \in tvalid : track[batch[i]] # s
                           => conv'[s] = conv[s]
  <2>1. /\ \A i \in valid : d[i] \in Slots /\ v[i] \in Window
        /\ \A i \in tvalid : e[i] \in Slots /\ w[i] \in Window
        /\ \A i, j \in valid : d[i] = d[j] => i = j
        /\ \A i, j \in tvalid : e[i] = e[j] => i = j
        /\ \A i \in valid, j \in tvalid : d[i] # e[j]
        /\ conv \in [Slots -> Window]
    <3>1. \A i \in Rows : work[batch[i]] \in Slots /\ track[batch[i]] \in Slots
      BY <1>1, SlotsApart
    <3>2. \A i, j \in Rows : /\ work[batch[i]] # track[batch[j]]
                             /\ i # j => /\ work[batch[i]] # work[batch[j]]
                                         /\ track[batch[i]] # track[batch[j]]
      BY <1>1, <1>3, SlotsApart
    <3>3. conv \in [Slots -> Window]
      BY DEF IInv, TypeOK
    <3>4. \A i \in valid : d[i] = work[batch[i]] /\ i \in Rows
      BY <1>5, <1>11
    <3>5. \A i \in tvalid : e[i] = track[batch[i]] /\ i \in Rows
      BY <1>11
    <3>6. /\ \A i \in valid : d[i] \in Slots /\ v[i] \in Window
          /\ \A i \in tvalid : e[i] \in Slots /\ w[i] \in Window
      BY <1>5, <1>6, <3>1, <3>4, <3>5
    <3>7. /\ \A i, j \in valid : d[i] = d[j] => i = j
          /\ \A i, j \in tvalid : e[i] = e[j] => i = j
          /\ \A i \in valid, j \in tvalid : d[i] # e[j]
      BY <3>2, <3>4, <3>5
    <3> QED
      BY <3>3, <3>6, <3>7
  <2>2. /\ conv' \in [Slots -> Window]
        /\ \A i \in valid : conv'[d[i]] = v[i]
        /\ \A i \in tvalid : conv'[e[i]] = w[i]
        /\ \A s \in Slots : (\A i \in valid : d[i] # s)
                            /\ (\A i \in tvalid : e[i] # s)
                              => conv'[s] = conv[s]
    BY <1>7, <2>1, ScatterTwice
  <2> QED
    <3>1. \A i \in Rows : conv'[work[batch[i]]] = WindowOf(post(i))
      BY <1>5, <1>11, <2>2
    <3>2. \A i \in tvalid : conv'[track[batch[i]]]
                             = WindowOf(SubSeq(post(i), 1, bound(i)))
      BY <1>6, <1>11, <2>2
    <3>3. \A s \in Slots : /\ \A i \in Rows : work[batch[i]] # s
                           /\ \A i \in tvalid : track[batch[i]] # s
                           => conv'[s] = conv[s]
      <4>1. /\ \A i \in valid : d[i] = work[batch[i]] /\ i \in Rows
            /\ \A i \in tvalid : e[i] = track[batch[i]]
        BY <1>5, <1>11
      <4> TAKE s \in Slots
      <4> HAVE /\ \A i \in Rows : work[batch[i]] # s
               /\ \A i \in tvalid : track[batch[i]] # s
      <4>2. (\A i \in valid : d[i] # s) /\ (\A i \in tvalid : e[i] # s)
        BY <4>1
      <4> QED
        BY <2>2, <4>2
    <3> QED
      BY ONLY <2>2, <3>1, <3>2, <3>3
<1>14. TypeOK' /\ IdleRequests'
  <2>1. \A r \in Reqs : ctx'[r] \in Seq(Inputs) /\ trackLen'[r] \in Nat
    <3> TAKE r \in Reqs
    <3>1. ctx[r] \in Seq(Inputs) /\ trackLen[r] \in Nat
      BY DEF IInv, TypeOK
    <3>2. CASE ~InFlight(r)
      BY <3>1, <3>2, <1>10
    <3>3. CASE InFlight(r)
      <4>1. PICK i \in Rows : r = batch[i]
        BY <3>3, <1>12
      <4> QED
        BY <3>1, <4>1, <1>2, <1>6, <1>9
    <3> QED
      BY <3>2, <3>3
  <2>2. ctx' \in [Reqs -> Seq(Inputs)] /\ trackLen' \in [Reqs -> Nat]
    BY <1>8, <2>1
  <2>3. /\ batch' \in Seq(live') /\ Rows' = {}
        /\ drafts' \in [{} -> [1..DraftTokens -> Inputs]]
        /\ inter' \in [{} -> [Steps -> Window]]
    BY <1>8 DEF Rows
  <2>4. TypeOK'
    BY <1>8, <1>13, <2>2, <2>3 DEF IInv, TypeOK
  <2>5. IdleRequests'
    BY <1>1, <1>8, <1>10, <1>12 DEF IInv, IdleRequests
  <2> QED
    BY <2>4, <2>5
<1>15. \A i \in Rows : conv'[work'[batch[i]]] = WindowOf(ctx'[batch[i]])
  <2> TAKE i \in Rows
  <2>1. ctx'[batch[i]] = post(i) /\ work' = work
    BY <1>8, <1>9
  <2>2. conv'[work[batch[i]]] = WindowOf(post(i))
    BY <1>13
  <2> QED
    BY <2>1, <2>2
<1>16. ASSUME NEW i \in Rows, trackLen'[batch[i]] > 0
       PROVE  /\ trackLen'[batch[i]] <= Len(ctx'[batch[i]])
              /\ conv'[track'[batch[i]]]
                   = WindowOf(SubSeq(ctx'[batch[i]], 1, trackLen'[batch[i]]))
  <2> DEFINE r == batch[i]
  <2>1. ctx'[r] = post(i) /\ track'[r] = track[r]
    BY <1>8, <1>9
  <2>2. CASE i \in tvalid
    BY <1>6, <1>9, <1>13, <2>1, <2>2
  <2>3. CASE i \notin tvalid
    <3>1. trackLen'[r] = trackLen[r] /\ trackLen[r] \in Nat /\ trackLen[r] > 0
      BY <1>1, <1>9, <1>16, <2>3 DEF IInv, TypeOK
    <3>2. /\ trackLen[r] <= Len(ctx[r])
          /\ conv[track[r]] = WindowOf(SubSeq(ctx[r], 1, trackLen[r]))
      BY <1>1, <3>1 DEF IInv, TrackedWindow
    <3>3. /\ track[r] \in Slots
          /\ \A j \in Rows : work[batch[j]] # track[r]
          /\ \A j \in tvalid : track[batch[j]] # track[r]
      BY <1>1, <1>3, <1>11, <2>3, SlotsApart
    <3>4. conv'[track[r]] = conv[track[r]]
      BY <1>13, <3>3
    <3>5. SubSeq(post(i), 1, trackLen[r]) = SubSeq(ctx[r], 1, trackLen[r])
      BY <1>1, <3>1, <3>2 DEF post
    <3>6. trackLen[r] <= Len(post(i))
      BY <1>1, <1>2, <3>1, <3>2
    <3> QED
      BY <2>1, <3>1, <3>2, <3>4, <3>5, <3>6
  <2> QED
    BY <2>2, <2>3
<1>17. ASSUME NEW r \in live, ~InFlight(r)
       PROVE  /\ ctx'[r] = ctx[r] /\ trackLen'[r] = trackLen[r]
              /\ conv'[work'[r]] = conv[work[r]]
              /\ conv'[track'[r]] = conv[track[r]]
  <2>1. /\ r \in Reqs /\ work[r] \in Slots /\ track[r] \in Slots
        /\ \A i \in Rows : batch[i] # r /\ batch[i] \in live
    BY <1>1, <1>17, SlotsApart DEF InFlight
  <2>2. \A i \in Rows : /\ work[batch[i]] # work[r] /\ track[batch[i]] # work[r]
                        /\ work[batch[i]] # track[r] /\ track[batch[i]] # track[r]
    BY <2>1, SlotsApart
  <2>3. conv'[work[r]] = conv[work[r]] /\ conv'[track[r]] = conv[track[r]]
    BY <1>11, <1>13, <2>1, <2>2
  <2> QED
    BY <1>8, <1>10, <1>17, <2>1, <2>3
<1>18. WorkingWindow' /\ TrackedWindow'
  <2>1. \A r \in live : InFlight(r) => \E i \in Rows : r = batch[i]
    BY DEF InFlight
  <2>2. ASSUME NEW r \in live
        PROVE  /\ Len(ctx'[r]) > 0 => conv'[work'[r]] = WindowOf(ctx'[r])
               /\ trackLen'[r] > 0 =>
                    /\ trackLen'[r] <= Len(ctx'[r])
                    /\ conv'[track'[r]]
                         = WindowOf(SubSeq(ctx'[r], 1, trackLen'[r]))
    <3>1. CASE ~InFlight(r)
      BY <3>1, <1>17, RequestKept
    <3>2. CASE InFlight(r)
      <4>1. PICK i \in Rows : r = batch[i]
        BY <2>1, <3>2
      <4> QED
        BY <1>15, <1>16, <4>1
    <3> QED
      BY <3>1, <3>2
  <2> QED
    BY <1>8, <2>2 DEF HasInitialState, WorkingWindow, TrackedWindow
<1>19. CachedPrefix'
  <2> SUFFICES ASSUME NEW f \in tree
               PROVE  conv'[f.slot] = conv[f.slot]
    BY <1>8 DEF IInv, CachedPrefix
  <2>1. \A i \in Rows : work[batch[i]] # f.slot /\ track[batch[i]] # f.slot
    BY <1>1, SlotsApart
  <2> QED
    BY <1>11, <1>13, <2>1, SlotsApart
<1>20. SlotOwnership'
  BY <1>8 DEF IInv, SlotOwnership, Owned
<1>21. SavedRows'
  BY <1>8 DEF SavedRows, Rows
<1> QED
  BY <1>14, <1>18, <1>19, <1>20, <1>21 DEF IInv

LEMMA InsertPrefixIInv ==
  ASSUME IInv, NEW r \in Reqs, InsertPrefix(r)
  PROVE  IInv'
<1> DEFINE n == trackLen[r]
           prefix == SubSeq(ctx[r], 1, n)
<1>1. /\ r \in live /\ n \in Nat /\ n > 0 /\ n <= Len(ctx[r])
      /\ ctx[r] \in Seq(Inputs)
      /\ conv[track[r]] = WindowOf(prefix)
      /\ work[r] \in Slots /\ track[r] \in Slots
  BY SlotsApart DEF InsertPrefix, IInv, TypeOK, TrackedWindow
<1>2. prefix \in Seq(Inputs)
  BY <1>1
<1>3. /\ trackLen' = [trackLen EXCEPT ![r] = 0]
      /\ UNCHANGED <<live, ctx, work, conv, inter, batch, drafts>>
  BY DEF InsertPrefix
<1>4. /\ trackLen' \in [Reqs -> Nat] /\ trackLen'[r] = 0
      /\ \A q \in Reqs : q # r => trackLen'[q] = trackLen[q]
  BY <1>3 DEF IInv, TypeOK
<1>5. WorkingWindow' /\ SavedRows' /\ IdleRequests'
  BY <1>1, <1>3, <1>4 DEF IInv, WorkingWindow, HasInitialState, SavedRows, Rows,
     IdleRequests, TypeOK
<1> HIDE DEF prefix, n
<1>6. CASE UNCHANGED <<track, free, tree>>
  <2>1. TypeOK' /\ SlotOwnership' /\ CachedPrefix'
    BY <1>3, <1>4, <1>6
       DEF IInv, TypeOK, Rows, SlotOwnership, Owned, CachedPrefix
  <2>2. TrackedWindow'
    BY <1>3, <1>4, <1>6, SlotsApart DEF IInv, TrackedWindow
  <2> QED
    BY <1>5, <2>1, <2>2 DEF IInv
<1>7. CASE /\ free # {}
           /\ tree' = tree \cup {[prefix |-> prefix, slot |-> track[r]]}
           /\ track' = [track EXCEPT ![r] = Pick(free)]
           /\ free' = free \ {Pick(free)}
  <2> DEFINE e == [prefix |-> prefix, slot |-> track[r]]
  <2>1. /\ Pick(free) \in free /\ Pick(free) \in Slots
        /\ tree' = tree \cup {e}
        /\ e.prefix = prefix /\ e.slot = track[r] /\ e \in Prefix
    BY <1>1, <1>2, <1>7, PickIn, SlotsApart DEF Prefix
  <2>2. /\ track' \in [Reqs -> Slots \cup {NoSlot}]
        /\ track'[r] = Pick(free) /\ track'[r] \in free
        /\ free' = free \ {track'[r]}
        /\ \A q \in Reqs : q # r => track'[q] = track[q]
    BY <1>7, <2>1 DEF IInv, TypeOK
  <2> HIDE DEF e
  <2>3. TypeOK'
    <3>1. tree' \in SUBSET Prefix /\ free' \in SUBSET Slots
      BY <2>1, <2>2 DEF IInv, TypeOK
    <3> QED
      BY <1>3, <1>4, <2>2, <3>1 DEF IInv, TypeOK, Rows
  <2>4. TrackedWindow'
    BY <1>3, <1>4, <2>2, SlotsApart DEF IInv, TrackedWindow
  <2>5. CachedPrefix'
    BY <1>1, <1>3, <2>1 DEF IInv, CachedPrefix
  <2>6. SlotOwnership'
    <3>1. ASSUME NEW q \in live'
          PROVE  /\ work'[q] \in Slots /\ track'[q] \in Slots
                 /\ work'[q] # track'[q]
                 /\ {work'[q], track'[q]} \cap free' = {}
      BY <1>3, <2>1, <2>2, SlotsApart
    <3>2. ASSUME NEW p \in live', NEW q \in live', p # q
          PROVE  {work'[p], track'[p]} \cap {work'[q], track'[q]} = {}
      <4>1. /\ p \in live /\ q \in live /\ work' = work
            /\ p # r => track'[p] = track[p]
            /\ q # r => track'[q] = track[q]
        BY <1>3, <2>2, SlotsApart
      <4>2. CASE p = r
        BY <2>2, <3>2, <4>1, <4>2, SlotsApart
      <4>3. CASE q = r
        BY <2>2, <3>2, <4>1, <4>3, SlotsApart
      <4>4. CASE p # r /\ q # r
        BY <3>2, <4>1, <4>4, SlotsApart
      <4> QED
        BY <4>2, <4>3, <4>4
    <3>3. ASSUME NEW f \in tree'
          PROVE  /\ f.slot \notin free'
                 /\ \A q \in live' : f.slot \notin {work'[q], track'[q]}
      <4>1. CASE f = e
        BY <1>1, <1>3, <2>1, <2>2, <4>1, SlotsApart
      <4>2. CASE f \in tree
        BY SMTT(30), <1>1, <1>3, <2>1, <2>2, <4>2, SlotsApart
      <4> QED
        BY <2>1, <4>1, <4>2
    <3>4. ASSUME NEW f \in tree', NEW g \in tree', f.slot = g.slot
          PROVE  f = g
      BY <1>1, <2>1, <3>4, SlotsApart
    <3> QED
      BY <3>1, <3>2, <3>3, <3>4 DEF SlotOwnership, Owned
  <2> QED
    BY <1>5, <2>3, <2>4, <2>5, <2>6 DEF IInv
<1> QED
  BY <1>6, <1>7 DEF InsertPrefix, prefix, n

(* Freeing slots no live request and no remaining prefix holds.            *)
LEMMA EvictIInv ==
  ASSUME IInv, NEW e \in tree, Evict(e)
  PROVE  IInv'
<1>1. /\ tree' = tree \ {e} /\ free' = free \cup {e.slot}
      /\ conv' = [conv EXCEPT ![e.slot] = StaleWindow]
      /\ UNCHANGED <<live, ctx, work, track, trackLen, inter, batch, drafts>>
  BY DEF Evict
<1>2. /\ conv' \in [Slots -> Window]
      /\ \A s \in Slots : s # e.slot => conv'[s] = conv[s]
  BY <1>1 DEF IInv, TypeOK, StaleWindow, Window, Cell
<1>3. TypeOK' /\ IdleRequests' /\ SavedRows'
  BY <1>1, <1>2, SlotsApart
     DEF IInv, TypeOK, Rows, IdleRequests, SavedRows, HasInitialState
<1>4. SlotOwnership'
  BY <1>1, SlotsApart DEF SlotOwnership, Owned
<1>5. \A q \in live : /\ conv'[work[q]] = conv[work[q]]
                      /\ conv'[track[q]] = conv[track[q]]
  BY <1>2, SlotsApart
<1>6. WorkingWindow' /\ TrackedWindow'
  BY <1>1, <1>5 DEF IInv, WorkingWindow, HasInitialState, TrackedWindow
<1>7. CachedPrefix'
  BY <1>1, <1>2, SlotsApart DEF IInv, CachedPrefix
<1> QED
  BY <1>3, <1>4, <1>6, <1>7 DEF IInv

LEMMA FinishIInv ==
  ASSUME IInv, NEW r \in Reqs, Finish(r)
  PROVE  IInv'
<1>1. /\ r \in live /\ ~InFlight(r)
      /\ live' = live \ {r}
      /\ ctx' = [ctx EXCEPT ![r] = << >>]
      /\ free' = free \cup {work[r], track[r]}
      /\ conv' = [s \in Slots |-> IF s \in {work[r], track[r]}
                                  THEN StaleWindow ELSE conv[s]]
      /\ work' = [work EXCEPT ![r] = NoSlot]
      /\ track' = [track EXCEPT ![r] = NoSlot]
      /\ trackLen' = [trackLen EXCEPT ![r] = 0]
      /\ UNCHANGED <<inter, batch, drafts, tree>>
  BY DEF Finish
<1>2. /\ work[r] \in Slots /\ track[r] \in Slots
      /\ \A q \in live' : /\ q \in live /\ q # r
                          /\ ctx'[q] = ctx[q] /\ trackLen'[q] = trackLen[q]
                          /\ work'[q] = work[q] /\ track'[q] = track[q]
                          /\ conv'[work'[q]] = conv[work[q]]
                          /\ conv'[track'[q]] = conv[track[q]]
  BY <1>1, SlotsApart DEF IInv, TypeOK
<1>3. conv' \in [Slots -> Window]
  BY <1>1 DEF IInv, TypeOK, StaleWindow, Window, Cell
<1>4. \A i \in Rows : batch[i] \in live' /\ batch[i] # r
  BY <1>1, RowsLive DEF InFlight
<1>5. batch' \in Seq(live')
  BY <1>1, <1>4 DEF IInv, TypeOK, Rows
<1>6. ctx' \in [Reqs -> Seq(Inputs)] /\ ctx'[r] = << >>
  <2>1. << >> \in Seq(Inputs)
    OBVIOUS
  <2> QED
    BY <1>1, <2>1 DEF IInv, TypeOK
<1>7. TypeOK'
  <2>1. /\ live' \in SUBSET Reqs /\ free' \in SUBSET Slots
        /\ work' \in [Reqs -> Slots \cup {NoSlot}]
        /\ track' \in [Reqs -> Slots \cup {NoSlot}]
        /\ trackLen' \in [Reqs -> Nat]
    BY <1>1, <1>2 DEF IInv, TypeOK
  <2> QED
    BY <1>1, <1>3, <1>5, <1>6, <2>1 DEF IInv, TypeOK, Rows
<1>8. IdleRequests'
  BY <1>1, <1>6 DEF IInv, TypeOK, IdleRequests
<1>9. SavedRows'
  BY <1>1, <1>2, <1>4 DEF IInv, SavedRows, Rows, HasInitialState
<1>10. SlotOwnership'
  <2>1. ASSUME NEW q \in live'
        PROVE  /\ work'[q] \in Slots /\ track'[q] \in Slots
               /\ work'[q] # track'[q]
               /\ {work'[q], track'[q]} \cap free' = {}
    BY <1>1, <1>2, SlotsApart
  <2>2. ASSUME NEW p \in live', NEW q \in live', p # q
        PROVE  {work'[p], track'[p]} \cap {work'[q], track'[q]} = {}
    BY <1>2, <2>2, SlotsApart
  <2>3. ASSUME NEW f \in tree'
        PROVE  /\ f.slot \notin free'
               /\ \A q \in live' : f.slot \notin {work'[q], track'[q]}
    BY <1>1, <1>2, SlotsApart
  <2> QED
    BY <1>1, <2>1, <2>2, <2>3, SlotsApart DEF SlotOwnership, Owned
<1>11. WorkingWindow' /\ TrackedWindow'
  BY <1>2, RequestKept DEF HasInitialState, WorkingWindow, TrackedWindow
<1>12. CachedPrefix'
  BY <1>1, SlotsApart DEF IInv, CachedPrefix
<1> QED
  BY <1>7, <1>8, <1>9, <1>10, <1>11, <1>12 DEF IInv

LEMMA StutterIInv ==
  ASSUME IInv, UNCHANGED vars
  PROVE  IInv'
BY DEF vars, IInv, TypeOK, Rows, IdleRequests, SlotOwnership, Owned, SavedRows,
   HasInitialState, WorkingWindow, TrackedWindow, CachedPrefix
-----------------------------------------------------------------------------
(***************************************************************************)
(* Every step keeps the inductive invariant, whatever kernel, admission,   *)
(* eviction or completion it is.                                           *)
(***************************************************************************)
LEMMA NextIInv ==
  ASSUME IInv, [Next]_vars
  PROVE  IInv'
<1>1. ASSUME NEW r \in Reqs, AdmitMiss(r) PROVE IInv'
  BY <1>1, AdmitMissIInv
<1>2. ASSUME NEW r \in Reqs, NEW e \in tree, AdmitHit(r, e) PROVE IInv'
  BY <1>2, AdmitHitIInv
<1>3. ASSUME NEW r \in Reqs, InsertPrefix(r) PROVE IInv'
  BY <1>3, InsertPrefixIInv
<1>4. ASSUME NEW r \in Reqs, Finish(r) PROVE IInv'
  BY <1>4, FinishIInv
<1>5. ASSUME NEW e \in tree, Evict(e) PROVE IInv'
  BY <1>5, EvictIInv
<1>6. ASSUME NEW S \in SUBSET live, NEW xs \in [S -> Run(1, MaxContext)],
             Extend(S, xs)
      PROVE  IInv'
  BY <1>6, ExtendIInv
<1>7. ASSUME NEW S \in SUBSET live, NEW x \in [S -> Inputs], Decode(S, x)
      PROVE  IInv'
  BY <1>7, DecodeIInv
<1>8. ASSUME NEW b \in Batches,
             NEW xs \in [DOMAIN b -> [1..DraftTokens -> Inputs]],
             TargetVerify(b, xs)
      PROVE  IInv'
  BY <1>8, TargetVerifyIInv
<1>9. ASSUME NEW accepted \in [Rows -> Steps], CommitVerified(accepted)
      PROVE  IInv'
  BY <1>9, CommitVerifiedIInv
<1>10. CASE UNCHANGED vars
  BY <1>10, StutterIInv
<1> QED
  BY <1>1, <1>2, <1>3, <1>4, <1>5, <1>6, <1>7, <1>8, <1>9, <1>10 DEF Next

(* The inductive invariant holds in every reachable state.                 *)
THEOREM InductiveInvariant == Spec => []IInv
BY InitIInv, NextIInv, PTL DEF Spec

(***************************************************************************)
(* The short-convolution cache is type correct: every slot always holds a  *)
(* whole window and every buffer has one row per request of its batch.     *)
(***************************************************************************)
THEOREM TypeCorrect == Spec => []TypeOK
<1>1. IInv => TypeOK
  BY DEF IInv
<1> QED
  BY <1>1, InductiveInvariant, PTL

(***************************************************************************)
(* The result the cache exists for: the working slot of a request with     *)
(* tokens is the window of exactly its committed tokens, for any number of *)
(* requests, kernel size, draft length and chunk size.                     *)
(***************************************************************************)
THEOREM WorkingStateCorrect == Spec => []WorkingWindow
<1>1. IInv => WorkingWindow
  BY DEF IInv
<1> QED
  BY <1>1, InductiveInvariant, PTL

(* Snapshots are the state at their recorded length.                       *)
THEOREM SnapshotCorrect == Spec => []TrackedWindow
<1>1. IInv => TrackedWindow
  BY DEF IInv
<1> QED
  BY <1>1, InductiveInvariant, PTL

(* Cached prefixes keep the state of their prefix.                         *)
THEOREM PrefixStateCorrect == Spec => []CachedPrefix
<1>1. IInv => CachedPrefix
  BY DEF IInv
<1> QED
  BY <1>1, InductiveInvariant, PTL

(* The positional buffer holds the window after every draft position.      *)
THEOREM SavedRowsCorrect == Spec => []SavedRows
<1>1. IInv => SavedRows
  BY DEF IInv
<1> QED
  BY <1>1, InductiveInvariant, PTL
-----------------------------------------------------------------------------
(***************************************************************************)
(* The refinement.  In every state that satisfies the invariant the window *)
(* a request sees is the window of its tokens, so what a step does to the  *)
(* reference is decided by what it does to the tokens: it leaves them      *)
(* alone, appends a run to some of them, or ends one request.              *)
(***************************************************************************)
SeesOwnWindow == VisibleWindow = [r \in Reqs |-> WindowOf(ctx[r])]

LEMMA VisibleIsWindow == IInv => SeesOwnWindow
<1> SUFFICES ASSUME IInv
             PROVE  VisibleWindow = [r \in Reqs |-> WindowOf(ctx[r])]
  BY DEF SeesOwnWindow
<1>1. ASSUME NEW r \in Reqs PROVE VisibleWindow[r] = WindowOf(ctx[r])
  <2>1. ctx[r] \in Seq(Inputs)
    BY DEF IInv, TypeOK
  <2>2. CASE HasInitialState(r)
    <3>1. r \in live
      BY <2>2 DEF HasInitialState, IInv, IdleRequests
    <3> QED BY <2>2, <3>1 DEF VisibleWindow, IInv, WorkingWindow
  <2>3. CASE ~HasInitialState(r)
    <3>1. ctx[r] = << >>
      BY <2>1, <2>3 DEF HasInitialState
    <3> QED BY <2>3, <3>1, WindowOfEmpty DEF VisibleWindow
  <2> QED BY <2>2, <2>3
<1> QED BY <1>1 DEF VisibleWindow

LEMMA VisibleBeforeAndAfter ==
  IInv /\ IInv' => /\ VisibleWindow = [r \in Reqs |-> WindowOf(ctx[r])]
                   /\ VisibleWindow' = [r \in Reqs |-> WindowOf(ctx'[r])]
<1>1. IInv' => SeesOwnWindow'
  BY VisibleIsWindow, PTL
<1> QED BY <1>1, VisibleIsWindow DEF SeesOwnWindow

LEMMA SameFeed == \A win, xs : Ref!FeedAll(win, xs) = FeedAll(win, xs)
BY DEF Ref!FeedAll, FeedAll, Ref!ShiftIn, ShiftIn

(* What the reference does for a request whose tokens are continued.       *)
LEMMA ContinuedInRef ==
  ASSUME NEW g \in Seq(Inputs), NEW h \in Seq(Inputs), Continues(g, h), g # h
  PROVE  /\ Ref!IsStrictPrefix(g, h)
         /\ WindowOf(h) = Ref!FeedAll(WindowOf(g), SubSeq(h, Len(g) + 1, Len(h)))
BY Continued, SameFeed DEF Ref!IsStrictPrefix, Ref!IsPrefix

LEMMA FeedStep ==
  ASSUME IInv, IInv', \A r \in Reqs : Continues(ctx[r], ctx'[r])
  PROVE  Ref!Next
<1> DEFINE S == {r \in Reqs : ctx'[r] # ctx[r]}
<1>1. /\ VisibleWindow = [r \in Reqs |-> WindowOf(ctx[r])]
      /\ VisibleWindow' = [r \in Reqs |-> WindowOf(ctx'[r])]
  BY VisibleBeforeAndAfter
<1>2. \A r \in Reqs : ctx[r] \in Seq(Inputs) /\ ctx'[r] \in Seq(Inputs)
  BY DEF IInv, TypeOK
<1>3. ASSUME NEW r \in S
      PROVE  /\ Ref!IsStrictPrefix(ctx[r], ctx'[r])
             /\ VisibleWindow'[r] = Ref!FeedAll(VisibleWindow[r],
                                      SubSeq(ctx'[r], Len(ctx[r]) + 1, Len(ctx'[r])))
  BY <1>1, <1>2, ContinuedInRef
<1>4. ASSUME NEW r \in Reqs \ S
      PROVE  ctx'[r] = ctx[r] /\ VisibleWindow'[r] = VisibleWindow[r]
  BY <1>1
<1>5. Ref!Feed(S)
  BY <1>3, <1>4 DEF Ref!Feed
<1>6. S \in SUBSET Reqs
  OBVIOUS
<1> HIDE DEF S
<1> QED BY <1>5, <1>6 DEF Ref!Next

LEMMA EndStep ==
  ASSUME IInv, IInv', NEW r \in Reqs, ctx' = [ctx EXCEPT ![r] = << >>]
  PROVE  Ref!Next
<1>1. /\ VisibleWindow = [q \in Reqs |-> WindowOf(ctx[q])]
      /\ VisibleWindow' = [q \in Reqs |-> WindowOf(ctx'[q])]
  BY VisibleBeforeAndAfter
<1>2. ctx \in [Reqs -> Seq(Inputs)] /\ ctx'[r] = << >>
  BY DEF IInv, TypeOK
<1>3. \A q \in Reqs : q # r => ctx'[q] = ctx[q]
  BY <1>2
<1>4. VisibleWindow' = [VisibleWindow EXCEPT ![r] = ZeroWindow]
  BY <1>1, <1>2, <1>3, WindowOfEmpty
<1>5. Ref!ZeroWindow = ZeroWindow
  BY DEF Ref!ZeroWindow, ZeroWindow
<1>6. Ref!End(r)
  BY <1>4, <1>5 DEF Ref!End
<1> QED BY <1>6 DEF Ref!Next

(* The steps that leave every request its tokens.                          *)
LEMMA SilentStep ==
  ASSUME IInv, IInv', ctx' = ctx
  PROVE  UNCHANGED Ref!refVars
BY VisibleBeforeAndAfter DEF Ref!refVars

LEMMA RunGiven ==
  ASSUME NEW xs \in Run(1, MaxContext)
  PROVE  xs \in Seq(Inputs)
<1>1. PICK n \in 1 .. MaxContext : xs \in [1 .. n -> Inputs]
  BY DEF Run
<1> QED BY <1>1, RunIsSeq

LEMMA ExtendFeeds ==
  ASSUME IInv, IInv', NEW S \in SUBSET live, NEW xs \in [S -> Run(1, MaxContext)],
         Extend(S, xs)
  PROVE  Ref!Next
<1>1. ASSUME NEW r \in Reqs PROVE Continues(ctx[r], ctx'[r])
  <2>1. ctx'[r] = IF r \in S THEN ctx[r] \o xs[r] ELSE ctx[r]
    BY DEF Extend
  <2>2. ctx[r] \in Seq(Inputs)
    BY DEF IInv, TypeOK
  <2>3. CASE r \in S
    <3>1. xs[r] \in Seq(Inputs)
      BY <2>3, RunGiven
    <3> QED BY <2>1, <2>3, <3>1 DEF Continues
  <2> QED BY <2>1, <2>2, <2>3, ContinuesItself
<1> QED BY <1>1, FeedStep

LEMMA DecodeFeeds ==
  ASSUME IInv, IInv', NEW S \in SUBSET live, NEW x \in [S -> Inputs], Decode(S, x)
  PROVE  Ref!Next
<1>1. ASSUME NEW r \in Reqs PROVE Continues(ctx[r], ctx'[r])
  <2>1. ctx'[r] = IF r \in S THEN Append(ctx[r], x[r]) ELSE ctx[r]
    BY DEF Decode
  <2>2. ctx[r] \in Seq(Inputs)
    BY DEF IInv, TypeOK
  <2>3. CASE r \in S
    <3>1. <<x[r]>> \in Seq(Inputs) /\ Append(ctx[r], x[r]) = ctx[r] \o <<x[r]>>
      BY <2>2, <2>3
    <3> QED BY <2>1, <2>3, <3>1 DEF Continues
  <2> QED BY <2>1, <2>2, <2>3, ContinuesItself
<1> QED BY <1>1, FeedStep

LEMMA CommitFeeds ==
  ASSUME IInv, IInv', NEW accepted \in [Rows -> Steps], CommitVerified(accepted)
  PROVE  Ref!Next
<1>1. ASSUME NEW r \in Reqs PROVE Continues(ctx[r], ctx'[r])
  <2>1. ctx'[r] = IF InFlight(r)
                  THEN ctx[r] \o SubSeq(drafts[RowOf(r)], 1, accepted[RowOf(r)] + 1)
                  ELSE ctx[r]
    BY DEF CommitVerified
  <2>2. ctx[r] \in Seq(Inputs)
    BY DEF IInv, TypeOK
  <2>3. CASE InFlight(r)
    <3>1. RowOf(r) \in Rows
      BY <2>3 DEF InFlight, RowOf
    <3>2. drafts[RowOf(r)] \in [1 .. DraftTokens -> Inputs]
      BY <3>1 DEF IInv, TypeOK
    <3>3. drafts[RowOf(r)] \in Seq(Inputs) /\ Len(drafts[RowOf(r)]) = DraftTokens
      BY <3>2, RunIsSeq
    <3>4. accepted[RowOf(r)] + 1 \in 0 .. Len(drafts[RowOf(r)])
      BY <3>1, <3>3
    <3>5. SubSeq(drafts[RowOf(r)], 1, accepted[RowOf(r)] + 1) \in Seq(Inputs)
      BY <3>3, <3>4
    <3> QED BY <2>1, <2>3, <3>5 DEF Continues
  <2> QED BY <2>1, <2>2, <2>3, ContinuesItself
<1> QED BY <1>1, FeedStep

(* A prefix hit feeds the whole prefix to a request that had no token.     *)
LEMMA HitFeeds ==
  ASSUME IInv, IInv', NEW r \in Reqs, NEW e \in tree, AdmitHit(r, e)
  PROVE  Ref!Next
<1>1. ctx[r] = << >> /\ ctx \in [Reqs -> Seq(Inputs)]
  BY DEF AdmitHit, Allocate, IInv, IdleRequests, TypeOK
<1>2. e.prefix \in Seq(Inputs)
  BY SlotsApart
<1>3. ctx' = [ctx EXCEPT ![r] = e.prefix]
  BY DEF AdmitHit
<1>4. ASSUME NEW q \in Reqs PROVE Continues(ctx[q], ctx'[q])
  <2>1. CASE q = r
    <3>1. ctx'[q] = ctx[q] \o e.prefix
      BY <1>1, <1>2, <1>3, <2>1
    <3> QED BY <1>2, <3>1 DEF Continues
  <2>2. CASE q # r
    BY <1>1, <1>3, <2>2, ContinuesItself
  <2> QED BY <2>1, <2>2
<1> QED BY <1>4, FeedStep

LEMMA StepRefines ==
  ASSUME IInv, [Next]_vars
  PROVE  [Ref!Next]_(Ref!refVars)
<1> USE NextIInv
<1>1. ASSUME NEW r \in Reqs, AdmitMiss(r) PROVE UNCHANGED Ref!refVars
  BY <1>1, SilentStep DEF AdmitMiss
<1>2. ASSUME NEW r \in Reqs, NEW e \in tree, AdmitHit(r, e) PROVE Ref!Next
  BY <1>2, HitFeeds
<1>3. ASSUME NEW r \in Reqs, InsertPrefix(r) PROVE UNCHANGED Ref!refVars
  BY <1>3, SilentStep DEF InsertPrefix
<1>4. ASSUME NEW r \in Reqs, Finish(r) PROVE Ref!Next
  BY <1>4, EndStep DEF Finish
<1>5. ASSUME NEW e \in tree, Evict(e) PROVE UNCHANGED Ref!refVars
  BY <1>5, SilentStep DEF Evict
<1>6. ASSUME NEW S \in SUBSET live, NEW xs \in [S -> Run(1, MaxContext)],
             Extend(S, xs)
      PROVE  Ref!Next
  BY <1>6, ExtendFeeds
<1>7. ASSUME NEW S \in SUBSET live, NEW x \in [S -> Inputs], Decode(S, x)
      PROVE  Ref!Next
  BY <1>7, DecodeFeeds
<1>8. ASSUME NEW b \in Batches,
             NEW xs \in [DOMAIN b -> [1..DraftTokens -> Inputs]],
             TargetVerify(b, xs)
      PROVE  UNCHANGED Ref!refVars
  BY <1>8, SilentStep DEF TargetVerify
<1>9. ASSUME NEW accepted \in [Rows -> Steps], CommitVerified(accepted)
      PROVE  Ref!Next
  BY <1>9, CommitFeeds
<1>10. CASE UNCHANGED vars
  BY <1>10, SilentStep DEF vars
<1> QED
  BY <1>1, <1>2, <1>3, <1>4, <1>5, <1>6, <1>7, <1>8, <1>9, <1>10 DEF Next

LEMMA InitRefines == Init => Ref!Init
BY DEF Init, Ref!Init, VisibleWindow, HasInitialState, Ref!ZeroWindow, ZeroWindow

(***************************************************************************)
(* The short-convolution cache implements its reference: whatever batches, *)
(* chunks, verified runs, prefix hits and slot reuse a request goes        *)
(* through, it sees the convolution state of its own tokens fed one at a   *)
(* time from an empty state.                                               *)
(***************************************************************************)
THEOREM CacheImplementsReference == Spec => ImplementsReference
<1>1. IInv /\ [Next]_vars => [Ref!Next]_(Ref!refVars)
  BY StepRefines
<1> QED
  BY InitRefines, <1>1, InductiveInvariant, PTL DEF Spec, ImplementsReference, Ref!Spec
=============================================================================
