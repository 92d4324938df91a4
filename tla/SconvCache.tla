----------------------------- MODULE SconvCache -----------------------------
(***************************************************************************)
(* The short-convolution cache of one layer of the served model, from      *)
(* patches/files/sconv.py (ShortConvolution) and patches/files/inkling.py  *)
(* (update_conv_state_after_mtp_verify).                                   *)
(*                                                                         *)
(* Every request owns a WORKING slot, holding the convolution state of the *)
(* tokens it has committed, and a TRACK slot, into which the same kernels  *)
(* snapshot the state at chunk or interval boundaries so that the prefix   *)
(* cache can hand it to a later request.  Prefill and decode advance the   *)
(* working slot at once.  Under speculative decoding the target VERIFIES a *)
(* run of draft tokens without touching the working slot: it saves the     *)
(* window after every draft position into a positional buffer, and once    *)
(* the sampler has decided how many drafts are accepted a separate COMMIT, *)
(* outside the forward pass, copies one saved window per request.          *)
(*                                                                         *)
(* The scheduler, the slot allocator, the prefix tree, the speculative     *)
(* worker and the CUDA kernels are not part of the repository; they are    *)
(* modelled from how the two files use them.                               *)
(***************************************************************************)
EXTENDS ConvWindow, FiniteSets

CONSTANTS
  Reqs,          \* request identities
  Slots,         \* cache slots (the mamba indices)
  NoSlot,        \* a request that is not admitted has no slots
  DraftTokens,   \* draft_token_num: tokens verified per request and round
  ChunkSize,     \* mamba_cache_chunk_size: alignment of a prefill snapshot
  TrackInterval, \* interval at which decode and commit snapshot
  StepBias,      \* INKLING_COMMIT_STEP_BIAS, 1 in every launcher
  MaxContext     \* bound on the tokens of a request (the context length)

ASSUME SconvAssumption ==
  /\ IsFiniteSet(Reqs)
  /\ NoSlot \notin Slots
  /\ DraftTokens \in Nat \ {0}
  /\ ChunkSize \in Nat \ {0}
  /\ TrackInterval \in Nat \ {0}
  /\ StepBias = 1
  /\ MaxContext \in Nat
  /\ StateLen <= ChunkSize

VARIABLES
  live,      \* the admitted requests
  ctx,       \* per request, the inputs of its committed tokens
  work,      \* per request, its working slot
  track,     \* per request, the slot its next snapshot goes to
  trackLen,  \* per request, the length its snapshot was taken at (0: none)
  conv,      \* sconv_cache: the window in every slot
  inter,     \* intermediate_conv_window: per batch row and step, a window
  batch,     \* the batch verified and not yet committed, as a row sequence
  drafts,    \* the verified tokens of each of its rows
  free,      \* the slots of the allocator
  tree       \* the prefix cache: a prefix and the slot holding its state

vars == <<live, ctx, work, track, trackLen, conv, inter, batch, drafts,
          free, tree>>

Rows  == DOMAIN batch
Steps == 0..(DraftTokens - 1)
InFlight(r) == \E i \in Rows : batch[i] = r
RowOf(r) == CHOOSE i \in Rows : batch[i] = r
Run(lo, hi) == UNION {[1..n -> Inputs] : n \in lo..hi}

(* A masked scatter: row i of w goes to slot dst[i], other slots keep c.   *)
(* Variant: the rows that are masked out write to their slots too.         *)
ScatterUnmasked(c, I, dst, w) ==
  [s \in Slots |-> IF \E i \in I : dst[i] = s
                   THEN w[CHOOSE i \in I : dst[i] = s]
                   ELSE IF \E i \in DOMAIN dst \ I : dst[i] = s THEN StaleWindow ELSE c[s]]

Scatter(c, I, dst, w) ==
  [s \in Slots |-> IF \E i \in I : dst[i] = s
                   THEN w[CHOOSE i \in I : dst[i] = s] ELSE c[s]]

(* The slot the allocator gives next; which one is immaterial. *)
Pick(S) == CHOOSE s \in S : TRUE
-----------------------------------------------------------------------------
(***************************************************************************)
(* The state in front of an extend: zeros for a request without a prefix,  *)
(* whatever its newly allocated slot holds, and its slot otherwise.  The   *)
(* batches here are the target model's; a draft extend, which starts from  *)
(* zeros when it has tokens in front of the accepted ones, is none.        *)
(***************************************************************************)
HasInitialState(r) == Len(ctx[r]) > 0

SlotState(r) == conv[work[r]]     \* the slot is not cleared, nor masked

InitialState(r) == IF HasInitialState(r) THEN conv[work[r]] ELSE ZeroWindow

(***************************************************************************)
(* Prefill snapshots the window that ends at the last whole chunk of the   *)
(* new tokens.  The code gathers it by index from the packed batch; an     *)
(* index outside the request's own rows reads another request's token (or  *)
(* a clamped duplicate), which is never right: Stale.                      *)
(***************************************************************************)
AlignedLen(n) == (n \div ChunkSize) * ChunkSize

PackedCell(xs, j) == IF j \in 1..Len(xs) THEN xs[j] ELSE Stale

LastWindow(xs) == [i \in 1..StateLen |-> PackedCell(xs, Len(xs) - StateLen + i)]

ChunkWindow(xs) ==
  [i \in 1..StateLen |-> PackedCell(xs, AlignedLen(Len(xs)) - StateLen + i)]

(* The inputs save_intermediate_conv_windows is given: it is called before *)
(* causal_conv1d, which writes through the same buffer.                    *)
AfterConv1d(xs) == [i \in DOMAIN xs |-> <<"convolved", xs[i]>>]

SavedOperand(xs) == xs

(* Row b of the positional buffer after a verify: the window AFTER each    *)
(* draft position, from the unchanged working slot.                        *)
WindowsBefore(win, xs) ==
  [t \in Steps |-> WindowAt(win, SavedOperand(xs), t)]

SavedWindows(win, xs) ==
  [t \in Steps |-> WindowAt(win, SavedOperand(xs), t + 1)]

(* The speculative worker passes the last accepted step from commit_lens,  *)
(* which excludes the bonus token: one less than the accepted drafts.      *)
LastCorrectStep(accepted) == accepted - 1

(* The step whose window is committed. *)
UnbiasedStep(step) == IF step < 0 THEN 0 ELSE step

CommitStep(step) ==
  LET biased == step + StepBias
  IN  IF biased < 0 THEN 0
      ELSE IF biased > DraftTokens - 1 THEN DraftTokens - 1 ELSE biased

(* mamba_steps_to_track: the step that reaches the last interval boundary  *)
(* the accepted run crosses, -1 when it crosses none.                      *)
Boundary(len) == (len \div TrackInterval) * TrackInterval

StepToTrack(pre, post) ==
  IF pre \div TrackInterval # post \div TrackInterval
  THEN Boundary(post) - pre - 1 ELSE -1
-----------------------------------------------------------------------------
Init ==
  /\ live = {}
  /\ ctx = [r \in Reqs |-> << >>]
  /\ work = [r \in Reqs |-> NoSlot]
  /\ track = [r \in Reqs |-> NoSlot]
  /\ trackLen = [r \in Reqs |-> 0]
  /\ conv = [s \in Slots |-> StaleWindow]
  /\ inter = << >>
  /\ batch = << >>
  /\ drafts = << >>
  /\ free = Slots
  /\ tree = {}

(***************************************************************************)
(* The scheduler admits a request: two slots, and on a prefix hit a copy   *)
(* of the cached state.  A slot without a prefix is not cleared.           *)
(***************************************************************************)
Allocate(r) ==
  LET w == Pick(free)
      k == Pick(free \ {w})
  IN  /\ r \in Reqs \ live
      /\ free # {} /\ free \ {w} # {}
      /\ live' = live \cup {r}
      /\ work' = [work EXCEPT ![r] = w]
      /\ track' = [track EXCEPT ![r] = k]
      /\ free' = free \ {w, k}

AdmitMiss(r) ==
  /\ Allocate(r)
  /\ UNCHANGED <<ctx, trackLen, conv, inter, batch, drafts, tree>>

AdmitHit(r, e) ==
  /\ Allocate(r)
  /\ ctx' = [ctx EXCEPT ![r] = e.prefix]
  /\ conv' = [conv EXCEPT ![work'[r]] = conv[e.slot]]
  /\ UNCHANGED <<trackLen, inter, batch, drafts, tree>>

(***************************************************************************)
(* A prefill (or chunk of one) of the requests S, request r with the new   *)
(* inputs xs[r]: snapshot, convolve, then update the working slots.        *)
(***************************************************************************)
Extend(S, xs) ==
  LET tracked == {r \in S : Len(xs[r]) >= ChunkSize}
      snapped == Scatter(conv, tracked, track,
                         [r \in tracked |-> ChunkWindow(xs[r])])
  IN  /\ batch = << >>
      /\ S # {} /\ S \subseteq live
      /\ \A r \in S : /\ Len(xs[r]) > 0
                      /\ Len(ctx[r]) + Len(xs[r]) <= MaxContext
      /\ conv' = Scatter(snapped, S, work,
                   [r \in S |-> WindowAt(InitialState(r), xs[r], Len(xs[r]))])
      /\ ctx' = [r \in Reqs |-> IF r \in S THEN ctx[r] \o xs[r] ELSE ctx[r]]
      /\ trackLen' = [r \in Reqs |-> IF r \in tracked
                        THEN Len(ctx[r]) + AlignedLen(Len(xs[r]))
                        ELSE trackLen[r]]
      /\ UNCHANGED <<live, work, track, inter, batch, drafts, free, tree>>

(***************************************************************************)
(* One decoded token for each request of S; a request that reaches an      *)
(* interval boundary has its updated window copied to its track slot by    *)
(* the same kernel.                                                        *)
(***************************************************************************)
Decode(S, x) ==
  LET next    == [r \in S |-> WindowAt(conv[work[r]], <<x[r]>>, 1)]
      tracked == {r \in S : (Len(ctx[r]) + 1) % TrackInterval = 0}
  IN  /\ batch = << >>
      /\ S # {} /\ S \subseteq live
      /\ \A r \in S : HasInitialState(r) /\ Len(ctx[r]) < MaxContext
      /\ conv' = Scatter(Scatter(conv, S, work, next), tracked, track, next)
      /\ ctx' = [r \in Reqs |-> IF r \in S THEN Append(ctx[r], x[r])
                                           ELSE ctx[r]]
      /\ trackLen' = [r \in Reqs |-> IF r \in tracked THEN Len(ctx[r]) + 1
                                                      ELSE trackLen[r]]
      /\ UNCHANGED <<live, work, track, inter, batch, drafts, free, tree>>

(***************************************************************************)
(* A TARGET_VERIFY forward of the rows b, each with DraftTokens inputs: no *)
(* working slot changes, the positional buffer is filled row by row.       *)
(***************************************************************************)
TargetVerify(b, xs) ==
  /\ batch = << >>
  /\ \A i \in DOMAIN b : /\ b[i] \in live
                         /\ HasInitialState(b[i])
                         /\ Len(ctx[b[i]]) + DraftTokens <= MaxContext
  /\ inter' = [i \in DOMAIN b |-> SavedWindows(conv[work[b[i]]], xs[i])]
  /\ batch' = b
  /\ drafts' = xs
  /\ UNCHANGED <<live, ctx, work, track, trackLen, conv, free, tree>>

(***************************************************************************)
(* update_conv_state_after_mtp_verify, torch path: commit to the working   *)
(* slots, then the crossed boundaries to the track slots.  Row i accepted  *)
(* accepted[i] of its drafts, so the token it started from and those.      *)
(***************************************************************************)
CommitVerified(accepted) ==
  LET step    == [i \in Rows |-> CommitStep(LastCorrectStep(accepted[i]))]
      valid   == {i \in Rows : step[i] >= 0}
      tstep   == [i \in Rows |-> StepToTrack(Len(ctx[batch[i]]),
                                   Len(ctx[batch[i]]) + accepted[i] + 1)]
      tvalid  == {i \in Rows : tstep[i] >= 0}
      done    == Scatter(conv, valid, [i \in valid |-> work[batch[i]]],
                         [i \in valid |-> inter[i][step[i]]])
  IN  /\ batch # << >>
      /\ conv' = Scatter(done, tvalid, [i \in tvalid |-> track[batch[i]]],
                         [i \in tvalid |-> inter[i][tstep[i]]])
      /\ ctx' = [r \in Reqs |-> IF InFlight(r)
                   THEN ctx[r] \o SubSeq(drafts[RowOf(r)], 1,
                                         accepted[RowOf(r)] + 1)
                   ELSE ctx[r]]
      /\ trackLen' = [r \in Reqs |-> IF InFlight(r) /\ RowOf(r) \in tvalid
                        THEN Boundary(Len(ctx[r]) + accepted[RowOf(r)] + 1)
                        ELSE trackLen[r]]
      /\ inter' = << >> /\ batch' = << >> /\ drafts' = << >>
      /\ UNCHANGED <<live, work, track, free, tree>>

(***************************************************************************)
(* The prefix cache takes over a request's snapshot with its slot, and the *)
(* request gets a fresh track slot.  A prefix it already holds is dropped. *)
(***************************************************************************)
InsertPrefix(r) ==
  LET prefix == SubSeq(ctx[r], 1, trackLen[r])
  IN  /\ r \in live /\ ~InFlight(r) /\ trackLen[r] > 0
      /\ trackLen' = [trackLen EXCEPT ![r] = 0]
      /\ \/ /\ \E e \in tree : e.prefix = prefix
            /\ UNCHANGED <<track, free, tree>>
         \/ /\ \A e \in tree : e.prefix # prefix
            /\ free # {}
            /\ tree' = tree \cup {[prefix |-> prefix, slot |-> track[r]]}
            /\ track' = [track EXCEPT ![r] = Pick(free)]
            /\ free' = free \ {Pick(free)}
      /\ UNCHANGED <<live, ctx, work, conv, inter, batch, drafts>>

Evict(e) ==
  /\ tree' = tree \ {e}
  /\ free' = free \cup {e.slot}
  /\ conv' = [conv EXCEPT ![e.slot] = StaleWindow]
  /\ UNCHANGED <<live, ctx, work, track, trackLen, inter, batch, drafts>>

Finish(r) ==
  /\ r \in live /\ ~InFlight(r)
  /\ live' = live \ {r}
  /\ ctx' = [ctx EXCEPT ![r] = << >>]
  /\ free' = free \cup {work[r], track[r]}
  /\ conv' = [s \in Slots |-> IF s \in {work[r], track[r]}
                              THEN StaleWindow ELSE conv[s]]
  /\ work' = [work EXCEPT ![r] = NoSlot]
  /\ track' = [track EXCEPT ![r] = NoSlot]
  /\ trackLen' = [trackLen EXCEPT ![r] = 0]
  /\ UNCHANGED <<inter, batch, drafts, tree>>
-----------------------------------------------------------------------------
Batches == UNION {{b \in [1..n -> live] :
                     \A i, j \in 1..n : b[i] = b[j] => i = j}
                   : n \in 1..Cardinality(live)}

Next ==
  \/ \E r \in Reqs :
       \/ AdmitMiss(r)
       \/ \E e \in tree : AdmitHit(r, e)
       \/ InsertPrefix(r)
       \/ Finish(r)
  \/ \E e \in tree : Evict(e)
  \/ \E S \in SUBSET live : \E xs \in [S -> Run(1, MaxContext)] : Extend(S, xs)
  \/ \E S \in SUBSET live : \E x \in [S -> Inputs] : Decode(S, x)
  \/ \E b \in Batches :
       \E xs \in [DOMAIN b -> [1..DraftTokens -> Inputs]] : TargetVerify(b, xs)
  \/ \E accepted \in [Rows -> Steps] : CommitVerified(accepted)

Spec == Init /\ [][Next]_vars
-----------------------------------------------------------------------------
(***************************************************************************)
(* The types of the variables.                                             *)
(***************************************************************************)
Prefix == [prefix : Seq(Inputs), slot : Slots]

TypeOK ==
  /\ live \in SUBSET Reqs
  /\ ctx \in [Reqs -> Seq(Inputs)]
  /\ work \in [Reqs -> Slots \cup {NoSlot}]
  /\ track \in [Reqs -> Slots \cup {NoSlot}]
  /\ trackLen \in [Reqs -> Nat]
  /\ conv \in [Slots -> Window]
  /\ batch \in Seq(live)
  /\ drafts \in [Rows -> [1..DraftTokens -> Inputs]]
  /\ inter \in [Rows -> [Steps -> Window]]
  /\ free \in SUBSET Slots
  /\ tree \in SUBSET Prefix

(***************************************************************************)
(* What the allocator and the prefix tree see to, a part of the inductive  *)
(* invariant below and no result of its own: working slots, track slots,   *)
(* cached prefixes and the free list are pairwise disjoint.  The kernels   *)
(* address slots by number only.                                           *)
(***************************************************************************)
Owned(r) == {work[r], track[r]}

SlotOwnership ==
  /\ \A r \in live : /\ work[r] \in Slots /\ track[r] \in Slots
                     /\ work[r] # track[r]
                     /\ Owned(r) \cap free = {}
  /\ \A r, q \in live : r # q => Owned(r) \cap Owned(q) = {}
  /\ \A e \in tree : /\ e.slot \notin free
                     /\ \A r \in live : e.slot \notin Owned(r)
  /\ \A e, f \in tree : e.slot = f.slot => e = f

(***************************************************************************)
(* Between a verify and its commit, row i of the positional buffer holds,  *)
(* at step t, the state the request of row i will have if the sampler      *)
(* accepts its tokens up to t; the batch names no request twice.           *)
(***************************************************************************)
SavedRows ==
  /\ \A i, j \in Rows : batch[i] = batch[j] => i = j
  /\ \A i \in Rows : HasInitialState(batch[i])
  /\ \A i \in Rows : \A t \in Steps :
       inter[i][t] = WindowOf(ctx[batch[i]] \o SubSeq(drafts[i], 1, t + 1))

(***************************************************************************)
(* A request's working slot always holds exactly the last W - 1 inputs of  *)
(* the tokens it has committed: no rejected draft, no token of another     *)
(* request of the batch, nothing of the slot's former owner, no token lost *)
(* however prefill chunks, decode steps and accepted runs of every length  *)
(* follow each other.                                                      *)
(***************************************************************************)
WorkingWindow ==
  \A r \in live : HasInitialState(r) => conv[work[r]] = WindowOf(ctx[r])

(***************************************************************************)
(* A snapshot holds the state at the length the scheduler has recorded for *)
(* it, whichever of prefill, decode or commit wrote it and whatever the    *)
(* request has committed since.                                            *)
(***************************************************************************)
TrackedWindow ==
  \A r \in live : trackLen[r] > 0 =>
    /\ trackLen[r] <= Len(ctx[r])
    /\ conv[track[r]] = WindowOf(SubSeq(ctx[r], 1, trackLen[r]))

(***************************************************************************)
(* A cached prefix keeps the state of that prefix for as long as it is in  *)
(* the tree, under all the kernels other requests run meanwhile.           *)
(***************************************************************************)
CachedPrefix ==
  \A e \in tree : conv[e.slot] = WindowOf(e.prefix)

(***************************************************************************)
(* The inductive invariant: the parts above, and that a request which is   *)
(* not admitted has no tokens and no snapshot.                             *)
(***************************************************************************)
IdleRequests ==
  \A r \in Reqs \ live : ctx[r] = << >> /\ trackLen[r] = 0

IInv ==
  /\ TypeOK
  /\ IdleRequests
  /\ SlotOwnership
  /\ SavedRows
  /\ WorkingWindow
  /\ TrackedWindow
  /\ CachedPrefix
-----------------------------------------------------------------------------
(***************************************************************************)
(* Batched, chunked, speculative, slot-reusing operation with a prefix     *)
(* cache implements feeding every request its tokens one at a time.  The   *)
(* state of a request that has no token yet is the empty state, whatever   *)
(* its slot holds.                                                         *)
(***************************************************************************)
VisibleWindow == [r \in Reqs |-> IF HasInitialState(r) THEN conv[work[r]]
                                                       ELSE ZeroWindow]

Ref == INSTANCE ConvReference WITH win <- VisibleWindow

ImplementsReference == Ref!Spec
=============================================================================
