---------------------------- MODULE DraftExtend -----------------------------
(***************************************************************************)
(* DRAFT_EXTEND_V2 of the draft model: the fused kernel of                 *)
(* patches/files/sconv.py that rebuilds every request's convolution state  *)
(* after exactly the accepted tokens, in place.  One program instance per  *)
(* batch row reads a padded sequence it never materialises (the row's own  *)
(* cache slot, then the row's hidden states) and overwrites that same slot *)
(* cell by cell, while the other rows do the same.  A CUDA graph pads the  *)
(* batch: a padded row carries a stale slot number, perhaps of a live      *)
(* request.  The channel blocks of a row are independent and are one here. *)
(***************************************************************************)
EXTENDS ConvWindow, FiniteSets

CONSTANTS
  Reqs,          \* the requests, one batch row each
  DraftTokens,   \* draft_token_num
  TrackInterval, \* mamba_track_interval
  Prefill,       \* bound on the tokens a request starts with
  Rounds         \* bound on the number of launches

ASSUME DraftAssumption ==
  /\ DraftTokens \in Nat \ {0}
  /\ TrackInterval \in Nat \ {0}
  /\ Prefill \in Nat \ {0}
  /\ Rounds \in Nat
  /\ Inputs = Reqs \X (1..(Prefill + Rounds * DraftTokens)) \X (0..Rounds)

Slots == Reqs \X {"work", "track"}

VARIABLES
  round,    \* launches so far
  ctx,      \* per request, the inputs of its committed tokens
  snapLen,  \* per request, the length its snapshot is said to be taken at
  cache,    \* sconv_cache
  phase,    \* where the program instance of a row is
  w,        \* its loop counter
  nAcc,     \* num_accept_tokens, negative for a padded row
  ci,       \* cache_indices
  hidden,   \* hidden_states: the inputs of the row's draft tokens
  before    \* history: the cache when the kernel was launched

vars == <<round, ctx, snapLen, cache, phase, w, nAcc, ci, hidden, before>>

Idle == \A r \in Reqs : phase[r] = "idle"

(* Token number p of request r as fed in round n: a rejected draft differs *)
(* from the token that later takes its position.                           *)
Token(r, p, n) == <<r, p, n>>
-----------------------------------------------------------------------------
(***************************************************************************)
(* The host side: which rows cross an interval boundary, and the step they *)
(* snapshot.                                                               *)
(***************************************************************************)
PreLen(r)   == Len(ctx[r])
PostLen(r)  == PreLen(r) + nAcc[r]
Crossed(r)  == PreLen(r) \div TrackInterval # PostLen(r) \div TrackInterval
Boundary(r) == (PostLen(r) \div TrackInterval) * TrackInterval

TrackStep(r) ==
  LET n == Boundary(r) - PreLen(r) - 1
  IN  IF n < 0 THEN 0 ELSE IF n > DraftTokens THEN DraftTokens ELSE n

(***************************************************************************)
(* The program of a row.                                                   *)
(***************************************************************************)
IgnorePadding(r) == FALSE          \* a kernel without the early return

Padded(r) == nAcc[r] < 0

NextPhaseSwapped(r, p) ==          \* the two writes in the other order
  CASE p = "start"  -> "accept"
    [] p = "accept" -> IF Crossed(r) THEN "track" ELSE "done"
    [] p = "track"  -> "done"

NextPhase(r, p) ==
  CASE p = "start"  -> IF Crossed(r) THEN "track" ELSE "accept"
    [] p = "track"  -> "accept"
    [] p = "accept" -> "done"

AcceptAll(r) == DraftTokens        \* the ordinary cache update

(* The number of draft tokens the accepted window covers. *)
AcceptBase(r) == nAcc[r]

LoopCellDescending(k) == StateLen + 1 - k

(* The cell iteration k of the loop writes. *)
LoopCell(k) == k

(* Cell pos of the padded sequence, read from the cache as it is now. *)
PaddedCell(r, pos) ==
  CASE pos < 1        -> Stale            \* a load in front of the slot
    [] pos > StateLen -> hidden[r][pos - StateLen]
    [] OTHER          -> cache[ci[r]][pos]

Advance(r) ==
  IF w[r] < StateLen
  THEN /\ w' = [w EXCEPT ![r] = @ + 1]
       /\ UNCHANGED phase
  ELSE /\ w' = [w EXCEPT ![r] = 1]
       /\ phase' = [phase EXCEPT ![r] = NextPhase(r, @)]
-----------------------------------------------------------------------------
Prefilled(r, n) == [p \in 1..n |-> Token(r, p, 0)]

Init ==
  /\ round = 0
  /\ \E n \in [Reqs -> 1..Prefill] :
       ctx = [r \in Reqs |-> Prefilled(r, n[r])]
  /\ snapLen = [r \in Reqs |-> 0]
  /\ cache = [s \in Slots |-> IF s[2] = "work" THEN WindowOf(ctx[s[1]])
                                               ELSE StaleWindow]
  /\ phase = [r \in Reqs |-> "idle"]
  /\ w = [r \in Reqs |-> 1]
  /\ nAcc = [r \in Reqs |-> 0]
  /\ ci = [r \in Reqs |-> <<r, "work">>]
  /\ hidden = [r \in Reqs |-> << >>]
  /\ before = cache

(***************************************************************************)
(* The launch: the rows of live take part with the accept counts n, the    *)
(* others are padding with the stale slots stale.                          *)
(***************************************************************************)
Launch(live, n, stale) ==
  /\ Idle /\ round < Rounds /\ live # {}
  /\ round' = round + 1
  /\ nAcc' = [r \in Reqs |-> IF r \in live THEN n[r] ELSE -1]
  /\ ci' = [r \in Reqs |-> IF r \in live THEN <<r, "work">> ELSE stale[r]]
  /\ hidden' = [r \in Reqs |-> [t \in 1..DraftTokens |->
                                  Token(r, Len(ctx[r]) + t, round')]]
  /\ phase' = [r \in Reqs |-> "start"]
  /\ before' = cache
  /\ UNCHANGED <<ctx, snapLen, cache, w>>

(* A padded row returns at once, before any load of its slot. *)
Start(r) ==
  /\ phase[r] = "start"
  /\ phase' = [phase EXCEPT ![r] = IF Padded(r) THEN "done"
                                                ELSE NextPhase(r, "start")]
  /\ UNCHANGED <<round, ctx, snapLen, cache, w, nAcc, ci, hidden, before>>

(* One iteration of the tracking loop: a load and a store. *)
TrackWrite(r) ==
  /\ phase[r] = "track"
  /\ cache' = [cache EXCEPT ![<<r, "track">>][LoopCell(w[r])] =
                 PaddedCell(r, TrackStep(r) + LoopCell(w[r]))]
  /\ Advance(r)
  /\ UNCHANGED <<round, ctx, snapLen, nAcc, ci, hidden, before>>

(* One iteration of the accepted-window loop, onto the slot it reads. *)
AcceptWrite(r) ==
  /\ phase[r] = "accept"
  /\ cache' = [cache EXCEPT ![ci[r]][LoopCell(w[r])] =
                 PaddedCell(r, AcceptBase(r) + LoopCell(w[r]))]
  /\ Advance(r)
  /\ UNCHANGED <<round, ctx, snapLen, nAcc, ci, hidden, before>>

(* The stream has run the kernel: the accepted tokens are committed. *)
Retire ==
  /\ \A r \in Reqs : phase[r] = "done"
  /\ ctx' = [r \in Reqs |-> IF Padded(r) THEN ctx[r]
                            ELSE ctx[r] \o SubSeq(hidden[r], 1, nAcc[r])]
  /\ snapLen' = [r \in Reqs |-> IF ~Padded(r) /\ Crossed(r) THEN Boundary(r)
                                                            ELSE snapLen[r]]
  /\ phase' = [r \in Reqs |-> "idle"]
  /\ hidden' = [r \in Reqs |-> << >>]
  /\ before' = cache
  /\ UNCHANGED <<round, cache, w, nAcc, ci>>

Next ==
  \/ \E live \in SUBSET Reqs :
       \E n \in [live -> 0..DraftTokens], stale \in [Reqs \ live -> Slots] :
         Launch(live, n, stale)
  \/ \E r \in Reqs : Start(r) \/ TrackWrite(r) \/ AcceptWrite(r)
  \/ Retire

Spec == Init /\ [][Next]_vars
-----------------------------------------------------------------------------
(***************************************************************************)
(* The docstring's argument why one pass in place is safe: a cell of the   *)
(* row's own slot that an iteration still has to read holds what it held   *)
(* when the kernel started, whatever this row and the others have written. *)
(***************************************************************************)
RawSafety ==
  \A r \in Reqs :
    LET base == IF phase[r] = "track" THEN TrackStep(r) ELSE nAcc[r]
    IN  phase[r] \in {"track", "accept"} =>
          \A k \in w[r]..StateLen :
            LET pos == base + LoopCell(k)
            IN  pos \in 1..StateLen =>
                  cache[ci[r]][pos] = before[ci[r]][pos]

(***************************************************************************)
(* A padded row writes nothing, although its slot number may be that of a  *)
(* live request: slots of requests outside the launch keep their state.    *)
(***************************************************************************)
PaddedRowsWriteNothing ==
  \A r \in Reqs : nAcc[r] < 0 =>
    /\ cache[<<r, "work">>] = before[<<r, "work">>]
    /\ cache[<<r, "track">>] = before[<<r, "track">>]

(***************************************************************************)
(* A snapshot never holds a rejected draft or a cell of the wrong row: it  *)
(* is the window of some prefix of the committed tokens.                   *)
(***************************************************************************)
SnapshotAccepted ==
  Idle => \A r \in Reqs : snapLen[r] > 0 =>
    \E n \in 0..Len(ctx[r]) :
      cache[<<r, "track">>] = WindowOf(SubSeq(ctx[r], 1, n))

(***************************************************************************)
(* What the docstring of _update_sconv_cache_for_draft_extend says of it:  *)
(* it "also writes the conv state at that boundary".                       *)
(***************************************************************************)
SnapshotAtBoundary ==
  Idle => \A r \in Reqs : snapLen[r] > 0 =>
    cache[<<r, "track">>] = WindowOf(SubSeq(ctx[r], 1, snapLen[r]))

(***************************************************************************)
(* Launched with any accept counts on any rows, the in-place kernel feeds  *)
(* each request exactly its accepted tokens.  What the rest of the engine  *)
(* sees of the working slots: the kernel is one operation of the stream,   *)
(* visible when the stream has run it.                                     *)
(***************************************************************************)
StreamWindow == [r \in Reqs |-> before[<<r, "work">>]]

Ref == INSTANCE ConvReference WITH win <- StreamWindow

RefInit == \A r \in Reqs : StreamWindow[r] = WindowOf(ctx[r])

FeedsAccepted == RefInit /\ [][Ref!Next]_Ref!refVars
=============================================================================
