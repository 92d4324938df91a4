----------------------------- MODULE PoolSizing -----------------------------
(***************************************************************************)
(* How many tokens the KV pools of a server hold: the configurators of     *)
(* model_executor/pool_configurator.py and the resolution around them in   *)
(* mem_cache/kv_cache_configurator.py, as operators on the arguments of a  *)
(* boot.  An argument record `a` has                                       *)
(*   kvType     "bf16", "mxfp8" or "fp4"                                   *)
(*   backend    "triton" or "fa4", the attention backend of every phase    *)
(*   hybrid     is_hybrid_swa                                              *)
(*   fullLayers full-attention layers, stages: of each pipeline stage;     *)
(*   swaLayers  local layers; elems, swaElems: K and V elements of a layer *)
(*              per token; window: sliding_window_size                     *)
(*   mamba      mamba_cache_per_req in bytes, 0: not a mamba-like model    *)
(*   rest       bytes left for caches, the least over the ranks            *)
(*   page, context, maxTotal, maxRunning, dp, radix, overlap, extraBuffer, *)
(*   skipLock, chunkedPrefill, evict, extraSlots, mambaSize: the server    *)
(*              arguments of like names, 0 for None; extraSlots > 0 only   *)
(*              for a server that decodes for another (disaggregation)     *)
(*   ratio, mambaRatio: swa_full_tokens_ratio and mamba_full_memory_ratio, *)
(*              as <<numerator, denominator>>                              *)
(*   spec       "none", "eagle" or "dspark"; numDraft its draft tokens,    *)
(*              allocLen what it allocates per decode; draftLayers and     *)
(*              banded (those among them with a window) of an EAGLE draft  *)
(* Sizes are mathematical integers: floats of the code are taken as exact. *)
(***************************************************************************)
EXTENDS Integers, Sequences

\* Stands for the largest int64: more tokens than the memory holds.
NoLimit == 1073741824

\* A hybrid model has a local layer (an assert of its configurator), heads fill
\* whole scale blocks, and the full layers of a model without local ones are
\* those of its stages: only a mamba-like model, and no EAGLE target, has a
\* stage without any.  That every data-parallel worker is asked to run a
\* request is how servers are started; the code does not check it.
WellFormed(a) ==
  /\ a.hybrid => a.swaLayers > 0
  /\ a.elems > 0 /\ a.elems % 32 = 0 /\ a.swaElems > 0 /\ a.swaElems % 32 = 0
  /\ a.maxRunning > 0 => a.maxRunning >= a.dp
  /\ a.banded <= a.draftLayers
  /\ a.rest + a.page <= NoLimit
  /\ ~a.hybrid => \A s \in DOMAIN a.stages :
       IF a.stages[s] > 0 THEN a.fullLayers > 0 ELSE a.mamba > 0 /\ a.spec # "eagle"
BootArgs ==
  {a \in [kvType : {"bf16", "mxfp8", "fp4"}, backend : {"triton", "fa4"}, hybrid : BOOLEAN,
          fullLayers : Nat, stages : Seq(Nat) \ {<<>>}, swaLayers : Nat, elems : Nat,
          swaElems : Nat, window : Nat, mamba : Nat, rest : Nat, page : Nat \ {0},
          context : Nat \ {0}, maxTotal : Nat, maxRunning : Nat, dp : Nat \ {0},
          radix : BOOLEAN, overlap : BOOLEAN, extraBuffer : {"none", "lazy", "eager"},
          skipLock : BOOLEAN, chunkedPrefill : Nat, evict : Nat, extraSlots : Nat,
          mambaSize : Nat, ratio : Nat \X (Nat \ {0}), mambaRatio : Nat \X (Nat \ {0}),
          spec : {"none", "eagle", "dspark"}, numDraft : Nat \ {0}, allocLen : Nat,
          draftLayers : Nat, banded : Nat] : WellFormed(a)}

Lower(x, y) == IF x <= y THEN x ELSE y
Higher(x, y) == IF x <= y THEN y ELSE x
Align(x, page) == (x \div page) * page
CeilAlign(x, page) == ((x + page - 1) \div page) * page

\* A resolved MemoryPoolConfig; ok is false when the boot raises.
Config(tokens, full, swa) ==
  [ok |-> tokens > 0, tokens |-> tokens, full |-> full, swa |-> swa]
Raise == Config(0, 0, 0)

StageIds(a) == DOMAIN a.stages

---------------------------------------------------------------------------
(* Bytes *)

\* _block_scaled_quant_pool_class: 4-bit pools exist at one page size only.
NativePage(a) ==
  a.kvType = "fp4" => a.page = (IF a.backend = "triton" THEN 1 ELSE 128)

\* What a pool allocates per token and layer (_create_buffers): the payload
\* and one byte for each block of 16 (fp4) or 32 (mxfp8) elements.
RowBytes(kvType, elems) ==
  CASE kvType = "bf16"  -> 2 * elems
    [] kvType = "mxfp8" -> elems + elems \div 32
    [] kvType = "fp4"   -> elems \div 2 + elems \div 16

\* DefaultPoolConfigurator._compute_cell_size, with the dequantization row
\* all layers share; then the EAGLE draft's layers at the same rate.  K and V
\* heads are of one size: the code's fp4 terms count the K heads twice.
BaseCell(a, layers) ==
  CASE a.kvType = "bf16"  -> 2 * a.elems * layers
    [] a.kvType = "mxfp8" -> a.elems * layers + (a.elems * layers) \div 32
    [] a.kvType = "fp4"   -> (a.elems * layers) \div 2 + (a.elems * layers) \div 16 + a.elems
DefaultCell(a, layers) ==
  LET cell == BaseCell(a, layers)
  IN  IF a.spec = "eagle" /\ a.draftLayers > 0 /\ layers > 0
      THEN (cell * (layers + a.draftLayers)) \div layers
      ELSE cell

\* HybridSWAPoolConfigurator: a draft layer without a window is budgeted at
\* the full layers' rate, a banded one at the local layers'; both at the full
\* pool's capacity.  The ratio is a fraction: these are a.ratio[2] cells.
DraftBanded(a) == IF a.spec = "eagle" THEN a.banded ELSE 0
DraftFull(a) == IF a.spec = "eagle" THEN a.draftLayers - a.banded ELSE 0
FullCell(a) ==
  RowBytes(a.kvType, a.elems) * (a.fullLayers + DraftFull(a))
    + RowBytes(a.kvType, a.swaElems) * DraftBanded(a)
HybridCells(a) ==
  IF a.fullLayers = 0
  THEN a.ratio[2] * (RowBytes(a.kvType, a.swaElems) * a.swaLayers + FullCell(a))
  ELSE a.ratio[2] * FullCell(a)
         + a.ratio[1] * RowBytes(a.kvType, a.swaElems) * a.swaLayers

---------------------------------------------------------------------------
(* The configurators: from a byte budget, and again from a token limit. *)

\* A stage without KV of its own does not limit the others.  Variant: it
\* proposes what a model without any KV would.
ZeroKvAlone(a) == IF a.maxTotal > 0 THEN a.maxTotal ELSE a.context
ZeroKvTokens(a) ==
  IF a.mamba > 0 /\ a.fullLayers > 0 /\ Len(a.stages) > 1 THEN NoLimit
  ELSE IF a.maxTotal > 0 THEN a.maxTotal ELSE a.context

DefaultSizes(a, stage, budget) ==
  LET cell == DefaultCell(a, a.stages[stage])
      tokens == IF cell > 0 THEN budget \div cell ELSE ZeroKvTokens(a)
  IN  Config(Align(tokens, a.page), 0, 0)

\* _solve_pool_sizes.  Variant: the floor admits an SWA pool of its own size.
SolveOffByOne(a, tokens) ==
  LET full == Align(tokens, a.page)
      swa == Align((full * a.ratio[1]) \div a.ratio[2], a.page)
  IN  IF a.fullLayers = 0 THEN Config(full, 0, full)
      ELSE IF a.window + a.page > swa THEN Raise
      ELSE Config(full, full, swa)
SolvePoolSizes(a, tokens) ==
  LET full == Align(tokens, a.page)
      swa == Align((full * a.ratio[1]) \div a.ratio[2], a.page)
  IN  IF a.fullLayers = 0 THEN Config(full, 0, full)
      ELSE IF a.window + a.page >= swa THEN Raise
      ELSE Config(full, full, swa)

\* SWAChunkCapPoolConfigurator.is_applicable
ChunkCapApplies(a) ==
  a.maxRunning > 0 /\ ~a.radix /\ a.chunkedPrefill > 0 /\ a.fullLayers > 0

SwaCap(a) ==
  LET draftTokens == IF a.spec = "none" THEN 1 ELSE a.numDraft
      trailing == a.window + Higher(1, a.evict) * draftTokens + a.page
      decodeAlloc == IF a.spec = "none" THEN a.page
                     ELSE IF a.overlap THEN 2 * a.allocLen ELSE a.allocLen
      requests == (trailing + decodeAlloc) * (a.maxRunning \div a.dp)
  IN  IF a.extraSlots > 0
      THEN requests + (a.window + a.page) * a.extraSlots
      ELSE requests + (IF a.overlap THEN 2 ELSE 1) * a.chunkedPrefill + a.page

CapSizes(a, budget) ==
  LET swa == CeilAlign(SwaCap(a), a.page)
      fixed == swa * RowBytes(a.kvType, a.swaElems) * a.swaLayers
      full == Align((budget - fixed) \div FullCell(a), a.page)
  IN  Config(full, full, swa)

CapSizesFromTokens(a, tokens) ==
  LET full == Align(tokens, a.page)
  IN  Config(full, full, Lower(CeilAlign(SwaCap(a), a.page), tokens))

\* create_memory_pool_configurator picks one; both entry points of it.
PoolSizes(a, stage, budget) ==
  IF ~a.hybrid THEN DefaultSizes(a, stage, budget)
  ELSE IF ChunkCapApplies(a) THEN CapSizes(a, budget)
  ELSE SolvePoolSizes(a, (budget * a.ratio[2]) \div HybridCells(a))
PoolSizesFromTokens(a, tokens) ==
  IF ~a.hybrid THEN Config(Align(tokens, a.page), 0, 0)
  ELSE IF ChunkCapApplies(a) THEN CapSizesFromTokens(a, tokens)
  ELSE SolvePoolSizes(a, tokens)

---------------------------------------------------------------------------
(* The states of a mamba-like model (the conv windows of the short          *)
(* convolution are one): slots per request, and their share of the memory.  *)

\* _calculate_mamba_ratio
SlotsPerRequest(a) ==
  LET base == IF a.skipLock THEN 2 ELSE 3
      tracked == IF a.extraBuffer = "none" THEN IF a.skipLock THEN 1 ELSE 0
                 ELSE IF a.overlap /\ a.extraBuffer = "eager" THEN 2 ELSE 1
  IN  IF a.radix THEN base + tracked ELSE 1

\* _handle_max_mamba_cache: the states, max_mamba_cache_size, in its order of
\* precedence; the last is the joint solution for states and draft buffers.
MambaStates(a) ==
  LET share == a.rest * a.mambaRatio[1]
      whole == a.mambaRatio[1] + a.mambaRatio[2]
      ratio == SlotsPerRequest(a)
  IN  IF a.mambaSize > 0 THEN a.mambaSize \div a.dp
      ELSE IF ~a.radix /\ a.maxRunning > 0 THEN a.maxRunning \div a.dp
      ELSE IF a.spec = "none" THEN (share - a.mamba * whole) \div (a.mamba * whole)
      ELSE ((share - a.mamba * (1 + a.numDraft) * whole) * ratio)
             \div (a.mamba * (ratio + a.numDraft) * whole)

\* The draft positions' states are reserved for the requests the states carry.
ReservedRequests(a) ==
  IF a.mambaSize = 0 /\ ~a.radix THEN MambaStates(a)
  ELSE Lower(a.maxRunning \div a.dp, MambaStates(a) \div SlotsPerRequest(a))
DraftStateBytes(a, requests) ==
  IF a.spec = "none" THEN 0 ELSE a.mamba * (requests + 1) * a.numDraft
StateBytes(a) == (MambaStates(a) + 1) * a.mamba

\* _profile_available_bytes, from the point where the slack is taken off.
\* Variant: the draft positions' states are forgotten.
BudgetWithoutDrafts(a) == IF a.mamba = 0 THEN a.rest ELSE a.rest - StateBytes(a)
KvBudget(a) ==
  IF a.mamba = 0 THEN a.rest
  ELSE a.rest - DraftStateBytes(a, ReservedRequests(a)) - StateBytes(a)

---------------------------------------------------------------------------
(* The resolution *)

\* _apply_token_constraints: the user's limit and the least of all stages.
TokenConstraint(a, sizes) ==
  LET limited(s) == IF a.maxTotal > 0 THEN Lower(sizes[s].tokens, a.maxTotal)
                    ELSE sizes[s].tokens
      all == {limited(s) : s \in StageIds(a)}
  IN  CHOOSE t \in all : \A u \in all : t <= u

\* resolve_max_num_reqs
MaxRequestsOf(a, tokens) ==
  LET estimate == Higher(Lower((tokens * 512) \div a.context, 4096), 2048)
      wanted == IF a.maxRunning > 0 THEN a.maxRunning \div a.dp ELSE estimate
      served == Lower(wanted, tokens \div 2)
  IN  IF a.mamba = 0 THEN served
      ELSE Lower(served, MambaStates(a) \div SlotsPerRequest(a))

\* What raises: the storage class, the assert on the lazy extra buffer
\* (_calculate_mamba_ratio, which every mamba-like model with a radix cache
\* comes to), that of a speculating mamba-like model, no states, no memory.
Refused(a) ==
  \/ ~NativePage(a)
  \/ a.mamba > 0 /\ a.radix /\ a.extraBuffer = "lazy" /\ ~a.overlap
  \/ a.mamba > 0 /\ a.spec # "none" /\ a.maxRunning = 0
  \/ a.mamba > 0 /\ MambaStates(a) <= 0
  \/ KvBudget(a) <= 0

\* config_from_budget and _resolve_memory_pool_config on every stage.  The
\* sizes are computed again only on a stage the constraint changes.
Resolve(a) ==
  IF Refused(a) THEN [s \in StageIds(a) |-> Raise]
  ELSE LET sizes == [s \in StageIds(a) |-> PoolSizes(a, s, KvBudget(a))]
       IN  IF \E s \in StageIds(a) : ~sizes[s].ok THEN [s \in StageIds(a) |-> Raise]
           ELSE LET t == TokenConstraint(a, sizes)
                    final == [s \in StageIds(a) |->
                                IF t = sizes[s].tokens THEN sizes[s]
                                ELSE PoolSizesFromTokens(a, t)]
                IN  IF a.mamba > 0 /\ \E s \in StageIds(a) : MaxRequestsOf(a, final[s].tokens) <= 0
                    THEN [s \in StageIds(a) |-> Raise]
                    ELSE final

---------------------------------------------------------------------------
(* The pools built from a configuration *)

\* Slots 1 .. n the shared allocator hands out (from page on, when page > 1).
AllocatorSlots(a, c) ==
  IF a.hybrid /\ a.fullLayers > 0 THEN c.full ELSE c.tokens

\* The sub-pool of a banded EAGLE depth: the full capacity and not the local
\* layers', under an identity mapping of slots (_build_hybrid_swa_kv_pool).
\* Variant: the local layers' capacity.
TrunkRing(c) == c.swa
RingSlots(c) == c.full

\* The draft's own pool, under the target's slot numbers: the single pool of a
\* DSpark draft, or what the layer of an EAGLE depth is routed to.  In a model
\* without full layers the Inkling heads of a hybrid model get no slot at all.
DraftPoolSlots(a, c, depth) ==
  IF a.spec = "dspark" \/ ~a.hybrid THEN c.tokens
  ELSE IF depth = "banded" THEN RingSlots(c) ELSE c.full

\* Bytes of the pools of a stage that the budget speaks of: a layer of a pool
\* has a row for each slot and for those of the pad page in front of them.  A
\* DSpark draft of a hybrid model has no term in the budget: its pool lives on
\* the slack.
PoolBytes(a, c, stage) ==
  LET full == RowBytes(a.kvType, a.elems)
      local == RowBytes(a.kvType, a.swaElems)
      rows(slots) == slots + a.page
      drafts == full * DraftFull(a) * rows(DraftPoolSlots(a, c, "full"))
                  + (IF a.hybrid THEN local ELSE full) * DraftBanded(a)
                      * rows(DraftPoolSlots(a, c, "banded"))
  IN  drafts + (IF a.hybrid
                THEN full * a.fullLayers * rows(c.full) + local * a.swaLayers * rows(c.swa)
                ELSE full * a.stages[stage] * rows(c.tokens))

\* The part of them that is the pad page of each layer.
PadBytes(a, stage) ==
  LET full == RowBytes(a.kvType, a.elems)
      local == RowBytes(a.kvType, a.swaElems)
  IN  a.page * (full * DraftFull(a) + (IF a.hybrid THEN local ELSE full) * DraftBanded(a)
                + (IF a.hybrid THEN full * a.fullLayers + local * a.swaLayers
                   ELSE full * a.stages[stage]))
=============================================================================
