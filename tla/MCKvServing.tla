---------------------------- MODULE MCKvServing ----------------------------
(* Small servers for TLC: two that serve, and boots of every configurator. *)
EXTENDS KvServing

MCRows == {0, 1}
MCGraphs == {2}

\* A model with one full and one local layer of 18 bytes per token in fp4.
Served ==
  [kvType |-> "fp4", backend |-> "triton", hybrid |-> TRUE,
   fullLayers |-> 1, stages |-> <<1>>, swaLayers |-> 1, elems |-> 32, swaElems |-> 32,
   window |-> Extent - 1,
   mamba |-> 0, rest |-> 220, page |-> 1, context |-> MaxLen, maxTotal |-> 0,
   maxRunning |-> 2, dp |-> 1, radix |-> TRUE, overlap |-> TRUE,
   extraBuffer |-> "none", skipLock |-> FALSE, chunkedPrefill |-> 2, evict |-> 1,
   extraSlots |-> 0, mambaSize |-> 0, ratio |-> <<1, 1>>, mambaRatio |-> <<9, 10>>,
   spec |-> "none", numDraft |-> NumDraft, allocLen |-> NumDraft,
   draftLayers |-> 0, banded |-> 0]

\* Hybrid models: the ratio and the fixed cap, EAGLE depths, storage, limits.
HybridBoots ==
  {[Served EXCEPT !.kvType = t, !.rest = 997, !.ratio = <<5, 6>>, !.fullLayers = full,
                  !.stages = <<full>>, !.swaLayers = 2,
                  !.window = 3, !.radix = r, !.spec = sp, !.draftLayers = 2,
                  !.banded = b, !.maxTotal = m, !.extraSlots = x, !.overlap = o] :
     t \in {"bf16", "mxfp8", "fp4"}, full \in {0, 1, 3}, r \in BOOLEAN,
     sp \in {"none", "eagle"}, b \in 0 .. 1, m \in {0, 5, 7}, x \in 0 .. 1, o \in BOOLEAN}

\* The paged pools of the fa4 backend.
PagedBoots ==
  {[Served EXCEPT !.kvType = t, !.backend = "fa4", !.page = 128, !.ratio = <<5, 6>>,
                  !.window = w, !.rest = n, !.radix = r, !.maxTotal = m] :
     t \in {"mxfp8", "fp4"}, w \in {3, 300}, n \in {9000, 40000, 100001},
     r \in BOOLEAN, m \in {0, 300}}

\* Mamba-like models: explicit, per-request and solved state counts.
MambaBoots ==
  {[Served EXCEPT !.mamba = 10, !.window = 1, !.ratio = <<5, 6>>, !.rest = n,
                  !.hybrid = h, !.mambaSize = k, !.radix = r, !.maxRunning = q, !.dp = d, !.spec = sp,
                  !.extraBuffer = x, !.skipLock = l, !.overlap = o] :
     n \in {300, 701, 1003}, h \in BOOLEAN, k \in {0, 7}, r \in BOOLEAN, q \in {0, 4},
     d \in 1 .. 2, sp \in {"none", "dspark"}, x \in {"none", "lazy", "eager"},
     l \in BOOLEAN, o \in BOOLEAN}

\* Pipelines, one stage of which may have no full-attention layer.
PipelineBoots ==
  {[Served EXCEPT !.hybrid = FALSE, !.stages = st, !.fullLayers = st[1] + st[2],
                  !.mamba = 10, !.rest = n, !.maxTotal = m, !.page = p, !.kvType = t, !.mambaSize = 8,
                  !.spec = sp] :
     st \in {<<1, 2>>, <<2, 0>>, <<0, 1>>, <<3, 1>>}, n \in {400, 1003}, m \in {0, 7},
     p \in {1, 2}, t \in {"bf16", "mxfp8", "fp4"}, sp \in {"none", "dspark"}}

MCBoots == {Served, [Served EXCEPT !.spec = "dspark", !.rest = 292]}
             \cup HybridBoots \cup PagedBoots \cup MambaBoots \cup PipelineBoots
=============================================================================
