----------------------------- MODULE KvServing -----------------------------
(***************************************************************************)
(* The quantized KV cache of a server: the pools of                        *)
(* mem_cache/kv_quant_pools.py, the metadata TritonAttnBackend builds for  *)
(* a forward, and the kernels that read the pools through it (KvAttention).*)
(*                                                                         *)
(* The target model has full-attention layers, which read the whole        *)
(* context from the full pool, and local layers, which read a window of it *)
(* from the SWA pool; a slot of the full pool has a slot of the SWA pool   *)
(* behind it as long as the window may need it.  The DSpark draft model    *)
(* has a pool of its own under the slot numbers of the full pool.  The     *)
(* sizes of the pools are resolved at boot (PoolSizing).  A server either  *)
(* decodes one token per forward or, when it speculates, proposes,         *)
(* verifies and commits.                                                   *)
(*                                                                         *)
(* A KV vector is a tag: the request it belongs to, the position, and      *)
(* whether the token was the request's ("t") or a rejected draft ("d").    *)
(* One scheduler thread runs one forward at a time: an action is a whole   *)
(* forward, and reads what was stored before it.                           *)
(***************************************************************************)
EXTENDS KvAttention, PoolSizing, SequencesExt

CONSTANTS
  Rows,          \* rows of req_to_token, 0 .. n: padded rows of a graph use 0
  MaxRequests,   \* bound: requests served
  MaxLen,        \* bound: positions of a context
  Boots,         \* the arguments servers are booted with
  PoolBound,     \* bound: a server with a larger pool is booted, not used
  Extent,        \* local_extent: the keys a local layer attends
  NumDraft,      \* speculative_num_draft_tokens of the server
  MaxSplits,     \* triton_attention_num_kv_splits
  GraphSizes,    \* batch sizes of the captured CUDA graphs
  GraphMask      \* whether the verify graphs were captured with a custom mask

ASSUME RowsAssumption == 0 \in Rows /\ Rows \subseteq Nat /\ IsFiniteSet(Rows)
ASSUME SizesAssumption == /\ {MaxRequests, MaxLen, PoolBound} \subseteq Nat
                          /\ MaxSplits \in Nat \ {0}
                          /\ {Extent, NumDraft} \subseteq Nat \ {0, 1}
                          /\ GraphSizes \subseteq Nat \ {0} /\ IsFiniteSet(GraphSizes)
ASSUME GraphMaskAssumption == GraphMask \in BOOLEAN
ASSUME BootsAssumption == Boots \subseteq BootArgs

VARIABLES
  boot,        \* the arguments of the server and what they resolved to
  owner,       \* row -> the request in it, 0 when the row is free
  seqLen,      \* row -> committed tokens, the seq_lens of a verify
  chunked,     \* row -> whether chunks of its prompt are still to come
  table,       \* req_to_token: row -> position -> slot of the full pool
  swaOf,       \* the mapping translate_loc_from_full_to_swa applies
  target,      \* the target's pools: sub-pool -> slot -> [payload, scale]
  draft,       \* the draft's pool: slot -> [payload, scale]
  swaBuf,      \* cuda_graph_swa_out_cache_loc
  round,       \* what the scheduler still owes to the batch in flight
  served,      \* requests admitted so far
  attended     \* what the live rows of the last forward weighed

alloc == <<owner, seqLen, chunked, table, swaOf, served>>
vars == <<boot, alloc, target, draft, swaBuf, round, attended>>

---------------------------------------------------------------------------
(* The booted server.  Slots 1 .. n of a pool are allocated, 0 is its pad.  *)

BootOf(a) == [args |-> a, config |-> Resolve(a)]
Accepted == \A s \in DOMAIN boot.config : boot.config[s].ok
Speculates == boot.args.spec # "none"

\* The servers whose forwards are modelled: local and full layers on one
\* stage, the page size and kernels of the triton backend, a DSpark draft.
Modelled ==
  /\ Accepted /\ Len(boot.args.stages) = 1
  /\ boot.args.hybrid /\ boot.args.backend = "triton" /\ boot.args.page = 1
  /\ boot.args.window = Extent - 1
  /\ Speculates => boot.args.spec = "dspark" /\ boot.args.numDraft = NumDraft
  /\ boot.config[1].full \in 1 .. PoolBound
FullSlots == IF Modelled THEN AllocatorSlots(boot.args, boot.config[1]) ELSE 0
SwaSlots == IF Modelled THEN boot.config[1].swa ELSE 0
DraftSlots == IF Modelled THEN DraftPoolSlots(boot.args, boot.config[1], "full") ELSE 0
RequestLimit == MaxRequestsOf(boot.args, boot.config[1].tokens)

---------------------------------------------------------------------------
(* Pools *)

Positions == 0 .. MaxLen - 1
KV(id, p, tok) == <<id, p, tok>>
NoKV == <<0, 0, "zero">>
Entry(kv) == [payload |-> kv, scale |-> kv]
EmptyPool(n) == [s \in 1 .. n |-> Entry(NoKV)]

\* set_kv_buffer of both quantized pools: payload and block scales of each
\* row go to its slot.  The pad slot 0 takes whatever padding rows write.
Store(pool, locs, kvs) ==
  [s \in DOMAIN pool |->
     LET hits == {i \in DOMAIN locs : locs[i] = s}
     IN  IF hits = {} THEN pool[s]
         ELSE Entry(kvs[CHOOSE i \in hits : \A j \in hits : j <= i])]

\* A slot nothing may rely on reads as the pad slot.
Load(pool, s) == IF s \in DOMAIN pool THEN pool[s] ELSE Entry(NoKV)

\* _committed_locs: the rows of a request that were not committed go to slot 0.
CommittedLocs(locs2d, commit) ==
  FlattenSeq([b \in DOMAIN locs2d |->
    [j \in DOMAIN locs2d[b] |-> IF j - 1 < commit[b] THEN locs2d[b][j] ELSE 0]])

StorePrefixValid(pool, locs2d, commit, kvs) ==
  Store(pool, CommittedLocs(locs2d, commit), kvs)

---------------------------------------------------------------------------
(* Metadata of a forward.  A batch is a sequence of rows; index 0 of an     *)
(* indptr is its first cell, as in the code.                                *)

Window == Extent - 1        \* sliding_window_size of backend and layers

Indptr(lens) ==
  LET sum[b \in 0 .. Len(lens)] == IF b = 0 THEN 0 ELSE sum[b - 1] + lens[b]
  IN  sum

\* create_flashinfer_kv_indices_triton (external), one program per row.
KvIndices(rows, lens, starts) ==
  LET ptr == Indptr(lens)
      rowOf(i) == CHOOSE b \in DOMAIN rows : ptr[b - 1] <= i /\ i < ptr[b]
  IN  [i \in 0 .. ptr[Len(lens)] - 1 |->
         table[rows[rowOf(i)]][starts[rowOf(i)] + i - ptr[rowOf(i) - 1]]]

Translate(s) == IF s = 0 THEN 0 ELSE swaOf[s]

FullMetadata(rows, lens) ==
  [indptr |-> Indptr(lens),
   indices |-> KvIndices(rows, lens, [b \in DOMAIN rows |-> 0])]

\* update_sliding_window_buffer
WindowMetadata(rows, lens) ==
  LET windowLens == [b \in DOMAIN lens |-> IF lens[b] <= Window THEN lens[b] ELSE Window]
      starts == [b \in DOMAIN lens |-> lens[b] - windowLens[b]]
      indices == KvIndices(rows, windowLens, starts)
  IN  [indptr |-> Indptr(windowLens),
       indices |-> [i \in DOMAIN indices |-> Translate(indices[i])],
       offsets |-> starts]

KeyCount(meta, b) == meta.indptr[b] - meta.indptr[b - 1]
Key(meta, pool, b, i) == Load(pool, meta.indices[meta.indptr[b - 1] + i])

\* A captured graph replays at its own batch size: the rows added to the live
\* ones name row 0 and have get_cuda_graph_seq_len_fill_value() keys.
SeqLenFill == 1
PadTo(seq, n, fill) == seq \o [i \in 1 .. n - Len(seq) |-> fill]

\* qo_indptr of a verify-like forward: num_draft_tokens rows per request, one
\* less on a DSpark draft worker, which emits gamma rows per sequence.
\* Variant: every worker has the rows of the target.
TargetRows(worker) == NumDraft
RowsPerRequest(worker) == IF worker = "draft" THEN NumDraft - 1 ELSE NumDraft
QoIndptr(bs, worker) == [b \in 0 .. bs |-> b * RowsPerRequest(worker)]

---------------------------------------------------------------------------
(* What a row of a forward weighs: a bag of pool entries. *)

BagOf(S, Elem(_)) ==
  [e \in {Elem(x) : x \in S} |-> Cardinality({x \in S : Elem(x) = e})]

\* decode_attention_fwd_kv_quant: the splits of stage 1, merged by stage 2.
DecodeBag(meta, pool, b, splits) ==
  LET n == KeyCount(meta, b)
      loads == UNION {{<<i, l>> : l \in DecodeLoads(n, splits, i)} : i \in 0 .. n - 1}
      EntryOf(x) == Key(meta, pool, b, x[1])
  IN  BagOf(loads, EntryOf)

\* The flat custom mask of a chain of drafts (external: its builder gives each
\* row of a request one column per token of its context and of its chunk).
ChainMask(lens) ==
  FlattenSeq([b \in DOMAIN lens |->
    LET width == lens[b] + NumDraft
    IN  [x \in 1 .. NumDraft * width |->
           (x - 1) % width <= lens[b] + ((x - 1) \div width)]])
MaskIndptr(lens) ==
  Indptr([b \in DOMAIN lens |-> NumDraft * (lens[b] + NumDraft)])

\* extend_attention_fwd_kv_quant, row x of the forward.  The flat mask of a
\* batch with prefixes `lens` decides which rows of its chunk the row sees, or,
\* without one (<<>>), IS_CAUSAL: those up to itself, or all of them.
ExtendBag(meta, pool, kvs, qo, x, window, causal, mask, lens) ==
  LET b == CHOOSE c \in DOMAIN qo \ {0} : qo[c - 1] < x /\ x <= qo[c]
      m == x - 1 - qo[b - 1]
      prefix == KeyCount(meta, b)
      extend == qo[b] - qo[b - 1]
      offset == IF window > 0 THEN meta.offsets[b] ELSE 0
      allowed ==
        {n \in 0 .. extend - 1 :
           IF mask # <<>>
           THEN mask[1 + MaskCell(MaskIndptr(lens)[b - 1], prefix, extend, offset, m, n)]
           ELSE causal => n <= m}
      weighed == {<<"pool", n>> : n \in PrefixKeys(prefix, m, window)}
                 \cup {<<"chunk", n>> : n \in ChunkKeys(allowed, m, window)}
      EntryOf(w) ==
        IF w[1] = "pool" THEN Key(meta, pool, b, w[2])
        ELSE LET y == qo[b - 1] + w[2] + 1
             IN  IF y \in DOMAIN kvs THEN Entry(kvs[y]) ELSE Entry(NoKV)
  IN  BagOf(weighed, EntryOf)

---------------------------------------------------------------------------
(* The scheduler and its allocator (external): slots, rows, batches. *)

Idle == [step |-> "idle", rows |-> <<>>, width |-> <<>>, commit |-> <<>>]
Live == {r \in Rows : owner[r] # 0}
Ready == {r \in Live : ~chunked[r]}
Sorted(S) ==
  [i \in 1 .. Cardinality(S) |->
     CHOOSE x \in S : Cardinality({y \in S : y < x}) = i - 1]

Reserved(r) == Cardinality({p \in Positions : table[r][p] # 0})
FreeFull == (1 .. FullSlots) \ {table[r][p] : r \in Rows, p \in Positions}
FreeSwa == (1 .. SwaSlots) \ {swaOf[s] : s \in 1 .. FullSlots}

\* Reserve slots so that each row r of the batch has upTo[r] of them.
Reserve(batch, upTo) ==
  LET missing == Sorted(UNION {{r * MaxLen + p : p \in Reserved(r) .. upTo[r] - 1} : r \in batch})
      full == Sorted(FreeFull)
      swa == Sorted(FreeSwa)
      Given(r, p) == {i \in DOMAIN missing : missing[i] = r * MaxLen + p}
  IN  /\ Len(missing) <= Len(full) /\ Len(missing) <= Len(swa)
      /\ table' = [r \in Rows |-> [p \in Positions |->
           IF Given(r, p) = {} THEN table[r][p] ELSE full[CHOOSE i \in Given(r, p) : TRUE]]]
      /\ swaOf' = [s \in 1 .. FullSlots |->
           LET hit == {i \in DOMAIN missing : full[i] = s}
           IN  IF hit = {} THEN swaOf[s] ELSE swa[CHOOSE i \in hit : TRUE]]

\* A chunk of one or two tokens of a prompt, of a new request or one whose
\* prompt is still being read.
ScheduleExtend(r) ==
  \E n \in 1 .. 2, more \in BOOLEAN :
    /\ round.step = "idle"
    /\ IF owner[r] = 0
         THEN /\ served < MaxRequests /\ Cardinality(Live) < RequestLimit
              /\ served' = served + 1
              /\ owner' = [owner EXCEPT ![r] = served + 1]
         ELSE chunked[r] /\ UNCHANGED <<served, owner>>
    /\ seqLen[r] + n <= MaxLen
    /\ chunked' = [chunked EXCEPT ![r] = more]
    /\ Reserve({r}, [seqLen EXCEPT ![r] = @ + n])
    /\ round' = [step |-> "extend", rows |-> <<r>>, width |-> <<n>>, commit |-> <<n>>]
    /\ attended' = {}
    /\ UNCHANGED <<boot, seqLen, target, draft, swaBuf>>

\* A batch of requests whose prompts are read.
ScheduleBatch(batch) ==
  LET n == IF Speculates THEN NumDraft ELSE 1
      rows == Sorted(batch)
  IN  /\ round.step = "idle"
      /\ batch # {} /\ batch \subseteq Ready
      /\ \A r \in batch : seqLen[r] + n <= MaxLen
      /\ Reserve(batch, [r \in Rows |-> seqLen[r] + n])
      /\ round' = [step |-> IF Speculates THEN "propose" ELSE "decode",
                   rows |-> rows, width |-> [b \in DOMAIN rows |-> n],
                   commit |-> [b \in DOMAIN rows |-> 0]]
      /\ attended' = {}
      /\ UNCHANGED <<boot, owner, seqLen, chunked, served, target, draft, swaBuf>>

\* A request ends or is aborted: its slots are free, its row too.
Finish(r) ==
  /\ round.step = "idle" /\ r \in Live
  /\ owner' = [owner EXCEPT ![r] = 0]
  /\ seqLen' = [seqLen EXCEPT ![r] = 0]
  /\ chunked' = [chunked EXCEPT ![r] = FALSE]
  /\ table' = [table EXCEPT ![r] = [p \in Positions |-> 0]]
  /\ swaOf' = [s \in 1 .. FullSlots |->
       IF \E p \in Positions : table[r][p] = s THEN 0 ELSE swaOf[s]]
  /\ attended' = {}
  /\ UNCHANGED <<boot, served, target, draft, swaBuf, round>>

\* The SWA slots of tokens no window reaches any more are given back.
EvictSwa(r) ==
  LET out == {table[r][p] : p \in {q \in Positions : q < seqLen[r] - Window}}
  IN  /\ round.step = "idle" /\ r \in Live
      /\ \E s \in out : swaOf[s] # 0
      /\ swaOf' = [s \in 1 .. FullSlots |-> IF s \in out THEN 0 ELSE swaOf[s]]
      /\ attended' = {}
      /\ UNCHANGED <<boot, owner, seqLen, chunked, table, served, target, draft,
                     swaBuf, round>>

---------------------------------------------------------------------------
(* Forwards.  Row j of request b is the batch's j-th new token of b. *)

PrefixLens == [b \in DOMAIN round.rows |-> seqLen[round.rows[b]]]
Locs2d(width) ==
  [b \in DOMAIN round.rows |->
    [j \in 1 .. width[b] |-> table[round.rows[b]][PrefixLens[b] + j - 1]]]
NewKV(width, Tok(_, _)) ==
  FlattenSeq([b \in DOMAIN round.rows |->
    [j \in 1 .. width[b] |->
       KV(owner[round.rows[b]], PrefixLens[b] + j - 1, Tok(b, j))]])

\* What the row of token kv weighed; `base` tokens of its request were
\* committed before the forward.
Row(model, kv, base, context, window) ==
  [model |-> model, kv |-> kv, base |-> base, context |-> context, window |-> window]
BaseOf(id) == seqLen[CHOOSE r \in Rows : owner[r] = id]

\* _fill_cuda_graph_swa_out_cache_loc: the live write slots, then zeros.
\* Variant: the tail keeps what an earlier replay left.
FillLiveOnly(locs) ==
  [i \in DOMAIN swaBuf |-> IF i <= Len(locs) THEN Translate(locs[i]) ELSE swaBuf[i]]
FillSwaBuf(locs) ==
  [i \in DOMAIN swaBuf |-> IF i <= Len(locs) THEN Translate(locs[i]) ELSE 0]

\* The store of a forward of the target.  A captured graph (of g requests)
\* stores all its rows, to the slots its buffer holds.
StoreTarget(g, perRequest, locs, kvs) ==
  /\ swaBuf' = IF g = 0 THEN swaBuf ELSE FillSwaBuf(locs)
  /\ LET swaLocs == IF g = 0 THEN [i \in DOMAIN locs |-> Translate(locs[i])]
                    ELSE SubSeq(swaBuf', 1, g * perRequest)
     IN  target' = [full |-> Store(target.full, locs, kvs),
                    swa |-> Store(target.swa, swaLocs, PadTo(kvs, Len(swaLocs), NoKV))]

\* 0 is the eager forward, otherwise the batch size of the graph that replays.
GraphChoices(n) ==
  {0} \cup {g \in GraphSizes : g >= n /\ \A h \in GraphSizes : h >= n => g <= h}
Replayed(seq, g, fill) == IF g = 0 THEN seq ELSE PadTo(seq, g, fill)

Extend ==
  LET w == round.width
      kvs == NewKV(w, LAMBDA b, j : "t")
      full == FullMetadata(round.rows, PrefixLens)
      win == WindowMetadata(round.rows, PrefixLens)
      qo == Indptr(w)
  IN  /\ round.step = "extend"
      /\ StoreTarget(0, 0, FlattenSeq(Locs2d(w)), kvs)
      /\ attended' = {Row("target", kvs[x], BaseOf(kvs[x][1]),
                          ExtendBag(full, target'.full, kvs, qo, x, 0, TRUE, <<>>, <<>>),
                          ExtendBag(win, target'.swa, kvs, qo, x, Window, TRUE, <<>>, <<>>))
                        : x \in DOMAIN kvs}
      /\ IF Speculates
           THEN round' = [round EXCEPT !.step = "commit"] /\ UNCHANGED seqLen
           ELSE /\ round' = Idle
                /\ seqLen' = [seqLen EXCEPT ![round.rows[1]] = @ + w[1]]
      /\ UNCHANGED <<boot, owner, chunked, table, swaOf, served, draft>>

\* get_num_kv_splits gives each row between one and the most splits.
Decode ==
  \E g \in GraphChoices(Len(round.rows)), splits \in 1 .. MaxSplits :
    LET w == round.width
        kvs == NewKV(w, LAMBDA b, j : "t")
        rows == Replayed(round.rows, g, 0)
        lens == Replayed([b \in DOMAIN round.rows |-> PrefixLens[b] + 1], g, SeqLenFill)
        full == FullMetadata(rows, lens)
        win == WindowMetadata(rows, lens)
    IN  /\ round.step = "decode"
        /\ StoreTarget(g, 1, FlattenSeq(Locs2d(w)), kvs)
        /\ attended' = {Row("decode", kvs[b], PrefixLens[b],
                            DecodeBag(full, target'.full, b, splits),
                            DecodeBag(win, target'.swa, b, splits))
                          : b \in DOMAIN kvs}
        /\ round' = Idle
        /\ seqLen' = [r \in Rows |->
             IF r \in ToSet(round.rows) THEN seqLen[r] + 1 ELSE seqLen[r]]
        /\ UNCHANGED <<boot, owner, chunked, table, swaOf, served, draft>>

\* The draft worker's block: its own pool, its own backend.  The layers of the
\* draft model are not causal: a row sees the whole block.
Propose ==
  \E g \in GraphChoices(Len(round.rows)) :
    LET w == [b \in DOMAIN round.rows |-> NumDraft - 1]
        kvs == NewKV(w, LAMBDA b, j : "d")
        rows == Replayed(round.rows, g, 0)
        full == FullMetadata(rows, Replayed(PrefixLens, g, SeqLenFill))
        qo == QoIndptr(Len(rows), "draft")
    IN  /\ round.step = "propose"
        /\ draft' = Store(draft, FlattenSeq(Locs2d(w)), kvs)
        /\ attended' = {Row("draft", kvs[x], BaseOf(kvs[x][1]),
                            ExtendBag(full, draft', kvs, qo, x, 0, FALSE, <<>>, <<>>), <<>>)
                          : x \in DOMAIN kvs}
        /\ round' = [round EXCEPT !.step = "verify"]
        /\ UNCHANGED <<boot, alloc, target, swaBuf>>

\* The target runs the current token and the drafts of every request; the
\* first acc[b] drafts of request b turn out to be its tokens.  An eager verify
\* may have a custom mask or none; a captured one reads what it was captured
\* with, the buffer of the mask or nothing.
Verify ==
  \E g \in GraphChoices(Len(round.rows)), masked \in BOOLEAN,
     acc \in [DOMAIN round.rows -> 0 .. NumDraft - 1] :
    LET w == round.width
        kvs == NewKV(w, LAMBDA b, j : IF j - 1 <= acc[b] THEN "t" ELSE "d")
        rows == Replayed(round.rows, g, 0)
        lens == Replayed(PrefixLens, g, SeqLenFill)
        full == FullMetadata(rows, lens)
        win == WindowMetadata(rows, lens)
        qo == QoIndptr(Len(rows), "target")
        mask == IF masked THEN ChainMask(PrefixLens) ELSE <<>>
    IN  /\ round.step = "verify"
        /\ g # 0 => masked = GraphMask
        /\ StoreTarget(g, NumDraft, FlattenSeq(Locs2d(w)), kvs)
        /\ attended' = {Row("target", kvs[x], BaseOf(kvs[x][1]),
                            ExtendBag(full, target'.full, kvs, qo, x, 0, TRUE, mask, lens),
                            ExtendBag(win, target'.swa, kvs, qo, x, Window, TRUE, mask, lens))
                          : x \in DOMAIN kvs}
        /\ round' = [round EXCEPT !.step = "commit", !.commit = [b \in DOMAIN acc |-> acc[b] + 1]]
        /\ UNCHANGED <<boot, alloc, draft>>

\* set_kv_buffer_prefix_valid on the draft's pool, then the new lengths.
Commit ==
  /\ round.step = "commit"
  /\ draft' = StorePrefixValid(draft, Locs2d(round.width), round.commit,
                NewKV(round.width, LAMBDA b, j : IF j <= round.commit[b] THEN "t" ELSE "d"))
  /\ seqLen' = [r \in Rows |->
       LET at == {b \in DOMAIN round.rows : round.rows[b] = r}
       IN  IF at = {} THEN seqLen[r] ELSE seqLen[r] + round.commit[CHOOSE b \in at : TRUE]]
  /\ round' = Idle
  /\ attended' = {}
  /\ UNCHANGED <<boot, owner, chunked, table, swaOf, served, target, swaBuf>>

---------------------------------------------------------------------------
Init ==
  /\ boot \in {BootOf(a) : a \in Boots}
  /\ owner = [r \in Rows |-> 0]
  /\ seqLen = [r \in Rows |-> 0]
  /\ chunked = [r \in Rows |-> FALSE]
  /\ table = [r \in Rows |-> [p \in Positions |-> 0]]
  /\ swaOf = [s \in 1 .. FullSlots |-> 0]
  /\ target = [full |-> EmptyPool(FullSlots), swa |-> EmptyPool(SwaSlots)]
  /\ draft = EmptyPool(DraftSlots)
  /\ swaBuf \in [1 .. NumDraft * (CHOOSE g \in GraphSizes : \A h \in GraphSizes : h <= g) -> {0}]
  /\ round = Idle
  /\ served = 0
  /\ attended = {}

Next ==
  \/ \E r \in Rows : ScheduleExtend(r) \/ Finish(r) \/ EvictSwa(r)
  \/ \E batch \in SUBSET Rows : ScheduleBatch(batch)
  \/ Extend \/ Decode \/ Propose \/ Verify \/ Commit

Spec == Init /\ [][Next]_vars

---------------------------------------------------------------------------
(* Properties of a boot *)

\* What an accepted boot allocates on a stage, the pools of the KV cache, the
\* states of its slots and the draft positions' states of every request it
\* will run at once, exceeds the memory that was left by the pad page of each
\* layer and nothing else (_profile_available_bytes divides that memory among
\* configurators that each round on their own; none of them counts the pads,
\* which the slack of mem_fraction_static has to carry).
OnlyPadsOverrun ==
  Accepted =>
    LET a == boot.args
    IN  \A s \in StageIds(a) :
          PoolBytes(a, boot.config[s], s)
            + (IF a.mamba = 0 THEN 0
               ELSE StateBytes(a) + DraftStateBytes(a, MaxRequestsOf(a, boot.config[s].tokens)))
            <= a.rest + PadBytes(a, s)

\* All stages of a pipeline allocate the same slots, and no fewer than they
\* could: a page more would exceed the user's limit or the budget of a stage
\* that has KV.  A stage without any never decides
\* (_apply_token_constraints, has_kv_on_another_pp_stage).
StagesShareCapacity ==
  Accepted =>
    LET a == boot.args
        c == boot.config[1]
        holders == {s \in StageIds(a) : a.hybrid \/ a.stages[s] > 0}
    IN  /\ \A s \in StageIds(a) : boot.config[s] = c
        /\ holders # {} =>
             \/ a.maxTotal > 0 /\ c.tokens + a.page > a.maxTotal
             \/ \E s \in holders : ~PoolSizes(a, s, KvBudget(a)).ok
                   \/ PoolSizes(a, s, KvBudget(a)).tokens < c.tokens + a.page

\* Every slot the allocator of the target hands out exists in the pool the
\* draft keeps under the same number, whichever sub-pool its layer is routed
\* to (the comment on size_swa in _build_hybrid_swa_kv_pool).  That comment
\* speaks of models with full layers: without any, full_max is 0 and so is a
\* pool of that size.
DraftSlotsExist ==
  Accepted /\ Speculates /\ (boot.args.hybrid /\ boot.args.spec = "eagle" => boot.args.fullLayers > 0) =>
    \A s \in StageIds(boot.args), depth \in {"full", "banded"} :
      AllocatorSlots(boot.args, boot.config[s])
        <= DraftPoolSlots(boot.args, boot.config[s], depth)

\* An accepted server can admit a request: its SWA pool is above the floor of
\* a prefill, and a mamba-like model has the state slots of every request it
\* runs at once.  (A user limit below the floor is not refused when the SWA
\* pool has a fixed cap.)
OneRequestFits ==
  Accepted =>
    LET a == boot.args
        c == boot.config[1]
        requests == MaxRequestsOf(a, c.tokens)
    IN  /\ a.hybrid /\ a.fullLayers > 0 /\ ~(ChunkCapApplies(a) /\ a.maxTotal > 0)
             => a.window + a.page < c.swa
        /\ a.mamba > 0 => /\ requests > 0
                           /\ requests * SlotsPerRequest(a) <= MambaStates(a)

---------------------------------------------------------------------------
(* Properties of serving *)

Own(id, positions) == {Entry(KV(id, p, "t")) : p \in positions}
Once(bag) == \A e \in DOMAIN bag : bag[e] = 1
Weighed(bag) == DOMAIN bag
\* The last position a row sees: its own, or in the draft's block the last one.
LastSeen(a) == IF a.model = "draft" THEN a.base + NumDraft - 2 ELSE a.kv[2]
Chunk(a) == {Entry(KV(a.kv[1], p, tok)) : p \in a.base .. LastSeen(a), tok \in {"t", "d"}}
PositionsOf(bag) == {e.payload[2] : e \in Weighed(bag)}

\* A full-attention layer of the target weighs every position of the row's own
\* request up to the row's own exactly once, a layer of the draft every position
\* of the context and of the whole block, which it attends non-causally; of what
\* was committed before the forward both weigh only the request's real tokens:
\* whatever the batch, the padding, the splits, the mask and the rejected drafts.
AttendsOwnContext ==
  \A a \in attended :
    /\ Once(a.context)
    /\ Weighed(a.context) \subseteq Own(a.kv[1], 0 .. a.base - 1) \cup Chunk(a)
    /\ PositionsOf(a.context) = 0 .. LastSeen(a)
    /\ Cardinality(Weighed(a.context)) = LastSeen(a) + 1

\* A local layer weighs a window of the same keys that ends at the row itself
\* and misses at most one of the Extent keys the masks admit.
AttendsOwnWindow ==
  \A a \in {x \in attended : x.model # "draft"} :
    LET seen == PositionsOf(a.window)
    IN  /\ Once(a.window)
        /\ Weighed(a.window) \subseteq Weighed(a.context)
        /\ \E first \in 0 .. a.kv[2] :
             /\ seen = first .. a.kv[2]
             /\ first = 0 \/ a.kv[2] - first + 1 \in {Extent - 1, Extent}

\* Between rounds every committed token of a live request is in the pools with
\* the scales of its own payload; what no window needs may be gone from the SWA
\* pool, and the draft's pool has the context the next block reads.
CommittedIsStored ==
  round.step = "idle" =>
    \A r \in Live, p \in Positions : p < seqLen[r] =>
      LET kv == Entry(KV(owner[r], p, "t"))
          s == table[r][p]
      IN  /\ Load(target.full, s) = kv
          /\ p >= seqLen[r] - Window => Load(target.swa, Translate(s)) = kv
          /\ Speculates => Load(draft, s) = kv

\* The same token weighs the same keys however it is run: on a local layer a
\* decoded row weighs the keys the verify of that row weighs.
WindowIndependentOfLane ==
  \A a \in {x \in attended : x.model # "draft"} :
    PositionsOf(a.window) = {p \in 0 .. a.kv[2] : p > a.kv[2] - Extent}
=============================================================================
