# TLA+ models of the Inkling serving stack

This directory holds TLA+ models of the parts of the repository whose
correctness depends on order, concurrency, failure or bookkeeping rather than on
floating-point arithmetic: TLC configurations that check them on small
instances, and TLAPS proofs of what matters most. Paths below are relative to
the repository root (`src/` here).

Contents: [inventory](#inventory), [modules](#modules),
[runs](#runs-bounds-and-what-they-show), [findings](#findings),
[fairness](#fairness), [proofs](#proofs), [limits](#what-is-not-modelled),
[plan](#plan).

## Inventory

The repository patches SGLang so that the Inkling model with a DSpark
speculator runs on two DGX Sparks with a quantized KV cache, and holds the
scripts that boot, measure and compare configurations of it. SGLang itself (the
scheduler, the speculative worker, the allocators, the prefix tree, the CUDA
kernels in the image) is not in the repository: what the code relies on is
modelled as external, from how the files here call it.

| Component | State it keeps | Operations | Hard behaviour | Correct when | Status |
|---|---|---|---|---|---|
| Short-convolution cache (`patches/files/sconv.py...`, the commit in `inkling.py...`) | a window of W-1 inputs per slot, a positional buffer of windows per verified batch | extend, decode, target verify, commit, snapshot to a track slot | verify and commit are separate steps; slots are reused uncleared, shared with the prefix cache, addressed by number; every length of accepted run | the slot holds exactly the last W-1 committed inputs; snapshots and cached prefixes hold the state of the length recorded for them | `SconvCache`, proved |
| Draft-extend rebuild (`sconv.py...`: 451-508, 858-963) | the same slots, of the draft model | one in-place kernel, a program per row | reads and overwrites one slot cell by cell; padded rows of a CUDA graph carry stale slot numbers | the effect is that of feeding exactly the accepted tokens | `DraftExtend`, proved |
| E6 memory experiment (`scripts/run-e6-memfrac-ab.sh`, `scripts/host-memory-guard.sh`, `benchmarks/evaluate_memfrac.py`) | containers on two nodes, guard processes, trip files, status files | start, measure, collect, tear down two arms; guards that remove a container below a threshold | guards, launchers, OOM killer and runner run concurrently; any ssh or docker command may be lost; `set -e` with an EXIT trap | no stable status for an arm that lost its container to memory; acceptance only on evidence; nothing left running | `MemfracArm`, proved |
| E8 latency sweep (`scripts/run-e8-decode-latency-ab.sh`, `benchmarks/compare_ab.py`) | one server at a time, result and decision files, `FAILED_ARMS` | run every arm with its gates, then compare each with the baseline | failures `set -e` does not see; a server of the arm before still answering; files of an earlier session | no comparison without a baseline; every arm reported once; a result measured on its own server | `LatencySweep`, proved |
| Launchers (`inkling-sglang-launch.sh`, `nvfp4-kv-boot.sh`, `champion-profile.sh`) | none | render knobs; docker rm; docker run | docker steps race with the runners | docker steps only, inside the two runner models | partly |
| Attention layer (`kv-quant/.../attn.py`) | queues of two CUDA streams, events, the tensors of a call, the convolution state, the stored rows | one forward: projection, convolutions, norms, log scaling, relative logits, quantization, store, attention | the host runs ahead of the device; blocks are reused by the next call; what is done where depends on a dozen settings | each operand is this call's and was transformed once; rows stored once | `AttnForward`, proved |
| Quantized KV pools (`kv_quant_pools.py`) and triton backend (`triton_backend.py`, `kv_quant_attention.py`) | payload and scale per slot of three pools, pad slot 0, write buffers of captured graphs | prefill, decode, draft block, verify, commit; eager or replayed, whole context or window | rejected and padding rows share slot 0; a graph replays with stale tails; batch, splits and masks index one flat list; slots are evicted and reused | a row weighs its own context exactly once; committed tokens are stored with their own scales | `KvServing`, `KvAttention` (facts proved) |
| KV pool sizing (`pool_configurator.py`, `kv_cache_configurator.py`) | none (a computation at boot) | bytes per token, states, limits, the agreement of the pipeline stages, the pools | three consumers of one budget that each round; a minimum over stages some of which have no KV; draft pools under the target's slot numbers | what is allocated fits; all stages agree; every slot handed out exists | `PoolSizing`, inside `KvServing`, proved |
| Draft worker caps (`draft_worker_common.py...`) | none | context cap, graph width | off-by-one at the cap | width covers the batch | the width, in `KvServing` |
| Quality gates (`run-quality-gates.sh`, `gsm8k_eval.py`, `niah_eval.py`) | an append-only log, an atomically replaced checkpoint, an identity file, a decision | load, run a case, save, decide | a kill between or inside writes; a later run of another build or concurrency | no item lost or counted twice; no mixed builds; a pass is backed by the files | `QualityGates`, proved |
| Decision rules (`compare_ab.py`, `select_block_size.py`, `evaluate_*.py`) | none | classify measurements | boundaries of the thresholds | fail closed | E6's rule in `MemfracArm`, E8's as a choice in `LatencySweep`; the rest is not |
| Other runners (E1-E5, E7) | as E8 | as E8 | boot cache (E5), stop and resume (E7) | as E8 | not modelled |
| Model forward, MoE | tensors | arithmetic | - | numerics | not modelled |
| Image baking, fingerprints, lint; probes, artifacts, vendored code | files | sequential I/O | - | - | not modelled |

How they interact: the scheduler hands a forward a batch of rows of
`req_to_token` and slot numbers. An attention layer runs the convolutions of k
and v (`ShortConvolution`, whose cache is a state per request), stores k and v
through the backend into the quantized pools, and reads them back through index
lists the backend built at the start of the forward. After a verify the
speculative worker calls `update_conv_state_after_mtp_verify` and
`set_kv_buffer_prefix_valid`, outside the forward pass, with the accepted steps;
the draft model's copy of the convolution caches is rebuilt by draft-extend. The
prefix cache takes over a request's track slot. How large all these pools are is
resolved once at boot. The runners talk to all this through docker, ssh,
`/health` and the completions endpoint only; the guards share nothing with the
runner but the container's name, the trip file and a PID.

`PROJECT.json` lists the hazards, each at its line, with the property that would
catch it, or why none does.

## Modules

| Module | What it is |
|---|---|
| `ConvWindow` | the window: what it should be (`WindowOf`) and what the kernels compute (`WindowAt`, a window read at an offset of a sequence that is never materialised), and the same state reached one token at a time (`FeedAll`) |
| `ConvReference` | the promise: tokens fed one at a time, no speculation, batching, slots or cache |
| `SconvCache`, `MCSconvCache` | the target model's cache with verify, commit, snapshots, slot reuse and prefix cache, and its refinement mapping to `ConvReference`; the symmetry TLC uses |
| `ConvWindowProofs`, `SconvCacheProofs` | lemmas about windows and about feeding them; the theorems about `SconvCache` |
| `DraftExtend`, `MCDraftExtend`, `DraftExtendProofs` | the in-place draft-extend kernel, one action per loop iteration; its refinement of `ConvReference`; the theorems about it |
| `AttnForward`, `MCAttnForward`, `AttnForwardProofs` | one attention layer on two streams; the settings TLC runs; the theorems for all settings |
| `KvAttention` | which keys the block-scaled kernels load and mask, and where payload and scale lie |
| `PoolSizing` | the sizes of the pools as operators on the arguments of a boot |
| `KvServing`, `MCKvServing`, `KvServingProofs` | a server that is booted with those sizes and then serves from those pools with those kernels; its boots and bounds; lemmas on the sizes and the theorems of a boot, of the kernels, of the pools' contents and of what a row weighs |
| `MemfracArm`, `MemfracArmProofs` | experiment E6: runner, launchers, guards, evidence and verdict; its theorems |
| `LatencySweep`, `LatencySweepProofs` | experiment E8: arms, gates, result files and comparisons; its theorems |
| `QualityGates`, `QualityGatesProofs` | the quality gates in a directory that outlives their runs; their theorems |

### SconvCache

An input is a member of a small set `Inputs`: enough to tell an accepted token
from a rejected one. `Zero` is the causal padding and `Stale` whatever a buffer
holds that its reader has not written; a freed slot becomes `Stale`, so that any
read of a former owner's data shows.

| Model | Code |
|---|---|
| `conv`, `inter` | `sconv_cache`; `intermediate_conv_window` rows, used positionally |
| `Extend` | the extend branch of `forward` (snapshot of the last whole chunk by `_track_sconv_indices`, convolution with or without initial state, `update_sconv_cache`) |
| `Decode` | the decode branch; the update kernel also writes the track slot |
| `TargetVerify` | the verify branch: `save_intermediate_conv_windows` in front of the convolution, no cache update |
| `CommitVerified` | `update_conv_state_after_mtp_verify`, torch path (`INKLING_TORCH_CONV_COMMIT=1`), with the step bias and clamp |
| `AdmitMiss`, `AdmitHit`, `InsertPrefix`, `Evict`, `Finish` | external: allocator, prefix tree and scheduler |
| `LastCorrectStep`, `StepToTrack` | external: what the speculative worker passes to the commit |

An extend here is the target model's. A draft extend, which may start from zeros
although its request has tokens (sconv.py:172-178), is `DraftExtend`.

The launchers set `INKLING_COMMIT_STEP_BIAS=1`; `SconvAssumption` fixes that
value. It is right because the worker's accepted count leaves out the bonus
token: `LastCorrectStep` is one less than the step to commit. The mutant
`UnbiasedStep` (bias 0) breaks `WorkingWindow`, which is the reason for the
knob. `StateLen <= ChunkSize` (3 against a chunk of hundreds) makes the chunk
snapshot read the request's own rows only.

### DraftExtend

`Launch` is the host side (which rows cross an interval boundary and at which
step), `Start`, `TrackWrite` and `AcceptWrite` are the program of a row, one
load and one store per action, interleaved over the rows; `Retire` is the end of
the kernel on the stream. Channels are independent and are one here. Tokens are
named by request, position and round, so that a rejected draft and the token
that later takes its position differ. `before` remembers the cache at launch.

### AttnForward

`Forward` is, per stream, the list of kernels and event operations one call of
`InklingAttention.forward` puts on it (`p \odot q` is p, then q), composed of the
code's branches: `FusedBranch` (the prologue kernels), `AltBranch` (overlap under
capture), `PlainBranch`, then `NormScaleJoin`, `Quantize`, `Attend`. `Issue` is the
host, which appends a whole call without waiting; `Step(s)` runs the head of a
stream. A tensor is the call it belongs to and what has been done to it, in
order. The second call writes the same tensors: a kernel that comes late finds
the wrong call in them, which is what a missing fork shows. `buf`, `conv` (the
updates of the convolution state), `rows` (the KV rows stored) and `seen` (what
the attention got) are the device. Kernels are modelled by the contract their
call sites state; the wait of the sheared-bias kernel inside the backend is
modelled where the comment at attn.py:812-817 places it, after the KV write.
The projection of the output behind line 955 is left out. The setting `layout` stands for
what a fused store asks of the pool (page size and scale dimensions, 516-545); a
verify takes the prologue of a decode with several rows (405-410). The prologue's
own conditions on shapes (head size 128, at least one token) are part of
`fusedPrologue`.

`Reachable` leaves out one corner (`TauFolds`): a prologue that quantizes the query, log
scaling on, `_fused_log_tau` off. There tau would be applied to a query that is
already quantized by the kernel (its comment at 757-758 counts on the fold). The
flag's default is set outside the repository, and no script here changes it.

### KvAttention

Operators on key indices: `DecodeLoads` gives the (program, tile) pairs that load
a key, `PrefixKeys` and `ChunkKeys` the two stages of the extend kernel with the
window and the custom mask (`MaskCell` is the flat index), `FlatScale` and
`KernelScale` the two ways a scale is addressed.

### PoolSizing

One operator per function of the configurators, on a record of server
arguments. `Resolve` is the whole resolution on every pipeline stage, with the
minimum over stages and the user's limit, and `Raise` where the code raises;
`PoolBytes` is what the pools built from it take, computed from the pools' own
buffers and not from the configurator's cell sizes: a row per slot and the pad
page of each layer (`m = self.size + self.page_size`, kv_quant_pools.py:216).
`PadBytes` is the pad pages alone. Floats (the ratio of the pools, the share of the
states) are exact fractions here. `WellFormed` says what the code asserts or a
model's configuration gives: head sizes of whole scale blocks, keys and values of
one size (`BaseCell` has one number for both), a local layer in a hybrid model, a
sliding window where one is read; and that there is at least one request per
data-parallel worker, which no assert says. `rest` is what is left after weights and,
where graphs are captured first, after their slack (1623-1631); the debugging cap
`cap_tokens` (1789-1790) is not modelled.

### KvServing

| Model | Code |
|---|---|
| `boot`, `Resolve` | `configure`, `_resolve_memory_pool_config` |
| `table`, `swaOf` | `req_to_token`; the mapping behind `translate_loc_from_full_to_swa` |
| `target`, `draft` | the full and SWA pools of the target, the pool of the DSpark draft: payload and scale per slot |
| `swaBuf` | `cuda_graph_swa_out_cache_loc` |
| `Extend`, `Decode`, `Verify`, `Propose` | metadata, store and kernels of one forward of all layers; `Propose` is the draft worker's block |
| `Commit` | `set_kv_buffer_prefix_valid` on the draft's pool |
| `ScheduleExtend`, `ScheduleBatch`, `Finish`, `EvictSwa` | external: the scheduler and its allocator |
| `attended` | what the rows of the last forward weighed, a bag of pool entries |

A KV vector is a tag of request, position and whether the token became the
request's. `Decode`, `Propose` and `Verify` choose between the eager metadata and the
captured graph the batch fits; a graph adds rows that name row 0. `Verify` chooses how
many drafts turn out right, and whether there is a custom mask: freely in an eager
forward, in a replayed one as at the capture (`GraphMask`), whose graph reads
the mask's buffer or does not (triton_backend.py:622-629, 1204-1209). The kernel's
`IS_CAUSAL` is an argument of `ExtendBag`. It is false for the draft's block, which
"attends non-causally over [window ; block]" (`docs/DRAFT-FINETUNE-PLAN.md:107`,
168): every row of it sees the whole block. What the draft keeps of the
context in front of its block is the worker's affair, outside the repository; here it
is all of it. The pools of a server are those
its boot resolved to: `Modelled` picks the boots whose forwards are modelled,
the other boots only have the properties of a boot.

### MemfracArm

`pc` walks through `run_arm`. Each command the script guards with `|| true` may
be lost (`Lose`) with no effect; each one it does not guard aborts to the EXIT
trap. A launcher has two steps, docker rm and docker run. A guard waits for the
container, watches, reads low, writes its trip file, removes: five steps any
other process may come between. `evidence` holds what the runner can find
afterwards; `killed` is a history variable, the truth. The fingerprint and
earlyoom preflights in front of the first arm only stop the experiment and are
left out; so is the throughput comparison of two stable arms, neither outcome
of which accepts 0.68.

### LatencySweep

`start_arm` is the condition of an `if`, so bash ignores `set -e` in it: `Gate`
(the runtime contract and the first lossless gate) and `Benchmark` record what
happened but let the arm go on; only a failed `wait_ready` and the last gate
(`PostGate`) fail it. `file` may start with results of an earlier session,
because `RESULT_DIR` is created with `mkdir -p` and never emptied. The two ranks
are one server here (`MemfracArm` has both).

### QualityGates

The variables of `directory` survive a run, those of `memory` do not. `niah` is
the checkpoint and the temporary file it is replaced from; `log` the records
written and `tail` the state of the last line: a crash in the middle of a write
leaves it torn, one in front of the newline leaves it open, and the next record
behind an open line makes both unreadable. `Crash` may come at any point and cuts
short the write it meets; it also stands for the exits under `set -e` between the
gates. A failed request ends an evaluation, not the runner. The bytes of the
dataset are checksummed and are one value here; the items are the order.

## Runs, bounds and what they show

| Run | Instance | Shows |
|---|---|---|
| `sconv_cache` | 2 requests, 5 slots, W-1 = 2, 2 verified tokens, up to 3 tokens | `TypeOK`, `SavedRows`, `WorkingWindow`, `TrackedWindow`, `CachedPrefix`; and `ImplementsReference`: the cache behaves as `ConvReference` |
| `draft_extend` | 2 rows, W-1 = 3, 3 draft tokens, interval 2, 2 rounds | `RawSafety` (the docstring's argument for working in place), `PaddedRowsWriteNothing`, `SnapshotAccepted`, `FeedsAccepted` (refinement of `ConvReference`) |
| `draft_boundary` | 1 row, 1 round | finding 1 |
| `attn_forward` | 2 calls, every reachable setting | `AttendsOwnOperands`, `StoredOnce`, `ConvAdvancedOnce`; `AlwaysFinishes`: no stream waits for ever |
| `kv_serving` | 3410 boots; 2 of them serve 2 requests of up to 5 tokens in 2 rows, a window of 3 keys, 3 verified tokens (draft blocks of 2), graphs of 2 with a mask, 6 or 8 slots | the boot: `OnlyPadsOverrun`, `StagesShareCapacity`, `DraftSlotsExist`, `OneRequestFits`; serving: `AttendsOwnContext`, `AttendsOwnWindow`, `CommittedIsStored` |
| `kv_window` | the same, graphs without a mask | finding 5 |
| `memfrac_arm` | any 2 of lost commands and faults | `TypeOK`, `StableClean`, `AcceptJustified`, `CleanExit`; `Terminates`, `GuardsEnd` |
| `memfrac_orphan` | 1 fault | finding 2 |
| `latency_sweep` | 2 candidates, 1 lost command or fault, any earlier results | `NoComparisonWithoutBaseline`, `AcceptedBooted`, `EveryArmReported`, `MeasuredOwnServer`, `Terminates` |
| `latency_gates` | 1 candidate, no fault | finding 3 |
| `quality_gates` | 2 cases, 4 items, batches of 1 or 3, 2 builds, 4 runs | `LogIsPrefix`, `NeverAskedAgain`, `OneBuild`, `CheckpointReadable`, `PassJustified` |
| `quality_torn` | 1 case, 2 items, 2 runs | finding 4 |

Why these bounds. In the convolution runs a window is shorter than the context,
so that inputs leave it; accepted runs are shorter than, as long as and
longer than the window; two requests suffice for one to disturb the other's
slot, and five slots (two each, one cached prefix) for a freed slot to be
reused. `MaxContext` is the only bound on the length of behaviours. Two input
values tell any two tokens apart that a property compares, one pair at a time.
`SconvCacheProofs` removes the bounds for the invariants. In `DraftExtend` two
rounds put a rejected draft where a later round could pick it up. In
`QualityGates` four items make batches that straddle the point of a kill, and four
runs are three kills and a resume after each. In
`MemfracArm` (`MaxTrouble`) two lost commands are both halves of a `stop_arm`, or a
kill and a removal, two faults are one per arm, one of each a fault whose
cleanup is lost. In `AttnForward` the second call is the one whose values a late
kernel finds; a third would meet the same queues. In `KvServing` two requests in two
rows give batches of one, padded to a graph of two, and of two, whose flat lists
and masks have a second entry; a context of five is two more than the window, so
that keys leave it and SWA slots are evicted and reused; three verified tokens
give the draft a block of two, of which the first sees a row behind it; two splits
and tiles of two keys make a split end inside a tile. `PoolBound` keeps to eight
slots the servers that serve, few enough that a pool runs full. The real server has larger
windows, pools and granules: the boot properties and the kernel's index facts
are proved for all of them (see [proofs](#proofs)).
The claims that hold only without a lost
command say so in the formula (`CleanExit`, `MeasuredOwnServer`).

`CHECK_DEADLOCK FALSE` everywhere, and why: requests of `SconvCache` may all
be at `MaxContext` with no slot free, `DraftExtend` ends after `Rounds`,
`AttnForward` after `Calls`, `KvServing` when `MaxRequests` are served or the boot
is refused, the runners exit, and `QualityGates` ends after `MaxRuns`.
`AlwaysFinishes` is the absence of deadlock where it matters.

Each property is also run against a deliberately broken variant of a
definition it depends on (`mutants` in `PROJECT.json`); the variants stand next
to the definitions they replace (`WindowsBefore`, `LoopCellDescending`,
`NeverAborts`, ...).

## Findings

1. `draft_boundary`: the docstring of `_update_sconv_cache_for_draft_extend`
   says it "also writes the conv state at that boundary". `track_step` is
   `boundary - pre_seqlen - 1`, right for the verify buffer, whose step t holds
   the state after t+1 tokens; the draft-extend kernel reads the padded sequence
   at offset `track_step`, the state after `track_step` tokens. The snapshot is
   one token short (`SnapshotAtBoundary`). It never holds a rejected draft
   (`SnapshotAccepted`). Only draft acceptance can suffer: the target verifies.
2. `memfrac_orphan`: `docs/MIAAI-PLUS-GOAL.md:107` says "automatic cleanup leaves
   both ranks stopped after experiments". The EXIT trap of E6 removes what runs
   when it runs; a launcher that has not reached docker run yet starts its rank
   afterwards (`StoppedAfterExit`).
3. `latency_gates`: `docs/EXPERIMENT-E8-DECODE-LATENCY.md:163` says "Any T4
   mismatch on any arm invalidates that arm regardless of throughput". A mismatch
   before the measurement does not: `set -e` is off inside `if ! start_arm`, and
   the arm can be accepted (`MismatchInvalidates`).
4. `quality_torn`: `docs/QUALITY-GATES-Q2-Q3.md:16` says "Responses are append-only
   and identity-checked so a long run can resume". A run killed inside a write
   leaves a partial last line, which `load_resume` does not skip: every later
   resume ends with its error (`LogResumes`).

5. `kv_window`: `README.md:216` says "Speculation is lossless — DSpark output is
   byte-exact vs non-speculative decoding at temp 0." On a local layer a decoded
   token weighs min(seq_len, sliding_window_size) keys with itself among them
   (`triton_backend.py:2291`), `local_extent - 1` of them; verify and prefill admit
   q_id <= kv_id + sliding_window_size, `local_extent` keys
   (`WindowIndependentOfLane`). The two lanes agree up to the window's length and
   differ by the oldest key beyond it; both stay inside the request's own context
   (`AttendsOwnWindow`).

Seen on the way, without a run: `SWAChunkCapPoolConfigurator.
calculate_pool_sizes_from_max_tokens` (pool_configurator.py:597-607) takes
min(cap, limit) for the SWA pool, neither aligned to a page nor checked against
the floor of a prefill, although the comment at kv_cache_configurator.py:1690
says the configurator "re-aligns" (`OneRequestFits` excludes that case and says so);
no budget of token pools counts the pad page that every layer allocates
(`OnlyPadsOverrun` says that nothing else exceeds it), and the DSpark draft pool of
a hybrid model has no term in it: both live on the slack `mem_fraction_static`
leaves; a hybrid model without a full layer gets no full slots
(pool_configurator.py:463-467), by which the ring of a native MTP draft is sized
(kv_cache_configurator.py:1290-1297), so that draft would have none
(`DraftSlotsExist` excludes the case; native MTP does not run here,
`docs/BUGS-AND-FIXES.md:28`); in E8 a `tee` that cannot write ends the session with
the status of `compare_ab.py`, which is 0 after an acceptance, and leaves the arms
behind it unreported (246-249; writes succeed in the model); without a request limit a server whose
pool holds one token runs no request, which only a mamba-like model refuses; an
fp4 stage without KV still pays for the shared dequantization row, which never
decides the minimum (`EmptyStageProposesMore`).

## Fairness

Safety needs none. `Terminates` and `GuardsEnd` assume weak fairness of the
runner, of each launcher's two docker steps and of each guard: processes of
hosts that stay up, whose external commands return. (`curl` without a time limit
may not return: listed as a hazard.) Nothing is assumed of the server: it may
never become healthy. `BootBound` in `MemfracArm` and `GivesUp` in
`LatencySweep` say that READY_TIMEOUT (15 minutes) and the guards' wait are long
against the seconds a launcher needs to reach docker run. `AlwaysFinishes` assumes
weak fairness of the host thread and of each stream: a launched kernel ends, and
a stream whose wait is satisfied goes on. `KvServing` and `SconvCache` state
safety only: what makes a request end is the scheduler, outside the repository.

## Proofs

Each theorem is proved for every value of the constants that the named
assumptions admit. TLC checked every inductive invariant on the component's run
before it was proved, but for `AttnForward`: its invariant quantifies over the sets
of stages done and over enumerations of the queues, and TLC checked the properties.

`SconvCacheProofs`, for all requests, slots, inputs, window lengths, draft lengths,
chunk sizes, intervals and contexts that satisfy `SconvAssumption`,
`StateLenAssumption` and `CellAssumption`:

| Theorem | Says |
|---|---|
| `InductiveInvariant` | `Spec => []IInv` |
| `TypeCorrect`, `SavedRowsCorrect` | types; the saved rows are the states the commit may choose from |
| `WorkingStateCorrect` | a working slot holds the last W-1 committed inputs |
| `SnapshotCorrect`, `PrefixStateCorrect` | snapshots and cached prefixes hold the state of their length |
| `CacheImplementsReference` | `ImplementsReference`: every step is a step of `ConvReference` or leaves it as it is |

The argument. `WorkingWindow` alone is not inductive. The commit copies a saved
window, so one needs `SavedRows`: what an earlier verify saved is still right,
which holds because no action but the commit touches a request in flight. Every
write goes to a slot by number, so one needs `SlotOwnership`: no write to one
slot disturbs another owner. That is what the allocator and the prefix tree,
outside the repository, see to; it is a part of the invariant and no result. A cached prefix comes from a snapshot, so
`CachedPrefix` needs `TrackedWindow`. `IdleRequests` gives the empty context an
admission starts from. `IInv` is the conjunction; each action has a lemma,
with a step per conjunct it can disturb.

The data lemmas: `WindowAdvance` (the kernel's window at offset n of the padded
sequence is the window of the extended context), `WindowPush`,
`ChunkWindowIsWindow` (needs `StateLen <= ChunkSize`), `CommitStepIsAccepted`
(needs `StepBias = 1`), `TrackStepBounds` (integer division), `ScatterAt` and
`ScatterElsewhere` (masked writes with distinct targets).

The refinement. Under `IInv` a request sees the window of its tokens
(`VisibleIsWindow`), before and after a step, so what a step is to the reference
depends on what it does to the tokens: an extend, a decode, a commit and a prefix
hit append a run to some requests (`FeedStep`), a completion forgets one
(`EndStep`), and the rest leaves the tokens alone (`SilentStep`). That feeding a run
one token at a time ends in the same window is `FedIsWindow`. `FeedAll` is a
recursive function, which TLA+ defines by a choice: `WindowAt` at every offset is
a solution of its recursion, so the choice is one (`FedOneByOne`), and no two
solutions differ at a least offset (`Least`).

`KvServingProofs`, for every set of boots that satisfies `BootsAssumption`
(well-formed arguments, `WellFormed`), any number of stages, any memory:

| Theorem | Says |
|---|---|
| `OverrunIsPads` | `OnlyPadsOverrun`: the pools exceed what was left by one pad page per layer at most |
| `SharesCapacity` | `StagesShareCapacity`: the stages agree, and waste less than a page |
| `DraftHasEverySlot` | `DraftSlotsExist`: the draft's pool has every slot handed out, if a hybrid target has a full layer or the draft is DSpark's |
| `AdmitsOneRequest` | `OneRequestFits`: window, page and states of a request fit |

The argument. `boot` is written by `Init` alone (`BootStays`, one step per action),
so `Booted`, that the configuration is the resolution of well-formed arguments, is
inductive, and each property is a statement about `Resolve`. For that,
there is a lemma per configurator: the bytes of a pool against the
cell size it was divided by (the dequantization row and the rounding of an EAGLE
scale make them differ, in the safe direction), the budget against states and draft
states, and the re-sizing under a smaller limit, which never takes more than the
first sizing did. `AcceptedFits` composes them per kind of server, on the bytes of
the slots (`SlotBytes`), and `PadsApart` separates those from the pad pages;
`AcceptedShares` has the minimum over the stages and needs `EmptyStageProposesMore`
for a stage without KV. Rounding is `\div` with products, which the SMT solver does
not do alone: the module begins with the division and product lemmas and
`Least` (every set of naturals has a least element), from well-founded induction on the naturals.

Of the same module, about serving, for any rows, contexts, batches, captured
graphs, accept counts, draft length and window (`RowsAssumption`, `SizesAssumption`):

| Theorem | Says |
|---|---|
| `ServingInvariant` | `Spec => []Serving` |
| `CommittedStays` | `CommittedIsStored`: between rounds the pools of target and draft have every committed token |
| `ContextAttends` | `AttendsOwnContext`: a row weighs its own request's keys up to itself, each once; a row of a draft block those of the context and of the whole block |
| `WindowAttends` | `AttendsOwnWindow`: a local layer weighs a window of them that ends at the row |

The argument. A store goes to slots by number, so the committed tokens stay only
if no other position has their slots. `SlotsOwnedOnce` says it for the full
pool and, through the mapping, for the SWA pool; it needs that a slot of the SWA
pool is behind a slot that some position holds, otherwise a slot that is handed
out again would bring an old mapping along. `RowFilled` ties the table to the
lengths: a row's slots are its first positions, the committed ones among them,
and those the window may reach are mapped. `Flight` says what the batch is:
different live rows whose new tokens have slots. `StoredSoFar` is the property,
and before a commit also the tokens the verify stored and the commit will make
committed. `Serving` is the conjunction.

A forward is one store of a flattened batch: `Runs` names the slot of each cell
(masked ones go to the pad slot), `FlattenTogether` that flattened slots and
flattened vectors stay in step (`FlatExists` gives the recursive function of
`FlattenSeq`, extended from its least missing value), `CellWritten`
what a slot holds after it, `SwaLocsFacts` and `PadToKeeps` the same for the padded
store of a replayed graph. `TargetHolds`, `DraftHolds` and `GrownStored` turn that
into the tokens of the rows. A reservation hands out free slots of both pools,
each once (`SortedFacts`, `MissingFacts`, `ReserveFacts`); `Releasing` is shared
by `Finish` and `EvictSwa`.

What a row weighs is a bag, and both properties say that a bag counts the entries
of some positions once each. `BagWeighs` gives that from a bijection: operands in
one place each (`Places`), whose entries are those of the positions (`Seen`: a
committed token, or the token the forward runs there). The rest is where the
operands are. `FullReads` and `WindowReads` say which slots the flat index list
of a batch gives a request (`IndptrFacts`, `OneRun`: offsets of runs do not
overlap, padded rows come last), `PoolsHold`, `DraftPoolHolds` and
`DecodePoolsHold` what those slots hold after the store of the forward (from
`TargetHolds`, and from `RowFilled` for what the window still needs).
`RowFound` finds the request and the row of a query, `ExtendCounts` that prefix
and chunk together are one interval of positions, `DecodeWeighs` the same for the
splits and tiles of a decode (`OneLoad`). `ChainCausal` reads the flat mask of a
verify at the cells of the padded batch: it admits the rows up to the own one.
`Admits` names the last row of its chunk a row sees, the own one where the forward is
causal and the last of the block where it is not.
`Owners` (a request is in one row) makes `BaseOf` the length of the row's own
request. `ExtendAttends`, `DecodeAttends`, `ProposeAttends` and `VerifyAttends`
put these together, one per forward.

Also in `KvServingProofs`, about the kernels: `EveryKeyLoadedOnce` (the splits and tiles of a decode row
partition its keys, for any length, number of splits, granule and tile),
`MasksMeet` (the two stages of the extend kernel together admit one window that
ends at the row), `ScalesAgree` (the store's flat scale index is the kernels'
index by head).

`DraftExtendProofs`, for any requests, kernel size, draft length, interval, number
of launches, accept counts and stale slot numbers:

| Theorem | Says |
|---|---|
| `UnreadCellsAreIntact` | `RawSafety`: the docstring's argument for writing in place |
| `PaddingIsInert` | `PaddedRowsWriteNothing` |
| `SnapshotsAreAccepted` | `SnapshotAccepted` |
| `WorkingWindowKept` | between launches a working slot is the window of the accepted tokens |
| `KernelImplementsReference` | `FeedsAccepted`: a retirement feeds each request its accepted tokens, and every other iteration is invisible |

The argument. `RawSafety` says which cells are intact and not what the others
hold, so it says nothing about the result. `Cells` does: below the loop counter
a slot holds the window that its loop writes, computed from the slot as it was at
the launch, and from the counter on it is untouched. An iteration reads its own
or a later cell, because the base is not negative (`TrackStepAccepted`, from
`FloorBounds`); so what it reads is the cell of that window (`CellRead`).
`Launched` says that only a padded row has the slot of another, and that a padded
row never enters a loop; `OtherRows` then leaves every other request alone.
`Windows` joins the launches: the window a launch starts from is that of the
committed tokens, and `RetiredRow` makes it so again with `WindowAdvance`.

`QualityGatesProofs`, for any number of cases, items, runs and kills:

| Theorem | Says |
|---|---|
| `LogStaysPrefix`, `AnswersAreKept` | `LogIsPrefix`, `NeverAskedAgain` |
| `CheckpointStaysReadable` | `CheckpointReadable` |
| `DirectoryHasOneBuild` | `OneBuild` |
| `PassStaysJustified` | `PassJustified` |

The argument. The results in memory are those of the file they were loaded from
(`CheckpointBehind`, `LogAndBatch`), and the temporary file is whole before it
replaces the checkpoint. A run past its identity check owns the directory
(`OwnDirectory`): this is what a resume under another build would break. A pass is
not undone because a full file stays full (`Passed`), which counts correct items
over sequences that only grow (`Cardinality` lemmas on intervals).

`LatencySweepProofs`, for any number of candidates, faults and lost commands:

| Theorem | Says |
|---|---|
| `BaselineComesFirst`, `AcceptedArmBooted` | `NoComparisonWithoutBaseline`, `AcceptedBooted` |
| `SessionReportsAll` | `EveryArmReported` |
| `ResultsAreOwn` | `MeasuredOwnServer` |

The argument. An arm that is behind and not in `FAILED_ARMS` passed the gates the
shell does see (`MeasuredSoFar`); the comparisons go through the arms in order
(`ComparedSoFar`). `OwnServer` is about docker: no launcher outlives the wait for
its server, so what answers is the arm that asks. It holds while no command is
lost, under any fault.

`MemfracArmProofs`, for any number of faults and lost commands:

| Theorem | Says |
|---|---|
| `TypeCorrect` | `TypeOK` |
| `StableArmsAreClean` | `StableClean` |
| `AcceptIsJustified` | `AcceptJustified` |
| `ExitIsClean` | `CleanExit` |

The argument. A guard writes its trip file before it removes, and the kernel logs
an OOM kill, so a container that is gone for memory has left evidence
(`EvidenceFirst`); the status file is written from that evidence, which is only
added to (`Reported`). `CleanExit` needs two facts about the past of an exit: the
runner knows the PID of every guard alive (`GuardsKnown`), and no launcher is on
its way to docker run (`LaunchedInTime`).

`AttnForwardProofs`, for any number of calls and every set of settings:

| Theorem | Says |
|---|---|
| `ForwardInvariant` | `Spec => []IInv` |
| `RowsStoredOnce` | `StoredOnce` |
| `ConvAdvances` | `ConvAdvancedOnce` |
| `OperandsOwn` | `AttendsOwnOperands`, if `TauFolds` holds of every setting |

The argument. A forward is a sequence computed from a dozen switches, and the cases
of its queues are too many to name. But each path issues a selection, in order, of
one script of 22 stages: `Has(c, k)` says when stage k is in it, `ForwardIssues` that
`Forward` lists, on each stream, exactly the stages it has. `Lists(q, e, P)` says
that a queue has the entries of a set of numbers in ascending order; a number
stands for a stage of a call, so that the head of a queue is the least of what is
pending (`NextUp`). The invariant has two halves. `Place(i, D, E)`: the device is in
call i with the stages D of the main and E of the alternate stream done, both
initial segments, and no event is recorded before its stage. From it
`MainStep` and `AltStep` show that no stream is ever in another call than the
other, which is the interleaving the events are there for: the alternate
stream is held by the fork of the next call, the main stream cannot end a call
before the join. `Data(i, D, E)` says what the tensors, the convolution state, the
rows and the attention's operands are at that place. Every stage has a lemma that
`Data` holds with it added; which stages are done when it runs is `Progress` for its
own stream and `Behind` for what the events say of the other. At the attention that
gives the operands (`Attention`), at the end of a call the state (`Convolved`).
`TauFolds` is needed where the code needs it: see `Reachable` above.

Only model-checked: every liveness property. Liveness under fairness, ENABLED and
RECURSIVE operators are outside what these provers do. The library's induction
theorems are too (they take an operator as a parameter): where an argument needs
induction, it goes by the least counterexample (`Least`).

## What is not modelled

Arithmetic on tensors: softmax, logit cap, the rounding of a quantized block,
MoE. In the backend: the unified pool and its virtual slots, decode context
parallelism, MLA, the deterministic unified kernel, split-KV verify, the multi-step
EAGLE backend, draft-extend under a graph, the mapping of query heads to KV heads;
requests that share a prefix through the radix tree (`KvServing` gives every
request slots of its own). In the pools: the two-stream store of the parent class
under capture, and the copies and moves the classes refuse. In the sizing: the
DSV4, MLA, minimax, out-of-tree and Ascend configurators; the scaling of a
non-hybrid DSpark draft by a function outside the repository (the boots have
no draft layers there). How a graph is captured, and what the scheduler, the
allocators and the acceptance loop do beyond what the code relies on.

Within the modelled files: the fused all-reduce variants of the cache writes;
the metadata the layers share through `_metadata_cache`; the triton commit the
launchers switch off, and `INKLING_NOOP_CONV_COMMIT=1`; the SSM half of the
commit; the convolution's output; the CUDA draft-extend kernel in the image.
Whether `causal_conv1d` writes through `hidden_states` before draft-extend reads
it is a question about the image (the comment at sconv.py:655 says it does; the
model takes the inputs as intact). After bias and clamp the commit masks no row:
the model's `valid` is always the whole batch, as in the code.

## Plan

What exists, most important first: the convolution cache and its proofs; the KV
pools, their sizing and the kernels' reads, with the theorems of a boot; the
attention layer's streams and their theorems; draft-extend; the two experiment runners; the quality
gates. What is left, in order:

1. `KvServing`: requests that share a prefix, so that `Finish` keeps shared slots;
   draft-extend under a graph.
2. `ConvMetadata`: the per-step metadata the layers share, under eager steps,
   capture and replay.
3. `BootCache` (E5) and `SweepResume` (E7).
