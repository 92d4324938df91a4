---------------------------- MODULE AttnForward -----------------------------
(***************************************************************************)
(* InklingAttention.forward of patches/kv-quant: the kernels one attention *)
(* layer puts on the current stream and on the alternate stream, and the   *)
(* events between the two.  The host issues a call without waiting for the *)
(* device; each stream runs its own queue in order and nothing but an      *)
(* event orders the two.  Consecutive calls get the same blocks from the   *)
(* allocator: a kernel that is late finds the next call's values in them.  *)
(*                                                                         *)
(* A tensor is the call it belongs to and the transformations it has been  *)
(* through, in order.                                                      *)
(***************************************************************************)
EXTENDS Naturals, Sequences, SequencesExt

CONSTANTS
  Calls,    \* bound on the number of consecutive calls of forward
  Configs   \* the settings the runs choose from

Streams == {"main", "alt"}
Modes   == {"verify", "decode", "extend", "draft_extend"}

(* What decides the path of a call: the backend and the KV pool of the     *)
(* server (layout: its buffers have the dimensions, page and scale layout  *)
(* a prologue can store into), the layer's kind, the batch's mode and the  *)
(* environment's switches.  fusedPrologue stands for its switch on heads   *)
(* of 128 in a batch with tokens.                                          *)
Settings ==
  [backend : {"fa4", "triton"}, kvDtype : {"bf16", "mxfp8", "fp4"},
   layout : BOOLEAN, local : BOOLEAN, mode : Modes, kvConv : BOOLEAN,
   altStream : BOOLEAN, capture : BOOLEAN, fusedPrologue : BOOLEAN, sheared : BOOLEAN,
   fusedStore : BOOLEAN, tau : BOOLEAN, fusedTau : BOOLEAN]

ASSUME AttnAssumption == Calls \in Nat \ {0} /\ Configs \subseteq Settings

VARIABLES
  cfg,     \* the settings of this process
  issued,  \* calls of forward the host has issued
  queue,   \* per stream, the kernels and event operations not yet run
  fired,   \* the events recorded so far
  buf,     \* the tensors: x (packed projection), q, k, v, rel
  conv,    \* per call, the updates of the convolution state of k and of v
  rows,    \* per call, the KV rows stored
  seen     \* per call, what the attention kernel was given

vars == <<cfg, issued, queue, fired, buf, conv, rows, seen>>

Fresh(i)      == [call |-> i, did |-> <<>>]
Did(t, steps) == [t EXCEPT !.did = @ \o steps]
If(b, s)      == IF b THEN s ELSE <<>>

(* What the host issues, in order on each stream: kernels, and the         *)
(* recording or awaiting of an event.  p \odot q is p and then q.          *)
Nothing        == [s \in Streams |-> <<>>]
p \odot q      == [s \in Streams |-> p[s] \o q[s]]
When(b, p)     == IF b THEN p ELSE Nothing
On(s, op)      == [t \in Streams |-> If(t = s, <<op>>)]
Run(s, kernel) == On(s, [what |-> "run", name |-> kernel])
Record(s, e)   == On(s, [what |-> "record", name |-> e])
Wait(s, e)     == On(s, [what |-> "wait", name |-> e])

(* alt_stream.wait_stream(current_stream).  Variant: the wait forgotten.   *)
Unforked == Nothing
Fork == Record("main", "fork") \odot Wait("alt", "fork")
-----------------------------------------------------------------------------
(***************************************************************************)
(* The decisions of forward.                                               *)
(***************************************************************************)
ApplyTau(c) == c.tau /\ ~c.local

UsesPrologue(c) ==
  c.backend = "fa4" /\ c.kvConv /\ c.altStream /\ c.fusedPrologue

UsesAlt(c) ==
  ~UsesPrologue(c) /\ c.backend = "fa4" /\ c.altStream /\ c.capture

FoldTau(c) == ApplyTau(c) /\ c.fusedTau

(* The layouts the prologue may store into itself: a plain bf16 pool, or   *)
(* the page-128 MXFP8 pool of the FA4 backend with interleaved scales.     *)
DoBf16Store(c)  == c.kvDtype = "bf16" /\ c.layout
DoMxfp8Store(c) == c.kvDtype = "mxfp8" /\ c.backend = "fa4" /\ c.layout
DoStore(c)      == DoBf16Store(c) \/ DoMxfp8Store(c)

(* The backend must not store again what the prologue stored.  Variant:    *)
(* every prologue is taken to have stored.                                 *)
AssumedStored(c) == UsesPrologue(c)
PrologueStored(c) == UsesPrologue(c) /\ DoStore(c)
PrologueQuantQ(c) == UsesPrologue(c) /\ DoMxfp8Store(c)

(* The scaling comes before the quantization: the prologue folds the one   *)
(* wherever it does the other.  The code leaves it to the setting.         *)
TauFolds(c) == PrologueQuantQ(c) /\ ApplyTau(c) => FoldTau(c)

(* The three fused prologues.  For DRAFT_EXTEND_V2 the kernel leaves the   *)
(* convolution state alone and the accept-gated updates follow (variant:   *)
(* they do not).                                                           *)
PrologueVerify(c) == Run("main", "prologue")
PrologueDecode(c) == Run("main", "prologue")
PrologueWithoutUpdates(c) == Run("main", "prologue")
PrologueExtend(c) ==
  Run("main", "prologue")
  \odot When(c.mode = "draft_extend",
             Run("main", "k_update") \odot Run("main", "v_update"))

(* rel_logits_proj on the alternate stream, fenced by its own event, which *)
(* the variant never records.                                              *)
RelUnrecorded == Run("alt", "rel_proj")
RelOnAlt == Run("alt", "rel_proj") \odot Record("alt", "rel")

FusedBranch(c) ==
  Fork
  \odot (CASE c.mode = "verify" -> PrologueVerify(c)
           [] c.mode = "decode" -> PrologueDecode(c)
           [] OTHER             -> PrologueExtend(c))
  \odot RelOnAlt

(* v_sconv and rel_logits_proj beside k_sconv and the norms.               *)
AltBranch(c) ==
  Fork
  \odot When(c.kvConv, Run("alt", "v_sconv")) \odot Record("alt", "v")
  \odot RelOnAlt
  \odot When(c.kvConv, Run("main", "k_sconv"))

PlainBranch(c) ==
  When(c.kvConv, Run("main", "k_sconv") \odot Run("main", "v_sconv"))

(* The norms and the log scaling the prologue has not done, then the join  *)
(* of v, or the projection of the relative logits when nothing overlaps.   *)
NormScaleJoin(c) ==
  When(~UsesPrologue(c), Run("main", "qk_norm"))
  \odot When(ApplyTau(c) /\ ~(UsesPrologue(c) /\ FoldTau(c)),
             Run("main", "scale_q"))
  \odot (IF UsesAlt(c) THEN Wait("main", "v")
          ELSE When(~UsesPrologue(c), Run("main", "rel_proj")))

(* FA4 with an MXFP8 pool takes quantized operands and their scales; on    *)
(* triton everything stays bf16 and the pool quantizes.                    *)
Prequantized(c) ==
  /\ c.kvDtype = "mxfp8" /\ c.backend = "fa4"
  /\ ~PrologueStored(c) /\ ~c.fusedStore

Quantize(c) ==
  When(c.kvDtype = "mxfp8" /\ c.backend = "fa4" /\ ~PrologueQuantQ(c),
       Run("main", "quant_q"))
  \odot When(Prequantized(c), Run("main", "quant_kv"))

(* The attention itself.  The sheared-bias kernel of FA4 takes the event   *)
(* and waits for it inside the backend, after the KV write; every other    *)
(* path joins the alternate stream first.                                  *)
Attend(c) ==
  LET join == When(UsesPrologue(c) \/ UsesAlt(c), Wait("main", "rel"))
      save == When(~PrologueStored(c), Run("main", "store"))
  IN  (IF c.sheared /\ c.backend = "fa4" THEN save \odot join ELSE join \odot save)
      \odot Run("main", "attention")

Forward(c) ==
  Run("main", "qkvr")
  \odot (IF UsesPrologue(c) THEN FusedBranch(c)
          ELSE IF UsesAlt(c) THEN AltBranch(c) ELSE PlainBranch(c))
  \odot NormScaleJoin(c) \odot Quantize(c) \odot Attend(c)
-----------------------------------------------------------------------------
(***************************************************************************)
(* The device.                                                             *)
(***************************************************************************)
(* The kind of convolution state update each mode calls for.               *)
UpdateOf(mode) ==
  [verify |-> "windows", decode |-> "shift", extend |-> "tail",
   draft_extend |-> "accepted"][mode]

(* The convolution reads the state its own update has not touched yet.     *)
Conv(t, done) == Did(t, IF done = <<>> THEN <<"conv">> ELSE <<"conv", "late">>)

(* The KV pool's set_kv_buffer: raw rows, rows that bring their scales, or *)
(* rows the pool quantizes.                                                *)
Stored(c, t) ==
  IF c.kvDtype = "bf16" \/ Contains(t.did, "quant") THEN t
  ELSE Did(t, <<"quant">>)

RowOf(c, k, v, sub) == [k |-> Stored(c, k), v |-> Stored(c, v), pool |-> sub]

SubPool(c) == IF c.local THEN "swa" ELSE "full"

(* The prologue kernel: both convolutions, the state update unless it is   *)
(* accept-gated, the norms, tau, and the store for the layouts it knows.   *)
RunPrologue(c, i) ==
  LET k == Did(Conv(buf.k, conv[i].k), <<"norm">>)
      v == Conv(buf.v, conv[i].v)
      u == If(c.mode # "draft_extend",
              <<[kind |-> UpdateOf(c.mode), call |-> buf.x]>>)
  IN  /\ buf' = [buf EXCEPT !.k = k, !.v = v,
                   !.q = Did(@, <<"norm">> \o If(FoldTau(c), <<"tau">>)
                                \o If(PrologueQuantQ(c), <<"quant">>))]
      /\ conv' = [conv EXCEPT ![i] = [k |-> @.k \o u, v |-> @.v \o u]]
      /\ rows' = [rows EXCEPT ![i] =
                    @ \o If(DoStore(c), <<RowOf(c, k, v, SubPool(c))>>)]
      /\ UNCHANGED seen

(* The relative logits of a call; tau goes into the operand or the result. *)
RelProj(c) == Did(Fresh(buf.x), If(ApplyTau(c), <<"tau">>))

Sconv(c, i, t) ==
  /\ buf' = [buf EXCEPT ![t] = Conv(@, conv[i][t])]
  /\ conv' = [conv EXCEPT ![i][t] =
                Append(@, [kind |-> UpdateOf(c.mode), call |-> buf[t].call])]
  /\ UNCHANGED <<rows, seen>>

Update(i, t) ==
  /\ conv' = [conv EXCEPT ![i][t] =
                Append(@, [kind |-> "accepted", call |-> buf.x])]
  /\ UNCHANGED <<buf, rows, seen>>

Tensors(new) == buf' = new /\ UNCHANGED <<conv, rows, seen>>

Kernel(c, i, name) ==
  \/ /\ name = "qkvr"
     /\ Tensors([buf EXCEPT !.x = i, !.q = Fresh(i), !.k = Fresh(i),
                            !.v = Fresh(i)])
  \/ name = "prologue" /\ RunPrologue(c, i)
  \/ name = "k_update" /\ Update(i, "k")
  \/ name = "v_update" /\ Update(i, "v")
  \/ name = "k_sconv" /\ Sconv(c, i, "k")
  \/ name = "v_sconv" /\ Sconv(c, i, "v")
  \/ name = "rel_proj" /\ Tensors([buf EXCEPT !.rel = RelProj(c)])
  \/ /\ name = "qk_norm"
     /\ Tensors([buf EXCEPT !.q = Did(@, <<"norm">>), !.k = Did(@, <<"norm">>)])
  \/ name = "scale_q" /\ Tensors([buf EXCEPT !.q = Did(@, <<"tau">>)])
  \/ name = "quant_q" /\ Tensors([buf EXCEPT !.q = Did(@, <<"quant">>)])
  \/ /\ name = "quant_kv"
     /\ Tensors([buf EXCEPT !.k = Did(@, <<"quant">>),
                            !.v = Did(@, <<"quant">>)])
  \/ /\ name = "store"
     /\ rows' = [rows EXCEPT ![i] =
                   Append(@, RowOf(c, buf.k, buf.v, SubPool(c)))]
     /\ UNCHANGED <<buf, conv, seen>>
  \/ /\ name = "attention"
     /\ seen' = [seen EXCEPT ![i] = [q |-> buf.q, rel |-> buf.rel,
                                     rows |-> rows[i]]]
     /\ UNCHANGED <<buf, conv, rows>>
-----------------------------------------------------------------------------
Init ==
  /\ cfg \in Configs
  /\ issued = 0
  /\ queue = [s \in Streams |-> <<>>]
  /\ fired = {}
  /\ buf = [x |-> 0, q |-> Fresh(0), k |-> Fresh(0), v |-> Fresh(0),
            rel |-> Fresh(0)]
  /\ conv = [i \in 1..Calls |-> [k |-> <<>>, v |-> <<>>]]
  /\ rows = [i \in 1..Calls |-> <<>>]
  /\ seen = [i \in 1..Calls |-> <<>>]

(* The host: every kernel of a call, without waiting for any of them.      *)
Issue ==
  /\ issued < Calls
  /\ issued' = issued + 1
  /\ LET call == Forward(cfg)
         ops(s) == [j \in DOMAIN call[s] |-> [op |-> call[s][j], call |-> issued + 1]]
     IN  queue' = [s \in Streams |-> queue[s] \o ops(s)]
  /\ UNCHANGED <<cfg, fired, buf, conv, rows, seen>>

(* A stream runs the entry at its head; a wait holds it until the event of *)
(* the same call has been recorded.                                        *)
Step(s) ==
  /\ queue[s] # <<>>
  /\ queue' = [queue EXCEPT ![s] = Tail(@)]
  /\ LET o == Head(queue[s])
     IN  \/ /\ o.op.what = "run"
            /\ Kernel(cfg, o.call, o.op.name)
            /\ UNCHANGED fired
         \/ /\ o.op.what = "record"
            /\ fired' = fired \cup {<<o.call, o.op.name>>}
            /\ UNCHANGED <<buf, conv, rows, seen>>
         \/ /\ o.op.what = "wait" /\ <<o.call, o.op.name>> \in fired
            /\ UNCHANGED <<fired, buf, conv, rows, seen>>
  /\ UNCHANGED <<cfg, issued>>

Finished == issued = Calls /\ \A s \in Streams : queue[s] = <<>>

Next == Issue \/ (\E s \in Streams : Step(s))

(* The host and both streams make progress on their own.                   *)
Spec ==
  /\ Init /\ [][Next]_vars
  /\ WF_vars(Issue) /\ \A s \in Streams : WF_vars(Step(s))
-----------------------------------------------------------------------------
(* What each operand is owed, whatever path computes it.                   *)
OwedQ(i) ==
  Did(Fresh(i), <<"norm">> \o If(cfg.tau /\ ~cfg.local, <<"tau">>)
                \o If(cfg.backend = "fa4" /\ cfg.kvDtype = "mxfp8", <<"quant">>))
OwedConv == If(cfg.kvConv, <<"conv">>)
OwedQuant == If(cfg.kvDtype # "bf16", <<"quant">>)
OwedRow(i) ==
  [k |-> Did(Fresh(i), OwedConv \o <<"norm">> \o OwedQuant),
   v |-> Did(Fresh(i), OwedConv \o OwedQuant),
   pool |-> IF cfg.local THEN "swa" ELSE "full"]

(* Whatever streams and switches are in use, the attention of a call gets  *)
(* this call's own query, convolved and normed once, scaled by tau once    *)
(* and before it is quantized, and this call's own relative logits.        *)
AttendsOwnOperands ==
  \A i \in 1..Calls : seen[i] # <<>> =>
    /\ seen[i].q = OwedQ(i)
    /\ seen[i].rel = Did(Fresh(i), If(cfg.tau /\ ~cfg.local, <<"tau">>))

(* The KV rows of a call are stored exactly once before its attention      *)
(* reads the pool, by the prologue or by the backend but never by both or  *)
(* neither, convolved and normed, quantized exactly when the pool is, and  *)
(* in the layer's own sub-pool.                                            *)
StoredOnce ==
  \A i \in 1..Calls : seen[i] # <<>> => seen[i].rows = <<OwedRow(i)>>

(* Every finished call has advanced the convolution state of k and of v    *)
(* exactly once, with its own inputs and in the way its mode asks for.     *)
ConvAdvancedOnce ==
  Finished => \A i \in 1..Calls : \A t \in {"k", "v"} :
    conv[i][t] =
      If(cfg.kvConv, <<[kind |-> UpdateOf(cfg.mode), call |-> i]>>)

(* No stream ever waits for an event that is not coming.                   *)
AlwaysFinishes == <>Finished
=============================================================================
