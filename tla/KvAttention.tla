---------------------------- MODULE KvAttention ----------------------------
(***************************************************************************)
(* What the block-scaled attention kernels of                              *)
(* src/patches/kv-quant/kernels/ops/attention/kv_quant_attention.py read,  *)
(* as operators on key indices: the split of a decode row's keys among the *)
(* programs of its grid, the masks of the extend kernel's two stages, and  *)
(* where a head's packed payload and its scale lie in the row of a slot.   *)
(* Arithmetic on the values (softmax, tanh, the rounding of a block) is    *)
(* left out: which operand is weighed, and how often, is what is kept.     *)
(***************************************************************************)
EXTENDS Integers, FiniteSets

CONSTANTS
  MinBlockKv,   \* _MIN_BLOCK_KV, the granule a split is rounded to
  BlockN        \* BLOCK_N, the keys one iteration of a kernel loads

ASSUME MinBlockKvAssumption == MinBlockKv \in Nat \ {0}
ASSUME BlockNAssumption == BlockN \in Nat \ {0}

\* tl.cdiv
CDiv(a, b) == (a + b - 1) \div b

(***************************************************************************)
(* Decode, stage 1.  The grid has one program per split; program s of a    *)
(* row with n keys and k splits loads the tiles of                         *)
(* SplitStart .. SplitEnd - 1.                                             *)
(***************************************************************************)
SplitLen(n, k) == CDiv(CDiv(n, k), MinBlockKv) * MinBlockKv
SplitStart(n, k, s) == SplitLen(n, k) * s
SplitEnd(n, k, s) ==
  LET end == SplitStart(n, k, s) + SplitLen(n, k)
  IN  IF end <= n THEN end ELSE n

\* The keys of the tile that begins at `start`, of a loop that ends at `end`.
Tile(start, end) == {i \in start .. start + BlockN - 1 : i < end}

\* The tiles a loop over lo .. hi - 1 loads key i in: range(lo, hi, BLOCK_N)
\* takes every BLOCK_N-th start.
TilesWith(lo, hi, i) ==
  {t \in 0 .. CDiv(hi - lo, BlockN) - 1 : i \in Tile(lo + t * BlockN, hi)}

\* The loads of key i of a decode row, one for each program and tile.
DecodeLoads(n, k, i) ==
  UNION {{<<s, t>> : t \in TilesWith(SplitStart(n, k, s), SplitEnd(n, k, s), i)} :
           s \in {r \in 0 .. k - 1 : SplitStart(n, k, r) < SplitEnd(n, k, r)}}

(***************************************************************************)
(* Extend.  Row m of a request sees, in stage 1, the keys of its prefix    *)
(* that the pool holds and, in stage 2, the rows of its own chunk.  `mask` *)
(* is the request's custom mask, read from a flat array at `base`; the     *)
(* prefix part of it is never consulted (skip_prefix_custom_mask).         *)
(***************************************************************************)
InWindow(q, n, window) == window > 0 => q <= n + window

\* Variant: every row of the chunk keeps the prefix of its first row.
WholePrefix(prefix, m, window) == 0 .. prefix - 1
PrefixKeys(prefix, m, window) ==
  {n \in 0 .. prefix - 1 : InWindow(prefix + m, n, window)}

\* The cell of the flat mask for row m and chunk column n.  `prefix` is the
\* length of the (windowed) prefix, `offset` what the window left out.
MaskCell(base, prefix, extend, offset, m, n) ==
  base + m * (prefix + extend + offset) + offset + prefix + n

\* `allowed`: the columns of the chunk the causal or the custom mask admits.
ChunkKeys(allowed, m, window) == {n \in allowed : InWindow(m, n, window)}

(***************************************************************************)
(* The packed row.  Column d of a head lies in byte d \div 2, the even     *)
(* columns in the low nibble; a scale covers SfBlock columns.  The pool    *)
(* stores the scales of all heads flat, block after block of the           *)
(* flattened (head, column) row; the kernels index them by head.           *)
(***************************************************************************)
SfBlock == 16
PayloadByte(d) == d \div 2
PayloadNibble(d) == d % 2
FlatScale(headDim, h, d) == (h * headDim + d) \div SfBlock
KernelScale(headDim, h, d) == h * (headDim \div SfBlock) + d \div SfBlock

\* Twice the value of an e2m1 nibble: the sign, two bits of exponent and one
\* of mantissa; below 2 the value is subnormal.
TwiceE2M1(nib) ==
  LET m == nib % 8
      magnitude == IF m < 2 THEN m ELSE (2 + (m % 2)) * 2 ^ ((m \div 2) - 1)
  IN  IF nib >= 8 THEN -magnitude ELSE magnitude
=============================================================================
