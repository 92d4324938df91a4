-------------------------- MODULE KvServingProofs --------------------------
(***************************************************************************)
(* Theorems of the KV cache checked by TLAPS: the index arithmetic of the  *)
(* attention kernels, for every number of keys, splits and tile sizes; the *)
(* properties of a boot, for every set of server arguments; and that the   *)
(* pools keep every committed token and every row of a forward weighs its  *)
(* own context, for every number of rows, length of context, batch and     *)
(* captured graph.  A boot is resolved once and no action of serving       *)
(* changes it, so what is said of it follows from what the lemmas on the   *)
(* configurators and on Resolve (PoolSizing) say of the resolution.  The   *)
(* pools follow from the inductive invariant Serving, with a lemma for     *)
(* every action; what a row weighs follows from Serving before its         *)
(* forward, the store the forward makes and the places its metadata, its   *)
(* chunk and its mask give to the keys.                                    *)
(***************************************************************************)
EXTENDS KvServing, WellFoundedInduction, FiniteSetTheorems, SequenceTheorems, TLAPS
-----------------------------------------------------------------------------
(***************************************************************************)
(* Division and products of the integers.                                  *)
(***************************************************************************)
\* \div rounds down.
LEMMA Division ==
  ASSUME NEW x \in Int, NEW d \in Nat \ {0}
  PROVE  /\ x \div d \in Int
         /\ d * (x \div d) <= x
         /\ x < d * (x \div d) + d
  BY SMT

\* A positive factor keeps the order.
LEMMA ProductOrder ==
  ASSUME NEW d \in Nat \ {0}, NEW x \in Int, NEW y \in Int
  PROVE  /\ d * x < d * y => x < y
         /\ x <= y => d * x <= d * y
         /\ d * (x + 1) = d * x + d
         /\ d * x \in Int
  BY SMT

LEMMA ProductCancel ==
  ASSUME NEW d \in Nat \ {0}, NEW x \in Int, NEW y \in Int, d * x <= d * y
  PROVE  x <= y
<1> SUFFICES ASSUME y + 1 <= x PROVE FALSE
  OBVIOUS
<1>1. d * (y + 1) <= d * x /\ d * (y + 1) = d * y + d /\ d * x \in Int /\ d * y \in Int
  BY ProductOrder, y + 1 \in Int
<1> QED BY <1>1

\* The product of two naturals grows with either.
LEMMA ProductGrows ==
  ASSUME NEW x \in Nat, NEW y \in Nat, NEW x2 \in Nat, NEW y2 \in Nat, x <= x2, y <= y2
  PROVE  x * y \in Nat /\ x2 * y2 \in Nat /\ x * y <= x2 * y2
<1>1. x * y <= x2 * y
  BY SMT
<1>2. x2 * y <= x2 * y2
  BY SMT
<1>3. x * y \in Nat /\ x2 * y \in Nat /\ x2 * y2 \in Nat
  BY SMT
<1> QED BY <1>1, <1>2, <1>3

\* What a budget of x * y buys at c apiece costs no more than the budget.
LEMMA QuotientFits ==
  ASSUME NEW x \in Nat, NEW y \in Nat, NEW c \in Nat \ {0}, NEW t \in Nat, t <= (x * y) \div c
  PROVE  c * t <= x * y
<1> DEFINE p == x * y
<1>1. p \in Nat
  BY ProductGrows
<1> HIDE DEF p
<1>2. p \div c \in Int /\ c * (p \div c) <= p
  BY <1>1, Division
<1>3. t <= p \div c
  BY DEF p
<1> DEFINE q == p \div c
<1>4. q \in Int /\ c * q <= p /\ t <= q
  BY <1>2, <1>3
<1> HIDE DEF q
<1>5. c * t <= c * q /\ c * t \in Int /\ c * q \in Int
  BY <1>4, ProductOrder
<1>6. c * t <= p
  BY <1>1, <1>4, <1>5
<1> QED BY <1>6 DEF p

LEMMA ProductPositive ==
  ASSUME NEW x \in Nat \ {0}, NEW y \in Nat \ {0}
  PROVE  x * y \in Nat \ {0}
  BY SMT

\* A quotient of a natural is one, and monotone.
LEMMA QuotientFacts ==
  ASSUME NEW x \in Nat, NEW d \in Nat \ {0}
  PROVE  /\ x \div d \in Nat
         /\ x >= d => x \div d > 0
         /\ x \div d <= x
<1> DEFINE q == x \div d
<1>1. q \in Int /\ d * q <= x /\ x < d * q + d
  BY Division
<1>2. q >= 0
  <2> SUFFICES ASSUME q < 0 PROVE FALSE
    BY <1>1
  <2>1. d * q <= d * (-1)
    BY <1>1, ProductOrder, q <= -1
  <2> QED BY <2>1, <1>1, ProductOrder
<1>3. ASSUME x >= d PROVE q > 0
  <2> SUFFICES ASSUME q = 0 PROVE FALSE
    BY <1>1, <1>2
  <2> QED BY <1>1, <1>3, d * 0 = 0
<1>4. q <= d * q
  BY <1>1, <1>2, ProductGrows, 1 * q = q
<1> QED BY <1>1, <1>2, <1>3, <1>4

\* \div is the largest factor that fits.
LEMMA QuotientAtLeast ==
  ASSUME NEW x \in Int, NEW d \in Nat \ {0}, NEW y \in Int, d * y <= x
  PROVE  y <= x \div d
<1> DEFINE q == x \div d
<1>1. q \in Int /\ x < d * q + d
  BY Division
<1>2. d * y \in Int /\ d * q \in Int /\ d * (q + 1) = d * q + d
  BY <1>1, ProductOrder
<1>3. d * y < d * (q + 1)
  BY <1>1, <1>2
<1>4. y < q + 1
  BY <1>1, <1>3, ProductOrder, q + 1 \in Int
<1> QED BY <1>1, <1>4

\* A nonempty set of naturals has a least element.
LEMMA Least ==
  ASSUME NEW T \in SUBSET Nat, T # {}
  PROVE  \E x \in T : \A y \in T : x <= y
<1> DEFINE R == OpToRel(<, Nat)
<1>1. IsWellFoundedOn(R, Nat)
  BY NatLessThanWellFounded
<1>2. \A x, y \in Nat : <<y, x>> \in R <=> y < x
  BY DEF OpToRel
<1> HIDE DEF R
<1>3. PICK x \in T : \A y \in T : ~(<<y, x>> \in R)
  BY <1>1, WFMin
<1>4. ASSUME NEW y \in T PROVE x <= y
  <2>1. ~(<<y, x>> \in R) /\ (<<y, x>> \in R <=> y < x)
    BY <1>2, <1>3
  <2>2. x \in Nat /\ y \in Nat
    OBVIOUS
  <2> QED BY <2>1, <2>2
<1> QED BY <1>4
-----------------------------------------------------------------------------
(***************************************************************************)
(* The arguments and the configurators.                                    *)
(***************************************************************************)
LEMMA ArgTypes ==
  ASSUME NEW a \in BootArgs
  PROVE  /\ a.hybrid \in BOOLEAN /\ a.radix \in BOOLEAN /\ a.overlap \in BOOLEAN
         /\ a.skipLock \in BOOLEAN
         /\ a.kvType \in {"bf16", "mxfp8", "fp4"}
         /\ a.extraBuffer \in {"none", "lazy", "eager"}
         /\ a.spec \in {"none", "eagle", "dspark"}
         /\ a.stages \in Seq(Nat) /\ a.stages # <<>>
         /\ {a.page, a.context, a.dp, a.numDraft} \subseteq Nat \ {0}
         /\ {a.fullLayers, a.swaLayers, a.elems, a.swaElems, a.window, a.mamba,
             a.rest, a.maxTotal, a.maxRunning, a.chunkedPrefill, a.evict, a.extraSlots,
             a.mambaSize, a.allocLen, a.draftLayers, a.banded} \subseteq Nat
         /\ a.ratio[1] \in Nat /\ a.ratio[2] \in Nat \ {0}
         /\ a.mambaRatio[1] \in Nat /\ a.mambaRatio[2] \in Nat \ {0}
         /\ WellFormed(a)
<1>1. /\ WellFormed(a)
      /\ a.hybrid \in BOOLEAN /\ a.radix \in BOOLEAN /\ a.overlap \in BOOLEAN
      /\ a.skipLock \in BOOLEAN
      /\ a.kvType \in {"bf16", "mxfp8", "fp4"}
      /\ a.extraBuffer \in {"none", "lazy", "eager"}
      /\ a.spec \in {"none", "eagle", "dspark"}
      /\ a.stages \in Seq(Nat) /\ a.stages # <<>>
  BY DEF BootArgs
<1>2. /\ {a.page, a.context, a.dp, a.numDraft} \subseteq Nat \ {0}
      /\ {a.fullLayers, a.swaLayers, a.elems, a.swaElems, a.window, a.mamba,
          a.rest, a.maxTotal, a.maxRunning, a.chunkedPrefill, a.evict, a.extraSlots,
          a.mambaSize, a.allocLen, a.draftLayers, a.banded} \subseteq Nat
  BY DEF BootArgs
<1>3. a.ratio \in Nat \X (Nat \ {0}) /\ a.mambaRatio \in Nat \X (Nat \ {0})
  BY DEF BootArgs
<1>4. ASSUME NEW pair \in Nat \X (Nat \ {0})
      PROVE  pair[1] \in Nat /\ pair[2] \in Nat \ {0}
  OBVIOUS
<1> QED BY <1>1, <1>2, <1>3, <1>4

LEMMA ConfigFields ==
  ASSUME NEW tokens, NEW full, NEW swa
  PROVE  /\ Config(tokens, full, swa).ok <=> tokens > 0
         /\ Config(tokens, full, swa).tokens = tokens
         /\ Config(tokens, full, swa).full = full
         /\ Config(tokens, full, swa).swa = swa
  BY DEF Config

LEMMA StageTypes ==
  ASSUME NEW a \in BootArgs
  PROVE  /\ 1 \in StageIds(a)
         /\ \A s \in StageIds(a) : a.stages[s] \in Nat
<1>1. a.stages \in Seq(Nat) /\ a.stages # <<>>
  BY ArgTypes
<1> QED BY <1>1 DEF StageIds

\* Rounding to whole pages, down and up.
LEMMA AlignFacts ==
  ASSUME NEW x \in Int, NEW p \in Nat \ {0}
  PROVE  /\ Align(x, p) \in Int /\ Align(x, p) <= x
         /\ CeilAlign(x, p) \in Int /\ x <= CeilAlign(x, p)
<1>1. /\ x \div p \in Int /\ p * (x \div p) <= x
  BY Division
<1>2. /\ (x + p - 1) \div p \in Int
      /\ x + p - 1 < p * ((x + p - 1) \div p) + p
  BY Division
<1> DEFINE q == x \div p
           r == (x + p - 1) \div p
<1>3. q * p = p * q /\ r * p = p * r /\ p * q \in Int /\ p * r \in Int
  BY <1>1, <1>2, SMT
<1> QED BY <1>1, <1>2, <1>3 DEF Align, CeilAlign

\* Less than a page is cut off, and only once.
LEMMA AlignExact ==
  ASSUME NEW x \in Int, NEW p \in Nat \ {0}
  PROVE  /\ x < Align(x, p) + p
         /\ Align(Align(x, p), p) = Align(x, p)
<1> DEFINE q == x \div p
           r == (p * q) \div p
<1>1. q \in Int /\ x < p * q + p /\ p * q \in Int
  BY Division, ProductOrder
<1> HIDE DEF q
<1>2. r \in Int /\ p * r <= p * q /\ p * q < p * r + p
  BY <1>1, Division
<1>3. r <= q
  BY <1>1, <1>2, ProductCancel
<1>4. q < r + 1
  <2>1. p * (r + 1) = p * r + p
    BY <1>2, ProductOrder
  <2>2. p * q < p * (r + 1)
    BY <1>2, <2>1
  <2> QED BY <1>1, <1>2, <2>2, ProductOrder, r + 1 \in Int
<1>5. r = q
  BY <1>1, <1>2, <1>3, <1>4
<1>6. q * p = p * q
  BY <1>1, SMT
<1>7. Align(x, p) = p * q
  BY <1>6 DEF Align, q
<1>8. Align(p * q, p) = p * q
  BY <1>5, <1>6 DEF Align
<1> QED BY <1>1, <1>7, <1>8
LEMMA AlignOrder ==
  ASSUME NEW x \in Int, NEW y \in Int, NEW p \in Nat \ {0}, x <= y
  PROVE  Align(x, p) <= Align(y, p)
<1> DEFINE q == x \div p
           r == y \div p
<1>1. q \in Int /\ p * q <= x /\ p * q \in Int
  BY Division, ProductOrder
<1>2. r \in Int
  BY Division
<1>3. q <= r
  BY <1>1, QuotientAtLeast
<1> HIDE DEF q, r
<1>4. p * q <= p * r /\ q * p = p * q /\ r * p = p * r
  BY <1>1, <1>2, <1>3, ProductOrder, SMT
<1> QED BY <1>4 DEF Align, q, r

\* Where a stage has no KV of its own, it proposes some natural number.
LEMMA ZeroKvTokensType ==
  ASSUME NEW a \in BootArgs
  PROVE  ZeroKvTokens(a) \in Nat
  BY ArgTypes DEF ZeroKvTokens, NoLimit

\* The block scales of whole heads take whole bytes.
LEMMA BlocksOf ==
  ASSUME NEW e \in Nat \ {0}, e % 32 = 0, NEW n \in Nat
  PROVE  /\ (e * n) \div 32 = (e \div 32) * n
         /\ (e * n) \div 16 = (e \div 16) * n
         /\ (e * n) \div 2 = (e \div 2) * n
         /\ e \div 32 \in Nat /\ e \div 16 \in Nat \ {0} /\ e \div 2 \in Nat \ {0}
<1>1. PICK k \in Nat \ {0} : e = 32 * k
  <2>1. e \div 32 \in Nat \ {0} /\ e = 32 * (e \div 32)
    OBVIOUS
  <2> QED BY <2>1
<1>2. k * n \in Nat
  BY SMT
<1>3. e * n = 32 * (k * n) /\ e * n = 16 * (2 * (k * n)) /\ e * n = 2 * (16 * (k * n))
  BY <1>1, <1>2, SMT
<1>4. /\ (e * n) \div 32 = k * n /\ (e * n) \div 16 = 2 * (k * n)
      /\ (e * n) \div 2 = 16 * (k * n)
  BY <1>2, <1>3
<1>5. e \div 32 = k /\ e \div 16 = 2 * k /\ e \div 2 = 16 * k
  BY <1>1
<1>6. (2 * k) * n = 2 * (k * n) /\ (16 * k) * n = 16 * (k * n)
  BY SMT
<1> QED BY <1>4, <1>5, <1>6

LEMMA RowBytesType ==
  ASSUME NEW t \in {"bf16", "mxfp8", "fp4"}, NEW e \in Nat \ {0}, e % 32 = 0
  PROVE  RowBytes(t, e) \in Nat \ {0}
<1>1. e \div 32 \in Nat /\ e \div 16 \in Nat \ {0} /\ e \div 2 \in Nat \ {0}
  BY BlocksOf
<1> QED BY <1>1 DEF RowBytes

LEMMA RowSizes ==
  ASSUME NEW a \in BootArgs
  PROVE  /\ RowBytes(a.kvType, a.elems) \in Nat \ {0}
         /\ RowBytes(a.kvType, a.swaElems) \in Nat \ {0}
<1>1. /\ a.elems \in Nat \ {0} /\ a.elems % 32 = 0
      /\ a.swaElems \in Nat \ {0} /\ a.swaElems % 32 = 0
      /\ a.kvType \in {"bf16", "mxfp8", "fp4"}
  BY ArgTypes DEF WellFormed
<1> QED BY <1>1, RowBytesType

\* The cell of the default configurator pays for what a token of the target's
\* layers allocates.
LEMMA BaseCellFacts ==
  ASSUME NEW a \in BootArgs, NEW n \in Nat
  PROVE  /\ BaseCell(a, n) \in Nat
         /\ RowBytes(a.kvType, a.elems) * n <= BaseCell(a, n)
         /\ n > 0 => BaseCell(a, n) > 0
         /\ a.kvType = "fp4" => a.elems <= BaseCell(a, n)
<1> DEFINE e == a.elems
           row == RowBytes(a.kvType, e)
<1>1. e \in Nat \ {0} /\ e % 32 = 0 /\ a.kvType \in {"bf16", "mxfp8", "fp4"}
  BY ArgTypes DEF WellFormed
<1>2. row \in Nat \ {0}
  BY <1>1, RowBytesType
<1> HIDE DEF e
<1>3. /\ (e * n) \div 32 = (e \div 32) * n
      /\ (e * n) \div 16 = (e \div 16) * n
      /\ (e * n) \div 2 = (e \div 2) * n
      /\ e \div 32 \in Nat /\ e \div 16 \in Nat /\ e \div 2 \in Nat
  BY <1>1, BlocksOf
<1>4. /\ (2 * e) * n = 2 * e * n
      /\ (e + e \div 32) * n = e * n + (e \div 32) * n
      /\ (e \div 2 + e \div 16) * n = (e \div 2) * n + (e \div 16) * n
  BY <1>1, <1>3, SMT
<1>5. e * n \in Nat /\ (e \div 32) * n \in Nat /\ (e \div 2) * n \in Nat /\ (e \div 16) * n \in Nat
  BY <1>1, <1>3, SMT
<1>6. row * n \in Nat /\ (n > 0 => row * n > 0)
  BY <1>2, ProductPositive, ProductGrows
<1>7. BaseCell(a, n) = IF a.kvType = "fp4" THEN row * n + e ELSE row * n
  BY <1>1, <1>3, <1>4, <1>5 DEF BaseCell, RowBytes, e
<1> QED BY <1>1, <1>6, <1>7 DEF e

\* An EAGLE draft's layers, with a window and without.
DraftLayers(a) == DraftFull(a) + DraftBanded(a)
LEMMA DraftLayersFacts ==
  ASSUME NEW a \in BootArgs
  PROVE  /\ DraftFull(a) \in Nat /\ DraftBanded(a) \in Nat /\ DraftLayers(a) \in Nat
         /\ a.spec = "eagle" => DraftLayers(a) = a.draftLayers
         /\ a.spec # "eagle" => DraftLayers(a) = 0
  BY ArgTypes DEF DraftLayers, DraftFull, DraftBanded, WellFormed

LEMMA DefaultCellFacts ==
  ASSUME NEW a \in BootArgs, NEW n \in Nat \ {0}
  PROVE  /\ DefaultCell(a, n) \in Nat \ {0}
         /\ RowBytes(a.kvType, a.elems) * (n + DraftLayers(a)) <= DefaultCell(a, n)
         /\ BaseCell(a, n) <= DefaultCell(a, n)
<1> DEFINE row == RowBytes(a.kvType, a.elems)
           d == DraftLayers(a)
           base == BaseCell(a, n)
<1>1. /\ d \in Nat /\ a.draftLayers \in Nat
      /\ a.spec = "eagle" => d = a.draftLayers
      /\ a.spec # "eagle" => d = 0
  BY DraftLayersFacts, ArgTypes
<1>2. row \in Nat \ {0}
  BY RowSizes
<1>3. base \in Nat \ {0} /\ row * n <= base
  BY BaseCellFacts
<1> HIDE DEF row, d, base
<1>4. CASE a.spec = "eagle" /\ a.draftLayers > 0
  <2>1. DefaultCell(a, n) = (base * (n + d)) \div n
    BY <1>1, <1>4 DEF DefaultCell, base
  <2>2. row * n \in Nat /\ n + d \in Nat
    BY <1>1, <1>2, ProductGrows
  <2>3. (row * n) * (n + d) <= base * (n + d) /\ base * (n + d) \in Nat
    BY <1>3, <2>2, ProductGrows
  <2>4. row * (n + d) \in Nat \ {0}
    BY <1>1, <1>2, ProductPositive, n + d \in Nat \ {0}
  <2>5. n * (row * (n + d)) = (row * n) * (n + d)
    BY <1>2, <2>2, SMT
  <2>6. row * (n + d) <= (base * (n + d)) \div n
    BY <2>3, <2>4, <2>5, QuotientAtLeast
  <2>7. (base * (n + d)) \div n \in Int
    BY <2>3, Division
  <2>8. base <= (base * (n + d)) \div n
    <3>1. n * base = base * n /\ base * n <= base * (n + d)
      BY <1>1, <1>3, ProductGrows, n <= n + d, n + d \in Nat, SMT
    <3> QED BY <1>3, <2>3, <3>1, QuotientAtLeast
  <2> QED BY <2>1, <2>4, <2>6, <2>7, <2>8 DEF row, d, base
<1>5. CASE ~(a.spec = "eagle" /\ a.draftLayers > 0)
  <2>1. d = 0 /\ DefaultCell(a, n) = base
    BY <1>1, <1>5 DEF DefaultCell, base
  <2> QED BY <1>2, <1>3, <2>1 DEF row, d, base
<1> QED BY <1>4, <1>5

\* The bytes of a stage's pools without their pads: the part the configurators
\* divide the budget into.
SlotBytes(a, c, stage) ==
  LET full == RowBytes(a.kvType, a.elems)
      local == RowBytes(a.kvType, a.swaElems)
      drafts == full * DraftFull(a) * DraftPoolSlots(a, c, "full")
                  + (IF a.hybrid THEN local ELSE full) * DraftBanded(a)
                      * DraftPoolSlots(a, c, "banded")
  IN  drafts + (IF a.hybrid
                THEN full * a.fullLayers * c.full + local * a.swaLayers * c.swa
                ELSE full * a.stages[stage] * c.tokens)

LEMMA PadsApart ==
  ASSUME NEW x \in Nat, NEW n \in Int, NEW page \in Nat
  PROVE  x * (n + page) = x * n + page * x
BY SMT

\* The pools of a model without local layers, for any size up to the one
\* proposed, fit the budget.
LEMMA DefaultFits ==
  ASSUME NEW a \in BootArgs, ~a.hybrid, NEW s \in StageIds(a), NEW budget \in Nat,
         NEW t \in Nat, t <= DefaultSizes(a, s, budget).tokens
  PROVE  /\ SlotBytes(a, Config(t, 0, 0), s) \in Int
         /\ SlotBytes(a, Config(t, 0, 0), s) <= budget
<1> DEFINE row == RowBytes(a.kvType, a.elems)
           n == a.stages[s]
           d == DraftLayers(a)
           cell == DefaultCell(a, n)
<1>1. n \in Nat /\ d \in Nat /\ DraftFull(a) \in Nat /\ DraftBanded(a) \in Nat
  BY StageTypes, DraftLayersFacts
<1>2. row \in Nat \ {0}
  BY RowSizes
<1>3. SlotBytes(a, Config(t, 0, 0), s) = row * DraftFull(a) * t + row * DraftBanded(a) * t + row * n * t
  BY DEF SlotBytes, Config, DraftPoolSlots
<1>4. SlotBytes(a, Config(t, 0, 0), s) = (row * (n + d)) * t
  <2> HIDE DEF row, n
  <2> QED BY <1>1, <1>2, <1>3, SMT DEF DraftLayers
<1>5. CASE n = 0
  <2>1. a.spec # "eagle"
    <3>1. a.spec = "eagle" => \A u \in StageIds(a) : a.stages[u] > 0
      BY ArgTypes DEF WellFormed, StageIds
    <3> QED BY <1>5, <3>1
  <2>2. d = 0
    BY <2>1, DraftLayersFacts
  <2> HIDE DEF row, n, d
  <2>3. (row * (n + d)) * t = 0
    BY <1>2, <1>5, <2>2, SMT
  <2> QED BY <1>4, <2>3
<1>6. CASE n > 0
  <2>1. cell \in Nat \ {0} /\ row * (n + d) <= cell
    BY <1>1, <1>6, DefaultCellFacts
  <2>2. budget \div cell \in Int /\ cell * (budget \div cell) <= budget
    BY <2>1, Division
  <2>3. t <= budget \div cell
    <3>1. DefaultSizes(a, s, budget).tokens = Align(budget \div cell, a.page)
      BY <2>1 DEF DefaultSizes, Config
    <3>2. a.page \in Nat \ {0}
      BY ArgTypes
    <3>3. Align(budget \div cell, a.page) \in Int
          /\ Align(budget \div cell, a.page) <= budget \div cell
      BY <2>2, <3>2, AlignFacts
    <3> QED BY <2>2, <3>1, <3>3
  <2> HIDE DEF cell, row, n, d
  <2>4. cell * t <= cell * (budget \div cell)
    BY <2>1, <2>2, <2>3, ProductOrder
  <2>5. row * (n + d) \in Nat
    BY <1>1, <1>2, ProductGrows, n + d \in Nat
  <2>6. (row * (n + d)) * t <= cell * t /\ cell * t \in Nat /\ (row * (n + d)) * t \in Nat
    BY <2>1, <2>5, ProductGrows
  <2>7. cell * (budget \div cell) \in Int
    BY <2>1, <2>2, ProductOrder
  <2> QED BY <1>4, <2>2, <2>4, <2>6, <2>7
<1> QED BY <1>1, <1>5, <1>6

\* A token of the local layers' pool, and what the pools of a hybrid model take.
LocalCell(a) == RowBytes(a.kvType, a.swaElems) * a.swaLayers

LEMMA HybridCellTypes ==
  ASSUME NEW a \in BootArgs, a.hybrid
  PROVE  /\ LocalCell(a) \in Nat \ {0}
         /\ FullCell(a) \in Nat
         /\ a.fullLayers > 0 => FullCell(a) > 0
<1> DEFINE rowF == RowBytes(a.kvType, a.elems)
           rowS == RowBytes(a.kvType, a.swaElems)
           layers == a.fullLayers + DraftFull(a)
<1>1. rowF \in Nat \ {0} /\ rowS \in Nat \ {0}
  BY RowSizes
<1>2. a.swaLayers \in Nat \ {0} /\ a.fullLayers \in Nat
  BY ArgTypes DEF WellFormed
<1>3. DraftFull(a) \in Nat /\ DraftBanded(a) \in Nat
  BY DraftLayersFacts
<1>4. rowF * layers \in Nat /\ (a.fullLayers > 0 => rowF * layers > 0)
  <2>1. layers \in Nat /\ (a.fullLayers > 0 => layers > 0)
    BY <1>2, <1>3
  <2> QED BY <1>1, <2>1, ProductGrows, ProductPositive
<1>5. rowS * DraftBanded(a) \in Nat
  BY <1>1, <1>3, ProductGrows
<1>6. rowS * a.swaLayers \in Nat \ {0}
  <2>1. rowS * a.swaLayers \in Nat
    BY <1>1, <1>2, ProductGrows
  <2>2. rowS * a.swaLayers > 0
    BY <1>1, <1>2, ProductPositive
  <2> QED BY <2>1, <2>2
<1>7. LocalCell(a) = rowS * a.swaLayers
  BY DEF LocalCell
<1>8. FullCell(a) = rowF * layers + rowS * DraftBanded(a)
  BY DEF FullCell
<1> DEFINE full == rowF * layers
           banded == rowS * DraftBanded(a)
<1>9. full \in Nat /\ (a.fullLayers > 0 => full > 0) /\ banded \in Nat
  BY <1>4, <1>5
<1>10. FullCell(a) = full + banded
  BY <1>8
<1>11. LocalCell(a) \in Nat \ {0}
  BY <1>6, <1>7
<1> HIDE DEF full, banded, rowF, rowS, layers
<1> QED BY <1>9, <1>10, <1>11

LEMMA HybridBytes ==
  ASSUME NEW a \in BootArgs, a.hybrid, NEW s \in StageIds(a),
         NEW full \in Nat, NEW swa \in Nat
  PROVE  /\ a.fullLayers > 0 =>
              SlotBytes(a, Config(full, full, swa), s) = FullCell(a) * full + LocalCell(a) * swa
         /\ a.fullLayers = 0 =>
              SlotBytes(a, Config(full, 0, full), s) = LocalCell(a) * full
<1> DEFINE rowF == RowBytes(a.kvType, a.elems)
           rowS == RowBytes(a.kvType, a.swaElems)
           df == DraftFull(a)
           db == DraftBanded(a)
           fl == a.fullLayers
           sl == a.swaLayers
<1>1. rowF \in Nat /\ rowS \in Nat /\ fl \in Nat /\ sl \in Nat /\ df \in Nat /\ db \in Nat
  BY RowSizes, ArgTypes, DraftLayersFacts
<1>2. fl > 0 => SlotBytes(a, Config(full, full, swa), s)
                  = (rowF * df * full + rowS * db * full) + (rowF * fl * full + rowS * sl * swa)
  BY <1>1 DEF SlotBytes, DraftPoolSlots, RingSlots, Config
<1> DEFINE x == DraftPoolSlots(a, Config(full, 0, full), "full")
           y == DraftPoolSlots(a, Config(full, 0, full), "banded")
<1>3. SlotBytes(a, Config(full, 0, full), s)
        = (rowF * df * x + rowS * db * y) + (rowF * fl * 0 + rowS * sl * full)
  BY <1>1 DEF SlotBytes, Config
<1>4. FullCell(a) = rowF * (fl + df) + rowS * db /\ LocalCell(a) = rowS * sl
  BY DEF FullCell, LocalCell
<1>5. x \in Nat /\ y \in Nat /\ ((x = 0 /\ y = 0) \/ (df = 0 /\ db = 0))
  <2>1. CASE a.spec = "dspark"
    BY <2>1 DEF DraftPoolSlots, DraftFull, DraftBanded, Config
  <2>2. CASE a.spec # "dspark"
    BY <2>2 DEF DraftPoolSlots, RingSlots, Config
  <2> QED BY <2>1, <2>2
<1> HIDE DEF rowF, rowS, df, db, fl, sl, x, y
<1>6. (rowF * df * full + rowS * db * full) + (rowF * fl * full + rowS * sl * swa)
        = (rowF * (fl + df) + rowS * db) * full + (rowS * sl) * swa
  BY <1>1, SMT
<1>7. (rowF * df * x + rowS * db * y) + (rowF * fl * 0 + rowS * sl * full) = (rowS * sl) * full
  <2>1. rowF * df * x + rowS * db * y = 0 /\ rowF * fl * 0 = 0
    BY <1>1, <1>5, SMT
  <2>2. rowS * sl * full \in Int
    BY <1>1, SMT
  <2> QED BY <2>1, <2>2
<1> QED BY <1>2, <1>3, <1>4, <1>6, <1>7 DEF fl

LEMMA HybridCellsFacts ==
  ASSUME NEW a \in BootArgs, a.hybrid
  PROVE  /\ HybridCells(a) \in Nat \ {0}
         /\ HybridCells(a) =
              IF a.fullLayers = 0 THEN a.ratio[2] * (LocalCell(a) + FullCell(a))
              ELSE a.ratio[2] * FullCell(a) + a.ratio[1] * LocalCell(a)
<1> DEFINE r1 == a.ratio[1]
           r2 == a.ratio[2]
           FC == FullCell(a)
           LC == LocalCell(a)
           cells == HybridCells(a)
<1>1. r1 \in Nat /\ r2 \in Nat \ {0} /\ a.fullLayers \in Nat
  BY ArgTypes
<1>2. FC \in Nat /\ LC \in Nat \ {0} /\ (a.fullLayers > 0 => FC > 0)
  BY HybridCellTypes
<1>3. cells = IF a.fullLayers = 0 THEN r2 * (LC + FC) ELSE r2 * FC + r1 * LC
  <2>1. cells = IF a.fullLayers = 0
                THEN r2 * (RowBytes(a.kvType, a.swaElems) * a.swaLayers + FC)
                ELSE r2 * FC + r1 * RowBytes(a.kvType, a.swaElems) * a.swaLayers
    BY DEF HybridCells
  <2>2. r1 * RowBytes(a.kvType, a.swaElems) * a.swaLayers = r1 * LC
    <3>1. RowBytes(a.kvType, a.swaElems) \in Nat /\ a.swaLayers \in Nat
      BY RowSizes, ArgTypes
    <3> QED BY <1>1, <3>1, SMT DEF LocalCell
  <2> QED BY <2>1, <2>2 DEF LocalCell
<1>4. cells \in Nat \ {0}
  <2>1. r1 * LC \in Nat /\ (a.fullLayers > 0 => r2 * FC \in Nat \ {0})
        /\ r2 * (LC + FC) \in Nat \ {0}
    BY <1>1, <1>2, ProductGrows, ProductPositive, LC + FC \in Nat \ {0}
  <2> HIDE DEF cells, r1, r2, FC, LC
  <2> QED BY <1>1, <1>3, <2>1
<1> QED BY <1>3, <1>4

\* The split by the ratio fits the budget.
LEMMA SolveFits ==
  ASSUME NEW a \in BootArgs, a.hybrid, NEW s \in StageIds(a), NEW budget \in Nat,
         NEW t \in Nat, t <= (budget * a.ratio[2]) \div HybridCells(a),
         SolvePoolSizes(a, t).ok
  PROVE  /\ SlotBytes(a, SolvePoolSizes(a, t), s) \in Int
         /\ SlotBytes(a, SolvePoolSizes(a, t), s) <= budget
<1> DEFINE r1 == a.ratio[1]
           r2 == a.ratio[2]
           FC == FullCell(a)
           LC == LocalCell(a)
           cells == HybridCells(a)
           full == Align(t, a.page)
           swa == Align((full * r1) \div r2, a.page)
<1>1. /\ r1 \in Nat /\ r2 \in Nat \ {0} /\ a.page \in Nat \ {0}
      /\ a.fullLayers \in Nat
  BY ArgTypes
<1>2. FC \in Nat /\ LC \in Nat \ {0} /\ (a.fullLayers > 0 => FC > 0)
  BY HybridCellTypes
<1>3. full \in Int /\ full <= t
  <2>1. t \in Int /\ a.page \in Nat \ {0}
    BY <1>1
  <2> QED BY <2>1, AlignFacts
<1>4. cells = IF a.fullLayers = 0 THEN r2 * (LC + FC) ELSE r2 * FC + r1 * LC
  BY HybridCellsFacts
<1>5. cells \in Nat \ {0}
  BY HybridCellsFacts
<1>6. cells * t <= budget * r2
  <2>1. r2 \in Nat /\ t <= (budget * r2) \div cells
    BY <1>1
  <2> HIDE DEF cells, r1, r2
  <2> QED BY <1>5, <2>1, QuotientFits
<1>7. ASSUME full \in Nat, NEW bytes \in Int, r2 * bytes <= cells * full
      PROVE  bytes <= budget
  <2> HIDE DEF cells, full, r2
  <2>1. cells * full <= cells * t /\ cells * full \in Int /\ cells * t \in Int
    BY <1>3, <1>5, ProductOrder
  <2>2. r2 * bytes \in Int /\ r2 * budget \in Int /\ budget * r2 = r2 * budget
    BY <1>1, ProductOrder, SMT
  <2>3. r2 * bytes <= r2 * budget
    BY <1>6, <1>7, <2>1, <2>2
  <2> QED BY <1>1, <2>3, ProductCancel
<1>8. CASE a.fullLayers = 0
  <2>1. SolvePoolSizes(a, t) = Config(full, 0, full)
    BY <1>8 DEF SolvePoolSizes
  <2>2. full \in Nat
    <3>1. Config(full, 0, full).ok
      BY <2>1
    <3> HIDE DEF full
    <3>2. full > 0
      BY <3>1, ConfigFields
    <3> QED BY <1>3, <3>2
  <2>3. SlotBytes(a, SolvePoolSizes(a, t), s) = LC * full
    BY <1>8, <2>1, <2>2, HybridBytes
  <2> HIDE DEF full, r1, r2, FC, LC, cells
  <2>4. (LC + FC) * full \in Int /\ r2 * ((LC + FC) * full) = (r2 * (LC + FC)) * full
    BY <1>1, <1>2, <2>2, SMT
  <2>5. LC * full \in Int /\ LC * full <= (LC + FC) * full
    <3>1. (LC + FC) * full = LC * full + FC * full
      BY <1>2, <2>2, SMT
    <3>2. LC * full \in Nat /\ FC * full \in Nat
      BY <1>2, <2>2, ProductGrows
    <3> QED BY <3>1, <3>2
  <2>6. (LC + FC) * full <= budget
    <3> DEFINE both == (LC + FC) * full
    <3>1. both \in Int /\ r2 * both = cells * full
      BY <1>4, <1>8, <2>4
    <3>2. r2 * both \in Int /\ cells * full \in Int
      BY <1>1, <1>5, <2>2, <3>1, ProductOrder
    <3> HIDE DEF both
    <3>3. r2 * both <= cells * full
      BY <3>1, <3>2
    <3>4. both <= budget
      BY <1>7, <2>2, <3>1, <3>3
    <3> QED BY <3>4 DEF both
  <2>7. budget \in Int
    OBVIOUS
  <2> QED BY <2>3, <2>4, <2>5, <2>6, <2>7
<1>9. CASE a.fullLayers > 0
  <2>1. SolvePoolSizes(a, t) = Config(full, full, swa) /\ ~(a.window + a.page >= swa)
    <3>1. ~Raise.ok
      BY ConfigFields DEF Raise
    <3> QED BY <1>1, <1>9, <3>1 DEF SolvePoolSizes
  <2>2. full \in Nat
    <3>1. Config(full, full, swa).ok
      BY <2>1
    <3> HIDE DEF full, swa
    <3>2. full > 0
      BY <3>1, ConfigFields
    <3> QED BY <1>3, <3>2
  <2> HIDE DEF full, swa, r1, r2, FC, LC, cells
  <2>3. full * r1 \in Nat
    BY <1>1, <2>2, ProductGrows
  <2>4. (full * r1) \div r2 \in Int /\ r2 * ((full * r1) \div r2) <= full * r1
    BY <1>1, <2>3, Division
  <2>5. swa \in Int /\ swa <= (full * r1) \div r2
    BY <1>1, <2>4, AlignFacts DEF swa
  <2>6. swa \in Nat
    <3>1. a.window \in Nat
      BY ArgTypes
    <3> QED BY <1>1, <2>1, <2>5, <3>1
  <2>7. SlotBytes(a, SolvePoolSizes(a, t), s) = FC * full + LC * swa
    BY <1>9, <2>1, <2>2, <2>6, HybridBytes DEF FC, LC
  <2>8. r2 * swa <= full * r1 /\ r2 * swa \in Nat
    BY <1>1, <2>3, <2>4, <2>5, <2>6, ProductOrder, ProductGrows
  <2>9. LC * (r2 * swa) <= LC * (full * r1)
    BY <1>2, <2>3, <2>8, ProductOrder
  <2>10. r2 * (FC * full + LC * swa) = (r2 * FC) * full + LC * (r2 * swa)
    BY <1>1, <1>2, <2>2, <2>6, SMT
  <2>11. cells * full = (r2 * FC) * full + LC * (full * r1)
    BY <1>1, <1>2, <1>4, <1>9, <2>2, SMT
  <2>12. FC * full + LC * swa \in Int /\ (r2 * FC) * full \in Int
         /\ LC * (r2 * swa) \in Int /\ LC * (full * r1) \in Int
    BY <1>1, <1>2, <2>2, <2>3, <2>6, <2>8, SMT
  <2> QED BY <1>7, <2>2, <2>7, <2>9, <2>10, <2>11, <2>12
<1> QED BY <1>1, <1>8, <1>9

\* Every request the server runs at once takes more than a window and a page
\* of the fixed cap.
LEMMA SwaCapFacts ==
  ASSUME NEW a \in BootArgs, a.maxRunning > 0
  PROVE  SwaCap(a) \in Nat /\ a.window + a.page < SwaCap(a)
<1> DEFINE draftTokens == IF a.spec = "none" THEN 1 ELSE a.numDraft
           trailing == a.window + Higher(1, a.evict) * draftTokens + a.page
           decodeAlloc == IF a.spec = "none" THEN a.page
                          ELSE IF a.overlap THEN 2 * a.allocLen ELSE a.allocLen
           n == a.maxRunning \div a.dp
           requests == (trailing + decodeAlloc) * n
           reserve == (a.window + a.page) * a.extraSlots
           chunks == (IF a.overlap THEN 2 ELSE 1) * a.chunkedPrefill + a.page
<1>1. /\ a.window \in Nat /\ a.page \in Nat \ {0} /\ a.evict \in Nat /\ a.extraSlots \in Nat
      /\ a.chunkedPrefill \in Nat /\ a.allocLen \in Nat /\ a.numDraft \in Nat \ {0}
      /\ a.maxRunning \in Nat /\ a.dp \in Nat \ {0} /\ a.maxRunning >= a.dp
  BY ArgTypes DEF WellFormed
<1>2. draftTokens \in Nat \ {0} /\ decodeAlloc \in Nat /\ Higher(1, a.evict) \in Nat \ {0}
  BY <1>1 DEF Higher
<1>3. trailing \in Nat /\ a.window + a.page < trailing
  <2>1. Higher(1, a.evict) * draftTokens \in Nat \ {0}
    BY <1>2, ProductPositive
  <2> QED BY <1>1, <2>1
<1>4. n \in Nat \ {0}
  BY <1>1, QuotientFacts
<1>5. requests \in Nat /\ trailing <= requests
  <2> HIDE DEF trailing, decodeAlloc, n
  <2>1. trailing + decodeAlloc \in Nat /\ 1 <= n
    BY <1>2, <1>3, <1>4
  <2>2. (trailing + decodeAlloc) * 1 <= (trailing + decodeAlloc) * n
        /\ (trailing + decodeAlloc) * n \in Nat
    BY <1>4, <2>1, ProductGrows
  <2> QED BY <1>2, <1>3, <2>1, <2>2
<1>6. reserve \in Nat /\ chunks \in Nat
  BY <1>1, ProductGrows
<1>7. SwaCap(a) = IF a.extraSlots > 0 THEN requests + reserve ELSE requests + chunks
  <2>1. requests + chunks = requests + (IF a.overlap THEN 2 ELSE 1) * a.chunkedPrefill + a.page
    <3> HIDE DEF requests
    <3> QED BY <1>1, <1>5
  <2> QED BY <2>1 DEF SwaCap
<1> HIDE DEF requests, reserve, chunks, trailing
<1> QED BY <1>1, <1>3, <1>5, <1>6, <1>7

\* A fixed cap on the local layers' pool fits the budget.
LEMMA CapFits ==
  ASSUME NEW a \in BootArgs, a.hybrid, ChunkCapApplies(a), NEW s \in StageIds(a),
         NEW budget \in Nat, NEW full \in Nat, NEW swa \in Nat,
         full <= CapSizes(a, budget).tokens, swa <= CapSizes(a, budget).swa
  PROVE  /\ SlotBytes(a, Config(full, full, swa), s) \in Int
         /\ SlotBytes(a, Config(full, full, swa), s) <= budget
<1> DEFINE cap == CeilAlign(SwaCap(a), a.page)
           fixed == cap * RowBytes(a.kvType, a.swaElems) * a.swaLayers
           FC == FullCell(a)
           LC == LocalCell(a)
           q == (budget - fixed) \div FC
<1>1. /\ a.maxRunning > 0 /\ a.fullLayers > 0 /\ a.page \in Nat \ {0}
  BY ArgTypes DEF ChunkCapApplies
<1>2. FC \in Nat \ {0} /\ LC \in Nat \ {0}
  BY <1>1, HybridCellTypes
<1>3. SwaCap(a) \in Nat
  BY <1>1, SwaCapFacts
<1>4. cap \in Nat
  <2>1. SwaCap(a) \in Int
    BY <1>3
  <2>2. CeilAlign(SwaCap(a), a.page) \in Int /\ SwaCap(a) <= CeilAlign(SwaCap(a), a.page)
    BY <1>1, <2>1, AlignFacts
  <2> QED BY <1>3, <2>2
<1>5. CapSizes(a, budget) = Config(Align(q, a.page), Align(q, a.page), cap)
  BY DEF CapSizes
<1>6. full <= Align(q, a.page) /\ swa <= cap
  BY <1>5, ConfigFields
<1>7. fixed = LC * cap /\ fixed \in Nat
  <2>1. RowBytes(a.kvType, a.swaElems) \in Nat /\ a.swaLayers \in Nat
    BY RowSizes, ArgTypes
  <2> HIDE DEF cap
  <2> QED BY <1>4, <2>1, SMT DEF LocalCell
<1> HIDE DEF cap, fixed, FC, LC
<1>8. q \in Int /\ FC * q <= budget - fixed
  BY <1>2, <1>7, Division, budget - fixed \in Int
<1>9. full <= q
  <2> HIDE DEF q
  <2>1. Align(q, a.page) \in Int /\ Align(q, a.page) <= q
    BY <1>1, <1>8, AlignFacts
  <2> QED BY <1>6, <1>8, <2>1
<1> HIDE DEF q
<1>10. FC * full <= FC * q /\ FC * full \in Int /\ FC * q \in Int
  BY <1>2, <1>8, <1>9, ProductOrder
<1>11. LC * swa <= LC * cap /\ LC * swa \in Int /\ LC * cap \in Int
  BY <1>2, <1>4, <1>6, ProductOrder
<1>12. SlotBytes(a, Config(full, full, swa), s) = FC * full + LC * swa
  BY <1>1, HybridBytes DEF FC, LC
<1> QED BY <1>7, <1>8, <1>10, <1>11, <1>12

LEMMA SolveShape ==
  ASSUME NEW a \in BootArgs, NEW t \in Int, SolvePoolSizes(a, t).ok
  PROVE  /\ SolvePoolSizes(a, t).tokens \in Nat \ {0}
         /\ SolvePoolSizes(a, t).tokens <= t
         /\ a.fullLayers > 0 => /\ SolvePoolSizes(a, t).full = SolvePoolSizes(a, t).tokens
                                /\ a.window + a.page < SolvePoolSizes(a, t).swa
         /\ SolvePoolSizes(a, t).swa \in Nat
         /\ a.fullLayers = 0 => SolvePoolSizes(a, t).full = 0
<1> DEFINE full == Align(t, a.page)
           share == (full * a.ratio[1]) \div a.ratio[2]
           swa == Align(share, a.page)
<1>1. /\ a.page \in Nat \ {0} /\ a.window \in Nat /\ a.ratio[1] \in Nat
      /\ a.ratio[2] \in Nat \ {0} /\ a.fullLayers \in Nat
  BY ArgTypes
<1>2. full \in Int /\ full <= t
  BY <1>1, AlignFacts
<1>3. ~Raise.ok
  BY ConfigFields DEF Raise
<1>4. CASE a.fullLayers = 0
  <2>1. SolvePoolSizes(a, t) = Config(full, 0, full)
    BY <1>4 DEF SolvePoolSizes
  <2> HIDE DEF full
  <2>2. full > 0
    BY <2>1, ConfigFields
  <2> QED BY <1>2, <1>4, <2>1, <2>2, ConfigFields
<1>5. CASE a.fullLayers > 0
  <2>1. SolvePoolSizes(a, t) = Config(full, full, swa) /\ ~(a.window + a.page >= swa)
    BY <1>1, <1>3, <1>5 DEF SolvePoolSizes
  <2>2. swa \in Int
    <3> HIDE DEF full
    <3>1. full * a.ratio[1] \in Int
      BY <1>1, <1>2, SMT
    <3>2. share \in Int
      BY <1>1, <3>1, Division
    <3> HIDE DEF share
    <3> QED BY <1>1, <3>2, AlignFacts
  <2> HIDE DEF full, swa
  <2>3. full > 0
    BY <2>1, ConfigFields
  <2>4. swa \in Nat
    BY <1>1, <2>1, <2>2
  <2> QED BY <1>1, <1>2, <1>5, <2>1, <2>3, <2>4, ConfigFields
<1> QED BY <1>1, <1>4, <1>5

\* A fixed cap is a whole number of pages.
LEMMA CapIsWhole ==
  ASSUME NEW a \in BootArgs, ChunkCapApplies(a)
  PROVE  CeilAlign(SwaCap(a), a.page) \in Nat /\ a.fullLayers # 0
<1>1. a.maxRunning > 0 /\ a.fullLayers > 0 /\ a.page \in Nat \ {0} /\ a.fullLayers \in Nat
  BY ArgTypes DEF ChunkCapApplies
<1>2. SwaCap(a) \in Nat /\ SwaCap(a) \in Int
  BY <1>1, SwaCapFacts
<1>3. CeilAlign(SwaCap(a), a.page) \in Int /\ SwaCap(a) <= CeilAlign(SwaCap(a), a.page)
  BY <1>1, <1>2, AlignFacts
<1> QED BY <1>1, <1>2, <1>3

(***************************************************************************)
(* What the two entry points of a configurator return.                     *)
(***************************************************************************)
LEMMA SizesShape ==
  ASSUME NEW a \in BootArgs, NEW s \in StageIds(a), NEW budget \in Nat,
         PoolSizes(a, s, budget).ok
  PROVE  /\ PoolSizes(a, s, budget).tokens \in Nat \ {0}
         /\ a.hybrid /\ a.fullLayers > 0 =>
              PoolSizes(a, s, budget).full = PoolSizes(a, s, budget).tokens
         /\ a.hybrid => /\ PoolSizes(a, s, budget).swa \in Nat
                        /\ a.fullLayers = 0 => PoolSizes(a, s, budget).full = 0
<1>1. a.page \in Nat \ {0} /\ a.hybrid \in BOOLEAN
  BY ArgTypes
<1>2. CASE ~a.hybrid
  <2> DEFINE n == a.stages[s]
             x == IF DefaultCell(a, n) > 0 THEN budget \div DefaultCell(a, n) ELSE ZeroKvTokens(a)
  <2>1. PoolSizes(a, s, budget) = Config(Align(x, a.page), 0, 0)
    BY <1>2 DEF PoolSizes, DefaultSizes
  <2>2. x \in Int
    <3>1. n \in Nat
      BY StageTypes
    <3>2. CASE n = 0
      <4>1. DefaultCell(a, n) = BaseCell(a, n) /\ BaseCell(a, n) \in Nat
        BY <3>2, BaseCellFacts DEF DefaultCell
      <4>2. ZeroKvTokens(a) \in Int
        BY ZeroKvTokensType
      <4>3. BaseCell(a, n) > 0 => budget \div BaseCell(a, n) \in Int
        BY <4>1, Division
      <4> QED BY <4>1, <4>2, <4>3
    <3>3. CASE n # 0
      <4>1. DefaultCell(a, n) \in Nat \ {0}
        BY <3>1, <3>3, DefaultCellFacts
      <4> QED BY <4>1, Division
    <3> QED BY <3>2, <3>3
  <2> HIDE DEF x
  <2>3. Align(x, a.page) \in Int
    BY <1>1, <2>2, AlignFacts
  <2>4. Align(x, a.page) > 0
    BY <2>1, ConfigFields
  <2> QED BY <1>2, <2>1, <2>3, <2>4, ConfigFields
<1>3. CASE a.hybrid /\ ChunkCapApplies(a)
  <2> DEFINE x == (budget - CeilAlign(SwaCap(a), a.page) * RowBytes(a.kvType, a.swaElems)
                     * a.swaLayers) \div FullCell(a)
  <2>1. PoolSizes(a, s, budget)
          = Config(Align(x, a.page), Align(x, a.page), CeilAlign(SwaCap(a), a.page))
    BY <1>3 DEF PoolSizes, CapSizes
  <2>2. x \in Int
    <3>1. SwaCap(a) \in Int /\ FullCell(a) \in Nat \ {0}
      BY <1>3, ArgTypes, SwaCapFacts, HybridCellTypes DEF ChunkCapApplies
    <3>2. CeilAlign(SwaCap(a), a.page) \in Int
      BY <1>1, <3>1, AlignFacts
    <3>3. RowBytes(a.kvType, a.swaElems) \in Int /\ a.swaLayers \in Int
      BY RowSizes, ArgTypes
    <3>4. CeilAlign(SwaCap(a), a.page) * RowBytes(a.kvType, a.swaElems) * a.swaLayers \in Int
      BY <3>2, <3>3, SMT
    <3> QED BY <3>1, <3>4, Division
  <2> HIDE DEF x
  <2>3. Align(x, a.page) \in Int
    BY <1>1, <2>2, AlignFacts
  <2>4. Align(x, a.page) > 0
    BY <2>1, ConfigFields
  <2>5. CeilAlign(SwaCap(a), a.page) \in Nat /\ a.fullLayers # 0
    BY <1>3, CapIsWhole
  <2> QED BY <2>1, <2>3, <2>4, <2>5, ConfigFields
<1>4. CASE a.hybrid /\ ~ChunkCapApplies(a)
  <2> DEFINE t == (budget * a.ratio[2]) \div HybridCells(a)
  <2>1. PoolSizes(a, s, budget) = SolvePoolSizes(a, t)
    BY <1>4 DEF PoolSizes
  <2>2. t \in Int
    <3>1. budget * a.ratio[2] \in Int
      BY ArgTypes, ProductGrows
    <3> QED BY <1>4, <3>1, HybridCellsFacts, Division
  <2> HIDE DEF t
  <2> QED BY <2>1, <2>2, SolveShape
<1> QED BY <1>1, <1>2, <1>3, <1>4

LEMMA FromTokensShape ==
  ASSUME NEW a \in BootArgs, NEW t \in Nat, PoolSizesFromTokens(a, t).ok
  PROVE  /\ PoolSizesFromTokens(a, t).tokens \in Nat \ {0}
         /\ PoolSizesFromTokens(a, t).tokens <= t
         /\ a.hybrid /\ a.fullLayers > 0 =>
              PoolSizesFromTokens(a, t).full = PoolSizesFromTokens(a, t).tokens
         /\ a.hybrid => /\ PoolSizesFromTokens(a, t).swa \in Nat
                        /\ a.fullLayers = 0 => PoolSizesFromTokens(a, t).full = 0
<1>1. a.page \in Nat \ {0} /\ a.hybrid \in BOOLEAN
  BY ArgTypes
<1> DEFINE full == Align(t, a.page)
<1>2. full \in Int /\ full <= t
  <2>1. t \in Int
    OBVIOUS
  <2> QED BY <1>1, <2>1, AlignFacts
<1>3. CASE ~a.hybrid
  <2>1. PoolSizesFromTokens(a, t) = Config(full, 0, 0)
    BY <1>3 DEF PoolSizesFromTokens
  <2> HIDE DEF full
  <2>2. full > 0
    BY <2>1, ConfigFields
  <2> QED BY <1>2, <1>3, <2>1, <2>2, ConfigFields
<1>4. CASE a.hybrid /\ ChunkCapApplies(a)
  <2> DEFINE swa == Lower(CeilAlign(SwaCap(a), a.page), t)
  <2>1. PoolSizesFromTokens(a, t) = Config(full, full, swa)
    BY <1>4 DEF PoolSizesFromTokens, CapSizesFromTokens
  <2>2. swa \in Nat /\ a.fullLayers # 0
    BY <1>4, CapIsWhole DEF Lower
  <2> HIDE DEF full, swa
  <2>3. full > 0
    BY <2>1, ConfigFields
  <2> QED BY <1>2, <2>1, <2>2, <2>3, ConfigFields
<1>5. CASE a.hybrid /\ ~ChunkCapApplies(a)
  <2>1. PoolSizesFromTokens(a, t) = SolvePoolSizes(a, t)
    BY <1>5 DEF PoolSizesFromTokens
  <2> QED BY <2>1, SolveShape, t \in Int
<1> QED BY <1>1, <1>3, <1>4, <1>5

(***************************************************************************)
(* A configurator's answer fits the budget it was given, and so does what  *)
(* it answers to any token limit below that.                               *)
(***************************************************************************)
LEMMA SizesFit ==
  ASSUME NEW a \in BootArgs, NEW s \in StageIds(a), NEW budget \in Nat,
         PoolSizes(a, s, budget).ok
  PROVE  /\ SlotBytes(a, PoolSizes(a, s, budget), s) \in Int
         /\ SlotBytes(a, PoolSizes(a, s, budget), s) <= budget
<1> DEFINE c == PoolSizes(a, s, budget)
<1>1. c.tokens \in Nat \ {0} /\ a.hybrid \in BOOLEAN
  BY SizesShape, ArgTypes
<1>2. CASE ~a.hybrid
  <2>1. c = DefaultSizes(a, s, budget)
    BY <1>2 DEF PoolSizes
  <2>2. c = Config(c.tokens, 0, 0)
    BY <2>1, ConfigFields DEF DefaultSizes
  <2> QED BY <1>1, <1>2, <2>1, <2>2, DefaultFits
<1>3. CASE a.hybrid /\ ChunkCapApplies(a)
  <2>1. c = CapSizes(a, budget)
    BY <1>3 DEF PoolSizes
  <2>2. c = Config(c.tokens, c.tokens, c.swa)
    BY <2>1, ConfigFields DEF CapSizes
  <2>3. c.swa \in Nat
    <3>1. SwaCap(a) \in Int /\ SwaCap(a) >= 0
      BY <1>3, SwaCapFacts DEF ChunkCapApplies
    <3>2. a.page \in Nat \ {0}
      BY ArgTypes
    <3>3. CeilAlign(SwaCap(a), a.page) \in Int /\ SwaCap(a) <= CeilAlign(SwaCap(a), a.page)
      BY <3>1, <3>2, AlignFacts
    <3>4. c.swa = CeilAlign(SwaCap(a), a.page)
      BY <2>1, ConfigFields DEF CapSizes
    <3> QED BY <3>1, <3>3, <3>4
  <2> HIDE DEF c
  <2>4. /\ SlotBytes(a, Config(c.tokens, c.tokens, c.swa), s) \in Int
        /\ SlotBytes(a, Config(c.tokens, c.tokens, c.swa), s) <= budget
    BY <1>1, <1>3, <2>1, <2>3, CapFits
  <2> QED BY <2>2, <2>4 DEF c
<1>4. CASE a.hybrid /\ ~ChunkCapApplies(a)
  <2> DEFINE t == (budget * a.ratio[2]) \div HybridCells(a)
  <2>1. c = SolvePoolSizes(a, t)
    BY <1>4 DEF PoolSizes
  <2>2. t \in Nat
    <3>1. budget * a.ratio[2] \in Nat
      BY ArgTypes, ProductGrows
    <3> QED BY <1>4, <3>1, HybridCellsFacts, QuotientFacts
  <2>3. t <= t
    BY <2>2
  <2> QED BY <1>4, <2>1, <2>2, <2>3, SolveFits
<1> QED BY <1>1, <1>2, <1>3, <1>4

LEMMA FromTokensFit ==
  ASSUME NEW a \in BootArgs, NEW s \in StageIds(a), NEW budget \in Nat,
         PoolSizes(a, s, budget).ok,
         NEW t \in Nat, t <= PoolSizes(a, s, budget).tokens,
         PoolSizesFromTokens(a, t).ok
  PROVE  /\ SlotBytes(a, PoolSizesFromTokens(a, t), s) \in Int
         /\ SlotBytes(a, PoolSizesFromTokens(a, t), s) <= budget
<1> DEFINE c == PoolSizes(a, s, budget)
           d == PoolSizesFromTokens(a, t)
<1>1. /\ c.tokens \in Nat \ {0} /\ d.tokens \in Nat \ {0} /\ d.tokens <= t
      /\ a.hybrid \in BOOLEAN
  BY SizesShape, FromTokensShape, ArgTypes
<1>2. d.tokens <= c.tokens
  BY <1>1
<1>3. CASE ~a.hybrid
  <2>1. c = DefaultSizes(a, s, budget)
    BY <1>3 DEF PoolSizes
  <2>2. d = Config(d.tokens, 0, 0)
    BY <1>3, ConfigFields DEF PoolSizesFromTokens
  <2> HIDE DEF c, d
  <2>3. d.tokens <= DefaultSizes(a, s, budget).tokens
    BY <1>2, <2>1
  <2>4. /\ SlotBytes(a, Config(d.tokens, 0, 0), s) \in Int
        /\ SlotBytes(a, Config(d.tokens, 0, 0), s) <= budget
    BY <1>1, <1>3, <2>3, DefaultFits
  <2> QED BY <2>2, <2>4 DEF d
<1>4. CASE a.hybrid /\ ChunkCapApplies(a)
  <2>1. c = CapSizes(a, budget)
    BY <1>4 DEF PoolSizes
  <2> DEFINE cap == CeilAlign(SwaCap(a), a.page)
  <2>2. c.swa = cap
    BY <2>1, ConfigFields DEF CapSizes
  <2>3. d = CapSizesFromTokens(a, t)
    BY <1>4 DEF PoolSizesFromTokens
  <2>4. d = Config(d.tokens, d.tokens, d.swa) /\ d.swa = Lower(cap, t)
    BY <2>3, ConfigFields DEF CapSizesFromTokens
  <2>5. cap \in Nat
    <3>1. SwaCap(a) \in Int /\ SwaCap(a) >= 0
      BY <1>4, SwaCapFacts DEF ChunkCapApplies
    <3>2. a.page \in Nat \ {0}
      BY ArgTypes
    <3>3. CeilAlign(SwaCap(a), a.page) \in Int /\ SwaCap(a) <= CeilAlign(SwaCap(a), a.page)
      BY <3>1, <3>2, AlignFacts
    <3> QED BY <3>1, <3>3
  <2> HIDE DEF c, d, cap
  <2>6. d.swa \in Nat /\ d.swa <= c.swa
    BY <2>2, <2>4, <2>5 DEF Lower
  <2>7. d.tokens <= CapSizes(a, budget).tokens /\ d.swa <= CapSizes(a, budget).swa
    BY <1>2, <2>1, <2>6
  <2>8. /\ SlotBytes(a, Config(d.tokens, d.tokens, d.swa), s) \in Int
        /\ SlotBytes(a, Config(d.tokens, d.tokens, d.swa), s) <= budget
    BY <1>1, <1>4, <2>6, <2>7, CapFits
  <2> QED BY <2>4, <2>8 DEF d
<1>5. CASE a.hybrid /\ ~ChunkCapApplies(a)
  <2> DEFINE limit == (budget * a.ratio[2]) \div HybridCells(a)
  <2>1. c = SolvePoolSizes(a, limit) /\ d = SolvePoolSizes(a, t)
    BY <1>5 DEF PoolSizes, PoolSizesFromTokens
  <2>2. limit \in Nat
    <3>1. budget * a.ratio[2] \in Nat
      BY ArgTypes, ProductGrows
    <3> QED BY <1>5, <3>1, HybridCellsFacts, QuotientFacts
  <2>3. c.tokens <= limit
    BY <2>1, <2>2, SolveShape, limit \in Int
  <2>4. t <= limit
    <3> HIDE DEF limit, c
    <3>1. t <= c.tokens
      BY DEF c
    <3> QED BY <1>1, <2>2, <2>3, <3>1
  <2> QED BY <1>5, <2>1, <2>4, SolveFits
<1> QED BY <1>1, <1>3, <1>4, <1>5

(***************************************************************************)
(* The resolution.                                                         *)
(***************************************************************************)
LEMMA TokenConstraintFacts ==
  ASSUME NEW a \in BootArgs, NEW sizes, \A s \in StageIds(a) : sizes[s].tokens \in Nat
  PROVE  /\ TokenConstraint(a, sizes) \in Nat
         /\ \A s \in StageIds(a) : TokenConstraint(a, sizes) <= sizes[s].tokens
         /\ a.maxTotal > 0 => TokenConstraint(a, sizes) <= a.maxTotal
         /\ \/ \E s \in StageIds(a) : TokenConstraint(a, sizes) = sizes[s].tokens
            \/ a.maxTotal > 0 /\ TokenConstraint(a, sizes) = a.maxTotal
<1> DEFINE limited(s) == IF a.maxTotal > 0 THEN Lower(sizes[s].tokens, a.maxTotal)
                         ELSE sizes[s].tokens
           all == {limited(s) : s \in StageIds(a)}
<1>1. a.maxTotal \in Nat
  BY ArgTypes
<1>2. ASSUME NEW s \in StageIds(a)
      PROVE  limited(s) \in Nat /\ limited(s) <= sizes[s].tokens /\ limited(s) \in all
  BY <1>1 DEF Lower
<1>3. all \in SUBSET Nat /\ all # {}
  BY <1>2, StageTypes
<1>4. \E t \in all : \A u \in all : t <= u
  <2> HIDE DEF all
  <2> QED BY <1>3, Least
<1>5. TokenConstraint(a, sizes) = CHOOSE t \in all : \A u \in all : t <= u
  BY DEF TokenConstraint
<1> DEFINE least == CHOOSE t \in all : \A u \in all : t <= u
<1>6. least \in all /\ \A u \in all : least <= u
  <2> HIDE DEF all
  <2> QED BY <1>4 DEF least
<1>7. least \in Nat
  BY <1>3, <1>6
<1> HIDE DEF least
<1>8. ASSUME NEW s \in StageIds(a) PROVE least <= sizes[s].tokens
  <2>1. least <= limited(s)
    BY <1>2, <1>6
  <2> HIDE DEF limited
  <2> QED BY <1>2, <1>7, <2>1
<1>9. /\ \/ \E s \in StageIds(a) : least = sizes[s].tokens
         \/ a.maxTotal > 0 /\ least = a.maxTotal
  BY <1>6 DEF Lower
<1>10. ASSUME a.maxTotal > 0 PROVE least <= a.maxTotal
  <2>1. limited(1) \in all /\ limited(1) <= a.maxTotal /\ limited(1) \in Nat
    BY <1>1, <1>10, StageTypes DEF Lower
  <2>2. least <= limited(1)
    BY <1>6, <2>1
  <2> HIDE DEF limited
  <2> QED BY <1>1, <1>7, <2>1, <2>2
<1> QED BY <1>5, <1>7, <1>8, <1>9, <1>10 DEF least

\* What is known of a boot on whose stages nothing was refused.
LEMMA Resolved ==
  ASSUME NEW a \in BootArgs, \A s \in StageIds(a) : Resolve(a)[s].ok
  PROVE  /\ ~Refused(a)
         /\ \A s \in StageIds(a) : PoolSizes(a, s, KvBudget(a)).ok
         /\ \A s \in StageIds(a) : a.mamba > 0 => ~(MaxRequestsOf(a, Resolve(a)[s].tokens) <= 0)
         /\ \A s \in StageIds(a) :
              LET sizes == [u \in StageIds(a) |-> PoolSizes(a, u, KvBudget(a))]
                  t == TokenConstraint(a, sizes)
              IN  Resolve(a)[s] = IF t = sizes[s].tokens THEN sizes[s]
                                  ELSE PoolSizesFromTokens(a, t)
<1> DEFINE ids == StageIds(a)
           sizes == [u \in ids |-> PoolSizes(a, u, KvBudget(a))]
           t == TokenConstraint(a, sizes)
           final == [s \in ids |-> IF t = sizes[s].tokens THEN sizes[s]
                                   ELSE PoolSizesFromTokens(a, t)]
           raised == [s \in ids |-> Raise]
<1>1. 1 \in ids /\ ~Raise.ok
  BY StageTypes, ConfigFields DEF Raise
<1>2. Resolve(a) # raised
  <2>1. Resolve(a)[1].ok
    BY <1>1
  <2>2. raised[1] = Raise
    BY <1>1
  <2> QED BY <1>1, <2>1, <2>2
<1>3. Resolve(a) =
        IF Refused(a) THEN raised
        ELSE IF \E s \in ids : ~sizes[s].ok THEN raised
        ELSE IF a.mamba > 0 /\ \E s \in ids : MaxRequestsOf(a, final[s].tokens) <= 0
        THEN raised ELSE final
  BY DEF Resolve
<1> HIDE DEF sizes, t, final, raised, ids
<1>4. /\ ~Refused(a) /\ \A s \in ids : sizes[s].ok
      /\ Resolve(a) = final
      /\ \A s \in ids : a.mamba > 0 => ~(MaxRequestsOf(a, final[s].tokens) <= 0)
  BY <1>2, <1>3
<1>5. \A s \in ids : PoolSizes(a, s, KvBudget(a)).ok
  BY <1>4 DEF sizes
<1>6. \A s \in ids : Resolve(a)[s] = IF t = sizes[s].tokens THEN sizes[s]
                                     ELSE PoolSizesFromTokens(a, t)
  BY <1>4 DEF final
<1> QED BY <1>4, <1>5, <1>6 DEF ids, sizes, t

\* The states a mamba-like model is left with are a whole number.
LEMMA StateTypes ==
  ASSUME NEW a \in BootArgs, a.mamba > 0
  PROVE  MambaStates(a) \in Int /\ SlotsPerRequest(a) \in Nat \ {0}
<1>1. /\ a.mamba \in Nat \ {0} /\ a.dp \in Nat \ {0} /\ a.mambaSize \in Nat
      /\ a.maxRunning \in Nat /\ a.rest \in Nat /\ a.numDraft \in Nat \ {0}
      /\ a.mambaRatio[1] \in Nat /\ a.mambaRatio[2] \in Nat \ {0}
  BY ArgTypes
<1>2. SlotsPerRequest(a) \in Nat \ {0}
  BY DEF SlotsPerRequest
<1> DEFINE share == a.rest * a.mambaRatio[1]
           whole == a.mambaRatio[1] + a.mambaRatio[2]
           ratio == SlotsPerRequest(a)
<1>3. share \in Nat /\ whole \in Nat \ {0}
  BY <1>1, ProductGrows
<1>4. a.mambaSize \div a.dp \in Int /\ a.maxRunning \div a.dp \in Int
  BY <1>1, Division
<1>5. MambaStates(a) =
        IF a.mambaSize > 0 THEN a.mambaSize \div a.dp
        ELSE IF ~a.radix /\ a.maxRunning > 0 THEN a.maxRunning \div a.dp
        ELSE IF a.spec = "none" THEN (share - a.mamba * whole) \div (a.mamba * whole)
        ELSE ((share - a.mamba * (1 + a.numDraft) * whole) * ratio)
               \div (a.mamba * (ratio + a.numDraft) * whole)
  BY DEF MambaStates
<1> HIDE DEF share, whole, ratio
<1>6. (share - a.mamba * whole) \div (a.mamba * whole) \in Int
  <2>1. a.mamba * whole \in Nat \ {0}
    BY <1>1, <1>3, ProductPositive
  <2> QED BY <1>3, <2>1, Division, share - a.mamba * whole \in Int
<1>7. ((share - a.mamba * (1 + a.numDraft) * whole) * ratio)
        \div (a.mamba * (ratio + a.numDraft) * whole) \in Int
  <2>1. ratio \in Nat \ {0} /\ ratio + a.numDraft \in Nat \ {0} /\ 1 + a.numDraft \in Nat \ {0}
    BY <1>1, <1>2 DEF ratio
  <2>2. /\ a.mamba * (ratio + a.numDraft) \in Nat \ {0}
        /\ a.mamba * (1 + a.numDraft) \in Nat \ {0}
    BY <1>1, <2>1, ProductPositive
  <2>3. /\ a.mamba * (ratio + a.numDraft) * whole \in Nat \ {0}
        /\ a.mamba * (1 + a.numDraft) * whole \in Nat \ {0}
    BY <1>3, <2>2, ProductPositive
  <2>4. (share - a.mamba * (1 + a.numDraft) * whole) * ratio \in Int
    BY <1>3, <2>1, <2>3, SMT
  <2> QED BY <2>3, <2>4, Division
<1> QED BY <1>2, <1>4, <1>5, <1>6, <1>7

\* A request of a mamba-like model that is admitted has its state slots, and
\* the draft positions' states of all of them are in the budget.
LEMMA RequestsHaveStates ==
  ASSUME NEW a \in BootArgs, a.mamba > 0, ~Refused(a), NEW tokens \in Nat,
         ~(MaxRequestsOf(a, tokens) <= 0)
  PROVE  /\ MaxRequestsOf(a, tokens) \in Nat \ {0}
         /\ MaxRequestsOf(a, tokens) * SlotsPerRequest(a) <= MambaStates(a)
         /\ a.spec # "none" => MaxRequestsOf(a, tokens) <= ReservedRequests(a)
         /\ ReservedRequests(a) \in Nat
<1> DEFINE n == MaxRequestsOf(a, tokens)
           states == MambaStates(a)
           slots == SlotsPerRequest(a)
           running == a.maxRunning \div a.dp
           estimate == Higher(Lower((tokens * 512) \div a.context, 4096), 2048)
           wanted == IF a.maxRunning > 0 THEN running ELSE estimate
           perStates == states \div slots
<1>1. states \in Nat \ {0} /\ slots \in Nat \ {0}
  BY StateTypes DEF Refused
<1>2. /\ a.maxRunning \in Nat /\ a.dp \in Nat \ {0} /\ a.context \in Nat \ {0}
      /\ a.radix \in BOOLEAN
  BY ArgTypes
<1>3. running \in Nat
  BY <1>2, QuotientFacts
<1>4. estimate \in Nat
  <2>1. (tokens * 512) \div a.context \in Nat
    BY <1>2, QuotientFacts, tokens * 512 \in Nat
  <2> QED BY <2>1 DEF Higher, Lower
<1>5. tokens \div 2 \in Nat
  BY QuotientFacts
<1>6. perStates \in Nat /\ slots * perStates <= states
  BY <1>1, QuotientFacts, Division
<1>7. n = Lower(Lower(wanted, tokens \div 2), perStates)
  BY DEF MaxRequestsOf
<1>8. ReservedRequests(a) = IF a.mambaSize = 0 /\ ~a.radix THEN states
                            ELSE Lower(running, perStates)
  BY DEF ReservedRequests
<1>9. ~(n <= 0)
  OBVIOUS
<1>10. a.spec # "none" => a.maxRunning > 0
  BY <1>2 DEF Refused
<1>11. ~a.radix => slots = 1
  BY DEF SlotsPerRequest
<1> HIDE DEF n, states, slots, running, estimate, perStates
<1>12. n \in Nat \ {0} /\ n <= perStates /\ (a.maxRunning > 0 => n <= running)
  BY <1>2, <1>3, <1>4, <1>5, <1>6, <1>7, <1>9 DEF Lower
<1>13. n * slots <= states
  <2>1. n * slots <= perStates * slots /\ n * slots \in Nat /\ perStates * slots \in Nat
    BY <1>1, <1>6, <1>12, ProductGrows
  <2>2. perStates * slots = slots * perStates
    BY <1>1, <1>6, SMT
  <2> QED BY <1>1, <1>6, <2>1, <2>2
<1>14. ReservedRequests(a) \in Nat
  BY <1>1, <1>3, <1>6, <1>8 DEF Lower
<1>15. ASSUME a.spec # "none" PROVE n <= ReservedRequests(a)
  <2>1. CASE a.mambaSize = 0 /\ ~a.radix
    <3>1. n * slots = n
      BY <1>11, <1>12, <2>1
    <3> QED BY <1>8, <1>13, <2>1, <3>1
  <2>2. CASE ~(a.mambaSize = 0 /\ ~a.radix)
    BY <1>3, <1>6, <1>8, <1>10, <1>12, <1>15, <2>2 DEF Lower
  <2> QED BY <2>1, <2>2
<1> QED BY <1>12, <1>13, <1>14, <1>15 DEF n, states, slots

LEMMA StateBytesTypes ==
  ASSUME NEW a \in BootArgs, a.mamba > 0, ~Refused(a), NEW n \in Nat, NEW m \in Nat, n <= m
  PROVE  /\ StateBytes(a) \in Nat
         /\ DraftStateBytes(a, n) \in Nat /\ DraftStateBytes(a, m) \in Nat
         /\ DraftStateBytes(a, n) <= DraftStateBytes(a, m)
<1>1. /\ a.mamba \in Nat /\ a.numDraft \in Nat /\ MambaStates(a) + 1 \in Nat
  BY ArgTypes, StateTypes DEF Refused
<1>2. StateBytes(a) \in Nat
  BY <1>1, ProductGrows DEF StateBytes
<1>3. /\ a.mamba * (n + 1) \in Nat /\ a.mamba * (m + 1) \in Nat
      /\ a.mamba * (n + 1) <= a.mamba * (m + 1)
  BY <1>1, ProductGrows, n + 1 \in Nat, m + 1 \in Nat, n + 1 <= m + 1
<1>4. /\ a.mamba * (n + 1) * a.numDraft \in Nat /\ a.mamba * (m + 1) * a.numDraft \in Nat
      /\ a.mamba * (n + 1) * a.numDraft <= a.mamba * (m + 1) * a.numDraft
  <2> DEFINE x == a.mamba * (n + 1)
             y == a.mamba * (m + 1)
  <2>1. x \in Nat /\ y \in Nat /\ x <= y
    BY <1>3
  <2> HIDE DEF x, y
  <2>2. x * a.numDraft \in Nat /\ y * a.numDraft \in Nat /\ x * a.numDraft <= y * a.numDraft
    BY <1>1, <2>1, ProductGrows
  <2> QED BY <2>2 DEF x, y
<1> QED BY <1>2, <1>4 DEF DraftStateBytes

(***************************************************************************)
(* An accepted boot: on every stage there are tokens to serve, the two     *)
(* capacities of a hybrid model agree, and the pools fit what the memory   *)
(* left after the states.                                                  *)
(***************************************************************************)
LEMMA AcceptedSizes ==
  ASSUME NEW a \in BootArgs, \A s \in StageIds(a) : Resolve(a)[s].ok, NEW s \in StageIds(a)
  PROVE  /\ ~Refused(a) /\ KvBudget(a) \in Nat /\ KvBudget(a) <= a.rest
         /\ Resolve(a)[s].tokens \in Nat \ {0}
         /\ a.hybrid /\ a.fullLayers > 0 => Resolve(a)[s].full = Resolve(a)[s].tokens
         /\ a.hybrid => /\ Resolve(a)[s].swa \in Nat
                        /\ a.fullLayers = 0 => Resolve(a)[s].full = 0
         /\ SlotBytes(a, Resolve(a)[s], s) \in Int
         /\ SlotBytes(a, Resolve(a)[s], s) <= KvBudget(a)
         /\ a.mamba > 0 => ~(MaxRequestsOf(a, Resolve(a)[s].tokens) <= 0)
<1> DEFINE sizes == [u \in StageIds(a) |-> PoolSizes(a, u, KvBudget(a))]
           t == TokenConstraint(a, sizes)
           c == Resolve(a)[s]
<1>1. /\ ~Refused(a)
      /\ \A u \in StageIds(a) : PoolSizes(a, u, KvBudget(a)).ok
      /\ c = IF t = sizes[s].tokens THEN sizes[s] ELSE PoolSizesFromTokens(a, t)
      /\ a.mamba > 0 => ~(MaxRequestsOf(a, c.tokens) <= 0)
  BY Resolved
<1>2. KvBudget(a) \in Nat /\ KvBudget(a) <= a.rest
  <2>1. ~(KvBudget(a) <= 0) /\ a.rest \in Nat /\ a.mamba \in Nat
    BY <1>1, ArgTypes DEF Refused
  <2>2. CASE a.mamba = 0
    BY <2>1, <2>2 DEF KvBudget
  <2>3. CASE a.mamba > 0
    <3>1. ReservedRequests(a) \in Nat
      <4>1. c.ok
        OBVIOUS
      <4>2. MambaStates(a) \in Nat \ {0} /\ SlotsPerRequest(a) \in Nat \ {0}
        BY <1>1, <2>3, StateTypes DEF Refused
      <4>3. MambaStates(a) \div SlotsPerRequest(a) \in Nat
        BY <4>2, QuotientFacts
      <4>4. a.maxRunning \div a.dp \in Nat
        BY ArgTypes, QuotientFacts
      <4> QED BY <4>2, <4>3, <4>4 DEF ReservedRequests, Lower
    <3>2. StateBytes(a) \in Nat /\ DraftStateBytes(a, ReservedRequests(a)) \in Nat
      BY <1>1, <2>3, <3>1, StateBytesTypes, ReservedRequests(a) <= ReservedRequests(a)
    <3> QED BY <2>1, <2>3, <3>2 DEF KvBudget
  <2> QED BY <2>1, <2>2, <2>3
<1>3. \A u \in StageIds(a) : sizes[u].tokens \in Nat
  BY <1>1, <1>2, SizesShape
<1>4. t \in Nat /\ t <= sizes[s].tokens
  <2> HIDE DEF sizes
  <2> QED BY <1>3, TokenConstraintFacts
<1>5. sizes[s] = PoolSizes(a, s, KvBudget(a))
  OBVIOUS
<1> HIDE DEF t, sizes
<1>6. CASE t = sizes[s].tokens
  <2>1. c = PoolSizes(a, s, KvBudget(a))
    BY <1>1, <1>5, <1>6
  <2> QED BY <1>1, <1>2, <2>1, SizesShape, SizesFit
<1>7. CASE t # sizes[s].tokens
  <2>1. c = PoolSizesFromTokens(a, t) /\ c.ok
    BY <1>1, <1>7
  <2>2. t <= PoolSizes(a, s, KvBudget(a)).tokens
    BY <1>4, <1>5
  <2>3. PoolSizesFromTokens(a, t).ok /\ PoolSizes(a, s, KvBudget(a)).ok
    BY <1>1, <2>1
  <2>4. /\ SlotBytes(a, PoolSizesFromTokens(a, t), s) \in Int
        /\ SlotBytes(a, PoolSizesFromTokens(a, t), s) <= KvBudget(a)
    BY <1>2, <1>4, <2>2, <2>3, FromTokensFit
  <2> QED BY <1>1, <1>2, <1>4, <2>1, <2>3, <2>4, FromTokensShape
<1> QED BY <1>6, <1>7

\* The pools, the states and the draft positions' states fit the memory.
LEMMA AcceptedFits ==
  ASSUME NEW a \in BootArgs, \A s \in StageIds(a) : Resolve(a)[s].ok, NEW s \in StageIds(a)
  PROVE  /\ SlotBytes(a, Resolve(a)[s], s)
              + (IF a.mamba = 0 THEN 0
                 ELSE StateBytes(a) + DraftStateBytes(a, MaxRequestsOf(a, Resolve(a)[s].tokens)))
              <= a.rest
         /\ (IF a.mamba = 0 THEN 0
             ELSE StateBytes(a) + DraftStateBytes(a, MaxRequestsOf(a, Resolve(a)[s].tokens))) \in Int
<1> DEFINE c == Resolve(a)[s]
           bytes == SlotBytes(a, c, s)
           n == MaxRequestsOf(a, c.tokens)
           kept == ReservedRequests(a)
<1>1. /\ ~Refused(a) /\ KvBudget(a) \in Nat /\ c.tokens \in Nat \ {0}
      /\ bytes \in Int /\ bytes <= KvBudget(a)
      /\ a.mamba > 0 => ~(n <= 0)
  BY AcceptedSizes
<1>2. a.mamba \in Nat /\ a.rest \in Nat
  BY ArgTypes
<1>3. CASE a.mamba = 0
  <2>1. KvBudget(a) = a.rest
    BY <1>3 DEF KvBudget
  <2> HIDE DEF bytes
  <2>2. bytes + 0 <= a.rest
    BY <1>1, <1>2, <2>1
  <2> QED BY <1>3, <2>2 DEF bytes
<1>4. CASE a.mamba > 0
  <2>1. /\ n \in Nat \ {0} /\ kept \in Nat
        /\ a.spec # "none" => n <= kept
    BY <1>1, <1>4, RequestsHaveStates
  <2>2. KvBudget(a) = a.rest - DraftStateBytes(a, kept) - StateBytes(a)
    BY <1>2, <1>4 DEF KvBudget
  <2> HIDE DEF n, kept, bytes
  <2>3. StateBytes(a) \in Nat
    BY <1>1, <1>4, <2>1, StateBytesTypes, kept <= kept
  <2>4. /\ DraftStateBytes(a, n) \in Nat /\ DraftStateBytes(a, kept) \in Nat
        /\ DraftStateBytes(a, n) <= DraftStateBytes(a, kept)
    <3>1. CASE a.spec = "none"
      BY <3>1 DEF DraftStateBytes
    <3>2. CASE a.spec # "none"
      BY <1>1, <1>4, <2>1, <3>2, StateBytesTypes
    <3> QED BY <3>1, <3>2
  <2>5. bytes + (StateBytes(a) + DraftStateBytes(a, n)) <= a.rest
    BY <1>1, <1>2, <2>2, <2>3, <2>4
  <2>6. StateBytes(a) + DraftStateBytes(a, n) \in Int
    BY <2>3, <2>4
  <2> QED BY <1>4, <2>5, <2>6 DEF bytes, n
<1> QED BY <1>2, <1>3, <1>4

\* With the ratio, or a fixed cap and no limit of the user's, the local
\* layers' pool is above the floor of a prefill.
LEMMA AcceptedAdmits ==
  ASSUME NEW a \in BootArgs, \A s \in StageIds(a) : Resolve(a)[s].ok, NEW s \in StageIds(a),
         a.hybrid, a.fullLayers > 0, ~(ChunkCapApplies(a) /\ a.maxTotal > 0)
  PROVE  a.window + a.page < Resolve(a)[s].swa
<1> DEFINE sizes == [u \in StageIds(a) |-> PoolSizes(a, u, KvBudget(a))]
           t == TokenConstraint(a, sizes)
           c == Resolve(a)[s]
<1>1. /\ \A u \in StageIds(a) : PoolSizes(a, u, KvBudget(a)).ok
      /\ c = IF t = sizes[s].tokens THEN sizes[s] ELSE PoolSizesFromTokens(a, t)
  BY Resolved
<1>2. KvBudget(a) \in Nat
  BY AcceptedSizes
<1>3. \A u \in StageIds(a) : sizes[u].tokens \in Nat
  BY <1>1, <1>2, SizesShape
<1>4. \A u \in StageIds(a) : sizes[u] = PoolSizes(a, u, KvBudget(a))
  OBVIOUS
<1> HIDE DEF sizes
<1>5. t \in Nat /\ (a.maxTotal = 0 => \E u \in StageIds(a) : t = sizes[u].tokens)
  BY <1>3, TokenConstraintFacts, ArgTypes
<1> HIDE DEF t
<1>6. CASE ChunkCapApplies(a)
  <2>1. a.maxTotal = 0
    BY <1>6, ArgTypes
  <2>2. \A u \in StageIds(a) : sizes[u] = CapSizes(a, KvBudget(a))
    BY <1>4, <1>6 DEF PoolSizes
  <2>3. c = CapSizes(a, KvBudget(a))
    BY <1>1, <1>5, <2>1, <2>2
  <2>4. c.swa = CeilAlign(SwaCap(a), a.page)
    BY <2>3, ConfigFields DEF CapSizes
  <2>5. /\ SwaCap(a) \in Int /\ a.window + a.page < SwaCap(a)
        /\ a.page \in Nat \ {0} /\ a.window \in Nat
    BY <1>6, ArgTypes, SwaCapFacts DEF ChunkCapApplies
  <2>6. CeilAlign(SwaCap(a), a.page) \in Int /\ SwaCap(a) <= CeilAlign(SwaCap(a), a.page)
    BY <2>5, AlignFacts
  <2> QED BY <2>4, <2>5, <2>6
<1>7. CASE ~ChunkCapApplies(a)
  <2> DEFINE limit == (KvBudget(a) * a.ratio[2]) \div HybridCells(a)
  <2>1. sizes[s] = SolvePoolSizes(a, limit) /\ PoolSizesFromTokens(a, t) = SolvePoolSizes(a, t)
    BY <1>4, <1>7 DEF PoolSizes, PoolSizesFromTokens
  <2>2. limit \in Int
    <3>1. KvBudget(a) * a.ratio[2] \in Int
      BY <1>2, ArgTypes, ProductGrows
    <3> QED BY <3>1, HybridCellsFacts, Division
  <2> HIDE DEF limit
  <2>3. \E x \in Int : c = SolvePoolSizes(a, x)
    BY <1>1, <1>5, <2>1, <2>2
  <2>4. c.ok
    OBVIOUS
  <2> QED BY <2>3, <2>4, SolveShape
<1> QED BY <1>6, <1>7

\* What a stage of n layers of a model without local layers proposes.
Proposal(a, n, budget) ==
  IF DefaultCell(a, n) > 0 THEN budget \div DefaultCell(a, n) ELSE ZeroKvTokens(a)

LEMMA StageProposal ==
  ASSUME NEW a \in BootArgs, ~a.hybrid, NEW s \in StageIds(a), NEW budget \in Nat
  PROVE  PoolSizes(a, s, budget) = Config(Align(Proposal(a, a.stages[s], budget), a.page), 0, 0)
  BY DEF PoolSizes, DefaultSizes, Proposal

LEMMA ProposalFacts ==
  ASSUME NEW a \in BootArgs, NEW n \in Nat, NEW budget \in Nat
  PROVE  /\ Proposal(a, n, budget) \in Nat
         /\ n > 0 => Proposal(a, n, budget) <= budget
         /\ n = 0 /\ a.kvType # "fp4" => Proposal(a, n, budget) = ZeroKvTokens(a)
         /\ n = 0 /\ a.kvType = "fp4" => Proposal(a, n, budget) = budget \div a.elems
<1> DEFINE cell == DefaultCell(a, n)
<1>1. CASE n > 0
  <2>1. cell \in Nat \ {0}
    BY <1>1, DefaultCellFacts
  <2>2. budget \div cell \in Nat /\ budget \div cell <= budget
    BY <2>1, QuotientFacts
  <2> QED BY <1>1, <2>1, <2>2 DEF Proposal
<1>2. CASE n = 0
  <2>1. a.elems \in Nat \ {0} /\ a.kvType \in {"bf16", "mxfp8", "fp4"}
    BY ArgTypes DEF WellFormed
  <2>2. a.elems * n = 0 /\ 2 * a.elems * n = 0
    BY <1>2, <2>1
  <2>3. cell = BaseCell(a, n)
    BY <1>2 DEF DefaultCell
  <2>4. BaseCell(a, n) = IF a.kvType = "fp4" THEN a.elems ELSE 0
    BY <2>1, <2>2 DEF BaseCell
  <2>5. budget \div a.elems \in Nat /\ ZeroKvTokens(a) \in Nat
    BY <2>1, QuotientFacts, ZeroKvTokensType
  <2> QED BY <1>2, <2>1, <2>3, <2>4, <2>5 DEF Proposal
<1> QED BY <1>1, <1>2

\* The dequantization row that a 4-bit stage without layers pays for is less
\* than what a layer costs.
LEMMA EmptyStageProposesMore ==
  ASSUME NEW a \in BootArgs, a.kvType = "fp4", NEW n \in Nat \ {0}, NEW budget \in Nat
  PROVE  Proposal(a, n, budget) <= Proposal(a, 0, budget)
<1> DEFINE cell == DefaultCell(a, n)
           q == budget \div cell
<1>1. cell \in Nat \ {0} /\ a.elems \in Nat \ {0} /\ a.elems <= cell
  <2>1. a.elems \in Nat \ {0}
    BY ArgTypes DEF WellFormed
  <2>2. cell \in Nat \ {0} /\ BaseCell(a, n) <= cell
    BY DefaultCellFacts
  <2>3. BaseCell(a, n) \in Nat /\ a.elems <= BaseCell(a, n)
    BY BaseCellFacts
  <2> HIDE DEF cell
  <2> QED BY <2>1, <2>2, <2>3
<1>2. Proposal(a, n, budget) = q /\ Proposal(a, 0, budget) = budget \div a.elems
  BY <1>1, ProposalFacts DEF Proposal
<1> HIDE DEF cell
<1>3. q \in Nat /\ cell * q <= budget
  BY <1>1, QuotientFacts, Division, budget \in Int
<1> HIDE DEF q
<1>4. a.elems * q <= cell * q /\ a.elems * q \in Nat /\ cell * q \in Nat
  BY <1>1, <1>3, ProductGrows
<1> QED BY <1>1, <1>2, <1>3, <1>4, QuotientAtLeast

\* A token limit is rounded down to whole pages.
LEMMA FromTokensExact ==
  ASSUME NEW a \in BootArgs, NEW t \in Nat, PoolSizesFromTokens(a, t).ok
  PROVE  PoolSizesFromTokens(a, t).tokens = Align(t, a.page)
<1>1. ~Raise.ok
  BY ConfigFields DEF Raise
<1>2. CASE ~a.hybrid
  BY <1>2, ConfigFields DEF PoolSizesFromTokens
<1>3. CASE a.hybrid /\ ChunkCapApplies(a)
  BY <1>3, ConfigFields DEF PoolSizesFromTokens, CapSizesFromTokens
<1>4. CASE a.hybrid /\ ~ChunkCapApplies(a)
  <2>1. SolvePoolSizes(a, t).ok /\ PoolSizesFromTokens(a, t) = SolvePoolSizes(a, t)
    BY <1>4 DEF PoolSizesFromTokens
  <2> QED BY <1>1, <2>1, ConfigFields DEF SolvePoolSizes
<1> QED BY <1>2, <1>3, <1>4

(***************************************************************************)
(* The stages of a pipeline agree, and what they agree on is as much as    *)
(* the user's limit and the stages with KV leave room for.                 *)
(***************************************************************************)
LEMMA AcceptedShares ==
  ASSUME NEW a \in BootArgs, \A s \in StageIds(a) : Resolve(a)[s].ok
  PROVE  /\ \A s \in StageIds(a) : Resolve(a)[s] = Resolve(a)[1]
         /\ (\E h \in StageIds(a) : a.hybrid \/ a.stages[h] > 0) =>
              \/ a.maxTotal > 0 /\ Resolve(a)[1].tokens + a.page > a.maxTotal
              \/ \E s \in StageIds(a) :
                   /\ a.hybrid \/ a.stages[s] > 0
                   /\ PoolSizes(a, s, KvBudget(a)).tokens < Resolve(a)[1].tokens + a.page
<1> DEFINE ids == StageIds(a)
           budget == KvBudget(a)
           sizes == [u \in ids |-> PoolSizes(a, u, budget)]
           t == TokenConstraint(a, sizes)
           Final(s) == IF t = sizes[s].tokens THEN sizes[s] ELSE PoolSizesFromTokens(a, t)
           c == Resolve(a)[1]
<1>1. /\ 1 \in ids /\ a.page \in Nat \ {0} /\ a.hybrid \in BOOLEAN
      /\ a.maxTotal \in Nat /\ a.rest \in Nat
      /\ \A s \in ids : a.stages[s] \in Nat
  BY StageTypes, ArgTypes
<1>2. /\ \A u \in ids : PoolSizes(a, u, budget).ok
      /\ \A s \in ids : Resolve(a)[s] = Final(s)
  BY Resolved
<1>3. budget \in Nat /\ budget <= a.rest
  BY <1>1, AcceptedSizes
<1>4. \A u \in ids : sizes[u] = PoolSizes(a, u, budget)
  OBVIOUS
<1>5. \A u \in ids : sizes[u].tokens \in Nat \ {0}
  BY <1>2, <1>3, <1>4, SizesShape
<1> HIDE DEF sizes, budget
<1>6. /\ t \in Nat /\ \A s \in ids : t <= sizes[s].tokens
      /\ \/ \E s \in ids : t = sizes[s].tokens
         \/ a.maxTotal > 0 /\ t = a.maxTotal
  BY <1>5, TokenConstraintFacts
<1> HIDE DEF t
<1>7. \A s \in ids : Resolve(a)[s].ok
  OBVIOUS
<1>8. ASSUME NEW s \in ids PROVE Final(s) = Final(1)
  <2>1. CASE a.hybrid
    <3>1. sizes[s] = sizes[1]
      BY <1>1, <1>4, <2>1 DEF PoolSizes
    <3> QED BY <3>1
  <2>2. CASE ~a.hybrid
    <3>1. PoolSizesFromTokens(a, t) = Config(Align(t, a.page), 0, 0)
      BY <2>2 DEF PoolSizesFromTokens
    <3>2. ASSUME NEW u \in ids PROVE Final(u) = Config(Align(t, a.page), 0, 0)
      <4> DEFINE x == Proposal(a, a.stages[u], budget)
      <4>1. x \in Int
        <5>1. a.stages[u] \in Nat
          BY <1>1
        <5>2. Proposal(a, a.stages[u], budget) \in Nat
          BY <1>3, <5>1, ProposalFacts
        <5> QED BY <5>2
      <4>2. sizes[u] = Config(Align(x, a.page), 0, 0)
        BY <1>3, <1>4, <2>2, StageProposal
      <4> HIDE DEF x
      <4>3. sizes[u].tokens = Align(x, a.page)
        BY <4>2, ConfigFields
      <4>4. Align(Align(x, a.page), a.page) = Align(x, a.page)
        BY <1>1, <4>1, AlignExact
      <4> QED BY <3>1, <4>2, <4>3, <4>4
    <3> QED BY <1>1, <3>2
  <2> QED BY <1>1, <2>1, <2>2
<1>9. \A s \in ids : Resolve(a)[s] = Resolve(a)[1]
  BY <1>1, <1>2, <1>8
<1>10. c.tokens \in Nat /\ t < c.tokens + a.page
  <2>1. CASE t = sizes[1].tokens
    BY <1>1, <1>2, <1>6, <2>1
  <2>2. CASE t # sizes[1].tokens
    <3>1. c = PoolSizesFromTokens(a, t) /\ c.ok
      BY <1>1, <1>2, <1>7, <2>2
    <3>2. c.tokens = Align(t, a.page) /\ c.tokens \in Nat
      BY <1>6, <3>1, FromTokensExact, FromTokensShape
    <3>3. t < Align(t, a.page) + a.page
      BY <1>1, <1>6, AlignExact, t \in Int
    <3> QED BY <3>2, <3>3
  <2> QED BY <2>1, <2>2
<1> HIDE DEF c
<1>11. ASSUME NEW h \in ids, a.hybrid \/ a.stages[h] > 0
       PROVE  \/ a.maxTotal > 0 /\ c.tokens + a.page > a.maxTotal
              \/ \E s \in ids : /\ a.hybrid \/ a.stages[s] > 0
                               /\ sizes[s].tokens < c.tokens + a.page
  <2>1. CASE a.maxTotal > 0 /\ t = a.maxTotal
    BY <1>1, <1>10, <2>1
  <2>2. ASSUME NEW u \in ids, t = sizes[u].tokens
        PROVE  \E s \in ids : /\ a.hybrid \/ a.stages[s] > 0
                             /\ sizes[s].tokens < c.tokens + a.page
    <3>1. CASE a.hybrid \/ a.stages[u] > 0
      BY <1>10, <2>2, <3>1
    <3>2. CASE ~a.hybrid /\ a.stages[u] = 0
      <4> DEFINE x == Proposal(a, 0, budget)
                 y == Proposal(a, a.stages[h], budget)
      <4>1. /\ sizes[u] = Config(Align(x, a.page), 0, 0)
            /\ sizes[h] = Config(Align(y, a.page), 0, 0)
        BY <1>3, <1>4, <3>2, StageProposal
      <4>2. a.stages[h] \in Nat \ {0}
        BY <1>1, <1>11, <3>2
      <4>3. y \in Nat /\ y <= budget /\ x \in Nat
            /\ (a.kvType # "fp4" => x = ZeroKvTokens(a))
        <5>1. y \in Nat /\ y <= budget
          <6>1. a.stages[h] \in Nat /\ a.stages[h] > 0
            BY <4>2
          <6> QED BY <1>3, <6>1, ProposalFacts
        <5>2. x \in Nat /\ (a.kvType # "fp4" => x = ZeroKvTokens(a))
          BY <1>3, ProposalFacts
        <5> QED BY <5>1, <5>2
      <4>4. CASE a.kvType = "fp4"
        <5>1. y <= x
          BY <1>3, <4>2, <4>4, EmptyStageProposesMore
        <5> HIDE DEF x, y
        <5>2. Align(y, a.page) <= Align(x, a.page)
          BY <1>1, <4>3, <5>1, AlignOrder
        <5>3. sizes[h].tokens <= t
          BY <2>2, <4>1, <5>2, ConfigFields
        <5>4. sizes[h].tokens = t
          BY <1>5, <1>6, <5>3
        <5> QED BY <1>10, <4>2, <5>4
      <4>5. CASE a.kvType # "fp4"
        <5>1. x = NoLimit
          <6>1. /\ \A s \in ids : IF a.stages[s] > 0 THEN a.fullLayers > 0 ELSE a.mamba > 0
                /\ a.rest + a.page <= NoLimit
            BY <3>2, ArgTypes DEF WellFormed, StageIds
          <6>2. a.mamba > 0 /\ a.fullLayers > 0
            BY <1>1, <3>2, <4>2, <6>1
          <6>3. Len(a.stages) > 1
            <7>1. a.stages \in Seq(Nat)
              BY ArgTypes
            <7>2. Len(a.stages) \in Nat /\ h \in 1 .. Len(a.stages) /\ u \in 1 .. Len(a.stages)
              BY <7>1, <1>11, <2>2 DEF StageIds
            <7>3. h # u
              BY <3>2, <4>2
            <7> QED BY <7>2, <7>3
          <6> QED BY <4>3, <4>5, <6>2, <6>3 DEF ZeroKvTokens
        <5>2. a.rest + a.page <= NoLimit /\ NoLimit \in Nat
          BY ArgTypes DEF WellFormed, NoLimit
        <5> HIDE DEF x, y
        <5>3. NoLimit < Align(x, a.page) + a.page /\ Align(x, a.page) \in Int
          <6>1. x \in Int
            BY <4>3
          <6>2. x < Align(x, a.page) + a.page
            BY <1>1, <6>1, AlignExact
          <6>3. Align(x, a.page) \in Int
            BY <1>1, <6>1, AlignFacts
          <6> QED BY <5>1, <6>2, <6>3
        <5>4. Align(y, a.page) <= y /\ Align(y, a.page) \in Int
          <6>1. y \in Int
            BY <4>3
          <6> QED BY <1>1, <6>1, AlignFacts
        <5>5. Align(x, a.page) <= Align(y, a.page)
          BY <1>6, <2>2, <4>1, ConfigFields
        <5> QED BY <1>1, <1>3, <4>3, <5>2, <5>3, <5>4, <5>5
      <4> QED BY <4>4, <4>5
    <3> QED BY <1>1, <3>1, <3>2
  <2> QED BY <1>6, <2>1, <2>2
<1> QED BY <1>4, <1>9, <1>11 DEF c, budget
-----------------------------------------------------------------------------
(***************************************************************************)
(* The kernels (KvAttention).                                              *)
(***************************************************************************)
\* tl.cdiv rounds up.
LEMMA CDivFacts ==
  ASSUME NEW x \in Nat, NEW d \in Nat \ {0}
  PROVE  /\ CDiv(x, d) \in Nat
         /\ x <= d * CDiv(x, d)
         /\ x > 0 => CDiv(x, d) > 0
<1> DEFINE q == CDiv(x, d)
<1>1. q \in Int /\ d * q <= x + d - 1 /\ x + d - 1 < d * q + d
  BY Division DEF CDiv
<1>2. x <= d * q
  BY <1>1, ProductOrder
<1>3. q >= 0
  <2> SUFFICES ASSUME q < 0 PROVE FALSE
    BY <1>1
  <2>1. d * q <= d * (-1)
    BY <1>1, ProductOrder, q <= -1
  <2> QED BY <2>1, <1>1, ProductOrder
<1>4. x > 0 => q > 0
  BY <1>1, <1>2, <1>3, d * 0 = 0
<1> QED BY <1>1, <1>2, <1>3, <1>4

LEMMA SplitLenFacts ==
  ASSUME NEW n \in Nat \ {0}, NEW k \in Nat \ {0}
  PROVE  SplitLen(n, k) \in Nat \ {0} /\ n <= SplitLen(n, k) * k
<1> DEFINE share == CDiv(n, k)
           L == SplitLen(n, k)
<1>1. share \in Nat \ {0} /\ n <= k * share
  BY CDivFacts
<1>2. CDiv(share, MinBlockKv) \in Nat \ {0}
  BY <1>1, CDivFacts, MinBlockKvAssumption
<1>3. L \in Nat /\ share <= L
  BY <1>1, <1>2, CDivFacts, MinBlockKvAssumption, ProductOrder DEF SplitLen
<1>4. k * share <= k * L
  BY <1>1, <1>3, ProductOrder
<1> QED BY <1>1, <1>3, <1>4

\* A loop over lo .. hi - 1 in steps of BlockN loads each of its keys in one
\* tile and no other key.
LEMMA OneTile ==
  ASSUME NEW lo \in Nat, NEW hi \in Nat, NEW i \in Nat, lo < hi
  PROVE  TilesWith(lo, hi, i) =
           IF lo <= i /\ i < hi THEN {(i - lo) \div BlockN} ELSE {}
<1> USE BlockNAssumption
<1> DEFINE t0 == (i - lo) \div BlockN
           tiles == CDiv(hi - lo, BlockN)
<1>1. tiles \in Nat /\ hi - lo <= BlockN * tiles
  BY CDivFacts
<1>2. ASSUME NEW t \in 0 .. tiles - 1, i \in Tile(lo + t * BlockN, hi)
      PROVE  lo <= i /\ i < hi /\ t = t0
  <2>1. /\ lo + t * BlockN <= i /\ i < hi
        /\ i <= lo + t * BlockN + BlockN - 1
    BY <1>1, <1>2 DEF Tile
  <2>2. BlockN * t >= 0
    BY <1>1, ProductOrder, BlockN * 0 = 0
  <2>3. t0 \in Int /\ BlockN * t0 <= i - lo /\ i - lo < BlockN * t0 + BlockN
    BY Division
  <2>4. BlockN * t < BlockN * (t0 + 1) /\ BlockN * t0 < BlockN * (t + 1)
    BY <1>1, <2>1, <2>3, ProductOrder
  <2>5. t < t0 + 1 /\ t0 < t + 1
    BY <1>1, <2>3, <2>4, ProductOrder
  <2> QED BY <1>1, <2>1, <2>2, <2>3, <2>5
<1>3. ASSUME lo <= i, i < hi
      PROVE  t0 \in 0 .. tiles - 1 /\ i \in Tile(lo + t0 * BlockN, hi)
  <2>1. t0 \in Int /\ BlockN * t0 <= i - lo /\ i - lo < BlockN * t0 + BlockN
    BY Division
  <2>2. BlockN * t0 < BlockN * tiles
    BY <1>1, <1>3, <2>1, ProductOrder
  <2>3. t0 < tiles
    BY <1>1, <2>1, <2>2, ProductOrder
  <2>4. BlockN * 0 < BlockN * (t0 + 1)
    BY <1>3, <2>1, ProductOrder
  <2>5. 0 < t0 + 1
    BY <2>1, <2>4, ProductOrder
  <2> QED BY <1>1, <1>3, <2>1, <2>3, <2>5 DEF Tile
<1> QED BY <1>2, <1>3 DEF TilesWith

LoadedOnce(n, k, i) == \E load : DecodeLoads(n, k, i) = {load}

LEMMA OneLoad ==
  ASSUME NEW n \in Nat \ {0}, NEW k \in Nat \ {0}, NEW i \in 0 .. n - 1
  PROVE  LoadedOnce(n, k, i)
<1> DEFINE L == SplitLen(n, k)
           s0 == i \div L
           t0 == (i - SplitStart(n, k, s0)) \div BlockN
<1>1. L \in Nat \ {0} /\ n <= L * k
  BY SplitLenFacts
<1>2. s0 \in Int /\ L * s0 <= i /\ i < L * s0 + L
  BY <1>1, Division
<1>3. s0 \in 0 .. k - 1
  <2>1. L * s0 < L * k /\ L * 0 < L * (s0 + 1)
    BY <1>1, <1>2, ProductOrder
  <2> QED BY <1>1, <1>2, <2>1, ProductOrder
<1>4. ASSUME NEW s \in 0 .. k - 1
      PROVE  /\ SplitStart(n, k, s) = L * s
             /\ SplitStart(n, k, s) \in Nat
             /\ SplitEnd(n, k, s) \in Nat
             /\ SplitEnd(n, k, s) <= L * s + L
             /\ i < L * s + L => i < SplitEnd(n, k, s)
  <2>1. L * s \in Int /\ L * s >= 0
    BY <1>1, ProductOrder, L * 0 = 0
  <2> QED BY <1>1, <2>1 DEF SplitStart, SplitEnd
<1>5. /\ SplitStart(n, k, s0) <= i /\ i < SplitEnd(n, k, s0)
      /\ SplitStart(n, k, s0) < SplitEnd(n, k, s0)
  BY <1>2, <1>3, <1>4
<1>6. ASSUME NEW s \in 0 .. k - 1, SplitStart(n, k, s) <= i, i < SplitEnd(n, k, s)
      PROVE  s = s0
  <2>1. L * s <= i /\ i < L * s + L
    BY <1>1, <1>4, <1>6, ProductOrder
  <2>2. s \in Int /\ s + 1 \in Int /\ s0 + 1 \in Int
    BY <1>2
  <2>3. L * (s + 1) = L * s + L /\ L * (s0 + 1) = L * s0 + L /\ L * s \in Int /\ L * s0 \in Int
    BY <1>1, <1>2, <2>2, ProductOrder
  <2>4. L * s < L * (s0 + 1) /\ L * s0 < L * (s + 1)
    BY <1>1, <1>2, <2>1, <2>3
  <2>5. s < s0 + 1
    BY <1>1, <2>2, <2>4, ProductOrder
  <2>6. s0 < s + 1
    BY <1>1, <1>2, <2>2, <2>4, ProductOrder
  <2> QED BY <1>2, <2>2, <2>5, <2>6
<1>7. ASSUME NEW s \in 0 .. k - 1, SplitStart(n, k, s) < SplitEnd(n, k, s)
      PROVE  TilesWith(SplitStart(n, k, s), SplitEnd(n, k, s), i) =
               IF s = s0 THEN {t0} ELSE {}
  <2>1. TilesWith(SplitStart(n, k, s), SplitEnd(n, k, s), i) =
          IF SplitStart(n, k, s) <= i /\ i < SplitEnd(n, k, s)
          THEN {(i - SplitStart(n, k, s)) \div BlockN} ELSE {}
    BY <1>4, <1>7, OneTile
  <2> QED BY <2>1, <1>5, <1>6
<1>8. DecodeLoads(n, k, i) = {<<s0, t0>>}
  BY <1>3, <1>5, <1>7 DEF DecodeLoads
<1> QED BY <1>8 DEF LoadedOnce

(***************************************************************************)
(* Every key of a decode row is loaded by exactly one program, in exactly  *)
(* one of its tiles, whatever number of splits the heuristic picks for the *)
(* row: no key is weighed twice, none is left out between two splits.      *)
(***************************************************************************)
THEOREM EveryKeyLoadedOnce ==
  ASSUME NEW n \in Nat \ {0}, NEW k \in Nat \ {0}, NEW i \in 0 .. n - 1
  PROVE  Cardinality(DecodeLoads(n, k, i)) = 1
<1>1. LoadedOnce(n, k, i)
  BY OneLoad
<1>2. PICK load : DecodeLoads(n, k, i) = {load}
  BY <1>1 DEF LoadedOnce
<1> QED BY <1>2, FS_Singleton

(***************************************************************************)
(* The pool stores the scales of a row's heads as one flat run of blocks;  *)
(* the kernels address them head by head.  Both mean the same scale as     *)
(* long as blocks do not straddle heads.                                   *)
(***************************************************************************)
THEOREM ScalesAgree ==
  ASSUME NEW blocks \in Nat \ {0}, NEW h \in Nat, NEW d \in 0 .. SfBlock * blocks - 1
  PROVE  FlatScale(SfBlock * blocks, h, d) = KernelScale(SfBlock * blocks, h, d)
<1>1. h * (16 * blocks) + d = 16 * (h * blocks) + d /\ h * blocks \in Nat
  BY SMT
<1>2. (16 * (h * blocks) + d) \div 16 = h * blocks + d \div 16
  BY <1>1
<1>3. (16 * blocks) \div 16 = blocks
  OBVIOUS
<1> QED BY <1>1, <1>2, <1>3 DEF FlatScale, KernelScale, SfBlock

(***************************************************************************)
(* The masks of the extend kernel: row m of a chunk that follows `prefix`  *)
(* keys weighs, of the prefix and of the causal part of the chunk together,*)
(* its own key and the `window` keys before it, however the context is     *)
(* divided between prefix and chunk.                                       *)
(***************************************************************************)
THEOREM MasksMeet ==
  ASSUME NEW prefix \in Nat, NEW extend \in Nat, NEW window \in Nat \ {0},
         NEW m \in 0 .. extend - 1
  PROVE  PrefixKeys(prefix, m, window)
           \cup {prefix + c : c \in ChunkKeys({n \in 0 .. extend - 1 : n <= m}, m, window)}
         = {p \in 0 .. prefix + m : p >= prefix + m - window}
<1> DEFINE seen == {p \in 0 .. prefix + m : p >= prefix + m - window}
           chunk == ChunkKeys({n \in 0 .. extend - 1 : n <= m}, m, window)
<1>1. chunk = {c \in 0 .. extend - 1 : c <= m /\ m <= c + window}
  BY DEF ChunkKeys, InWindow
<1>2. PrefixKeys(prefix, m, window) = {p \in 0 .. prefix - 1 : prefix + m <= p + window}
  BY DEF PrefixKeys, InWindow
<1>3. ASSUME NEW c \in chunk PROVE prefix + c \in seen
  BY <1>1
<1>4. ASSUME NEW p \in seen, p \notin PrefixKeys(prefix, m, window)
      PROVE  \E c \in chunk : p = prefix + c
  <2>1. p - prefix \in chunk /\ p = prefix + (p - prefix)
    BY <1>1, <1>2, <1>4
  <2> QED BY <2>1
<1>5. PrefixKeys(prefix, m, window) \subseteq seen
  BY <1>2
<1>6. PrefixKeys(prefix, m, window) \cup {prefix + c : c \in chunk} = seen
  BY <1>3, <1>4, <1>5
<1> QED BY <1>6
-----------------------------------------------------------------------------
(***************************************************************************)
(* The boot.                                                               *)
(***************************************************************************)

LEMMA BootStays == [Next]_vars => UNCHANGED boot
<1>1. CASE UNCHANGED vars BY <1>1 DEF vars
<1>2. ASSUME NEW r \in Rows, ScheduleExtend(r) PROVE UNCHANGED boot
  BY <1>2 DEF ScheduleExtend
<1>3. ASSUME NEW r \in Rows, Finish(r) PROVE UNCHANGED boot
  BY <1>3 DEF Finish
<1>4. ASSUME NEW r \in Rows, EvictSwa(r) PROVE UNCHANGED boot
  BY <1>4 DEF EvictSwa
<1>5. ASSUME NEW batch \in SUBSET Rows, ScheduleBatch(batch) PROVE UNCHANGED boot
  BY <1>5 DEF ScheduleBatch
<1>6. CASE Extend BY <1>6 DEF Extend
<1>7. CASE Decode BY <1>7 DEF Decode
<1>8. CASE Propose BY <1>8 DEF Propose
<1>9. CASE Verify BY <1>9 DEF Verify
<1>10. CASE Commit BY <1>10 DEF Commit
<1> QED BY <1>1, <1>2, <1>3, <1>4, <1>5, <1>6, <1>7, <1>8, <1>9, <1>10 DEF Next

\* The inductive invariant: what was booted is the resolution of arguments.
Booted == boot.args \in BootArgs /\ boot.config = Resolve(boot.args)

LEMMA BootedInit == Init => Booted
<1> SUFFICES ASSUME Init PROVE Booted
  OBVIOUS
<1>1. PICK a \in Boots : boot = BootOf(a)
  BY DEF Init
<1>2. a \in BootArgs
  BY BootsAssumption
<1> QED BY <1>1, <1>2 DEF BootOf, Booted

LEMMA BootedInvariant == Spec => []Booted
<1>1. Booted /\ [Next]_vars => Booted'
  <2> SUFFICES ASSUME Booted, [Next]_vars PROVE Booted'
    OBVIOUS
  <2>1. boot' = boot
    BY BootStays
  <2> QED BY <2>1 DEF Booted
<1> QED BY <1>1, BootedInit, PTL DEF Spec

\* What Accepted says of the arguments.
LEMMA AcceptedResolves ==
  ASSUME Booted, Accepted
  PROVE  /\ boot.args \in BootArgs
         /\ \A s \in StageIds(boot.args) : /\ Resolve(boot.args)[s].ok
                                           /\ boot.config[s] = Resolve(boot.args)[s]
<1>1. boot.args \in BootArgs /\ boot.config = Resolve(boot.args)
  BY DEF Booted
<1>2. DOMAIN Resolve(boot.args) = StageIds(boot.args)
  BY DEF Resolve
<1> QED BY <1>1, <1>2 DEF Accepted

(***************************************************************************)
(* Whatever the arguments, the layer counts and the memory: an accepted    *)
(* boot allocates what was left for caches, with the states of every       *)
(* request it runs at once, and beyond that the pad page of each layer.    *)
(***************************************************************************)
LEMMA PadsOnTop ==
  ASSUME NEW a \in BootArgs, \A u \in StageIds(a) : Resolve(a)[u].ok, NEW s \in StageIds(a)
  PROVE  /\ PoolBytes(a, Resolve(a)[s], s) = SlotBytes(a, Resolve(a)[s], s) + PadBytes(a, s)
         /\ PadBytes(a, s) \in Nat
<1> DEFINE c == Resolve(a)[s]
           rowF == RowBytes(a.kvType, a.elems)
           rowS == RowBytes(a.kvType, a.swaElems)
           rowB == IF a.hybrid THEN rowS ELSE rowF
           df == DraftFull(a)
           db == DraftBanded(a)
           fl == a.fullLayers
           sl == a.swaLayers
           st == a.stages[s]
           p == a.page
           x == DraftPoolSlots(a, c, "full")
           y == DraftPoolSlots(a, c, "banded")
<1>1. /\ rowF \in Nat /\ rowS \in Nat /\ rowB \in Nat /\ fl \in Nat /\ sl \in Nat
      /\ df \in Nat /\ db \in Nat /\ st \in Nat /\ p \in Nat
  BY RowSizes, ArgTypes, DraftLayersFacts, StageTypes
<1>2. /\ c.tokens \in Nat /\ a.hybrid \in BOOLEAN
      /\ a.hybrid => c.full \in Nat /\ c.swa \in Nat
  <2>1. /\ c.tokens \in Nat \ {0}
        /\ a.hybrid /\ a.fullLayers > 0 => c.full = c.tokens
        /\ a.hybrid => /\ c.swa \in Nat
                       /\ a.fullLayers = 0 => c.full = 0
    BY AcceptedSizes
  <2>2. a.hybrid \in BOOLEAN /\ a.fullLayers \in Nat
    BY ArgTypes
  <2> HIDE DEF c
  <2> QED BY <2>1, <2>2
<1>3. x \in Nat /\ y \in Nat
  <2> HIDE DEF c
  <2> QED BY <1>2 DEF DraftPoolSlots, RingSlots
<1>4. PoolBytes(a, c, s)
        = (rowF * df * (x + p) + rowB * db * (y + p))
            + (IF a.hybrid THEN rowF * fl * (c.full + p) + rowS * sl * (c.swa + p)
               ELSE rowF * st * (c.tokens + p))
  BY DEF PoolBytes
<1>5. SlotBytes(a, c, s)
        = (rowF * df * x + rowB * db * y)
            + (IF a.hybrid THEN rowF * fl * c.full + rowS * sl * c.swa ELSE rowF * st * c.tokens)
  BY DEF SlotBytes
<1>6. PadBytes(a, s)
        = p * (rowF * df + rowB * db + (IF a.hybrid THEN rowF * fl + rowS * sl ELSE rowF * st))
  BY DEF PadBytes
<1> HIDE DEF c, rowF, rowS, rowB, df, db, fl, sl, st, p, x, y
<1> DEFINE d1 == rowF * df
           d2 == rowB * db
           f1 == rowF * fl
           f2 == rowS * sl
           f3 == rowF * st
<1>7. d1 \in Nat /\ d2 \in Nat /\ f1 \in Nat /\ f2 \in Nat /\ f3 \in Nat
  BY <1>1, ProductGrows
<1> HIDE DEF d1, d2, f1, f2, f3
<1>8. d1 * (x + p) = d1 * x + p * d1 /\ d2 * (y + p) = d2 * y + p * d2
  BY <1>1, <1>3, <1>7, PadsApart
<1>9. /\ p * d1 \in Nat /\ p * d2 \in Nat /\ p * f1 \in Nat /\ p * f2 \in Nat /\ p * f3 \in Nat
      /\ d1 * x \in Nat /\ d2 * y \in Nat
  BY <1>1, <1>3, <1>7, ProductGrows
<1>10. CASE a.hybrid
  <2>1. f1 * (c.full + p) = f1 * c.full + p * f1 /\ f2 * (c.swa + p) = f2 * c.swa + p * f2
    BY <1>1, <1>2, <1>7, <1>10, PadsApart
  <2>2. f1 * c.full \in Nat /\ f2 * c.swa \in Nat
    BY <1>2, <1>7, <1>10, ProductGrows
  <2>3. p * (d1 + d2 + (f1 + f2)) = p * d1 + p * d2 + (p * f1 + p * f2)
    BY <1>1, <1>7, SMT
  <2>4. PadBytes(a, s) = p * (d1 + d2 + (f1 + f2))
    BY <1>6, <1>10 DEF d1, d2, f1, f2
  <2>5. PoolBytes(a, c, s) = (d1 * (x + p) + d2 * (y + p)) + (f1 * (c.full + p) + f2 * (c.swa + p))
    BY <1>4, <1>10 DEF d1, d2, f1, f2
  <2>6. SlotBytes(a, c, s) = (d1 * x + d2 * y) + (f1 * c.full + f2 * c.swa)
    BY <1>5, <1>10 DEF d1, d2, f1, f2
  <2> QED BY <1>8, <1>9, <2>1, <2>2, <2>3, <2>4, <2>5, <2>6 DEF c
<1>11. CASE ~a.hybrid
  <2>1. f3 * (c.tokens + p) = f3 * c.tokens + p * f3
    BY <1>1, <1>2, <1>7, PadsApart
  <2>2. f3 * c.tokens \in Nat
    BY <1>2, <1>7, ProductGrows
  <2>3. p * (d1 + d2 + f3) = p * d1 + p * d2 + p * f3
    BY <1>1, <1>7, SMT
  <2>4. PadBytes(a, s) = p * (d1 + d2 + f3)
    BY <1>6, <1>11 DEF d1, d2, f3
  <2>5. PoolBytes(a, c, s) = (d1 * (x + p) + d2 * (y + p)) + f3 * (c.tokens + p)
    BY <1>4, <1>11 DEF d1, d2, f3
  <2>6. SlotBytes(a, c, s) = (d1 * x + d2 * y) + f3 * c.tokens
    BY <1>5, <1>11 DEF d1, d2, f3
  <2> QED BY <1>8, <1>9, <2>1, <2>2, <2>3, <2>4, <2>5, <2>6 DEF c
<1> QED BY <1>2, <1>10, <1>11

THEOREM OverrunIsPads == Spec => []OnlyPadsOverrun
<1>1. ASSUME Booted PROVE OnlyPadsOverrun
  <2> SUFFICES ASSUME Accepted, NEW s \in StageIds(boot.args)
               PROVE  PoolBytes(boot.args, boot.config[s], s)
                        + (IF boot.args.mamba = 0 THEN 0
                           ELSE StateBytes(boot.args)
                                  + DraftStateBytes(boot.args,
                                      MaxRequestsOf(boot.args, boot.config[s].tokens)))
                        <= boot.args.rest + PadBytes(boot.args, s)
    BY DEF OnlyPadsOverrun
  <2> DEFINE a == boot.args
             slots == SlotBytes(a, Resolve(a)[s], s)
             states == IF a.mamba = 0 THEN 0
                       ELSE StateBytes(a) + DraftStateBytes(a, MaxRequestsOf(a, Resolve(a)[s].tokens))
             pads == PadBytes(a, s)
  <2>1. a \in BootArgs /\ boot.config[s] = Resolve(a)[s]
        /\ \A u \in StageIds(a) : Resolve(a)[u].ok
    BY <1>1, AcceptedResolves
  <2>2. slots + states <= a.rest
    BY <2>1, AcceptedFits
  <2>3. PoolBytes(a, Resolve(a)[s], s) = slots + pads /\ pads \in Nat
    BY <2>1, PadsOnTop
  <2>4. slots \in Int /\ a.rest \in Nat
    BY <2>1, AcceptedSizes, ArgTypes
  <2>5. states \in Int
    BY <2>1, AcceptedFits
  <2>6. boot.config[s] = Resolve(a)[s]
    BY <2>1
  <2>7. PoolBytes(a, boot.config[s], s) + states <= a.rest + pads
    <3> HIDE DEF a, slots, states, pads
    <3> QED BY <2>2, <2>3, <2>4, <2>5, <2>6
  <2>8. states = IF a.mamba = 0 THEN 0
                 ELSE StateBytes(a) + DraftStateBytes(a, MaxRequestsOf(a, boot.config[s].tokens))
    BY <2>6
  <2> HIDE DEF states
  <2> QED BY <2>7, <2>8
<1> QED BY <1>1, BootedInvariant, PTL

(***************************************************************************)
(* All stages of a pipeline hold the same tokens, as many as the user's    *)
(* limit or the tightest stage with KV leaves room for: a stage without KV *)
(* never decides.                                                          *)
(***************************************************************************)
THEOREM SharesCapacity == Spec => []StagesShareCapacity
<1>1. ASSUME Booted PROVE StagesShareCapacity
  <2> DEFINE a == boot.args
             c == boot.config[1]
             holders == {s \in StageIds(a) : a.hybrid \/ a.stages[s] > 0}
  <2> SUFFICES ASSUME Accepted
               PROVE  /\ \A s \in StageIds(a) : boot.config[s] = c
                      /\ holders # {} =>
                           \/ a.maxTotal > 0 /\ c.tokens + a.page > a.maxTotal
                           \/ \E s \in holders : ~PoolSizes(a, s, KvBudget(a)).ok
                                 \/ PoolSizes(a, s, KvBudget(a)).tokens < c.tokens + a.page
    BY DEF StagesShareCapacity
  <2>1. a \in BootArgs /\ \A u \in StageIds(a) : Resolve(a)[u].ok /\ boot.config[u] = Resolve(a)[u]
    BY <1>1, AcceptedResolves
  <2>2. c = Resolve(a)[1]
    BY <2>1, StageTypes
  <2>3. /\ \A s \in StageIds(a) : Resolve(a)[s] = Resolve(a)[1]
        /\ (\E h \in StageIds(a) : a.hybrid \/ a.stages[h] > 0) =>
             \/ a.maxTotal > 0 /\ Resolve(a)[1].tokens + a.page > a.maxTotal
             \/ \E s \in StageIds(a) :
                  /\ a.hybrid \/ a.stages[s] > 0
                  /\ PoolSizes(a, s, KvBudget(a)).tokens < Resolve(a)[1].tokens + a.page
    BY <2>1, AcceptedShares
  <2> HIDE DEF a, c
  <2> QED BY <2>1, <2>2, <2>3
<1> QED BY <1>1, BootedInvariant, PTL

(***************************************************************************)
(* Every slot number the target's allocator can hand out is one of the     *)
(* draft's pool, for either kind of draft and every storage.               *)
(***************************************************************************)
THEOREM DraftHasEverySlot == Spec => []DraftSlotsExist
<1>1. ASSUME Booted PROVE DraftSlotsExist
  <2> SUFFICES ASSUME Accepted, Speculates, NEW s \in StageIds(boot.args),
                      boot.args.hybrid /\ boot.args.spec = "eagle" => boot.args.fullLayers > 0,
                      NEW depth \in {"full", "banded"}
               PROVE  AllocatorSlots(boot.args, boot.config[s])
                        <= DraftPoolSlots(boot.args, boot.config[s], depth)
    BY DEF DraftSlotsExist
  <2> DEFINE a == boot.args
             c == boot.config[s]
  <2>1. a \in BootArgs /\ c = Resolve(a)[s] /\ \A u \in StageIds(a) : Resolve(a)[u].ok
    BY <1>1, AcceptedResolves
  <2>2. c.tokens \in Nat \ {0} /\ (a.hybrid /\ a.fullLayers > 0 => c.full = c.tokens)
    BY <2>1, AcceptedSizes
  <2>3. /\ a.hybrid \in BOOLEAN /\ a.fullLayers \in Nat
        /\ a.spec \in {"none", "eagle", "dspark"} /\ a.spec # "none"
        /\ a.hybrid /\ a.spec = "eagle" => a.fullLayers > 0
    BY <2>1, ArgTypes DEF Speculates
  <2> HIDE DEF a, c
  <2>4. AllocatorSlots(a, c) = c.tokens
    BY <2>2, <2>3 DEF AllocatorSlots
  <2>5. DraftPoolSlots(a, c, depth) = c.tokens
    BY <2>2, <2>3 DEF DraftPoolSlots, RingSlots
  <2> QED BY <2>2, <2>4, <2>5 DEF a, c
<1> QED BY <1>1, BootedInvariant, PTL

(***************************************************************************)
(* An accepted server can admit a request: its window fits the SWA pool    *)
(* and its states exist.                                                   *)
(***************************************************************************)
THEOREM AdmitsOneRequest == Spec => []OneRequestFits
<1>1. ASSUME Booted PROVE OneRequestFits
  <2> DEFINE a == boot.args
             c == boot.config[1]
             requests == MaxRequestsOf(a, c.tokens)
  <2> SUFFICES ASSUME Accepted
               PROVE  /\ a.hybrid /\ a.fullLayers > 0 /\ ~(ChunkCapApplies(a) /\ a.maxTotal > 0)
                           => a.window + a.page < c.swa
                      /\ a.mamba > 0 => /\ requests > 0
                                         /\ requests * SlotsPerRequest(a) <= MambaStates(a)
    BY DEF OneRequestFits
  <2>1. a \in BootArgs /\ \A u \in StageIds(a) : Resolve(a)[u].ok /\ boot.config[u] = Resolve(a)[u]
    BY <1>1, AcceptedResolves
  <2>2. 1 \in StageIds(a)
    BY <2>1, StageTypes
  <2>3. c = Resolve(a)[1]
    BY <2>1, <2>2
  <2>4. /\ ~Refused(a) /\ c.tokens \in Nat
        /\ a.mamba > 0 => ~(requests <= 0)
    BY <2>1, <2>2, <2>3, AcceptedSizes
  <2>5. a.hybrid /\ a.fullLayers > 0 /\ ~(ChunkCapApplies(a) /\ a.maxTotal > 0)
          => a.window + a.page < c.swa
    BY <2>1, <2>2, <2>3, AcceptedAdmits
  <2>6. ASSUME a.mamba > 0
        PROVE  requests > 0 /\ requests * SlotsPerRequest(a) <= MambaStates(a)
    BY <2>1, <2>4, <2>6, RequestsHaveStates
  <2> QED BY <2>5, <2>6
<1> QED BY <1>1, BootedInvariant, PTL

(***************************************************************************)
(* Flattened sequences.  The recursive function of FlattenSeq exists and   *)
(* is unique, by the least index at which it would fail.                   *)
(***************************************************************************)
FlatStep(A, g, i) == IF i = 1 THEN A[i] ELSE g[i - 1] \o A[i]
FlatUpTo(T, A, m) ==
  \E f \in [1 .. m -> Seq(T)] : \A i \in 1 .. m : f[i] = FlatStep(A, f, i)

LEMMA FlatExists ==
  ASSUME NEW T, NEW n \in Nat, NEW A, \A i \in 1 .. n : A[i] \in Seq(T)
  PROVE  FlatUpTo(T, A, n)
<1> DEFINE bad == {m \in 0 .. n : ~FlatUpTo(T, A, m)}
<1> SUFFICES ASSUME bad # {} PROVE FALSE
  OBVIOUS
<1>1. bad \in SUBSET Nat
  OBVIOUS
<1>2. PICK m \in bad : \A k \in bad : m <= k
  BY <1>1, Least
<1>3. FlatUpTo(T, A, 0)
  <2> DEFINE f == [i \in 1 .. 0 |-> <<>>]
  <2>1. f \in [1 .. 0 -> Seq(T)] /\ 1 .. 0 = {}
    OBVIOUS
  <2> HIDE DEF f
  <2> QED BY <2>1 DEF FlatUpTo
<1>4. m \in 0 .. n /\ m # 0
  BY <1>2, <1>3
<1>5. m \in 1 .. n /\ m - 1 \in 0 .. n /\ ~(m <= m - 1)
  BY <1>4
<1>6. FlatUpTo(T, A, m - 1)
  BY <1>2, <1>5
<1>7. PICK f \in [1 .. m - 1 -> Seq(T)] : \A i \in 1 .. m - 1 : f[i] = FlatStep(A, f, i)
  BY <1>6 DEF FlatUpTo
<1> DEFINE last == FlatStep(A, f, m)
           g == [i \in 1 .. m |-> IF i = m THEN last ELSE f[i]]
<1>8. last \in Seq(T)
  <2>1. A[m] \in Seq(T)
    BY <1>5
  <2>2. CASE m = 1 BY <2>1, <2>2 DEF FlatStep
  <2>3. CASE m # 1
    <3>1. f[m - 1] \in Seq(T)
      BY <1>5, <2>3
    <3> QED BY <2>1, <2>3, <3>1 DEF FlatStep
  <2> QED BY <2>2, <2>3
<1> HIDE DEF last
<1>9. g \in [1 .. m -> Seq(T)]
  BY <1>5, <1>8
<1>10. ASSUME NEW i \in 1 .. m PROVE g[i] = FlatStep(A, g, i)
  <2>1. i # 1 => i - 1 \in 1 .. m /\ i - 1 # m /\ g[i - 1] = f[i - 1]
    BY <1>5
  <2>2. FlatStep(A, g, i) = FlatStep(A, f, i)
    BY <2>1 DEF FlatStep
  <2>3. CASE i = m
    BY <2>2, <2>3 DEF last
  <2>4. CASE i # m
    <3>1. i \in 1 .. m - 1 /\ g[i] = f[i]
      BY <1>5, <2>4
    <3> QED BY <1>7, <2>2, <3>1
  <2> QED BY <2>3, <2>4
<1> HIDE DEF g
<1>11. FlatUpTo(T, A, m)
  BY <1>9, <1>10 DEF FlatUpTo
<1> QED BY <1>2, <1>11

LEMMA FlattenUnfolds ==
  ASSUME NEW T, NEW A \in Seq(Seq(T))
  PROVE  \E F \in [0 .. Len(A) -> Seq(T)] :
           /\ F[0] = <<>> /\ F[Len(A)] = FlattenSeq(A)
           /\ \A i \in 1 .. Len(A) : F[i] = F[i - 1] \o A[i]
<1> DEFINE n == Len(A)
<1>1. n \in Nat /\ \A i \in 1 .. n : A[i] \in Seq(T)
  OBVIOUS
<1>2. CASE n = 0
  <2>1. A = <<>> /\ FlattenSeq(A) = A
    BY <1>2 DEF FlattenSeq
  <2> DEFINE F == [i \in 0 .. 0 |-> <<>>]
  <2>2. F \in [0 .. 0 -> Seq(T)] /\ F[0] = <<>> /\ Len(A) = 0
    BY <1>2
  <2> HIDE DEF F
  <2>3. 1 .. Len(A) = {}
    BY <2>2
  <2> QED BY <2>1, <2>2, <2>3
<1>3. CASE n # 0
  <2> DEFINE Rec(g) == [i \in 1 .. Len(A) |-> IF i = 1 THEN A[i] ELSE g[i - 1] \o A[i]]
             flat == CHOOSE g : g = Rec(g)
  <2>1. FlattenSeq(A) = flat[n]
    BY <1>3 DEF FlattenSeq
  <2>2. FlatUpTo(T, A, n)
    BY <1>1, FlatExists
  <2>3. PICK f \in [1 .. n -> Seq(T)] : \A i \in 1 .. n : f[i] = FlatStep(A, f, i)
    BY <2>2 DEF FlatUpTo
  <2>4. f = Rec(f)
    BY <2>3 DEF FlatStep
  <2>5. flat = Rec(flat)
    <3> HIDE DEF Rec
    <3> QED BY <2>4
  <2> HIDE DEF flat
  <2>6. \A i \in 1 .. n : flat[i] = FlatStep(A, flat, i)
    BY <2>5 DEF FlatStep
  <2> HIDE DEF n
  <2>7. \A i \in 1 .. n : flat[i] = f[i]
    <3> DEFINE bad == {i \in 1 .. n : flat[i] # f[i]}
    <3> SUFFICES ASSUME bad # {} PROVE FALSE
      OBVIOUS
    <3>1. bad \in SUBSET Nat
      BY <1>1
    <3>2. PICK m \in bad : \A k \in bad : m <= k
      BY <3>1, Least
    <3>3. m \in 1 .. n /\ flat[m] # f[m]
      BY <3>2
    <3>4. m # 1 => m - 1 \in 1 .. n /\ ~(m <= m - 1)
      BY <1>1, <3>3
    <3>5. m # 1 => flat[m - 1] = f[m - 1]
      BY <3>2, <3>4
    <3> QED BY <2>3, <2>6, <3>3, <3>5 DEF FlatStep
  <2> DEFINE F == [i \in 0 .. n |-> IF i = 0 THEN <<>> ELSE f[i]]
  <2>8. F \in [0 .. n -> Seq(T)] /\ F[0] = <<>>
    BY <1>1
  <2>9. F[n] = FlattenSeq(A)
    BY <1>1, <1>3, <2>1, <2>7
  <2>10. ASSUME NEW i \in 1 .. n PROVE F[i] = F[i - 1] \o A[i]
    <3>1. F[i] = FlatStep(A, f, i) /\ A[i] \in Seq(T)
      BY <1>1, <2>3
    <3>2. CASE i = 1
      <4>1. F[i] = A[1]
        BY <3>1, <3>2 DEF FlatStep
      <4>2. F[i - 1] = <<>>
        BY <2>8, <3>2
      <4>3. <<>> \o A[1] = A[1]
        BY <3>1, <3>2
      <4> QED BY <3>2, <4>1, <4>2, <4>3
    <3>3. CASE i # 1
      <4>1. F[i - 1] = f[i - 1]
        BY <1>1, <3>3
      <4> QED BY <3>1, <3>3, <4>1 DEF FlatStep
    <3> QED BY <3>2, <3>3
  <2> HIDE DEF F
  <2> QED BY <2>8, <2>9, <2>10 DEF n
<1> QED BY <1>2, <1>3

LEMMA ConcatFacts ==
  ASSUME NEW T, NEW s \in Seq(T), NEW t \in Seq(T)
  PROVE  /\ s \o t \in Seq(T) /\ Len(s \o t) = Len(s) + Len(t)
         /\ \A x \in 1 .. Len(s) : (s \o t)[x] = s[x]
         /\ \A j \in 1 .. Len(t) : (s \o t)[Len(s) + j] = t[j]
OBVIOUS

(***************************************************************************)
(* Two sequences of runs with the same lengths flatten alike: the x-th     *)
(* elements of both come from the same place, and every place is reached.  *)
(***************************************************************************)
SameRuns(A, B) == Len(A) = Len(B) /\ \A b \in 1 .. Len(A) : Len(A[b]) = Len(B[b])
Parallel(A, B, f, g) ==
  /\ Len(f) = Len(g)
  /\ \A x \in 1 .. Len(f) : \E b \in 1 .. Len(A) : \E j \in 1 .. Len(A[b]) :
       f[x] = A[b][j] /\ g[x] = B[b][j]
  /\ \A b \in 1 .. Len(A) : \A j \in 1 .. Len(A[b]) : \E x \in 1 .. Len(f) :
       f[x] = A[b][j] /\ g[x] = B[b][j]

LEMMA FlattenTogether ==
  ASSUME NEW T, NEW U, NEW A \in Seq(Seq(T)), NEW B \in Seq(Seq(U)), SameRuns(A, B)
  PROVE  /\ FlattenSeq(A) \in Seq(T) /\ FlattenSeq(B) \in Seq(U)
         /\ Parallel(A, B, FlattenSeq(A), FlattenSeq(B))
<1> DEFINE n == Len(A)
<1>1. n \in Nat /\ Len(B) = n
      /\ \A b \in 1 .. n : A[b] \in Seq(T) /\ B[b] \in Seq(U) /\ Len(A[b]) = Len(B[b])
  BY DEF SameRuns
<1>2. PICK F \in [0 .. n -> Seq(T)] :
           /\ F[0] = <<>> /\ F[n] = FlattenSeq(A)
           /\ \A i \in 1 .. n : F[i] = F[i - 1] \o A[i]
  BY FlattenUnfolds
<1>3. PICK G \in [0 .. n -> Seq(U)] :
           /\ G[0] = <<>> /\ G[n] = FlattenSeq(B)
           /\ \A i \in 1 .. n : G[i] = G[i - 1] \o B[i]
  <2>1. \E G \in [0 .. Len(B) -> Seq(U)] :
           /\ G[0] = <<>> /\ G[Len(B)] = FlattenSeq(B)
           /\ \A i \in 1 .. Len(B) : G[i] = G[i - 1] \o B[i]
    BY FlattenUnfolds
  <2> HIDE DEF n
  <2> QED BY <1>1, <2>1
<1> DEFINE Same(f, g, b, j) ==
             \E x \in 1 .. Len(f) : f[x] = A[b][j] /\ g[x] = B[b][j]
           Aligned(m) ==
             /\ Len(F[m]) = Len(G[m])
             /\ \A x \in 1 .. Len(F[m]) :
                  \E b \in 1 .. n : \E j \in 1 .. Len(A[b]) :
                    F[m][x] = A[b][j] /\ G[m][x] = B[b][j]
             /\ \A b \in 1 .. m : \A j \in 1 .. Len(A[b]) : Same(F[m], G[m], b, j)
           bad == {m \in 0 .. n : ~Aligned(m)}
<1> HIDE DEF n
<1>4. Aligned(0)
  <2>1. Len(F[0]) = 0 /\ Len(G[0]) = 0 /\ 1 .. 0 = {}
    BY <1>2, <1>3
  <2> QED BY <2>1
<1>5. ASSUME NEW m \in 1 .. n, Aligned(m - 1) PROVE Aligned(m)
  <2> DEFINE f == F[m - 1]
             g == G[m - 1]
             h == F[m]
             k == G[m]
             a == A[m]
             c == B[m]
  <2>1. /\ f \in Seq(T) /\ g \in Seq(U) /\ a \in Seq(T) /\ c \in Seq(U)
        /\ h = f \o a /\ k = g \o c /\ Len(f) = Len(g) /\ Len(a) = Len(c)
    <3>1. m - 1 \in 0 .. n
      BY <1>1
    <3> QED BY <1>1, <1>2, <1>3, <1>5, <3>1
  <2>2. /\ \A x \in 1 .. Len(f) :
              \E b \in 1 .. n : \E j \in 1 .. Len(A[b]) : f[x] = A[b][j] /\ g[x] = B[b][j]
        /\ \A b \in 1 .. m - 1 : \A j \in 1 .. Len(A[b]) : Same(f, g, b, j)
    BY <1>5
  <2> HIDE DEF f, g, h, k, a, c
  <2>3. /\ Len(h) = Len(f) + Len(a) /\ Len(k) = Len(h)
        /\ \A x \in 1 .. Len(f) : h[x] = f[x] /\ k[x] = g[x]
        /\ \A j \in 1 .. Len(a) : h[Len(f) + j] = a[j] /\ k[Len(f) + j] = c[j]
    <3>1. f \in Seq(T) /\ a \in Seq(T) /\ g \in Seq(U) /\ c \in Seq(U)
      BY <2>1
    <3>2. /\ Len(f \o a) = Len(f) + Len(a)
          /\ \A x \in 1 .. Len(f) : (f \o a)[x] = f[x]
          /\ \A j \in 1 .. Len(a) : (f \o a)[Len(f) + j] = a[j]
      BY <3>1, ConcatFacts
    <3>3. /\ Len(g \o c) = Len(g) + Len(c)
          /\ \A x \in 1 .. Len(g) : (g \o c)[x] = g[x]
          /\ \A j \in 1 .. Len(c) : (g \o c)[Len(g) + j] = c[j]
      BY <3>1, ConcatFacts
    <3> QED BY <2>1, <3>2, <3>3
  <2>4. Len(f) \in Nat /\ Len(a) \in Nat
    BY <2>1
  <2>5. ASSUME NEW x \in 1 .. Len(h)
        PROVE  \E b \in 1 .. n : \E j \in 1 .. Len(A[b]) : h[x] = A[b][j] /\ k[x] = B[b][j]
    <3>1. CASE x <= Len(f)
      <4>1. x \in 1 .. Len(f)
        BY <2>3, <2>4, <3>1
      <4>2. h[x] = f[x] /\ k[x] = g[x]
        BY <2>3, <4>1
      <4> QED BY <2>2, <4>1, <4>2
    <3>2. CASE x > Len(f)
      <4>1. x - Len(f) \in 1 .. Len(a) /\ x = Len(f) + (x - Len(f))
        BY <2>3, <2>4, <3>2
      <4>2. h[x] = a[x - Len(f)] /\ k[x] = c[x - Len(f)]
        BY <2>3, <4>1
      <4>3. PICK j \in 1 .. Len(A[m]) : h[x] = A[m][j] /\ k[x] = B[m][j]
        BY <4>1, <4>2 DEF a, c
      <4> QED BY ONLY <4>3, m \in 1 .. n
    <3> QED BY <2>3, <2>4, <3>1, <3>2
  <2>6. ASSUME NEW b \in 1 .. m, NEW j \in 1 .. Len(A[b]) PROVE Same(h, k, b, j)
    <3>1. CASE b # m
      <4>1. b \in 1 .. m - 1
        BY <3>1
      <4>2. PICK x \in 1 .. Len(f) : f[x] = A[b][j] /\ g[x] = B[b][j]
        BY <2>2, <4>1
      <4>3. x \in 1 .. Len(h)
        BY <2>3, <2>4
      <4> QED BY <2>3, <4>2, <4>3
    <3>2. CASE b = m
      <4>1. Len(f) + j \in 1 .. Len(h) /\ j \in 1 .. Len(a)
        BY <2>3, <2>4, <3>2 DEF a
      <4>2. h[Len(f) + j] = A[b][j] /\ k[Len(f) + j] = B[b][j]
        BY <2>3, <4>1, <3>2 DEF a, c
      <4> QED BY <4>1, <4>2
    <3> QED BY <3>1, <3>2
  <2>7. Len(h) = Len(k)
    BY <2>3
  <2> QED BY <2>5, <2>6, <2>7 DEF h, k
<1>6. bad = {}
  <2> SUFFICES ASSUME bad # {} PROVE FALSE
    OBVIOUS
  <2> HIDE DEF Aligned
  <2>1. bad \in SUBSET Nat
    OBVIOUS
  <2>2. PICK m \in bad : \A i \in bad : m <= i
    BY <2>1, Least
  <2>3. m \in 0 .. n /\ ~Aligned(m) /\ m # 0
    BY <1>4, <2>2
  <2>4. m \in 1 .. n /\ m - 1 \in 0 .. n /\ ~(m <= m - 1)
    BY <1>1, <2>3
  <2>5. Aligned(m - 1)
    BY <2>2, <2>4
  <2> QED BY <1>5, <2>3, <2>4, <2>5
<1>7. Aligned(n)
  <2>1. n \in 0 .. n
    BY <1>1
  <2> HIDE DEF Aligned
  <2> QED BY <1>6, <2>1
<1>8. F[n] \in Seq(T) /\ G[n] \in Seq(U)
  BY <1>1
<1>9. Parallel(A, B, F[n], G[n])
  BY <1>1, <1>7 DEF Parallel, n
<1> QED BY <1>2, <1>3, <1>8, <1>9

\* Runs of one length c: the flat sequence has c elements per run.
LEMMA FlattenLength ==
  ASSUME NEW T, NEW A \in Seq(Seq(T)), NEW c \in Nat,
         \A b \in 1 .. Len(A) : Len(A[b]) = c
  PROVE  Len(FlattenSeq(A)) = Len(A) * c
<1> DEFINE n == Len(A)
<1>1. n \in Nat /\ \A b \in 1 .. n : A[b] \in Seq(T) /\ Len(A[b]) = c
  OBVIOUS
<1>2. PICK F \in [0 .. n -> Seq(T)] :
           /\ F[0] = <<>> /\ F[n] = FlattenSeq(A)
           /\ \A i \in 1 .. n : F[i] = F[i - 1] \o A[i]
  BY FlattenUnfolds
<1> HIDE DEF n
<1> DEFINE bad == {m \in 0 .. n : Len(F[m]) # m * c}
<1>3. Len(F[0]) = 0 * c
  BY <1>2
<1>4. ASSUME NEW m \in 1 .. n, Len(F[m - 1]) = (m - 1) * c PROVE Len(F[m]) = m * c
  <2>1. Len(F[m]) = Len(F[m - 1]) + c
    <3>1. F[m - 1] \in Seq(T) /\ A[m] \in Seq(T) /\ Len(A[m]) = c /\ F[m] = F[m - 1] \o A[m]
      <4>1. m - 1 \in 0 .. n
        BY <1>1
      <4> QED BY <1>1, <1>2, <4>1
    <3> DEFINE f == F[m - 1]
               a == A[m]
    <3>2. f \in Seq(T) /\ a \in Seq(T) /\ Len(a) = c /\ F[m] = f \o a
      BY <3>1
    <3> HIDE DEF f, a
    <3>3. Len(f \o a) = Len(f) + Len(a)
      BY <3>2, ConcatFacts
    <3> QED BY <3>2, <3>3 DEF f
  <2>2. (m - 1) * c + c = m * c
    OBVIOUS
  <2> QED BY <1>4, <2>1, <2>2
<1>5. bad = {}
  <2> SUFFICES ASSUME bad # {} PROVE FALSE
    OBVIOUS
  <2>1. bad \in SUBSET Nat
    OBVIOUS
  <2>2. PICK m \in bad : \A i \in bad : m <= i
    BY <2>1, Least
  <2>3. m \in 0 .. n /\ Len(F[m]) # m * c /\ m # 0
    BY <1>3, <2>2
  <2>4. m \in 1 .. n /\ m - 1 \in 0 .. n /\ ~(m <= m - 1)
    BY <1>1, <2>3
  <2>5. Len(F[m - 1]) = (m - 1) * c
    BY <2>2, <2>4
  <2> QED BY <1>4, <2>3, <2>4, <2>5
<1>6. n \in 0 .. n
  BY <1>1
<1>7. Len(F[n]) = n * c
  BY <1>5, <1>6
<1> QED BY <1>2, <1>7 DEF n

(***************************************************************************)
(* Sorted(S) lists every element of S once.                                *)
(***************************************************************************)
Rank(S, x) == Cardinality({y \in S : y < x})

LEMMA RankFacts ==
  ASSUME NEW S \in SUBSET Nat, IsFiniteSet(S), NEW x \in S
  PROVE  /\ Rank(S, x) \in 0 .. Cardinality(S) - 1
         /\ \A z \in S : x < z => Rank(S, x) < Rank(S, z)
<1> DEFINE Below(u) == {y \in S : y < u}
<1>1. ASSUME NEW u \in S PROVE IsFiniteSet(Below(u)) /\ Rank(S, u) \in Nat
  <2>1. IsFiniteSet(Below(u))
    BY FS_Subset
  <2> QED BY <2>1, FS_CardinalityType DEF Rank
<1>2. Rank(S, x) <= Cardinality(S) - 1
  <2>1. IsFiniteSet(S \ {x}) /\ Cardinality(S \ {x}) = Cardinality(S) - 1
    BY FS_RemoveElement
  <2>2. Below(x) \in SUBSET (S \ {x})
    OBVIOUS
  <2> HIDE DEF Below
  <2>3. Cardinality(Below(x)) <= Cardinality(S \ {x})
    BY <2>1, <2>2, FS_Subset
  <2> QED BY <2>1, <2>3 DEF Rank, Below
<1>3. ASSUME NEW z \in S, x < z PROVE Rank(S, x) < Rank(S, z)
  <2>1. IsFiniteSet(Below(x)) /\ x \notin Below(x)
    BY <1>1
  <2>2. /\ IsFiniteSet(Below(x) \cup {x})
        /\ Cardinality(Below(x) \cup {x}) = Cardinality(Below(x)) + 1
    <3> HIDE DEF Below
    <3> QED BY <2>1, FS_AddElement
  <2>3. Below(x) \cup {x} \in SUBSET Below(z)
    <3>1. \A y \in S : y < x => y < z
      BY <1>3
    <3> QED BY <1>3, <3>1
  <2>4. IsFiniteSet(Below(z))
    BY <1>1
  <2>5. Cardinality(Below(x) \cup {x}) <= Cardinality(Below(z))
    <3> HIDE DEF Below
    <3> QED BY <2>3, <2>4, FS_Subset
  <2>6. Rank(S, x) = Cardinality(Below(x)) /\ Rank(S, z) = Cardinality(Below(z))
    BY DEF Rank
  <2>7. Rank(S, x) \in Nat /\ Rank(S, z) \in Nat
    BY <1>1
  <2> HIDE DEF Below
  <2> QED BY <2>2, <2>5, <2>6, <2>7
<1>4. Cardinality(S) \in Nat
  BY FS_CardinalityType
<1>5. Rank(S, x) \in Nat
  BY <1>1
<1>6. Rank(S, x) \in 0 .. Cardinality(S) - 1
  BY <1>2, <1>4, <1>5
<1> QED BY <1>3, <1>6

LEMMA SortedFacts ==
  ASSUME NEW S \in SUBSET Nat, IsFiniteSet(S)
  PROVE  /\ Cardinality(S) \in Nat
         /\ Sorted(S) \in Seq(S) /\ Len(Sorted(S)) = Cardinality(S)
         /\ \A x \in S : \E i \in 1 .. Cardinality(S) : Sorted(S)[i] = x
         /\ \A i, j \in 1 .. Cardinality(S) : Sorted(S)[i] = Sorted(S)[j] => i = j
<1> DEFINE n == Cardinality(S)
           rank == [x \in S |-> Rank(S, x) + 1]
<1>1. n \in Nat
  BY FS_CardinalityType
<1>2. \A x \in S : Rank(S, x) \in 0 .. n - 1
  BY RankFacts
<1>3. \A x, z \in S : Rank(S, x) = Rank(S, z) => x = z
  <2> SUFFICES ASSUME NEW x \in S, NEW z \in S, Rank(S, x) = Rank(S, z), x # z PROVE FALSE
    OBVIOUS
  <2>1. x < z \/ z < x
    OBVIOUS
  <2>2. Rank(S, x) < Rank(S, z) \/ Rank(S, z) < Rank(S, x)
    BY <2>1, RankFacts
  <2> QED BY <1>2, <2>2
<1>4. rank \in Injection(S, 1 .. n)
  BY <1>1, <1>2, <1>3 DEF Injection, IsInjective
<1>5. IsFiniteSet(1 .. n) /\ Cardinality(1 .. n) = n
  BY <1>1, FS_Interval
<1> HIDE DEF rank
<1>6. rank \in Surjection(S, 1 .. n)
  BY <1>4, <1>5, FS_Injection
<1>7. \A i \in 1 .. n : \E x \in S : Rank(S, x) = i - 1
  <2> SUFFICES ASSUME NEW i \in 1 .. n PROVE \E x \in S : Rank(S, x) = i - 1
    OBVIOUS
  <2>1. PICK x \in S : rank[x] = i
    BY <1>6 DEF Surjection
  <2> QED BY <1>2, <2>1 DEF rank
<1>8. Sorted(S) = [i \in 1 .. n |-> CHOOSE x \in S : Rank(S, x) = i - 1]
  BY DEF Sorted, Rank
<1>9. \A i \in 1 .. n : Sorted(S)[i] \in S /\ Rank(S, Sorted(S)[i]) = i - 1
  BY <1>7, <1>8
<1>10. Sorted(S) \in [1 .. n -> S]
  BY <1>8, <1>9
<1>11. Sorted(S) \in Seq(S) /\ Len(Sorted(S)) = n
  BY <1>1, <1>10
<1>12. ASSUME NEW x \in S PROVE \E i \in 1 .. n : Sorted(S)[i] = x
  <2>1. Rank(S, x) + 1 \in 1 .. n /\ (Rank(S, x) + 1) - 1 = Rank(S, x)
    BY <1>1, <1>2
  <2> QED BY <1>3, <1>9, <2>1
<1>13. \A i, j \in 1 .. n : Sorted(S)[i] = Sorted(S)[j] => i = j
  BY <1>9
<1> QED BY <1>1, <1>11, <1>12, <1>13

\* A finite set of naturals has a largest element: one with the fewest above.
LEMMA Largest ==
  ASSUME NEW S \in SUBSET Nat, IsFiniteSet(S), S # {}
  PROVE  \E x \in S : \A y \in S : y <= x
<1> DEFINE ranks == {Rank(S, x) : x \in S}
           gaps == {Cardinality(S) - k : k \in ranks}
<1>1. Cardinality(S) \in Nat /\ \A x \in S : Rank(S, x) \in 0 .. Cardinality(S) - 1
  BY RankFacts, FS_CardinalityType
<1>2. gaps \in SUBSET Nat /\ gaps # {}
  <2>1. \A x \in S : Cardinality(S) - Rank(S, x) \in Nat
    BY <1>1
  <2> QED BY <2>1
<1>3. PICK g \in gaps : \A h \in gaps : g <= h
  BY <1>2, Least
<1>4. PICK x \in S : g = Cardinality(S) - Rank(S, x)
  OBVIOUS
<1>5. ASSUME NEW y \in S, x < y PROVE FALSE
  <2>1. Rank(S, x) < Rank(S, y)
    BY <1>5, RankFacts
  <2>2. Cardinality(S) - Rank(S, y) \in gaps
    OBVIOUS
  <2> HIDE DEF gaps
  <2> QED BY <1>1, <1>3, <1>4, <2>1, <2>2
<1> QED BY <1>5

(***************************************************************************)
(* The allocator (external): every missing position of the batch gets a    *)
(* free slot of each pool, and nothing else changes.                       *)
(***************************************************************************)
LEMMA CellsDiffer ==
  ASSUME NEW r \in Nat, NEW q \in Nat, NEW p \in Positions, NEW z \in Positions,
         r * MaxLen + p = q * MaxLen + z
  PROVE  r = q /\ p = z
<1>1. MaxLen \in Nat /\ p \in 0 .. MaxLen - 1 /\ z \in 0 .. MaxLen - 1
  BY SizesAssumption DEF Positions
<1>2. ASSUME NEW a \in Nat, NEW b \in Nat, a < b
      PROVE  a * MaxLen + MaxLen <= b * MaxLen
  <2>1. (a + 1) * MaxLen <= b * MaxLen
    BY <1>1, <1>2, ProductGrows
  <2>2. (a + 1) * MaxLen = a * MaxLen + MaxLen
    BY <1>1
  <2> QED BY <2>1, <2>2
<1>3. r * MaxLen \in Nat /\ q * MaxLen \in Nat
  BY <1>1
<1>4. ~(r < q)
  <2> SUFFICES ASSUME r < q PROVE FALSE
    OBVIOUS
  <2>1. r * MaxLen + MaxLen <= q * MaxLen
    BY <1>2
  <2> QED BY <1>1, <1>3, <2>1
<1>5. ~(q < r)
  <2> SUFFICES ASSUME q < r PROVE FALSE
    OBVIOUS
  <2>1. q * MaxLen + MaxLen <= r * MaxLen
    BY <1>2
  <2> QED BY <1>1, <1>3, <2>1
<1>6. r = q
  BY <1>4, <1>5
<1> QED BY <1>1, <1>3, <1>6

\* A row's slots are its first positions.
FirstPositions(r) ==
  \A p, z \in Positions : p < z /\ table[r][z] # 0 => table[r][p] # 0

LEMMA ReservedFacts ==
  ASSUME NEW r \in Rows, FirstPositions(r)
  PROVE  Reserved(r) \in Nat /\ \A p \in Positions : table[r][p] # 0 <=> p < Reserved(r)
<1> DEFINE held == {p \in Positions : table[r][p] # 0}
           gaps == (0 .. MaxLen) \ held
<1>1. MaxLen \in Nat /\ gaps \in SUBSET Nat /\ MaxLen \in gaps
  BY SizesAssumption DEF Positions
<1>2. PICK n \in gaps : \A k \in gaps : n <= k
  BY <1>1, Least
<1>3. n \in 0 .. MaxLen /\ n \notin held
  BY <1>2
<1>4. ASSUME NEW p \in 0 .. n - 1 PROVE p \in held
  <2>1. p \in 0 .. MaxLen /\ ~(n <= p)
    BY <1>1, <1>3
  <2> QED BY <1>2, <2>1
<1>5. ASSUME NEW p \in held PROVE p \in 0 .. n - 1
  <2>1. p \in Positions /\ p \in 0 .. MaxLen - 1 /\ table[r][p] # 0
    BY DEF Positions
  <2>2. ~(n < p)
    <3> SUFFICES ASSUME n < p PROVE FALSE
      OBVIOUS
    <3>1. n \in Positions
      BY <1>1, <1>3, <2>1 DEF Positions
    <3> QED BY <1>3, <2>1, <3>1 DEF FirstPositions
  <2>3. p # n
    BY <1>3
  <2> QED BY <1>3, <2>1, <2>2, <2>3
<1>6. held = 0 .. n - 1
  BY <1>4, <1>5
<1>7. Cardinality(0 .. n - 1) = n
  BY <1>3, FS_Interval
<1>8. Reserved(r) = Cardinality(held)
  BY DEF Reserved
<1>9. Reserved(r) = n
  BY <1>6, <1>7, <1>8
<1>10. \A p \in Positions : table[r][p] # 0 <=> p \in held
  OBVIOUS
<1> HIDE DEF held
<1> QED BY <1>3, <1>6, <1>9, <1>10 DEF Positions

Fresh(batch, upTo, r, p) == r \in batch /\ table[r][p] = 0 /\ p < upTo[r]
Missing(batch, upTo) ==
  UNION {{r * MaxLen + p : p \in Reserved(r) .. upTo[r] - 1} : r \in batch}

LEMMA MissingFacts ==
  ASSUME NEW batch \in SUBSET Rows, NEW upTo \in [Rows -> Int],
         \A r \in batch : upTo[r] <= MaxLen, \A r \in Rows : FirstPositions(r)
  PROVE  /\ Missing(batch, upTo) \in SUBSET Nat /\ IsFiniteSet(Missing(batch, upTo))
         /\ \A m \in Missing(batch, upTo) :
              \E r \in batch, p \in Positions :
                m = r * MaxLen + p /\ Fresh(batch, upTo, r, p)
         /\ \A r \in Rows, p \in Positions :
              r * MaxLen + p \in Missing(batch, upTo) <=> Fresh(batch, upTo, r, p)
<1>1. MaxLen \in Nat /\ Rows \in SUBSET Nat /\ IsFiniteSet(Rows)
  BY RowsAssumption, SizesAssumption
<1>2. ASSUME NEW m \in Missing(batch, upTo)
      PROVE  \E r \in batch, p \in Positions :
               m = r * MaxLen + p /\ Fresh(batch, upTo, r, p)
  <2>1. PICK r \in batch : m \in {r * MaxLen + p : p \in Reserved(r) .. upTo[r] - 1}
    BY DEF Missing
  <2>2. PICK p \in Reserved(r) .. upTo[r] - 1 : m = r * MaxLen + p
    BY <2>1
  <2>3. /\ Reserved(r) \in Nat /\ upTo[r] \in Int /\ upTo[r] <= MaxLen
        /\ \A z \in Positions : table[r][z] # 0 <=> z < Reserved(r)
    BY ReservedFacts
  <2>4. p \in Positions /\ ~(p < Reserved(r)) /\ p < upTo[r]
    BY <1>1, <2>2, <2>3 DEF Positions
  <2> QED BY <2>2, <2>3, <2>4 DEF Fresh
<1>3. ASSUME NEW r \in Rows, NEW p \in Positions
      PROVE  r * MaxLen + p \in Missing(batch, upTo) <=> Fresh(batch, upTo, r, p)
  <2>1. ASSUME r * MaxLen + p \in Missing(batch, upTo) PROVE Fresh(batch, upTo, r, p)
    <3>1. PICK q \in batch, z \in Positions :
            r * MaxLen + p = q * MaxLen + z /\ Fresh(batch, upTo, q, z)
      BY <1>2, <2>1
    <3>2. r = q /\ p = z
      BY <1>1, <3>1, CellsDiffer
    <3> QED BY <3>1, <3>2
  <2>2. ASSUME Fresh(batch, upTo, r, p) PROVE r * MaxLen + p \in Missing(batch, upTo)
    <3>1. r \in batch /\ ~(p < Reserved(r)) /\ p < upTo[r] /\ Reserved(r) \in Nat /\ upTo[r] \in Int
      BY <2>2, ReservedFacts DEF Fresh
    <3>2. p \in Reserved(r) .. upTo[r] - 1
      BY <3>1 DEF Positions
    <3> QED BY <3>1, <3>2 DEF Missing
  <2> QED BY <2>1, <2>2
<1> DEFINE cell == [x \in Rows \X Positions |-> x[1] * MaxLen + x[2]]
           all == {cell[x] : x \in Rows \X Positions}
<1>4. \A r \in Rows, p \in Positions : cell[<<r, p>>] = r * MaxLen + p
  OBVIOUS
<1>5. all \in SUBSET Nat
  <2>1. \A r \in Rows, p \in Positions : r * MaxLen + p \in Nat
    BY <1>1 DEF Positions
  <2> QED BY <1>4, <2>1
<1>6. IsFiniteSet(all)
  <2>1. IsFiniteSet(Positions)
    BY <1>1, FS_Interval DEF Positions
  <2>2. IsFiniteSet(Rows \X Positions)
    BY <1>1, <2>1, FS_Product
  <2>3. cell \in Surjection(Rows \X Positions, all)
    BY DEF Surjection
  <2> HIDE DEF cell, all
  <2> QED BY <2>2, <2>3, FS_Surjection
<1>7. Missing(batch, upTo) \in SUBSET all
  <2> SUFFICES ASSUME NEW m \in Missing(batch, upTo) PROVE m \in all
    OBVIOUS
  <2>1. PICK r \in batch, p \in Positions : m = r * MaxLen + p
    BY <1>2
  <2> QED BY <1>4, <2>1
<1> HIDE DEF cell, all
<1>8. Missing(batch, upTo) \in SUBSET Nat /\ IsFiniteSet(Missing(batch, upTo))
  BY <1>5, <1>6, <1>7, FS_Subset
<1> QED BY <1>2, <1>3, <1>8

\* What the allocator does for a batch.
Allotted(batch, upTo) ==
  /\ table' \in [Rows -> [Positions -> 0 .. FullSlots]]
  /\ swaOf' \in [1 .. FullSlots -> 0 .. SwaSlots]
  /\ \A r \in Rows, p \in Positions :
       IF Fresh(batch, upTo, r, p)
       THEN table'[r][p] \in FreeFull /\ swaOf'[table'[r][p]] \in FreeSwa
       ELSE table'[r][p] = table[r][p]
  /\ \A r, q \in Rows, p, z \in Positions :
       /\ Fresh(batch, upTo, r, p) /\ Fresh(batch, upTo, q, z)
       /\ \/ table'[r][p] = table'[q][z]
          \/ swaOf'[table'[r][p]] = swaOf'[table'[q][z]]
       => r = q /\ p = z
  /\ \A s \in 1 .. FullSlots : swaOf'[s] # swaOf[s] =>
       \E r \in Rows, p \in Positions :
         Fresh(batch, upTo, r, p) /\ table'[r][p] = s

LEMMA ReserveFacts ==
  ASSUME NEW batch \in SUBSET Rows, NEW upTo \in [Rows -> Int],
         \A r \in batch : upTo[r] <= MaxLen, \A r \in Rows : FirstPositions(r),
         FullSlots \in Int, SwaSlots \in Int,
         table \in [Rows -> [Positions -> 0 .. FullSlots]],
         swaOf \in [1 .. FullSlots -> 0 .. SwaSlots],
         Reserve(batch, upTo)
  PROVE  Allotted(batch, upTo)
<1> DEFINE S == Missing(batch, upTo)
           missing == Sorted(S)
           full == Sorted(FreeFull)
           swa == Sorted(FreeSwa)
           n == Cardinality(S)
           Given(r, p) == {i \in DOMAIN missing : missing[i] = r * MaxLen + p}
           NewOf(r, p) == Fresh(batch, upTo, r, p)
<1>1. Rows \in SUBSET Nat
  BY RowsAssumption
<1>2. /\ n \in Nat /\ missing \in Seq(S) /\ Len(missing) = n
      /\ \A x \in S : \E i \in 1 .. n : missing[i] = x
      /\ \A i, j \in 1 .. n : missing[i] = missing[j] => i = j
  BY MissingFacts, SortedFacts
<1>3. /\ FreeFull \in SUBSET (1 .. FullSlots) /\ FreeFull \in SUBSET Nat /\ IsFiniteSet(FreeFull)
      /\ FreeSwa \in SUBSET (1 .. SwaSlots) /\ FreeSwa \in SUBSET Nat /\ IsFiniteSet(FreeSwa)
  <2>1. IsFiniteSet(1 .. FullSlots) /\ IsFiniteSet(1 .. SwaSlots)
    BY FS_Interval
  <2>2. FreeFull \in SUBSET (1 .. FullSlots) /\ FreeSwa \in SUBSET (1 .. SwaSlots)
    BY DEF FreeFull, FreeSwa
  <2>3. IsFiniteSet(FreeFull) /\ IsFiniteSet(FreeSwa)
    BY <2>1, <2>2, FS_Subset
  <2>4. FreeFull \in SUBSET Nat
    BY <2>2
  <2>5. FreeSwa \in SUBSET Nat
    BY <2>2
  <2> QED BY <2>2, <2>3, <2>4, <2>5
<1>4. /\ full \in Seq(FreeFull) /\ Len(full) = Cardinality(FreeFull) /\ Len(full) \in Nat
      /\ \A i, j \in 1 .. Len(full) : full[i] = full[j] => i = j
  BY <1>3, SortedFacts
<1>5. /\ swa \in Seq(FreeSwa) /\ Len(swa) = Cardinality(FreeSwa) /\ Len(swa) \in Nat
      /\ \A i, j \in 1 .. Len(swa) : swa[i] = swa[j] => i = j
  BY <1>3, SortedFacts
<1>6. DOMAIN missing = 1 .. n
  BY <1>2
<1>7. /\ Len(missing) <= Len(full) /\ Len(missing) <= Len(swa)
      /\ table' = [r \in Rows |-> [p \in Positions |->
           IF Given(r, p) = {} THEN table[r][p] ELSE full[CHOOSE i \in Given(r, p) : TRUE]]]
      /\ swaOf' = [s \in 1 .. FullSlots |->
           LET hit == {i \in DOMAIN missing : full[i] = s}
           IN  IF hit = {} THEN swaOf[s] ELSE swa[CHOOSE i \in hit : TRUE]]
  BY DEF Reserve, Missing
<1> HIDE DEF missing, full, swa, n
<1>8. /\ \A i \in 1 .. n : full[i] \in FreeFull /\ swa[i] \in FreeSwa
      /\ \A i, j \in 1 .. n : full[i] = full[j] \/ swa[i] = swa[j] => i = j
  <2>1. 1 .. n \in SUBSET (1 .. Len(full)) /\ 1 .. n \in SUBSET (1 .. Len(swa))
    BY <1>2, <1>4, <1>5, <1>7
  <2>2. \A i \in 1 .. n : i \in 1 .. Len(full) /\ i \in 1 .. Len(swa)
    BY <2>1
  <2>3. \A i \in 1 .. n : full[i] \in FreeFull /\ swa[i] \in FreeSwa
    BY <1>4, <1>5, <2>2
  <2> QED BY <1>4, <1>5, <2>2, <2>3
<1>9. ASSUME NEW r \in Rows, NEW p \in Positions, NewOf(r, p)
      PROVE  \E i \in 1 .. n : missing[i] = r * MaxLen + p /\ table'[r][p] = full[i]
  <2>1. r * MaxLen + p \in S
    BY <1>9, MissingFacts
  <2>2. PICK i \in 1 .. n : missing[i] = r * MaxLen + p
    BY <1>2, <2>1
  <2>3. Given(r, p) = {i}
    BY <1>2, <1>6, <2>2
  <2>4. table'[r][p] = full[CHOOSE k \in Given(r, p) : TRUE]
    BY <1>7, <2>3
  <2>5. (CHOOSE k \in Given(r, p) : TRUE) = i
    BY <2>3
  <2> QED BY <2>2, <2>4, <2>5
<1>10. ASSUME NEW r \in Rows, NEW p \in Positions, ~NewOf(r, p)
       PROVE  table'[r][p] = table[r][p]
  <2>1. r * MaxLen + p \notin S
    BY <1>10, MissingFacts
  <2>2. \A i \in 1 .. n : missing[i] \in S
    BY <1>2
  <2>3. Given(r, p) = {}
    BY <1>6, <2>1, <2>2
  <2> QED BY <1>7, <2>3
<1>11. ASSUME NEW i \in 1 .. n PROVE swaOf'[full[i]] = swa[i]
  <2> DEFINE s == full[i]
             hit == {j \in DOMAIN missing : full[j] = s}
  <2>1. s \in 1 .. FullSlots
    BY <1>3, <1>8
  <2>2. hit = {i}
    BY <1>6, <1>8
  <2>3. swaOf'[s] = swa[CHOOSE k \in hit : TRUE]
    BY <1>7, <2>1, <2>2
  <2>4. (CHOOSE k \in hit : TRUE) = i
    BY <2>2
  <2> QED BY <2>3, <2>4
<1>12. ASSUME NEW s \in 1 .. FullSlots, swaOf'[s] # swaOf[s]
       PROVE  \E r \in Rows, p \in Positions : NewOf(r, p) /\ table'[r][p] = s
  <2>1. PICK i \in 1 .. n : full[i] = s
    BY <1>6, <1>7, <1>12
  <2>2. missing[i] \in S
    BY <1>2
  <2>3. PICK r \in batch, p \in Positions : missing[i] = r * MaxLen + p /\ NewOf(r, p)
    BY <2>2, MissingFacts
  <2>4. PICK j \in 1 .. n : missing[j] = r * MaxLen + p /\ table'[r][p] = full[j]
    BY <1>9, <2>3
  <2>5. j = i
    BY <1>2, <2>3, <2>4
  <2> QED BY <2>1, <2>3, <2>4, <2>5
<1>13. ASSUME NEW r \in Rows, NEW p \in Positions, NewOf(r, p)
       PROVE  table'[r][p] \in FreeFull /\ swaOf'[table'[r][p]] \in FreeSwa
  BY <1>8, <1>9, <1>11, <1>13
<1>14. ASSUME NEW r \in Rows, NEW q \in Rows, NEW p \in Positions, NEW z \in Positions,
              NewOf(r, p), NewOf(q, z),
              table'[r][p] = table'[q][z] \/ swaOf'[table'[r][p]] = swaOf'[table'[q][z]]
       PROVE  r = q /\ p = z
  <2>1. PICK i \in 1 .. n : missing[i] = r * MaxLen + p /\ table'[r][p] = full[i]
    BY <1>9, <1>14
  <2>2. PICK j \in 1 .. n : missing[j] = q * MaxLen + z /\ table'[q][z] = full[j]
    BY <1>9, <1>14
  <2>3. i = j
    BY <1>8, <1>11, <1>14, <2>1, <2>2
  <2>4. r \in Nat /\ q \in Nat /\ r * MaxLen + p = q * MaxLen + z
    BY <1>1, <2>1, <2>2, <2>3
  <2> QED BY <2>4, CellsDiffer
<1>15. table' \in [Rows -> [Positions -> 0 .. FullSlots]]
  <2>1. \A r \in Rows, p \in Positions : table'[r][p] \in 0 .. FullSlots
    <3> SUFFICES ASSUME NEW r \in Rows, NEW p \in Positions PROVE table'[r][p] \in 0 .. FullSlots
      OBVIOUS
    <3>1. CASE NewOf(r, p)
      <4>1. table'[r][p] \in 1 .. FullSlots
        BY <1>3, <1>13, <3>1
      <4> QED BY <4>1
    <3>2. CASE ~NewOf(r, p)
      BY <1>10, <3>2
    <3> QED BY <3>1, <3>2
  <2> DEFINE cell(r, p) == IF Given(r, p) = {} THEN table[r][p]
                           ELSE full[CHOOSE i \in Given(r, p) : TRUE]
  <2>2. table' = [r \in Rows |-> [p \in Positions |-> cell(r, p)]]
    BY <1>7
  <2> HIDE DEF cell
  <2>3. \A r \in Rows, p \in Positions : cell(r, p) \in 0 .. FullSlots
    BY <2>1, <2>2
  <2> QED BY <2>2, <2>3
<1>16. swaOf' \in [1 .. FullSlots -> 0 .. SwaSlots]
  <2> DEFINE hit(s) == {i \in DOMAIN missing : full[i] = s}
             val(s) == IF hit(s) = {} THEN swaOf[s] ELSE swa[CHOOSE i \in hit(s) : TRUE]
  <2>1. swaOf' = [s \in 1 .. FullSlots |-> val(s)]
    BY <1>7
  <2>2. ASSUME NEW s \in 1 .. FullSlots PROVE val(s) \in 0 .. SwaSlots
    <3>1. CASE hit(s) = {}
      BY <3>1
    <3>2. CASE hit(s) # {}
      <4>1. (CHOOSE i \in hit(s) : TRUE) \in 1 .. n
        BY <1>6, <3>2
      <4>2. val(s) \in 1 .. SwaSlots
        BY <1>3, <1>8, <3>2, <4>1
      <4> QED BY <4>2
    <3> QED BY <3>1, <3>2
  <2> HIDE DEF val
  <2> QED BY <2>1, <2>2
<1> QED BY <1>10, <1>12, <1>13, <1>14, <1>15, <1>16 DEF Allotted

(***************************************************************************)
(* A store writes the slots its locations name and no other.               *)
(***************************************************************************)
LEMMA StoreDomain ==
  ASSUME NEW pool, NEW locs, NEW kvs
  PROVE  DOMAIN Store(pool, locs, kvs) = DOMAIN pool
BY DEF Store

LEMMA StoreMisses ==
  ASSUME NEW pool, NEW locs, NEW n \in Nat, DOMAIN locs = 1 .. n, NEW kvs,
         NEW s \in DOMAIN pool, \A i \in 1 .. n : locs[i] # s
  PROVE  Store(pool, locs, kvs)[s] = pool[s]
<1>1. {i \in DOMAIN locs : locs[i] = s} = {}
  OBVIOUS
<1> QED BY <1>1 DEF Store

LEMMA StoreHits ==
  ASSUME NEW pool, NEW locs, NEW n \in Nat, DOMAIN locs = 1 .. n, NEW kvs,
         NEW s \in DOMAIN pool, NEW h \in 1 .. n, locs[h] = s
  PROVE  \E i \in 1 .. n : locs[i] = s /\ Store(pool, locs, kvs)[s] = Entry(kvs[i])
<1> DEFINE hits == {i \in DOMAIN locs : locs[i] = s}
           last == CHOOSE i \in hits : \A j \in hits : j <= i
<1>1. hits # {} /\ hits \in SUBSET (1 .. n)
  OBVIOUS
<1>2. hits \in SUBSET Nat /\ IsFiniteSet(hits)
  <2>1. IsFiniteSet(1 .. n)
    BY FS_Interval
  <2>2. IsFiniteSet(hits)
    BY <1>1, <2>1, FS_Subset
  <2>3. hits \in SUBSET Nat
    BY <1>1
  <2> QED BY <2>2, <2>3
<1>3. Store(pool, locs, kvs)[s] = Entry(kvs[last])
  BY <1>1 DEF Store
<1>4. \E i \in hits : \A j \in hits : j <= i
  BY <1>1, <1>2, Largest
<1>5. last \in hits
  BY <1>4
<1>6. last \in 1 .. n /\ locs[last] = s
  BY <1>5
<1> QED BY <1>3, <1>6

(***************************************************************************)
(* The store of flattened runs: location and vector of a cell stay         *)
(* together, through a translation M of the locations and with whatever    *)
(* the rows after the runs write elsewhere.                                *)
(***************************************************************************)
Names(A, M, s) == \E b \in 1 .. Len(A) : \E j \in 1 .. Len(A[b]) : M[A[b][j]] = s
Carries(f, g, M, locs, kvs, m, s) ==
  /\ DOMAIN locs = 1 .. m
  /\ Len(f) <= m
  /\ \A i \in 1 .. Len(f) : locs[i] = M[f[i]] /\ kvs[i] = g[i]
  /\ \A i \in 1 .. m : i > Len(f) => locs[i] # s
Written(A, B, M, old, new, s) ==
  /\ ~Names(A, M, s) => new[s] = old[s]
  /\ Names(A, M, s) => \E b \in 1 .. Len(A) : \E j \in 1 .. Len(A[b]) :
                         M[A[b][j]] = s /\ new[s] = Entry(B[b][j])

LEMMA StoreRuns ==
  ASSUME NEW A, NEW B, NEW f, NEW g, Len(f) \in Nat, Parallel(A, B, f, g),
         NEW M, NEW locs, NEW kvs, NEW m \in Nat, NEW pool, NEW s \in DOMAIN pool,
         Carries(f, g, M, locs, kvs, m, s)
  PROVE  Written(A, B, M, pool, Store(pool, locs, kvs), s)
<1> DEFINE kept == Store(pool, locs, kvs)[s]
<1> HIDE DEF kept
<1>1. DOMAIN locs = 1 .. m /\ Len(f) <= m
  BY DEF Carries
<1>2. ASSUME NEW i \in 1 .. m, locs[i] = s
      PROVE  \E b \in 1 .. Len(A) : \E j \in 1 .. Len(A[b]) : M[A[b][j]] = s /\ kvs[i] = B[b][j]
  <2>1. i \in 1 .. Len(f)
    BY <1>2 DEF Carries
  <2>2. M[f[i]] = s /\ kvs[i] = g[i]
    BY <1>2, <2>1 DEF Carries
  <2>3. \E b \in 1 .. Len(A) : \E j \in 1 .. Len(A[b]) : f[i] = A[b][j] /\ g[i] = B[b][j]
    BY <2>1 DEF Parallel
  <2> QED BY <2>2, <2>3
<1>3. ASSUME ~Names(A, M, s) PROVE kept = pool[s]
  <2>1. \A i \in 1 .. m : locs[i] # s
    BY <1>2, <1>3 DEF Names
  <2> QED BY <1>1, <2>1, StoreMisses DEF kept
<1>4. ASSUME NEW b \in 1 .. Len(A), NEW j \in 1 .. Len(A[b]), M[A[b][j]] = s
      PROVE  \E i \in 1 .. m : locs[i] = s
  <2>1. PICK x \in 1 .. Len(f) : f[x] = A[b][j]
    BY DEF Parallel
  <2>2. x \in 1 .. m
    BY <1>1, <2>1
  <2> QED BY <1>4, <2>1, <2>2 DEF Carries
<1>5. ASSUME Names(A, M, s) PROVE \E i \in 1 .. m : locs[i] = s /\ kept = Entry(kvs[i])
  <2>1. PICK h \in 1 .. m : locs[h] = s
    BY <1>4, <1>5 DEF Names
  <2> QED BY <1>1, <2>1, StoreHits DEF kept
<1>6. ASSUME Names(A, M, s)
      PROVE  \E b \in 1 .. Len(A) : \E j \in 1 .. Len(A[b]) :
               M[A[b][j]] = s /\ kept = Entry(B[b][j])
  BY <1>2, <1>5, <1>6
<1> QED BY <1>3, <1>6 DEF kept, Written

(***************************************************************************)
(* The inductive invariant of serving.                                     *)
(***************************************************************************)
BufferSize == NumDraft * (CHOOSE g \in GraphSizes : \A h \in GraphSizes : h <= g)

ServeTypes ==
  /\ owner \in [Rows -> Nat] /\ seqLen \in [Rows -> 0 .. MaxLen] /\ served \in Nat
  /\ table \in [Rows -> [Positions -> 0 .. FullSlots]]
  /\ swaOf \in [1 .. FullSlots -> 0 .. SwaSlots]
  /\ DOMAIN target.full = 1 .. FullSlots /\ DOMAIN target.swa = 1 .. SwaSlots
  /\ DOMAIN draft = 1 .. DraftSlots
  /\ DOMAIN swaBuf = 1 .. BufferSize

\* No slot of either pool is behind two positions, and a slot of the SWA pool
\* is behind a slot some position holds.
SlotsOwnedOnce ==
  /\ \A r, q \in Rows, p, z \in Positions :
       table[r][p] # 0 /\ table[r][p] = table[q][z] => r = q /\ p = z
  /\ \A s, t \in 1 .. FullSlots : swaOf[s] # 0 /\ swaOf[s] = swaOf[t] => s = t
  /\ \A s \in 1 .. FullSlots : swaOf[s] # 0 =>
       \E r \in Rows, p \in Positions : table[r][p] = s

\* A row's slots are its first positions, its committed tokens among them, and
\* those the window may reach have a slot of the SWA pool.
RowFilled(r) ==
  /\ FirstPositions(r)
  /\ \A p \in Positions : p < seqLen[r] => table[r][p] # 0
  /\ owner[r] = 0 => seqLen[r] = 0 /\ \A p \in Positions : table[r][p] = 0
  /\ \A p \in Positions : p >= seqLen[r] - Window /\ table[r][p] # 0
       => swaOf[table[r][p]] # 0
RowsFilled == \A r \in Rows : RowFilled(r)

\* The batch in flight: different live rows, whose new tokens have slots.
InBatch(b, r) ==
  /\ owner[r] # 0
  /\ seqLen[r] + round.width[b] <= MaxLen
  /\ \A p \in Positions : p < seqLen[r] + round.width[b] => table[r][p] # 0
Flight ==
  /\ round \in [step : {"idle", "extend", "decode", "propose", "verify", "commit"},
                rows : Seq(Rows), width : Seq(Nat), commit : Seq(Nat)]
  /\ round.step = "idle" => round = Idle
  /\ Len(round.width) = Len(round.rows) /\ Len(round.commit) = Len(round.rows)
  /\ \A b \in 1 .. Len(round.rows) :
       /\ InBatch(b, round.rows[b])
       /\ round.commit[b] <= round.width[b]
       /\ round.step \in {"propose", "verify"} => round.width[b] = NumDraft
       /\ round.step = "decode" => round.width[b] = 1
  /\ \A b, c \in 1 .. Len(round.rows) : round.rows[b] = round.rows[c] => b = c
  /\ round.step = "extend" => Len(round.rows) = 1 /\ round.commit = round.width
  /\ round.step \in {"propose", "verify", "commit"} => Speculates
  /\ round.step = "decode" => ~Speculates

\* The tokens the pools must have: the committed ones, and before a commit
\* those it is about to make so.
Token(r, p) == Entry(KV(owner[r], p, "t"))
InTarget(pools, r, p) ==
  /\ Load(pools.full, table[r][p]) = Token(r, p)
  /\ p >= seqLen[r] - Window => Load(pools.swa, Translate(table[r][p])) = Token(r, p)
InDraft(pool, r, p) == Speculates => Load(pool, table[r][p]) = Token(r, p)
StoredSoFar ==
  /\ \A r \in Live, p \in Positions : p < seqLen[r] =>
       InTarget(target, r, p) /\ InDraft(draft, r, p)
  /\ round.step = "commit" =>
       \A b \in 1 .. Len(round.rows), p \in Positions :
         seqLen[round.rows[b]] <= p /\ p < seqLen[round.rows[b]] + round.commit[b]
           => InTarget(target, round.rows[b], p)

Serving ==
  Booted /\ ServeTypes /\ SlotsOwnedOnce /\ RowsFilled /\ Flight /\ StoredSoFar

(***************************************************************************)
(* The pools of a modelled server.                                         *)
(***************************************************************************)
LEMMA ModelledPools ==
  ASSUME Booted
  PROVE  /\ FullSlots \in Nat /\ SwaSlots \in Nat
         /\ Speculates => DraftSlots = FullSlots
<1> DEFINE a == boot.args
           c == boot.config[1]
<1>1. CASE ~Modelled
  BY <1>1 DEF FullSlots, SwaSlots, DraftSlots
<1>2. CASE Modelled
  <2>1. /\ Accepted /\ a.hybrid /\ c.full \in 1 .. PoolBound
        /\ Speculates => a.spec = "dspark"
    BY <1>2 DEF Modelled
  <2>2. /\ a \in BootArgs /\ 1 \in StageIds(a) /\ c = Resolve(a)[1]
        /\ \A s \in StageIds(a) : Resolve(a)[s].ok
    BY <2>1, AcceptedResolves, StageTypes
  <2>3. /\ c.swa \in Nat /\ (a.fullLayers = 0 => c.full = 0)
        /\ (a.fullLayers > 0 => c.full = c.tokens)
    BY <2>1, <2>2, AcceptedSizes
  <2>4. c.full \in Nat \ {0}
    BY <2>1, SizesAssumption
  <2>5. a.fullLayers > 0 /\ c.full = c.tokens
    BY <2>2, <2>3, <2>4, ArgTypes
  <2>6. FullSlots = c.full /\ SwaSlots = c.swa
    BY <1>2, <2>1, <2>5 DEF FullSlots, SwaSlots, AllocatorSlots
  <2>7. Speculates => DraftSlots = c.full
    BY <1>2, <2>1, <2>5 DEF DraftSlots, DraftPoolSlots
  <2> QED BY <2>3, <2>4, <2>6, <2>7
<1> QED BY <1>1, <1>2

LEMMA SameServer ==
  ASSUME boot' = boot
  PROVE  /\ FullSlots' = FullSlots /\ SwaSlots' = SwaSlots /\ DraftSlots' = DraftSlots
         /\ Speculates' = Speculates /\ Booted' = Booted
BY DEF FullSlots, SwaSlots, DraftSlots, Modelled, Accepted, Speculates, Booted

(***************************************************************************)
(* The cells of a batch: row j of request b goes to the slot of the j-th   *)
(* position after the committed ones, if it is among the first v[b], and   *)
(* to the pad slot otherwise.                                              *)
(***************************************************************************)
Runs(A, w, v) ==
  /\ Len(A) = Len(round.rows)
  /\ \A b \in 1 .. Len(A) :
       /\ Len(A[b]) = w[b] /\ v[b] \in Nat /\ w[b] \in Nat
       /\ v[b] <= w[b] /\ w[b] <= round.width[b]
       /\ \A j \in 1 .. w[b] :
            A[b][j] = IF j <= v[b]
                      THEN table[round.rows[b]][seqLen[round.rows[b]] + j - 1] ELSE 0

\* Position p of row r is the j-th new one of request b.
Cell(b, j, r, p) == round.rows[b] = r /\ p = seqLen[r] + j - 1

LEMMA CellPosition ==
  ASSUME ServeTypes, Flight, NEW A, NEW w, NEW v, Runs(A, w, v),
         NEW b \in 1 .. Len(A), NEW j \in 1 .. w[b]
  PROVE  /\ round.rows[b] \in Rows /\ b \in 1 .. Len(round.rows)
         /\ seqLen[round.rows[b]] + j - 1 \in Positions
         /\ table[round.rows[b]][seqLen[round.rows[b]] + j - 1] \in 1 .. FullSlots
<1> DEFINE r == round.rows[b]
           p == seqLen[r] + j - 1
<1>1. b \in 1 .. Len(round.rows) /\ w[b] \in Nat /\ w[b] <= round.width[b]
  BY DEF Runs
<1>2. r \in Rows /\ round.width[b] \in Nat /\ InBatch(b, r)
  BY <1>1 DEF Flight
<1>3. seqLen[r] \in Nat /\ MaxLen \in Nat
  BY <1>2, SizesAssumption DEF ServeTypes
<1>4. seqLen[r] + round.width[b] <= MaxLen
  BY <1>2 DEF InBatch
<1>5. p \in 0 .. MaxLen - 1 /\ p < seqLen[r] + round.width[b]
  <2> HIDE DEF r
  <2>1. j \in Nat /\ 1 <= j /\ j <= w[b]
    BY <1>1
  <2> QED BY <1>1, <1>2, <1>3, <1>4, <2>1
<1>6. p \in Positions
  BY <1>5 DEF Positions
<1>7. table[r][p] # 0
  BY <1>2, <1>5, <1>6 DEF InBatch
<1>8. table[r][p] \in 0 .. FullSlots
  BY <1>2, <1>6 DEF ServeTypes
<1> QED BY <1>1, <1>2, <1>6, <1>7, <1>8

\* A translation of slots that keeps the positions that have one apart.
Apart(M) ==
  /\ M[0] = 0
  /\ \A r, q \in Rows, p, z \in Positions :
       M[table[r][p]] # 0 /\ M[table[r][p]] = M[table[q][z]] => r = q /\ p = z

\* Position p of row r is among the first v[b] new ones of request b.
Covered(v, b, r, p) == round.rows[b] = r /\ seqLen[r] <= p /\ p < seqLen[r] + v[b]
Placed(v, B, r, p, old, new, s) ==
  /\ (\A b \in 1 .. Len(round.rows) : ~Covered(v, b, r, p)) => new[s] = old[s]
  /\ \A b \in 1 .. Len(round.rows) : Covered(v, b, r, p) =>
       new[s] = Entry(B[b][p - seqLen[r] + 1])

LEMMA CellWritten ==
  ASSUME ServeTypes, Flight, NEW A, NEW B, NEW w, NEW v, Runs(A, w, v), NEW M, Apart(M),
         NEW r \in Rows, NEW p \in Positions, NEW s, s = M[table[r][p]], s # 0,
         NEW old, NEW new, Written(A, B, M, old, new, s)
  PROVE  Placed(v, B, r, p, old, new, s)
<1>1. /\ Len(A) = Len(round.rows)
      /\ \A b \in 1 .. Len(A) :
           /\ Len(A[b]) = w[b] /\ v[b] \in Nat /\ w[b] \in Nat /\ v[b] <= w[b]
           /\ \A j \in 1 .. w[b] :
                A[b][j] = IF j <= v[b]
                          THEN table[round.rows[b]][seqLen[round.rows[b]] + j - 1] ELSE 0
  BY DEF Runs
<1>2. seqLen[r] \in Nat /\ p \in Nat /\ MaxLen \in Nat
  BY SizesAssumption DEF ServeTypes, Positions
<1>3. ASSUME NEW b \in 1 .. Len(A), NEW j \in 1 .. Len(A[b]), M[A[b][j]] = s
      PROVE  Covered(v, b, r, p) /\ j = p - seqLen[r] + 1
  <2> DEFINE q == round.rows[b]
             z == seqLen[q] + j - 1
  <2>1. j \in 1 .. w[b]
    BY <1>1
  <2>2. q \in Rows /\ z \in Positions
    BY <2>1, CellPosition
  <2>3. A[b][j] = IF j <= v[b] THEN table[q][z] ELSE 0
    BY <1>1, <2>1
  <2>4. j <= v[b] /\ M[table[q][z]] = s
    BY <1>3, <2>3 DEF Apart
  <2>5. r = q /\ p = z
    BY <2>2, <2>4 DEF Apart
  <2>6. seqLen[r] \in Nat /\ p = seqLen[r] + j - 1 /\ 1 <= j /\ j <= v[b] /\ v[b] \in Nat
        /\ j \in Nat /\ round.rows[b] = r
    BY <1>1, <1>2, <2>1, <2>4, <2>5
  <2> QED BY <2>6 DEF Covered
<1>4. ASSUME \A b \in 1 .. Len(round.rows) : ~Covered(v, b, r, p)
      PROVE  new[s] = old[s]
  <2>1. ~Names(A, M, s)
    BY <1>1, <1>3, <1>4 DEF Names
  <2> QED BY <2>1 DEF Written
<1>5. ASSUME NEW b \in 1 .. Len(round.rows), Covered(v, b, r, p)
      PROVE  new[s] = Entry(B[b][p - seqLen[r] + 1])
  <2> DEFINE j == p - seqLen[r] + 1
  <2>1. round.rows[b] = r /\ seqLen[r] <= p /\ p < seqLen[r] + v[b]
        /\ b \in 1 .. Len(A) /\ v[b] \in Nat /\ w[b] \in Nat /\ v[b] <= w[b]
    BY <1>1, <1>5 DEF Covered
  <2>2. j \in 1 .. w[b] /\ j <= v[b] /\ seqLen[r] + j - 1 = p
    BY <1>2, <2>1
  <2> HIDE DEF j
  <2>3. A[b][j] = table[r][p] /\ j \in 1 .. Len(A[b])
    BY <1>1, <2>1, <2>2
  <2>4. Names(A, M, s)
    BY <2>1, <2>3 DEF Names
  <2>5. \E c \in 1 .. Len(A) : \E k \in 1 .. Len(A[c]) :
          M[A[c][k]] = s /\ new[s] = Entry(B[c][k])
    BY <2>4 DEF Written
  <2>6. ASSUME NEW c \in 1 .. Len(A), NEW k \in 1 .. Len(A[c]), M[A[c][k]] = s
        PROVE  c = b /\ k = j
    <3>1. Covered(v, c, r, p) /\ k = p - seqLen[r] + 1
      BY <1>3, <2>6
    <3>2. round.rows[c] = round.rows[b]
      BY <2>1, <3>1 DEF Covered
    <3> QED BY <1>1, <3>1, <3>2 DEF Flight, j
  <2>7. new[s] = Entry(B[b][j])
    BY <2>5, <2>6
  <2> QED BY <2>7 DEF j
<1> QED BY <1>4, <1>5 DEF Placed

\* The slots of the full pool, and the slots of the SWA pool behind them.
Same == [s \in 0 .. FullSlots |-> s]
Behind == [s \in 0 .. FullSlots |-> Translate(s)]

LEMMA SlotsApart ==
  ASSUME Booted, ServeTypes, SlotsOwnedOnce
  PROVE  Apart(Same) /\ Apart(Behind)
<1>1. FullSlots \in Nat /\ SwaSlots \in Nat
  BY ModelledPools
<1>2. \A r \in Rows, p \in Positions : table[r][p] \in 0 .. FullSlots
  BY DEF ServeTypes
<1>3. Apart(Same)
  BY <1>1, <1>2 DEF Apart, Same, SlotsOwnedOnce
<1>4. \A s \in 0 .. FullSlots : Behind[s] = IF s = 0 THEN 0 ELSE swaOf[s]
  BY DEF Behind, Translate
<1>5. Behind[0] = 0
  BY <1>1, <1>4
<1>6. ASSUME NEW r \in Rows, NEW q \in Rows, NEW p \in Positions, NEW z \in Positions,
             Behind[table[r][p]] # 0, Behind[table[r][p]] = Behind[table[q][z]]
      PROVE  r = q /\ p = z
  <2> DEFINE s == table[r][p]
             t == table[q][z]
  <2>1. s \in 0 .. FullSlots /\ t \in 0 .. FullSlots
    BY <1>2
  <2>2. s # 0 /\ t # 0 /\ swaOf[s] # 0 /\ swaOf[s] = swaOf[t]
    BY <1>4, <1>6, <2>1
  <2>3. s \in 1 .. FullSlots /\ t \in 1 .. FullSlots
    BY <1>1, <2>1, <2>2
  <2>4. s = t
    BY <2>2, <2>3 DEF SlotsOwnedOnce
  <2> QED BY <2>2, <2>4 DEF SlotsOwnedOnce
<1>7. Apart(Behind)
  BY <1>5, <1>6 DEF Apart
<1> QED BY <1>3, <1>7

LEMMA IsSequence ==
  ASSUME NEW T, NEW n \in Nat, NEW f \in [1 .. n -> T]
  PROVE  f \in Seq(T) /\ Len(f) = n /\ DOMAIN f = 1 .. n
OBVIOUS

LEMMA Elements ==
  ASSUME NEW T, NEW f \in Seq(T)
  PROVE  Len(f) \in Nat /\ DOMAIN f = 1 .. Len(f) /\ \A i \in 1 .. Len(f) : f[i] \in T
OBVIOUS

\* The locations of a batch.
LEMMA LocsAreRuns ==
  ASSUME Booted, ServeTypes, Flight, NEW w,
         \A b \in 1 .. Len(round.rows) : w[b] \in Nat /\ w[b] <= round.width[b]
  PROVE  Runs(Locs2d(w), w, w) /\ Locs2d(w) \in Seq(Seq(0 .. FullSlots))
<1> DEFINE A == Locs2d(w)
           n == Len(round.rows)
<1>1. n \in Nat /\ DOMAIN round.rows = 1 .. n
  BY DEF Flight
<1>2. A = [b \in 1 .. n |-> [j \in 1 .. w[b] |-> table[round.rows[b]][seqLen[round.rows[b]] + j - 1]]]
  BY <1>1 DEF Locs2d, PrefixLens
<1> HIDE DEF A
<1>3. /\ Len(A) = n /\ DOMAIN A = 1 .. n
      /\ \A b \in 1 .. n :
           A[b] = [j \in 1 .. w[b] |-> table[round.rows[b]][seqLen[round.rows[b]] + j - 1]]
  BY <1>1, <1>2
<1>4. ASSUME NEW b \in 1 .. n PROVE Len(A[b]) = w[b]
  <2> DEFINE T == {A[b][j] : j \in 1 .. w[b]}
             f == A[b]
  <2>1. f \in [1 .. w[b] -> T] /\ w[b] \in Nat
    BY <1>3
  <2> HIDE DEF f, T
  <2>2. Len(f) = w[b]
    BY <2>1, IsSequence
  <2> QED BY <2>2 DEF f
<1>5. \A b \in 1 .. n : \A j \in 1 .. w[b] :
        A[b][j] = table[round.rows[b]][seqLen[round.rows[b]] + j - 1]
  BY <1>3
<1>6. Runs(A, w, w)
  BY <1>3, <1>4, <1>5 DEF Runs
<1>7. ASSUME NEW b \in 1 .. n PROVE A[b] \in Seq(0 .. FullSlots)
  <2>1. ASSUME NEW j \in 1 .. w[b] PROVE A[b][j] \in 0 .. FullSlots
    <3>1. table[round.rows[b]][seqLen[round.rows[b]] + j - 1] \in 1 .. FullSlots
      BY <1>3, <1>6, CellPosition
    <3> QED BY <1>5, <3>1
  <2> DEFINE f == A[b]
  <2>2. f \in [1 .. w[b] -> 0 .. FullSlots] /\ w[b] \in Nat
    BY <1>3, <2>1
  <2> HIDE DEF f
  <2>3. f \in Seq(0 .. FullSlots)
    BY <2>2, IsSequence
  <2> QED BY <2>3 DEF f
<1>8. A \in Seq(Seq(0 .. FullSlots))
  <2>1. A \in [1 .. n -> Seq(0 .. FullSlots)]
    BY <1>2, <1>3, <1>7
  <2> QED BY <1>1, <2>1, IsSequence
<1> QED BY <1>6, <1>8 DEF A

\* The new KV vectors of a batch, before they are flattened.
KvRows(w, tok) ==
  [b \in DOMAIN round.rows |->
    [j \in 1 .. w[b] |-> KV(owner[round.rows[b]], PrefixLens[b] + j - 1, tok[b][j])]]

LEMMA KvRowsFacts ==
  ASSUME ServeTypes, Flight, NEW w, NEW tok,
         \A b \in 1 .. Len(round.rows) : w[b] \in Nat
  PROVE  /\ \E U : KvRows(w, tok) \in Seq(Seq(U))
         /\ Len(KvRows(w, tok)) = Len(round.rows)
         /\ \A b \in 1 .. Len(round.rows) :
              /\ Len(KvRows(w, tok)[b]) = w[b]
              /\ \A j \in 1 .. w[b] : KvRows(w, tok)[b][j] =
                   KV(owner[round.rows[b]], seqLen[round.rows[b]] + j - 1, tok[b][j])
<1> DEFINE B == KvRows(w, tok)
           n == Len(round.rows)
           row(b) == [j \in 1 .. w[b] |->
                        KV(owner[round.rows[b]], seqLen[round.rows[b]] + j - 1, tok[b][j])]
           U == {B[b][j] : b \in 1 .. n, j \in Nat}
<1>1. n \in Nat /\ DOMAIN round.rows = 1 .. n
  BY DEF Flight
<1>2. B = [b \in 1 .. n |-> row(b)]
  BY <1>1 DEF KvRows, PrefixLens
<1> HIDE DEF B
<1>3. Len(B) = n /\ \A b \in 1 .. n : B[b] = row(b)
  <2> HIDE DEF row
  <2> QED BY <1>1, <1>2
<1>4. \A b \in 1 .. n : \A j \in 1 .. w[b] :
        B[b][j] = KV(owner[round.rows[b]], seqLen[round.rows[b]] + j - 1, tok[b][j])
  BY <1>3
<1>5. ASSUME NEW b \in 1 .. n PROVE row(b) \in Seq(U) /\ Len(row(b)) = w[b]
  <2> DEFINE f == row(b)
  <2>1. f = [j \in 1 .. w[b] |-> f[j]] /\ w[b] \in Nat
    OBVIOUS
  <2>2. f = B[b]
    BY <1>3
  <2> HIDE DEF f
  <2>3. \A j \in 1 .. w[b] : f[j] \in U
    BY <2>2
  <2> HIDE DEF U
  <2>4. f \in [1 .. w[b] -> U]
    BY <2>1, <2>3
  <2>5. f \in Seq(U) /\ Len(f) = w[b]
    BY <2>1, <2>4, IsSequence
  <2> QED BY <2>5 DEF f
<1>6. B \in Seq(Seq(U))
  <2> HIDE DEF row, U
  <2>1. B \in [1 .. n -> Seq(U)]
    BY <1>2, <1>5
  <2> QED BY <1>1, <2>1, IsSequence
<1>7. ASSUME NEW b \in 1 .. n PROVE Len(B[b]) = w[b]
  <2>1. B[b] = row(b)
    BY <1>3
  <2>2. Len(row(b)) = w[b]
    BY <1>5
  <2> HIDE DEF row
  <2> QED BY <2>1, <2>2
<1> QED BY <1>3, <1>4, <1>6, <1>7 DEF B

\* The vectors of the new tokens are those of their requests and positions.
OfTokens(B, w, tok) ==
  \A b \in 1 .. Len(round.rows) : \A j \in 1 .. w[b] :
    B[b][j] = KV(owner[round.rows[b]], seqLen[round.rows[b]] + j - 1, tok[b][j])

LEMMA KvRowsTokens ==
  ASSUME ServeTypes, Flight, NEW w, NEW tok,
         \A b \in 1 .. Len(round.rows) : w[b] \in Nat
  PROVE  OfTokens(KvRows(w, tok), w, tok)
<1> DEFINE B == KvRows(w, tok)
<1>1. \A b \in 1 .. Len(round.rows) : \A j \in 1 .. w[b] :
        B[b][j] = KV(owner[round.rows[b]], seqLen[round.rows[b]] + j - 1, tok[b][j])
  BY KvRowsFacts
<1> HIDE DEF B
<1>2. OfTokens(B, w, tok)
  BY <1>1 DEF OfTokens
<1> QED BY <1>2 DEF B

\* What a forward does to slot s of a pool that has position p of row r.
Updated(v, tok, r, p, old, new, s) ==
  /\ (\A b \in 1 .. Len(round.rows) : ~Covered(v, b, r, p)) => new[s] = old[s]
  /\ \A b \in 1 .. Len(round.rows) : Covered(v, b, r, p) =>
       new[s] = Entry(KV(owner[r], p, tok[b][p - seqLen[r] + 1]))

LEMMA RunsTogether ==
  ASSUME ServeTypes, Flight, NEW T, NEW A \in Seq(Seq(T)), NEW w, NEW v, Runs(A, w, v), NEW tok
  PROVE  /\ FlattenSeq(A) \in Seq(T) /\ Len(FlattenSeq(A)) \in Nat
         /\ Len(FlattenSeq(KvRows(w, tok))) = Len(FlattenSeq(A))
         /\ Parallel(A, KvRows(w, tok), FlattenSeq(A), FlattenSeq(KvRows(w, tok)))
         /\ \E U : FlattenSeq(KvRows(w, tok)) \in Seq(U)
<1> DEFINE B == KvRows(w, tok)
<1>1. /\ Len(A) = Len(round.rows)
      /\ \A b \in 1 .. Len(A) : Len(A[b]) = w[b] /\ w[b] \in Nat
  BY DEF Runs
<1>2. \A b \in 1 .. Len(round.rows) : w[b] \in Nat
  BY <1>1
<1>3. /\ \E U : B \in Seq(Seq(U))
      /\ Len(B) = Len(round.rows)
      /\ \A b \in 1 .. Len(round.rows) : Len(B[b]) = w[b]
  BY <1>2, KvRowsFacts
<1> HIDE DEF B
<1>4. PICK U : B \in Seq(Seq(U))
  BY <1>3
<1>5. SameRuns(A, B)
  BY <1>1, <1>3 DEF SameRuns
<1>6. /\ FlattenSeq(A) \in Seq(T) /\ FlattenSeq(B) \in Seq(U)
      /\ Parallel(A, B, FlattenSeq(A), FlattenSeq(B))
  BY <1>4, <1>5, FlattenTogether
<1>7. Len(FlattenSeq(B)) = Len(FlattenSeq(A))
  BY <1>6 DEF Parallel
<1> QED BY <1>6, <1>7 DEF B

LEMMA CellUpdated ==
  ASSUME ServeTypes, Flight, NEW A, NEW w, NEW v, Runs(A, w, v), NEW tok, NEW M, Apart(M),
         NEW locs, NEW kvs, NEW m \in Nat, NEW f, NEW g, Len(f) \in Nat,
         Parallel(A, KvRows(w, tok), f, g),
         NEW r \in Rows, NEW p \in Positions, NEW pool, NEW s \in DOMAIN pool,
         s = M[table[r][p]], s # 0, Carries(f, g, M, locs, kvs, m, s)
  PROVE  Updated(v, tok, r, p, pool, Store(pool, locs, kvs), s)
<1> DEFINE B == KvRows(w, tok)
           new == Store(pool, locs, kvs)
<1> HIDE DEF B, new
<1>1. Written(A, B, M, pool, new, s)
  <2>1. Parallel(A, B, f, g)
    BY DEF B
  <2> QED BY <2>1, StoreRuns DEF new
<1>2. Placed(v, B, r, p, pool, new, s)
  BY <1>1, CellWritten
<1>3. ASSUME NEW b \in 1 .. Len(round.rows), Covered(v, b, r, p)
      PROVE  B[b][p - seqLen[r] + 1] = KV(owner[r], p, tok[b][p - seqLen[r] + 1])
  <2> DEFINE j == p - seqLen[r] + 1
  <2>1. /\ \A c \in 1 .. Len(round.rows) : w[c] \in Nat
        /\ v[b] \in Nat /\ w[b] \in Nat /\ v[b] <= w[b]
    BY DEF Runs
  <2>2. seqLen[r] \in Nat /\ p \in Nat
    BY SizesAssumption DEF ServeTypes, Positions
  <2>3. round.rows[b] = r /\ seqLen[r] <= p /\ p < seqLen[r] + v[b]
    BY <1>3 DEF Covered
  <2> DEFINE n == seqLen[r]
             k == v[b]
             l == w[b]
  <2>4. j \in 1 .. w[b] /\ seqLen[r] + j - 1 = p
    <3>1. n \in Nat /\ p \in Nat /\ k \in Nat /\ l \in Nat /\ k <= l /\ n <= p /\ p < n + k
      BY <2>1, <2>2, <2>3
    <3> HIDE DEF n, k, l
    <3>2. p - n + 1 \in 1 .. l /\ n + (p - n + 1) - 1 = p
      BY <3>1
    <3> QED BY <3>2 DEF n, l
  <2> HIDE DEF j
  <2>5. \A c \in 1 .. Len(round.rows) : \A i \in 1 .. w[c] :
          B[c][i] = KV(owner[round.rows[c]], seqLen[round.rows[c]] + i - 1, tok[c][i])
    <3>1. \A c \in 1 .. Len(round.rows) : w[c] \in Nat
      BY <2>1
    <3>2. OfTokens(B, w, tok)
      BY <3>1, KvRowsTokens DEF B
    <3> QED BY <3>2 DEF OfTokens
  <2>6. B[b][j] = KV(owner[round.rows[b]], seqLen[round.rows[b]] + j - 1, tok[b][j])
    BY <2>4, <2>5
  <2>7. B[b][j] = KV(owner[r], p, tok[b][j])
    BY <2>3, <2>4, <2>6
  <2> QED BY <2>7 DEF j
<1> QED BY <1>2, <1>3 DEF Placed, Updated, new

\* A store under the slots of the full pool: the target's and the draft's.
LEMMA FullUpdated ==
  ASSUME Booted, ServeTypes, SlotsOwnedOnce, Flight,
         NEW A \in Seq(Seq(0 .. FullSlots)), NEW w, NEW v, Runs(A, w, v), NEW tok,
         NEW pool, DOMAIN pool = 1 .. FullSlots,
         NEW r \in Rows, NEW p \in Positions, table[r][p] # 0
  PROVE  Updated(v, tok, r, p, pool,
                 Store(pool, FlattenSeq(A), FlattenSeq(KvRows(w, tok))), table[r][p])
<1> DEFINE f == FlattenSeq(A)
           g == FlattenSeq(KvRows(w, tok))
           s == table[r][p]
<1>1. /\ f \in Seq(0 .. FullSlots) /\ Len(f) \in Nat
      /\ Parallel(A, KvRows(w, tok), f, g)
  BY RunsTogether
<1>2. s \in 0 .. FullSlots /\ s # 0 /\ FullSlots \in Nat
  BY ModelledPools DEF ServeTypes
<1>3. s \in DOMAIN pool /\ s = Same[s]
  BY <1>2 DEF Same
<1> HIDE DEF f, g
<1>4. DOMAIN f = 1 .. Len(f) /\ \A i \in 1 .. Len(f) : f[i] \in 0 .. FullSlots
  BY <1>1, Elements
<1>5. Carries(f, g, Same, f, g, Len(f), s)
  BY <1>1, <1>4 DEF Carries, Same
<1>6. Apart(Same)
  BY SlotsApart
<1> QED BY <1>1, <1>2, <1>3, <1>5, <1>6, CellUpdated DEF f, g

\* A forward that runs eagerly, or the graph of g requests that replays with
\* `per` new tokens each.
Replays(g, per) ==
  g # 0 => /\ g \in GraphSizes /\ Len(round.rows) <= g /\ per \in 1 .. NumDraft
           /\ \A b \in 1 .. Len(round.rows) : round.width[b] = per

LEMMA GraphFits ==
  ASSUME Flight, NEW g \in GraphSizes, NEW per \in 1 .. NumDraft, Len(round.rows) <= g
  PROVE  /\ g * per \in Nat /\ g * per <= BufferSize /\ BufferSize \in Nat
         /\ Len(round.rows) * per <= g * per
<1> DEFINE G == CHOOSE x \in GraphSizes : \A h \in GraphSizes : h <= x
<1>1. GraphSizes \in SUBSET Nat /\ IsFiniteSet(GraphSizes) /\ NumDraft \in Nat
  BY SizesAssumption
<1>2. \E x \in GraphSizes : \A h \in GraphSizes : h <= x
  BY <1>1, Largest
<1>3. G \in GraphSizes /\ \A h \in GraphSizes : h <= G
  BY <1>2
<1> HIDE DEF G
<1>4. G \in Nat /\ g \in Nat /\ g <= G /\ per \in Nat /\ per <= NumDraft /\ Len(round.rows) \in Nat
  BY <1>1, <1>3 DEF Flight
<1>5. g * per \in Nat /\ G * NumDraft \in Nat /\ g * per <= G * NumDraft
  BY <1>1, <1>4, ProductGrows
<1>6. Len(round.rows) * per <= g * per
  BY <1>4, ProductGrows, per <= per
<1>7. G * NumDraft = NumDraft * G
  BY <1>1, <1>4, SMT
<1> QED BY <1>5, <1>6, <1>7 DEF BufferSize, G

\* Padding leaves the elements where they are.
LEMMA PadToKeeps ==
  ASSUME NEW U, NEW seq \in Seq(U), NEW m \in Nat, Len(seq) <= m, NEW fill
  PROVE  \A i \in 1 .. Len(seq) : PadTo(seq, m, fill)[i] = seq[i]
<1> DEFINE n == m - Len(seq)
           t == [i \in 1 .. n |-> fill]
           V == U \cup {fill}
<1>1. n \in Nat
  OBVIOUS
<1>2. t \in [1 .. n -> V]
  OBVIOUS
<1>3. seq \in Seq(V)
  OBVIOUS
<1>4. PadTo(seq, m, fill) = seq \o t
  BY DEF PadTo
<1> HIDE DEF n, t, V
<1>5. t \in Seq(V)
  BY <1>1, <1>2, IsSequence
<1> QED BY <1>3, <1>4, <1>5, ConcatFacts

\* The write locations of the local layers: behind those of the full ones,
\* then zeros.
SwaLocs(g, per, locs) ==
  IF g = 0 THEN [i \in DOMAIN locs |-> Translate(locs[i])]
  ELSE SubSeq(FillSwaBuf(locs), 1, g * per)

LEMMA SwaLocsFacts ==
  ASSUME Booted, ServeTypes, Flight, NEW g, NEW per, Replays(g, per),
         NEW f \in Seq(0 .. FullSlots), g # 0 => Len(f) <= g * per
  PROVE  /\ Len(SwaLocs(g, per, f)) \in Nat
         /\ DOMAIN SwaLocs(g, per, f) = 1 .. Len(SwaLocs(g, per, f))
         /\ Len(f) <= Len(SwaLocs(g, per, f))
         /\ \A i \in 1 .. Len(f) : SwaLocs(g, per, f)[i] = Behind[f[i]]
         /\ \A i \in 1 .. Len(SwaLocs(g, per, f)) : i > Len(f) => SwaLocs(g, per, f)[i] = 0
<1> DEFINE l == SwaLocs(g, per, f)
<1>1. Len(f) \in Nat /\ DOMAIN f = 1 .. Len(f) /\ \A i \in 1 .. Len(f) : f[i] \in 0 .. FullSlots
  BY Elements
<1>2. \A s \in 0 .. FullSlots : Behind[s] = Translate(s)
  BY DEF Behind
<1>3. CASE g = 0
  <2> DEFINE T == {Translate(f[i]) : i \in 1 .. Len(f)}
  <2>1. l = [i \in 1 .. Len(f) |-> Translate(f[i])]
    BY <1>1, <1>3 DEF SwaLocs
  <2>2. l \in [1 .. Len(f) -> T]
    BY <2>1
  <2> HIDE DEF l, T
  <2>3. Len(l) = Len(f) /\ DOMAIN l = 1 .. Len(f)
    BY <1>1, <2>2, IsSequence
  <2>4. \A i \in 1 .. Len(f) : l[i] = Behind[f[i]]
    BY <1>1, <1>2, <2>1
  <2> QED BY <1>1, <2>3, <2>4 DEF l
<1>4. CASE g # 0
  <2> DEFINE buf == FillSwaBuf(f)
             n == g * per
             T == {buf[i] : i \in 1 .. n}
  <2>1. n \in Nat /\ n <= BufferSize /\ BufferSize \in Nat /\ Len(f) <= n
    BY <1>4, GraphFits DEF Replays
  <2>2. buf = [i \in 1 .. BufferSize |-> IF i <= Len(f) THEN Translate(f[i]) ELSE 0]
    BY DEF FillSwaBuf, ServeTypes
  <2>3. l = SubSeq(buf, 1, n)
    BY <1>4 DEF SwaLocs
  <2> HIDE DEF l, buf, n
  <2>4. \A i \in 1 .. n : buf[i] \in T
    OBVIOUS
  <2> HIDE DEF T
  <2>5. /\ l \in Seq(T) /\ Len(l) = IF 1 <= n THEN n - 1 + 1 ELSE 0
        /\ \A i \in 1 .. n - 1 + 1 : l[i] = buf[1 + i - 1]
    BY <2>1, <2>3, <2>4, SubSeqProperties
  <2>6. Len(l) = n /\ DOMAIN l = 1 .. n
    BY <2>1, <2>5
  <2>7. ASSUME NEW i \in 1 .. n PROVE l[i] = IF i <= Len(f) THEN Translate(f[i]) ELSE 0
    <3>1. l[i] = buf[i]
      BY <2>1, <2>5
    <3>2. i \in 1 .. BufferSize
      BY <2>1
    <3> QED BY <2>2, <3>1, <3>2
  <2>8. \A i \in 1 .. Len(f) : l[i] = Behind[f[i]]
    <3> SUFFICES ASSUME NEW i \in 1 .. Len(f) PROVE l[i] = Behind[f[i]]
      OBVIOUS
    <3>1. i \in 1 .. n /\ i <= Len(f)
      BY <1>1, <2>1
    <3>2. l[i] = Translate(f[i])
      BY <2>7, <3>1
    <3> QED BY <1>1, <1>2, <3>2
  <2>9. \A i \in 1 .. n : i > Len(f) => l[i] = 0
    BY <1>1, <2>7
  <2> QED BY <2>1, <2>6, <2>8, <2>9 DEF l
<1> QED BY <1>3, <1>4

\* The store of a forward of the target, in both pools.
TargetUpdated(tok, r, p) ==
  /\ Updated(round.width, tok, r, p, target.full, target'.full, table[r][p])
  /\ swaOf[table[r][p]] # 0 =>
       Updated(round.width, tok, r, p, target.swa, target'.swa, swaOf[table[r][p]])

LEMMA TargetStored ==
  ASSUME Booted, ServeTypes, SlotsOwnedOnce, Flight, NEW g, NEW per, Replays(g, per), NEW tok,
         StoreTarget(g, per, FlattenSeq(Locs2d(round.width)), FlattenSeq(KvRows(round.width, tok)))
  PROVE  /\ DOMAIN target'.full = 1 .. FullSlots /\ DOMAIN target'.swa = 1 .. SwaSlots
         /\ DOMAIN swaBuf' = 1 .. BufferSize
         /\ \A r \in Rows, p \in Positions : table[r][p] # 0 => TargetUpdated(tok, r, p)
<1> DEFINE w == round.width
           A == Locs2d(w)
           B == KvRows(w, tok)
           f == FlattenSeq(A)
           h == FlattenSeq(B)
           l == SwaLocs(g, per, f)
           padded == PadTo(h, Len(l), NoKV)
<1>1. /\ Len(round.rows) \in Nat /\ w \in Seq(Nat) /\ Len(w) = Len(round.rows)
  BY Elements DEF Flight
<1>2. \A b \in 1 .. Len(round.rows) : w[b] \in Nat /\ w[b] <= round.width[b]
  BY <1>1
<1> HIDE DEF w
<1>3. Runs(A, w, w) /\ A \in Seq(Seq(0 .. FullSlots))
  BY <1>2, LocsAreRuns
<1>4. /\ f \in Seq(0 .. FullSlots) /\ Len(f) \in Nat
      /\ Len(h) = Len(f) /\ Parallel(A, B, f, h)
      /\ \E U : h \in Seq(U)
  BY <1>3, RunsTogether
<1>5. ASSUME g # 0 PROVE Len(f) <= g * per
  <2>1. /\ g \in GraphSizes /\ Len(round.rows) <= g /\ per \in 1 .. NumDraft
        /\ \A b \in 1 .. Len(round.rows) : w[b] = per
    BY <1>5 DEF Replays, w
  <2>2. Len(A) = Len(round.rows) /\ \A b \in 1 .. Len(A) : Len(A[b]) = per
    BY <1>3, <2>1 DEF Runs
  <2>3. per \in Nat
    BY <2>1, SizesAssumption
  <2> HIDE DEF A, f
  <2>4. Len(f) = Len(A) * per
    BY <1>3, <2>2, <2>3, FlattenLength DEF f
  <2>5. Len(round.rows) * per <= g * per
    BY <2>1, GraphFits
  <2> QED BY <2>2, <2>4, <2>5
<1>6. /\ swaBuf' = IF g = 0 THEN swaBuf ELSE FillSwaBuf(f)
      /\ target' = [full |-> Store(target.full, f, h), swa |-> Store(target.swa, l, padded)]
  BY DEF StoreTarget, SwaLocs, w
<1>7. /\ Len(l) \in Nat /\ DOMAIN l = 1 .. Len(l) /\ Len(f) <= Len(l)
      /\ \A i \in 1 .. Len(f) : l[i] = Behind[f[i]]
      /\ \A i \in 1 .. Len(l) : i > Len(f) => l[i] = 0
  BY <1>4, <1>5, SwaLocsFacts
<1>8. \A i \in 1 .. Len(f) : padded[i] = h[i]
  <2>1. PICK U : h \in Seq(U)
    BY <1>4
  <2> HIDE DEF f, h, l
  <2>2. \A i \in 1 .. Len(h) : padded[i] = h[i]
    BY <1>4, <1>7, <2>1, PadToKeeps
  <2> QED BY <1>4, <2>2
<1>9. /\ DOMAIN target'.full = 1 .. FullSlots /\ DOMAIN target'.swa = 1 .. SwaSlots
      /\ DOMAIN swaBuf' = 1 .. BufferSize
  <2>1. DOMAIN target'.full = DOMAIN target.full /\ DOMAIN target'.swa = DOMAIN target.swa
    BY <1>6, StoreDomain
  <2>2. DOMAIN swaBuf' = DOMAIN swaBuf
    BY <1>6 DEF FillSwaBuf
  <2> QED BY <2>1, <2>2 DEF ServeTypes
<1> HIDE DEF padded, l
<1>10. ASSUME NEW r \in Rows, NEW p \in Positions, table[r][p] # 0
       PROVE  Updated(w, tok, r, p, target.full, target'.full, table[r][p])
  <2>1. DOMAIN target.full = 1 .. FullSlots
    BY DEF ServeTypes
  <2>2. target'.full = Store(target.full, f, h)
    BY <1>6
  <2> QED BY <1>3, <1>10, <2>1, <2>2, FullUpdated
<1>11. ASSUME NEW r \in Rows, NEW p \in Positions, table[r][p] # 0, swaOf[table[r][p]] # 0
       PROVE  Updated(w, tok, r, p, target.swa, target'.swa, swaOf[table[r][p]])
  <2> DEFINE t == table[r][p]
             s == swaOf[t]
  <2>1. t \in 1 .. FullSlots /\ FullSlots \in Nat /\ SwaSlots \in Nat
    BY <1>11, ModelledPools DEF ServeTypes
  <2>2. s \in 1 .. SwaSlots /\ s # 0
    BY <1>11, <2>1 DEF ServeTypes
  <2>3. s \in DOMAIN target.swa
    BY <2>2 DEF ServeTypes
  <2>4. s = Behind[t]
    BY <2>1, <1>11 DEF Behind, Translate
  <2>5. target'.swa = Store(target.swa, l, padded)
    BY <1>6
  <2>6. Apart(Behind)
    BY SlotsApart
  <2> HIDE DEF s
  <2>7. Carries(f, h, Behind, l, padded, Len(l), s)
    <3> HIDE DEF f, h
    <3> QED BY <1>7, <1>8, <2>2 DEF Carries
  <2>8. Updated(w, tok, r, p, target.swa, Store(target.swa, l, padded), s)
    <3> DEFINE m == Len(l)
               pool == target.swa
    <3>1. m \in Nat /\ s \in DOMAIN pool /\ Carries(f, h, Behind, l, padded, m, s)
      BY <1>7, <2>3, <2>7
    <3> HIDE DEF m, pool, f, h, A
    <3>2. Parallel(A, KvRows(w, tok), f, h)
      BY <1>4
    <3>3. Updated(w, tok, r, p, pool, Store(pool, l, padded), s)
      BY <1>3, <1>4, <2>2, <2>4, <2>6, <3>1, <3>2, CellUpdated
    <3> QED BY <3>3 DEF pool
  <2> QED BY <2>5, <2>8 DEF s
<1> QED BY <1>9, <1>10, <1>11 DEF TargetUpdated, w

(***************************************************************************)
(* What a forward leaves in the pools.                                     *)
(***************************************************************************)
LEMMA FlightTypes ==
  ASSUME ServeTypes, Flight
  PROVE  /\ Len(round.rows) \in Nat /\ DOMAIN round.rows = 1 .. Len(round.rows)
         /\ round.rows \in Seq(Rows) /\ round.width \in Seq(Nat) /\ round.commit \in Seq(Nat)
         /\ \A b \in 1 .. Len(round.rows) :
              /\ round.rows[b] \in Rows /\ round.width[b] \in Nat /\ round.commit[b] \in Nat
              /\ seqLen[round.rows[b]] \in Nat
         /\ MaxLen \in Nat /\ Window \in Nat /\ \A p \in Positions : p \in Nat
<1>1. /\ round.rows \in Seq(Rows) /\ round.width \in Seq(Nat) /\ round.commit \in Seq(Nat)
      /\ Len(round.width) = Len(round.rows) /\ Len(round.commit) = Len(round.rows)
  BY DEF Flight
<1>2. /\ Len(round.rows) \in Nat /\ DOMAIN round.rows = 1 .. Len(round.rows)
      /\ \A b \in 1 .. Len(round.rows) :
           round.rows[b] \in Rows /\ round.width[b] \in Nat /\ round.commit[b] \in Nat
  <2> DEFINE x == round.rows
             y == round.width
             z == round.commit
  <2>1. x \in Seq(Rows) /\ y \in Seq(Nat) /\ z \in Seq(Nat) /\ Len(y) = Len(x) /\ Len(z) = Len(x)
    BY <1>1
  <2> HIDE DEF x, y, z
  <2>2. /\ Len(x) \in Nat /\ DOMAIN x = 1 .. Len(x)
        /\ \A b \in 1 .. Len(x) : x[b] \in Rows /\ y[b] \in Nat /\ z[b] \in Nat
    BY <2>1, Elements
  <2> QED BY <2>2 DEF x, y, z
<1>3. /\ MaxLen \in Nat /\ Window \in Nat /\ \A p \in Positions : p \in Nat
  BY SizesAssumption DEF Window, Positions
<1>4. \A r \in Rows : seqLen[r] \in Nat
  BY <1>3 DEF ServeTypes
<1> QED BY <1>1, <1>2, <1>3, <1>4

\* A new position of the batch has slots of both pools.
LEMMA NewPosition ==
  ASSUME Booted, ServeTypes, RowsFilled, Flight, NEW b \in 1 .. Len(round.rows),
         NEW p \in Positions, Covered(round.width, b, round.rows[b], p)
  PROVE  LET r == round.rows[b]
         IN  /\ r \in Rows /\ owner[r] # 0
             /\ table[r][p] \in 1 .. FullSlots /\ swaOf[table[r][p]] \in 1 .. SwaSlots
<1> DEFINE r == round.rows[b]
           s == table[r][p]
<1>1. r \in Rows /\ seqLen[r] \in Nat /\ Window \in Nat /\ p \in Nat
  BY FlightTypes
<1>2. InBatch(b, r) /\ seqLen[r] <= p /\ p < seqLen[r] + round.width[b]
  BY DEF Flight, Covered
<1>3. s # 0 /\ owner[r] # 0
  BY <1>2 DEF InBatch
<1>4. s \in 1 .. FullSlots
  BY <1>1, <1>3, ModelledPools DEF ServeTypes
<1>5. p >= seqLen[r] - Window
  BY <1>1, <1>2
<1>6. swaOf[s] # 0
  BY <1>1, <1>3, <1>5 DEF RowsFilled, RowFilled
<1>7. swaOf[s] \in 0 .. SwaSlots /\ SwaSlots \in Nat
  BY <1>4, ModelledPools DEF ServeTypes
<1> QED BY <1>1, <1>3, <1>4, <1>6, <1>7

\* A row of the target's forward: committed tokens stay, and the new ones the
\* forward ran as the request's own are stored.
LEMMA TargetHolds ==
  ASSUME Booted, ServeTypes, SlotsOwnedOnce, RowsFilled, Flight, StoredSoFar, NEW tok,
         \A r \in Rows, p \in Positions : table[r][p] # 0 => TargetUpdated(tok, r, p),
         DOMAIN target'.full = 1 .. FullSlots, DOMAIN target'.swa = 1 .. SwaSlots
  PROVE  /\ \A r \in Live, p \in Positions : p < seqLen[r] => InTarget(target', r, p)
         /\ \A b \in 1 .. Len(round.rows), p \in Positions :
              /\ Covered(round.width, b, round.rows[b], p)
              /\ tok[b][p - seqLen[round.rows[b]] + 1] = "t"
              => InTarget(target', round.rows[b], p)
<1>1. FullSlots \in Nat /\ SwaSlots \in Nat
  BY ModelledPools
<1>2. ASSUME NEW r \in Live, NEW p \in Positions, p < seqLen[r]
      PROVE  InTarget(target', r, p)
  <2> DEFINE s == table[r][p]
             z == swaOf[s]
  <2>1. r \in Rows
    BY DEF Live
  <2>2. s # 0
    BY <1>2, <2>1 DEF RowsFilled, RowFilled
  <2>3. s \in 1 .. FullSlots
    BY <1>1, <2>1, <2>2 DEF ServeTypes
  <2>4. TargetUpdated(tok, r, p)
    BY <2>1, <2>2
  <2>5. \A b \in 1 .. Len(round.rows) : ~Covered(round.width, b, r, p)
    <3>1. seqLen[r] \in Nat /\ p \in Nat
      BY <2>1, SizesAssumption DEF ServeTypes, Positions
    <3> QED BY <1>2, <3>1 DEF Covered
  <2>6. target'.full[s] = target.full[s]
    BY <2>4, <2>5 DEF TargetUpdated, Updated
  <2>7. InTarget(target, r, p)
    BY <1>2 DEF StoredSoFar
  <2>8. Load(target'.full, s) = Token(r, p)
    BY <2>3, <2>6, <2>7 DEF InTarget, Load, ServeTypes
  <2>9. ASSUME p >= seqLen[r] - Window
        PROVE  Load(target'.swa, Translate(s)) = Token(r, p)
    <3>1. z # 0
      BY <2>1, <2>2, <2>9 DEF RowsFilled, RowFilled
    <3>2. z \in 0 .. SwaSlots
      BY <2>3 DEF ServeTypes
    <3>3. z \in 1 .. SwaSlots /\ Translate(s) = z
      BY <1>1, <2>3, <3>1, <3>2 DEF Translate
    <3>4. target'.swa[z] = target.swa[z]
      BY <2>4, <2>5, <3>1 DEF TargetUpdated, Updated
    <3> QED BY <2>7, <2>9, <3>3, <3>4 DEF InTarget, Load, ServeTypes
  <2> QED BY <2>8, <2>9 DEF InTarget
<1>3. ASSUME NEW b \in 1 .. Len(round.rows), NEW p \in Positions,
             Covered(round.width, b, round.rows[b], p),
             tok[b][p - seqLen[round.rows[b]] + 1] = "t"
      PROVE  InTarget(target', round.rows[b], p)
  <2> DEFINE r == round.rows[b]
             s == table[r][p]
             z == swaOf[s]
  <2>1. r \in Rows /\ s \in 1 .. FullSlots /\ z \in 1 .. SwaSlots
    BY <1>3, NewPosition
  <2>2. TargetUpdated(tok, r, p) /\ s # 0 /\ z # 0
    BY <2>1
  <2>3. target'.full[s] = Token(r, p) /\ target'.swa[z] = Token(r, p)
    BY <1>3, <2>2 DEF TargetUpdated, Updated, Token
  <2>4. Translate(s) = z
    BY <2>2 DEF Translate
  <2> QED BY <2>1, <2>3, <2>4 DEF InTarget, Load
<1> QED BY <1>2, <1>3

\* A row of the draft's store, or of its masked store at a commit.
LEMMA DraftHolds ==
  ASSUME Booted, ServeTypes, SlotsOwnedOnce, RowsFilled, Flight, StoredSoFar, NEW tok,
         NEW A \in Seq(Seq(0 .. FullSlots)), NEW w, NEW v, Runs(A, w, v),
         NEW new, new = Store(draft, FlattenSeq(A), FlattenSeq(KvRows(w, tok)))
  PROVE  /\ DOMAIN new = 1 .. DraftSlots
         /\ \A r \in Live, p \in Positions : p < seqLen[r] => InDraft(new, r, p)
         /\ \A b \in 1 .. Len(round.rows), p \in Positions :
              /\ Covered(v, b, round.rows[b], p)
              /\ tok[b][p - seqLen[round.rows[b]] + 1] = "t"
              => InDraft(new, round.rows[b], p)
<1>1. DOMAIN new = 1 .. DraftSlots
  BY StoreDomain DEF ServeTypes
<1>2. CASE ~Speculates
  BY <1>1, <1>2 DEF InDraft
<1>3. CASE Speculates
  <2>1. FullSlots \in Nat /\ DOMAIN draft = 1 .. FullSlots /\ DOMAIN new = 1 .. FullSlots
    BY <1>1, <1>3, ModelledPools DEF ServeTypes
  <2>2. ASSUME NEW r \in Rows, NEW p \in Positions, table[r][p] # 0
        PROVE  Updated(v, tok, r, p, draft, new, table[r][p])
    BY <2>1, <2>2, FullUpdated
  <2>3. ASSUME NEW r \in Live, NEW p \in Positions, p < seqLen[r]
        PROVE  InDraft(new, r, p)
    <3> DEFINE s == table[r][p]
    <3>1. r \in Rows
      BY DEF Live
    <3>2. s # 0
      BY <2>3, <3>1 DEF RowsFilled, RowFilled
    <3>3. s \in 1 .. FullSlots
      BY <2>1, <3>1, <3>2 DEF ServeTypes
    <3>4. \A b \in 1 .. Len(round.rows) : ~Covered(v, b, r, p)
      <4>1. seqLen[r] \in Nat /\ p \in Nat
        BY <3>1, SizesAssumption DEF ServeTypes, Positions
      <4> QED BY <2>3, <4>1 DEF Covered
    <3>5. new[s] = draft[s]
      BY <2>2, <3>1, <3>2, <3>4 DEF Updated
    <3>6. InDraft(draft, r, p)
      BY <2>3 DEF StoredSoFar
    <3> QED BY <2>1, <3>3, <3>5, <3>6 DEF InDraft, Load
  <2>4. ASSUME NEW b \in 1 .. Len(round.rows), NEW p \in Positions,
               Covered(v, b, round.rows[b], p),
               tok[b][p - seqLen[round.rows[b]] + 1] = "t"
        PROVE  InDraft(new, round.rows[b], p)
    <3> DEFINE r == round.rows[b]
               s == table[r][p]
    <3>1. v[b] \in Nat /\ w[b] \in Nat /\ v[b] <= w[b] /\ w[b] <= round.width[b]
          /\ round.width[b] \in Nat /\ seqLen[r] \in Nat /\ p \in Nat
      BY FlightTypes DEF Runs
    <3>2. Covered(round.width, b, r, p)
      BY <2>4, <3>1 DEF Covered
    <3>3. r \in Rows /\ s \in 1 .. FullSlots
      BY <3>2, NewPosition
    <3>4. Updated(v, tok, r, p, draft, new, s)
      BY <2>2, <3>3
    <3>5. new[s] = Token(r, p)
      BY <2>4, <3>4 DEF Updated, Token
    <3> QED BY <2>1, <3>3, <3>5 DEF InDraft, Load
  <2> QED BY <1>1, <2>3, <2>4
<1> QED BY <1>2, <1>3

(***************************************************************************)
(* Lengths that grow over the batch: by v[b] tokens in the row of request  *)
(* b, which had slots for them.                                            *)
(***************************************************************************)
Grown(v) ==
  /\ UNCHANGED <<boot, owner, table, swaOf, served>>
  /\ seqLen' \in [Rows -> Int]
  /\ \A b \in 1 .. Len(round.rows) : v[b] \in Nat /\ v[b] <= round.width[b]
  /\ \A r \in Rows :
       \/ seqLen'[r] = seqLen[r]
       \/ \E b \in 1 .. Len(round.rows) : round.rows[b] = r /\ seqLen'[r] = seqLen[r] + v[b]

LEMMA GrownRows ==
  ASSUME Booted, ServeTypes, SlotsOwnedOnce, RowsFilled, Flight, NEW v, Grown(v)
  PROVE  /\ seqLen' \in [Rows -> 0 .. MaxLen]
         /\ \A r \in Rows : seqLen[r] \in Nat /\ seqLen'[r] \in Nat /\ seqLen[r] <= seqLen'[r]
         /\ SlotsOwnedOnce' /\ RowsFilled'
<1>1. ASSUME NEW r \in Rows
      PROVE  /\ seqLen[r] \in 0 .. MaxLen /\ seqLen'[r] \in 0 .. MaxLen /\ seqLen[r] <= seqLen'[r]
             /\ \A p \in Positions : p < seqLen'[r] => table[r][p] # 0
             /\ owner[r] = 0 => seqLen'[r] = seqLen[r]
  <2>1. seqLen[r] \in 0 .. MaxLen /\ MaxLen \in Nat /\ \A p \in Positions : p \in Nat
    BY FlightTypes DEF ServeTypes
  <2>2. CASE seqLen'[r] = seqLen[r]
    BY <2>1, <2>2 DEF RowsFilled, RowFilled
  <2>3. ASSUME NEW b \in 1 .. Len(round.rows), round.rows[b] = r, seqLen'[r] = seqLen[r] + v[b]
        PROVE  /\ seqLen'[r] \in 0 .. MaxLen /\ seqLen[r] <= seqLen'[r] /\ owner[r] # 0
               /\ \A p \in Positions : p < seqLen'[r] => table[r][p] # 0
    <3>1. v[b] \in Nat /\ v[b] <= round.width[b] /\ round.width[b] \in Nat
      BY FlightTypes DEF Grown
    <3>2. InBatch(b, r)
      BY <2>3 DEF Flight
    <3>3. seqLen'[r] \in 0 .. MaxLen /\ seqLen[r] <= seqLen'[r]
          /\ seqLen'[r] <= seqLen[r] + round.width[b]
      BY <2>1, <2>3, <3>1, <3>2 DEF InBatch
    <3> QED BY <2>1, <3>1, <3>2, <3>3 DEF InBatch
  <2> QED BY <2>1, <2>2, <2>3 DEF Grown
<1>2. seqLen' \in [Rows -> 0 .. MaxLen]
  BY <1>1 DEF Grown
<1>3. \A r \in Rows : seqLen[r] \in Nat /\ seqLen'[r] \in Nat /\ seqLen[r] <= seqLen'[r]
  BY <1>1
<1>4. /\ boot' = boot /\ owner' = owner /\ table' = table /\ swaOf' = swaOf
  BY DEF Grown
<1>5. FullSlots' = FullSlots
  BY <1>4, SameServer
<1>6. SlotsOwnedOnce'
  BY <1>4, <1>5 DEF SlotsOwnedOnce
<1>7. ASSUME NEW r \in Rows PROVE RowFilled(r)'
  <2>1. RowFilled(r)
    BY DEF RowsFilled
  <2>2. FirstPositions(r)'
    BY <1>4, <2>1 DEF RowFilled, FirstPositions
  <2>3. ASSUME NEW p \in Positions, p >= seqLen'[r] - Window, table[r][p] # 0
        PROVE  swaOf[table[r][p]] # 0
    <3>1. seqLen[r] \in Nat /\ seqLen'[r] \in Nat /\ seqLen[r] <= seqLen'[r] /\ p \in Nat /\ Window \in Nat
      BY <1>3, FlightTypes
    <3>2. p >= seqLen[r] - Window
      BY <2>3, <3>1
    <3> QED BY <2>1, <2>3, <3>2 DEF RowFilled
  <2> QED BY <1>1, <1>4, <2>1, <2>2, <2>3 DEF RowFilled
<1>8. RowsFilled'
  BY <1>7 DEF RowsFilled
<1> QED BY <1>2, <1>3, <1>6, <1>8

\* What is stored under the old lengths and for the new tokens is stored
\* under the new lengths.
LEMMA GrownStored ==
  ASSUME Booted, ServeTypes, SlotsOwnedOnce, RowsFilled, Flight, NEW v, Grown(v),
         \A r \in Live, p \in Positions : p < seqLen[r] =>
           InTarget(target', r, p) /\ InDraft(draft', r, p),
         \A b \in 1 .. Len(round.rows), p \in Positions : Covered(v, b, round.rows[b], p) =>
           InTarget(target', round.rows[b], p) /\ InDraft(draft', round.rows[b], p)
  PROVE  \A r \in Live', p \in Positions : p < seqLen'[r] =>
           InTarget(target, r, p)' /\ InDraft(draft, r, p)'
<1>1. /\ boot' = boot /\ owner' = owner /\ table' = table /\ swaOf' = swaOf
  BY DEF Grown
<1>2. Speculates' = Speculates
  BY <1>1, SameServer
<1>3. ASSUME NEW r \in Rows, NEW p \in Positions, InTarget(target', r, p), InDraft(draft', r, p)
      PROVE  InTarget(target, r, p)' /\ InDraft(draft, r, p)'
  <2>1. seqLen[r] \in Nat /\ seqLen'[r] \in Nat /\ seqLen[r] <= seqLen'[r] /\ p \in Nat /\ Window \in Nat
    BY GrownRows, FlightTypes
  <2>2. p >= seqLen'[r] - Window => p >= seqLen[r] - Window
    BY <2>1
  <2> QED BY <1>1, <1>2, <1>3, <2>2 DEF InTarget, InDraft, Token, Translate, Load
<1> SUFFICES ASSUME NEW r \in Live', NEW p \in Positions, p < seqLen'[r]
             PROVE  InTarget(target, r, p)' /\ InDraft(draft, r, p)'
  OBVIOUS
<1>4. r \in Rows /\ r \in Live
  BY <1>1 DEF Live
<1>5. CASE p < seqLen[r]
  BY <1>3, <1>4, <1>5
<1>6. CASE ~(p < seqLen[r])
  <2>1. seqLen[r] \in Nat /\ p \in Nat
    BY <1>4, GrownRows, FlightTypes
  <2>2. PICK b \in 1 .. Len(round.rows) : round.rows[b] = r /\ seqLen'[r] = seqLen[r] + v[b]
    BY <1>4, <1>6 DEF Grown
  <2>3. Covered(v, b, r, p)
    BY <1>6, <2>1, <2>2 DEF Covered
  <2> QED BY <1>3, <1>4, <2>2, <2>3
<1> QED BY <1>5, <1>6

\* A step over the batch that keeps the slots keeps the invariant if the
\* stores, the batch and the tokens are right after it.
LEMMA Closes ==
  ASSUME Serving, NEW v, Grown(v), Flight', StoredSoFar',
         DOMAIN target'.full = 1 .. FullSlots, DOMAIN target'.swa = 1 .. SwaSlots,
         DOMAIN draft' = 1 .. DraftSlots, DOMAIN swaBuf' = 1 .. BufferSize
  PROVE  Serving'
<1>1. /\ boot' = boot /\ owner' = owner /\ table' = table /\ swaOf' = swaOf /\ served' = served
  BY DEF Grown
<1>2. FullSlots' = FullSlots /\ SwaSlots' = SwaSlots /\ DraftSlots' = DraftSlots /\ Booted' = Booted
  BY <1>1, SameServer
<1>3. seqLen' \in [Rows -> 0 .. MaxLen] /\ SlotsOwnedOnce' /\ RowsFilled'
  BY GrownRows DEF Serving
<1>4. ServeTypes'
  BY <1>1, <1>2, <1>3 DEF ServeTypes, BufferSize, Serving
<1> QED BY <1>2, <1>3, <1>4 DEF Serving

LEMMA IdleFlight ==
  ASSUME round' = Idle
  PROVE  Flight' /\ round'.step = "idle"
<1>1. /\ round'.step = "idle" /\ round'.rows = <<>> /\ round'.width = <<>> /\ round'.commit = <<>>
      /\ Len(<<>>) = 0 /\ 1 .. 0 = {}
  BY DEF Idle
<1>2. round' \in [step : {"idle", "extend", "decode", "propose", "verify", "commit"},
                  rows : Seq(Rows), width : Seq(Nat), commit : Seq(Nat)]
  BY DEF Idle
<1> QED BY <1>1, <1>2 DEF Flight

\* After the round the lengths grow by v: everything below them is stored.
LEMMA ClosesIdle ==
  ASSUME Serving, NEW v, Grown(v), round' = Idle,
         \A r \in Live, p \in Positions : p < seqLen[r] =>
           InTarget(target', r, p) /\ InDraft(draft', r, p),
         \A b \in 1 .. Len(round.rows), p \in Positions : Covered(v, b, round.rows[b], p) =>
           InTarget(target', round.rows[b], p) /\ InDraft(draft', round.rows[b], p),
         DOMAIN target'.full = 1 .. FullSlots, DOMAIN target'.swa = 1 .. SwaSlots,
         DOMAIN draft' = 1 .. DraftSlots, DOMAIN swaBuf' = 1 .. BufferSize
  PROVE  Serving'
<1>1. Flight' /\ round'.step # "commit"
  BY IdleFlight
<1>2. \A r \in Live', p \in Positions : p < seqLen'[r] =>
        InTarget(target, r, p)' /\ InDraft(draft, r, p)'
  BY GrownStored DEF Serving
<1>3. StoredSoFar'
  BY <1>1, <1>2 DEF StoredSoFar
<1> QED BY <1>1, <1>3, Closes

\* Within a speculative round: the batch goes on to its next step, and to a
\* commit with the tokens it is about to commit in the target's pools.
LEMMA ClosesRound ==
  ASSUME Serving, Speculates, UNCHANGED <<boot, alloc>>,
         NEW step \in {"verify", "commit"}, NEW c \in Seq(Nat),
         round' = [step |-> step, rows |-> round.rows, width |-> round.width, commit |-> c],
         Len(c) = Len(round.rows), \A b \in 1 .. Len(round.rows) : c[b] <= round.width[b],
         step = "verify" => \A b \in 1 .. Len(round.rows) : round.width[b] = NumDraft,
         \A r \in Live, p \in Positions : p < seqLen[r] =>
           InTarget(target', r, p) /\ InDraft(draft', r, p),
         step = "commit" =>
           \A b \in 1 .. Len(round.rows), p \in Positions : Covered(c, b, round.rows[b], p) =>
             InTarget(target', round.rows[b], p),
         DOMAIN target'.full = 1 .. FullSlots, DOMAIN target'.swa = 1 .. SwaSlots,
         DOMAIN draft' = 1 .. DraftSlots, DOMAIN swaBuf' = 1 .. BufferSize
  PROVE  Serving'
<1> DEFINE v == [b \in 1 .. Len(round.rows) |-> 0]
<1> USE DEF Serving
<1>1. /\ boot' = boot /\ owner' = owner /\ table' = table /\ swaOf' = swaOf
      /\ served' = served /\ seqLen' = seqLen
  BY DEF alloc
<1>2. Speculates' = Speculates
  BY <1>1, SameServer
<1>3. Grown(v)
  BY <1>1, FlightTypes DEF Grown, ServeTypes
<1>4. /\ round'.step = step /\ round'.rows = round.rows /\ round'.width = round.width
      /\ round'.commit = c
  OBVIOUS
<1>5. Flight'
  <2>1. round' \in [step : {"idle", "extend", "decode", "propose", "verify", "commit"},
                    rows : Seq(Rows), width : Seq(Nat), commit : Seq(Nat)]
    BY FlightTypes
  <2>2. \A b \in 1 .. Len(round.rows) : InBatch(b, round.rows[b])'
    BY <1>1, <1>4 DEF Flight, InBatch
  <2>3. /\ Len(round.width) = Len(round.rows)
        /\ \A b, d \in 1 .. Len(round.rows) : round.rows[b] = round.rows[d] => b = d
    BY DEF Flight
  <2> QED BY <1>2, <1>4, <2>1, <2>2, <2>3 DEF Flight
<1>6. \A r \in Live', p \in Positions : p < seqLen'[r] =>
        InTarget(target, r, p)' /\ InDraft(draft, r, p)'
  <2> SUFFICES ASSUME NEW r \in Live', NEW p \in Positions, p < seqLen'[r]
               PROVE  InTarget(target, r, p)' /\ InDraft(draft, r, p)'
    OBVIOUS
  <2>1. InTarget(target', r, p) /\ InDraft(draft', r, p)
    BY <1>1 DEF Live
  <2> QED BY <1>1, <1>2, <2>1 DEF InTarget, InDraft, Token, Translate, Load
<1>7. ASSUME step = "commit", NEW b \in 1 .. Len(round.rows), NEW p \in Positions,
             seqLen[round.rows[b]] <= p, p < seqLen[round.rows[b]] + c[b]
      PROVE  InTarget(target, round.rows[b], p)'
  <2>1. InTarget(target', round.rows[b], p)
    BY <1>7 DEF Covered
  <2> QED BY <1>1, <1>4, <2>1 DEF InTarget, Token, Translate, Load
<1>8. StoredSoFar'
  <2>1. ASSUME round'.step = "commit", NEW b \in 1 .. Len(round'.rows), NEW p \in Positions,
               seqLen'[round'.rows[b]] <= p, p < seqLen'[round'.rows[b]] + round'.commit[b]
        PROVE  InTarget(target, round.rows[b], p)'
    BY <1>1, <1>4, <1>7, <2>1
  <2> QED BY <1>4, <1>6, <2>1 DEF StoredSoFar
<1> QED BY <1>3, <1>5, <1>8, Closes

(***************************************************************************)
(* The forwards keep the invariant.                                        *)
(***************************************************************************)
LEMMA GraphReplays ==
  ASSUME ServeTypes, Flight, NEW g \in GraphChoices(Len(round.rows)), NEW per \in 1 .. NumDraft,
         \A b \in 1 .. Len(round.rows) : round.width[b] = per
  PROVE  Replays(g, per)
<1>1. Len(round.rows) \in Nat /\ GraphSizes \in SUBSET Nat
  BY FlightTypes, SizesAssumption
<1>2. g # 0 => g \in GraphSizes /\ g >= Len(round.rows)
  <2> DEFINE n == Len(round.rows)
  <2> HIDE DEF n
  <2>1. g \in GraphChoices(n)
    BY DEF n
  <2>2. g # 0 => g \in GraphSizes /\ g >= n
    BY <2>1 DEF GraphChoices
  <2> QED BY <2>2 DEF n
<1>3. g # 0 => g \in GraphSizes /\ Len(round.rows) <= g
  BY <1>1, <1>2
<1> QED BY <1>3 DEF Replays

\* All tokens of a prompt chunk and of a decode are the request's own.
OwnTokens == [b \in DOMAIN round.rows |-> [j \in 1 .. round.width[b] |-> "t"]]
LEMMA OwnTokensFacts ==
  ASSUME ServeTypes, Flight
  PROVE  /\ FlattenSeq(KvRows(round.width, OwnTokens)) = NewKV(round.width, LAMBDA b, j : "t")
         /\ \A b \in 1 .. Len(round.rows), p \in Positions :
              Covered(round.width, b, round.rows[b], p)
                => OwnTokens[b][p - seqLen[round.rows[b]] + 1] = "t"
<1>1. \A b \in DOMAIN round.rows : \A j \in 1 .. round.width[b] : OwnTokens[b][j] = "t"
  BY DEF OwnTokens
<1>2. KvRows(round.width, OwnTokens) =
        [b \in DOMAIN round.rows |->
          [j \in 1 .. round.width[b] |-> KV(owner[round.rows[b]], PrefixLens[b] + j - 1, "t")]]
  BY <1>1 DEF KvRows
<1>3. FlattenSeq(KvRows(round.width, OwnTokens)) = NewKV(round.width, LAMBDA b, j : "t")
  BY <1>2 DEF NewKV
<1>4. ASSUME NEW b \in 1 .. Len(round.rows), NEW p \in Positions,
             Covered(round.width, b, round.rows[b], p)
      PROVE  OwnTokens[b][p - seqLen[round.rows[b]] + 1] = "t"
  <2>1. /\ b \in DOMAIN round.rows /\ seqLen[round.rows[b]] \in Nat /\ p \in Nat
        /\ round.width[b] \in Nat
    BY FlightTypes
  <2>2. seqLen[round.rows[b]] <= p /\ p < seqLen[round.rows[b]] + round.width[b]
    BY <1>4 DEF Covered
  <2>3. p - seqLen[round.rows[b]] + 1 \in 1 .. round.width[b]
    <3> DEFINE n == seqLen[round.rows[b]]
               w == round.width[b]
    <3>1. n \in Nat /\ w \in Nat /\ p \in Nat /\ n <= p /\ p < n + w
      BY <2>1, <2>2
    <3> HIDE DEF n, w
    <3>2. p - n + 1 \in 1 .. w
      BY <3>1
    <3> QED BY <3>2 DEF n, w
  <2> QED BY <1>1, <2>1, <2>3
<1> QED BY <1>3, <1>4

LEMMA DraftKept ==
  ASSUME Serving, draft' = draft
  PROVE  /\ DOMAIN draft' = 1 .. DraftSlots
         /\ \A r \in Live, p \in Positions : p < seqLen[r] => InDraft(draft', r, p)
BY DEF Serving, ServeTypes, StoredSoFar

LEMMA TargetKept ==
  ASSUME Serving, target' = target, swaBuf' = swaBuf
  PROVE  /\ DOMAIN target'.full = 1 .. FullSlots /\ DOMAIN target'.swa = 1 .. SwaSlots
         /\ DOMAIN swaBuf' = 1 .. BufferSize
         /\ \A r \in Live, p \in Positions : p < seqLen[r] => InTarget(target', r, p)
BY DEF Serving, ServeTypes, StoredSoFar

LEMMA ExtendStep ==
  ASSUME Serving, Extend
  PROVE  Serving'
<1> DEFINE w == round.width
<1>1. /\ Booted /\ ServeTypes /\ SlotsOwnedOnce /\ RowsFilled /\ Flight /\ StoredSoFar
  BY DEF Serving
<1>2. /\ round.step = "extend"
      /\ StoreTarget(0, 0, FlattenSeq(Locs2d(w)), NewKV(w, LAMBDA b, j : "t"))
      /\ IF Speculates
           THEN round' = [round EXCEPT !.step = "commit"] /\ UNCHANGED seqLen
           ELSE /\ round' = Idle
                /\ seqLen' = [seqLen EXCEPT ![round.rows[1]] = @ + w[1]]
      /\ UNCHANGED <<boot, owner, chunked, table, swaOf, served, draft>>
  BY DEF Extend
<1>3. Replays(0, 0) /\ StoreTarget(0, 0, FlattenSeq(Locs2d(w)), FlattenSeq(KvRows(w, OwnTokens)))
  BY <1>1, <1>2, OwnTokensFacts DEF Replays
<1>4. /\ DOMAIN target'.full = 1 .. FullSlots /\ DOMAIN target'.swa = 1 .. SwaSlots
      /\ DOMAIN swaBuf' = 1 .. BufferSize
      /\ \A r \in Rows, p \in Positions : table[r][p] # 0 => TargetUpdated(OwnTokens, r, p)
  BY <1>1, <1>3, TargetStored
<1>5. /\ \A r \in Live, p \in Positions : p < seqLen[r] => InTarget(target', r, p)
      /\ \A b \in 1 .. Len(round.rows), p \in Positions : Covered(w, b, round.rows[b], p)
           => InTarget(target', round.rows[b], p)
  BY <1>1, <1>4, TargetHolds, OwnTokensFacts
<1>6. /\ DOMAIN draft' = 1 .. DraftSlots
      /\ \A r \in Live, p \in Positions : p < seqLen[r] => InDraft(draft', r, p)
  BY <1>2, DraftKept
<1>7. Len(round.rows) = 1 /\ round.commit = w
  BY <1>1, <1>2 DEF Flight
<1>8. CASE Speculates
  <2>1. round' = [step |-> "commit", rows |-> round.rows, width |-> round.width, commit |-> w]
    BY <1>1, <1>2, <1>7, <1>8 DEF Flight
  <2>2. UNCHANGED <<boot, alloc>>
    BY <1>2, <1>8 DEF alloc
  <2>3. w \in Seq(Nat) /\ Len(w) = Len(round.rows) /\ \A b \in 1 .. Len(round.rows) : w[b] <= w[b]
    BY <1>1, FlightTypes DEF Flight
  <2> QED BY <1>4, <1>5, <1>6, <1>8, <2>1, <2>2, <2>3, ClosesRound
<1>9. CASE ~Speculates
  <2>1. round' = Idle /\ seqLen' = [seqLen EXCEPT ![round.rows[1]] = @ + w[1]]
    BY <1>2, <1>9
  <2>2. /\ round.rows[1] \in Rows /\ w[1] \in Nat /\ seqLen \in [Rows -> Int]
        /\ \A b \in 1 .. Len(round.rows) : w[b] \in Nat /\ w[b] <= round.width[b]
    BY <1>1, <1>7, FlightTypes DEF ServeTypes
  <2>3. /\ seqLen' \in [Rows -> Int]
        /\ \A r \in Rows : seqLen'[r] = IF r = round.rows[1] THEN seqLen[r] + w[1] ELSE seqLen[r]
    BY <2>1, <2>2
  <2>4. Grown(w)
    <3>1. 1 \in 1 .. Len(round.rows)
      BY <1>7
    <3>2. \A r \in Rows :
            \/ seqLen'[r] = seqLen[r]
            \/ \E b \in 1 .. Len(round.rows) : round.rows[b] = r /\ seqLen'[r] = seqLen[r] + w[b]
      BY <2>3, <3>1
    <3>3. UNCHANGED <<boot, owner, table, swaOf, served>>
      BY <1>2
    <3> HIDE DEF w
    <3> QED BY <2>2, <2>3, <3>2, <3>3 DEF Grown
  <2>5. \A b \in 1 .. Len(round.rows), p \in Positions : InDraft(draft', round.rows[b], p)
    BY <1>9 DEF InDraft
  <2> QED BY <1>4, <1>5, <1>6, <2>1, <2>4, <2>5, ClosesIdle
<1> QED BY <1>8, <1>9

LEMMA DecodeStep ==
  ASSUME Serving, Decode
  PROVE  Serving'
<1> DEFINE w == round.width
<1>1. /\ Booted /\ ServeTypes /\ SlotsOwnedOnce /\ RowsFilled /\ Flight /\ StoredSoFar
  BY DEF Serving
<1>2. PICK g \in GraphChoices(Len(round.rows)) :
        /\ round.step = "decode"
        /\ StoreTarget(g, 1, FlattenSeq(Locs2d(w)), NewKV(w, LAMBDA b, j : "t"))
        /\ round' = Idle
        /\ seqLen' = [r \in Rows |-> IF r \in ToSet(round.rows) THEN seqLen[r] + 1 ELSE seqLen[r]]
        /\ UNCHANGED <<boot, owner, chunked, table, swaOf, served, draft>>
  BY DEF Decode
<1>3. /\ ~Speculates
      /\ \A b \in 1 .. Len(round.rows) : round.width[b] = 1
      /\ 1 \in 1 .. NumDraft
  <2>1. NumDraft \in Nat \ {0, 1}
    BY SizesAssumption
  <2>2. 1 \in 1 .. NumDraft
    BY <2>1
  <2> QED BY <1>1, <1>2, <2>2 DEF Flight
<1>4. Replays(g, 1) /\ StoreTarget(g, 1, FlattenSeq(Locs2d(w)), FlattenSeq(KvRows(w, OwnTokens)))
  BY <1>1, <1>2, <1>3, OwnTokensFacts, GraphReplays
<1>5. /\ DOMAIN target'.full = 1 .. FullSlots /\ DOMAIN target'.swa = 1 .. SwaSlots
      /\ DOMAIN swaBuf' = 1 .. BufferSize
      /\ \A r \in Rows, p \in Positions : table[r][p] # 0 => TargetUpdated(OwnTokens, r, p)
  BY <1>1, <1>4, TargetStored
<1>6. /\ \A r \in Live, p \in Positions : p < seqLen[r] => InTarget(target', r, p)
      /\ \A b \in 1 .. Len(round.rows), p \in Positions : Covered(w, b, round.rows[b], p)
           => InTarget(target', round.rows[b], p)
  BY <1>1, <1>5, TargetHolds, OwnTokensFacts
<1>7. /\ DOMAIN draft' = 1 .. DraftSlots
      /\ \A r \in Live, p \in Positions : p < seqLen[r] => InDraft(draft', r, p)
  BY <1>2, DraftKept
<1>8. Grown(w)
  <2>1. /\ DOMAIN round.rows = 1 .. Len(round.rows) /\ seqLen \in [Rows -> Nat]
        /\ \A b \in 1 .. Len(round.rows) : w[b] \in Nat /\ w[b] <= round.width[b]
    BY <1>1, FlightTypes DEF ServeTypes
  <2>2. seqLen' \in [Rows -> Int]
    <3>1. \A r \in Rows : (IF r \in ToSet(round.rows) THEN seqLen[r] + 1 ELSE seqLen[r]) \in Int
      BY <2>1
    <3> QED BY <1>2, <3>1
  <2>3. ASSUME NEW r \in Rows
        PROVE  \/ seqLen'[r] = seqLen[r]
               \/ \E b \in 1 .. Len(round.rows) : round.rows[b] = r /\ seqLen'[r] = seqLen[r] + w[b]
    <3>1. CASE r \notin ToSet(round.rows)
      BY <1>2, <3>1
    <3>2. CASE r \in ToSet(round.rows)
      <4>1. PICK b \in 1 .. Len(round.rows) : round.rows[b] = r
        BY <2>1, <3>2 DEF ToSet
      <4>2. seqLen'[r] = seqLen[r] + 1
        BY <1>2, <3>2
      <4> QED BY <1>3, <4>1, <4>2
    <3> QED BY <3>1, <3>2
  <2> QED BY <1>2, <2>1, <2>2, <2>3 DEF Grown
<1>9. \A b \in 1 .. Len(round.rows), p \in Positions : InDraft(draft', round.rows[b], p)
  BY <1>3 DEF InDraft
<1> QED BY <1>2, <1>5, <1>6, <1>7, <1>8, <1>9, ClosesIdle

LEMMA ProposeStep ==
  ASSUME Serving, Propose
  PROVE  Serving'
<1> DEFINE w == [b \in DOMAIN round.rows |-> NumDraft - 1]
           tok == [b \in DOMAIN round.rows |-> [j \in 1 .. w[b] |-> "d"]]
<1>1. /\ Booted /\ ServeTypes /\ SlotsOwnedOnce /\ RowsFilled /\ Flight /\ StoredSoFar
  BY DEF Serving
<1>2. /\ round.step = "propose"
      /\ draft' = Store(draft, FlattenSeq(Locs2d(w)), NewKV(w, LAMBDA b, j : "d"))
      /\ round' = [round EXCEPT !.step = "verify"]
      /\ UNCHANGED <<boot, alloc, target, swaBuf>>
  BY DEF Propose
<1>3. /\ Speculates /\ NumDraft \in Nat \ {0, 1}
      /\ \A b \in 1 .. Len(round.rows) : round.width[b] = NumDraft
  BY <1>1, <1>2, SizesAssumption DEF Flight
<1>4. DOMAIN round.rows = 1 .. Len(round.rows)
  BY <1>1, FlightTypes
<1>5. \A b \in 1 .. Len(round.rows) : w[b] \in Nat /\ w[b] <= round.width[b]
  BY <1>3, <1>4
<1>6. NewKV(w, LAMBDA b, j : "d") = FlattenSeq(KvRows(w, tok))
  <2> HIDE DEF w
  <2>1. \A b \in DOMAIN round.rows : \A j \in 1 .. w[b] : tok[b][j] = "d"
    OBVIOUS
  <2> HIDE DEF tok
  <2> QED BY <2>1 DEF NewKV, KvRows
<1> HIDE DEF w, tok
<1>7. Runs(Locs2d(w), w, w) /\ Locs2d(w) \in Seq(Seq(0 .. FullSlots))
  BY <1>1, <1>5, LocsAreRuns
<1>8. /\ DOMAIN draft' = 1 .. DraftSlots
      /\ \A r \in Live, p \in Positions : p < seqLen[r] => InDraft(draft', r, p)
  <2> DEFINE A == Locs2d(w)
             new == draft'
  <2>1. /\ A \in Seq(Seq(0 .. FullSlots)) /\ Runs(A, w, w)
        /\ new = Store(draft, FlattenSeq(A), FlattenSeq(KvRows(w, tok)))
    BY <1>2, <1>6, <1>7
  <2> HIDE DEF A, new
  <2>2. /\ DOMAIN new = 1 .. DraftSlots
        /\ \A r \in Live, p \in Positions : p < seqLen[r] => InDraft(new, r, p)
    BY <1>1, <2>1, DraftHolds
  <2> QED BY <2>2 DEF new
<1>9. /\ DOMAIN target'.full = 1 .. FullSlots /\ DOMAIN target'.swa = 1 .. SwaSlots
      /\ DOMAIN swaBuf' = 1 .. BufferSize
      /\ \A r \in Live, p \in Positions : p < seqLen[r] => InTarget(target', r, p)
  BY <1>2, TargetKept
<1>10. round' = [step |-> "verify", rows |-> round.rows, width |-> round.width,
                 commit |-> round.commit]
  BY <1>1, <1>2 DEF Flight
<1>11. /\ round.commit \in Seq(Nat) /\ Len(round.commit) = Len(round.rows)
       /\ \A b \in 1 .. Len(round.rows) : round.commit[b] <= round.width[b]
  BY <1>1, FlightTypes DEF Flight
<1>12. UNCHANGED <<boot, alloc>>
  BY <1>2
<1> QED BY <1>3, <1>8, <1>9, <1>10, <1>11, <1>12, ClosesRound

LEMMA VerifyStep ==
  ASSUME Serving, Verify
  PROVE  Serving'
<1> DEFINE w == round.width
<1>1. /\ Booted /\ ServeTypes /\ SlotsOwnedOnce /\ RowsFilled /\ Flight /\ StoredSoFar
  BY DEF Serving
<1>2. PICK g \in GraphChoices(Len(round.rows)),
           acc \in [DOMAIN round.rows -> 0 .. NumDraft - 1] :
        /\ round.step = "verify"
        /\ StoreTarget(g, NumDraft, FlattenSeq(Locs2d(w)),
                       NewKV(w, LAMBDA b, j : IF j - 1 <= acc[b] THEN "t" ELSE "d"))
        /\ round' = [round EXCEPT !.step = "commit",
                                  !.commit = [b \in DOMAIN acc |-> acc[b] + 1]]
        /\ UNCHANGED <<boot, alloc, draft>>
  BY DEF Verify
<1> DEFINE tok == [b \in DOMAIN round.rows |->
                    [j \in 1 .. w[b] |-> IF j - 1 <= acc[b] THEN "t" ELSE "d"]]
           c == [b \in DOMAIN acc |-> acc[b] + 1]
<1>3. /\ Speculates /\ NumDraft \in Nat /\ NumDraft \in 1 .. NumDraft
      /\ \A b \in 1 .. Len(round.rows) : round.width[b] = NumDraft
  <2>1. NumDraft \in Nat \ {0, 1}
    BY SizesAssumption
  <2>2. NumDraft \in 1 .. NumDraft
    BY <2>1
  <2> QED BY <1>1, <1>2, <2>1, <2>2 DEF Flight
<1>4. /\ DOMAIN round.rows = 1 .. Len(round.rows) /\ Len(round.rows) \in Nat
      /\ \A b \in 1 .. Len(round.rows) : acc[b] \in 0 .. NumDraft - 1
  BY <1>1, FlightTypes
<1>5. NewKV(w, LAMBDA b, j : IF j - 1 <= acc[b] THEN "t" ELSE "d") = FlattenSeq(KvRows(w, tok))
  <2>1. \A b \in DOMAIN round.rows : \A j \in 1 .. w[b] :
          tok[b][j] = IF j - 1 <= acc[b] THEN "t" ELSE "d"
    OBVIOUS
  <2> HIDE DEF tok
  <2> QED BY <2>1 DEF NewKV, KvRows
<1>6. Replays(g, NumDraft) /\ StoreTarget(g, NumDraft, FlattenSeq(Locs2d(w)), FlattenSeq(KvRows(w, tok)))
  BY <1>1, <1>2, <1>3, <1>5, GraphReplays
<1>7. c \in Seq(Nat) /\ Len(c) = Len(round.rows)
      /\ \A b \in 1 .. Len(round.rows) : c[b] = acc[b] + 1 /\ c[b] <= round.width[b]
  <2>1. c \in [1 .. Len(round.rows) -> Nat]
    BY <1>4
  <2>2. \A b \in 1 .. Len(round.rows) : c[b] = acc[b] + 1
    BY <1>4
  <2> HIDE DEF c
  <2> QED BY <1>3, <1>4, <2>1, <2>2, IsSequence
<1>8. ASSUME NEW b \in 1 .. Len(round.rows), NEW p \in Positions, Covered(c, b, round.rows[b], p)
      PROVE  /\ Covered(w, b, round.rows[b], p)
             /\ tok[b][p - seqLen[round.rows[b]] + 1] = "t"
  <2> DEFINE n == seqLen[round.rows[b]]
             a == acc[b]
             k == w[b]
  <2>1. n \in Nat /\ p \in Nat /\ a \in 0 .. NumDraft - 1 /\ k = NumDraft /\ NumDraft \in Nat
        /\ n <= p /\ p < n + (a + 1)
    BY <1>1, <1>3, <1>4, <1>7, <1>8, FlightTypes DEF Covered
  <2>2. tok[b] = [j \in 1 .. k |-> IF j - 1 <= a THEN "t" ELSE "d"]
    BY <1>4
  <2>3. p < n + k => Covered(w, b, round.rows[b], p)
    BY <1>8 DEF Covered
  <2> HIDE DEF n, a, k, tok
  <2>4. p - n + 1 \in 1 .. k /\ (p - n + 1) - 1 <= a /\ p < n + k
    BY <2>1
  <2> QED BY <2>2, <2>3, <2>4 DEF n
<1> HIDE DEF tok, c
<1>9. /\ DOMAIN target'.full = 1 .. FullSlots /\ DOMAIN target'.swa = 1 .. SwaSlots
      /\ DOMAIN swaBuf' = 1 .. BufferSize
      /\ \A r \in Rows, p \in Positions : table[r][p] # 0 => TargetUpdated(tok, r, p)
  BY <1>1, <1>6, TargetStored
<1>10. /\ \A r \in Live, p \in Positions : p < seqLen[r] => InTarget(target', r, p)
       /\ \A b \in 1 .. Len(round.rows), p \in Positions :
            /\ Covered(w, b, round.rows[b], p)
            /\ tok[b][p - seqLen[round.rows[b]] + 1] = "t"
            => InTarget(target', round.rows[b], p)
  BY <1>1, <1>9, TargetHolds
<1>11. \A b \in 1 .. Len(round.rows), p \in Positions : Covered(c, b, round.rows[b], p)
         => InTarget(target', round.rows[b], p)
  BY <1>8, <1>10
<1>12. /\ DOMAIN draft' = 1 .. DraftSlots
       /\ \A r \in Live, p \in Positions : p < seqLen[r] => InDraft(draft', r, p)
  BY <1>2, DraftKept
<1>13. round' = [step |-> "commit", rows |-> round.rows, width |-> round.width, commit |-> c]
  BY <1>1, <1>2 DEF Flight, c
<1>14. UNCHANGED <<boot, alloc>>
  BY <1>2
<1> QED BY <1>3, <1>7, <1>9, <1>10, <1>11, <1>12, <1>13, <1>14, ClosesRound

\* The masked locations of a commit.
Masked(locs2d, commit) ==
  [b \in DOMAIN locs2d |->
    [j \in DOMAIN locs2d[b] |-> IF j - 1 < commit[b] THEN locs2d[b][j] ELSE 0]]

LEMMA MaskedAreRuns ==
  ASSUME Booted, ServeTypes, Flight
  PROVE  /\ Runs(Masked(Locs2d(round.width), round.commit), round.width, round.commit)
         /\ Masked(Locs2d(round.width), round.commit) \in Seq(Seq(0 .. FullSlots))
<1> DEFINE w == round.width
           c == round.commit
           L == Locs2d(w)
           A == Masked(L, c)
           n == Len(round.rows)
<1>1. /\ n \in Nat /\ \A b \in 1 .. n : w[b] \in Nat /\ c[b] \in Nat /\ w[b] <= w[b] /\ c[b] <= w[b]
  <2>1. n \in Nat /\ \A b \in 1 .. n : w[b] \in Nat /\ c[b] \in Nat
    BY FlightTypes
  <2>2. \A b \in 1 .. n : c[b] <= w[b]
    BY DEF Flight
  <2> QED BY <2>1, <2>2
<1> HIDE DEF w, c
<1>2. Runs(L, w, w) /\ L \in Seq(Seq(0 .. FullSlots)) /\ FullSlots \in Nat
  BY <1>1, LocsAreRuns, ModelledPools DEF w
<1> HIDE DEF L
<1>3. /\ Len(L) = n
      /\ \A b \in 1 .. n :
           /\ Len(L[b]) = w[b]
           /\ \A j \in 1 .. w[b] :
                L[b][j] = table[round.rows[b]][seqLen[round.rows[b]] + j - 1]
  BY <1>2 DEF Runs
<1>4. DOMAIN L = 1 .. n /\ \A b \in 1 .. n : L[b] \in Seq(0 .. FullSlots)
  BY <1>2, <1>3, Elements
<1>5. \A b \in 1 .. n : DOMAIN L[b] = 1 .. w[b] /\ \A j \in 1 .. w[b] : L[b][j] \in 0 .. FullSlots
  BY <1>3, <1>4, Elements
<1>6. A = [b \in 1 .. n |-> [j \in DOMAIN L[b] |-> IF j - 1 < c[b] THEN L[b][j] ELSE 0]]
  BY <1>4 DEF Masked
<1> HIDE DEF A
<1>7. \A b \in 1 .. n : A[b] = [j \in 1 .. w[b] |-> IF j - 1 < c[b] THEN L[b][j] ELSE 0]
  BY <1>5, <1>6
<1>8. ASSUME NEW b \in 1 .. n PROVE A[b] \in Seq(0 .. FullSlots) /\ Len(A[b]) = w[b]
  <2> DEFINE f == A[b]
  <2> DEFINE x(j) == IF j - 1 < c[b] THEN L[b][j] ELSE 0
  <2>1. \A j \in 1 .. w[b] : x(j) \in 0 .. FullSlots
    <3> SUFFICES ASSUME NEW j \in 1 .. w[b] PROVE x(j) \in 0 .. FullSlots
      OBVIOUS
    <3>1. L[b][j] \in 0 .. FullSlots
      BY <1>5
    <3>2. 0 \in 0 .. FullSlots
      BY <1>2
    <3>3. x(j) = L[b][j] \/ x(j) = 0
      OBVIOUS
    <3> HIDE DEF x
    <3> QED BY <3>1, <3>2, <3>3
  <2>2. f = [j \in 1 .. w[b] |-> x(j)]
    BY <1>7
  <2> HIDE DEF x, f
  <2>3. f \in [1 .. w[b] -> 0 .. FullSlots]
    BY <2>1, <2>2
  <2> HIDE DEF f
  <2>4. f \in Seq(0 .. FullSlots) /\ Len(f) = w[b]
    BY <1>1, <2>3, IsSequence
  <2> QED BY <2>4 DEF f
<1>9. A \in Seq(Seq(0 .. FullSlots)) /\ Len(A) = n
  <2>1. A \in [1 .. n -> Seq(0 .. FullSlots)]
    BY <1>6, <1>8
  <2> QED BY <1>1, <2>1, IsSequence
<1>10. ASSUME NEW b \in 1 .. n, NEW j \in 1 .. w[b]
       PROVE  A[b][j] = IF j <= c[b]
                        THEN table[round.rows[b]][seqLen[round.rows[b]] + j - 1] ELSE 0
  <2>1. A[b][j] = IF j - 1 < c[b] THEN L[b][j] ELSE 0
    BY <1>7
  <2>2. j - 1 < c[b] <=> j <= c[b]
    BY <1>1
  <2>3. L[b][j] = table[round.rows[b]][seqLen[round.rows[b]] + j - 1]
    BY <1>3
  <2> QED BY <2>1, <2>2, <2>3
<1>11. Runs(A, w, c)
  BY <1>1, <1>8, <1>9, <1>10 DEF Runs, w
<1> QED BY <1>9, <1>11 DEF A, L, w, c

LEMMA CommitStep ==
  ASSUME Serving, Commit
  PROVE  Serving'
<1> DEFINE w == round.width
           c == round.commit
           A == Masked(Locs2d(w), c)
           tok == [b \in DOMAIN round.rows |-> [j \in 1 .. w[b] |-> IF j <= c[b] THEN "t" ELSE "d"]]
           kvs == NewKV(w, LAMBDA b, j : IF j <= c[b] THEN "t" ELSE "d")
<1>1. /\ Booted /\ ServeTypes /\ SlotsOwnedOnce /\ RowsFilled /\ Flight /\ StoredSoFar
  BY DEF Serving
<1>2. /\ round.step = "commit"
      /\ draft' = StorePrefixValid(draft, Locs2d(w), c, kvs)
      /\ seqLen' = [r \in Rows |->
           LET at == {b \in DOMAIN round.rows : round.rows[b] = r}
           IN  IF at = {} THEN seqLen[r] ELSE seqLen[r] + c[CHOOSE b \in at : TRUE]]
      /\ round' = Idle
      /\ UNCHANGED <<boot, owner, chunked, table, swaOf, served, target, swaBuf>>
  BY DEF Commit
<1>3. /\ DOMAIN round.rows = 1 .. Len(round.rows) /\ Len(round.rows) \in Nat
      /\ \A b \in 1 .. Len(round.rows) :
           /\ w[b] \in Nat /\ c[b] \in Nat /\ c[b] <= w[b] /\ round.rows[b] \in Rows
           /\ seqLen[round.rows[b]] \in Nat
      /\ \A b, d \in 1 .. Len(round.rows) : round.rows[b] = round.rows[d] => b = d
  BY <1>1, FlightTypes DEF Flight
<1>4. kvs = FlattenSeq(KvRows(w, tok))
  <2>1. \A b \in DOMAIN round.rows : \A j \in 1 .. w[b] :
          tok[b][j] = IF j <= c[b] THEN "t" ELSE "d"
    OBVIOUS
  <2> HIDE DEF tok
  <2> QED BY <2>1 DEF NewKV, KvRows
<1>5. draft' = Store(draft, FlattenSeq(A), FlattenSeq(KvRows(w, tok)))
  BY <1>2, <1>4 DEF StorePrefixValid, CommittedLocs, Masked
<1>6. Runs(A, w, c) /\ A \in Seq(Seq(0 .. FullSlots))
  BY <1>1, MaskedAreRuns
<1>7. ASSUME NEW b \in 1 .. Len(round.rows), NEW p \in Positions, Covered(c, b, round.rows[b], p)
      PROVE  tok[b][p - seqLen[round.rows[b]] + 1] = "t"
  <2> DEFINE n == seqLen[round.rows[b]]
             a == c[b]
             k == w[b]
  <2>1. n \in Nat /\ p \in Nat /\ a \in Nat /\ k \in Nat /\ a <= k /\ n <= p /\ p < n + a
    BY <1>1, <1>3, <1>7, FlightTypes DEF Covered
  <2>2. tok[b] = [j \in 1 .. k |-> IF j <= a THEN "t" ELSE "d"]
    BY <1>3
  <2> HIDE DEF n, a, k, tok
  <2>3. p - n + 1 \in 1 .. k /\ p - n + 1 <= a
    BY <2>1
  <2> QED BY <2>2, <2>3 DEF n
<1> HIDE DEF tok, kvs
<1>8. /\ DOMAIN draft' = 1 .. DraftSlots
      /\ \A r \in Live, p \in Positions : p < seqLen[r] => InDraft(draft', r, p)
      /\ \A b \in 1 .. Len(round.rows), p \in Positions :
           Covered(c, b, round.rows[b], p) => InDraft(draft', round.rows[b], p)
  <2> DEFINE new == draft'
  <2>1. new = Store(draft, FlattenSeq(A), FlattenSeq(KvRows(w, tok)))
    BY <1>5
  <2> HIDE DEF A, new, w, c
  <2>2. /\ DOMAIN new = 1 .. DraftSlots
        /\ \A r \in Live, p \in Positions : p < seqLen[r] => InDraft(new, r, p)
        /\ \A b \in 1 .. Len(round.rows), p \in Positions :
             /\ Covered(c, b, round.rows[b], p)
             /\ tok[b][p - seqLen[round.rows[b]] + 1] = "t"
             => InDraft(new, round.rows[b], p)
    BY <1>1, <1>6, <2>1, DraftHolds
  <2> QED BY <1>7, <2>2 DEF new
<1>9. /\ DOMAIN target'.full = 1 .. FullSlots /\ DOMAIN target'.swa = 1 .. SwaSlots
      /\ DOMAIN swaBuf' = 1 .. BufferSize
      /\ \A r \in Live, p \in Positions : p < seqLen[r] => InTarget(target', r, p)
  BY <1>2, TargetKept
<1>10. \A b \in 1 .. Len(round.rows), p \in Positions :
         Covered(c, b, round.rows[b], p) => InTarget(target', round.rows[b], p)
  BY <1>1, <1>2 DEF StoredSoFar, Covered
<1>11. Grown(c)
  <2>1. ASSUME NEW r \in Rows
        PROVE  /\ seqLen'[r] \in Int
               /\ \/ seqLen'[r] = seqLen[r]
                  \/ \E b \in 1 .. Len(round.rows) : round.rows[b] = r /\ seqLen'[r] = seqLen[r] + c[b]
    <3> DEFINE at == {b \in DOMAIN round.rows : round.rows[b] = r}
    <3>1. seqLen[r] \in Nat
      BY <1>1, SizesAssumption DEF ServeTypes
    <3>2. CASE at = {}
      BY <1>2, <3>1, <3>2
    <3>3. CASE at # {}
      <4> DEFINE x == CHOOSE b \in at : TRUE
      <4>1. seqLen'[r] = seqLen[r] + c[x]
        BY <1>2, <3>3
      <4>2. x \in at
        BY <3>3
      <4> HIDE DEF x
      <4>3. x \in 1 .. Len(round.rows) /\ round.rows[x] = r
        BY <1>3, <4>2
      <4> QED BY <1>3, <3>1, <4>1, <4>3
    <3> QED BY <3>2, <3>3
  <2>2. seqLen' = [r \in Rows |-> seqLen'[r]]
    BY <1>2
  <2>3. seqLen' \in [Rows -> Int]
    BY <2>1, <2>2
  <2> QED BY <1>2, <1>3, <2>1, <2>3 DEF Grown
<1> QED BY <1>2, <1>8, <1>9, <1>10, <1>11, ClosesIdle

(***************************************************************************)
(* The scheduler's steps.                                                  *)
(***************************************************************************)
\* Everything that is committed after the step was so before it, in the slots
\* it has now.
Remains(r, p) ==
  /\ owner'[r] = owner[r] /\ owner[r] # 0 /\ seqLen'[r] = seqLen[r]
  /\ table'[r][p] = table[r][p]
  /\ p >= seqLen[r] - Window => Translate(table[r][p])' = Translate(table[r][p])

LEMMA StoredRemains ==
  ASSUME Serving, UNCHANGED <<boot, target, draft>>, round'.step # "commit",
         \A r \in Rows, p \in Positions : owner'[r] # 0 /\ p < seqLen'[r] => Remains(r, p)
  PROVE  StoredSoFar'
<1>1. Speculates' = Speculates
  BY SameServer
<1>2. ASSUME NEW r \in Live', NEW p \in Positions, p < seqLen'[r]
      PROVE  InTarget(target, r, p)' /\ InDraft(draft, r, p)'
  <2>1. r \in Rows /\ Remains(r, p)
    BY <1>2 DEF Live
  <2>2. r \in Live /\ p < seqLen[r]
    BY <1>2, <2>1 DEF Live, Remains
  <2>3. InTarget(target, r, p) /\ InDraft(draft, r, p)
    BY <2>2 DEF Serving, StoredSoFar
  <2>4. Token(r, p)' = Token(r, p)
    BY <2>1 DEF Remains, Token
  <2>5. InTarget(target, r, p)'
    BY <2>1, <2>3, <2>4 DEF InTarget, Remains, Load
  <2>6. InDraft(draft, r, p)'
    BY <1>1, <2>1, <2>3, <2>4 DEF InDraft, Remains, Load
  <2> QED BY <2>5, <2>6
<1> QED BY <1>2 DEF StoredSoFar

\* After a reservation the invariant's parts hold that do not speak of the
\* batch, and the batch has its slots.
LEMMA Reserving ==
  ASSUME Serving, NEW batch \in SUBSET Rows, NEW upTo \in [Rows -> Int],
         \A r \in batch : upTo[r] <= MaxLen, Reserve(batch, upTo),
         UNCHANGED <<boot, seqLen, target, draft, swaBuf>>, round'.step # "commit",
         owner' \in [Rows -> Nat], served' \in Nat, \A r \in batch : owner'[r] # 0,
         \A r \in Rows : owner'[r] = owner[r] \/ (owner[r] = 0 /\ r \in batch)
  PROVE  /\ Booted' /\ ServeTypes' /\ SlotsOwnedOnce' /\ RowsFilled' /\ StoredSoFar'
         /\ \A r \in batch, p \in Positions : p < upTo[r] => table'[r][p] # 0
<1> DEFINE NewOf(r, p) == Fresh(batch, upTo, r, p)
<1>1. /\ Booted /\ ServeTypes /\ SlotsOwnedOnce /\ RowsFilled
  BY DEF Serving
<1>2. /\ FullSlots \in Nat /\ SwaSlots \in Nat
      /\ FullSlots' = FullSlots /\ SwaSlots' = SwaSlots /\ DraftSlots' = DraftSlots /\ Booted'
  BY <1>1, ModelledPools, SameServer
<1>3. /\ table \in [Rows -> [Positions -> 0 .. FullSlots]]
      /\ swaOf \in [1 .. FullSlots -> 0 .. SwaSlots]
      /\ \A r \in Rows : FirstPositions(r)
  BY <1>1 DEF ServeTypes, RowsFilled, RowFilled
<1>4. Allotted(batch, upTo)
  <2>1. FullSlots \in Int /\ SwaSlots \in Int
    BY <1>2
  <2> QED BY <1>3, <2>1, ReserveFacts
<1>5. /\ table' \in [Rows -> [Positions -> 0 .. FullSlots]]
      /\ swaOf' \in [1 .. FullSlots -> 0 .. SwaSlots]
      /\ \A r \in Rows, p \in Positions : ~NewOf(r, p) => table'[r][p] = table[r][p]
  BY <1>4 DEF Allotted
<1>6. \A r \in Rows, p \in Positions :
        NewOf(r, p) => table'[r][p] \in FreeFull /\ swaOf'[table'[r][p]] \in FreeSwa
  BY <1>4 DEF Allotted
<1>7. ASSUME NEW r \in Rows, NEW q \in Rows, NEW p \in Positions, NEW z \in Positions,
             NewOf(r, p), NewOf(q, z),
             table'[r][p] = table'[q][z] \/ swaOf'[table'[r][p]] = swaOf'[table'[q][z]]
      PROVE  r = q /\ p = z
  BY <1>4, <1>7 DEF Allotted
<1>8. \A s \in 1 .. FullSlots : swaOf'[s] # swaOf[s] =>
        \E r \in Rows, p \in Positions : NewOf(r, p) /\ table'[r][p] = s
  BY <1>4 DEF Allotted
<1>9. \A s \in FreeFull : /\ s \in 1 .. FullSlots /\ s # 0
                          /\ \A r \in Rows, p \in Positions : table[r][p] # s
  BY <1>2 DEF FreeFull
<1>10. \A s \in FreeSwa : s # 0 /\ \A t \in 1 .. FullSlots : swaOf[t] # s
  BY <1>2 DEF FreeSwa
<1>11. \A r \in Rows, p \in Positions :
        NewOf(r, p) => r \in batch /\ table[r][p] = 0 /\ p < upTo[r]
  BY DEF Fresh
<1>12. \A r \in batch, p \in Positions : table[r][p] = 0 /\ p < upTo[r] => NewOf(r, p)
  BY DEF Fresh
<1> HIDE DEF NewOf
<1>13. ASSUME NEW r \in Rows, NEW p \in Positions, table[r][p] # 0
      PROVE  /\ table'[r][p] = table[r][p] /\ table[r][p] \in 1 .. FullSlots
             /\ swaOf'[table[r][p]] = swaOf[table[r][p]]
  <2> DEFINE s == table[r][p]
  <2>1. table'[r][p] = s
    BY <1>5, <1>6, <1>7, <1>8, <1>11, <1>13
  <2>2. s \in 1 .. FullSlots
    BY <1>2, <1>3, <1>13
  <2>3. ~\E q \in Rows, z \in Positions : NewOf(q, z) /\ table'[q][z] = s
    BY <1>5, <1>6, <1>7, <1>8, <1>9
  <2> QED BY <1>5, <1>6, <1>7, <1>8, <2>1, <2>2, <2>3
<1>14. ASSUME NEW r \in Rows, NEW p \in Positions, NewOf(r, p)
       PROVE  /\ table'[r][p] \in 1 .. FullSlots /\ table'[r][p] # 0
              /\ swaOf'[table'[r][p]] # 0
  BY <1>5, <1>6, <1>7, <1>8, <1>9, <1>10, <1>14
<1>15. \A r \in batch, p \in Positions : p < upTo[r] => table'[r][p] # 0
  BY <1>12, <1>13, <1>14
<1>16. ServeTypes'
  <2>1. \A t : Positions' = Positions
    BY DEF Positions
  <2> QED BY <1>1, <1>2, <1>5, <1>6, <1>7, <1>8 DEF ServeTypes, BufferSize
<1>17. SlotsOwnedOnce'
  <2>1. ASSUME NEW r \in Rows, NEW q \in Rows, NEW p \in Positions, NEW z \in Positions,
               table'[r][p] # 0, table'[r][p] = table'[q][z]
        PROVE  r = q /\ p = z
    <3>1. CASE NewOf(r, p) /\ NewOf(q, z)
      BY <1>5, <1>6, <1>7, <1>8, <2>1, <3>1
    <3>2. CASE ~NewOf(r, p) /\ ~NewOf(q, z)
      <4>1. table[r][p] # 0 /\ table[r][p] = table[q][z]
        BY <1>5, <1>6, <1>7, <1>8, <2>1, <3>2
      <4> QED BY <1>1, <4>1 DEF SlotsOwnedOnce
    <3>3. ASSUME NEW u \in Rows, NEW x \in Positions, NEW v \in Rows, NEW y \in Positions,
                 NewOf(u, x), ~NewOf(v, y)
          PROVE  table'[u][x] # table'[v][y]
      <4>1. table'[u][x] \in FreeFull /\ table'[v][y] = table[v][y]
        BY <1>5, <1>6, <1>7, <1>8, <3>3
      <4> QED BY <1>9, <4>1
    <3> QED BY <2>1, <3>1, <3>2, <3>3
  <2>2. ASSUME NEW s \in 1 .. FullSlots, NEW t \in 1 .. FullSlots,
               swaOf'[s] # 0, swaOf'[s] = swaOf'[t]
        PROVE  s = t
    <3>1. CASE swaOf'[s] = swaOf[s] /\ swaOf'[t] = swaOf[t]
      BY <1>1, <2>2, <3>1 DEF SlotsOwnedOnce
    <3>2. CASE swaOf'[s] # swaOf[s] /\ swaOf'[t] # swaOf[t]
      <4>1. PICK r \in Rows, p \in Positions : NewOf(r, p) /\ table'[r][p] = s
        BY <1>5, <1>6, <1>7, <1>8, <3>2
      <4>2. PICK q \in Rows, z \in Positions : NewOf(q, z) /\ table'[q][z] = t
        BY <1>5, <1>6, <1>7, <1>8, <3>2
      <4>3. swaOf'[table'[r][p]] = swaOf'[table'[q][z]]
        BY <2>2, <4>1, <4>2
      <4>4. r = q /\ p = z
        BY <1>7, <4>1, <4>2, <4>3
      <4> QED BY <4>1, <4>2, <4>4
    <3>3. ASSUME NEW x \in 1 .. FullSlots, NEW y \in 1 .. FullSlots,
                 swaOf'[x] # swaOf[x], swaOf'[y] = swaOf[y]
          PROVE  swaOf'[x] # swaOf'[y]
      <4>1. PICK r \in Rows, p \in Positions : NewOf(r, p) /\ table'[r][p] = x
        BY <1>5, <1>6, <1>7, <1>8, <3>3
      <4>2. swaOf'[x] \in FreeSwa
        BY <1>5, <1>6, <1>7, <1>8, <4>1
      <4> QED BY <1>10, <3>3, <4>2
    <3> QED BY <2>2, <3>1, <3>2, <3>3
  <2>3. ASSUME NEW s \in 1 .. FullSlots, swaOf'[s] # 0
        PROVE  \E r \in Rows, p \in Positions : table'[r][p] = s
    <3>1. CASE swaOf'[s] # swaOf[s]
      BY <1>5, <1>6, <1>7, <1>8, <3>1
    <3>2. CASE swaOf'[s] = swaOf[s]
      <4>1. PICK r \in Rows, p \in Positions : table[r][p] = s
        BY <1>1, <2>3, <3>2 DEF SlotsOwnedOnce
      <4>2. s # 0
        BY <1>2
      <4> QED BY <1>13, <4>1, <4>2
    <3> QED BY <3>1, <3>2
  <2> QED BY <1>2, <2>1, <2>2, <2>3 DEF SlotsOwnedOnce
<1>18. ASSUME NEW r \in Rows PROVE RowFilled(r)'
  <2>1. RowFilled(r) /\ seqLen' = seqLen
    BY <1>1 DEF RowsFilled
  <2>2. ASSUME NEW p \in Positions, NEW z \in Positions, p < z, table'[r][z] # 0
        PROVE  table'[r][p] # 0
    <3> SUFFICES ASSUME table'[r][p] = 0 PROVE FALSE
      OBVIOUS
    <3>1. ~NewOf(r, p) /\ table[r][p] = 0
      BY <1>5, <1>6, <1>7, <1>8, <1>14
    <3>2. CASE NewOf(r, z)
      <4>1. r \in batch /\ z < upTo[r]
        BY <1>11, <3>2
      <4>2. p \in Int /\ z \in Int /\ upTo[r] \in Int
        BY SizesAssumption DEF Positions
      <4>3. p < upTo[r]
        BY <2>2, <4>1, <4>2
      <4> QED BY <1>12, <3>1, <4>1, <4>3
    <3>3. CASE ~NewOf(r, z)
      <4>1. table[r][z] # 0
        BY <1>5, <1>6, <1>7, <1>8, <2>2, <3>3
      <4> QED BY <2>1, <2>2, <3>1, <4>1 DEF RowFilled, FirstPositions
    <3> QED BY <3>2, <3>3
  <2>3. \A p \in Positions : p < seqLen[r] => table'[r][p] # 0
    BY <1>13, <2>1 DEF RowFilled
  <2>4. ASSUME owner'[r] = 0
        PROVE  seqLen[r] = 0 /\ \A p \in Positions : table'[r][p] = 0
    <3>1. r \notin batch /\ owner[r] = 0
      BY <2>4
    <3>2. \A p \in Positions : ~NewOf(r, p)
      BY <1>11, <3>1
    <3>3. \A p \in Positions : table'[r][p] = table[r][p]
      BY <1>5, <1>6, <1>7, <1>8, <3>2
    <3> QED BY <2>1, <3>1, <3>3 DEF RowFilled
  <2>5. ASSUME NEW p \in Positions, p >= seqLen[r] - Window, table'[r][p] # 0
        PROVE  swaOf'[table'[r][p]] # 0
    <3>1. CASE NewOf(r, p)
      BY <1>14, <3>1
    <3>2. CASE ~NewOf(r, p)
      <4>1. table[r][p] # 0 /\ table'[r][p] = table[r][p]
        BY <1>5, <1>6, <1>7, <1>8, <2>5, <3>2
      <4>2. swaOf[table[r][p]] # 0
        BY <2>1, <2>5, <4>1 DEF RowFilled
      <4> QED BY <1>13, <4>1, <4>2
    <3> QED BY <3>1, <3>2
  <2> QED BY <2>1, <2>2, <2>3, <2>4, <2>5 DEF RowFilled, FirstPositions
<1>19. StoredSoFar'
  <2>1. ASSUME NEW r \in Rows, NEW p \in Positions, owner'[r] # 0, p < seqLen'[r]
        PROVE  Remains(r, p)
    <3>1. RowFilled(r) /\ seqLen' = seqLen /\ p < seqLen[r] /\ p \in Nat
      BY <1>1, <2>1, SizesAssumption DEF RowsFilled, Positions
    <3>2. seqLen[r] # 0
      BY <3>1
    <3>3. owner[r] # 0 /\ owner'[r] = owner[r]
      BY <3>1, <3>2 DEF RowFilled
    <3>4. table[r][p] # 0
      BY <3>1 DEF RowFilled
    <3>5. /\ table'[r][p] = table[r][p] /\ swaOf'[table[r][p]] = swaOf[table[r][p]]
      BY <1>13, <3>4
    <3> QED BY <3>1, <3>3, <3>4, <3>5 DEF Remains, Translate
  <2> QED BY <2>1, StoredRemains
<1>20. RowsFilled'
  BY <1>18 DEF RowsFilled
<1> QED BY <1>2, <1>15, <1>16, <1>17, <1>19, <1>20

\* The batch of a scheduler's step: different rows of n new tokens each, with
\* their slots reserved.
LEMMA NewFlight ==
  ASSUME NEW step \in {"extend", "decode", "propose"}, NEW rows \in Seq(Rows),
         NEW n \in Nat, NEW c \in Nat, c <= n,
         round' = [step |-> step, rows |-> rows, width |-> [b \in DOMAIN rows |-> n],
                   commit |-> [b \in DOMAIN rows |-> c]],
         step = "extend" => Len(rows) = 1 /\ c = n,
         step = "propose" => n = NumDraft /\ Speculates',
         step = "decode" => n = 1 /\ ~Speculates',
         \A b \in 1 .. Len(rows) :
           /\ owner'[rows[b]] # 0 /\ seqLen'[rows[b]] + n <= MaxLen
           /\ \A p \in Positions : p < seqLen'[rows[b]] + n => table'[rows[b]][p] # 0,
         \A b, d \in 1 .. Len(rows) : rows[b] = rows[d] => b = d
  PROVE  Flight'
<1>1. Len(rows) \in Nat /\ DOMAIN rows = 1 .. Len(rows) /\ \A b \in 1 .. Len(rows) : rows[b] \in Rows
  BY Elements
<1> DEFINE w == [b \in 1 .. Len(rows) |-> n]
           k == [b \in 1 .. Len(rows) |-> c]
<1>2. /\ w \in Seq(Nat) /\ Len(w) = Len(rows) /\ \A b \in 1 .. Len(rows) : w[b] = n
      /\ k \in Seq(Nat) /\ Len(k) = Len(rows) /\ \A b \in 1 .. Len(rows) : k[b] = c
  <2>1. w \in [1 .. Len(rows) -> Nat] /\ k \in [1 .. Len(rows) -> Nat]
    OBVIOUS
  <2>2. /\ \A b \in 1 .. Len(rows) : w[b] = n
        /\ \A b \in 1 .. Len(rows) : k[b] = c
    OBVIOUS
  <2> HIDE DEF w, k
  <2> QED BY <1>1, <2>1, <2>2, IsSequence
<1>3. step = "extend" => k = w
  OBVIOUS
<1>4. round' = [step |-> step, rows |-> rows, width |-> w, commit |-> k]
  BY <1>1
<1> HIDE DEF w, k
<1>5. round'.step = step /\ round'.rows = rows /\ round'.width = w /\ round'.commit = k
  BY <1>4
<1>6. round' \in [step : {"idle", "extend", "decode", "propose", "verify", "commit"},
                  rows : Seq(Rows), width : Seq(Nat), commit : Seq(Nat)]
  BY <1>2, <1>4
<1>7. ASSUME NEW b \in 1 .. Len(rows) PROVE InBatch(b, rows[b])'
  BY <1>2, <1>5 DEF InBatch
<1>8. \A b \in 1 .. Len(rows) :
        /\ InBatch(b, rows[b])' /\ k[b] <= w[b]
        /\ step = "propose" => w[b] = NumDraft
        /\ step = "decode" => w[b] = 1
  BY <1>2, <1>7
<1>9. step # "idle" /\ step # "verify" /\ step # "commit"
  OBVIOUS
<1> QED BY <1>2, <1>3, <1>5, <1>6, <1>8, <1>9 DEF Flight

LEMMA ScheduleExtendStep ==
  ASSUME Serving, NEW r \in Rows, ScheduleExtend(r)
  PROVE  Serving'
<1>1. PICK n \in 1 .. 2 :
        /\ round.step = "idle"
        /\ IF owner[r] = 0
             THEN /\ served' = served + 1
                  /\ owner' = [owner EXCEPT ![r] = served + 1]
             ELSE UNCHANGED <<served, owner>>
        /\ seqLen[r] + n <= MaxLen
        /\ Reserve({r}, [seqLen EXCEPT ![r] = @ + n])
        /\ round' = [step |-> "extend", rows |-> <<r>>, width |-> <<n>>, commit |-> <<n>>]
        /\ UNCHANGED <<boot, seqLen, target, draft, swaBuf>>
  BY DEF ScheduleExtend
<1> DEFINE upTo == [seqLen EXCEPT ![r] = @ + n]
<1>2. /\ ServeTypes /\ owner \in [Rows -> Nat] /\ served \in Nat
      /\ \A q \in Rows : seqLen[q] \in Nat
      /\ seqLen \in [Rows -> 0 .. MaxLen] /\ MaxLen \in Nat /\ n \in Nat
  BY SizesAssumption DEF Serving, ServeTypes
<1>3. upTo \in [Rows -> Int] /\ upTo[r] = seqLen[r] + n
  BY <1>2
<1>4. /\ owner' \in [Rows -> Nat] /\ served' \in Nat /\ owner'[r] # 0
      /\ \A q \in Rows : owner'[q] = owner[q] \/ (owner[q] = 0 /\ q \in {r})
  <2>1. CASE owner[r] = 0
    BY <1>1, <1>2, <2>1
  <2>2. CASE owner[r] # 0
    BY <1>1, <1>2, <2>2
  <2> QED BY <2>1, <2>2
<1>5. Reserve({r}, upTo) /\ \A q \in {r} : upTo[q] <= MaxLen
  BY <1>1, <1>3
<1> HIDE DEF upTo
<1>6. round'.step # "commit"
  BY <1>1
<1>7. /\ Booted' /\ ServeTypes' /\ SlotsOwnedOnce' /\ RowsFilled' /\ StoredSoFar'
      /\ \A q \in {r}, p \in Positions : p < upTo[q] => table'[q][p] # 0
  <2>1. \A q \in {r} : owner'[q] # 0
    BY <1>4
  <2>2. {r} \in SUBSET Rows /\ UNCHANGED <<boot, seqLen, target, draft, swaBuf>>
    BY <1>1
  <2> QED BY <1>3, <1>4, <1>6, <1>5, <2>1, <2>2, Reserving
<1>8. Flight'
  <2> DEFINE rows == <<r>>
  <2>1. rows \in Seq(Rows) /\ DOMAIN rows = 1 .. 1 /\ Len(rows) = 1 /\ \A b \in 1 .. 1 : rows[b] = r
    OBVIOUS
  <2>2. <<n>> = [b \in DOMAIN rows |-> n]
    OBVIOUS
  <2>3. round' = [step |-> "extend", rows |-> rows, width |-> [b \in DOMAIN rows |-> n],
                  commit |-> [b \in DOMAIN rows |-> n]]
    BY <1>1, <2>2
  <2>4. /\ owner'[r] # 0 /\ seqLen'[r] + n <= MaxLen
        /\ \A p \in Positions : p < seqLen'[r] + n => table'[r][p] # 0
    BY <1>1, <1>3, <1>4, <1>7
  <2> HIDE DEF rows
  <2>5. \A b \in 1 .. Len(rows) :
          /\ owner'[rows[b]] # 0 /\ seqLen'[rows[b]] + n <= MaxLen
          /\ \A p \in Positions : p < seqLen'[rows[b]] + n => table'[rows[b]][p] # 0
    BY <2>1, <2>4
  <2>6. \A b, d \in 1 .. Len(rows) : rows[b] = rows[d] => b = d
    BY <2>1
  <2>7. n <= n
    BY <1>2
  <2> QED BY <1>2, <2>1, <2>3, <2>5, <2>6, <2>7, NewFlight
<1> QED BY <1>7, <1>8 DEF Serving

LEMMA ScheduleBatchStep ==
  ASSUME Serving, NEW batch \in SUBSET Rows, ScheduleBatch(batch)
  PROVE  Serving'
<1> DEFINE n == IF Speculates THEN NumDraft ELSE 1
           rows == Sorted(batch)
           step == IF Speculates THEN "propose" ELSE "decode"
           upTo == [r \in Rows |-> seqLen[r] + n]
<1>1. /\ round.step = "idle"
      /\ batch \subseteq Ready
      /\ \A r \in batch : seqLen[r] + n <= MaxLen
      /\ Reserve(batch, upTo)
      /\ round' = [step |-> step, rows |-> rows, width |-> [b \in DOMAIN rows |-> n],
                   commit |-> [b \in DOMAIN rows |-> 0]]
      /\ UNCHANGED <<boot, owner, seqLen, chunked, served, target, draft, swaBuf>>
  BY DEF ScheduleBatch
<1>2. /\ owner \in [Rows -> Nat] /\ served \in Nat
      /\ \A q \in Rows : seqLen[q] \in Nat
  BY SizesAssumption DEF Serving, ServeTypes
<1>3. /\ step \in {"extend", "decode", "propose"} /\ step # "extend"
      /\ n \in Nat /\ 0 <= n
      /\ (step = "propose" => n = NumDraft /\ Speculates')
      /\ (step = "decode" => n = 1 /\ ~Speculates')
  <2>1. NumDraft \in Nat /\ Speculates' = Speculates
    BY <1>1, SizesAssumption, SameServer
  <2> QED BY <2>1
<1>4. round'.step # "commit"
  BY <1>1
<1> HIDE DEF n, step
<1>5. upTo \in [Rows -> Int] /\ \A r \in Rows : upTo[r] = seqLen[r] + n
  BY <1>2, <1>3
<1>6. /\ rows \in Seq(Rows) /\ Len(rows) \in Nat
      /\ \A b \in 1 .. Len(rows) : rows[b] \in batch
      /\ \A b, d \in 1 .. Len(rows) : rows[b] = rows[d] => b = d
  <2>1. batch \in SUBSET Nat /\ IsFiniteSet(batch)
    BY RowsAssumption, FS_Subset
  <2>2. /\ Cardinality(batch) \in Nat
        /\ rows \in Seq(batch) /\ Len(rows) = Cardinality(batch)
        /\ \A i, j \in 1 .. Cardinality(batch) : rows[i] = rows[j] => i = j
    BY <2>1, SortedFacts
  <2> HIDE DEF rows
  <2> QED BY <2>2
<1>7. \A r \in batch : r \in Rows /\ owner[r] # 0
  BY <1>1 DEF Ready, Live
<1> HIDE DEF rows, upTo
<1>8. /\ Booted' /\ ServeTypes' /\ SlotsOwnedOnce' /\ RowsFilled' /\ StoredSoFar'
      /\ \A r \in batch, p \in Positions : p < upTo[r] => table'[r][p] # 0
  <2>1. \A r \in batch : upTo[r] <= MaxLen
    BY <1>1, <1>5
  <2>2. /\ owner' \in [Rows -> Nat] /\ served' \in Nat /\ \A r \in batch : owner'[r] # 0
        /\ \A r \in Rows : owner'[r] = owner[r] \/ (owner[r] = 0 /\ r \in batch)
    BY <1>1, <1>2, <1>7
  <2> QED BY <1>1, <1>4, <1>5, <2>1, <2>2, Reserving
<1>9. Flight'
  <2>1. \A r \in batch : /\ owner'[r] # 0 /\ seqLen'[r] + n <= MaxLen
                         /\ \A p \in Positions : p < seqLen'[r] + n => table'[r][p] # 0
    BY <1>1, <1>5, <1>7, <1>8
  <2>2. \A b \in 1 .. Len(rows) :
          /\ owner'[rows[b]] # 0 /\ seqLen'[rows[b]] + n <= MaxLen
          /\ \A p \in Positions : p < seqLen'[rows[b]] + n => table'[rows[b]][p] # 0
    BY <1>6, <2>1
  <2> QED BY <1>1, <1>3, <1>6, <2>2, NewFlight
<1> QED BY <1>8, <1>9 DEF Serving

LEMMA OwnedOnceAfter ==
  ASSUME FullSlots' = FullSlots,
         \A r, q \in Rows, p, z \in Positions :
           table'[r][p] # 0 /\ table'[r][p] = table'[q][z] => r = q /\ p = z,
         \A s, t \in 1 .. FullSlots : swaOf'[s] # 0 /\ swaOf'[s] = swaOf'[t] => s = t,
         \A s \in 1 .. FullSlots : swaOf'[s] # 0 =>
           \E r \in Rows, p \in Positions : table'[r][p] = s
  PROVE  SlotsOwnedOnce'
BY DEF SlotsOwnedOnce

\* Slots that no position within a window holds any more are given back: those
\* of the rows that end, or of positions behind the window.
LEMMA Releasing ==
  ASSUME Serving, UNCHANGED <<boot, target, draft, swaBuf, round>>, round.step = "idle",
         owner' \in [Rows -> Nat], seqLen' \in [Rows -> 0 .. MaxLen], served' \in Nat,
         table' \in [Rows -> [Positions -> 0 .. FullSlots]],
         NEW out, swaOf' = [s \in 1 .. FullSlots |-> IF s \in out THEN 0 ELSE swaOf[s]],
         \A q \in Rows, p \in Positions : table'[q][p] # 0 => table'[q][p] = table[q][p],
         \A q \in Rows, p \in Positions :
           table[q][p] # 0 /\ table[q][p] \notin out => table'[q][p] = table[q][p],
         \A q \in Rows : owner'[q] # 0 =>
           owner'[q] = owner[q] /\ seqLen'[q] = seqLen[q] /\ table'[q] = table[q],
         \A q \in Rows : owner'[q] = 0 => seqLen'[q] = 0 /\ \A p \in Positions : table'[q][p] = 0,
         \A q \in Rows, p \in Positions :
           p >= seqLen'[q] - Window /\ table'[q][p] # 0 => table'[q][p] \notin out
  PROVE  Serving'
<1>1. /\ Booted /\ ServeTypes /\ SlotsOwnedOnce /\ RowsFilled /\ Flight
  BY DEF Serving
<1>2. /\ FullSlots \in Nat /\ SwaSlots \in Nat
      /\ FullSlots' = FullSlots /\ SwaSlots' = SwaSlots /\ DraftSlots' = DraftSlots /\ Booted'
  BY <1>1, ModelledPools, SameServer
<1>3. /\ table \in [Rows -> [Positions -> 0 .. FullSlots]]
      /\ swaOf \in [1 .. FullSlots -> 0 .. SwaSlots]
  BY <1>1 DEF ServeTypes
<1>4. \A s \in 1 .. FullSlots :
        /\ swaOf'[s] # 0 => (swaOf'[s] = swaOf[s] /\ s \notin out)
        /\ s \notin out => swaOf'[s] = swaOf[s]
  OBVIOUS
<1>5. swaOf' \in [1 .. FullSlots -> 0 .. SwaSlots]
  <2>1. \A s \in 1 .. FullSlots : (IF s \in out THEN 0 ELSE swaOf[s]) \in 0 .. SwaSlots
    BY <1>2, <1>3
  <2> QED BY <2>1
<1>6. ServeTypes'
  BY <1>1, <1>2, <1>5 DEF ServeTypes, BufferSize
<1>7. SlotsOwnedOnce'
  <2>1. ASSUME NEW r \in Rows, NEW q \in Rows, NEW p \in Positions, NEW z \in Positions,
               table'[r][p] # 0, table'[r][p] = table'[q][z]
        PROVE  r = q /\ p = z
    <3>1. table[r][p] # 0 /\ table[r][p] = table[q][z]
      BY <2>1
    <3> QED BY <1>1, <3>1 DEF SlotsOwnedOnce
  <2>2. ASSUME NEW s \in 1 .. FullSlots, NEW t \in 1 .. FullSlots,
               swaOf'[s] # 0, swaOf'[s] = swaOf'[t]
        PROVE  s = t
    BY <1>1, <1>4, <2>2 DEF SlotsOwnedOnce
  <2>3. ASSUME NEW s \in 1 .. FullSlots, swaOf'[s] # 0
        PROVE  \E r \in Rows, p \in Positions : table'[r][p] = s
    <3>1. PICK r \in Rows, p \in Positions : table[r][p] = s
      BY <1>1, <1>4, <2>3 DEF SlotsOwnedOnce
    <3>2. s # 0 /\ s \notin out
      BY <1>2, <1>4, <2>3
    <3> QED BY <3>1, <3>2
  <2>4. \A r, q \in Rows, p, z \in Positions :
          table'[r][p] # 0 /\ table'[r][p] = table'[q][z] => r = q /\ p = z
    BY <2>1
  <2> QED BY <1>2, <2>2, <2>3, <2>4, OwnedOnceAfter
<1>8. ASSUME NEW q \in Rows PROVE RowFilled(q)'
  <2>1. RowFilled(q)
    BY <1>1 DEF RowsFilled
  <2>2. ASSUME NEW p \in Positions, p >= seqLen'[q] - Window, table'[q][p] # 0
        PROVE  swaOf'[table'[q][p]] # 0
    <3>1. table'[q][p] = table[q][p] /\ table'[q][p] \notin out /\ owner'[q] # 0
      BY <2>2
    <3>2. seqLen'[q] = seqLen[q] /\ table[q][p] \in 1 .. FullSlots
      BY <1>2, <1>3, <2>2, <3>1
    <3>3. swaOf[table[q][p]] # 0
      BY <2>1, <2>2, <3>1, <3>2 DEF RowFilled
    <3> QED BY <1>4, <3>1, <3>2, <3>3
  <2>3. CASE owner'[q] = 0
    <3>1. seqLen'[q] = 0 /\ \A p \in Positions : table'[q][p] = 0 /\ p \in Nat
      BY <2>3, SizesAssumption DEF Positions
    <3>2. \A p \in Positions : ~(p < seqLen'[q])
      BY <3>1
    <3> QED BY <2>2, <3>1, <3>2 DEF RowFilled, FirstPositions
  <2>4. CASE owner'[q] # 0
    <3>1. seqLen'[q] = seqLen[q] /\ table'[q] = table[q]
      BY <2>4
    <3> QED BY <2>1, <2>2, <2>4, <3>1 DEF RowFilled, FirstPositions
  <2> QED BY <2>3, <2>4
<1>9. StoredSoFar'
  <2>1. ASSUME NEW q \in Rows, NEW p \in Positions, owner'[q] # 0, p < seqLen'[q]
        PROVE  Remains(q, p)
    <3>1. owner'[q] = owner[q] /\ seqLen'[q] = seqLen[q] /\ table'[q] = table[q]
      BY <2>1
    <3>2. table[q][p] # 0
      BY <1>1, <2>1, <3>1 DEF RowsFilled, RowFilled
    <3>3. table[q][p] \in 1 .. FullSlots
      BY <1>2, <1>3, <3>2
    <3>4. p >= seqLen[q] - Window => table[q][p] \notin out
      BY <3>1, <3>2
    <3>5. p >= seqLen[q] - Window => swaOf'[table[q][p]] = swaOf[table[q][p]]
      BY <1>4, <3>3, <3>4
    <3> QED BY <2>1, <3>1, <3>2, <3>5 DEF Remains, Translate
  <2> QED BY <2>1, StoredRemains
<1>10. Flight'
  <2>1. round' = Idle
    BY <1>1 DEF Flight
  <2> QED BY <2>1, IdleFlight
<1>11. RowsFilled'
  BY <1>8 DEF RowsFilled
<1> QED BY <1>2, <1>6, <1>7, <1>9, <1>10, <1>11 DEF Serving

LEMMA FinishStep ==
  ASSUME Serving, NEW r \in Rows, Finish(r)
  PROVE  Serving'
<1> DEFINE out == {s \in 1 .. FullSlots : \E p \in Positions : table[r][p] = s}
           none == [p \in Positions |-> 0]
<1>1. /\ round.step = "idle"
      /\ owner' = [owner EXCEPT ![r] = 0]
      /\ seqLen' = [seqLen EXCEPT ![r] = 0]
      /\ table' = [table EXCEPT ![r] = none]
      /\ swaOf' = [s \in 1 .. FullSlots |->
           IF \E p \in Positions : table[r][p] = s THEN 0 ELSE swaOf[s]]
      /\ UNCHANGED <<boot, served, target, draft, swaBuf, round>>
  BY DEF Finish
<1>2. /\ owner \in [Rows -> Nat] /\ seqLen \in [Rows -> 0 .. MaxLen] /\ served \in Nat
      /\ table \in [Rows -> [Positions -> 0 .. FullSlots]]
      /\ MaxLen \in Nat /\ FullSlots \in Nat /\ SlotsOwnedOnce /\ RowsFilled
  BY SizesAssumption, ModelledPools DEF Serving, ServeTypes
<1>3. swaOf' = [s \in 1 .. FullSlots |-> IF s \in out THEN 0 ELSE swaOf[s]]
  BY <1>1
<1>4. /\ owner' \in [Rows -> Nat] /\ seqLen' \in [Rows -> 0 .. MaxLen] /\ served' \in Nat
      /\ table' \in [Rows -> [Positions -> 0 .. FullSlots]]
  <2>1. none \in [Positions -> 0 .. FullSlots] /\ 0 \in 0 .. MaxLen
    BY <1>2
  <2> QED BY <1>1, <1>2, <2>1
<1>5. /\ owner'[r] = 0 /\ seqLen'[r] = 0 /\ \A p \in Positions : table'[r][p] = 0
      /\ \A q \in Rows : q # r =>
           owner'[q] = owner[q] /\ seqLen'[q] = seqLen[q] /\ table'[q] = table[q]
  BY <1>1, <1>2
<1>6. \A q \in Rows, p \in Positions : table'[q][p] # 0 => table'[q][p] = table[q][p]
  BY <1>5
<1>7. \A q \in Rows, p \in Positions :
        table[q][p] # 0 /\ table[q][p] \notin out => table'[q][p] = table[q][p]
  <2> SUFFICES ASSUME NEW q \in Rows, NEW p \in Positions, table[q][p] # 0, table[q][p] \notin out
               PROVE  table'[q][p] = table[q][p]
    OBVIOUS
  <2>1. table[q][p] \in 1 .. FullSlots
    BY <1>2
  <2>2. q # r
    BY <2>1
  <2> QED BY <1>5, <2>2
<1>8. \A q \in Rows : owner'[q] # 0 =>
        owner'[q] = owner[q] /\ seqLen'[q] = seqLen[q] /\ table'[q] = table[q]
  BY <1>5
<1>9. \A q \in Rows : owner'[q] = 0 =>
        seqLen'[q] = 0 /\ \A p \in Positions : table'[q][p] = 0
  <2> SUFFICES ASSUME NEW q \in Rows, q # r, owner'[q] = 0
               PROVE  seqLen'[q] = 0 /\ \A p \in Positions : table'[q][p] = 0
    BY <1>5
  <2> QED BY <1>2, <1>5 DEF RowsFilled, RowFilled
<1>10. \A q \in Rows, p \in Positions : table'[q][p] # 0 => table'[q][p] \notin out
  <2> SUFFICES ASSUME NEW q \in Rows, NEW p \in Positions, table'[q][p] # 0, table'[q][p] \in out
               PROVE  FALSE
    OBVIOUS
  <2>1. q # r /\ table'[q][p] = table[q][p]
    BY <1>5
  <2>2. PICK z \in Positions : table[r][z] = table[q][p]
    BY <2>1
  <2> QED BY <1>2, <2>1, <2>2 DEF SlotsOwnedOnce
<1> HIDE DEF out
<1> QED BY <1>1, <1>3, <1>4, <1>6, <1>7, <1>8, <1>9, <1>10, Releasing

LEMMA EvictSwaStep ==
  ASSUME Serving, NEW r \in Rows, EvictSwa(r)
  PROVE  Serving'
<1> DEFINE out == {table[r][p] : p \in {q \in Positions : q < seqLen[r] - Window}}
<1>1. /\ round.step = "idle"
      /\ swaOf' = [s \in 1 .. FullSlots |-> IF s \in out THEN 0 ELSE swaOf[s]]
      /\ UNCHANGED <<boot, owner, seqLen, chunked, table, served, target, draft, swaBuf, round>>
  BY DEF EvictSwa
<1>2. /\ owner \in [Rows -> Nat] /\ seqLen \in [Rows -> 0 .. MaxLen] /\ served \in Nat
      /\ table \in [Rows -> [Positions -> 0 .. FullSlots]]
      /\ SlotsOwnedOnce /\ RowsFilled /\ Window \in Int /\ \A p \in Positions : p \in Int
      /\ \A q \in Rows : seqLen[q] \in Int
  BY SizesAssumption DEF Serving, ServeTypes, Window, Positions
<1>3. \A q \in Rows, p \in Positions :
        p >= seqLen[q] - Window /\ table[q][p] # 0 => table[q][p] \notin out
  <2> SUFFICES ASSUME NEW q \in Rows, NEW p \in Positions, p >= seqLen[q] - Window,
                      table[q][p] # 0, table[q][p] \in out
               PROVE  FALSE
    OBVIOUS
  <2>1. PICK z \in Positions : z < seqLen[r] - Window /\ table[q][p] = table[r][z]
    OBVIOUS
  <2>2. q = r /\ p = z
    BY <1>2, <2>1 DEF SlotsOwnedOnce
  <2> QED BY <1>2, <2>1, <2>2
<1>4. \A q \in Rows : owner[q] = 0 => seqLen[q] = 0 /\ \A p \in Positions : table[q][p] = 0
  BY <1>2 DEF RowsFilled, RowFilled
<1> HIDE DEF out
<1> QED BY <1>1, <1>2, <1>3, <1>4, Releasing

(***************************************************************************)
(* The invariant.                                                          *)
(***************************************************************************)
LEMMA ServingInit == Init => Serving
<1> SUFFICES ASSUME Init PROVE Serving
  OBVIOUS
<1>1. Booted
  BY BootedInit
<1>2. FullSlots \in Nat /\ SwaSlots \in Nat /\ MaxLen \in Nat /\ \A p \in Positions : p \in Nat
  BY <1>1, ModelledPools, SizesAssumption DEF Positions
<1>3. /\ \A r \in Rows : owner[r] = 0 /\ seqLen[r] = 0 /\ \A p \in Positions : table[r][p] = 0
      /\ \A s \in 1 .. FullSlots : swaOf[s] = 0
  BY DEF Init
<1>4. ServeTypes
  <2>1. owner \in [Rows -> Nat] /\ seqLen \in [Rows -> 0 .. MaxLen] /\ served \in Nat
    BY <1>2 DEF Init
  <2>2. table \in [Rows -> [Positions -> 0 .. FullSlots]]
    BY <1>2 DEF Init
  <2>3. swaOf \in [1 .. FullSlots -> 0 .. SwaSlots]
    BY <1>2 DEF Init
  <2>4. /\ DOMAIN target.full = 1 .. FullSlots /\ DOMAIN target.swa = 1 .. SwaSlots
        /\ DOMAIN draft = 1 .. DraftSlots
    BY DEF Init, EmptyPool
  <2>5. DOMAIN swaBuf = 1 .. BufferSize
    BY DEF Init, BufferSize
  <2> QED BY <2>1, <2>2, <2>3, <2>4, <2>5 DEF ServeTypes
<1>5. SlotsOwnedOnce
  BY <1>3 DEF SlotsOwnedOnce
<1>6. RowsFilled
  BY <1>2, <1>3 DEF RowsFilled, RowFilled, FirstPositions
<1>7. Flight
  <2>1. /\ round.step = "idle" /\ round.rows = <<>> /\ round.width = <<>> /\ round.commit = <<>>
        /\ Len(<<>>) = 0 /\ 1 .. 0 = {} /\ round = Idle
    BY DEF Init, Idle
  <2>2. round \in [step : {"idle", "extend", "decode", "propose", "verify", "commit"},
                   rows : Seq(Rows), width : Seq(Nat), commit : Seq(Nat)]
    BY <2>1 DEF Idle
  <2> QED BY <2>1, <2>2 DEF Flight
<1>8. StoredSoFar
  <2>1. round.step = "idle"
    BY DEF Init, Idle
  <2> QED BY <1>3, <2>1 DEF StoredSoFar, Live
<1> QED BY <1>1, <1>4, <1>5, <1>6, <1>7, <1>8 DEF Serving

LEMMA ServingStutters ==
  ASSUME Serving, UNCHANGED vars
  PROVE  Serving'
<1>1. /\ boot' = boot /\ owner' = owner /\ seqLen' = seqLen /\ table' = table /\ swaOf' = swaOf
      /\ served' = served /\ target' = target /\ draft' = draft /\ swaBuf' = swaBuf
      /\ round' = round
  BY DEF vars, alloc
<1>2. /\ FullSlots' = FullSlots /\ SwaSlots' = SwaSlots /\ DraftSlots' = DraftSlots
      /\ Speculates' = Speculates /\ Booted' = Booted
  BY <1>1, SameServer
<1>3. Live' = Live
  BY <1>1 DEF Live
<1>4. ServeTypes' = ServeTypes
  BY <1>1, <1>2 DEF ServeTypes, BufferSize
<1>5. SlotsOwnedOnce' = SlotsOwnedOnce
  BY <1>1, <1>2 DEF SlotsOwnedOnce
<1>6. RowsFilled' = RowsFilled
  BY <1>1 DEF RowsFilled, RowFilled, FirstPositions
<1>7. Flight' = Flight
  BY <1>1, <1>2 DEF Flight, InBatch
<1>8. StoredSoFar' = StoredSoFar
  BY <1>1, <1>2, <1>3 DEF StoredSoFar, InTarget, InDraft, Token, Load, Translate
<1> QED BY <1>2, <1>4, <1>5, <1>6, <1>7, <1>8 DEF Serving

\* The allocator, the batch in flight and the pools agree in every state of a
\* server: no two positions share a slot of a pool, the committed positions
\* and those of the batch have slots, and the slots hold their tokens.
THEOREM ServingInvariant == Spec => []Serving
<1>1. Init => Serving
  BY ServingInit
<1>2. Serving /\ [Next]_vars => Serving'
  <2> SUFFICES ASSUME Serving, [Next]_vars PROVE Serving'
    OBVIOUS
  <2>1. ASSUME NEW r \in Rows, ScheduleExtend(r) PROVE Serving'
    BY <2>1, ScheduleExtendStep
  <2>2. ASSUME NEW r \in Rows, Finish(r) PROVE Serving'
    BY <2>2, FinishStep
  <2>3. ASSUME NEW r \in Rows, EvictSwa(r) PROVE Serving'
    BY <2>3, EvictSwaStep
  <2>4. ASSUME NEW batch \in SUBSET Rows, ScheduleBatch(batch) PROVE Serving'
    BY <2>4, ScheduleBatchStep
  <2>5. CASE Extend
    BY <2>5, ExtendStep
  <2>6. CASE Decode
    BY <2>6, DecodeStep
  <2>7. CASE Propose
    BY <2>7, ProposeStep
  <2>8. CASE Verify
    BY <2>8, VerifyStep
  <2>9. CASE Commit
    BY <2>9, CommitStep
  <2>10. CASE UNCHANGED vars
    BY <2>10, ServingStutters
  <2> QED BY <2>1, <2>2, <2>3, <2>4, <2>5, <2>6, <2>7, <2>8, <2>9, <2>10 DEF Next
<1> QED BY <1>1, <1>2, PTL DEF Spec

\* Between rounds every committed token of a live request is in the pools of
\* target and draft with its own scales: no padded row of a replayed graph, no
\* rejected draft, and no request that came or went wrote over it.
THEOREM CommittedStays == Spec => []CommittedIsStored
<1>1. Serving => CommittedIsStored
  BY DEF Serving, StoredSoFar, CommittedIsStored, InTarget, InDraft, Token
<1> QED BY <1>1, ServingInvariant, PTL

(***************************************************************************)
(* Offsets of runs: the indptr arrays of a forward.                        *)
(***************************************************************************)
Offsets(ptr, lens) ==
  ptr[0] = 0 /\ \A b \in 1 .. Len(lens) : ptr[b] = ptr[b - 1] + lens[b]

SumStep(lens, g, b) == IF b = 0 THEN 0 ELSE g[b - 1] + lens[b]
SumUpTo(lens, m) ==
  \E f \in [0 .. m -> Nat] : \A i \in 0 .. m : f[i] = SumStep(lens, f, i)

LEMMA SumExists ==
  ASSUME NEW lens \in Seq(Nat)
  PROVE  SumUpTo(lens, Len(lens))
<1> DEFINE n == Len(lens)
           bad == {m \in 0 .. n : ~SumUpTo(lens, m)}
<1>1. n \in Nat /\ \A i \in 1 .. n : lens[i] \in Nat
  OBVIOUS
<1> HIDE DEF n
<1> SUFFICES ASSUME bad # {} PROVE FALSE
  BY <1>1 DEF n
<1>2. bad \in SUBSET Nat
  OBVIOUS
<1>3. PICK m \in bad : \A k \in bad : m <= k
  BY <1>2, Least
<1>4. SumUpTo(lens, 0)
  <2> DEFINE f == [i \in 0 .. 0 |-> 0]
  <2>1. f \in [0 .. 0 -> Nat] /\ \A i \in 0 .. 0 : i = 0 /\ f[i] = 0
    OBVIOUS
  <2> HIDE DEF f
  <2> QED BY <2>1 DEF SumUpTo, SumStep
<1>5. m \in 1 .. n /\ m - 1 \in 0 .. n /\ ~(m <= m - 1)
  BY <1>1, <1>3, <1>4
<1>6. PICK f \in [0 .. m - 1 -> Nat] : \A i \in 0 .. m - 1 : f[i] = SumStep(lens, f, i)
  BY <1>3, <1>5 DEF SumUpTo
<1> DEFINE last == SumStep(lens, f, m)
           g == [i \in 0 .. m |-> IF i = m THEN last ELSE f[i]]
<1>7. last \in Nat
  BY <1>1, <1>5 DEF SumStep
<1> HIDE DEF last
<1>8. g \in [0 .. m -> Nat]
  BY <1>5, <1>7
<1>9. ASSUME NEW i \in 0 .. m PROVE g[i] = SumStep(lens, g, i)
  <2>1. i # 0 => i - 1 \in 0 .. m /\ i - 1 # m /\ g[i - 1] = f[i - 1]
    BY <1>5
  <2>2. SumStep(lens, g, i) = SumStep(lens, f, i)
    BY <2>1 DEF SumStep
  <2>3. CASE i = m
    BY <2>2, <2>3 DEF last
  <2>4. CASE i # m
    <3>1. i \in 0 .. m - 1 /\ g[i] = f[i]
      BY <1>5, <2>4
    <3> QED BY <1>6, <2>2, <3>1
  <2> QED BY <2>3, <2>4
<1> HIDE DEF g
<1>10. SumUpTo(lens, m)
  BY <1>8, <1>9 DEF SumUpTo
<1> QED BY <1>3, <1>10

LEMMA IndptrFacts ==
  ASSUME NEW lens \in Seq(Nat)
  PROVE  DOMAIN Indptr(lens) = 0 .. Len(lens) /\ Offsets(Indptr(lens), lens)
<1> DEFINE Rec(g) == [b \in 0 .. Len(lens) |-> IF b = 0 THEN 0 ELSE g[b - 1] + lens[b]]
           ptr == CHOOSE g : g = Rec(g)
<1>1. Indptr(lens) = ptr
  BY DEF Indptr
<1>2. PICK f \in [0 .. Len(lens) -> Nat] : \A i \in 0 .. Len(lens) : f[i] = SumStep(lens, f, i)
  BY SumExists DEF SumUpTo
<1>3. f = Rec(f)
  BY <1>2 DEF SumStep
<1>4. ptr = Rec(ptr)
  <2> HIDE DEF Rec
  <2> QED BY <1>3
<1> HIDE DEF ptr
<1>5. /\ DOMAIN ptr = 0 .. Len(lens)
      /\ \A b \in 0 .. Len(lens) : ptr[b] = IF b = 0 THEN 0 ELSE ptr[b - 1] + lens[b]
  BY <1>4
<1>6. Len(lens) \in Nat
  OBVIOUS
<1>7. ptr[0] = 0 /\ \A b \in 1 .. Len(lens) : ptr[b] = ptr[b - 1] + lens[b]
  BY <1>5, <1>6
<1> QED BY <1>1, <1>5, <1>7 DEF Offsets

LEMMA OffsetsOrdered ==
  ASSUME NEW lens \in Seq(Nat), NEW ptr, Offsets(ptr, lens)
  PROVE  \A b \in 0 .. Len(lens) : ptr[b] \in Nat /\ \A c \in 0 .. b : ptr[c] <= ptr[b]
<1> DEFINE n == Len(lens)
           fine(b) == ptr[b] \in Nat /\ \A c \in 0 .. b : ptr[c] <= ptr[b]
           bad == {b \in 0 .. n : ~fine(b)}
<1>1. n \in Nat /\ \A i \in 1 .. n : lens[i] \in Nat
  OBVIOUS
<1>2. ptr[0] = 0 /\ \A b \in 1 .. n : ptr[b] = ptr[b - 1] + lens[b]
  BY DEF Offsets
<1> HIDE DEF n
<1> SUFFICES ASSUME bad # {} PROVE FALSE
  BY DEF n
<1>3. bad \in SUBSET Nat
  OBVIOUS
<1>4. PICK m \in bad : \A k \in bad : m <= k
  BY <1>3, Least
<1>5. fine(0)
  BY <1>2
<1>6. m \in 1 .. n /\ m - 1 \in 0 .. n /\ ~(m <= m - 1)
  BY <1>1, <1>4, <1>5
<1>7. fine(m - 1)
  BY <1>4, <1>6
<1>8. ptr[m] = ptr[m - 1] + lens[m] /\ lens[m] \in Nat
  BY <1>1, <1>2, <1>6
<1>9. ptr[m] \in Nat /\ ptr[m - 1] <= ptr[m]
  BY <1>7, <1>8
<1>10. ASSUME NEW c \in 0 .. m PROVE ptr[c] <= ptr[m]
  <2>1. CASE c = m
    BY <1>9, <2>1
  <2>2. CASE c # m
    <3>1. c \in 0 .. m - 1
      BY <1>6, <2>2
    <3>2. ptr[c] <= ptr[m - 1] /\ c \in 0 .. n /\ ~(m <= c)
      <4>1. ptr[c] <= ptr[m - 1]
        BY <1>7, <3>1
      <4>2. c \in 0 .. n /\ ~(m <= c)
        BY <1>1, <1>6, <3>1
      <4> QED BY <4>1, <4>2
    <3>3. c \notin bad
      BY <1>4, <1>6, <3>2
    <3>4. ptr[c] \in Nat
      BY <3>2, <3>3
    <3> QED BY <1>7, <1>9, <3>2, <3>4
  <2> QED BY <2>1, <2>2
<1> QED BY <1>4, <1>9, <1>10

\* A cell lies in one run.
LEMMA OneRun ==
  ASSUME NEW lens \in Seq(Nat), NEW ptr, Offsets(ptr, lens),
         NEW b \in 1 .. Len(lens), NEW c \in 1 .. Len(lens), NEW x \in Int,
         ptr[b - 1] < x, x <= ptr[b], ptr[c - 1] < x, x <= ptr[c]
  PROVE  b = c
<1>1. \A d \in 0 .. Len(lens) : ptr[d] \in Nat /\ \A e \in 0 .. d : ptr[e] <= ptr[d]
  BY OffsetsOrdered
<1>2. Len(lens) \in Nat
  OBVIOUS
<1>3. ASSUME NEW d \in 1 .. Len(lens), NEW e \in 1 .. Len(lens), d < e,
             x <= ptr[d], ptr[e - 1] < x
      PROVE  FALSE
  <2>1. d \in 0 .. e - 1 /\ e - 1 \in 0 .. Len(lens) /\ d \in 0 .. Len(lens)
    BY <1>2, <1>3
  <2>2. ptr[d] <= ptr[e - 1] /\ ptr[d] \in Nat /\ ptr[e - 1] \in Nat
    BY <1>1, <2>1
  <2> QED BY <1>3, <2>2
<1>4. ~(b < c) /\ ~(c < b)
  BY <1>3
<1> QED BY <1>2, <1>4

(***************************************************************************)
(* Where the elements of a flattened sequence of runs lie.                 *)
(***************************************************************************)
Lies(A, ptr, m, f) ==
  /\ Len(f) = ptr[m]
  /\ \A b \in 1 .. m : \A j \in 1 .. Len(A[b]) : f[ptr[b - 1] + j] = A[b][j]

LEMMA FlattenPlaces ==
  ASSUME NEW T, NEW A \in Seq(Seq(T)), NEW ptr,
         ptr[0] = 0, \A b \in 1 .. Len(A) : ptr[b] = ptr[b - 1] + Len(A[b])
  PROVE  FlattenSeq(A) \in Seq(T) /\ Lies(A, ptr, Len(A), FlattenSeq(A))
<1> DEFINE n == Len(A)
           lens == [b \in 1 .. n |-> Len(A[b])]
<1>1. n \in Nat /\ \A b \in 1 .. n : A[b] \in Seq(T) /\ Len(A[b]) \in Nat
  OBVIOUS
<1>2. PICK F \in [0 .. n -> Seq(T)] :
        /\ F[0] = <<>> /\ F[n] = FlattenSeq(A)
        /\ \A i \in 1 .. n : F[i] = F[i - 1] \o A[i]
  BY FlattenUnfolds
<1> HIDE DEF n
<1>3. lens \in Seq(Nat) /\ Len(lens) = n /\ Offsets(ptr, lens)
  <2>1. lens \in [1 .. n -> Nat]
    BY <1>1
  <2>2. \A b \in 1 .. n : lens[b] = Len(A[b])
    OBVIOUS
  <2> HIDE DEF lens
  <2>3. lens \in Seq(Nat) /\ Len(lens) = n
    BY <1>1, <2>1, IsSequence
  <2> QED BY <2>2, <2>3 DEF Offsets, n
<1> HIDE DEF lens
<1>4. \A b \in 0 .. n : ptr[b] \in Nat /\ \A c \in 0 .. b : ptr[c] <= ptr[b]
  BY <1>3, OffsetsOrdered
<1>5. \A b \in 1 .. n : ptr[b] = ptr[b - 1] + Len(A[b])
  BY DEF n
<1> DEFINE bad == {m \in 0 .. n : ~Lies(A, ptr, m, F[m])}
<1>6. bad = {}
  <2> SUFFICES ASSUME bad # {} PROVE FALSE
    OBVIOUS
  <2>1. bad \in SUBSET Nat
    BY <1>1
  <2>2. PICK m \in bad : \A k \in bad : m <= k
    BY <2>1, Least
  <2>3. Lies(A, ptr, 0, F[0])
    <3>1. Len(<<>>) = 0 /\ 1 .. 0 = {}
      OBVIOUS
    <3> QED BY <1>2, <3>1 DEF Lies
  <2>4. m \in 1 .. n /\ m - 1 \in 0 .. n /\ ~(m <= m - 1)
    BY <1>1, <2>2, <2>3
  <2>5. Lies(A, ptr, m - 1, F[m - 1])
    BY <2>2, <2>4
  <2> DEFINE s == F[m - 1]
             t == A[m]
             u == F[m]
  <2>6. s \in Seq(T) /\ t \in Seq(T) /\ u = s \o t
    BY <1>1, <1>2, <2>4
  <2>7. /\ Len(s) = ptr[m - 1]
        /\ \A b \in 1 .. m - 1 : \A j \in 1 .. Len(A[b]) : s[ptr[b - 1] + j] = A[b][j]
    BY <2>5 DEF Lies
  <2>8. ptr[m] = ptr[m - 1] + Len(t) /\ ptr[m - 1] \in Nat /\ Len(t) \in Nat
    BY <1>1, <1>4, <1>5, <2>4
  <2> HIDE DEF s, t, u
  <2>9. /\ Len(u) = ptr[m]
        /\ \A x \in 1 .. Len(s) : u[x] = s[x]
        /\ \A j \in 1 .. Len(t) : u[ptr[m - 1] + j] = t[j]
    <3>1. /\ Len(u) = Len(s) + Len(t)
          /\ \A x \in 1 .. Len(s) : u[x] = s[x]
          /\ \A j \in 1 .. Len(t) : u[Len(s) + j] = t[j]
      BY <2>6, ConcatFacts
    <3> QED BY <2>7, <2>8, <3>1
  <2>10. ASSUME NEW b \in 1 .. m, NEW j \in 1 .. Len(A[b]) PROVE u[ptr[b - 1] + j] = A[b][j]
    <3>1. CASE b = m
      BY <2>9, <3>1 DEF t
    <3>2. CASE b # m
      <4>1. b \in 1 .. m - 1 /\ b \in 1 .. n /\ b - 1 \in 0 .. n /\ b \in 0 .. m - 1
        BY <1>1, <2>4, <3>2
      <4>2. ptr[b] <= ptr[m - 1] /\ ptr[b - 1] \in Nat /\ ptr[b] = ptr[b - 1] + Len(A[b])
        BY <1>4, <1>5, <2>4, <4>1
      <4>3. j \in Nat /\ 1 <= j /\ j <= Len(A[b]) /\ Len(A[b]) \in Nat
        BY <1>1, <4>1
      <4>4. ptr[b - 1] + j \in 1 .. Len(s)
        <5> DEFINE x == ptr[b - 1]
                   l == Len(A[b])
        <5>1. x \in Nat /\ l \in Nat /\ j \in Nat /\ 1 <= j /\ j <= l /\ x + l <= ptr[m - 1]
              /\ Len(s) = ptr[m - 1] /\ ptr[m - 1] \in Nat
          BY <2>7, <2>8, <4>2, <4>3
        <5> HIDE DEF x, l
        <5>2. x + j \in 1 .. Len(s)
          BY <5>1
        <5> QED BY <5>2 DEF x
      <4> QED BY <2>7, <2>9, <4>1, <4>4
    <3> QED BY <3>1, <3>2
  <2>11. Lies(A, ptr, m, u)
    BY <2>9, <2>10 DEF Lies
  <2> QED BY <2>2, <2>11 DEF u
<1>7. Lies(A, ptr, n, F[n]) /\ F[n] \in Seq(T)
  BY <1>1, <1>2, <1>6
<1> QED BY <1>2, <1>7 DEF n

(***************************************************************************)
(* The indices a forward reads through.                                    *)
(***************************************************************************)
LEMMA KvIndicesFacts ==
  ASSUME NEW lens \in Seq(Nat), NEW rows \in Seq(Rows), Len(rows) = Len(lens), NEW starts,
         NEW b \in 1 .. Len(lens), starts[b] \in Nat, NEW i \in 0 .. lens[b] - 1
  PROVE  /\ Indptr(lens)[b - 1] + i \in DOMAIN KvIndices(rows, lens, starts)
         /\ KvIndices(rows, lens, starts)[Indptr(lens)[b - 1] + i] = table[rows[b]][starts[b] + i]
<1> DEFINE n == Len(lens)
           ptr == Indptr(lens)
           rowOf(k) == CHOOSE c \in DOMAIN rows : ptr[c - 1] <= k /\ k < ptr[c]
           k0 == ptr[b - 1] + i
<1>1. n \in Nat /\ DOMAIN rows = 1 .. n /\ lens[b] \in Nat /\ b - 1 \in 0 .. n /\ n \in 0 .. n /\ b \in 0 .. n
  <2>1. n \in Nat /\ lens[b] \in Nat
    OBVIOUS
  <2>2. DOMAIN rows = 1 .. Len(rows)
    BY Elements
  <2> QED BY <2>1, <2>2
<1>2. Offsets(ptr, lens)
  BY IndptrFacts
<1>3. KvIndices(rows, lens, starts) =
        [k \in 0 .. ptr[n] - 1 |-> table[rows[rowOf(k)]][starts[rowOf(k)] + k - ptr[rowOf(k) - 1]]]
  BY DEF KvIndices
<1> HIDE DEF ptr
<1>4. /\ ptr[b - 1] \in Nat /\ ptr[b] \in Nat /\ ptr[n] \in Nat /\ ptr[b] <= ptr[n]
      /\ ptr[b] = ptr[b - 1] + lens[b]
  <2>1. \A d \in 0 .. n : ptr[d] \in Nat /\ \A c \in 0 .. d : ptr[c] <= ptr[d]
    BY <1>2, OffsetsOrdered
  <2>2. b \in 0 .. n /\ n \in 0 .. n
    BY <1>1
  <2> QED BY <1>1, <1>2, <2>1, <2>2 DEF Offsets
<1>5. k0 \in 0 .. ptr[n] - 1 /\ ptr[b - 1] <= k0 /\ k0 < ptr[b] /\ k0 \in Int
  <2> DEFINE x == ptr[b - 1]
             y == ptr[b]
             z == ptr[n]
             l == lens[b]
  <2>1. x \in Nat /\ y \in Nat /\ z \in Nat /\ y <= z /\ y = x + l /\ i \in 0 .. l - 1 /\ l \in Nat
    BY <1>1, <1>4
  <2> HIDE DEF x, y, z, l
  <2>2. x + i \in 0 .. z - 1 /\ x <= x + i /\ x + i < y /\ x + i \in Int
    BY <2>1
  <2> QED BY <2>2 DEF x, y, z
<1> DEFINE c == rowOf(k0)
<1>6. c \in 1 .. n /\ ptr[c - 1] <= k0 /\ k0 < ptr[c]
  <2>1. b \in DOMAIN rows
    BY <1>1
  <2> HIDE DEF k0
  <2> QED BY <1>1, <1>5, <2>1
<1>7. c = b
  <2> HIDE DEF c
  <2> DEFINE x == k0 + 1
  <2>1. x \in Int
    BY <1>5
  <2>2. ptr[b - 1] < x /\ x <= ptr[b]
    BY <1>4, <1>5
  <2>3. ptr[c - 1] < x /\ x <= ptr[c]
    <3>1. ptr[c - 1] \in Nat /\ ptr[c] \in Nat
      <4>1. \A d \in 0 .. n : ptr[d] \in Nat
        BY <1>2, OffsetsOrdered
      <4>2. c \in 0 .. n /\ c - 1 \in 0 .. n
        BY <1>1, <1>6
      <4> QED BY <4>1, <4>2
    <3> QED BY <1>5, <1>6, <3>1
  <2> HIDE DEF x
  <2> QED BY <1>2, <1>6, <2>1, <2>2, <2>3, OneRun
<1>8. KvIndices(rows, lens, starts)[k0] = table[rows[b]][starts[b] + k0 - ptr[b - 1]]
  <2>1. KvIndices(rows, lens, starts)[k0] = table[rows[c]][starts[c] + k0 - ptr[c - 1]]
    <3> HIDE DEF k0
    <3> QED BY <1>3, <1>5
  <2> QED BY <1>7, <2>1
<1>9. starts[b] + k0 - ptr[b - 1] = starts[b] + i
  BY <1>4
<1>10. k0 \in DOMAIN KvIndices(rows, lens, starts)
  BY <1>3, <1>5
<1> QED BY <1>8, <1>9, <1>10 DEF ptr

\* Request b of the batch reads k keys: the slots of the positions of row r
\* from `from` on, through the map M.
Reads(meta, b, k, r, from, M) ==
  /\ KeyCount(meta, b) = k
  /\ \A i \in 0 .. k - 1 : meta.indices[meta.indptr[b - 1] + i] = M[table[r][from + i]]

LEMMA KeysCounted ==
  ASSUME NEW lens \in Seq(Nat), NEW b \in 1 .. Len(lens)
  PROVE  Indptr(lens)[b] - Indptr(lens)[b - 1] = lens[b]
<1>1. \A d \in 0 .. Len(lens) : Indptr(lens)[d] \in Nat
  BY IndptrFacts, OffsetsOrdered
<1>2. Indptr(lens)[b] = Indptr(lens)[b - 1] + lens[b]
  BY IndptrFacts DEF Offsets
<1>3. b - 1 \in 0 .. Len(lens) /\ lens[b] \in Nat
  OBVIOUS
<1> QED BY <1>1, <1>2, <1>3

LEMMA FullReads ==
  ASSUME ServeTypes, NEW lens \in Seq(Nat), NEW rows \in Seq(Rows), Len(rows) = Len(lens),
         NEW b \in 1 .. Len(lens), lens[b] <= MaxLen
  PROVE  Reads(FullMetadata(rows, lens), b, lens[b], rows[b], 0, Same)
<1> DEFINE meta == FullMetadata(rows, lens)
           starts == [c \in DOMAIN rows |-> 0]
<1>1. meta.indptr = Indptr(lens) /\ meta.indices = KvIndices(rows, lens, starts)
  BY DEF FullMetadata
<1>2. b \in DOMAIN rows /\ rows[b] \in Rows /\ lens[b] \in Nat
  <2>1. b \in 1 .. Len(rows)
    OBVIOUS
  <2>2. lens[b] \in Nat
    OBVIOUS
  <2> QED BY <2>1, <2>2, Elements
<1>3. starts[b] = 0
  BY <1>2
<1> HIDE DEF meta, starts
<1>4. KeyCount(meta, b) = lens[b]
  BY <1>1, KeysCounted DEF KeyCount
<1>5. ASSUME NEW i \in 0 .. lens[b] - 1
      PROVE  meta.indices[meta.indptr[b - 1] + i] = Same[table[rows[b]][0 + i]]
  <2>1. KvIndices(rows, lens, starts)[Indptr(lens)[b - 1] + i] = table[rows[b]][starts[b] + i]
    <3>1. starts[b] \in Nat
      BY <1>3
    <3> QED BY <3>1, KvIndicesFacts
  <2>2. 0 + i \in Positions /\ starts[b] + i = 0 + i
    BY <1>2, <1>3, SizesAssumption DEF Positions
  <2>3. table[rows[b]][0 + i] \in 0 .. FullSlots
    BY <1>2, <2>2 DEF ServeTypes
  <2> QED BY <1>1, <2>1, <2>2, <2>3 DEF Same
<1> QED BY <1>4, <1>5 DEF Reads, meta

\* The part of a context a local layer's pool is read for.
WindowLen(l) == IF l <= Window THEN l ELSE Window
LEMMA WindowReads ==
  ASSUME ServeTypes, NEW lens \in Seq(Nat), NEW rows \in Seq(Rows), Len(rows) = Len(lens),
         NEW b \in 1 .. Len(lens), lens[b] <= MaxLen
  PROVE  /\ WindowLen(lens[b]) \in 0 .. lens[b]
         /\ Reads(WindowMetadata(rows, lens), b, WindowLen(lens[b]), rows[b],
                  lens[b] - WindowLen(lens[b]), Behind)
         /\ WindowMetadata(rows, lens).offsets[b] = lens[b] - WindowLen(lens[b])
<1> DEFINE meta == WindowMetadata(rows, lens)
           wl == [c \in DOMAIN lens |-> IF lens[c] <= Window THEN lens[c] ELSE Window]
           starts == [c \in DOMAIN lens |-> lens[c] - wl[c]]
           ix == KvIndices(rows, wl, starts)
<1>1. /\ meta.indptr = Indptr(wl)
      /\ meta.indices = [i \in DOMAIN ix |-> Translate(ix[i])]
      /\ meta.offsets = starts
  BY DEF WindowMetadata
<1>2. /\ Len(lens) \in Nat /\ DOMAIN lens = 1 .. Len(lens)
      /\ \A c \in 1 .. Len(lens) : lens[c] \in Nat
      /\ Window \in Nat /\ MaxLen \in Nat
  <2>1. /\ Len(lens) \in Nat /\ DOMAIN lens = 1 .. Len(lens)
        /\ \A c \in 1 .. Len(lens) : lens[c] \in Nat
    BY Elements
  <2>2. Window \in Nat /\ MaxLen \in Nat
    BY SizesAssumption DEF Window
  <2> QED BY <2>1, <2>2
<1>3. \A c \in 1 .. Len(lens) :
        wl[c] = WindowLen(lens[c]) /\ wl[c] \in 0 .. lens[c] /\ starts[c] = lens[c] - wl[c]
  BY <1>2 DEF WindowLen
<1>4. wl \in [1 .. Len(lens) -> Nat]
  BY <1>2, <1>3
<1> HIDE DEF meta, wl, starts
<1>5. wl \in Seq(Nat) /\ Len(wl) = Len(lens)
  BY <1>2, <1>4, IsSequence
<1>6. KeyCount(meta, b) = wl[b]
  BY <1>1, <1>5, KeysCounted DEF KeyCount
<1>7. rows[b] \in Rows
  BY Elements
<1>8. wl[b] \in Nat /\ starts[b] \in Nat /\ starts[b] + wl[b] = lens[b] /\ lens[b] \in Nat
  BY <1>2, <1>3
<1>9. ASSUME NEW i \in 0 .. wl[b] - 1
      PROVE  meta.indices[meta.indptr[b - 1] + i] = Behind[table[rows[b]][starts[b] + i]]
  <2> DEFINE k == Indptr(wl)[b - 1] + i
  <2>1. b \in 1 .. Len(wl) /\ Len(rows) = Len(wl)
    BY <1>5
  <2>2. k \in DOMAIN ix /\ ix[k] = table[rows[b]][starts[b] + i]
    BY <1>5, <1>8, <2>1, KvIndicesFacts
  <2>3. starts[b] + i \in Positions
    BY <1>2, <1>8 DEF Positions
  <2>4. table[rows[b]][starts[b] + i] \in 0 .. FullSlots
    BY <1>7, <2>3 DEF ServeTypes
  <2> HIDE DEF ix, k
  <2>5. meta.indices[k] = Translate(ix[k])
    BY <1>1, <2>2
  <2> QED BY <1>1, <2>2, <2>4, <2>5 DEF Behind, k
<1>10. wl[b] = WindowLen(lens[b]) /\ wl[b] \in 0 .. lens[b] /\ starts[b] = lens[b] - wl[b]
  BY <1>3
<1>11. Reads(meta, b, wl[b], rows[b], starts[b], Behind)
  BY <1>6, <1>9 DEF Reads
<1> QED BY <1>1, <1>10, <1>11 DEF meta

\* The batch of a forward as its graph sees it: the live rows come first.
Extends(long, seq) == Len(seq) <= Len(long) /\ \A b \in 1 .. Len(seq) : long[b] = seq[b]

LEMMA ReplayedFacts ==
  ASSUME NEW U, NEW seq \in Seq(U), NEW fill \in U, NEW g \in GraphChoices(Len(seq))
  PROVE  /\ Replayed(seq, g, fill) \in Seq(U) /\ Extends(Replayed(seq, g, fill), seq)
         /\ Len(Replayed(seq, g, fill)) = IF g = 0 THEN Len(seq) ELSE g
<1> DEFINE n == Len(seq)
           t == [i \in 1 .. g - n |-> fill]
<1>1. n \in Nat /\ GraphSizes \in SUBSET Nat
  BY SizesAssumption
<1>2. CASE g = 0
  BY <1>1, <1>2 DEF Replayed, Extends
<1>3. CASE g # 0
  <2>1. g \in GraphSizes /\ g >= n
    <3> HIDE DEF n
    <3>1. g \in GraphChoices(n)
      BY DEF n
    <3> QED BY <1>3, <3>1 DEF GraphChoices
  <2>2. g - n \in Nat /\ n + (g - n) = g /\ n <= g
    BY <1>1, <2>1
  <2>3. t \in [1 .. g - n -> U]
    OBVIOUS
  <2>4. Replayed(seq, g, fill) = seq \o t
    BY <1>3 DEF Replayed, PadTo
  <2> HIDE DEF t
  <2>5. t \in Seq(U) /\ Len(t) = g - n
    BY <2>2, <2>3, IsSequence
  <2>6. seq \o t \in Seq(U) /\ Len(seq \o t) = g /\ \A x \in 1 .. n : (seq \o t)[x] = seq[x]
    BY <2>2, <2>5, ConcatFacts
  <2> QED BY <1>3, <2>2, <2>4, <2>6 DEF Extends
<1> QED BY <1>2, <1>3

(***************************************************************************)
(* What a row of a forward weighs: the pool entries of positions of its    *)
(* request, each once.                                                     *)
(***************************************************************************)
\* Position q of request b as the forward sees it: committed, or the token the
\* forward runs there.
Seen(b, tok, q) ==
  Entry(KV(owner[round.rows[b]], q,
           IF q < seqLen[round.rows[b]] THEN "t" ELSE tok[b][q - seqLen[round.rows[b]] + 1]))
Weighs(bag, b, tok, Q) ==
  DOMAIN bag = {Seen(b, tok, q) : q \in Q} /\ \A e \in DOMAIN bag : bag[e] = 1

LEMMA SeenOnce ==
  ASSUME NEW b, NEW tok, NEW q, NEW z, Seen(b, tok, q) = Seen(b, tok, z)
  PROVE  q = z
<1>1. Seen(b, tok, q).payload = Seen(b, tok, z).payload
  OBVIOUS
<1>2. \A y : Seen(b, tok, y).payload[2] = y
  BY DEF Seen, Entry, KV
<1> QED BY <1>1, <1>2

\* Operands in one place each: pos places them at the positions Q.
Places(pos, S, Q) ==
  /\ \A x \in S : pos[x] \in Q
  /\ \A q \in Q : \E x \in S : pos[x] = q
  /\ \A x, y \in S : pos[x] = pos[y] => x = y

AllSeen(F, S, pos, b, tok) == \A x \in S : F[x] = Seen(b, tok, pos[x])
Counted(F, S) == [e \in {F[x] : x \in S} |-> Cardinality({x \in S : F[x] = e})]

LEMMA BagWeighs ==
  ASSUME NEW S, NEW pos, NEW Q, Places(pos, S, Q), NEW b, NEW tok, NEW F,
         AllSeen(F, S, pos, b, tok)
  PROVE  Weighs(Counted(F, S), b, tok, Q)
<1> DEFINE bag == Counted(F, S)
<1>1. \A x \in S : F[x] = Seen(b, tok, pos[x])
  BY DEF AllSeen
<1>2. DOMAIN bag = {F[x] : x \in S}
  BY DEF Counted
<1>3. {F[x] : x \in S} = {Seen(b, tok, q) : q \in Q}
  BY <1>1 DEF Places
<1>4. ASSUME NEW x \in S PROVE {y \in S : F[y] = F[x]} = {x}
  <2>1. ASSUME NEW y \in S, F[y] = F[x] PROVE y = x
    <3>1. Seen(b, tok, pos[y]) = Seen(b, tok, pos[x])
      BY <1>1, <2>1
    <3>2. pos[y] = pos[x]
      BY <3>1, SeenOnce
    <3> QED BY <3>2 DEF Places
  <2> QED BY <2>1
<1>5. ASSUME NEW e \in DOMAIN bag PROVE bag[e] = 1
  <2>1. PICK x \in S : e = F[x]
    BY <1>2
  <2>2. bag[e] = Cardinality({y \in S : F[y] = e})
    BY <1>2, <1>5 DEF Counted
  <2>3. bag[e] = Cardinality({x})
    BY <1>4, <2>1, <2>2
  <2> QED BY <2>3, FS_Singleton
<1> QED BY <1>2, <1>3, <1>5 DEF Weighs

\* The pool holds the positions of request b that the forward reads of it.
Holds(pool, M, b, tok, Q) ==
  \A q \in Q : Load(pool, M[table[round.rows[b]][q]]) = Seen(b, tok, q)

LEMMA DecodeWeighs ==
  ASSUME NEW meta, NEW pool, NEW b, NEW tok, NEW n \in Nat \ {0}, NEW from \in Nat, NEW M,
         Reads(meta, b, n, round.rows[b], from, M), NEW splits \in 1 .. MaxSplits,
         Holds(pool, M, b, tok, from .. from + n - 1)
  PROVE  Weighs(DecodeBag(meta, pool, b, splits), b, tok, from .. from + n - 1)
<1> DEFINE S == UNION {{<<i, l>> : l \in DecodeLoads(n, splits, i)} : i \in 0 .. n - 1}
           F == [x \in S |-> Key(meta, pool, b, x[1])]
           pos == [x \in S |-> from + x[1]]
           bag == DecodeBag(meta, pool, b, splits)
           Q == from .. from + n - 1
<1>1. KeyCount(meta, b) = n
  BY DEF Reads
<1>2. bag = Counted(F, S)
  <2>1. bag = [e \in {Key(meta, pool, b, x[1]) : x \in S} |->
                Cardinality({x \in S : Key(meta, pool, b, x[1]) = e})]
    BY <1>1 DEF DecodeBag, BagOf
  <2> HIDE DEF S, bag
  <2>2. \A x \in S : F[x] = Key(meta, pool, b, x[1])
    OBVIOUS
  <2> HIDE DEF F
  <2>3. {Key(meta, pool, b, x[1]) : x \in S} = {F[x] : x \in S}
    BY <2>2
  <2>4. \A e : {x \in S : Key(meta, pool, b, x[1]) = e} = {x \in S : F[x] = e}
    BY <2>2
  <2> QED BY <2>1, <2>3, <2>4 DEF Counted
<1>3. splits \in Nat \ {0}
  BY SizesAssumption
<1>4. ASSUME NEW i \in 0 .. n - 1
      PROVE  \E l : DecodeLoads(n, splits, i) = {l}
  <2> HIDE DEF S, F, pos, bag, Q
  <2>1. n \in Nat \ {0} /\ splits \in Nat \ {0} /\ i \in 0 .. n - 1
    BY <1>3
  <2>2. LoadedOnce(n, splits, i)
    BY <2>1, OneLoad
  <2> QED BY <2>2 DEF LoadedOnce
<1>5. \A x \in S : \E i \in 0 .. n - 1 : x[1] = i /\ \E l \in DecodeLoads(n, splits, i) : x = <<i, l>>
  OBVIOUS
<1>6. ASSUME NEW i \in 0 .. n - 1
      PROVE  /\ from + i \in Q
             /\ \E x \in S : x[1] = i
  <2>1. from + i \in Q
    OBVIOUS
  <2>2. PICK l : DecodeLoads(n, splits, i) = {l}
    BY <1>4
  <2>3. <<i, l>> \in S
    BY <2>2
  <2> QED BY <2>1, <2>3
<1>7. ASSUME NEW x \in S, NEW y \in S, x[1] = y[1] PROVE x = y
  <2>1. PICK i \in 0 .. n - 1 : x[1] = i /\ \E l \in DecodeLoads(n, splits, i) : x = <<i, l>>
    BY <1>5
  <2>2. PICK j \in 0 .. n - 1 : y[1] = j /\ \E l \in DecodeLoads(n, splits, j) : y = <<j, l>>
    BY <1>5
  <2>3. i = j
    BY <1>7, <2>1, <2>2
  <2> QED BY <1>4, <2>1, <2>2, <2>3
<1> HIDE DEF S, bag
<1>8. \A x \in S : x[1] \in 0 .. n - 1
  BY <1>5
<1>9. Places(pos, S, Q)
  <2>1. \A x \in S : pos[x] \in Q
    BY <1>6, <1>8
  <2>2. ASSUME NEW q \in Q PROVE \E x \in S : pos[x] = q
    <3>1. q - from \in 0 .. n - 1 /\ from + (q - from) = q
      OBVIOUS
    <3>2. PICK x \in S : x[1] = q - from
      BY <1>6, <3>1
    <3> QED BY <3>1, <3>2
  <2>3. ASSUME NEW x \in S, NEW y \in S, pos[x] = pos[y] PROVE x = y
    <3>1. x[1] = y[1]
      BY <1>8, <2>3
    <3> QED BY <1>7, <3>1
  <2> HIDE DEF pos, Q
  <2> QED BY <2>1, <2>2, <2>3 DEF Places
<1>10. ASSUME NEW x \in S PROVE F[x] = Seen(b, tok, pos[x])
  <2>1. x[1] \in 0 .. n - 1 /\ F[x] = Key(meta, pool, b, x[1]) /\ pos[x] = from + x[1]
    BY <1>8
  <2>2. from + x[1] \in Q
    BY <1>6, <1>8
  <2>3. Key(meta, pool, b, x[1]) = Load(pool, M[table[round.rows[b]][from + x[1]]])
    BY <2>1 DEF Reads, Key
  <2> HIDE DEF F, pos, Q
  <2>4. Load(pool, M[table[round.rows[b]][from + x[1]]]) = Seen(b, tok, from + x[1])
    BY <2>2 DEF Holds, Q
  <2> QED BY <2>1, <2>3, <2>4
<1> HIDE DEF F, pos, Q
<1>11. AllSeen(F, S, pos, b, tok)
  BY <1>10 DEF AllSeen
<1>12. Weighs(bag, b, tok, Q)
  BY <1>2, <1>9, <1>11, BagWeighs
<1> QED BY <1>12 DEF bag, Q

\* Row m of request b in the chunk that begins after cell qo[b - 1].
RunCell(qo, b, m, extend, x) ==
  /\ \E run \in Seq(Nat) :
       /\ DOMAIN qo = 0 .. Len(run) /\ Offsets(qo, run)
       /\ b \in 1 .. Len(run) /\ run[b] = extend
  /\ extend \in Nat /\ m \in 0 .. extend - 1 /\ x = qo[b - 1] + m + 1

\* The rows of request b, at their cells.
ChunkRows(kvs, qo, b, extend, tok) ==
  \A n \in 0 .. extend - 1 :
    /\ qo[b - 1] + n + 1 \in DOMAIN kvs
    /\ kvs[qo[b - 1] + n + 1]
         = KV(owner[round.rows[b]], seqLen[round.rows[b]] + n, tok[b][n + 1])

\* Row m of request b sees the rows of its chunk up to row `last`, by the custom
\* mask if there is one and by IS_CAUSAL otherwise.
Admits(causal, mask, base, prefix, extend, offset, m, last) ==
  \A n \in 0 .. extend - 1 :
    (IF mask # <<>> THEN mask[1 + MaskCell(base, prefix, extend, offset, m, n)]
     ELSE causal => n <= m) <=> n <= last

Columns(extend, last) == {n \in 0 .. extend - 1 : n <= last}
Operands(prefix, extend, last, m, window) ==
  {<<"pool", n>> : n \in PrefixKeys(prefix, m, window)}
    \cup {<<"chunk", n>> : n \in ChunkKeys(Columns(extend, last), m, window)}
OperandEntry(meta, pool, kvs, qo, b, w) ==
  IF w[1] = "pool" THEN Key(meta, pool, b, w[2])
  ELSE LET y == qo[b - 1] + w[2] + 1
       IN  IF y \in DOMAIN kvs THEN Entry(kvs[y]) ELSE Entry(NoKV)

LEMMA RunChosen ==
  ASSUME NEW qo, NEW b, NEW m, NEW extend, NEW x, RunCell(qo, b, m, extend, x)
  PROVE  /\ (CHOOSE c \in DOMAIN qo \ {0} : qo[c - 1] < x /\ x <= qo[c]) = b
         /\ x - 1 - qo[b - 1] = m /\ qo[b] - qo[b - 1] = extend
         /\ qo[b - 1] \in Nat
<1>1. extend \in Nat /\ m \in 0 .. extend - 1 /\ x = qo[b - 1] + m + 1
  BY DEF RunCell
<1>2. PICK run \in Seq(Nat) :
        /\ DOMAIN qo = 0 .. Len(run) /\ Offsets(qo, run)
        /\ b \in 1 .. Len(run) /\ run[b] = extend
  BY DEF RunCell
<1>3. \A d \in 0 .. Len(run) : qo[d] \in Nat
  BY <1>2, OffsetsOrdered
<1>4. Len(run) \in Nat
  OBVIOUS
<1>5. b - 1 \in 0 .. Len(run) /\ b \in 0 .. Len(run) /\ b \in DOMAIN qo \ {0}
  BY <1>2, <1>4
<1>6. qo[b - 1] \in Nat /\ qo[b] \in Nat
  BY <1>3, <1>5
<1>7. qo[b] = qo[b - 1] + extend
  BY <1>2 DEF Offsets
<1>8. qo[b - 1] < x /\ x <= qo[b] /\ x \in Int /\ x - 1 - qo[b - 1] = m /\ qo[b] - qo[b - 1] = extend
  BY <1>1, <1>6, <1>7
<1> DEFINE c == CHOOSE d \in DOMAIN qo \ {0} : qo[d - 1] < x /\ x <= qo[d]
<1>9. c \in DOMAIN qo \ {0} /\ qo[c - 1] < x /\ x <= qo[c]
  BY <1>5, <1>8
<1> HIDE DEF c
<1>10. c \in 1 .. Len(run)
  BY <1>2, <1>4, <1>9
<1>11. c = b
  BY <1>2, <1>8, <1>9, <1>10, OneRun
<1> QED BY <1>6, <1>8, <1>11 DEF c

LEMMA ExtendCounts ==
  ASSUME NEW meta, NEW pool, NEW kvs, NEW qo, NEW x, NEW window \in Nat, NEW causal, NEW mask,
         NEW lens, NEW b, NEW m, NEW extend, RunCell(qo, b, m, extend, x),
         NEW prefix, KeyCount(meta, b) = prefix,
         NEW offset, offset = IF window > 0 THEN meta.offsets[b] ELSE 0,
         NEW last, Admits(causal, mask, MaskIndptr(lens)[b - 1], prefix, extend, offset, m, last)
  PROVE  \E F : /\ ExtendBag(meta, pool, kvs, qo, x, window, causal, mask, lens)
                     = Counted(F, Operands(prefix, extend, last, m, window))
                /\ \A w \in Operands(prefix, extend, last, m, window) :
                     F[w] = OperandEntry(meta, pool, kvs, qo, b, w)
<1> DEFINE allowed(d) ==
             {n \in 0 .. qo[d] - qo[d - 1] - 1 :
                IF mask # <<>>
                THEN mask[1 + MaskCell(MaskIndptr(lens)[d - 1], KeyCount(meta, d),
                                       qo[d] - qo[d - 1],
                                       IF window > 0 THEN meta.offsets[d] ELSE 0,
                                       x - 1 - qo[d - 1], n)]
                ELSE causal => n <= x - 1 - qo[d - 1]}
           weighed(d) ==
             {<<"pool", n>> : n \in PrefixKeys(KeyCount(meta, d), x - 1 - qo[d - 1], window)}
             \cup {<<"chunk", n>> : n \in ChunkKeys(allowed(d), x - 1 - qo[d - 1], window)}
           entry(d, w) ==
             IF w[1] = "pool" THEN Key(meta, pool, d, w[2])
             ELSE LET y == qo[d - 1] + w[2] + 1
                  IN  IF y \in DOMAIN kvs THEN Entry(kvs[y]) ELSE Entry(NoKV)
           c == CHOOSE d \in DOMAIN qo \ {0} : qo[d - 1] < x /\ x <= qo[d]
           bag == ExtendBag(meta, pool, kvs, qo, x, window, causal, mask, lens)
           S == Operands(prefix, extend, last, m, window)
           F == [w \in S |-> OperandEntry(meta, pool, kvs, qo, b, w)]
<1>1. bag = [e \in {entry(c, w) : w \in weighed(c)} |->
               Cardinality({w \in weighed(c) : entry(c, w) = e})]
  BY DEF ExtendBag, BagOf
<1>2. /\ c = b
      /\ x - 1 - qo[b - 1] = m /\ qo[b] - qo[b - 1] = extend
  BY RunChosen
<1> HIDE DEF bag, c
<1>3. allowed(b) = Columns(extend, last)
  BY <1>2 DEF Columns, Admits
<1> HIDE DEF allowed
<1>4. weighed(b) = S
  BY <1>2, <1>3 DEF Operands
<1>5. \A w : entry(b, w) = OperandEntry(meta, pool, kvs, qo, b, w)
  BY DEF OperandEntry
<1> HIDE DEF entry, weighed, S
<1>6. \A w \in S : F[w] = entry(b, w)
  BY <1>5
<1> HIDE DEF F
<1>7. bag = Counted(F, S)
  <2>1. bag = [e \in {entry(b, w) : w \in S} |-> Cardinality({w \in S : entry(b, w) = e})]
    BY <1>1, <1>2, <1>4
  <2>2. {entry(b, w) : w \in S} = {F[w] : w \in S}
    BY <1>6
  <2>3. \A e : {w \in S : entry(b, w) = e} = {w \in S : F[w] = e}
    BY <1>6
  <2> QED BY <2>1, <2>2, <2>3 DEF Counted
<1> QED BY <1>5, <1>6, <1>7 DEF bag, S

\* The part of a request's context and chunk that a row at p weighs of what is
\* read from `from` on, if it sees the chunk up to `last`.
Band(from, p, last, window) == {q \in from .. last : window > 0 => q >= p - window}
PlacedFrom(pos, from, prefix, S) ==
  \A w \in S : pos[w] = from + w[2] + (IF w[1] = "pool" THEN 0 ELSE prefix)

\* Where the operands of a row lie: a pool key after `from`, a row of the chunk
\* after the committed tokens.
LEMMA OperandPlaces ==
  ASSUME NEW from \in Nat, NEW prefix \in Nat, NEW extend \in Nat, NEW m \in 0 .. extend - 1,
         NEW last \in 0 .. extend - 1, NEW window \in Nat, NEW pos,
         PlacedFrom(pos, from, prefix, Operands(prefix, extend, last, m, window))
  PROVE  Places(pos, Operands(prefix, extend, last, m, window),
                Band(from, from + prefix + m, from + prefix + last, window))
<1> DEFINE S == Operands(prefix, extend, last, m, window)
           Q == {q \in from .. from + prefix + last : window > 0 => q >= from + prefix + m - window}
           Near(k) == window > 0 => prefix + m <= k + window
<1>1. \A w \in S : pos[w] = from + w[2] + (IF w[1] = "pool" THEN 0 ELSE prefix)
  BY DEF PlacedFrom
<1>2. \A n : n \in PrefixKeys(prefix, m, window) <=> n \in 0 .. prefix - 1 /\ Near(n)
  BY DEF PrefixKeys, InWindow
<1>3. \A n : n \in ChunkKeys(Columns(extend, last), m, window) <=> n \in 0 .. last /\ Near(prefix + n)
  BY DEF ChunkKeys, InWindow, Columns
<1>4. \A w \in S : \/ \E n \in 0 .. prefix - 1 : w = <<"pool", n>> /\ Near(n)
                   \/ \E n \in 0 .. last : w = <<"chunk", n>> /\ Near(prefix + n)
  BY <1>2, <1>3 DEF Operands
<1>5. /\ \A n \in 0 .. prefix - 1 : Near(n) => <<"pool", n>> \in S /\ pos[<<"pool", n>>] = from + n
      /\ \A n \in 0 .. last : Near(prefix + n) =>
           <<"chunk", n>> \in S /\ pos[<<"chunk", n>>] = from + n + prefix
  <2>1. /\ \A n \in 0 .. prefix - 1 : Near(n) => <<"pool", n>> \in S
        /\ \A n \in 0 .. last : Near(prefix + n) => <<"chunk", n>> \in S
    BY <1>2, <1>3 DEF Operands
  <2>2. ASSUME NEW n \in Int, <<"pool", n>> \in S PROVE pos[<<"pool", n>>] = from + n
    BY <1>1, <2>2
  <2>3. ASSUME NEW n \in Int, <<"chunk", n>> \in S PROVE pos[<<"chunk", n>>] = from + n + prefix
    BY <1>1, <2>3
  <2> HIDE DEF S, Near
  <2> QED BY <2>1, <2>2, <2>3
<1> HIDE DEF S
<1>6. ASSUME NEW w \in S PROVE pos[w] \in Q
  <2>1. CASE \E n \in 0 .. prefix - 1 : w = <<"pool", n>> /\ Near(n)
    BY <1>5, <2>1
  <2>2. CASE \E n \in 0 .. last : w = <<"chunk", n>> /\ Near(prefix + n)
    BY <1>5, <2>2
  <2> QED BY <1>4, <2>1, <2>2
<1>7. ASSUME NEW q \in Q PROVE \E w \in S : pos[w] = q
  <2>1. CASE q < from + prefix
    <3>1. q - from \in 0 .. prefix - 1 /\ Near(q - from) /\ from + (q - from) = q
      BY <2>1
    <3> QED BY <1>5, <3>1
  <2>2. CASE q >= from + prefix
    <3> DEFINE n == q - from - prefix
    <3>1. n \in 0 .. last /\ Near(prefix + n) /\ from + n + prefix = q
      BY <2>2
    <3> HIDE DEF n
    <3> QED BY <1>5, <3>1
  <2> QED BY <2>1, <2>2
<1>8. ASSUME NEW w \in S, NEW v \in S, pos[w] = pos[v] PROVE w = v
  <2>1. CASE \E n \in 0 .. prefix - 1 : w = <<"pool", n>> /\ Near(n)
    <3>1. PICK n \in 0 .. prefix - 1 : w = <<"pool", n>> /\ pos[w] = from + n
      BY <1>5, <2>1
    <3>2. CASE \E k \in 0 .. prefix - 1 : v = <<"pool", k>> /\ Near(k)
      BY <1>5, <1>8, <3>1, <3>2
    <3>3. CASE \E k \in 0 .. last : v = <<"chunk", k>> /\ Near(prefix + k)
      BY <1>5, <1>8, <3>1, <3>3
    <3> QED BY <1>4, <3>2, <3>3
  <2>2. CASE \E n \in 0 .. last : w = <<"chunk", n>> /\ Near(prefix + n)
    <3>1. PICK n \in 0 .. last : w = <<"chunk", n>> /\ pos[w] = from + n + prefix
      BY <1>5, <2>2
    <3>2. CASE \E k \in 0 .. prefix - 1 : v = <<"pool", k>> /\ Near(k)
      BY <1>5, <1>8, <3>1, <3>2
    <3>3. CASE \E k \in 0 .. last : v = <<"chunk", k>> /\ Near(prefix + k)
      BY <1>5, <1>8, <3>1, <3>3
    <3> QED BY <1>4, <3>2, <3>3
  <2> QED BY <1>4, <2>1, <2>2
<1> HIDE DEF Q
<1>9. Places(pos, S, Q)
  BY <1>6, <1>7, <1>8 DEF Places
<1> QED BY <1>9 DEF S, Q, Band

LEMMA ExtendWeighs ==
  ASSUME NEW meta, NEW pool, NEW kvs, NEW qo, NEW x, NEW window \in Nat, NEW causal, NEW mask,
         NEW lens, NEW b, NEW tok, NEW m, NEW extend, RunCell(qo, b, m, extend, x),
         NEW from \in Nat, NEW prefix \in Nat, NEW M,
         Reads(meta, b, prefix, round.rows[b], from, M),
         from = IF window > 0 THEN meta.offsets[b] ELSE 0,
         seqLen[round.rows[b]] = from + prefix,
         NEW last \in 0 .. extend - 1,
         Admits(causal, mask, MaskIndptr(lens)[b - 1], prefix, extend, from, m, last),
         ChunkRows(kvs, qo, b, extend, tok),
         Holds(pool, M, b, tok, from .. from + prefix - 1)
  PROVE  Weighs(ExtendBag(meta, pool, kvs, qo, x, window, causal, mask, lens), b, tok,
                Band(from, from + prefix + m, from + prefix + last, window))
<1> DEFINE S == Operands(prefix, extend, last, m, window)
           pos == [w \in S |-> from + w[2] + (IF w[1] = "pool" THEN 0 ELSE prefix)]
           Q == Band(from, from + prefix + m, from + prefix + last, window)
           bag == ExtendBag(meta, pool, kvs, qo, x, window, causal, mask, lens)
<1>1. KeyCount(meta, b) = prefix
  BY DEF Reads
<1>2. PICK F : bag = Counted(F, S)
               /\ \A w \in S : F[w] = OperandEntry(meta, pool, kvs, qo, b, w)
  BY <1>1, ExtendCounts
<1>3. extend \in Nat /\ m \in 0 .. extend - 1
  BY DEF RunCell
<1>4. Places(pos, S, Q)
  <2>1. PlacedFrom(pos, from, prefix, S)
    <3> HIDE DEF S
    <3> QED BY DEF PlacedFrom
  <2> HIDE DEF pos
  <2> QED BY <1>3, <2>1, OperandPlaces
<1>5. ASSUME NEW w \in S PROVE F[w] = Seen(b, tok, pos[w])
  <2>1. F[w] = OperandEntry(meta, pool, kvs, qo, b, w)
    BY <1>2
  <2>2. pos[w] = from + w[2] + (IF w[1] = "pool" THEN 0 ELSE prefix)
    OBVIOUS
  <2>3. \/ \E n \in 0 .. prefix - 1 : w = <<"pool", n>>
        \/ \E n \in 0 .. extend - 1 : w = <<"chunk", n>>
    BY DEF Operands, PrefixKeys, ChunkKeys, Columns
  <2> HIDE DEF S, pos, Q, bag
  <2>4. ASSUME NEW n \in 0 .. prefix - 1, w = <<"pool", n>> PROVE F[w] = Seen(b, tok, pos[w])
    <3>1. w[1] = "pool" /\ w[2] = n /\ pos[w] = from + n
      BY <2>2, <2>4
    <3>2. F[w] = Key(meta, pool, b, n)
      BY <2>1, <3>1 DEF OperandEntry
    <3>3. Key(meta, pool, b, n) = Load(pool, M[table[round.rows[b]][from + n]])
      BY <2>4 DEF Reads, Key
    <3>4. from + n \in from .. from + prefix - 1
      BY <2>4
    <3>5. Load(pool, M[table[round.rows[b]][from + n]]) = Seen(b, tok, from + n)
      BY <3>4 DEF Holds
    <3> QED BY <3>1, <3>2, <3>3, <3>5
  <2>5. ASSUME NEW n \in 0 .. extend - 1, w = <<"chunk", n>> PROVE F[w] = Seen(b, tok, pos[w])
    <3> DEFINE y == qo[b - 1] + n + 1
               L == seqLen[round.rows[b]]
    <3>1. w[1] # "pool" /\ w[2] = n /\ pos[w] = from + n + prefix
      BY <2>2, <2>5
    <3>2. y \in DOMAIN kvs /\ kvs[y] = KV(owner[round.rows[b]], L + n, tok[b][n + 1])
      BY <2>5 DEF ChunkRows
    <3>3. F[w] = Entry(kvs[y])
      BY <2>1, <3>1, <3>2 DEF OperandEntry
    <3> HIDE DEF y
    <3>4. L \in Nat /\ pos[w] = L + n /\ ~(pos[w] < L) /\ pos[w] - L + 1 = n + 1
      <4>1. L = from + prefix /\ n \in Nat
        BY <1>3
      <4> DEFINE u == pos[w]
      <4>2. u = from + n + prefix /\ L \in Nat
        BY <3>1, <4>1
      <4> HIDE DEF L, u
      <4>3. u = L + n /\ ~(u < L) /\ u - L + 1 = n + 1
        BY <4>1, <4>2
      <4> QED BY <4>2, <4>3 DEF L, u
    <3>5. Seen(b, tok, pos[w]) = Entry(KV(owner[round.rows[b]], L + n, tok[b][n + 1]))
      BY <3>4 DEF Seen
    <3> QED BY <3>2, <3>3, <3>5
  <2> QED BY <2>3, <2>4, <2>5
<1> HIDE DEF pos, S, Q, bag
<1>6. AllSeen(F, S, pos, b, tok)
  BY <1>5 DEF AllSeen
<1>7. Weighs(bag, b, tok, Q)
  BY <1>2, <1>4, <1>6, BagWeighs
<1> QED BY <1>7 DEF bag, Q

\* The first position a row at p weighs on a local layer.
WindowFrom(p, w) == IF p <= w THEN 0 ELSE p - w
LEMMA WindowBand ==
  ASSUME NEW L \in Nat, NEW m \in Nat
  PROVE  /\ Band(L - WindowLen(L), L + m, L + m, Window) = WindowFrom(L + m, Window) .. L + m
         /\ WindowLen(L) \in Nat /\ L - WindowLen(L) \in Nat
         /\ L - WindowLen(L) >= L - Window
<1>1. Window \in Nat /\ Window > 0
  BY SizesAssumption DEF Window
<1> QED BY <1>1 DEF Band, WindowFrom, WindowLen

(***************************************************************************)
(* What the properties ask of a row that weighs its own context.           *)
(***************************************************************************)
ContextRight(a) ==
  /\ Once(a.context)
  /\ Weighed(a.context) \subseteq Own(a.kv[1], 0 .. a.base - 1) \cup Chunk(a)
  /\ PositionsOf(a.context) = 0 .. LastSeen(a)
  /\ Cardinality(Weighed(a.context)) = LastSeen(a) + 1
WindowRight(a) ==
  LET seen == PositionsOf(a.window)
  IN  /\ Once(a.window)
      /\ Weighed(a.window) \subseteq Weighed(a.context)
      /\ \E first \in 0 .. a.kv[2] :
           /\ seen = first .. a.kv[2]
           /\ first = 0 \/ a.kv[2] - first + 1 \in {Extent - 1, Extent}

\* Row j of the `width` rows of request b.
RowOf(a, b, tok, j, width) ==
  /\ a.kv = KV(owner[round.rows[b]], seqLen[round.rows[b]] + j - 1, tok[b][j])
  /\ a.base = seqLen[round.rows[b]] /\ a.base \in Nat
  /\ width \in Nat /\ j \in 1 .. width /\ \A i \in 1 .. width : tok[b][i] \in {"t", "d"}

LEMMA WeighsPositions ==
  ASSUME NEW bag, NEW b, NEW tok, NEW Q, Weighs(bag, b, tok, Q)
  PROVE  PositionsOf(bag) = Q /\ Once(bag)
<1>1. \A q : Seen(b, tok, q).payload[2] = q
  BY DEF Seen, Entry, KV
<1>2. DOMAIN bag = {Seen(b, tok, q) : q \in Q} /\ \A e \in DOMAIN bag : bag[e] = 1
  BY DEF Weighs
<1>3. {e.payload[2] : e \in DOMAIN bag} = Q
  BY <1>1, <1>2
<1> QED BY <1>2, <1>3 DEF PositionsOf, Weighed, Once

LEMMA ContextAttended ==
  ASSUME NEW a, NEW b, NEW tok, NEW j, NEW width, RowOf(a, b, tok, j, width),
         NEW last \in 0 .. width - 1, LastSeen(a) = seqLen[round.rows[b]] + last,
         Weighs(a.context, b, tok, 0 .. seqLen[round.rows[b]] + last)
  PROVE  ContextRight(a)
<1> DEFINE L == seqLen[round.rows[b]]
           id == owner[round.rows[b]]
           p == L + last
           Q == 0 .. p
<1>1. /\ a.kv = KV(id, L + j - 1, tok[b][j]) /\ a.base = L /\ L \in Nat
      /\ width \in Nat /\ \A i \in 1 .. width : tok[b][i] \in {"t", "d"}
  BY DEF RowOf
<1>2. a.kv[1] = id /\ LastSeen(a) = p /\ p \in Nat
  BY <1>1 DEF KV
<1> HIDE DEF id, L
<1>3. PositionsOf(a.context) = Q /\ Once(a.context)
  BY WeighsPositions DEF L
<1>4. DOMAIN a.context = {Seen(b, tok, q) : q \in Q}
  BY DEF Weighs, L
<1>5. ASSUME NEW q \in Q PROVE Seen(b, tok, q) \in Own(a.kv[1], 0 .. a.base - 1) \cup Chunk(a)
  <2>1. CASE q < L
    <3>1. Seen(b, tok, q) = Entry(KV(id, q, "t"))
      BY <2>1 DEF Seen, L, id
    <3>2. q \in 0 .. a.base - 1
      BY <1>1, <2>1
    <3> QED BY <1>2, <3>1, <3>2 DEF Own
  <2>2. CASE ~(q < L)
    <3>1. q - L + 1 \in 1 .. width /\ q \in a.base .. LastSeen(a)
      BY <1>1, <1>2, <2>2
    <3>2. Seen(b, tok, q) = Entry(KV(id, q, tok[b][q - L + 1]))
      BY <2>2 DEF Seen, L, id
    <3> QED BY <1>1, <1>2, <3>1, <3>2 DEF Chunk
  <2> QED BY <2>1, <2>2
<1>6. Cardinality(DOMAIN a.context) = p + 1
  <2> DEFINE f == [q \in Q |-> Seen(b, tok, q)]
             D == {Seen(b, tok, q) : q \in Q}
  <2>1. IsFiniteSet(Q) /\ Cardinality(Q) = p + 1
    BY <1>2, FS_Interval
  <2>2. f \in [Q -> D] /\ \A y \in D : \E q \in Q : f[q] = y
    OBVIOUS
  <2>3. \A q, z \in Q : f[q] = f[z] => q = z
    BY SeenOnce
  <2> HIDE DEF f, D, Q
  <2>4. f \in Bijection(Q, D)
    <3>1. DOMAIN f = Q
      BY <2>2
    <3> QED BY <2>2, <2>3, <3>1 DEF Bijection, Injection, Surjection, IsInjective
  <2>5. Cardinality(D) = Cardinality(Q)
    <3>1. ExistsBijection(Q, D)
      BY <2>4 DEF ExistsBijection
    <3> QED BY <2>1, <3>1, FS_Bijection
  <2> QED BY <1>4, <2>1, <2>5 DEF D
<1> QED BY <1>2, <1>3, <1>4, <1>5, <1>6 DEF ContextRight, Weighed

LEMMA WindowAttended ==
  ASSUME NEW a, NEW b, NEW tok, NEW j, NEW width, RowOf(a, b, tok, j, width),
         NEW p, p = seqLen[round.rows[b]] + j - 1,
         Weighs(a.context, b, tok, 0 .. p),
         NEW first \in 0 .. p, first = 0 \/ p - first + 1 \in {Extent - 1, Extent},
         Weighs(a.window, b, tok, first .. p)
  PROVE  WindowRight(a)
<1>1. a.kv[2] = p /\ p \in Nat
  BY DEF RowOf, KV
<1>3. PositionsOf(a.window) = first .. p /\ Once(a.window)
  BY WeighsPositions
<1>4. Weighed(a.window) \subseteq Weighed(a.context)
  <2>1. first .. p \subseteq 0 .. p
    BY <1>1
  <2> QED BY <2>1 DEF Weighs, Weighed
<1> QED BY <1>1, <1>3, <1>4 DEF WindowRight

LEMMA CellFound ==
  ASSUME NEW lens \in Seq(Nat), NEW ptr, Offsets(ptr, lens), NEW x \in 1 .. ptr[Len(lens)]
  PROVE  \E b \in 1 .. Len(lens) : \E m \in 0 .. lens[b] - 1 : x = ptr[b - 1] + m + 1
<1> DEFINE n == Len(lens)
           above == {b \in 0 .. n : x <= ptr[b]}
<1>1. n \in Nat /\ \A b \in 1 .. n : lens[b] \in Nat
  BY Elements
<1>2. \A b \in 0 .. n : ptr[b] \in Nat
  BY OffsetsOrdered
<1>3. ptr[0] = 0 /\ \A b \in 1 .. n : ptr[b] = ptr[b - 1] + lens[b]
  BY DEF Offsets
<1>4. x \in Nat /\ 1 <= x /\ x <= ptr[n]
  BY <1>1, <1>2
<1> HIDE DEF n
<1>5. n \in above /\ above \in SUBSET Nat
  BY <1>1, <1>4
<1>6. PICK b \in above : \A c \in above : b <= c
  BY <1>5, Least
<1>7. b # 0
  BY <1>3, <1>4, <1>6
<1>8. b \in 1 .. n /\ b - 1 \in 0 .. n /\ ~(b <= b - 1)
  BY <1>1, <1>6, <1>7
<1>9. ptr[b - 1] \in Nat /\ ~(x <= ptr[b - 1]) /\ x <= ptr[b] /\ ptr[b] = ptr[b - 1] + lens[b]
      /\ lens[b] \in Nat
  <2>1. b - 1 \notin above
    BY <1>6, <1>8
  <2>2. x <= ptr[b]
    BY <1>6
  <2> QED BY <1>1, <1>2, <1>3, <1>8, <2>1, <2>2
<1> DEFINE m == x - ptr[b - 1] - 1
<1>10. m \in 0 .. lens[b] - 1 /\ x = ptr[b - 1] + m + 1
  <2> DEFINE k == ptr[b - 1]
             l == lens[b]
  <2>1. k \in Nat /\ l \in Nat /\ x \in Nat /\ ~(x <= k) /\ x <= k + l
    BY <1>4, <1>9
  <2> HIDE DEF k, l
  <2>2. x - k - 1 \in 0 .. l - 1 /\ x = k + (x - k - 1) + 1
    BY <2>1
  <2> QED BY <2>2 DEF k, l
<1> QED BY <1>8, <1>10 DEF n

\* The rows of a forward are w[b] for request b; those a graph adds come after.
QueryCells(qo, w) ==
  \E run \in Seq(Nat) :
    /\ DOMAIN qo = 0 .. Len(run) /\ Offsets(qo, run) /\ Len(round.rows) <= Len(run)
    /\ \A b \in 1 .. Len(round.rows) : run[b] = w[b]

\* Row x of the forward is row m of request b.
IsRow(kvs, qo, w, tok, x, b, m) ==
  /\ RunCell(qo, b, m, w[b], x) /\ ChunkRows(kvs, qo, b, w[b], tok)
  /\ kvs[x] = KV(owner[round.rows[b]], seqLen[round.rows[b]] + m, tok[b][m + 1])

LEMMA RowFound ==
  ASSUME ServeTypes, Flight, NEW w, \A b \in 1 .. Len(round.rows) : w[b] \in Nat,
         NEW qo, QueryCells(qo, w), NEW tok,
         NEW x \in DOMAIN FlattenSeq(KvRows(w, tok))
  PROVE  \E b \in 1 .. Len(round.rows) : \E m \in 0 .. w[b] - 1 :
           IsRow(FlattenSeq(KvRows(w, tok)), qo, w, tok, x, b, m)
<1> DEFINE n == Len(round.rows)
           A == KvRows(w, tok)
           kvs == FlattenSeq(A)
           lens == [b \in 1 .. n |-> w[b]]
<1>1. n \in Nat /\ \A b \in 1 .. n : w[b] \in Nat /\ seqLen[round.rows[b]] \in Nat
  BY FlightTypes
<1>2. PICK run \in Seq(Nat) :
        /\ DOMAIN qo = 0 .. Len(run) /\ Offsets(qo, run) /\ n <= Len(run)
        /\ \A b \in 1 .. n : run[b] = w[b]
  BY DEF QueryCells
<1>3. Len(run) \in Nat
  BY Elements
<1>4. /\ \E U : A \in Seq(Seq(U))
      /\ Len(A) = n /\ \A b \in 1 .. n : Len(A[b]) = w[b]
  BY KvRowsFacts
<1>5. \A b \in 1 .. n : \A j \in 1 .. w[b] :
        A[b][j] = KV(owner[round.rows[b]], seqLen[round.rows[b]] + j - 1, tok[b][j])
  <2>1. OfTokens(A, w, tok)
    BY KvRowsTokens
  <2> HIDE DEF A
  <2> QED BY <2>1 DEF OfTokens
<1>6. lens \in Seq(Nat) /\ Len(lens) = n /\ \A b \in 1 .. n : lens[b] = w[b]
  <2>1. lens \in [1 .. n -> Nat] /\ \A b \in 1 .. n : lens[b] = w[b]
    BY <1>1
  <2> HIDE DEF lens, n
  <2> QED BY <1>1, <2>1, IsSequence
<1> HIDE DEF A, lens, n
<1>7. Offsets(qo, lens)
  <2>1. qo[0] = 0 /\ \A b \in 1 .. Len(run) : qo[b] = qo[b - 1] + run[b]
    BY <1>2 DEF Offsets
  <2>2. \A b \in 1 .. n : b \in 1 .. Len(run)
    BY <1>1, <1>2, <1>3
  <2> QED BY <1>2, <1>6, <2>1, <2>2 DEF Offsets
<1>8. PICK U : A \in Seq(Seq(U))
  BY <1>4
<1>9. kvs \in Seq(U) /\ Lies(A, qo, n, kvs)
  <2>1. qo[0] = 0 /\ \A b \in 1 .. Len(A) : qo[b] = qo[b - 1] + Len(A[b])
    BY <1>4, <1>6, <1>7 DEF Offsets
  <2> QED BY <1>4, <1>8, <2>1, FlattenPlaces
<1> HIDE DEF kvs
<1>10. /\ Len(kvs) = qo[n] /\ DOMAIN kvs = 1 .. qo[n]
       /\ \A b \in 1 .. n : \A j \in 1 .. w[b] : kvs[qo[b - 1] + j] = A[b][j]
  <2>1. DOMAIN kvs = 1 .. Len(kvs)
    BY <1>9, Elements
  <2> QED BY <1>4, <1>9, <2>1 DEF Lies
<1>11. x \in 1 .. qo[n]
  BY <1>10 DEF kvs, A
<1>12. PICK b \in 1 .. n : \E m \in 0 .. w[b] - 1 : x = qo[b - 1] + m + 1
  BY <1>6, <1>7, <1>11, CellFound
<1>13. PICK m \in 0 .. w[b] - 1 : x = qo[b - 1] + m + 1
  BY <1>12
<1>14. RunCell(qo, b, m, w[b], x)
  <2>1. b \in 1 .. Len(run)
    BY <1>1, <1>2, <1>3
  <2> QED BY <1>1, <1>2, <1>13, <2>1 DEF RunCell
<1>15. qo[b - 1] \in Nat /\ qo[b] \in Nat /\ qo[n] \in Nat /\ qo[b] <= qo[n] /\ qo[b] = qo[b - 1] + w[b]
  <2>1. \A d \in 0 .. n : qo[d] \in Nat /\ \A c \in 0 .. d : qo[c] <= qo[d]
    BY <1>6, <1>7, OffsetsOrdered
  <2>2. b \in 0 .. n /\ b - 1 \in 0 .. n /\ n \in 0 .. n
    BY <1>1
  <2> QED BY <1>6, <1>7, <2>1, <2>2 DEF Offsets
<1>16. ASSUME NEW k \in 0 .. w[b] - 1
       PROVE  /\ qo[b - 1] + k + 1 \in DOMAIN kvs
              /\ kvs[qo[b - 1] + k + 1] =
                   KV(owner[round.rows[b]], seqLen[round.rows[b]] + k, tok[b][k + 1])
  <2> DEFINE y == qo[b - 1]
             l == w[b]
             z == qo[n]
             s == seqLen[round.rows[b]]
  <2>1. y \in Nat /\ l \in Nat /\ z \in Nat /\ y + l <= z /\ k \in 0 .. l - 1 /\ s \in Nat
    BY <1>1, <1>15
  <2>2. k + 1 \in 1 .. l /\ y + k + 1 \in 1 .. z /\ y + (k + 1) = y + k + 1 /\ s + (k + 1) - 1 = s + k
    <3> HIDE DEF y, l, z, s
    <3> QED BY <2>1
  <2>3. kvs[y + (k + 1)] = A[b][k + 1]
    BY <1>10, <2>2
  <2>4. A[b][k + 1] = KV(owner[round.rows[b]], s + (k + 1) - 1, tok[b][k + 1])
    BY <1>5, <2>2
  <2> HIDE DEF y, l, z, s
  <2>5. y + k + 1 \in DOMAIN kvs
    BY <1>10, <2>2 DEF z
  <2>6. kvs[y + k + 1] = KV(owner[round.rows[b]], s + k, tok[b][k + 1])
    BY <2>2, <2>3, <2>4
  <2> QED BY <2>5, <2>6 DEF y, s
<1>17. ChunkRows(kvs, qo, b, w[b], tok)
  BY <1>16 DEF ChunkRows
<1>18. IsRow(kvs, qo, w, tok, x, b, m)
  BY <1>13, <1>14, <1>16, <1>17 DEF IsRow
<1> QED BY <1>12, <1>13, <1>18 DEF n, kvs, A

\* A verify-like forward has the same number of rows for every request, those
\* of a graph's padding included.
LEMMA QoCells ==
  ASSUME ServeTypes, Flight, NEW w, NEW worker, RowsPerRequest(worker) \in Nat,
         \A b \in 1 .. Len(round.rows) : w[b] = RowsPerRequest(worker),
         NEW bs \in Nat, Len(round.rows) <= bs
  PROVE  QueryCells(QoIndptr(bs, worker), w)
<1> DEFINE c == RowsPerRequest(worker)
           run == [b \in 1 .. bs |-> c]
           qo == QoIndptr(bs, worker)
<1>1. run \in [1 .. bs -> Nat] /\ \A b \in 1 .. bs : run[b] = c
  OBVIOUS
<1>2. qo = [b \in 0 .. bs |-> b * c] /\ c \in Nat
  BY DEF QoIndptr
<1> HIDE DEF run, qo, c
<1>3. run \in Seq(Nat) /\ Len(run) = bs
  BY <1>1, IsSequence
<1>4. DOMAIN qo = 0 .. bs /\ \A b \in 0 .. bs : qo[b] = b * c
  BY <1>2
<1>5. qo[0] = 0
  BY <1>2, <1>4
<1>6. ASSUME NEW b \in 1 .. bs PROVE qo[b] = qo[b - 1] + run[b]
  <2>1. b \in 0 .. bs /\ b - 1 \in 0 .. bs
    OBVIOUS
  <2>2. b * c = (b - 1) * c + c
    BY <1>2, SMT
  <2> QED BY <1>1, <1>4, <2>1, <2>2
<1>7. Offsets(qo, run)
  BY <1>3, <1>5, <1>6 DEF Offsets
<1>8. Len(round.rows) \in Nat
  BY FlightTypes
<1>9. \A b \in 1 .. Len(round.rows) : run[b] = w[b]
  BY <1>1, <1>8 DEF c
<1> QED BY <1>3, <1>4, <1>7, <1>9 DEF QueryCells, qo

LEMMA IndptrCells ==
  ASSUME ServeTypes, Flight
  PROVE  QueryCells(Indptr(round.width), round.width)
<1>1. round.width \in Seq(Nat) /\ Len(round.width) = Len(round.rows)
  BY DEF Flight
<1>2. Len(round.width) \in Nat
  BY <1>1, Elements
<1>3. DOMAIN Indptr(round.width) = 0 .. Len(round.width) /\ Offsets(Indptr(round.width), round.width)
  BY <1>1, IndptrFacts
<1> QED BY <1>1, <1>2, <1>3 DEF QueryCells

LEMMA RowOfCell ==
  ASSUME NEW W \in Nat \ {0}, NEW m \in Nat, NEW c \in 0 .. W - 1
  PROVE  /\ m * W + c \in Nat
         /\ (m * W + c) \div W = m /\ (m * W + c) % W = c
         /\ \A k \in Nat : m < k => m * W + c < k * W /\ k * W \in Nat
<1> DEFINE x == m * W + c
           d == x \div W
<1>1. m * W \in Nat /\ W * m = m * W /\ c \in Nat /\ c < W
  BY SMT
<1>2. x \in Nat
  BY <1>1
<1>3. d \in Int /\ W * d <= x /\ x < W * d + W
  BY <1>2, Division
<1>4. x % W = x - W * d
  BY <1>2, SMT
<1> HIDE DEF d
<1>5. d = m
  <2>1. W * (m + 1) = W * m + W /\ W * (d + 1) = W * d + W /\ W * d \in Int
    BY <1>3, ProductOrder, m + 1 \in Int
  <2>2. W * d < W * (m + 1) /\ W * m < W * (d + 1)
    BY <1>1, <1>3, <2>1
  <2>3. d < m + 1 /\ m < d + 1
    <3>1. d + 1 \in Int /\ m + 1 \in Int
      BY <1>3
    <3> QED BY <1>3, <2>2, <3>1, ProductOrder
  <2> QED BY <1>3, <2>3
<1>6. ASSUME NEW k \in Nat, m < k PROVE x < k * W /\ k * W \in Nat
  <2>1. (m + 1) * W <= k * W /\ k * W \in Nat
    BY <1>6, ProductGrows, m + 1 \in Nat, m + 1 <= k, W <= W
  <2>2. (m + 1) * W = m * W + W
    BY SMT
  <2> QED BY <1>1, <2>1, <2>2
<1>7. x % W = c
  BY <1>1, <1>4, <1>5
<1> QED BY <1>2, <1>5, <1>6, <1>7 DEF d

(***************************************************************************)
(* The mask of a chain of drafts, read by the extend kernel at the cells of *)
(* a batch that a graph may have padded, admits the rows up to the own one. *)
(***************************************************************************)
MaskWidth(L) == L + NumDraft
MaskRun(L) ==
  [x \in 1 .. NumDraft * MaskWidth(L) |-> (x - 1) % MaskWidth(L) <= L + ((x - 1) \div MaskWidth(L))]

LEMMA MaskRunFacts ==
  ASSUME NEW L \in Nat
  PROVE  /\ MaskRun(L) \in Seq(BOOLEAN) /\ Len(MaskRun(L)) = NumDraft * MaskWidth(L)
         /\ \A m, n \in 0 .. NumDraft - 1 :
              LET j == m * MaskWidth(L) + L + n + 1
              IN  j \in 1 .. NumDraft * MaskWidth(L) /\ (MaskRun(L)[j] <=> n <= m)
<1> DEFINE W == MaskWidth(L)
<1>1. NumDraft \in Nat \ {0} /\ W \in Nat \ {0} /\ W = L + NumDraft
  BY SizesAssumption DEF MaskWidth
<1> HIDE DEF W
<1>2. NumDraft * W \in Nat
  BY <1>1, ProductPositive
<1> DEFINE N == NumDraft * W
           run == MaskRun(L)
<1>3. run = [x \in 1 .. N |-> (x - 1) % W <= L + ((x - 1) \div W)]
  BY DEF MaskRun, W
<1> HIDE DEF N, run
<1>4. run \in [1 .. N -> BOOLEAN]
  <2>1. \A x \in 1 .. N : ((x - 1) % W <= L + ((x - 1) \div W)) \in BOOLEAN
    OBVIOUS
  <2> QED BY <1>3, <2>1
<1>5. run \in Seq(BOOLEAN) /\ Len(run) = N
  BY <1>2, <1>4, IsSequence DEF N
<1>6. ASSUME NEW m \in 0 .. NumDraft - 1, NEW n \in 0 .. NumDraft - 1
      PROVE  m * W + L + n + 1 \in 1 .. N /\ (run[m * W + L + n + 1] <=> n <= m)
  <2> DEFINE c == L + n
             j == m * W + L + n + 1
  <2>1. c \in 0 .. W - 1 /\ m \in Nat /\ m < NumDraft /\ n \in Nat
    BY <1>1
  <2> HIDE DEF c
  <2>2. m * W + c \in Nat /\ (m * W + c) \div W = m /\ (m * W + c) % W = c /\ m * W + c < N
    BY <1>1, <2>1, RowOfCell DEF N
  <2>3. m * W \in Nat
    BY <1>1, <2>1
  <2>4. j = (m * W + c) + 1 /\ j - 1 = m * W + c /\ j \in 1 .. N
    <3>1. m * W + L + n + 1 = m * W + (L + n) + 1
      BY <2>1, <2>3
    <3> DEFINE k == m * W
    <3>2. k \in Nat /\ k + c \in Nat /\ k + c < N /\ N \in Nat
      BY <1>2, <2>2, <2>3 DEF N
    <3>3. j = k + c + 1
      BY <3>1 DEF c
    <3> HIDE DEF k, j
    <3>4. c \in Nat
      BY <2>1
    <3>5. j = (k + c) + 1 /\ j - 1 = k + c /\ j \in 1 .. N
      BY <3>2, <3>3, <3>4
    <3> QED BY <3>5 DEF k
  <2> HIDE DEF j
  <2>5. run[j] <=> (j - 1) % W <= L + ((j - 1) \div W)
    BY <1>3, <2>4
  <2>6. run[j] <=> c <= L + m
    BY <2>2, <2>4, <2>5
  <2>7. c <= L + m <=> n <= m
    BY <2>1 DEF c
  <2> QED BY <2>4, <2>6, <2>7 DEF j
<1> QED BY <1>5, <1>6 DEF W, N, run

LEMMA ChainCausal ==
  ASSUME ServeTypes, Flight, NEW lens \in Seq(Nat), Extends(lens, PrefixLens),
         NEW b \in 1 .. Len(round.rows), NEW m \in 0 .. NumDraft - 1,
         NEW prefix \in Nat, NEW from \in Nat, seqLen[round.rows[b]] = from + prefix
  PROVE  \A k \in 0 .. NumDraft - 1 :
           ChainMask(PrefixLens)[1 + MaskCell(MaskIndptr(lens)[b - 1], prefix, NumDraft, from, m, k)]
             <=> k <= m
<1> DEFINE n == Len(round.rows)
           A == [c \in 1 .. n |-> MaskRun(seqLen[round.rows[c]])]
           sizes == [c \in DOMAIN lens |-> NumDraft * (lens[c] + NumDraft)]
           ptr == MaskIndptr(lens)
           mask == ChainMask(PrefixLens)
           L == seqLen[round.rows[b]]
<1>1. /\ n \in Nat /\ DOMAIN round.rows = 1 .. n
      /\ \A c \in 1 .. n : seqLen[round.rows[c]] \in Nat
  BY FlightTypes
<1>2. /\ PrefixLens = [c \in 1 .. n |-> seqLen[round.rows[c]]]
      /\ DOMAIN PrefixLens = 1 .. n
  BY <1>1 DEF PrefixLens
<1>3. Len(PrefixLens) = n
  <2>1. PrefixLens \in [1 .. n -> Nat]
    BY <1>1, <1>2
  <2> QED BY <1>1, <2>1, IsSequence
<1>4. NumDraft \in Nat \ {0}
  BY SizesAssumption
<1>5. mask = FlattenSeq(A)
  BY <1>2 DEF ChainMask, MaskRun, MaskWidth
<1>6. /\ A \in Seq(Seq(BOOLEAN)) /\ Len(A) = n
      /\ \A c \in 1 .. n : A[c] = MaskRun(seqLen[round.rows[c]])
  <2>1. A \in [1 .. n -> Seq(BOOLEAN)]
    <3>1. \A c \in 1 .. n : MaskRun(seqLen[round.rows[c]]) \in Seq(BOOLEAN)
      BY <1>1, MaskRunFacts
    <3> QED BY <3>1
  <2>2. \A c \in 1 .. n : A[c] = MaskRun(seqLen[round.rows[c]])
    OBVIOUS
  <2> HIDE DEF A, n
  <2> QED BY <1>1, <2>1, <2>2, IsSequence
<1>7. /\ Len(lens) \in Nat /\ DOMAIN lens = 1 .. Len(lens)
      /\ \A c \in 1 .. Len(lens) : lens[c] \in Nat
  BY Elements
<1>8. n <= Len(lens) /\ \A c \in 1 .. n : lens[c] = seqLen[round.rows[c]]
  BY <1>2, <1>3 DEF Extends
<1> HIDE DEF A, mask, n, L
<1>9. sizes \in Seq(Nat) /\ Len(sizes) = Len(lens)
      /\ \A c \in 1 .. Len(lens) : sizes[c] = NumDraft * (lens[c] + NumDraft)
  <2>1. \A c \in 1 .. Len(lens) : NumDraft * (lens[c] + NumDraft) \in Nat
    BY <1>4, <1>7
  <2>2. sizes \in [1 .. Len(lens) -> Nat]
    BY <1>7, <2>1
  <2>3. \A c \in 1 .. Len(lens) : sizes[c] = NumDraft * (lens[c] + NumDraft)
    BY <1>7
  <2> HIDE DEF sizes
  <2> QED BY <1>7, <2>2, <2>3, IsSequence
<1>10. ptr = Indptr(sizes)
  BY DEF MaskIndptr
<1> HIDE DEF sizes, ptr
<1>11. Offsets(ptr, sizes)
  BY <1>9, <1>10, IndptrFacts
<1>12. /\ ptr[0] = 0
       /\ \A c \in 1 .. n : ptr[c] = ptr[c - 1] + Len(A[c])
  <2>1. ptr[0] = 0 /\ \A c \in 1 .. Len(lens) : ptr[c] = ptr[c - 1] + NumDraft * (lens[c] + NumDraft)
    BY <1>9, <1>11 DEF Offsets
  <2>2. ASSUME NEW c \in 1 .. n PROVE ptr[c] = ptr[c - 1] + Len(A[c])
    <3>1. c \in 1 .. Len(lens)
      BY <1>1, <1>7, <1>8
    <3>2. Len(A[c]) = NumDraft * (lens[c] + NumDraft)
      BY <1>1, <1>6, <1>8, MaskRunFacts DEF MaskWidth
    <3> QED BY <2>1, <3>1, <3>2
  <2> QED BY <2>1, <2>2
<1>13. Lies(A, ptr, n, mask)
  BY <1>5, <1>6, <1>12, FlattenPlaces
<1>14. ptr[b - 1] \in Nat
  <2>1. b - 1 \in 0 .. Len(sizes)
    BY <1>1, <1>7, <1>8, <1>9 DEF n
  <2> QED BY <1>9, <1>11, <2>1, OffsetsOrdered
<1>15. ASSUME NEW k \in 0 .. NumDraft - 1
       PROVE  mask[1 + MaskCell(ptr[b - 1], prefix, NumDraft, from, m, k)] <=> k <= m
  <2> DEFINE W == MaskWidth(L)
             j == m * W + L + k + 1
  <2>1. L \in Nat /\ L = from + prefix /\ b \in 1 .. n
    BY <1>1 DEF L, n
  <2>2. j \in 1 .. NumDraft * W /\ (MaskRun(L)[j] <=> k <= m)
    BY <2>1, MaskRunFacts
  <2>3. Len(A[b]) = NumDraft * W /\ A[b] = MaskRun(L)
    BY <1>6, <2>1, MaskRunFacts DEF L
  <2>4. mask[ptr[b - 1] + j] = A[b][j]
    <3> HIDE DEF W, j
    <3> QED BY <1>13, <2>1, <2>2, <2>3 DEF Lies
  <2>5. 1 + MaskCell(ptr[b - 1], prefix, NumDraft, from, m, k) = ptr[b - 1] + j
    <3>1. prefix + NumDraft + from = W
      BY <1>4, <2>1 DEF MaskWidth
    <3>2. m * W \in Nat
      BY <1>4, <2>1 DEF MaskWidth
    <3> DEFINE y == ptr[b - 1]
               z == m * W
    <3>3. 1 + MaskCell(y, prefix, NumDraft, from, m, k) = 1 + (y + z + from + prefix + k)
      BY <3>1 DEF MaskCell
    <3>4. z \in Nat /\ y \in Nat /\ L = from + prefix /\ k \in Nat
      BY <1>14, <2>1, <3>2
    <3>5. y + j = y + (z + L + k + 1)
      OBVIOUS
    <3> HIDE DEF y, z, W, j
    <3>6. 1 + (y + z + from + prefix + k) = y + (z + L + k + 1)
      BY <3>4
    <3> QED BY <3>3, <3>5, <3>6 DEF y
  <2> QED BY <2>2, <2>3, <2>4, <2>5
<1> QED BY <1>15 DEF ptr, mask

(***************************************************************************)
(* A row of a forward.                                                     *)
(***************************************************************************)
LEMMA PrefixLensFacts ==
  ASSUME ServeTypes, Flight
  PROVE  /\ PrefixLens \in Seq(Nat) /\ Len(PrefixLens) = Len(round.rows)
         /\ \A b \in 1 .. Len(round.rows) : PrefixLens[b] = seqLen[round.rows[b]]
<1>1. /\ Len(round.rows) \in Nat /\ DOMAIN round.rows = 1 .. Len(round.rows)
      /\ \A b \in 1 .. Len(round.rows) : seqLen[round.rows[b]] \in Nat
  BY FlightTypes
<1> DEFINE n == Len(round.rows)
           p == PrefixLens
<1>2. p = [b \in 1 .. n |-> seqLen[round.rows[b]]]
  BY <1>1 DEF PrefixLens
<1> HIDE DEF n, p
<1>3. p \in [1 .. n -> Nat] /\ \A b \in 1 .. n : p[b] = seqLen[round.rows[b]]
  BY <1>1, <1>2 DEF n
<1>4. n \in Nat
  BY <1>1 DEF n
<1>5. p \in Seq(Nat) /\ Len(p) = n
  BY <1>3, <1>4, IsSequence
<1> QED BY <1>3, <1>5 DEF n, p

\* The batch as a forward's metadata sees it: request b of the round first.
Batch(rows, lens) ==
  /\ rows \in Seq(Rows) /\ lens \in Seq(Nat) /\ Len(rows) = Len(lens)
  /\ Extends(rows, round.rows) /\ Extends(lens, PrefixLens)

Masks(mask, maskLens, lens, w) ==
  \/ mask = <<>>
  \/ /\ mask = ChainMask(PrefixLens) /\ maskLens = lens
     /\ \A b \in 1 .. Len(round.rows) : w[b] = NumDraft

LEMMA BatchFacts ==
  ASSUME ServeTypes, Flight, NEW rows, NEW lens, Batch(rows, lens), NEW b \in 1 .. Len(round.rows)
  PROVE  /\ b \in 1 .. Len(lens) /\ rows[b] = round.rows[b]
         /\ lens[b] = seqLen[round.rows[b]] /\ lens[b] \in Nat /\ lens[b] <= MaxLen
<1>1. /\ Len(round.rows) \in Nat /\ MaxLen \in Nat
      /\ round.rows[b] \in Rows /\ seqLen[round.rows[b]] \in Nat
  BY FlightTypes
<1>2. seqLen[round.rows[b]] <= MaxLen
  BY <1>1 DEF ServeTypes
<1>3. /\ Len(PrefixLens) = Len(round.rows) /\ PrefixLens[b] = seqLen[round.rows[b]]
  BY PrefixLensFacts
<1>4. Len(lens) \in Nat
  <2>1. lens \in Seq(Nat)
    BY DEF Batch
  <2> QED BY <2>1, Elements
<1>5. Len(round.rows) <= Len(lens)
  BY <1>3 DEF Batch, Extends
<1>6. rows[b] = round.rows[b]
  BY DEF Batch, Extends
<1>7. lens[b] = PrefixLens[b]
  BY <1>3 DEF Batch, Extends
<1> QED BY <1>1, <1>2, <1>3, <1>4, <1>5, <1>6, <1>7

LEMMA MaskIsCausal ==
  ASSUME ServeTypes, Flight, NEW rows, NEW lens, Batch(rows, lens), NEW w, NEW mask, NEW maskLens,
         Masks(mask, maskLens, lens, w),
         NEW b \in 1 .. Len(round.rows), NEW m \in 0 .. w[b] - 1,
         NEW prefix \in Nat, NEW from \in Nat, seqLen[round.rows[b]] = from + prefix
  PROVE  Admits(TRUE, mask, MaskIndptr(maskLens)[b - 1], prefix, w[b], from, m, m)
<1>1. CASE mask = <<>>
  BY <1>1 DEF Admits
<1>2. CASE mask # <<>>
  <2>1. mask = ChainMask(PrefixLens) /\ maskLens = lens /\ w[b] = NumDraft
    BY <1>2 DEF Masks
  <2>2. lens \in Seq(Nat) /\ Extends(lens, PrefixLens)
    BY DEF Batch
  <2>3. m \in 0 .. NumDraft - 1
    BY <2>1
  <2>4. \A k \in 0 .. NumDraft - 1 :
          ChainMask(PrefixLens)[1 + MaskCell(MaskIndptr(lens)[b - 1], prefix, NumDraft, from, m, k)]
            <=> k <= m
    BY <2>2, <2>3, ChainCausal
  <2> QED BY <1>2, <2>1, <2>4 DEF Admits
<1> QED BY <1>1, <1>2

LEMMA ContextWeighed ==
  ASSUME ServeTypes, Flight, NEW rows, NEW lens, Batch(rows, lens), NEW w, NEW causal, NEW mask,
         NEW maskLens, NEW kvs, NEW qo, NEW tok, NEW x,
         NEW b \in 1 .. Len(round.rows), NEW m \in 0 .. w[b] - 1, IsRow(kvs, qo, w, tok, x, b, m),
         NEW last \in 0 .. w[b] - 1,
         Admits(causal, mask, MaskIndptr(maskLens)[b - 1], seqLen[round.rows[b]], w[b], 0, m, last),
         NEW pool, Holds(pool, Same, b, tok, 0 .. seqLen[round.rows[b]] - 1)
  PROVE  Weighs(ExtendBag(FullMetadata(rows, lens), pool, kvs, qo, x, 0, causal, mask, maskLens),
                b, tok, 0 .. seqLen[round.rows[b]] + last)
<1> DEFINE meta == FullMetadata(rows, lens)
           L == seqLen[round.rows[b]]
<1>1. /\ b \in 1 .. Len(lens) /\ rows[b] = round.rows[b] /\ lens[b] = L /\ L \in Nat /\ L <= MaxLen
      /\ lens \in Seq(Nat) /\ rows \in Seq(Rows) /\ Len(rows) = Len(lens)
  BY BatchFacts DEF Batch
<1>2. Reads(meta, b, L, round.rows[b], 0, Same)
  <2> HIDE DEF meta, L
  <2>1. Reads(meta, b, lens[b], rows[b], 0, Same)
    BY <1>1, FullReads DEF meta
  <2> QED BY <1>1, <2>1
<1>3. RunCell(qo, b, m, w[b], x) /\ ChunkRows(kvs, qo, b, w[b], tok)
  BY DEF IsRow
<1>4. L = 0 + L /\ 0 + L - 1 = L - 1 /\ 0 + L + last = L + last
  BY <1>1
<1>5. Admits(causal, mask, MaskIndptr(maskLens)[b - 1], L, w[b], 0, m, last)
  OBVIOUS
<1>6. Holds(pool, Same, b, tok, 0 .. 0 + L - 1)
  BY <1>4
<1>7. Weighs(ExtendBag(meta, pool, kvs, qo, x, 0, causal, mask, maskLens), b, tok,
             Band(0, 0 + L + m, 0 + L + last, 0))
  <2> HIDE DEF meta
  <2>1. 0 = IF 0 > 0 THEN meta.offsets[b] ELSE 0
    OBVIOUS
  <2>2. seqLen[round.rows[b]] = 0 + L
    BY <1>4
  <2> HIDE DEF L
  <2> QED BY <1>1, <1>2, <1>3, <1>5, <1>6, <2>1, <2>2, ExtendWeighs
<1>8. Band(0, 0 + L + m, 0 + L + last, 0) = 0 .. L + last
  <2>1. Band(0, 0 + L + m, L + last, 0) = 0 .. L + last
    BY DEF Band
  <2> QED BY <1>4, <2>1
<1> QED BY <1>7, <1>8

LEMMA WindowWeighed ==
  ASSUME ServeTypes, Flight, NEW rows, NEW lens, Batch(rows, lens), NEW w, NEW mask, NEW maskLens,
         Masks(mask, maskLens, lens, w), NEW kvs, NEW qo, NEW tok, NEW x,
         NEW b \in 1 .. Len(round.rows), NEW m \in 0 .. w[b] - 1, IsRow(kvs, qo, w, tok, x, b, m),
         NEW L, L = seqLen[round.rows[b]],
         NEW pool, Holds(pool, Behind, b, tok, L - WindowLen(L) .. L - 1)
  PROVE  Weighs(ExtendBag(WindowMetadata(rows, lens), pool, kvs, qo, x, Window, TRUE, mask,
                          maskLens), b, tok, WindowFrom(L + m, Window) .. L + m)
<1> DEFINE meta == WindowMetadata(rows, lens)
           k == WindowLen(L)
           from == L - k
<1>1. /\ b \in 1 .. Len(lens) /\ rows[b] = round.rows[b] /\ lens[b] = L /\ L \in Nat /\ L <= MaxLen
      /\ lens \in Seq(Nat) /\ rows \in Seq(Rows) /\ Len(rows) = Len(lens)
  BY BatchFacts DEF Batch
<1>2. /\ Reads(meta, b, k, round.rows[b], from, Behind) /\ meta.offsets[b] = from
  <2> HIDE DEF meta
  <2>1. /\ Reads(meta, b, WindowLen(lens[b]), rows[b], lens[b] - WindowLen(lens[b]), Behind)
        /\ meta.offsets[b] = lens[b] - WindowLen(lens[b])
    BY <1>1, WindowReads DEF meta
  <2> QED BY <1>1, <2>1
<1>3. RunCell(qo, b, m, w[b], x) /\ ChunkRows(kvs, qo, b, w[b], tok)
  BY DEF IsRow
<1>4. m \in Nat
  OBVIOUS
<1>5. /\ Band(from, L + m, L + m, Window) = WindowFrom(L + m, Window) .. L + m
      /\ k \in Nat /\ from \in Nat /\ from + k = L
  <2>1. /\ Band(from, L + m, L + m, Window) = WindowFrom(L + m, Window) .. L + m
        /\ k \in Nat /\ from \in Nat
    BY <1>1, <1>4, WindowBand
  <2> HIDE DEF k
  <2> QED BY <1>1, <2>1
<1>6. Window \in Nat /\ Window > 0
  BY SizesAssumption DEF Window
<1> HIDE DEF meta, k, from
<1>7. Admits(TRUE, mask, MaskIndptr(maskLens)[b - 1], k, w[b], from, m, m)
  BY <1>5, MaskIsCausal
<1>8. Holds(pool, Behind, b, tok, from .. from + k - 1)
  BY <1>5 DEF from, k
<1>9. Weighs(ExtendBag(meta, pool, kvs, qo, x, Window, TRUE, mask, maskLens), b, tok,
             Band(from, from + k + m, from + k + m, Window))
  <2>1. from = IF Window > 0 THEN meta.offsets[b] ELSE 0
    BY <1>2, <1>6
  <2>2. seqLen[round.rows[b]] = from + k
    BY <1>5
  <2> QED BY <1>2, <1>3, <1>5, <1>6, <1>7, <1>8, <2>1, <2>2, ExtendWeighs
<1> QED BY <1>5, <1>9 DEF meta

(***************************************************************************)
(* The pools of a forward, after its store.                                *)
(***************************************************************************)
LEMMA PoolsHold ==
  ASSUME ServeTypes, Flight, NEW b \in 1 .. Len(round.rows), NEW tok, NEW pools,
         \A r \in Live, p \in Positions : p < seqLen[r] => InTarget(pools, r, p)
  PROVE  LET L == seqLen[round.rows[b]]
         IN  /\ Holds(pools.full, Same, b, tok, 0 .. L - 1)
             /\ Holds(pools.swa, Behind, b, tok, L - WindowLen(L) .. L - 1)
<1> DEFINE r == round.rows[b]
           L == seqLen[r]
<1>1. r \in Rows /\ L \in Nat /\ MaxLen \in Nat
  BY FlightTypes
<1>2. r \in Live /\ L <= MaxLen
  <2>1. owner[r] # 0
    BY DEF Flight, InBatch
  <2>2. seqLen[r] \in 0 .. MaxLen
    BY <1>1 DEF ServeTypes
  <2> QED BY <1>1, <2>1, <2>2 DEF Live
<1>3. ASSUME NEW q \in 0 .. L - 1
      PROVE  /\ Load(pools.full, Same[table[r][q]]) = Seen(b, tok, q)
             /\ q >= L - Window => Load(pools.swa, Behind[table[r][q]]) = Seen(b, tok, q)
  <2>1. q \in Positions /\ q < L
    BY <1>1, <1>2 DEF Positions
  <2>2. Seen(b, tok, q) = Token(r, q)
    BY <2>1 DEF Seen, Token
  <2>3. InTarget(pools, r, q)
    BY <1>2, <2>1
  <2>4. table[r][q] \in 0 .. FullSlots
    BY <1>1, <2>1 DEF ServeTypes
  <2>5. Same[table[r][q]] = table[r][q] /\ Behind[table[r][q]] = Translate(table[r][q])
    BY <2>4 DEF Same, Behind
  <2> QED BY <2>2, <2>3, <2>5 DEF InTarget
<1>4. Holds(pools.full, Same, b, tok, 0 .. L - 1)
  BY <1>3 DEF Holds
<1>5. L - WindowLen(L) \in Nat /\ L - WindowLen(L) >= L - Window /\ Window \in Nat
  <2>1. Window \in Nat
    BY SizesAssumption DEF Window
  <2>2. L \in Nat /\ 0 \in Nat
    BY <1>1
  <2> HIDE DEF L
  <2> QED BY <2>1, <2>2, WindowBand
<1>6. ASSUME NEW q \in L - WindowLen(L) .. L - 1 PROVE q \in 0 .. L - 1 /\ q >= L - Window
  <2> HIDE DEF L
  <2> QED BY <1>1, <1>5
<1>7. Holds(pools.swa, Behind, b, tok, L - WindowLen(L) .. L - 1)
  BY <1>3, <1>6 DEF Holds
<1> QED BY <1>4, <1>7

LEMMA DraftPoolHolds ==
  ASSUME ServeTypes, Flight, Speculates, NEW b \in 1 .. Len(round.rows), NEW tok, NEW pool,
         \A r \in Live, p \in Positions : p < seqLen[r] => InDraft(pool, r, p)
  PROVE  Holds(pool, Same, b, tok, 0 .. seqLen[round.rows[b]] - 1)
<1> DEFINE r == round.rows[b]
           L == seqLen[r]
<1>1. r \in Rows /\ L \in Nat /\ MaxLen \in Nat
  BY FlightTypes
<1>2. r \in Live /\ L <= MaxLen
  <2>1. owner[r] # 0
    BY DEF Flight, InBatch
  <2>2. seqLen[r] \in 0 .. MaxLen
    BY <1>1 DEF ServeTypes
  <2> QED BY <1>1, <2>1, <2>2 DEF Live
<1>3. ASSUME NEW q \in 0 .. L - 1
      PROVE  Load(pool, Same[table[r][q]]) = Seen(b, tok, q)
  <2>1. q \in Positions /\ q < L
    BY <1>1, <1>2 DEF Positions
  <2>2. Seen(b, tok, q) = Token(r, q)
    BY <2>1 DEF Seen, Token
  <2>3. InDraft(pool, r, q)
    BY <1>2, <2>1
  <2>4. table[r][q] \in 0 .. FullSlots
    BY <1>1, <2>1 DEF ServeTypes
  <2>5. Same[table[r][q]] = table[r][q]
    BY <2>4 DEF Same
  <2> QED BY <2>2, <2>3, <2>5 DEF InDraft
<1> QED BY <1>3 DEF Holds

(***************************************************************************)
(* The requests of the rows.                                               *)
(***************************************************************************)
\* A request is in one row.
Owners ==
  /\ \A r \in Rows : owner[r] <= served
  /\ \A r, q \in Rows : owner[r] # 0 /\ owner[r] = owner[q] => r = q

LEMMA OwnersInit == Init => Owners
BY RowsAssumption DEF Init, Owners

LEMMA OwnersStep ==
  ASSUME Serving, Owners, [Next]_vars
  PROVE  Owners'
<1>1. /\ \A r \in Rows : owner[r] \in Nat /\ owner[r] <= served
      /\ \A r, q \in Rows : owner[r] # 0 /\ owner[r] = owner[q] => r = q
      /\ served \in Nat /\ owner \in [Rows -> Nat]
  BY DEF Serving, ServeTypes, Owners
<1>2. CASE owner' = owner /\ served' = served
  BY <1>1, <1>2 DEF Owners
<1>3. ASSUME NEW r \in Rows, ScheduleExtend(r) PROVE Owners'
  <2>1. CASE owner[r] = 0
    <3>1. served' = served + 1 /\ owner' = [owner EXCEPT ![r] = served + 1]
      BY <1>3, <2>1 DEF ScheduleExtend
    <3>2. \A q \in Rows : owner'[q] = IF q = r THEN served + 1 ELSE owner[q]
      BY <1>1, <3>1
    <3> QED BY <1>1, <3>1, <3>2 DEF Owners
  <2>2. CASE owner[r] # 0
    BY <1>2, <1>3, <2>2 DEF ScheduleExtend
  <2> QED BY <2>1, <2>2
<1>4. ASSUME NEW r \in Rows, Finish(r) PROVE Owners'
  <2>1. served' = served /\ owner' = [owner EXCEPT ![r] = 0]
    BY <1>4 DEF Finish
  <2>2. \A q \in Rows : owner'[q] = IF q = r THEN 0 ELSE owner[q]
    BY <1>1, <2>1
  <2> QED BY <1>1, <2>1, <2>2 DEF Owners
<1>5. CASE \E r \in Rows : EvictSwa(r)
  BY <1>2, <1>5 DEF EvictSwa
<1>6. CASE \E batch \in SUBSET Rows : ScheduleBatch(batch)
  BY <1>2, <1>6 DEF ScheduleBatch
<1>7. CASE Extend
  BY <1>2, <1>7 DEF Extend
<1>8. CASE Decode
  BY <1>2, <1>8 DEF Decode
<1>9. CASE Propose
  BY <1>2, <1>9 DEF Propose, alloc
<1>10. CASE Verify
  BY <1>2, <1>10 DEF Verify, alloc
<1>11. CASE Commit
  BY <1>2, <1>11 DEF Commit
<1>12. CASE UNCHANGED vars
  BY <1>2, <1>12 DEF vars, alloc
<1> QED BY <1>3, <1>4, <1>5, <1>6, <1>7, <1>8, <1>9, <1>10, <1>11, <1>12 DEF Next

LEMMA BaseFound ==
  ASSUME ServeTypes, Flight, Owners, NEW b \in 1 .. Len(round.rows)
  PROVE  BaseOf(owner[round.rows[b]]) = seqLen[round.rows[b]]
<1> DEFINE r == round.rows[b]
           q == CHOOSE z \in Rows : owner[z] = owner[r]
<1>1. r \in Rows /\ owner[r] # 0
  BY FlightTypes DEF Flight, InBatch
<1>2. q \in Rows /\ owner[q] = owner[r]
  BY <1>1
<1> HIDE DEF q
<1>3. q = r
  BY <1>1, <1>2 DEF Owners
<1> QED BY <1>3 DEF BaseOf, q

(***************************************************************************)
(* The rows of a forward, whatever its batch, tokens and padding.          *)
(***************************************************************************)
Attends(S) == \A a \in S : ContextRight(a) /\ (a.model # "draft" => WindowRight(a))
Tokens(w, tok) ==
  \A b \in 1 .. Len(round.rows) : /\ w[b] \in Nat
                                  /\ \A j \in 1 .. w[b] : tok[b][j] \in {"t", "d"}

LEMMA RowRecord ==
  ASSUME ServeTypes, Flight, Owners, NEW w, NEW tok, Tokens(w, tok), NEW kvs, NEW qo, NEW x,
         NEW b \in 1 .. Len(round.rows), NEW m \in 0 .. w[b] - 1, IsRow(kvs, qo, w, tok, x, b, m),
         NEW model, NEW context, NEW window
  PROVE  RowOf(Row(model, kvs[x], BaseOf(kvs[x][1]), context, window), b, tok, m + 1, w[b])
<1> DEFINE a == Row(model, kvs[x], BaseOf(kvs[x][1]), context, window)
           L == seqLen[round.rows[b]]
<1>1. L \in Nat /\ w[b] \in Nat /\ \A j \in 1 .. w[b] : tok[b][j] \in {"t", "d"}
  BY FlightTypes DEF Tokens
<1>2. kvs[x] = KV(owner[round.rows[b]], L + m, tok[b][m + 1])
  BY DEF IsRow
<1>3. kvs[x][1] = owner[round.rows[b]]
  BY <1>2 DEF KV
<1>4. BaseOf(kvs[x][1]) = L
  BY <1>3, BaseFound
<1>5. a.kv = kvs[x] /\ a.base = BaseOf(kvs[x][1])
  BY DEF Row
<1> HIDE DEF a
<1>6. m + 1 \in 1 .. w[b] /\ L + m = L + (m + 1) - 1
  <2> HIDE DEF L
  <2> QED BY <1>1
<1> QED BY <1>1, <1>2, <1>4, <1>5, <1>6 DEF RowOf, a

\* The bag of a local layer: keys from some position up to p, at least
\* Extent - 1 of them unless they begin with the request.
WindowTo(window, b, tok, p) ==
  \E first \in 0 .. p : /\ Weighs(window, b, tok, first .. p)
                        /\ first = 0 \/ p - first + 1 \in {Extent - 1, Extent}

LEMMA RowAttends ==
  ASSUME NEW model, NEW kv, NEW base, NEW context, NEW window, NEW b, NEW tok, NEW m \in Nat,
         NEW L \in Nat, L = seqLen[round.rows[b]], NEW width,
         RowOf(Row(model, kv, base, context, window), b, tok, m + 1, width),
         NEW last \in 0 .. width - 1, LastSeen(Row(model, kv, base, context, window)) = L + last,
         Weighs(context, b, tok, 0 .. L + last),
         model # "draft" => last = m /\ WindowTo(window, b, tok, L + m)
  PROVE  LET a == Row(model, kv, base, context, window)
         IN  ContextRight(a) /\ (a.model # "draft" => WindowRight(a))
<1> DEFINE a == Row(model, kv, base, context, window)
           p == L + m
<1>1. a.model = model /\ a.context = context /\ a.window = window
  BY DEF Row
<1>2. p = seqLen[round.rows[b]] + (m + 1) - 1
  <2>1. L + m = L + (m + 1) - 1
    OBVIOUS
  <2> QED BY <2>1
<1>3. Weighs(a.context, b, tok, 0 .. L + last) /\ LastSeen(a) = L + last
  BY <1>1
<1> HIDE DEF a, p
<1>4. RowOf(a, b, tok, m + 1, width)
  BY DEF a
<1>5. ContextRight(a)
  BY <1>3, <1>4, ContextAttended
<1>6. ASSUME model # "draft" PROVE WindowRight(a)
  <2>1. PICK first \in 0 .. p : /\ Weighs(a.window, b, tok, first .. p)
                                /\ first = 0 \/ p - first + 1 \in {Extent - 1, Extent}
    <3>1. WindowTo(a.window, b, tok, p)
      BY <1>1, <1>6 DEF p
    <3> QED BY <3>1 DEF WindowTo
  <2>2. Weighs(a.context, b, tok, 0 .. p)
    BY <1>3, <1>6 DEF p
  <2> QED BY <1>2, <1>4, <2>1, <2>2, WindowAttended
<1> QED BY <1>1, <1>5, <1>6 DEF a

\* A local layer's window of an extend-like forward is the Extent keys that end
\* at the row.
LEMMA WindowExtent ==
  ASSUME NEW p \in Nat
  PROVE  /\ WindowFrom(p, Window) \in 0 .. p
         /\ WindowFrom(p, Window) = 0 \/ p - WindowFrom(p, Window) + 1 \in {Extent - 1, Extent}
<1>1. Extent \in Nat \ {0, 1}
  BY SizesAssumption
<1> QED BY <1>1 DEF WindowFrom, Window
LEMMA WindowFirst ==
  ASSUME NEW p \in Nat, NEW window, NEW b, NEW tok,
         Weighs(window, b, tok, WindowFrom(p, Window) .. p)
  PROVE  WindowTo(window, b, tok, p)
<1> DEFINE first == WindowFrom(p, Window)
<1>1. first \in 0 .. p /\ (first = 0 \/ p - first + 1 \in {Extent - 1, Extent})
  BY WindowExtent
<1>2. Weighs(window, b, tok, first .. p)
  OBVIOUS
<1> HIDE DEF first
<1> QED BY <1>1, <1>2 DEF WindowTo

TargetRow(kvs, qo, x, rows, lens, full, swa, mask, maskLens) ==
  Row("target", kvs[x], BaseOf(kvs[x][1]),
      ExtendBag(FullMetadata(rows, lens), full, kvs, qo, x, 0, TRUE, mask, maskLens),
      ExtendBag(WindowMetadata(rows, lens), swa, kvs, qo, x, Window, TRUE, mask, maskLens))
DraftRow(kvs, qo, x, rows, lens, pool) ==
  Row("draft", kvs[x], BaseOf(kvs[x][1]),
      ExtendBag(FullMetadata(rows, lens), pool, kvs, qo, x, 0, FALSE, <<>>, <<>>), <<>>)

LEMMA TargetRowAttends ==
  ASSUME ServeTypes, Flight, Owners, NEW rows, NEW lens, Batch(rows, lens),
         NEW w, NEW tok, Tokens(w, tok), NEW qo, QueryCells(qo, w),
         NEW mask, NEW maskLens, Masks(mask, maskLens, lens, w), NEW pools,
         \A r \in Live, p \in Positions : p < seqLen[r] => InTarget(pools, r, p),
         NEW x \in DOMAIN FlattenSeq(KvRows(w, tok)),
         NEW a, a = TargetRow(FlattenSeq(KvRows(w, tok)), qo, x, rows, lens, pools.full, pools.swa,
                              mask, maskLens)
  PROVE  ContextRight(a) /\ (a.model # "draft" => WindowRight(a))
<1> DEFINE kvs == FlattenSeq(KvRows(w, tok))
           context == ExtendBag(FullMetadata(rows, lens), pools.full, kvs, qo, x, 0, TRUE, mask,
                                maskLens)
           window == ExtendBag(WindowMetadata(rows, lens), pools.swa, kvs, qo, x, Window, TRUE, mask,
                               maskLens)
<1>1. \A b \in 1 .. Len(round.rows) : w[b] \in Nat
  BY DEF Tokens
<1>2. PICK b \in 1 .. Len(round.rows) : \E m \in 0 .. w[b] - 1 : IsRow(kvs, qo, w, tok, x, b, m)
  BY <1>1, RowFound
<1>3. PICK m \in 0 .. w[b] - 1 : IsRow(kvs, qo, w, tok, x, b, m)
  BY <1>2
<1> DEFINE L == seqLen[round.rows[b]]
<1>4. L \in Nat /\ m \in Nat
  BY FlightTypes
<1>5. /\ Holds(pools.full, Same, b, tok, 0 .. L - 1)
      /\ Holds(pools.swa, Behind, b, tok, L - WindowLen(L) .. L - 1)
  BY PoolsHold
<1>6. a = Row("target", kvs[x], BaseOf(kvs[x][1]), context, window)
  BY DEF TargetRow
<1> HIDE DEF kvs
<1>7. Weighs(context, b, tok, 0 .. L + m)
  <2>1. Admits(TRUE, mask, MaskIndptr(maskLens)[b - 1], L, w[b], 0, m, m)
    <3>1. L = 0 + L
      BY <1>4
    <3> QED BY <1>3, <1>4, <3>1, MaskIsCausal
  <2> DEFINE causal == TRUE
  <2>2. Admits(causal, mask, MaskIndptr(maskLens)[b - 1], L, w[b], 0, m, m)
    BY <2>1
  <2> HIDE DEF causal
  <2>3. Weighs(ExtendBag(FullMetadata(rows, lens), pools.full, kvs, qo, x, 0, causal, mask, maskLens),
               b, tok, 0 .. L + m)
    BY <1>3, <1>5, <2>2, ContextWeighed
  <2> QED BY <2>3 DEF causal
<1>8. Weighs(window, b, tok, WindowFrom(L + m, Window) .. L + m)
  BY <1>3, <1>5, WindowWeighed
<1>9. RowOf(Row("target", kvs[x], BaseOf(kvs[x][1]), context, window), b, tok, m + 1, w[b])
  BY <1>3, RowRecord
<1>10. L + m \in Nat
  BY <1>4
<1> HIDE DEF context, window
<1>12. LastSeen(Row("target", kvs[x], BaseOf(kvs[x][1]), context, window)) = L + m
  <2>1. kvs[x] = KV(owner[round.rows[b]], L + m, tok[b][m + 1])
    BY <1>3 DEF IsRow
  <2> QED BY <2>1 DEF LastSeen, Row, KV
<1>11. WindowTo(window, b, tok, L + m)
  <2> HIDE DEF L
  <2> QED BY <1>8, <1>10, WindowFirst
<1> QED BY <1>4, <1>6, <1>7, <1>9, <1>11, <1>12, RowAttends

DraftBlocks(w) == \A b \in 1 .. Len(round.rows) : w[b] = NumDraft - 1

LEMMA DraftRowAttends ==
  ASSUME ServeTypes, Flight, Speculates, Owners, NEW rows, NEW lens, Batch(rows, lens),
         NEW w, DraftBlocks(w),
         NEW tok, Tokens(w, tok), NEW qo, QueryCells(qo, w), NEW pool,
         \A r \in Live, p \in Positions : p < seqLen[r] => InDraft(pool, r, p),
         NEW x \in DOMAIN FlattenSeq(KvRows(w, tok)),
         NEW a, a = DraftRow(FlattenSeq(KvRows(w, tok)), qo, x, rows, lens, pool)
  PROVE  ContextRight(a) /\ (a.model # "draft" => WindowRight(a))
<1> DEFINE kvs == FlattenSeq(KvRows(w, tok))
           context == ExtendBag(FullMetadata(rows, lens), pool, kvs, qo, x, 0, FALSE, <<>>, <<>>)
<1>1. \A b \in 1 .. Len(round.rows) : w[b] \in Nat
  BY DEF Tokens
<1>2. PICK b \in 1 .. Len(round.rows) : \E m \in 0 .. w[b] - 1 : IsRow(kvs, qo, w, tok, x, b, m)
  BY <1>1, RowFound
<1>3. PICK m \in 0 .. w[b] - 1 : IsRow(kvs, qo, w, tok, x, b, m)
  BY <1>2
<1> DEFINE L == seqLen[round.rows[b]]
<1>4. L \in Nat /\ m \in Nat
  BY FlightTypes
<1>5. Holds(pool, Same, b, tok, 0 .. L - 1)
  BY DraftPoolHolds
<1>6. a = Row("draft", kvs[x], BaseOf(kvs[x][1]), context, <<>>)
  BY DEF DraftRow
<1> HIDE DEF kvs
<1> DEFINE last == w[b] - 1
<1>7. w[b] \in Nat /\ last \in 0 .. w[b] - 1 /\ L + last = L + NumDraft - 2 /\ w[b] = NumDraft - 1
  <2>1. w[b] = NumDraft - 1 /\ NumDraft \in Nat \ {0, 1}
    BY SizesAssumption DEF DraftBlocks
  <2> HIDE DEF L
  <2> QED BY <1>4, <2>1
<1> HIDE DEF last
<1>8. Weighs(context, b, tok, 0 .. L + last)
  <2> DEFINE causal == FALSE
             mask == <<>>
             maskLens == <<>>
  <2>1. Admits(causal, mask, MaskIndptr(maskLens)[b - 1], L, w[b], 0, m, last)
    BY <1>7 DEF Admits, last
  <2> HIDE DEF causal, mask, maskLens
  <2>2. Weighs(ExtendBag(FullMetadata(rows, lens), pool, kvs, qo, x, 0, causal, mask, maskLens),
               b, tok, 0 .. L + last)
    BY <1>3, <1>5, <1>7, <2>1, ContextWeighed
  <2> QED BY <2>2 DEF causal, mask, maskLens
<1>9. RowOf(Row("draft", kvs[x], BaseOf(kvs[x][1]), context, <<>>), b, tok, m + 1, w[b])
  BY <1>3, RowRecord
<1> HIDE DEF context
<1>10. LastSeen(Row("draft", kvs[x], BaseOf(kvs[x][1]), context, <<>>)) = L + last
  <2>1. kvs[x][1] = owner[round.rows[b]]
    BY <1>3 DEF IsRow, KV
  <2>2. BaseOf(kvs[x][1]) = L
    BY <2>1, BaseFound
  <2>3. LastSeen(Row("draft", kvs[x], BaseOf(kvs[x][1]), context, <<>>)) = L + NumDraft - 2
    BY <2>2 DEF LastSeen, Row
  <2> QED BY <1>7, <2>3
<1> QED BY <1>4, <1>6, <1>7, <1>8, <1>9, <1>10, RowAttends

(***************************************************************************)
(* The rows of a decode.                                                   *)
(***************************************************************************)
LEMMA DecodeCells ==
  ASSUME ServeTypes, Flight, NEW w, \A b \in 1 .. Len(round.rows) : w[b] = 1
  PROVE  QueryCells([b \in 0 .. Len(round.rows) |-> b], w)
<1> DEFINE n == Len(round.rows)
           qo == [b \in 0 .. n |-> b]
           run == [b \in 1 .. n |-> 1]
<1>1. n \in Nat
  BY FlightTypes
<1>2. \A b \in 1 .. n : w[b] = 1
  OBVIOUS
<1> HIDE DEF n
<1>3. run \in [1 .. n -> Nat] /\ \A b \in 1 .. n : run[b] = 1
  OBVIOUS
<1>4. DOMAIN qo = 0 .. n /\ qo[0] = 0 /\ \A b \in 1 .. n : qo[b] = qo[b - 1] + 1
  BY <1>1
<1> HIDE DEF qo, run
<1>5. run \in Seq(Nat) /\ Len(run) = n
  BY <1>1, <1>3, IsSequence
<1>6. Offsets(qo, run)
  BY <1>3, <1>4, <1>5 DEF Offsets
<1>7. n <= Len(run)
  BY <1>1, <1>5
<1>8. QueryCells(qo, w)
  BY <1>2, <1>3, <1>4, <1>5, <1>6, <1>7 DEF QueryCells, n
<1> QED BY <1>8 DEF qo, n

LEMMA DecodeRowFound ==
  ASSUME ServeTypes, Flight, NEW w, \A b \in 1 .. Len(round.rows) : w[b] = 1, NEW tok,
         NEW x \in DOMAIN FlattenSeq(KvRows(w, tok))
  PROVE  /\ x \in 1 .. Len(round.rows)
         /\ FlattenSeq(KvRows(w, tok))[x] =
              KV(owner[round.rows[x]], seqLen[round.rows[x]] + 0, tok[x][0 + 1])
<1> DEFINE n == Len(round.rows)
           qo == [b \in 0 .. n |-> b]
           kvs == FlattenSeq(KvRows(w, tok))
<1>1. n \in Nat
  BY FlightTypes
<1>2. QueryCells(qo, w)
  BY DecodeCells
<1>3. \A b \in 1 .. n : w[b] \in Nat
  OBVIOUS
<1>4. \A b \in 1 .. n : qo[b - 1] = b - 1
  BY <1>1
<1> HIDE DEF qo
<1>5. PICK b \in 1 .. n : \E m \in 0 .. w[b] - 1 : IsRow(kvs, qo, w, tok, x, b, m)
  BY <1>2, <1>3, RowFound
<1>6. PICK m \in 0 .. w[b] - 1 : IsRow(kvs, qo, w, tok, x, b, m)
  BY <1>5
<1>7. m = 0 /\ w[b] = 1
  BY <1>6
<1> HIDE DEF kvs, n
<1>8. x = qo[b - 1] + m + 1 /\ kvs[x] = KV(owner[round.rows[b]], seqLen[round.rows[b]] + m, tok[b][m + 1])
  BY <1>6 DEF IsRow, RunCell
<1>9. x = b
  BY <1>1, <1>4, <1>7, <1>8
<1> QED BY <1>7, <1>8, <1>9 DEF kvs, n

\* The batch of a decode: each request reads its new token too.
DecodeBatch(rows, lens) ==
  /\ rows \in Seq(Rows) /\ lens \in Seq(Nat) /\ Len(rows) = Len(lens)
  /\ Extends(rows, round.rows)
  /\ Extends(lens, [b \in DOMAIN round.rows |-> PrefixLens[b] + 1])

LEMMA DecodeBatchFacts ==
  ASSUME ServeTypes, Flight, NEW rows, NEW lens, DecodeBatch(rows, lens),
         NEW b \in 1 .. Len(round.rows), round.width[b] = 1
  PROVE  /\ b \in 1 .. Len(lens) /\ rows[b] = round.rows[b]
         /\ lens[b] = seqLen[round.rows[b]] + 1 /\ lens[b] \in Nat /\ lens[b] <= MaxLen
<1> DEFINE n == Len(round.rows)
           r == round.rows[b]
           more == [c \in DOMAIN round.rows |-> PrefixLens[c] + 1]
<1>1. /\ n \in Nat /\ DOMAIN round.rows = 1 .. n /\ MaxLen \in Nat
      /\ seqLen[r] \in Nat
  BY FlightTypes
<1>2. seqLen[r] + 1 <= MaxLen
  BY DEF Flight, InBatch
<1>3. \A c \in 1 .. n : PrefixLens[c] = seqLen[round.rows[c]] /\ seqLen[round.rows[c]] \in Nat
  BY PrefixLensFacts, FlightTypes
<1>4. more \in [1 .. n -> Nat] /\ more[b] = seqLen[r] + 1
  BY <1>1, <1>3
<1> HIDE DEF more
<1>5. Len(more) = n
  BY <1>1, <1>4, IsSequence
<1>6. lens \in Seq(Nat) /\ Extends(lens, more) /\ Extends(rows, round.rows)
  BY DEF DecodeBatch, more
<1>7. Len(lens) \in Nat
  BY <1>6, Elements
<1>8. n <= Len(lens)
  BY <1>5, <1>6 DEF Extends
<1>9. lens[b] = more[b]
  BY <1>5, <1>6 DEF Extends
<1>10. rows[b] = r
  BY <1>6 DEF Extends
<1>11. b \in 1 .. Len(lens)
  BY <1>1, <1>7, <1>8
<1> QED BY <1>1, <1>2, <1>4, <1>9, <1>10, <1>11

DecodeRow(kvs, x, rows, lens, full, swa, splits) ==
  Row("decode", kvs[x], PrefixLens[x], DecodeBag(FullMetadata(rows, lens), full, x, splits),
      DecodeBag(WindowMetadata(rows, lens), swa, x, splits))

LEMMA DecodePoolsHold ==
  ASSUME ServeTypes, Flight, NEW b \in 1 .. Len(round.rows), round.width[b] = 1,
         NEW tok, tok[b][1] = "t", NEW pools,
         \A r \in Live, p \in Positions : p < seqLen[r] => InTarget(pools, r, p),
         \A p \in Positions : Covered(round.width, b, round.rows[b], p)
           => InTarget(pools, round.rows[b], p),
         NEW L, L = seqLen[round.rows[b]]
  PROVE  /\ Holds(pools.full, Same, b, tok, 0 .. L)
         /\ Holds(pools.swa, Behind, b, tok, L + 1 - WindowLen(L + 1) .. L)
<1> DEFINE r == round.rows[b]
<1>1. r \in Rows /\ L \in Nat /\ MaxLen \in Nat
  BY FlightTypes
<1>2. r \in Live /\ L + 1 <= MaxLen
  BY <1>1 DEF Flight, InBatch, Live
<1>3. ASSUME NEW q \in 0 .. L
      PROVE  /\ Load(pools.full, Same[table[r][q]]) = Seen(b, tok, q)
             /\ q >= L - Window => Load(pools.swa, Behind[table[r][q]]) = Seen(b, tok, q)
  <2>1. q \in Positions
    BY <1>1, <1>2 DEF Positions
  <2>2. Seen(b, tok, q) = Token(r, q) /\ InTarget(pools, r, q)
    <3>1. CASE q < L
      BY <1>2, <2>1, <3>1 DEF Seen, Token
    <3>2. CASE ~(q < L)
      <4>1. q = L /\ q - L + 1 = 1
        BY <1>1, <3>2
      <4>2. Seen(b, tok, q) = Token(r, q)
        BY <3>2, <4>1 DEF Seen, Token
      <4>3. Covered(round.width, b, r, q)
        BY <1>1, <4>1 DEF Covered
      <4> QED BY <2>1, <4>2, <4>3
    <3> QED BY <3>1, <3>2
  <2>3. table[r][q] \in 0 .. FullSlots
    BY <1>1, <2>1 DEF ServeTypes
  <2>4. Same[table[r][q]] = table[r][q] /\ Behind[table[r][q]] = Translate(table[r][q])
    BY <2>3 DEF Same, Behind
  <2> QED BY <2>2, <2>4 DEF InTarget
<1>4. Holds(pools.full, Same, b, tok, 0 .. L)
  BY <1>3 DEF Holds
<1>5. WindowLen(L + 1) \in 0 .. L + 1 /\ WindowLen(L + 1) <= Window /\ Window \in Nat
  <2>1. Window \in Nat
    BY SizesAssumption DEF Window
  <2> QED BY <1>1, <2>1 DEF WindowLen
<1>6. ASSUME NEW q \in L + 1 - WindowLen(L + 1) .. L PROVE q \in 0 .. L /\ q >= L - Window
  BY <1>1, <1>5
<1>7. Holds(pools.swa, Behind, b, tok, L + 1 - WindowLen(L + 1) .. L)
  BY <1>3, <1>6 DEF Holds
<1> QED BY <1>4, <1>7

LEMMA DecodeWindow ==
  ASSUME NEW L \in Nat, NEW window, NEW b, NEW tok,
         Weighs(window, b, tok, L + 1 - WindowLen(L + 1) .. L)
  PROVE  WindowTo(window, b, tok, L)
<1> DEFINE first == L + 1 - WindowLen(L + 1)
<1>1. Extent \in Nat \ {0, 1}
  BY SizesAssumption
<1>2. first \in 0 .. L /\ (first = 0 \/ L - first + 1 \in {Extent - 1, Extent})
  BY <1>1 DEF WindowLen, Window
<1>3. Weighs(window, b, tok, first .. L)
  OBVIOUS
<1> HIDE DEF first
<1> QED BY <1>2, <1>3 DEF WindowTo

\* A decode stores one token of each request's own.
OneEach == \A b \in 1 .. Len(round.rows) : round.width[b] = 1
RealTokens(tok) == \A b \in 1 .. Len(round.rows) : tok[b][1] = "t"
Committed(pools) == \A r \in Live, p \in Positions : p < seqLen[r] => InTarget(pools, r, p)
Stored(pools) ==
  \A b \in 1 .. Len(round.rows), p \in Positions :
    Covered(round.width, b, round.rows[b], p) => InTarget(pools, round.rows[b], p)

LEMMA DecodeRowParts ==
  ASSUME ServeTypes, Flight, OneEach, NEW tok, RealTokens(tok), NEW pools, Committed(pools),
         Stored(pools), NEW x \in DOMAIN FlattenSeq(KvRows(round.width, tok)),
         NEW L, L = seqLen[round.rows[x]]
  PROVE  /\ x \in 1 .. Len(round.rows) /\ L \in Nat /\ round.width[x] = 1 /\ tok[x][1] = "t"
         /\ FlattenSeq(KvRows(round.width, tok))[x] = KV(owner[round.rows[x]], L, tok[x][1])
         /\ Holds(pools.full, Same, x, tok, 0 .. L)
         /\ Holds(pools.swa, Behind, x, tok, L + 1 - WindowLen(L + 1) .. L)
<1>1. /\ x \in 1 .. Len(round.rows)
      /\ FlattenSeq(KvRows(round.width, tok))[x] = KV(owner[round.rows[x]], L + 0, tok[x][0 + 1])
  <2> DEFINE w == round.width
  <2>1. \A b \in 1 .. Len(round.rows) : w[b] = 1
    BY DEF OneEach
  <2>2. x \in DOMAIN FlattenSeq(KvRows(w, tok))
    OBVIOUS
  <2> HIDE DEF w
  <2>3. /\ x \in 1 .. Len(round.rows)
        /\ FlattenSeq(KvRows(w, tok))[x] =
             KV(owner[round.rows[x]], seqLen[round.rows[x]] + 0, tok[x][0 + 1])
    BY <2>1, <2>2, DecodeRowFound
  <2> QED BY <2>3 DEF w
<1>2. round.width[x] = 1 /\ tok[x][1] = "t"
  BY <1>1 DEF OneEach, RealTokens
<1>3. L \in Nat
  BY <1>1, FlightTypes
<1>4. L + 0 = L
  BY <1>3
<1>5. /\ Holds(pools.full, Same, x, tok, 0 .. L)
      /\ Holds(pools.swa, Behind, x, tok, L + 1 - WindowLen(L + 1) .. L)
  <2>1. \A r \in Live, p \in Positions : p < seqLen[r] => InTarget(pools, r, p)
    BY DEF Committed
  <2>2. \A p \in Positions : Covered(round.width, x, round.rows[x], p)
          => InTarget(pools, round.rows[x], p)
    BY <1>1 DEF Stored
  <2> QED BY <1>1, <1>2, <2>1, <2>2, DecodePoolsHold
<1> QED BY <1>1, <1>2, <1>3, <1>4, <1>5

LEMMA DecodeRowReads ==
  ASSUME ServeTypes, Flight, OneEach, NEW rows, NEW lens, DecodeBatch(rows, lens),
         NEW x \in 1 .. Len(round.rows), NEW L, L = seqLen[round.rows[x]]
  PROVE  /\ Reads(FullMetadata(rows, lens), x, L + 1, round.rows[x], 0, Same)
         /\ Reads(WindowMetadata(rows, lens), x, WindowLen(L + 1), round.rows[x],
                  L + 1 - WindowLen(L + 1), Behind)
<1>1. round.width[x] = 1
  BY DEF OneEach
<1>2. /\ x \in 1 .. Len(lens) /\ rows[x] = round.rows[x] /\ lens[x] = L + 1 /\ lens[x] <= MaxLen
  BY <1>1, DecodeBatchFacts
<1>3. lens \in Seq(Nat) /\ rows \in Seq(Rows) /\ Len(rows) = Len(lens)
  BY DEF DecodeBatch
<1>4. Reads(FullMetadata(rows, lens), x, lens[x], rows[x], 0, Same)
  BY <1>2, <1>3, FullReads
<1>5. Reads(WindowMetadata(rows, lens), x, WindowLen(lens[x]), rows[x],
            lens[x] - WindowLen(lens[x]), Behind)
  BY <1>2, <1>3, WindowReads
<1> DEFINE n == lens[x]
           k == L + 1
           row == rows[x]
<1>6. n = k /\ row = round.rows[x]
  BY <1>2
<1>7. Reads(FullMetadata(rows, lens), x, n, row, 0, Same)
  BY <1>4
<1>8. Reads(WindowMetadata(rows, lens), x, WindowLen(n), row, n - WindowLen(n), Behind)
  BY <1>5
<1> HIDE DEF n, k, row
<1>9. Reads(FullMetadata(rows, lens), x, k, round.rows[x], 0, Same)
  BY <1>6, <1>7
<1>10. Reads(WindowMetadata(rows, lens), x, WindowLen(k), round.rows[x], k - WindowLen(k), Behind)
  BY <1>6, <1>8
<1>11. k = L + 1
  BY DEF k
<1>12. Reads(FullMetadata(rows, lens), x, L + 1, round.rows[x], 0, Same)
  BY ONLY <1>9, <1>11
<1>13. Reads(WindowMetadata(rows, lens), x, WindowLen(L + 1), round.rows[x],
             L + 1 - WindowLen(L + 1), Behind)
  <2>1. L + 1 - WindowLen(L + 1) = k - WindowLen(k) /\ WindowLen(L + 1) = WindowLen(k)
    <3>1. L \in Nat
      BY FlightTypes
    <3>2. Window \in Nat
      BY SizesAssumption DEF Window
    <3>3. WindowLen(k) \in Nat
      BY <3>1, <3>2 DEF WindowLen, k
    <3> DEFINE n2 == WindowLen(k)
    <3> HIDE DEF n2
    <3>4. L + (1 - n2) = k - n2
      BY <3>1, <3>3 DEF k, n2
    <3> QED BY <3>4, <1>11 DEF n2
  <2> QED BY ONLY <1>10, <2>1
<1> QED BY <1>12, <1>13

LEMMA DecodeRowWeighs ==
  ASSUME NEW full, NEW swa, NEW pools, NEW x, NEW tok, NEW splits \in 1 .. MaxSplits,
         NEW row, NEW L \in Nat,
         Reads(full, x, L + 1, row, 0, Same),
         Reads(swa, x, WindowLen(L + 1), row, L + 1 - WindowLen(L + 1), Behind),
         Holds(pools.full, Same, x, tok, 0 .. L),
         Holds(pools.swa, Behind, x, tok, L + 1 - WindowLen(L + 1) .. L),
         row = round.rows[x]
  PROVE  /\ Weighs(DecodeBag(full, pools.full, x, splits), x, tok, 0 .. L)
         /\ WindowTo(DecodeBag(swa, pools.swa, x, splits), x, tok, L)
<1>1. Weighs(DecodeBag(full, pools.full, x, splits), x, tok, 0 .. L)
  <2> DEFINE k == L + 1
  <2>1. k \in Nat \ {0} /\ 0 + k - 1 = L
    OBVIOUS
  <2>2. Reads(full, x, k, round.rows[x], 0, Same)
    OBVIOUS
  <2> HIDE DEF k
  <2>3. Holds(pools.full, Same, x, tok, 0 .. 0 + k - 1)
    BY <2>1
  <2>4. Weighs(DecodeBag(full, pools.full, x, splits), x, tok, 0 .. 0 + k - 1)
    BY <2>1, <2>2, <2>3, DecodeWeighs
  <2> QED BY <2>1, <2>4
<1>2. Weighs(DecodeBag(swa, pools.swa, x, splits), x, tok, L + 1 - WindowLen(L + 1) .. L)
  <2> DEFINE n == WindowLen(L + 1)
             from == L + 1 - n
  <2>1. n \in Nat \ {0} /\ n <= L + 1
    <3>1. Window \in Nat \ {0}
      BY SizesAssumption DEF Window
    <3> QED BY <3>1 DEF WindowLen
  <2>2. Reads(swa, x, n, round.rows[x], from, Behind) /\ Holds(pools.swa, Behind, x, tok, from .. L)
    OBVIOUS
  <2> HIDE DEF n
  <2>3. from \in Nat /\ from + n - 1 = L
    BY <2>1
  <2> HIDE DEF from
  <2>4. Holds(pools.swa, Behind, x, tok, from .. from + n - 1)
    BY <2>2, <2>3
  <2>5. Weighs(DecodeBag(swa, pools.swa, x, splits), x, tok, from .. from + n - 1)
    BY <2>1, <2>2, <2>3, <2>4, DecodeWeighs
  <2>6. Weighs(DecodeBag(swa, pools.swa, x, splits), x, tok, from .. L)
    BY <2>3, <2>5
  <2> QED BY <2>6 DEF from, n
<1>3. WindowTo(DecodeBag(swa, pools.swa, x, splits), x, tok, L)
  BY <1>2, DecodeWindow
<1> QED BY <1>1, <1>3

LEMMA DecodeRowAttends ==
  ASSUME ServeTypes, Flight, OneEach, NEW rows, NEW lens, DecodeBatch(rows, lens),
         NEW splits \in 1 .. MaxSplits, NEW tok, RealTokens(tok), NEW pools, Committed(pools),
         Stored(pools), NEW x \in DOMAIN FlattenSeq(KvRows(round.width, tok)),
         NEW a, a = DecodeRow(FlattenSeq(KvRows(round.width, tok)), x, rows, lens, pools.full,
                              pools.swa, splits)
  PROVE  ContextRight(a) /\ (a.model # "draft" => WindowRight(a))
<1> DEFINE kvs == FlattenSeq(KvRows(round.width, tok))
           L == seqLen[round.rows[x]]
           full == FullMetadata(rows, lens)
           swa == WindowMetadata(rows, lens)
           context == DecodeBag(full, pools.full, x, splits)
           window == DecodeBag(swa, pools.swa, x, splits)
<1>1. /\ x \in 1 .. Len(round.rows) /\ L \in Nat /\ tok[x][1] = "t"
      /\ kvs[x] = KV(owner[round.rows[x]], L, tok[x][1])
      /\ Holds(pools.full, Same, x, tok, 0 .. L)
      /\ Holds(pools.swa, Behind, x, tok, L + 1 - WindowLen(L + 1) .. L)
  BY DecodeRowParts
<1>2. a = Row("decode", kvs[x], PrefixLens[x], context, window)
  BY DEF DecodeRow
<1>3. PrefixLens[x] = L
  BY <1>1, PrefixLensFacts
<1>4. /\ Reads(full, x, L + 1, round.rows[x], 0, Same)
      /\ Reads(swa, x, WindowLen(L + 1), round.rows[x], L + 1 - WindowLen(L + 1), Behind)
  BY <1>1, DecodeRowReads
<1> HIDE DEF kvs, full, swa, L
<1>5. Weighs(context, x, tok, 0 .. L) /\ WindowTo(window, x, tok, L)
  BY <1>1, <1>4, DecodeRowWeighs
<1> HIDE DEF context, window
<1>6. L + 0 = L /\ 0 + 1 = 1 /\ L + 1 - 1 = L /\ 0 \in Nat
  BY <1>1
<1>7. L = seqLen[round.rows[x]]
  BY DEF L
<1>8. RowOf(Row("decode", kvs[x], PrefixLens[x], context, window), x, tok, 0 + 1, 1)
  <2> DEFINE r == Row("decode", kvs[x], PrefixLens[x], context, window)
  <2>1. r.kv = kvs[x] /\ r.base = PrefixLens[x]
    BY DEF Row
  <2> HIDE DEF r
  <2>2. \A i \in 1 .. 1 : tok[x][i] \in {"t", "d"}
    BY <1>1
  <2>3. 1 \in Nat /\ 1 \in 1 .. 1
    OBVIOUS
  <2>4. RowOf(r, x, tok, 1, 1)
    BY <1>1, <1>3, <1>6, <1>7, <2>1, <2>2, <2>3 DEF RowOf
  <2> QED BY <1>6, <2>4 DEF r
<1>9. Weighs(context, x, tok, 0 .. L + 0) /\ WindowTo(window, x, tok, L + 0)
  BY <1>5, <1>6
<1>10. /\ LastSeen(Row("decode", kvs[x], PrefixLens[x], context, window)) = L + 0
       /\ 0 \in 0 .. 1 - 1
  <2>1. kvs[x][2] = L
    BY <1>1 DEF KV
  <2>2. LastSeen(Row("decode", kvs[x], PrefixLens[x], context, window)) = L
    BY <2>1 DEF LastSeen, Row
  <2> QED BY <1>6, <2>2
<1>11. LET r == Row("decode", kvs[x], PrefixLens[x], context, window)
       IN  ContextRight(r) /\ (r.model # "draft" => WindowRight(r))
  <2> HIDE DEF kvs
  <2> QED BY <1>1, <1>6, <1>7, <1>8, <1>9, <1>10, RowAttends
<1> QED BY <1>2, <1>11

(***************************************************************************)
(* The forwards.                                                           *)
(***************************************************************************)
\* After the store of a forward of the target its pools have the committed
\* tokens and the new ones that are the request's own.
LEMMA TargetForward ==
  ASSUME Serving, NEW g, NEW per, Replays(g, per), NEW tok,
         StoreTarget(g, per, FlattenSeq(Locs2d(round.width)), FlattenSeq(KvRows(round.width, tok)))
  PROVE  /\ \A r \in Live, p \in Positions : p < seqLen[r] => InTarget(target', r, p)
         /\ \A b \in 1 .. Len(round.rows), p \in Positions :
              /\ Covered(round.width, b, round.rows[b], p)
              /\ tok[b][p - seqLen[round.rows[b]] + 1] = "t"
              => InTarget(target', round.rows[b], p)
<1>1. Booted /\ ServeTypes /\ SlotsOwnedOnce /\ RowsFilled /\ Flight /\ StoredSoFar
  BY DEF Serving
<1>2. /\ DOMAIN target'.full = 1 .. FullSlots /\ DOMAIN target'.swa = 1 .. SwaSlots
      /\ \A r \in Rows, p \in Positions : table[r][p] # 0 => TargetUpdated(tok, r, p)
  BY <1>1, TargetStored
<1> QED BY <1>1, <1>2, TargetHolds

LEMMA OwnTokensTyped ==
  ASSUME ServeTypes, Flight
  PROVE  Tokens(round.width, OwnTokens)
<1>1. \A b \in 1 .. Len(round.rows) : round.width[b] \in Nat /\ b \in DOMAIN round.rows
  BY FlightTypes
<1> QED BY <1>1 DEF Tokens, OwnTokens

\* The batch a graph replays.
LEMMA ReplayedBatch ==
  ASSUME ServeTypes, Flight, NEW g \in GraphChoices(Len(round.rows))
  PROVE  /\ Batch(Replayed(round.rows, g, 0), Replayed(PrefixLens, g, SeqLenFill))
         /\ Len(Replayed(round.rows, g, 0)) \in Nat
         /\ Len(round.rows) <= Len(Replayed(round.rows, g, 0))
<1> DEFINE rows == Replayed(round.rows, g, 0)
           lens == Replayed(PrefixLens, g, SeqLenFill)
           n == Len(round.rows)
<1>1. round.rows \in Seq(Rows) /\ PrefixLens \in Seq(Nat) /\ Len(PrefixLens) = n
  BY FlightTypes, PrefixLensFacts
<1>2. 0 \in Rows /\ SeqLenFill \in Nat
  BY RowsAssumption DEF SeqLenFill
<1>3. /\ rows \in Seq(Rows) /\ Extends(rows, round.rows)
      /\ Len(rows) = IF g = 0 THEN n ELSE g
  BY <1>1, <1>2, ReplayedFacts
<1>4. /\ lens \in Seq(Nat) /\ Extends(lens, PrefixLens)
      /\ Len(lens) = IF g = 0 THEN n ELSE g
  <2> DEFINE p == PrefixLens
             fill == SeqLenFill
             U == Nat
  <2>1. p \in Seq(U) /\ Len(p) = n /\ fill \in U
    BY <1>1, <1>2
  <2> HIDE DEF p, fill, U
  <2>2. g \in GraphChoices(Len(p))
    BY <2>1
  <2>3. /\ Replayed(p, g, fill) \in Seq(U) /\ Extends(Replayed(p, g, fill), p)
        /\ Len(Replayed(p, g, fill)) = IF g = 0 THEN Len(p) ELSE g
    BY <2>1, <2>2, ReplayedFacts
  <2> QED BY <2>1, <2>3 DEF p, fill, U
<1> HIDE DEF rows, lens
<1>5. Batch(rows, lens)
  BY <1>3, <1>4 DEF Batch
<1>6. Len(rows) \in Nat /\ n <= Len(rows)
  <2>1. Len(rows) \in Nat
    BY <1>3, Elements
  <2> QED BY <1>3, <2>1 DEF Extends
<1> QED BY <1>5, <1>6 DEF rows, lens

LEMMA RowsOfTarget ==
  ASSUME ServeTypes, Flight, Owners, NEW rows, NEW lens, Batch(rows, lens),
         NEW w, NEW tok, Tokens(w, tok), NEW qo, QueryCells(qo, w),
         NEW mask, NEW maskLens, Masks(mask, maskLens, lens, w), NEW pools, Committed(pools),
         NEW kvs, kvs = FlattenSeq(KvRows(w, tok))
  PROVE  Attends({TargetRow(kvs, qo, x, rows, lens, pools.full, pools.swa, mask, maskLens)
                    : x \in DOMAIN kvs})
<1>1. \A r \in Live, p \in Positions : p < seqLen[r] => InTarget(pools, r, p)
  BY DEF Committed
<1>2. ASSUME NEW x \in DOMAIN kvs,
             NEW a, a = TargetRow(kvs, qo, x, rows, lens, pools.full, pools.swa, mask, maskLens)
      PROVE  ContextRight(a) /\ (a.model # "draft" => WindowRight(a))
  BY <1>1, <1>2, TargetRowAttends
<1> QED BY <1>2 DEF Attends

LEMMA RowsOfDraft ==
  ASSUME ServeTypes, Flight, Speculates, Owners, NEW rows, NEW lens, Batch(rows, lens),
         NEW w, DraftBlocks(w),
         NEW tok, Tokens(w, tok), NEW qo, QueryCells(qo, w), NEW pool,
         \A r \in Live, p \in Positions : p < seqLen[r] => InDraft(pool, r, p),
         NEW kvs, kvs = FlattenSeq(KvRows(w, tok))
  PROVE  Attends({DraftRow(kvs, qo, x, rows, lens, pool) : x \in DOMAIN kvs})
<1>1. ASSUME NEW x \in DOMAIN kvs, NEW a, a = DraftRow(kvs, qo, x, rows, lens, pool)
      PROVE  ContextRight(a) /\ (a.model # "draft" => WindowRight(a))
  BY <1>1, DraftRowAttends
<1> QED BY <1>1 DEF Attends

LEMMA RowsOfDecode ==
  ASSUME ServeTypes, Flight, OneEach, NEW rows, NEW lens, DecodeBatch(rows, lens),
         NEW splits \in 1 .. MaxSplits, NEW tok, RealTokens(tok), NEW pools, Committed(pools),
         Stored(pools), NEW kvs, kvs = FlattenSeq(KvRows(round.width, tok))
  PROVE  Attends({DecodeRow(kvs, x, rows, lens, pools.full, pools.swa, splits)
                    : x \in DOMAIN kvs})
<1>1. ASSUME NEW x \in DOMAIN kvs,
             NEW a, a = DecodeRow(kvs, x, rows, lens, pools.full, pools.swa, splits)
      PROVE  ContextRight(a) /\ (a.model # "draft" => WindowRight(a))
  BY <1>1, DecodeRowAttends
<1> QED BY <1>1 DEF Attends

LEMMA EagerBatch ==
  ASSUME ServeTypes, Flight
  PROVE  Batch(round.rows, PrefixLens)
<1>1. round.rows \in Seq(Rows) /\ PrefixLens \in Seq(Nat) /\ Len(PrefixLens) = Len(round.rows)
  BY FlightTypes, PrefixLensFacts
<1>2. Extends(round.rows, round.rows) /\ Extends(PrefixLens, PrefixLens)
  <2>1. Len(round.rows) <= Len(round.rows) /\ Len(PrefixLens) <= Len(PrefixLens)
    BY <1>1
  <2> QED BY <2>1 DEF Extends
<1> QED BY <1>1, <1>2 DEF Batch

\* The batch a graph of decodes replays.
LEMMA ReplayedDecode ==
  ASSUME ServeTypes, Flight, NEW g \in GraphChoices(Len(round.rows))
  PROVE  DecodeBatch(Replayed(round.rows, g, 0),
                     Replayed([b \in DOMAIN round.rows |-> PrefixLens[b] + 1], g, SeqLenFill))
<1> DEFINE rows == Replayed(round.rows, g, 0)
           more == [b \in DOMAIN round.rows |-> PrefixLens[b] + 1]
           lens == Replayed(more, g, SeqLenFill)
           n == Len(round.rows)
<1>1. /\ round.rows \in Seq(Rows) /\ n \in Nat /\ DOMAIN round.rows = 1 .. n
      /\ \A b \in 1 .. n : PrefixLens[b] \in Nat
  BY FlightTypes, PrefixLensFacts
<1>2. 0 \in Rows /\ SeqLenFill \in Nat
  BY RowsAssumption DEF SeqLenFill
<1>3. /\ rows \in Seq(Rows) /\ Extends(rows, round.rows)
      /\ Len(rows) = IF g = 0 THEN n ELSE g
  BY <1>1, <1>2, ReplayedFacts
<1>4. more \in [1 .. n -> Nat]
  BY <1>1
<1>5. /\ lens \in Seq(Nat) /\ Extends(lens, more)
      /\ Len(lens) = IF g = 0 THEN n ELSE g
  <2> DEFINE fill == SeqLenFill
             U == Nat
  <2> HIDE DEF more
  <2>1. more \in Seq(U) /\ Len(more) = n /\ fill \in U
    BY <1>1, <1>2, <1>4, IsSequence
  <2> HIDE DEF fill, U
  <2>2. g \in GraphChoices(Len(more))
    BY <2>1
  <2>3. /\ Replayed(more, g, fill) \in Seq(U) /\ Extends(Replayed(more, g, fill), more)
        /\ Len(Replayed(more, g, fill)) = IF g = 0 THEN Len(more) ELSE g
    BY <2>1, <2>2, ReplayedFacts
  <2> QED BY <2>1, <2>3 DEF fill, U
<1> HIDE DEF rows, lens
<1>6. DecodeBatch(rows, lens)
  BY <1>3, <1>5 DEF DecodeBatch
<1> QED BY <1>6 DEF rows, lens

LEMMA ExtendAttends ==
  ASSUME Serving, Owners, Extend
  PROVE  Attends(attended')
<1> DEFINE w == round.width
           kvs == NewKV(w, LAMBDA b, j : "t")
           qo == Indptr(w)
<1>1. ServeTypes /\ Flight
  BY DEF Serving
<1>2. /\ StoreTarget(0, 0, FlattenSeq(Locs2d(w)), kvs)
      /\ attended' = {TargetRow(kvs, qo, x, round.rows, PrefixLens, target'.full, target'.swa,
                                <<>>, <<>>) : x \in DOMAIN kvs}
  BY DEF Extend, TargetRow
<1>3. kvs = FlattenSeq(KvRows(w, OwnTokens))
  BY <1>1, OwnTokensFacts
<1> HIDE DEF kvs
<1>4. Replays(0, 0) /\ StoreTarget(0, 0, FlattenSeq(Locs2d(w)), FlattenSeq(KvRows(w, OwnTokens)))
  BY <1>2, <1>3 DEF Replays
<1>5. Committed(target')
  BY <1>4, TargetForward DEF Committed
<1>6. Tokens(w, OwnTokens) /\ QueryCells(qo, w) /\ Batch(round.rows, PrefixLens)
  BY <1>1, OwnTokensTyped, IndptrCells, EagerBatch
<1>7. Masks(<<>>, <<>>, PrefixLens, w)
  BY DEF Masks
<1> HIDE DEF w, qo
<1>8. Attends({TargetRow(kvs, qo, x, round.rows, PrefixLens, target'.full, target'.swa,
                         <<>>, <<>>) : x \in DOMAIN kvs})
  BY <1>1, <1>3, <1>5, <1>6, <1>7, RowsOfTarget
<1> QED BY <1>2, <1>8

LEMMA DecodeAttends ==
  ASSUME Serving, Owners, Decode
  PROVE  Attends(attended')
<1> DEFINE w == round.width
           kvs == NewKV(w, LAMBDA b, j : "t")
           more == [b \in DOMAIN round.rows |-> PrefixLens[b] + 1]
<1>1. ServeTypes /\ Flight
  BY DEF Serving
<1>2. PICK g \in GraphChoices(Len(round.rows)), splits \in 1 .. MaxSplits :
        /\ round.step = "decode"
        /\ StoreTarget(g, 1, FlattenSeq(Locs2d(w)), kvs)
        /\ attended' = {DecodeRow(kvs, x, Replayed(round.rows, g, 0), Replayed(more, g, SeqLenFill),
                                  target'.full, target'.swa, splits) : x \in DOMAIN kvs}
  BY DEF Decode, DecodeRow
<1>3. (\A b \in 1 .. Len(round.rows) : w[b] = 1) /\ 1 \in 1 .. NumDraft
  <2>1. NumDraft \in Nat \ {0, 1}
    BY SizesAssumption
  <2>2. 1 \in 1 .. NumDraft
    BY <2>1
  <2> QED BY <1>1, <1>2, <2>2 DEF Flight
<1>4. kvs = FlattenSeq(KvRows(w, OwnTokens))
  BY <1>1, OwnTokensFacts
<1> HIDE DEF kvs
<1>5. Replays(g, 1) /\ StoreTarget(g, 1, FlattenSeq(Locs2d(w)), FlattenSeq(KvRows(w, OwnTokens)))
  BY <1>1, <1>2, <1>3, <1>4, GraphReplays
<1>6. /\ Committed(target')
      /\ \A b \in 1 .. Len(round.rows), p \in Positions :
              /\ Covered(w, b, round.rows[b], p)
              /\ OwnTokens[b][p - seqLen[round.rows[b]] + 1] = "t"
              => InTarget(target', round.rows[b], p)
  BY <1>5, TargetForward DEF Committed
<1>7. Stored(target')
  BY <1>1, <1>6, OwnTokensFacts DEF Stored
<1>8. OneEach /\ RealTokens(OwnTokens)
  <2>1. DOMAIN round.rows = 1 .. Len(round.rows)
    BY <1>1, FlightTypes
  <2>2. \A b \in 1 .. Len(round.rows) : OwnTokens[b][1] = "t"
    BY <1>3, <2>1 DEF OwnTokens
  <2> QED BY <1>3, <2>2 DEF OneEach, RealTokens
<1> DEFINE rows == Replayed(round.rows, g, 0)
           lens == Replayed(more, g, SeqLenFill)
<1>9. DecodeBatch(rows, lens)
  BY <1>1, ReplayedDecode
<1>10. attended' = {DecodeRow(kvs, x, rows, lens, target'.full, target'.swa, splits) : x \in DOMAIN kvs}
  BY <1>2
<1> HIDE DEF rows, lens
<1>11. Attends({DecodeRow(kvs, x, rows, lens, target'.full, target'.swa, splits) : x \in DOMAIN kvs})
  BY <1>1, <1>4, <1>6, <1>7, <1>8, <1>9, RowsOfDecode
<1> QED BY <1>10, <1>11

LEMMA ProposeAttends ==
  ASSUME Serving, Owners, Propose
  PROVE  Attends(attended')
<1> DEFINE w == [b \in DOMAIN round.rows |-> NumDraft - 1]
           tok == [b \in DOMAIN round.rows |-> [j \in 1 .. w[b] |-> "d"]]
           kvs == NewKV(w, LAMBDA b, j : "d")
<1>1. /\ Booted /\ ServeTypes /\ SlotsOwnedOnce /\ RowsFilled /\ Flight /\ StoredSoFar
  BY DEF Serving
<1>2. PICK g \in GraphChoices(Len(round.rows)) :
        /\ round.step = "propose"
        /\ draft' = Store(draft, FlattenSeq(Locs2d(w)), kvs)
        /\ attended' = {DraftRow(kvs, QoIndptr(Len(Replayed(round.rows, g, 0)), "draft"), x,
                                 Replayed(round.rows, g, 0), Replayed(PrefixLens, g, SeqLenFill),
                                 draft') : x \in DOMAIN kvs}
  BY DEF Propose, DraftRow
<1>3. /\ Speculates /\ NumDraft \in Nat \ {0, 1}
      /\ \A b \in 1 .. Len(round.rows) : round.width[b] = NumDraft
  BY <1>1, <1>2, SizesAssumption DEF Flight
<1>4. DOMAIN round.rows = 1 .. Len(round.rows)
  BY <1>1, FlightTypes
<1>5. /\ \A b \in 1 .. Len(round.rows) : w[b] \in Nat /\ w[b] <= round.width[b]
      /\ \A b \in 1 .. Len(round.rows) : w[b] = RowsPerRequest("draft")
      /\ RowsPerRequest("draft") \in Nat
  BY <1>3, <1>4 DEF RowsPerRequest
<1>6. kvs = FlattenSeq(KvRows(w, tok))
  <2> HIDE DEF w
  <2>1. \A b \in DOMAIN round.rows : \A j \in 1 .. w[b] : tok[b][j] = "d"
    OBVIOUS
  <2> HIDE DEF tok
  <2> QED BY <2>1 DEF NewKV, KvRows
<1>7. Tokens(w, tok)
  <2>1. \A b \in 1 .. Len(round.rows) : \A j \in 1 .. w[b] : tok[b][j] = "d"
    BY <1>4
  <2> HIDE DEF w, tok
  <2> QED BY <1>5, <2>1 DEF Tokens
<1>8. DraftBlocks(w)
  BY <1>4 DEF DraftBlocks
<1> HIDE DEF w, tok, kvs
<1>9. Runs(Locs2d(w), w, w) /\ Locs2d(w) \in Seq(Seq(0 .. FullSlots))
  BY <1>1, <1>5, LocsAreRuns
<1> DEFINE new == draft'
           rows == Replayed(round.rows, g, 0)
           lens == Replayed(PrefixLens, g, SeqLenFill)
           qo == QoIndptr(Len(rows), "draft")
<1>10. \A r \in Live, p \in Positions : p < seqLen[r] => InDraft(new, r, p)
  <2> DEFINE A == Locs2d(w)
  <2>1. /\ A \in Seq(Seq(0 .. FullSlots)) /\ Runs(A, w, w)
        /\ new = Store(draft, FlattenSeq(A), FlattenSeq(KvRows(w, tok)))
    BY <1>2, <1>6, <1>9
  <2> HIDE DEF A, new
  <2> QED BY <1>1, <2>1, DraftHolds
<1>11. Batch(rows, lens) /\ Len(rows) \in Nat /\ Len(round.rows) <= Len(rows)
  BY <1>1, ReplayedBatch
<1>12. attended' = {DraftRow(kvs, qo, x, rows, lens, new) : x \in DOMAIN kvs}
  BY <1>2
<1> HIDE DEF rows, lens, new
<1>13. QueryCells(qo, w)
  BY <1>1, <1>5, <1>11, QoCells
<1> HIDE DEF qo
<1>14. Attends({DraftRow(kvs, qo, x, rows, lens, new) : x \in DOMAIN kvs})
  BY <1>1, <1>3, <1>6, <1>7, <1>8, <1>10, <1>11, <1>13, RowsOfDraft
<1> QED BY <1>12, <1>14

LEMMA VerifyAttends ==
  ASSUME Serving, Owners, Verify
  PROVE  Attends(attended')
<1> DEFINE w == round.width
<1>1. ServeTypes /\ Flight
  BY DEF Serving
<1>2. PICK g \in GraphChoices(Len(round.rows)), masked \in BOOLEAN,
           acc \in [DOMAIN round.rows -> 0 .. NumDraft - 1] :
        LET kvs == NewKV(w, LAMBDA b, j : IF j - 1 <= acc[b] THEN "t" ELSE "d")
            rows == Replayed(round.rows, g, 0)
            lens == Replayed(PrefixLens, g, SeqLenFill)
            qo == QoIndptr(Len(rows), "target")
            mask == IF masked THEN ChainMask(PrefixLens) ELSE <<>>
        IN  /\ round.step = "verify"
            /\ StoreTarget(g, NumDraft, FlattenSeq(Locs2d(w)), kvs)
            /\ attended' = {TargetRow(kvs, qo, x, rows, lens, target'.full, target'.swa, mask, lens)
                              : x \in DOMAIN kvs}
  BY DEF Verify, TargetRow
<1> DEFINE tok == [b \in DOMAIN round.rows |->
                    [j \in 1 .. w[b] |-> IF j - 1 <= acc[b] THEN "t" ELSE "d"]]
           kvs == NewKV(w, LAMBDA b, j : IF j - 1 <= acc[b] THEN "t" ELSE "d")
           rows == Replayed(round.rows, g, 0)
           lens == Replayed(PrefixLens, g, SeqLenFill)
           qo == QoIndptr(Len(rows), "target")
           mask == IF masked THEN ChainMask(PrefixLens) ELSE <<>>
<1>3. /\ round.step = "verify"
      /\ StoreTarget(g, NumDraft, FlattenSeq(Locs2d(w)), kvs)
      /\ attended' = {TargetRow(kvs, qo, x, rows, lens, target'.full, target'.swa, mask, lens)
                        : x \in DOMAIN kvs}
  BY <1>2
<1>4. /\ NumDraft \in Nat /\ NumDraft \in 1 .. NumDraft
      /\ \A b \in 1 .. Len(round.rows) : w[b] = NumDraft
  <2>1. NumDraft \in Nat \ {0, 1}
    BY SizesAssumption
  <2>2. NumDraft \in 1 .. NumDraft
    BY <2>1
  <2> QED BY <1>1, <1>3, <2>1, <2>2 DEF Flight
<1>5. RowsPerRequest("target") = NumDraft
  BY DEF RowsPerRequest
<1>6. kvs = FlattenSeq(KvRows(w, tok))
  <2>1. \A b \in DOMAIN round.rows : \A j \in 1 .. w[b] :
          tok[b][j] = IF j - 1 <= acc[b] THEN "t" ELSE "d"
    OBVIOUS
  <2> HIDE DEF tok
  <2> QED BY <2>1 DEF NewKV, KvRows
<1>7. Tokens(w, tok)
  <2>1. DOMAIN round.rows = 1 .. Len(round.rows)
    BY <1>1, FlightTypes
  <2>2. \A b \in 1 .. Len(round.rows) : \A j \in 1 .. w[b] : tok[b][j] \in {"t", "d"}
    BY <2>1
  <2> HIDE DEF w, tok
  <2>3. \A b \in 1 .. Len(round.rows) : w[b] \in Nat
    BY <1>4
  <2> QED BY <2>2, <2>3 DEF Tokens
<1> HIDE DEF tok, kvs
<1>8. Replays(g, NumDraft) /\ StoreTarget(g, NumDraft, FlattenSeq(Locs2d(w)), FlattenSeq(KvRows(w, tok)))
  BY <1>1, <1>3, <1>4, <1>6, GraphReplays
<1>9. Committed(target')
  BY <1>8, TargetForward DEF Committed
<1>10. Batch(rows, lens) /\ Len(rows) \in Nat /\ Len(round.rows) <= Len(rows)
  BY <1>1, ReplayedBatch
<1> HIDE DEF rows, lens
<1>11. QueryCells(qo, w)
  <2> HIDE DEF w
  <2> QED BY <1>1, <1>4, <1>5, <1>10, QoCells
<1>12. Masks(mask, lens, lens, w)
  BY <1>4 DEF Masks
<1> HIDE DEF w, qo, mask
<1>13. Attends({TargetRow(kvs, qo, x, rows, lens, target'.full, target'.swa, mask, lens)
                  : x \in DOMAIN kvs})
  BY <1>1, <1>6, <1>7, <1>9, <1>10, <1>11, <1>12, RowsOfTarget
<1> QED BY <1>3, <1>13

\* Every action: the forwards attend as they should, the others leave nothing.
LEMMA NextAttends ==
  ASSUME Serving, Owners, [Next]_vars, Attends(attended)
  PROVE  Attends(attended')
<1>1. Attends({})
  BY DEF Attends
<1>2. CASE attended' = {}
  BY <1>1, <1>2
<1>3. ASSUME NEW r \in Rows, ScheduleExtend(r) \/ Finish(r) \/ EvictSwa(r) PROVE attended' = {}
  BY <1>3 DEF ScheduleExtend, Finish, EvictSwa
<1>4. ASSUME NEW batch \in SUBSET Rows, ScheduleBatch(batch) PROVE attended' = {}
  BY <1>4 DEF ScheduleBatch
<1>5. CASE Commit
  BY <1>2, <1>5 DEF Commit
<1>6. CASE UNCHANGED vars
  BY <1>6 DEF vars
<1> QED BY <1>2, <1>3, <1>4, <1>5, <1>6, ExtendAttends, DecodeAttends, ProposeAttends, VerifyAttends
        DEF Next

LEMMA OwnersInvariant == Spec => []Owners
<1>1. Init => Owners
  BY OwnersInit
<1>2. Serving /\ Owners /\ [Next]_vars => Owners'
  BY OwnersStep
<1> QED BY <1>1, <1>2, ServingInvariant, PTL DEF Spec

LEMMA AttendsInvariant == Spec => []Attends(attended)
<1>1. Init => Attends(attended)
  BY DEF Init, Attends
<1>2. Serving /\ Owners /\ Attends(attended) /\ [Next]_vars => Attends(attended)'
  <2> SUFFICES ASSUME Serving, Owners, Attends(attended), [Next]_vars PROVE Attends(attended)'
    OBVIOUS
  <2>1. Attends(attended')
    BY NextAttends
  <2> QED BY <2>1 DEF Attends, ContextRight, WindowRight
<1> QED BY <1>1, <1>2, ServingInvariant, OwnersInvariant, PTL DEF Spec

(***************************************************************************)
(* The properties of what a row weighs.                                    *)
(***************************************************************************)
\* A full-attention layer of the target weighs the keys of the row's own request
\* up to the row, each once, and of the committed ones only the request's real
\* tokens; the draft's, whose block is not causal, those of the context and of the
\* whole block: whatever the batch, the graph that replays it, the splits of a
\* decode, the mask of a verify and the drafts of earlier rounds.
THEOREM ContextAttends == Spec => []AttendsOwnContext
<1>1. Attends(attended) => AttendsOwnContext
  BY DEF Attends, AttendsOwnContext, ContextRight
<1> QED BY <1>1, AttendsInvariant, PTL

\* A local layer weighs a window of the same keys that ends at the row and is as
\* long as the masks admit, or one key shorter, unless it begins with the request.
THEOREM WindowAttends == Spec => []AttendsOwnWindow
<1>1. Attends(attended) => AttendsOwnWindow
  BY DEF Attends, AttendsOwnWindow, WindowRight
<1> QED BY <1>1, AttendsInvariant, PTL
=============================================================================
