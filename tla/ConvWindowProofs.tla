-------------------------- MODULE ConvWindowProofs --------------------------
(***************************************************************************)
(* Lemmas on the window of a short convolution, for every kernel size: the *)
(* proofs of SconvCache and of DraftExtend rest on them.                   *)
(***************************************************************************)
EXTENDS ConvWindow, NaturalsInduction, WellFoundedInduction, TLAPS

USE StateLenAssumption

LEMMA WindowOfType ==
  ASSUME NEW h \in Seq(Inputs)
  PROVE  WindowOf(h) \in Window
BY DEF WindowOf, Window, Cell

LEMMA WindowOfEmpty == WindowOf(<< >>) = ZeroWindow
BY DEF WindowOf, ZeroWindow

(* Reading the padded sequence at position n is the window after n more    *)
(* inputs: the fact every kernel of the cache relies on.                   *)
LEMMA WindowAdvance ==
  ASSUME NEW h \in Seq(Inputs), NEW xs \in Seq(Inputs), NEW n \in 0..Len(xs)
  PROVE  WindowAt(WindowOf(h), xs, n) = WindowOf(h \o SubSeq(xs, 1, n))
<1> DEFINE g == h \o SubSeq(xs, 1, n)
<1>1. /\ SubSeq(xs, 1, n) \in Seq(Inputs) /\ Len(SubSeq(xs, 1, n)) = n
      /\ \A j \in 1..n : SubSeq(xs, 1, n)[j] = xs[j]
  OBVIOUS
<1>2. /\ Len(g) = Len(h) + n
      /\ \A j \in 1..Len(h) : g[j] = h[j]
      /\ \A j \in 1..n : g[Len(h) + j] = xs[j]
  BY <1>1
<1>3. ASSUME NEW i \in 1..StateLen
      PROVE  WindowAt(WindowOf(h), xs, n)[i] = WindowOf(g)[i]
  <2>1. CASE n + i <= StateLen
    <3>1. WindowAt(WindowOf(h), xs, n)[i] = WindowOf(h)[n + i]
      BY <2>1 DEF WindowAt
    <3>2. WindowOf(h)[n + i] = IF Len(h) + n + i > StateLen
                               THEN h[Len(h) + n + i - StateLen] ELSE Zero
      BY <2>1 DEF WindowOf
    <3>3. WindowOf(g)[i] = IF Len(h) + n + i > StateLen
                           THEN g[Len(h) + n + i - StateLen] ELSE Zero
      BY <1>2 DEF WindowOf
    <3> QED
      BY <2>1, <1>2, <3>1, <3>2, <3>3
  <2>2. CASE n + i > StateLen
    <3>1. WindowAt(WindowOf(h), xs, n)[i] = xs[n + i - StateLen]
      BY <2>2 DEF WindowAt
    <3>2. WindowOf(g)[i] = g[Len(h) + (n + i - StateLen)]
      BY <2>2, <1>2 DEF WindowOf
    <3>3. n + i - StateLen \in 1..n
      BY <2>2
    <3> QED
      BY <1>2, <3>1, <3>2, <3>3
  <2> QED
    BY <2>1, <2>2
<1> QED
  BY <1>3 DEF WindowAt, WindowOf

(* The single-token case, as a decode step computes it.                    *)
LEMMA WindowPush ==
  ASSUME NEW h \in Seq(Inputs), NEW x \in Inputs
  PROVE  WindowAt(WindowOf(h), <<x>>, 1) = WindowOf(Append(h, x))
<1>1. /\ Append(h, x) \in Seq(Inputs) /\ Len(Append(h, x)) = Len(h) + 1
      /\ \A j \in 1..Len(h) : Append(h, x)[j] = h[j]
      /\ Append(h, x)[Len(h) + 1] = x
  OBVIOUS
<1>2. ASSUME NEW i \in 1..StateLen
      PROVE  WindowAt(WindowOf(h), <<x>>, 1)[i] = WindowOf(Append(h, x))[i]
  <2>1. CASE 1 + i <= StateLen
    <3>1. WindowAt(WindowOf(h), <<x>>, 1)[i] = WindowOf(h)[1 + i]
      BY <2>1 DEF WindowAt
    <3>2. WindowOf(h)[1 + i] = IF Len(h) + 1 + i > StateLen
                               THEN h[Len(h) + 1 + i - StateLen] ELSE Zero
      BY <2>1 DEF WindowOf
    <3>3. WindowOf(Append(h, x))[i]
            = IF Len(h) + 1 + i > StateLen
              THEN Append(h, x)[Len(h) + 1 + i - StateLen] ELSE Zero
      BY <1>1 DEF WindowOf
    <3> QED
      BY <2>1, <1>1, <3>1, <3>2, <3>3
  <2>2. CASE 1 + i > StateLen
    <3>1. i = StateLen /\ 1 + i - StateLen = 1
      BY <2>2
    <3>2. WindowAt(WindowOf(h), <<x>>, 1)[i] = <<x>>[1]
      BY <2>2, <3>1 DEF WindowAt
    <3>3. WindowOf(Append(h, x))[i] = Append(h, x)[Len(h) + 1]
      BY <1>1, <3>1 DEF WindowOf
    <3> QED
      BY <1>1, <3>2, <3>3
  <2> QED
    BY <2>1, <2>2
<1> QED
  BY <1>2 DEF WindowAt, WindowOf

(***************************************************************************)
(* Contexts that grow by the first tokens of a run.                        *)
(***************************************************************************)
LEMMA RunAppended ==
  ASSUME NEW h \in Seq(Inputs), NEW xs \in Seq(Inputs), NEW n \in 0..Len(xs)
  PROVE  /\ h \o SubSeq(xs, 1, n) \in Seq(Inputs)
         /\ Len(h \o SubSeq(xs, 1, n)) = Len(h) + n
OBVIOUS

LEMMA PrefixOfRun ==
  ASSUME NEW h \in Seq(Inputs), NEW xs \in Seq(Inputs),
         NEW m \in 0..Len(xs), NEW n \in 0..m
  PROVE  SubSeq(h \o SubSeq(xs, 1, m), 1, Len(h) + n) = h \o SubSeq(xs, 1, n)
OBVIOUS

LEMMA ShorterPrefix ==
  ASSUME NEW h \in Seq(Inputs), NEW xs \in Seq(Inputs),
         NEW m \in 0..Len(xs), NEW n \in 0..Len(h)
  PROVE  SubSeq(h \o SubSeq(xs, 1, m), 1, n) = SubSeq(h, 1, n)
OBVIOUS

(* A multiple of an interval, as the snapshot boundaries are computed.     *)
LEMMA FloorBounds ==
  ASSUME NEW n \in Nat, NEW c \in Nat \ {0}
  PROVE  /\ n \div c \in Nat
         /\ (n \div c) * c <= n
         /\ n < (n \div c) * c + c
OBVIOUS
-----------------------------------------------------------------------------
(***************************************************************************)
(* Feeding tokens one at a time.  The recursion has a closed form, so a    *)
(* function that solves it exists; that it is the only one is an argument  *)
(* on the least position where two solutions would differ.                 *)
(***************************************************************************)
LEMMA Least ==
  ASSUME NEW T \in SUBSET Nat, T # {}
  PROVE  \E x \in T : \A y \in T : x <= y
<1> DEFINE R == OpToRel(<, Nat)
<1>1. IsWellFoundedOn(R, Nat)
  BY NatLessThanWellFounded
<1>2. \A x, y \in Nat : <<y, x>> \in R <=> y < x
  BY DEF OpToRel
<1> HIDE DEF R
<1>3. PICK x \in T : \A y \in T : ~(<<y, x>> \in R)
  BY <1>1, WFMin
<1>4. ASSUME NEW y \in T PROVE x <= y
  <2>1. ~(<<y, x>> \in R) /\ (<<y, x>> \in R <=> y < x)
    BY <1>2, <1>3
  <2>2. x \in Nat /\ y \in Nat
    OBVIOUS
  <2> QED BY <2>1, <2>2
<1> QED BY <1>4

(* One more token is one position further in the padded sequence.          *)
LEMMA Shifted ==
  ASSUME NEW win, NEW xs \in Seq(Inputs), NEW k \in 1 .. Len(xs)
  PROVE  WindowAt(win, xs, k) = ShiftIn(WindowAt(win, xs, k - 1), xs[k])
<1>1. ASSUME NEW i \in 1 .. StateLen
      PROVE  WindowAt(win, xs, k)[i] = ShiftIn(WindowAt(win, xs, k - 1), xs[k])[i]
  <2>1. CASE i < StateLen
    <3>1. i + 1 \in 1 .. StateLen /\ (k - 1) + (i + 1) = k + i
      BY <2>1
    <3>2. WindowAt(win, xs, k - 1)[i + 1] = IF k + i <= StateLen THEN win[k + i] ELSE xs[k + i - StateLen]
      BY <3>1 DEF WindowAt
    <3> QED BY <3>2, <2>1 DEF WindowAt, ShiftIn
  <2>2. CASE i = StateLen
    BY <2>2 DEF WindowAt, ShiftIn
  <2> QED BY <2>1, <2>2
<1> QED BY <1>1 DEF WindowAt, ShiftIn

LEMMA FedOneByOne ==
  ASSUME NEW win, win = [i \in 1 .. StateLen |-> win[i]], NEW xs \in Seq(Inputs)
  PROVE  FeedAll(win, xs) = WindowAt(win, xs, Len(xs))
<1> DEFINE after[k \in 0..Len(xs)] == IF k = 0 THEN win ELSE ShiftIn(after[k - 1], xs[k])
           Step(g) == [k \in 0..Len(xs) |-> IF k = 0 THEN win ELSE ShiftIn(g[k - 1], xs[k])]
           closed == [k \in 0 .. Len(xs) |-> WindowAt(win, xs, k)]
<1>1. closed = Step(closed)
  <2>1. WindowAt(win, xs, 0) = win
    BY DEF WindowAt
  <2>2. \A k \in 0 .. Len(xs) : k # 0 => k \in 1 .. Len(xs) /\ k - 1 \in 0 .. Len(xs)
    OBVIOUS
  <2>3. \A k \in 0 .. Len(xs) : k # 0 => closed[k] = ShiftIn(closed[k - 1], xs[k])
    BY <2>2, Shifted
  <2>4. \A k \in 0 .. Len(xs) : closed[k] = IF k = 0 THEN win ELSE ShiftIn(closed[k - 1], xs[k])
    BY <2>1, <2>3
  <2> QED BY <2>4
<1>2. after = Step(after)
  <2>1. after = CHOOSE g : g = Step(g)
    OBVIOUS
  <2> HIDE DEF after, Step, closed
  <2> QED BY <1>1, <2>1
<1>3. FeedAll(win, xs) = after[Len(xs)]
  BY DEF FeedAll
<1> HIDE DEF after
<1> DEFINE bad == {k \in 0 .. Len(xs) : after[k] # WindowAt(win, xs, k)}
<1>4. bad = {}
  <2> SUFFICES ASSUME bad # {} PROVE FALSE
    OBVIOUS
  <2>1. PICK k \in bad : \A m \in bad : k <= m
    <3> HIDE DEF bad
    <3>1. bad \in SUBSET Nat
      BY DEF bad
    <3> QED BY <3>1, Least
  <2>2. k \in 0 .. Len(xs) /\ after[k] # WindowAt(win, xs, k)
    OBVIOUS
  <2>3. CASE k = 0
    <3>1. after[0] = win
      BY <1>2
    <3>2. WindowAt(win, xs, 0) = win
      BY DEF WindowAt
    <3> QED BY <2>2, <2>3, <3>1, <3>2
  <2>4. CASE k # 0
    <3>1. k \in 1 .. Len(xs) /\ k - 1 \in 0 .. Len(xs) /\ ~(k <= k - 1)
      BY <2>2, <2>4
    <3>2. after[k - 1] = WindowAt(win, xs, k - 1)
      BY <2>1, <3>1
    <3>3. after[k] = ShiftIn(after[k - 1], xs[k])
      BY <1>2, <2>2, <2>4
    <3> QED BY <2>2, <3>1, <3>2, <3>3, Shifted
  <2> QED BY <2>3, <2>4
<1> QED BY <1>3, <1>4

(* Feeding a run one token at a time ends in the window of the longer      *)
(* context, whatever the context was.                                      *)
LEMMA FedIsWindow ==
  ASSUME NEW h \in Seq(Inputs), NEW xs \in Seq(Inputs)
  PROVE  FeedAll(WindowOf(h), xs) = WindowOf(h \o xs)
<1>1. WindowOf(h) = [i \in 1 .. StateLen |-> WindowOf(h)[i]]
  BY DEF WindowOf
<1>2. FeedAll(WindowOf(h), xs) = WindowAt(WindowOf(h), xs, Len(xs))
  BY <1>1, FedOneByOne
<1>3. WindowAt(WindowOf(h), xs, Len(xs)) = WindowOf(h \o SubSeq(xs, 1, Len(xs)))
  BY WindowAdvance
<1>4. SubSeq(xs, 1, Len(xs)) = xs
  OBVIOUS
<1> QED BY <1>2, <1>3, <1>4

(***************************************************************************)
(* h continues g: some further tokens, perhaps none.                       *)
(***************************************************************************)
Continues(g, h) == \E xs \in Seq(Inputs) : h = g \o xs

LEMMA ContinuesItself ==
  ASSUME NEW g \in Seq(Inputs)
  PROVE  Continues(g, g)
<1>1. << >> \in Seq(Inputs) /\ g = g \o << >>
  OBVIOUS
<1> QED BY <1>1 DEF Continues

(* The window of a context is that of the part it continues, fed the rest. *)
LEMMA Continued ==
  ASSUME NEW g \in Seq(Inputs), NEW h \in Seq(Inputs), Continues(g, h)
  PROVE  /\ Len(g) <= Len(h) /\ SubSeq(g, 1, Len(g)) = SubSeq(h, 1, Len(g))
         /\ WindowOf(h) = FeedAll(WindowOf(g), SubSeq(h, Len(g) + 1, Len(h)))
<1>1. PICK xs \in Seq(Inputs) : h = g \o xs
  BY DEF Continues
<1>2. SubSeq(h, Len(g) + 1, Len(h)) = xs
  BY <1>1
<1>3. Len(g) <= Len(h) /\ SubSeq(g, 1, Len(g)) = SubSeq(h, 1, Len(g))
  BY <1>1
<1>4. FeedAll(WindowOf(g), xs) = WindowOf(h)
  BY <1>1, FedIsWindow
<1> QED BY <1>2, <1>3, <1>4
=============================================================================
