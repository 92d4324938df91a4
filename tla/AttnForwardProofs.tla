-------------------------- MODULE AttnForwardProofs --------------------------
(***************************************************************************)
(* Theorems about AttnForward, for every number of calls and every set of  *)
(* settings.                                                               *)
(*                                                                         *)
(* Whatever path a call takes, what it puts on the two streams is a        *)
(* selection, in order, of the 22 stages of one script (ForwardIssues).  A *)
(* queue then lists, in ascending order, the stages of the calls that have *)
(* not run; the device is at a place given by the current call i and the   *)
(* sets D and E of its stages done on the main and on the alternate stream *)
(* (Place): neither stream can be in another call, because the fork holds  *)
(* the alternate stream back and the last join holds back the main one.    *)
(* What the memory holds follows from i, D and E (Data), with a lemma for  *)
(* each stage.                                                             *)
(***************************************************************************)
EXTENDS AttnForward, TLAPS
-----------------------------------------------------------------------------
(***************************************************************************)
(* Lists: a sequence that has, in ascending order, the entries of a set of *)
(* numbers.                                                                *)
(***************************************************************************)
Ascends(f, n, P) ==
  /\ f \in [1 .. n -> P]
  /\ \A x, y \in 1 .. n : x < y => f[x] < f[y]
  /\ \A p \in P : \E x \in 1 .. n : f[x] = p

Lists(q, e, P) ==
  \E f : Ascends(f, Len(q), P) /\ \A x \in 1 .. Len(q) : q[x] = e[f[x]]

LEMMA ListsNothing == ASSUME NEW e PROVE Lists(<<>>, e, {})
<1> DEFINE f == [x \in 1 .. 0 |-> 0]
<1>1. Ascends(f, Len(<<>>), {})
  BY DEF Ascends
<1>2. \A x \in 1 .. Len(<<>>) : <<>>[x] = e[f[x]]
  OBVIOUS
<1> QED BY <1>1, <1>2 DEF Lists

LEMMA ListsOne ==
  ASSUME NEW e, NEW p \in Nat, NEW a, a = e[p]
  PROVE  Lists(<<a>>, e, {p})
<1> DEFINE f == [x \in 1 .. 1 |-> p]
<1>1. Len(<<a>>) = 1
  OBVIOUS
<1>2. Ascends(f, 1, {p})
  BY DEF Ascends
<1>3. \A x \in 1 .. 1 : <<a>>[x] = e[f[x]]
  OBVIOUS
<1> QED BY <1>1, <1>2, <1>3 DEF Lists

LEMMA ListsEmpty == ASSUME NEW e, NEW P, Lists(<<>>, e, P) PROVE P = {}
<1>1. PICK f : Ascends(f, Len(<<>>), P)
  BY DEF Lists
<1> QED BY <1>1 DEF Ascends

LEMMA ListsBoth ==
  ASSUME NEW U, NEW q \in Seq(U), NEW r \in Seq(U), NEW e,
         NEW P \in SUBSET Nat, NEW R \in SUBSET Nat,
         \A x \in P, y \in R : x < y, Lists(q, e, P), Lists(r, e, R)
  PROVE  Lists(q \o r, e, P \cup R)
<1>1. PICK f : Ascends(f, Len(q), P) /\ \A x \in 1 .. Len(q) : q[x] = e[f[x]]
  BY DEF Lists
<1>2. PICK g : Ascends(g, Len(r), R) /\ \A x \in 1 .. Len(r) : r[x] = e[g[x]]
  BY DEF Lists
<1> DEFINE m == Len(q)
           n == Len(r)
           h == [x \in 1 .. m + n |-> IF x <= m THEN f[x] ELSE g[x - m]]
<1>3. /\ m \in Nat /\ n \in Nat /\ Len(q \o r) = m + n
      /\ \A x \in 1 .. m : (q \o r)[x] = q[x]
      /\ \A x \in 1 .. n : (q \o r)[m + x] = r[x]
  OBVIOUS
<1>4. /\ f \in [1 .. m -> P] /\ g \in [1 .. n -> R]
      /\ \A x, y \in 1 .. m : x < y => f[x] < f[y]
      /\ \A x, y \in 1 .. n : x < y => g[x] < g[y]
      /\ \A p \in P : \E x \in 1 .. m : f[x] = p
      /\ \A p \in R : \E x \in 1 .. n : g[x] = p
  BY <1>1, <1>2 DEF Ascends
<1> DEFINE c == q \o r
<1> HIDE DEF m, n, c
<1>5. ASSUME NEW x \in 1 .. m + n
      PROVE  h[x] \in P \cup R /\ c[x] = e[h[x]]
  <2>1. CASE x <= m
    <3>1. x \in 1 .. m
      BY <1>3, <2>1
    <3>2. h[x] = f[x]
      BY <2>1
    <3> QED BY <1>1, <1>3, <1>4, <3>1, <3>2 DEF m, c
  <2>2. CASE ~(x <= m)
    <3>1. x - m \in 1 .. n /\ m + (x - m) = x
      BY <1>3, <2>2
    <3>2. h[x] = g[x - m]
      BY <2>2
    <3>3. c[x] = r[x - m]
      BY <1>3, <3>1 DEF c
    <3> QED BY <1>2, <1>4, <3>1, <3>2, <3>3 DEF n
  <2> QED BY <2>1, <2>2
<1>6. ASSUME NEW x \in 1 .. m + n, NEW y \in 1 .. m + n, x < y
      PROVE  h[x] < h[y]
  <2>1. CASE y <= m
    <3>1. x \in 1 .. m /\ y \in 1 .. m /\ x <= m
      BY <1>3, <1>6, <2>1
    <3> QED BY <1>4, <1>6, <2>1, <3>1
  <2>2. CASE ~(y <= m) /\ x <= m
    <3>1. x \in 1 .. m /\ y - m \in 1 .. n
      BY <1>3, <2>2
    <3>2. h[x] = f[x] /\ h[y] = g[y - m]
      BY <2>2
    <3> QED BY <1>4, <3>1, <3>2
  <2>3. CASE ~(x <= m)
    <3>1. x - m \in 1 .. n /\ y - m \in 1 .. n /\ x - m < y - m /\ ~(y <= m)
      BY <1>3, <1>6, <2>3
    <3>2. h[x] = g[x - m] /\ h[y] = g[y - m]
      BY <2>3, <3>1
    <3> QED BY <1>4, <3>1, <3>2
  <2> QED BY <2>1, <2>2, <2>3
<1>7. ASSUME NEW p \in P \cup R PROVE \E x \in 1 .. m + n : h[x] = p
  <2>1. CASE p \in P
    <3>1. PICK x \in 1 .. m : f[x] = p
      BY <1>4, <2>1
    <3>2. x \in 1 .. m + n /\ x <= m
      BY <1>3
    <3> QED BY <3>1, <3>2
  <2>2. CASE p \in R
    <3>1. PICK x \in 1 .. n : g[x] = p
      BY <1>4, <2>2
    <3>2. m + x \in 1 .. m + n /\ ~(m + x <= m) /\ (m + x) - m = x
      BY <1>3
    <3> QED BY <3>1, <3>2
  <2> QED BY <2>1, <2>2
<1>8. Ascends(h, m + n, P \cup R)
  BY <1>5, <1>6, <1>7 DEF Ascends
<1>9. Len(c) = m + n
  BY <1>3 DEF c
<1> HIDE DEF h
<1>10. Lists(c, e, P \cup R)
  BY <1>5, <1>8, <1>9 DEF Lists
<1> QED BY <1>10 DEF c

(* The head of a list is its least entry, and the tail lists the others.   *)
LEMMA ListsHead ==
  ASSUME NEW U, NEW q \in Seq(U), NEW e, NEW P \in SUBSET Nat, Lists(q, e, P), q # <<>>
  PROVE  \E p \in P : /\ Head(q) = e[p] /\ \A y \in P : p <= y
                      /\ Lists(Tail(q), e, P \ {p})
<1>1. PICK f : Ascends(f, Len(q), P) /\ \A x \in 1 .. Len(q) : q[x] = e[f[x]]
  BY DEF Lists
<1> DEFINE n == Len(q)
           p == f[1]
           t == Tail(q)
           g == [x \in 1 .. n - 1 |-> f[x + 1]]
<1>2. /\ n \in Nat /\ n >= 1 /\ Head(q) = q[1] /\ Len(t) = n - 1
      /\ \A x \in 1 .. n - 1 : t[x] = q[x + 1]
  OBVIOUS
<1>3. /\ f \in [1 .. n -> P]
      /\ \A x, y \in 1 .. n : x < y => f[x] < f[y]
      /\ \A y \in P : \E x \in 1 .. n : f[x] = y
      /\ \A x \in 1 .. n : q[x] = e[f[x]]
  BY <1>1 DEF Ascends
<1>a. Head(q) = q[1]
  BY <1>2
<1> HIDE DEF n, t
<1>4. 1 \in 1 .. n /\ p \in P
  BY <1>2, <1>3
<1>5. \A y \in P : y = p \/ p < y
  <2> TAKE y \in P
  <2>1. PICK x \in 1 .. n : f[x] = y
    BY <1>3
  <2>2. CASE x = 1
    BY <2>1, <2>2
  <2>3. CASE x # 1
    <3>1. 1 < x
      BY <1>2, <2>3
    <3> QED BY <1>3, <1>4, <2>1, <3>1
  <2> QED BY <2>2, <2>3
<1>6. \A y \in P : p <= y
  <2> TAKE y \in P
  <2>1. y \in Nat /\ p \in Nat
    BY <1>4
  <2> QED BY <1>5, <2>1
<1>7. ASSUME NEW x \in 1 .. n - 1
      PROVE  /\ x + 1 \in 1 .. n /\ g[x] = f[x + 1] /\ g[x] \in P \ {p} /\ t[x] = e[g[x]]
  <2>1. x + 1 \in 1 .. n /\ 1 < x + 1
    BY <1>2
  <2>2. p < f[x + 1] /\ f[x + 1] \in P
    BY <1>3, <1>4, <2>1
  <2>3. f[x + 1] # p
    <3>1. p \in Nat /\ f[x + 1] \in Nat
      BY <1>4, <2>2
    <3> QED BY <2>2, <3>1
  <2> QED BY <1>2, <1>3, <2>1, <2>2, <2>3
<1>8. ASSUME NEW x \in 1 .. n - 1, NEW y \in 1 .. n - 1, x < y PROVE g[x] < g[y]
  <2>1. x + 1 < y + 1
    BY <1>8
  <2> QED BY <1>3, <1>7, <2>1
<1>9. ASSUME NEW y \in P \ {p} PROVE \E x \in 1 .. n - 1 : g[x] = y
  <2>1. PICK x \in 1 .. n : f[x] = y
    BY <1>3
  <2>2. x # 1
    BY <2>1
  <2>3. x - 1 \in 1 .. n - 1 /\ (x - 1) + 1 = x
    BY <1>2, <2>2
  <2> QED BY <2>1, <2>3
<1>10. Ascends(g, n - 1, P \ {p})
  BY <1>7, <1>8, <1>9 DEF Ascends
<1>11. Lists(t, e, P \ {p})
  <2> HIDE DEF g
  <2> QED BY <1>2, <1>7, <1>10 DEF Lists
<1> HIDE DEF p
<1>12. Head(q) = e[p]
  BY <1>2, <1>3, <1>4 DEF p
<1> QED BY <1>4, <1>6, <1>11, <1>12 DEF t

-----------------------------------------------------------------------------
(***************************************************************************)
(* The stages of a call, in the order every path issues them, the stream   *)
(* each runs on, and the settings under which a call has it.               *)
(***************************************************************************)
Overlaps(c) == UsesPrologue(c) \/ UsesAlt(c)
Early(c)    == c.sheared /\ c.backend = "fa4"

Op(what, name) == [what |-> what, name |-> name]
Ops ==
  [what : {"run", "record", "wait"},
   name : {"qkvr", "prologue", "k_update", "v_update", "k_sconv", "v_sconv", "rel_proj",
           "qk_norm", "scale_q", "quant_q", "quant_kv", "store", "attention",
           "fork", "v", "rel"}]

Script ==
  <<Op("run", "qkvr"), Op("record", "fork"), Op("wait", "fork"),
    Op("run", "prologue"), Op("run", "k_update"), Op("run", "v_update"),
    Op("run", "v_sconv"), Op("record", "v"), Op("run", "rel_proj"),
    Op("record", "rel"), Op("run", "k_sconv"), Op("run", "v_sconv"),
    Op("run", "qk_norm"), Op("run", "scale_q"), Op("wait", "v"),
    Op("run", "rel_proj"), Op("run", "quant_q"), Op("run", "quant_kv"),
    Op("run", "store"), Op("wait", "rel"), Op("run", "store"),
    Op("run", "attention")>>

OnAlt(k) == k \in {3, 7, 8, 9, 10}

Stage(k) == On(IF OnAlt(k) THEN "alt" ELSE "main", Script[k])

Has(c, k) ==
  \/ k = 1 \/ k = 22
  \/ k \in {2, 3, 9, 10, 20} /\ Overlaps(c)
  \/ k = 4 /\ UsesPrologue(c)
  \/ k \in {5, 6} /\ UsesPrologue(c) /\ c.mode = "draft_extend"
  \/ k = 7 /\ UsesAlt(c) /\ c.kvConv
  \/ k \in {8, 15} /\ UsesAlt(c)
  \/ k = 11 /\ ~UsesPrologue(c) /\ c.kvConv
  \/ k = 12 /\ ~Overlaps(c) /\ c.kvConv
  \/ k = 13 /\ ~UsesPrologue(c)
  \/ k = 14 /\ ApplyTau(c) /\ ~(UsesPrologue(c) /\ FoldTau(c))
  \/ k = 16 /\ ~Overlaps(c)
  \/ k = 17 /\ c.kvDtype = "mxfp8" /\ c.backend = "fa4" /\ ~PrologueQuantQ(c)
  \/ k = 18 /\ Prequantized(c)
  \/ k = 19 /\ ~PrologueStored(c) /\ Early(c)
  \/ k = 21 /\ ~PrologueStored(c) /\ ~Early(c)

Stages(c, s) == {k \in 1 .. 22 : Has(c, k) /\ (OnAlt(k) <=> s = "alt")}

(* The part p of a call issues the stages from lo to hi.                   *)
Part(c, s, lo, hi) == {k \in Stages(c, s) : lo <= k /\ k <= hi}

Issues(p, c, lo, hi) ==
  /\ p = [s \in Streams |-> p[s]]
  /\ \A s \in Streams : p[s] \in Seq(Ops) /\ Lists(p[s], Script, Part(c, s, lo, hi))

LEMMA PartNat == ASSUME NEW c, NEW s, NEW lo, NEW hi PROVE Part(c, s, lo, hi) \in SUBSET Nat
BY DEF Part, Stages

LEMMA IssuesNone ==
  ASSUME NEW c, NEW lo \in Nat, NEW hi \in Nat, \A k \in 1 .. 22 : lo <= k /\ k <= hi => ~Has(c, k)
  PROVE  Issues(Nothing, c, lo, hi)
<1>1. \A s \in Streams : Nothing[s] = <<>> /\ Part(c, s, lo, hi) = {}
  BY DEF Nothing, Part, Stages
<1>2. <<>> \in Seq(Ops) /\ Nothing = [s \in Streams |-> Nothing[s]]
  BY DEF Nothing
<1> QED BY <1>1, <1>2, ListsNothing DEF Issues

LEMMA IssuesThen ==
  ASSUME NEW c, NEW p, NEW q, NEW lo \in Nat, NEW m \in Nat, NEW n \in Nat, NEW hi \in Nat,
         n = m + 1, Issues(p, c, lo, m), Issues(q, c, n, hi), lo <= n, m <= hi
  PROVE  Issues(p \odot q, c, lo, hi)
<1>1. ASSUME NEW s \in Streams
      PROVE  p[s] \o q[s] \in Seq(Ops) /\ Lists(p[s] \o q[s], Script, Part(c, s, lo, hi))
  <2>1. /\ p[s] \in Seq(Ops) /\ q[s] \in Seq(Ops)
        /\ Lists(p[s], Script, Part(c, s, lo, m)) /\ Lists(q[s], Script, Part(c, s, n, hi))
    BY DEF Issues
  <2>2. \A x \in Part(c, s, lo, m), y \in Part(c, s, n, hi) : x < y
    BY DEF Part, Stages
  <2>3. Part(c, s, lo, hi) = Part(c, s, lo, m) \cup Part(c, s, n, hi)
    BY DEF Part, Stages
  <2>4. Lists(p[s] \o q[s], Script, Part(c, s, lo, m) \cup Part(c, s, n, hi))
    BY <2>1, <2>2, PartNat, ListsBoth
  <2> QED BY <2>1, <2>3, <2>4
<1> QED BY <1>1 DEF Issues, \odot

(* A single stage, issued when the call has it.                            *)
LEMMA ScriptType == ASSUME NEW k \in 1 .. 22 PROVE Script[k] \in Ops
<1>1. Script[1] \in Ops /\ Script[2] \in Ops /\ Script[3] \in Ops /\ Script[4] \in Ops
  BY DEF Script, Op, Ops
<1>2. Script[5] \in Ops /\ Script[6] \in Ops /\ Script[7] \in Ops /\ Script[8] \in Ops
  BY DEF Script, Op, Ops
<1>3. Script[9] \in Ops /\ Script[10] \in Ops /\ Script[11] \in Ops /\ Script[12] \in Ops
  BY DEF Script, Op, Ops
<1>4. Script[13] \in Ops /\ Script[14] \in Ops /\ Script[15] \in Ops /\ Script[16] \in Ops
  BY DEF Script, Op, Ops
<1>5. Script[17] \in Ops /\ Script[18] \in Ops /\ Script[19] \in Ops /\ Script[20] \in Ops
  BY DEF Script, Op, Ops
<1>6. Script[21] \in Ops /\ Script[22] \in Ops
  BY DEF Script, Op, Ops
<1> QED BY <1>1, <1>2, <1>3, <1>4, <1>5, <1>6

LEMMA IssuesOn ==
  ASSUME NEW c, NEW k \in 1 .. 22, Has(c, k)
  PROVE  Issues(Stage(k), c, k, k)
<1> DEFINE a == Script[k]
           s == IF OnAlt(k) THEN "alt" ELSE "main"
<1>1. a \in Ops
  BY ScriptType
<1>2. Lists(<<a>>, Script, {k}) /\ Lists(<<>>, Script, {})
  <2>1. a = Script[k] /\ k \in Nat
    OBVIOUS
  <2> HIDE DEF a
  <2> QED BY <2>1, ListsOne, ListsNothing
<1> HIDE DEF a
<1>3. ASSUME NEW t \in Streams
      PROVE  On(s, a)[t] = (IF t = s THEN <<a>> ELSE <<>>)
             /\ Part(c, t, k, k) = (IF t = s THEN {k} ELSE {})
  <2>1. s = "main" \/ s = "alt"
    OBVIOUS
  <2>2. (t = "main" \/ t = "alt") /\ (OnAlt(k) <=> s = "alt")
    BY DEF Streams
  <2> HIDE DEF s
  <2>3. Part(c, t, k, k) = {l \in {k} : OnAlt(k) <=> t = "alt"}
    BY DEF Part, Stages
  <2> QED BY <2>1, <2>2, <2>3 DEF On, If
<1> HIDE DEF s
<1>4. ASSUME NEW t \in Streams
      PROVE  On(s, a)[t] \in Seq(Ops) /\ Lists(On(s, a)[t], Script, Part(c, t, k, k))
  <2>1. <<a>> \in Seq(Ops) /\ <<>> \in Seq(Ops)
    BY <1>1
  <2> QED BY <1>2, <1>3, <2>1
<1>5. Issues(On(s, a), c, k, k)
  BY <1>4 DEF Issues, On
<1> QED BY <1>5 DEF a, s, Stage

LEMMA IssuesWhen ==
  ASSUME NEW c, NEW k \in 1 .. 22, NEW b \in BOOLEAN, b <=> Has(c, k)
  PROVE  Issues(When(b, Stage(k)), c, k, k)
<1>1. ASSUME ~Has(c, k) PROVE Issues(Nothing, c, k, k)
  <2>1. \A l \in 1 .. 22 : k <= l /\ l <= k => l = k
    OBVIOUS
  <2>2. \A l \in 1 .. 22 : k <= l /\ l <= k => ~Has(c, l)
    BY <1>1, <2>1
  <2> QED BY <2>2, IssuesNone
<1> QED BY <1>1, IssuesOn DEF When

LEMMA IssuesWiden ==
  ASSUME NEW c, NEW p, NEW lo \in Nat, NEW hi \in Nat, NEW lo1 \in Nat, NEW hi1 \in Nat,
         Issues(p, c, lo, hi), lo1 <= lo, hi <= hi1,
         \A k \in 1 .. 22 : lo1 <= k /\ k <= hi1 /\ ~(lo <= k /\ k <= hi) => ~Has(c, k)
  PROVE  Issues(p, c, lo1, hi1)
<1>1. ASSUME NEW s \in Streams PROVE Part(c, s, lo1, hi1) = Part(c, s, lo, hi)
  <2>1. \A k \in Stages(c, s) : k \in 1 .. 22 /\ Has(c, k)
    BY DEF Stages
  <2>2. \A k \in Stages(c, s) : lo1 <= k /\ k <= hi1 <=> lo <= k /\ k <= hi
    BY <2>1
  <2> QED BY <2>2 DEF Part
<1> QED BY <1>1 DEF Issues

LEMMA ScriptOps ==
  /\ Script[1] = Op("run", "qkvr")
  /\ Script[2] = Op("record", "fork")
  /\ Script[3] = Op("wait", "fork")
  /\ Script[4] = Op("run", "prologue")
  /\ Script[5] = Op("run", "k_update")
  /\ Script[6] = Op("run", "v_update")
  /\ Script[7] = Op("run", "v_sconv")
  /\ Script[8] = Op("record", "v")
  /\ Script[9] = Op("run", "rel_proj")
  /\ Script[10] = Op("record", "rel")
  /\ Script[11] = Op("run", "k_sconv")
  /\ Script[12] = Op("run", "v_sconv")
  /\ Script[13] = Op("run", "qk_norm")
  /\ Script[14] = Op("run", "scale_q")
  /\ Script[15] = Op("wait", "v")
  /\ Script[16] = Op("run", "rel_proj")
  /\ Script[17] = Op("run", "quant_q")
  /\ Script[18] = Op("run", "quant_kv")
  /\ Script[19] = Op("run", "store")
  /\ Script[20] = Op("wait", "rel")
  /\ Script[21] = Op("run", "store")
  /\ Script[22] = Op("run", "attention")
<1>1. Script[1] = Op("run", "qkvr")
  BY DEF Script
<1>2. Script[2] = Op("record", "fork")
  BY DEF Script
<1>3. Script[3] = Op("wait", "fork")
  BY DEF Script
<1>4. Script[4] = Op("run", "prologue")
  BY DEF Script
<1>5. Script[5] = Op("run", "k_update")
  BY DEF Script
<1>6. Script[6] = Op("run", "v_update")
  BY DEF Script
<1>7. Script[7] = Op("run", "v_sconv")
  BY DEF Script
<1>8. Script[8] = Op("record", "v")
  BY DEF Script
<1>9. Script[9] = Op("run", "rel_proj")
  BY DEF Script
<1>10. Script[10] = Op("record", "rel")
  BY DEF Script
<1>11. Script[11] = Op("run", "k_sconv")
  BY DEF Script
<1>12. Script[12] = Op("run", "v_sconv")
  BY DEF Script
<1>13. Script[13] = Op("run", "qk_norm")
  BY DEF Script
<1>14. Script[14] = Op("run", "scale_q")
  BY DEF Script
<1>15. Script[15] = Op("wait", "v")
  BY DEF Script
<1>16. Script[16] = Op("run", "rel_proj")
  BY DEF Script
<1>17. Script[17] = Op("run", "quant_q")
  BY DEF Script
<1>18. Script[18] = Op("run", "quant_kv")
  BY DEF Script
<1>19. Script[19] = Op("run", "store")
  BY DEF Script
<1>20. Script[20] = Op("wait", "rel")
  BY DEF Script
<1>21. Script[21] = Op("run", "store")
  BY DEF Script
<1>22. Script[22] = Op("run", "attention")
  BY DEF Script
<1> QED BY <1>1, <1>2, <1>3, <1>4, <1>5, <1>6, <1>7, <1>8, <1>9, <1>10, <1>11, <1>12, <1>13,
           <1>14, <1>15, <1>16, <1>17, <1>18, <1>19, <1>20, <1>21, <1>22

LEMMA StageOps ==
  /\ Stage(1) = Run("main", "qkvr")
  /\ Stage(2) = Record("main", "fork")
  /\ Stage(3) = Wait("alt", "fork")
  /\ Stage(4) = Run("main", "prologue")
  /\ Stage(5) = Run("main", "k_update")
  /\ Stage(6) = Run("main", "v_update")
  /\ Stage(7) = Run("alt", "v_sconv")
  /\ Stage(8) = Record("alt", "v")
  /\ Stage(9) = Run("alt", "rel_proj")
  /\ Stage(10) = Record("alt", "rel")
  /\ Stage(11) = Run("main", "k_sconv")
  /\ Stage(12) = Run("main", "v_sconv")
  /\ Stage(13) = Run("main", "qk_norm")
  /\ Stage(14) = Run("main", "scale_q")
  /\ Stage(15) = Wait("main", "v")
  /\ Stage(16) = Run("main", "rel_proj")
  /\ Stage(17) = Run("main", "quant_q")
  /\ Stage(18) = Run("main", "quant_kv")
  /\ Stage(19) = Run("main", "store")
  /\ Stage(20) = Wait("main", "rel")
  /\ Stage(21) = Run("main", "store")
  /\ Stage(22) = Run("main", "attention")
<1>23. OnAlt(3) /\ OnAlt(7) /\ OnAlt(8) /\ OnAlt(9) /\ OnAlt(10)
  BY DEF OnAlt
<1>24. \A k \in 1 .. 22 : k \notin {3, 7, 8, 9, 10} => ~OnAlt(k)
  BY DEF OnAlt
<1>1. Stage(1) = Run("main", "qkvr")
  BY <1>24, ScriptOps DEF Stage, Run, Op
<1>2. Stage(2) = Record("main", "fork")
  BY <1>24, ScriptOps DEF Stage, Record, Op
<1>3. Stage(3) = Wait("alt", "fork")
  BY <1>23, ScriptOps DEF Stage, Wait, Op
<1>4. Stage(4) = Run("main", "prologue")
  BY <1>24, ScriptOps DEF Stage, Run, Op
<1>5. Stage(5) = Run("main", "k_update")
  BY <1>24, ScriptOps DEF Stage, Run, Op
<1>6. Stage(6) = Run("main", "v_update")
  BY <1>24, ScriptOps DEF Stage, Run, Op
<1>7. Stage(7) = Run("alt", "v_sconv")
  BY <1>23, ScriptOps DEF Stage, Run, Op
<1>8. Stage(8) = Record("alt", "v")
  BY <1>23, ScriptOps DEF Stage, Record, Op
<1>9. Stage(9) = Run("alt", "rel_proj")
  BY <1>23, ScriptOps DEF Stage, Run, Op
<1>10. Stage(10) = Record("alt", "rel")
  BY <1>23, ScriptOps DEF Stage, Record, Op
<1>11. Stage(11) = Run("main", "k_sconv")
  BY <1>24, ScriptOps DEF Stage, Run, Op
<1>12. Stage(12) = Run("main", "v_sconv")
  BY <1>24, ScriptOps DEF Stage, Run, Op
<1>13. Stage(13) = Run("main", "qk_norm")
  BY <1>24, ScriptOps DEF Stage, Run, Op
<1>14. Stage(14) = Run("main", "scale_q")
  BY <1>24, ScriptOps DEF Stage, Run, Op
<1>15. Stage(15) = Wait("main", "v")
  BY <1>24, ScriptOps DEF Stage, Wait, Op
<1>16. Stage(16) = Run("main", "rel_proj")
  BY <1>24, ScriptOps DEF Stage, Run, Op
<1>17. Stage(17) = Run("main", "quant_q")
  BY <1>24, ScriptOps DEF Stage, Run, Op
<1>18. Stage(18) = Run("main", "quant_kv")
  BY <1>24, ScriptOps DEF Stage, Run, Op
<1>19. Stage(19) = Run("main", "store")
  BY <1>24, ScriptOps DEF Stage, Run, Op
<1>20. Stage(20) = Wait("main", "rel")
  BY <1>24, ScriptOps DEF Stage, Wait, Op
<1>21. Stage(21) = Run("main", "store")
  BY <1>24, ScriptOps DEF Stage, Run, Op
<1>22. Stage(22) = Run("main", "attention")
  BY <1>24, ScriptOps DEF Stage, Run, Op
<1> QED BY <1>1, <1>2, <1>3, <1>4, <1>5, <1>6, <1>7, <1>8, <1>9, <1>10, <1>11, <1>12, <1>13,
           <1>14, <1>15, <1>16, <1>17, <1>18, <1>19, <1>20, <1>21, <1>22

LEMMA ForkIssues ==
  ASSUME NEW c, Overlaps(c)
  PROVE  Issues(Fork, c, 2, 3)
<1>1. Issues(Stage(2), c, 2, 2) /\ Issues(Stage(3), c, 3, 3)
  BY IssuesOn DEF Has
<1>2. Issues(Stage(2) \odot Stage(3), c, 2, 3)
  BY <1>1, IssuesThen
<1> QED BY <1>2, StageOps DEF Fork

LEMMA RelOnAltIssues ==
  ASSUME NEW c, Overlaps(c)
  PROVE  Issues(RelOnAlt, c, 9, 10)
<1>1. Issues(Stage(9), c, 9, 9) /\ Issues(Stage(10), c, 10, 10)
  BY IssuesOn DEF Has
<1>2. Issues(Stage(9) \odot Stage(10), c, 9, 10)
  BY <1>1, IssuesThen
<1> QED BY <1>2, StageOps DEF RelOnAlt

LEMMA FusedIssues ==
  ASSUME NEW c, UsesPrologue(c)
  PROVE  Issues(FusedBranch(c), c, 2, 12)
<1>1. Issues(Fork, c, 2, 3) /\ Issues(RelOnAlt, c, 9, 10)
  BY ForkIssues, RelOnAltIssues DEF Overlaps
<1>2. Has(c, 4) /\ (Has(c, 5) <=> c.mode = "draft_extend") /\ (Has(c, 6) <=> c.mode = "draft_extend")
  BY DEF Has
<1> DEFINE both == Stage(5) \odot Stage(6)
           upd  == When(c.mode = "draft_extend", both)
           pro  == IF c.mode = "verify" \/ c.mode = "decode" THEN Stage(4) ELSE Stage(4) \odot upd
<1>3. Issues(Stage(4), c, 4, 4)
  BY <1>2, IssuesOn
<1>4. Issues(upd, c, 5, 6)
  <2>1. CASE c.mode = "draft_extend"
    <3>1. Issues(Stage(5), c, 5, 5) /\ Issues(Stage(6), c, 6, 6)
      BY <1>2, <2>1, IssuesOn
    <3>2. Issues(both, c, 5, 6)
      BY <3>1, IssuesThen
    <3> QED BY <2>1, <3>2 DEF When
  <2>2. CASE c.mode # "draft_extend"
    <3>1. \A k \in 1 .. 22 : 5 <= k /\ k <= 6 => k = 5 \/ k = 6
      OBVIOUS
    <3>2. \A k \in 1 .. 22 : 5 <= k /\ k <= 6 => ~Has(c, k)
      BY <1>2, <2>2, <3>1
    <3>3. Issues(Nothing, c, 5, 6)
      BY <3>2, IssuesNone
    <3> QED BY <2>2, <3>3 DEF When
  <2> QED BY <2>1, <2>2
<1>5. Issues(pro, c, 4, 6)
  <2>1. CASE c.mode = "verify" \/ c.mode = "decode"
    <3>1. \A k \in 1 .. 22 : 4 <= k /\ k <= 6 /\ ~(4 <= k /\ k <= 4) => k = 5 \/ k = 6
      OBVIOUS
    <3>2. \A k \in 1 .. 22 : 4 <= k /\ k <= 6 /\ ~(4 <= k /\ k <= 4) => ~Has(c, k)
      BY <1>2, <2>1, <3>1
    <3>3. Issues(Stage(4), c, 4, 6)
      BY <1>3, <3>2, IssuesWiden
    <3> QED BY <2>1, <3>3
  <2>2. CASE ~(c.mode = "verify" \/ c.mode = "decode")
    <3> HIDE DEF upd
    <3>1. Issues(Stage(4) \odot upd, c, 4, 6)
      BY <1>3, <1>4, IssuesThen
    <3> QED BY <2>2, <3>1
  <2> QED BY <2>1, <2>2
<1>6. FusedBranch(c) = (Fork \odot pro) \odot RelOnAlt
  <2>1. CASE c.mode = "verify"
    BY <2>1, StageOps DEF FusedBranch, PrologueVerify
  <2>2. CASE c.mode = "decode"
    BY <2>2, StageOps DEF FusedBranch, PrologueDecode
  <2>3. CASE c.mode # "verify" /\ c.mode # "decode"
    BY <2>3, StageOps DEF FusedBranch, PrologueExtend
  <2> QED BY <2>1, <2>2, <2>3
<1> HIDE DEF pro, upd
<1>7. Issues(Fork \odot pro, c, 2, 6)
  BY <1>1, <1>5, IssuesThen
<1>8. Issues(RelOnAlt, c, 7, 12)
  <2>1. ~Has(c, 7) /\ ~Has(c, 8) /\ ~Has(c, 11) /\ ~Has(c, 12)
    BY DEF Has, UsesAlt, Overlaps
  <2>2. \A k \in 1 .. 22 : 7 <= k /\ k <= 12 /\ ~(9 <= k /\ k <= 10) => k \in {7, 8, 11, 12}
    OBVIOUS
  <2>3. \A k \in 1 .. 22 : 7 <= k /\ k <= 12 /\ ~(9 <= k /\ k <= 10) => ~Has(c, k)
    BY <2>1, <2>2
  <2> QED BY <1>1, <2>3, IssuesWiden
<1>9. Issues((Fork \odot pro) \odot RelOnAlt, c, 2, 12)
  BY <1>7, <1>8, IssuesThen
<1> QED BY <1>6, <1>9

LEMMA AltIssues ==
  ASSUME NEW c, UsesAlt(c), c.kvConv \in BOOLEAN
  PROVE  Issues(AltBranch(c), c, 2, 12)
<1>1. Issues(Fork, c, 2, 3) /\ Issues(RelOnAlt, c, 9, 10)
  BY ForkIssues, RelOnAltIssues DEF Overlaps
<1>2. (c.kvConv <=> Has(c, 7)) /\ Has(c, 8) /\ (c.kvConv <=> Has(c, 11))
  BY DEF Has, UsesAlt
<1> DEFINE vs == When(c.kvConv, Stage(7))
           ks == When(c.kvConv, Stage(11))
<1>3. Issues(vs, c, 7, 7) /\ Issues(ks, c, 11, 11)
  BY <1>2, IssuesWhen
<1>4. Issues(Stage(8), c, 8, 8)
  BY <1>2, IssuesOn
<1>5. AltBranch(c) = (((Fork \odot vs) \odot Stage(8)) \odot RelOnAlt) \odot ks
  BY StageOps DEF AltBranch
<1> HIDE DEF vs, ks
<1>6. Issues(Fork, c, 2, 6)
  <2>1. ~Has(c, 4) /\ ~Has(c, 5) /\ ~Has(c, 6)
    BY DEF Has, UsesAlt
  <2>2. \A k \in 1 .. 22 : 2 <= k /\ k <= 6 /\ ~(2 <= k /\ k <= 3) => k \in {4, 5, 6}
    OBVIOUS
  <2>3. \A k \in 1 .. 22 : 2 <= k /\ k <= 6 /\ ~(2 <= k /\ k <= 3) => ~Has(c, k)
    BY <2>1, <2>2
  <2> QED BY <1>1, <2>3, IssuesWiden
<1>7. Issues(Fork \odot vs, c, 2, 7)
  BY <1>3, <1>6, IssuesThen
<1>8. Issues((Fork \odot vs) \odot Stage(8), c, 2, 8)
  BY <1>4, <1>7, IssuesThen
<1>9. Issues(((Fork \odot vs) \odot Stage(8)) \odot RelOnAlt, c, 2, 10)
  BY <1>1, <1>8, IssuesThen
<1>10. Issues(ks, c, 11, 12)
  <2>1. ~Has(c, 12)
    BY DEF Has, UsesAlt, Overlaps
  <2>2. \A k \in 1 .. 22 : 11 <= k /\ k <= 12 /\ ~(11 <= k /\ k <= 11) => k = 12
    OBVIOUS
  <2>3. \A k \in 1 .. 22 : 11 <= k /\ k <= 12 /\ ~(11 <= k /\ k <= 11) => ~Has(c, k)
    BY <2>1, <2>2
  <2> QED BY <1>3, <2>3, IssuesWiden
<1>11. Issues((((Fork \odot vs) \odot Stage(8)) \odot RelOnAlt) \odot ks, c, 2, 12)
  BY <1>9, <1>10, IssuesThen
<1> QED BY <1>5, <1>11

LEMMA PlainIssues ==
  ASSUME NEW c, ~Overlaps(c), c.kvConv \in BOOLEAN
  PROVE  Issues(PlainBranch(c), c, 2, 12)
<1>1. (Has(c, 11) <=> c.kvConv) /\ (Has(c, 12) <=> c.kvConv)
  BY DEF Has, Overlaps
<1>2. \A k \in {2, 3, 4, 5, 6, 7, 8, 9, 10} : ~Has(c, k)
  BY DEF Has, Overlaps
<1> DEFINE both == Stage(11) \odot Stage(12)
<1>3. PlainBranch(c) = When(c.kvConv, both)
  BY StageOps DEF PlainBranch
<1>4. CASE c.kvConv
  <2>1. Issues(Stage(11), c, 11, 11) /\ Issues(Stage(12), c, 12, 12)
    BY <1>1, <1>4, IssuesOn
  <2>2. Issues(both, c, 11, 12)
    BY <2>1, IssuesThen
  <2>3. \A k \in 1 .. 22 : 2 <= k /\ k <= 12 /\ ~(11 <= k /\ k <= 12) => k \in {2, 3, 4, 5, 6, 7, 8, 9, 10}
    OBVIOUS
  <2>4. \A k \in 1 .. 22 : 2 <= k /\ k <= 12 /\ ~(11 <= k /\ k <= 12) => ~Has(c, k)
    BY <1>2, <2>3
  <2> HIDE DEF both
  <2>5. Issues(both, c, 2, 12)
    BY <2>2, <2>4, IssuesWiden
  <2> QED BY <1>3, <1>4, <2>5 DEF When
<1>5. CASE ~c.kvConv
  <2>1. \A k \in 1 .. 22 : 2 <= k /\ k <= 12 => k \in {2, 3, 4, 5, 6, 7, 8, 9, 10} \/ k = 11 \/ k = 12
    OBVIOUS
  <2>2. \A k \in 1 .. 22 : 2 <= k /\ k <= 12 => ~Has(c, k)
    BY <1>1, <1>2, <1>5, <2>1
  <2>3. Issues(Nothing, c, 2, 12)
    BY <2>2, IssuesNone
  <2> QED BY <1>3, <1>5, <2>3 DEF When
<1> QED BY <1>4, <1>5

LEMMA NormScaleJoinIssues ==
  ASSUME NEW c
  PROVE  Issues(NormScaleJoin(c), c, 13, 16)
<1> DEFINE b1 == ~UsesPrologue(c)
           b2 == ApplyTau(c) /\ ~(UsesPrologue(c) /\ FoldTau(c))
           n == When(b1, Stage(13))
           t == When(b2, Stage(14))
           j == IF UsesAlt(c) THEN Stage(15) ELSE When(b1, Stage(16))
<1>1. (b1 <=> Has(c, 13)) /\ (b2 <=> Has(c, 14))
  BY DEF Has
<1>2. b1 \in BOOLEAN /\ b2 \in BOOLEAN
  OBVIOUS
<1>3. NormScaleJoin(c) = (n \odot t) \odot j
  BY StageOps DEF NormScaleJoin
<1>4. Issues(j, c, 15, 16)
  <2>1. CASE UsesAlt(c)
    <3>1. Has(c, 15) /\ ~Has(c, 16)
      BY <2>1 DEF Has, Overlaps
    <3>2. \A k \in 1 .. 22 : 15 <= k /\ k <= 16 /\ ~(15 <= k /\ k <= 15) => k = 16
      OBVIOUS
    <3>3. \A k \in 1 .. 22 : 15 <= k /\ k <= 16 /\ ~(15 <= k /\ k <= 15) => ~Has(c, k)
      BY <3>1, <3>2
    <3>4. Issues(Stage(15), c, 15, 15)
      BY <3>1, IssuesOn
    <3>5. Issues(Stage(15), c, 15, 16)
      BY <3>3, <3>4, IssuesWiden
    <3> QED BY <2>1, <3>5
  <2>2. CASE ~UsesAlt(c)
    <3>1. ~Has(c, 15) /\ (b1 <=> Has(c, 16))
      BY <2>2 DEF Has, Overlaps
    <3>2. \A k \in 1 .. 22 : 15 <= k /\ k <= 16 /\ ~(16 <= k /\ k <= 16) => k = 15
      OBVIOUS
    <3>3. \A k \in 1 .. 22 : 15 <= k /\ k <= 16 /\ ~(16 <= k /\ k <= 16) => ~Has(c, k)
      BY <3>1, <3>2
    <3> DEFINE r == When(b1, Stage(16))
    <3> HIDE DEF b1
    <3>4. Issues(r, c, 16, 16)
      BY <1>2, <3>1, IssuesWhen
    <3> HIDE DEF r
    <3>5. Issues(r, c, 15, 16)
      BY <3>3, <3>4, IssuesWiden
    <3> QED BY <2>2, <3>5 DEF r
  <2> QED BY <2>1, <2>2
<1> HIDE DEF b1, b2, j
<1>5. Issues(n, c, 13, 13) /\ Issues(t, c, 14, 14)
  BY <1>1, <1>2, IssuesWhen
<1> HIDE DEF n, t
<1>6. Issues(n \odot t, c, 13, 14)
  BY <1>5, IssuesThen
<1>7. Issues((n \odot t) \odot j, c, 13, 16)
  BY <1>4, <1>6, IssuesThen
<1> QED BY <1>3, <1>7

LEMMA QuantizeIssues ==
  ASSUME NEW c
  PROVE  Issues(Quantize(c), c, 17, 18)
<1> DEFINE b1 == c.kvDtype = "mxfp8" /\ c.backend = "fa4" /\ ~PrologueQuantQ(c)
           b2 == Prequantized(c)
           q == When(b1, Stage(17))
           w == When(b2, Stage(18))
<1>1. (b1 <=> Has(c, 17)) /\ (b2 <=> Has(c, 18))
  BY DEF Has
<1>2. b1 \in BOOLEAN /\ b2 \in BOOLEAN
  BY DEF Prequantized
<1>3. Quantize(c) = q \odot w
  BY StageOps DEF Quantize
<1> HIDE DEF b1, b2
<1>4. Issues(q, c, 17, 17) /\ Issues(w, c, 18, 18)
  BY <1>1, <1>2, IssuesWhen
<1> HIDE DEF q, w
<1>5. Issues(q \odot w, c, 17, 18)
  BY <1>4, IssuesThen
<1> QED BY <1>3, <1>5

LEMMA AttendIssues ==
  ASSUME NEW c
  PROVE  Issues(Attend(c), c, 19, 22)
<1> DEFINE b1 == Overlaps(c)
           b2 == ~PrologueStored(c)
           join == When(b1, Stage(20))
           early == When(b2, Stage(19))
           late  == When(b2, Stage(21))
           both == IF Early(c) THEN early \odot join ELSE join \odot late
<1>1. b1 \in BOOLEAN /\ b2 \in BOOLEAN /\ Early(c) \in BOOLEAN
  BY DEF Overlaps, Early
<1>2. (b1 <=> Has(c, 20)) /\ Has(c, 22)
      /\ (Early(c) => (b2 <=> Has(c, 19)) /\ ~Has(c, 21))
      /\ (~Early(c) => (b2 <=> Has(c, 21)) /\ ~Has(c, 19))
  BY DEF Has
<1>3. Attend(c) = both \odot Stage(22)
  BY StageOps DEF Attend, Early, Overlaps
<1>4. Issues(Stage(22), c, 22, 22)
  BY <1>2, IssuesOn
<1> HIDE DEF b1, b2
<1>5. Issues(join, c, 20, 20)
  BY <1>1, <1>2, IssuesWhen
<1>6. Issues(both, c, 19, 21)
  <2>1. CASE Early(c)
    <3>1. Issues(early, c, 19, 19)
      BY <1>1, <1>2, <2>1, IssuesWhen
    <3> HIDE DEF early, join
    <3>2. Issues(early \odot join, c, 19, 20)
      BY <1>5, <3>1, IssuesThen
    <3>3. \A k \in 1 .. 22 : 19 <= k /\ k <= 21 /\ ~(19 <= k /\ k <= 20) => k = 21
      OBVIOUS
    <3>4. \A k \in 1 .. 22 : 19 <= k /\ k <= 21 /\ ~(19 <= k /\ k <= 20) => ~Has(c, k)
      BY <1>2, <2>1, <3>3
    <3>5. Issues(early \odot join, c, 19, 21)
      BY <3>2, <3>4, IssuesWiden
    <3> QED BY <2>1, <3>5
  <2>2. CASE ~Early(c)
    <3>1. Issues(late, c, 21, 21)
      BY <1>1, <1>2, <2>2, IssuesWhen
    <3> HIDE DEF late, join
    <3>2. Issues(join \odot late, c, 20, 21)
      BY <1>5, <3>1, IssuesThen
    <3>3. \A k \in 1 .. 22 : 19 <= k /\ k <= 21 /\ ~(20 <= k /\ k <= 21) => k = 19
      OBVIOUS
    <3>4. \A k \in 1 .. 22 : 19 <= k /\ k <= 21 /\ ~(20 <= k /\ k <= 21) => ~Has(c, k)
      BY <1>2, <2>2, <3>3
    <3>5. Issues(join \odot late, c, 19, 21)
      BY <3>2, <3>4, IssuesWiden
    <3> QED BY <2>2, <3>5
  <2> QED BY <2>1, <2>2
<1> HIDE DEF both
<1>7. Issues(both \odot Stage(22), c, 19, 22)
  BY <1>4, <1>6, IssuesThen
<1> QED BY <1>3, <1>7

(* Forward puts the stages of the call on the two streams, in order.       *)
LEMMA ForwardIssues ==
  ASSUME NEW c \in Settings
  PROVE  /\ Forward(c) = [s \in Streams |-> Forward(c)[s]]
         /\ \A s \in Streams : /\ Forward(c)[s] \in Seq(Ops)
                               /\ Lists(Forward(c)[s], Script, Stages(c, s))
<1> DEFINE br == IF UsesPrologue(c) THEN FusedBranch(c)
                 ELSE IF UsesAlt(c) THEN AltBranch(c) ELSE PlainBranch(c)
<1>1. c.kvConv \in BOOLEAN
  BY DEF Settings
<1>2. Issues(br, c, 2, 12)
  BY <1>1, FusedIssues, AltIssues, PlainIssues DEF Overlaps
<1>3. Issues(Stage(1), c, 1, 1)
  BY IssuesOn DEF Has
<1>4. Forward(c) = (((Stage(1) \odot br) \odot NormScaleJoin(c)) \odot Quantize(c)) \odot Attend(c)
  BY StageOps DEF Forward
<1> HIDE DEF br
<1>5. Issues(Stage(1) \odot br, c, 1, 12)
  BY <1>2, <1>3, IssuesThen
<1>6. Issues((Stage(1) \odot br) \odot NormScaleJoin(c), c, 1, 16)
  BY <1>5, NormScaleJoinIssues, IssuesThen
<1>7. Issues(((Stage(1) \odot br) \odot NormScaleJoin(c)) \odot Quantize(c), c, 1, 18)
  BY <1>6, QuantizeIssues, IssuesThen
<1>8. Issues((((Stage(1) \odot br) \odot NormScaleJoin(c)) \odot Quantize(c)) \odot Attend(c), c, 1, 22)
  BY <1>7, AttendIssues, IssuesThen
<1>9. \A s \in Streams : Part(c, s, 1, 22) = Stages(c, s)
  BY DEF Part, Stages
<1> QED BY <1>4, <1>8, <1>9 DEF Issues

-----------------------------------------------------------------------------
(***************************************************************************)
(* A queue.  Stage k of call c has the number Slot(c, k); the entries of a *)
(* queue are the stages its stream has not yet run, in ascending order.    *)
(***************************************************************************)
Slot(c, k) == c * 32 + k

Entry == [n \in Nat |-> [op |-> Script[n % 32], call |-> n \div 32]]

Entries == [op : Ops, call : Nat]

(* What a stream with the stages T has left when D is done of call i.      *)
Pending(i, D, n, T) ==
  {Slot(i, k) : k \in T \ D} \cup {Slot(c, k) : c \in (i + 1) .. n, k \in T}

Segment(D, T) == D \subseteq T /\ \A k \in D, l \in T : l < k => l \in D

LEMMA SlotEntry ==
  ASSUME NEW c \in Nat, NEW k \in 1 .. 22
  PROVE  Slot(c, k) \in Nat /\ Entry[Slot(c, k)] = [op |-> Script[k], call |-> c]
<1>1. c * 32 + k \in Nat /\ (c * 32 + k) % 32 = k /\ (c * 32 + k) \div 32 = c
  OBVIOUS
<1> QED BY <1>1 DEF Slot, Entry

LEMMA SlotOrder ==
  ASSUME NEW c \in Nat, NEW d \in Nat, NEW k \in 1 .. 22, NEW l \in 1 .. 22
  PROVE  /\ Slot(c, k) < Slot(d, l) <=> c < d \/ (c = d /\ k < l)
         /\ Slot(c, k) <= Slot(d, l) <=> c < d \/ (c = d /\ k <= l)
         /\ Slot(c, k) = Slot(d, l) <=> c = d /\ k = l
BY DEF Slot

LEMMA StagesBound == ASSUME NEW c, NEW s PROVE Stages(c, s) \subseteq 1 .. 22
BY DEF Stages

LEMMA PendingNat ==
  ASSUME NEW i \in Nat, NEW n \in Nat, NEW D, NEW T \in SUBSET (1 .. 22)
  PROVE  Pending(i, D, n, T) \in SUBSET Nat
<1>1. ASSUME NEW k \in T PROVE k \in 1 .. 22
  OBVIOUS
<1>2. ASSUME NEW k \in T, NEW c \in Nat PROVE Slot(c, k) \in Nat
  BY <1>1, SlotEntry
<1>3. \A c \in (i + 1) .. n : c \in Nat
  OBVIOUS
<1> QED BY <1>2, <1>3 DEF Pending

(* The entries of one call.                                                *)
LEMMA CallListed ==
  ASSUME NEW p \in Seq(Ops), NEW T \in SUBSET (1 .. 22), NEW c \in Nat,
         Lists(p, Script, T)
  PROVE  LET r == [j \in DOMAIN p |-> [op |-> p[j], call |-> c]]
         IN  r \in Seq(Entries) /\ Lists(r, Entry, {Slot(c, k) : k \in T})
<1> DEFINE n == Len(p)
           r == [j \in DOMAIN p |-> [op |-> p[j], call |-> c]]
           R == {Slot(c, k) : k \in T}
<1>1. PICK f : Ascends(f, n, T) /\ \A x \in 1 .. n : p[x] = Script[f[x]]
  BY DEF Lists
<1>2. n \in Nat /\ DOMAIN p = 1 .. n /\ \A x \in 1 .. n : p[x] \in Ops
  OBVIOUS
<1>3. /\ f \in [1 .. n -> T]
      /\ \A x, y \in 1 .. n : x < y => f[x] < f[y]
      /\ \A k \in T : \E x \in 1 .. n : f[x] = k
  BY <1>1 DEF Ascends
<1> HIDE DEF n
<1> DEFINE g == [x \in 1 .. n |-> Slot(c, f[x])]
<1>4. \A x \in 1 .. n : f[x] \in T /\ f[x] \in 1 .. 22
  BY <1>3
<1>5. r = [j \in 1 .. n |-> [op |-> p[j], call |-> c]]
  BY <1>2
<1> HIDE DEF r
<1>6. r \in [1 .. n -> Entries]
  BY <1>2, <1>5 DEF Entries
<1>7. r \in Seq(Entries) /\ Len(r) = n
  BY <1>2, <1>6
<1>8. ASSUME NEW x \in 1 .. n PROVE r[x] = Entry[g[x]] /\ g[x] \in R
  <2>1. Entry[Slot(c, f[x])] = [op |-> Script[f[x]], call |-> c]
    BY <1>4, SlotEntry
  <2> QED BY <1>1, <1>4, <1>5, <2>1
<1>9. ASSUME NEW x \in 1 .. n, NEW y \in 1 .. n, x < y PROVE g[x] < g[y]
  <2>1. f[x] < f[y]
    BY <1>3, <1>9
  <2>2. Slot(c, f[x]) < Slot(c, f[y])
    BY <1>4, <2>1, SlotOrder
  <2> QED BY <2>2
<1>10. ASSUME NEW y \in R PROVE \E x \in 1 .. n : g[x] = y
  <2>1. PICK k \in T : y = Slot(c, k)
    OBVIOUS
  <2>2. PICK x \in 1 .. n : f[x] = k
    BY <1>3
  <2> QED BY <2>1, <2>2
<1>11. g \in [1 .. n -> R]
  BY <1>8
<1> HIDE DEF g, R
<1>12. Ascends(g, n, R)
  BY <1>9, <1>10, <1>11 DEF Ascends
<1>13. Lists(r, Entry, R)
  BY <1>7, <1>8, <1>12 DEF Lists
<1> QED BY <1>7, <1>13 DEF r, R

(* A call is issued: its stages come after all that is left.               *)
LEMMA OneMore ==
  ASSUME NEW i \in Nat, NEW n \in Nat, i <= n, NEW D, NEW T \in SUBSET (1 .. 22),
         NEW q \in Seq(Entries), NEW r \in Seq(Entries),
         Lists(q, Entry, Pending(i, D, n, T)), Lists(r, Entry, {Slot(n + 1, k) : k \in T})
  PROVE  q \o r \in Seq(Entries) /\ Lists(q \o r, Entry, Pending(i, D, n + 1, T))
<1> DEFINE P == Pending(i, D, n, T)
           R == {Slot(n + 1, k) : k \in T}
<1>0. ASSUME NEW c \in Nat, c < n + 1, NEW k \in T, NEW l \in T
      PROVE  Slot(c, k) < Slot(n + 1, l)
  <2>1. k \in 1 .. 22 /\ l \in 1 .. 22 /\ n + 1 \in Nat
    OBVIOUS
  <2> QED BY <1>0, <2>1, SlotOrder
<1>1. \A k \in T \ D, l \in T : Slot(i, k) < Slot(n + 1, l)
  BY <1>0
<1>2. \A c \in (i + 1) .. n, k \in T, l \in T : Slot(c, k) < Slot(n + 1, l)
  BY <1>0
<1>3. \A x \in P, y \in R : x < y
  BY <1>1, <1>2 DEF Pending
<1>4. P \in SUBSET Nat /\ R \in SUBSET Nat
  <2>1. P \in SUBSET Nat
    BY PendingNat
  <2>2. ASSUME NEW k \in T PROVE Slot(n + 1, k) \in Nat
    <3>1. k \in 1 .. 22 /\ n + 1 \in Nat
      OBVIOUS
    <3> QED BY <3>1, SlotEntry
  <2> QED BY <2>1, <2>2
<1>5. \A c : c \in (i + 1) .. (n + 1) <=> c \in (i + 1) .. n \/ c = n + 1
  OBVIOUS
<1>6. Pending(i, D, n + 1, T) = P \cup R
  BY <1>5 DEF Pending
<1> HIDE DEF P, R
<1>7. Lists(q \o r, Entry, P \cup R)
  BY <1>3, <1>4, ListsBoth DEF P, R
<1>8. q \o r \in Seq(Entries)
  OBVIOUS
<1> QED BY <1>6, <1>7, <1>8

(* When a call is done, what is left is what is left of the next.          *)
LEMMA NextCall ==
  ASSUME NEW i \in Nat, NEW n \in Nat, i < n, NEW T \in SUBSET (1 .. 22)
  PROVE  Pending(i, T, n, T) = Pending(i + 1, {}, n, T)
<1>1. \A c : c \in (i + 1) .. n <=> c = i + 1 \/ c \in ((i + 1) + 1) .. n
  OBVIOUS
<1> QED BY <1>1 DEF Pending

(* A stage is run: the others are left.                                    *)
LEMMA OneLess ==
  ASSUME NEW i \in Nat, NEW n \in Nat, NEW D, NEW T \in SUBSET (1 .. 22),
         NEW k \in T
  PROVE  Pending(i, D, n, T) \ {Slot(i, k)} = Pending(i, D \cup {k}, n, T)
<1>0. ASSUME NEW c \in Nat, NEW l \in T
      PROVE  Slot(c, l) = Slot(i, k) <=> c = i /\ l = k
  <2>1. k \in 1 .. 22 /\ l \in 1 .. 22
    OBVIOUS
  <2> QED BY <2>1 DEF Slot
<1>1. \A l \in T : Slot(i, l) = Slot(i, k) <=> l = k
  BY <1>0
<1>2. \A c \in (i + 1) .. n, l \in T : Slot(c, l) # Slot(i, k)
  BY <1>0
<1>3. {Slot(i, l) : l \in T \ D} \ {Slot(i, k)} = {Slot(i, l) : l \in T \ (D \cup {k})}
  BY <1>1
<1> QED BY <1>2, <1>3 DEF Pending

(* What a stream that is not empty runs next: a stage of the call it is in *)
(* or, with that call done, the first stage of the next.                   *)
Continuing(q, i, D, n, T, k) ==
  /\ k \notin D /\ Segment(D \cup {k}, T) /\ \A l \in T : l < k => l \in D
  /\ Head(q) = [op |-> Script[k], call |-> i]
  /\ Lists(Tail(q), Entry, Pending(i, D \cup {k}, n, T))

Starting(q, i, D, n, T, k) ==
  /\ D = T /\ i < n /\ \A l \in T : k <= l
  /\ Head(q) = [op |-> Script[k], call |-> i + 1]
  /\ Lists(Tail(q), Entry, Pending(i + 1, {k}, n, T))

LEMMA NextUp ==
  ASSUME NEW i \in Nat, NEW n \in Nat, i <= n, NEW T \in SUBSET (1 .. 22), NEW D,
         Segment(D, T), NEW q \in Seq(Entries), q # <<>>,
         Lists(q, Entry, Pending(i, D, n, T))
  PROVE  \E k \in T : Continuing(q, i, D, n, T, k) \/ Starting(q, i, D, n, T, k)
<1> DEFINE P == Pending(i, D, n, T)
<1>1. P \in SUBSET Nat
  BY PendingNat
<1> HIDE DEF P
<1>2. PICK p \in P : Head(q) = Entry[p] /\ (\A y \in P : p <= y) /\ Lists(Tail(q), Entry, P \ {p})
  BY <1>1, ListsHead DEF P
<1>3. CASE \E k \in T \ D : p = Slot(i, k)
  <2>1. PICK k \in T \ D : p = Slot(i, k)
    BY <1>3
  <2>2. Head(q) = [op |-> Script[k], call |-> i]
    BY <1>2, <2>1, SlotEntry
  <2>3. ASSUME NEW l \in T, l < k PROVE l \in D
    <3>1. SUFFICES ASSUME l \notin D PROVE FALSE
      OBVIOUS
    <3>2. Slot(i, l) \in P
      BY <3>1 DEF P, Pending
    <3>3. Slot(i, k) <= Slot(i, l)
      BY <1>2, <2>1, <3>2
    <3>4. k \in 1 .. 22 /\ l \in 1 .. 22
      OBVIOUS
    <3>5. k <= l
      BY <3>3, <3>4 DEF Slot
    <3> QED BY <2>3, <3>4, <3>5
  <2>4. Segment(D \cup {k}, T)
    BY <2>3 DEF Segment
  <2>5. P \ {p} = Pending(i, D \cup {k}, n, T)
    BY <2>1, OneLess DEF P
  <2>6. Continuing(q, i, D, n, T, k)
    BY <1>2, <2>2, <2>3, <2>4, <2>5 DEF Continuing
  <2> QED BY <2>6
<1>4. CASE ~ \E k \in T \ D : p = Slot(i, k)
  <2>1. PICK c \in (i + 1) .. n, k \in T : p = Slot(c, k)
    BY <1>4 DEF P, Pending
  <2>2. c \in Nat /\ i < c /\ i < n /\ i + 1 \in (i + 1) .. n
    OBVIOUS
  <2>3. D = T
    <3>1. SUFFICES ASSUME NEW l \in T, l \notin D PROVE FALSE
      BY DEF Segment
    <3>2. Slot(i, l) \in P
      BY <3>1 DEF P, Pending
    <3>3. Slot(c, k) <= Slot(i, l)
      BY <1>2, <2>1, <3>2
    <3>4. k \in 1 .. 22 /\ l \in 1 .. 22
      OBVIOUS
    <3>5. c < i \/ c = i
      BY <2>2, <3>3, <3>4, SlotOrder
    <3> QED BY <2>2, <3>5
  <2>4. ASSUME NEW l \in T PROVE c = i + 1 /\ k <= l
    <3>1. Slot(i + 1, l) \in P
      BY <2>2 DEF P, Pending
    <3>2. Slot(c, k) <= Slot(i + 1, l)
      BY <1>2, <2>1, <3>1
    <3>0. k \in 1 .. 22 /\ l \in 1 .. 22 /\ i + 1 \in Nat
      OBVIOUS
    <3>3. c < i + 1 \/ (c = i + 1 /\ k <= l)
      BY <2>2, <3>0, <3>2, SlotOrder
    <3> QED BY <2>2, <3>3
  <2>5. c = i + 1
    BY <2>4
  <2>6. Head(q) = [op |-> Script[k], call |-> i + 1]
    <3>1. k \in 1 .. 22 /\ i + 1 \in Nat
      OBVIOUS
    <3>2. Entry[Slot(i + 1, k)] = [op |-> Script[k], call |-> i + 1]
      BY <3>1, SlotEntry
    <3> QED BY <1>2, <2>1, <2>5, <3>2
  <2>7. P = Pending(i + 1, {}, n, T)
    BY <2>2, <2>3, NextCall DEF P
  <2>8. P \ {p} = Pending(i + 1, {k}, n, T)
    BY <2>1, <2>5, <2>7, OneLess
  <2>9. Starting(q, i, D, n, T, k)
    BY <1>2, <2>2, <2>3, <2>4, <2>6, <2>8 DEF Starting
  <2> QED BY <2>9
<1> QED BY <1>3, <1>4

(* An empty queue: the stream has done every stage of every call issued.   *)
LEMMA NothingLeft ==
  ASSUME NEW i \in Nat, NEW n \in Nat, i <= n, NEW T \in SUBSET (1 .. 22), NEW D,
         Segment(D, T), 1 \in T, Lists(<<>>, Entry, Pending(i, D, n, T))
  PROVE  D = T /\ i = n
<1>1. Pending(i, D, n, T) = {}
  BY ListsEmpty
<1>2. D = T
  <2>1. ASSUME NEW l \in T, l \notin D PROVE FALSE
    <3>1. Slot(i, l) \in Pending(i, D, n, T)
      BY <2>1 DEF Pending
    <3> QED BY <1>1, <3>1
  <2> QED BY <2>1 DEF Segment
<1>3. ASSUME i # n PROVE FALSE
  <2>1. i + 1 \in (i + 1) .. n
    BY <1>3
  <2>2. Slot(i + 1, 1) \in Pending(i, D, n, T)
    BY <2>1 DEF Pending
  <2> QED BY <1>1, <2>2
<1> QED BY <1>2, <1>3

-----------------------------------------------------------------------------
(***************************************************************************)
(* What running stage k of call c does.                                    *)
(***************************************************************************)
Performed(k, c) ==
  \/ /\ Script[k].what = "run"
     /\ Kernel(cfg, c, Script[k].name)
     /\ UNCHANGED fired
  \/ /\ Script[k].what = "record"
     /\ fired' = fired \cup {<<c, Script[k].name>>}
     /\ UNCHANGED <<buf, conv, rows, seen>>
  \/ /\ Script[k].what = "wait" /\ <<c, Script[k].name>> \in fired
     /\ UNCHANGED <<fired, buf, conv, rows, seen>>

Stores(c) ==
  /\ rows' = [rows EXCEPT ![c] = Append(@, RowOf(cfg, buf.k, buf.v, SubPool(cfg)))]
  /\ UNCHANGED <<buf, conv, seen>>

Attends(c) ==
  /\ seen' = [seen EXCEPT ![c] = [q |-> buf.q, rel |-> buf.rel, rows |-> rows[c]]]
  /\ UNCHANGED <<buf, conv, rows>>

Kernels == {1, 4, 5, 6, 7, 9, 11, 12, 13, 14, 16, 17, 18, 19, 21, 22}

(* The events.                                                             *)
Ordered(k, c) ==
  /\ k \in {2, 8, 10} => UNCHANGED <<buf, conv, rows, seen>>
  /\ k \in {3, 15, 20} => UNCHANGED <<fired, buf, conv, rows, seen>>
  /\ k \in Kernels => UNCHANGED fired
  /\ k = 2 => fired' = fired \cup {<<c, "fork">>}
  /\ k = 8 => fired' = fired \cup {<<c, "v">>}
  /\ k = 10 => fired' = fired \cup {<<c, "rel">>}
  /\ k = 3 => <<c, "fork">> \in fired
  /\ k = 15 => <<c, "v">> \in fired
  /\ k = 20 => <<c, "rel">> \in fired

LEMMA Events == ASSUME NEW c, NEW k \in 1 .. 22, Performed(k, c) PROVE Ordered(k, c)
<1>1. CASE k = 2
  BY <1>1, ScriptOps DEF Performed, Op, Kernels, Ordered
<1>2. CASE k = 8
  BY <1>2, ScriptOps DEF Performed, Op, Kernels, Ordered
<1>3. CASE k = 10
  BY <1>3, ScriptOps DEF Performed, Op, Kernels, Ordered
<1>4. CASE k = 3
  BY <1>4, ScriptOps DEF Performed, Op, Kernels, Ordered
<1>5. CASE k = 15
  BY <1>5, ScriptOps DEF Performed, Op, Kernels, Ordered
<1>6. CASE k = 20
  BY <1>6, ScriptOps DEF Performed, Op, Kernels, Ordered
<1>7. CASE k \in Kernels
  <2>1. Script[k].what = "run"
    BY <1>7, ScriptOps DEF Op, Kernels
  <2>2. k \notin {2, 8, 10} /\ k \notin {3, 15, 20}
    BY <1>7 DEF Kernels
  <2> QED BY <1>7, <2>1, <2>2 DEF Performed, Ordered
<1>8. k \in Kernels \/ k \in {2, 8, 10} \/ k \in {3, 15, 20}
  BY DEF Kernels
<1> QED BY <1>1, <1>2, <1>3, <1>4, <1>5, <1>6, <1>7, <1>8

(* The kernels.                                                            *)
LEMMA Effects ==
  ASSUME NEW c
  PROVE
  /\ Performed(1, c) => Tensors([buf EXCEPT !.x = c, !.q = Fresh(c), !.k = Fresh(c), !.v = Fresh(c)])
  /\ Performed(4, c) => RunPrologue(cfg, c)
  /\ Performed(5, c) => Update(c, "k")
  /\ Performed(6, c) => Update(c, "v")
  /\ Performed(7, c) => Sconv(cfg, c, "v")
  /\ Performed(9, c) => Tensors([buf EXCEPT !.rel = RelProj(cfg)])
  /\ Performed(11, c) => Sconv(cfg, c, "k")
  /\ Performed(12, c) => Sconv(cfg, c, "v")
  /\ Performed(13, c) => Tensors([buf EXCEPT !.q = Did(@, <<"norm">>), !.k = Did(@, <<"norm">>)])
  /\ Performed(14, c) => Tensors([buf EXCEPT !.q = Did(@, <<"tau">>)])
  /\ Performed(16, c) => Tensors([buf EXCEPT !.rel = RelProj(cfg)])
  /\ Performed(17, c) => Tensors([buf EXCEPT !.q = Did(@, <<"quant">>)])
  /\ Performed(18, c) => Tensors([buf EXCEPT !.k = Did(@, <<"quant">>), !.v = Did(@, <<"quant">>)])
  /\ Performed(19, c) => Stores(c)
  /\ Performed(21, c) => Stores(c)
  /\ Performed(22, c) => Attends(c)
<1>1. ASSUME Performed(1, c) PROVE Kernel(cfg, c, "qkvr")
  <2>1. Script[1].what = "run" /\ Script[1].name = "qkvr"
    BY ScriptOps DEF Op
  <2> QED BY <1>1, <2>1 DEF Performed
<1>2. ASSUME Performed(4, c) PROVE Kernel(cfg, c, "prologue")
  <2>1. Script[4].what = "run" /\ Script[4].name = "prologue"
    BY ScriptOps DEF Op
  <2> QED BY <1>2, <2>1 DEF Performed
<1>3. ASSUME Performed(5, c) PROVE Kernel(cfg, c, "k_update")
  <2>1. Script[5].what = "run" /\ Script[5].name = "k_update"
    BY ScriptOps DEF Op
  <2> QED BY <1>3, <2>1 DEF Performed
<1>4. ASSUME Performed(6, c) PROVE Kernel(cfg, c, "v_update")
  <2>1. Script[6].what = "run" /\ Script[6].name = "v_update"
    BY ScriptOps DEF Op
  <2> QED BY <1>4, <2>1 DEF Performed
<1>5. ASSUME Performed(7, c) PROVE Kernel(cfg, c, "v_sconv")
  <2>1. Script[7].what = "run" /\ Script[7].name = "v_sconv"
    BY ScriptOps DEF Op
  <2> QED BY <1>5, <2>1 DEF Performed
<1>6. ASSUME Performed(9, c) PROVE Kernel(cfg, c, "rel_proj")
  <2>1. Script[9].what = "run" /\ Script[9].name = "rel_proj"
    BY ScriptOps DEF Op
  <2> QED BY <1>6, <2>1 DEF Performed
<1>7. ASSUME Performed(11, c) PROVE Kernel(cfg, c, "k_sconv")
  <2>1. Script[11].what = "run" /\ Script[11].name = "k_sconv"
    BY ScriptOps DEF Op
  <2> QED BY <1>7, <2>1 DEF Performed
<1>8. ASSUME Performed(12, c) PROVE Kernel(cfg, c, "v_sconv")
  <2>1. Script[12].what = "run" /\ Script[12].name = "v_sconv"
    BY ScriptOps DEF Op
  <2> QED BY <1>8, <2>1 DEF Performed
<1>9. ASSUME Performed(13, c) PROVE Kernel(cfg, c, "qk_norm")
  <2>1. Script[13].what = "run" /\ Script[13].name = "qk_norm"
    BY ScriptOps DEF Op
  <2> QED BY <1>9, <2>1 DEF Performed
<1>10. ASSUME Performed(14, c) PROVE Kernel(cfg, c, "scale_q")
  <2>1. Script[14].what = "run" /\ Script[14].name = "scale_q"
    BY ScriptOps DEF Op
  <2> QED BY <1>10, <2>1 DEF Performed
<1>11. ASSUME Performed(16, c) PROVE Kernel(cfg, c, "rel_proj")
  <2>1. Script[16].what = "run" /\ Script[16].name = "rel_proj"
    BY ScriptOps DEF Op
  <2> QED BY <1>11, <2>1 DEF Performed
<1>12. ASSUME Performed(17, c) PROVE Kernel(cfg, c, "quant_q")
  <2>1. Script[17].what = "run" /\ Script[17].name = "quant_q"
    BY ScriptOps DEF Op
  <2> QED BY <1>12, <2>1 DEF Performed
<1>13. ASSUME Performed(18, c) PROVE Kernel(cfg, c, "quant_kv")
  <2>1. Script[18].what = "run" /\ Script[18].name = "quant_kv"
    BY ScriptOps DEF Op
  <2> QED BY <1>13, <2>1 DEF Performed
<1>14. ASSUME Performed(19, c) PROVE Kernel(cfg, c, "store")
  <2>1. Script[19].what = "run" /\ Script[19].name = "store"
    BY ScriptOps DEF Op
  <2> QED BY <1>14, <2>1 DEF Performed
<1>15. ASSUME Performed(21, c) PROVE Kernel(cfg, c, "store")
  <2>1. Script[21].what = "run" /\ Script[21].name = "store"
    BY ScriptOps DEF Op
  <2> QED BY <1>15, <2>1 DEF Performed
<1>16. ASSUME Performed(22, c) PROVE Kernel(cfg, c, "attention")
  <2>1. Script[22].what = "run" /\ Script[22].name = "attention"
    BY ScriptOps DEF Op
  <2> QED BY <1>16, <2>1 DEF Performed
<1>17. Kernel(cfg, c, "qkvr") => Tensors([buf EXCEPT !.x = c, !.q = Fresh(c), !.k = Fresh(c), !.v = Fresh(c)])
  BY DEF Kernel
<1>18. Kernel(cfg, c, "prologue") => RunPrologue(cfg, c)
  BY DEF Kernel
<1>19. Kernel(cfg, c, "k_update") => Update(c, "k")
  BY DEF Kernel
<1>20. Kernel(cfg, c, "v_update") => Update(c, "v")
  BY DEF Kernel
<1>21. Kernel(cfg, c, "v_sconv") => Sconv(cfg, c, "v")
  BY DEF Kernel
<1>22. Kernel(cfg, c, "rel_proj") => Tensors([buf EXCEPT !.rel = RelProj(cfg)])
  BY DEF Kernel
<1>23. Kernel(cfg, c, "k_sconv") => Sconv(cfg, c, "k")
  BY DEF Kernel
<1>24. Kernel(cfg, c, "v_sconv") => Sconv(cfg, c, "v")
  BY DEF Kernel
<1>25. Kernel(cfg, c, "qk_norm") => Tensors([buf EXCEPT !.q = Did(@, <<"norm">>), !.k = Did(@, <<"norm">>)])
  BY DEF Kernel
<1>26. Kernel(cfg, c, "scale_q") => Tensors([buf EXCEPT !.q = Did(@, <<"tau">>)])
  BY DEF Kernel
<1>27. Kernel(cfg, c, "rel_proj") => Tensors([buf EXCEPT !.rel = RelProj(cfg)])
  BY DEF Kernel
<1>28. Kernel(cfg, c, "quant_q") => Tensors([buf EXCEPT !.q = Did(@, <<"quant">>)])
  BY DEF Kernel
<1>29. Kernel(cfg, c, "quant_kv") => Tensors([buf EXCEPT !.k = Did(@, <<"quant">>), !.v = Did(@, <<"quant">>)])
  BY DEF Kernel
<1>30. Kernel(cfg, c, "store") => Stores(c)
  BY DEF Kernel, Stores
<1>31. Kernel(cfg, c, "store") => Stores(c)
  BY DEF Kernel, Stores
<1>32. Kernel(cfg, c, "attention") => Attends(c)
  BY DEF Kernel, Attends
<1> QED BY <1>1, <1>2, <1>3, <1>4, <1>5, <1>6, <1>7, <1>8, <1>9, <1>10, <1>11, <1>12, <1>13,
           <1>14, <1>15, <1>16, <1>17, <1>18, <1>19, <1>20, <1>21, <1>22, <1>23, <1>24,
           <1>25, <1>26, <1>27, <1>28, <1>29, <1>30, <1>31, <1>32

-----------------------------------------------------------------------------
(***************************************************************************)
(* Where the device is: the stages D and E of the current call i are done, *)
(* on the main and on the alternate stream.                                *)
(***************************************************************************)
Main == Stages(cfg, "main")
Alt  == Stages(cfg, "alt")

(* What the events have kept in order.                                     *)
Joined(D, E) ==
  /\ E # {} => 2 \in D
  /\ 15 \in D => 8 \in E
  /\ 20 \in D => 10 \in E

Recorded(i, D, E) ==
  \A c \in Nat :
    /\ <<c, "fork">> \in fired => c < i \/ (c = i /\ 2 \in D)
    /\ <<c, "v">> \in fired => c < i \/ (c = i /\ 8 \in E)
    /\ <<c, "rel">> \in fired => c < i \/ (c = i /\ 10 \in E)

Typed ==
  /\ cfg \in Configs
  /\ issued \in 0 .. Calls
  /\ queue \in [Streams -> Seq(Entries)]

Place(i, D, E) ==
  /\ i \in 0 .. issued
  /\ Segment(D, Main) /\ Segment(E, Alt)
  /\ IF i = 0 THEN D = Main /\ E = Alt ELSE 1 \in D
  /\ Lists(queue["main"], Entry, Pending(i, D, issued, Main))
  /\ Lists(queue["alt"], Entry, Pending(i, E, issued, Alt))
  /\ Joined(D, E) /\ Recorded(i, D, E)

LEMMA MainStages ==
  /\ Main \in SUBSET (1 .. 22) /\ Alt \in SUBSET (1 .. 22)
  /\ 1 \in Main /\ Main \cap {3, 7, 8, 9, 10} = {} /\ Alt \subseteq {3, 7, 8, 9, 10}
  /\ 20 \in Main => 10 \in Alt
  /\ Alt # {} => 2 \in Main /\ 20 \in Main /\ 10 \in Alt /\ 3 \in Alt
  /\ 15 \in Main => 8 \in Alt
<1>1. Main \in SUBSET (1 .. 22) /\ Alt \in SUBSET (1 .. 22)
  BY StagesBound DEF Main, Alt
<1>2. 1 \in Main /\ Main \cap {3, 7, 8, 9, 10} = {} /\ Alt \subseteq {3, 7, 8, 9, 10}
  BY DEF Main, Alt, Stages, OnAlt, Has
<1>3. \A k \in {2, 20} : k \in Main <=> Overlaps(cfg)
  BY DEF Main, Stages, OnAlt, Has
<1>4. \A k \in {3, 10} : k \in Alt <=> Overlaps(cfg)
  BY DEF Alt, Stages, OnAlt, Has
<1>5. Alt # {} => Overlaps(cfg)
  BY DEF Alt, Stages, OnAlt, Has, Overlaps
<1>6. (15 \in Main <=> UsesAlt(cfg)) /\ (8 \in Alt <=> UsesAlt(cfg))
  BY DEF Main, Alt, Stages, OnAlt, Has
<1> QED BY <1>1, <1>2, <1>3, <1>4, <1>5, <1>6

(* With the main stream through, so is the alternate stream.               *)
LEMMA AltThrough ==
  ASSUME NEW D, NEW E, D = Main, Segment(E, Alt), Joined(D, E)
  PROVE  E = Alt
<1>1. CASE Alt = {}
  BY <1>1 DEF Segment
<1>2. CASE Alt # {}
  <2>1. 10 \in E /\ Alt \subseteq {3, 7, 8, 9, 10}
    BY <1>2, MainStages DEF Joined
  <2>2. \A l \in Alt : l < 10 \/ l = 10
    BY <2>1
  <2> QED BY <2>1, <2>2 DEF Segment
<1> QED BY <1>1, <1>2

LEMMA InitPlace == Init => Typed /\ Place(0, Main, Alt)
<1> SUFFICES ASSUME Init PROVE Typed /\ Place(0, Main, Alt)
  OBVIOUS
<1>1. issued = 0 /\ queue["main"] = <<>> /\ queue["alt"] = <<>> /\ fired = {}
  BY DEF Init, Streams
<1>2. Typed
  <2>1. <<>> \in Seq(Entries)
    OBVIOUS
  <2> QED BY <2>1, AttnAssumption DEF Init, Typed
<1>3. \A T : Pending(0, T, 0, T) = {}
  <2>1. \A c : c \notin (0 + 1) .. 0
    OBVIOUS
  <2> QED BY <2>1 DEF Pending
<1>4. Lists(<<>>, Entry, Pending(0, Main, 0, Main)) /\ Lists(<<>>, Entry, Pending(0, Alt, 0, Alt))
  BY <1>3, ListsNothing
<1>5. Segment(Main, Main) /\ Segment(Alt, Alt)
  BY DEF Segment
<1>6. Joined(Main, Alt)
  BY MainStages DEF Joined
<1>7. Recorded(0, Main, Alt)
  BY <1>1 DEF Recorded
<1> QED BY <1>1, <1>2, <1>4, <1>5, <1>6, <1>7 DEF Place

LEMMA IssuePlace ==
  ASSUME NEW i, NEW D, NEW E, Typed, Place(i, D, E), Issue
  PROVE  Typed' /\ Place(i, D, E)'
<1> DEFINE ops(s) == [j \in DOMAIN Forward(cfg)[s] |-> [op |-> Forward(cfg)[s][j], call |-> issued + 1]]
<1>1. /\ issued < Calls /\ issued' = issued + 1 /\ UNCHANGED <<cfg, fired>>
      /\ queue' = [s \in Streams |-> queue[s] \o ops(s)]
  BY DEF Issue
<1>2. /\ issued \in 0 .. Calls /\ issued \in Nat /\ i \in Nat /\ i <= issued /\ cfg \in Settings
      /\ Calls \in Nat /\ queue \in [Streams -> Seq(Entries)] /\ cfg \in Configs
  BY AttnAssumption DEF Typed, Place
<1>3. Main' = Main /\ Alt' = Alt
  BY <1>1 DEF Main, Alt
<1>4. ASSUME NEW s \in Streams
      PROVE  ops(s) \in Seq(Entries) /\ Lists(ops(s), Entry, {Slot(issued + 1, k) : k \in Stages(cfg, s)})
  <2>1. Forward(cfg)[s] \in Seq(Ops) /\ Lists(Forward(cfg)[s], Script, Stages(cfg, s))
    BY <1>2, ForwardIssues
  <2>2. Stages(cfg, s) \in SUBSET (1 .. 22) /\ issued + 1 \in Nat
    BY <1>2, StagesBound
  <2> QED BY <2>1, <2>2, CallListed
<1>5. queue["main"] \in Seq(Entries) /\ queue["alt"] \in Seq(Entries)
  BY <1>2 DEF Streams
<1>6. ops("main") \in Seq(Entries) /\ Lists(ops("main"), Entry, {Slot(issued + 1, k) : k \in Main})
  BY <1>4 DEF Main, Streams
<1>7. ops("alt") \in Seq(Entries) /\ Lists(ops("alt"), Entry, {Slot(issued + 1, k) : k \in Alt})
  BY <1>4 DEF Alt, Streams
<1>8. queue'["main"] = queue["main"] \o ops("main") /\ queue'["alt"] = queue["alt"] \o ops("alt")
  BY <1>1 DEF Streams
<1> HIDE DEF ops
<1>9. queue' \in [Streams -> Seq(Entries)]
  <2>1. ASSUME NEW s \in Streams PROVE queue[s] \o ops(s) \in Seq(Entries)
    <3>1. queue[s] \in Seq(Entries) /\ ops(s) \in Seq(Entries)
      BY <1>2, <1>4
    <3> QED BY <3>1
  <2> QED BY <1>1, <2>1
<1>10. Lists(queue'["main"], Entry, Pending(i, D, issued + 1, Main))
  <2> DEFINE q == queue["main"]
             o == ops("main")
             T == Main
  <2>1. Lists(q, Entry, Pending(i, D, issued, T))
    BY DEF Place
  <2>2. T \in SUBSET (1 .. 22) /\ q \in Seq(Entries) /\ o \in Seq(Entries)
    BY <1>5, <1>6, MainStages
  <2>3. Lists(o, Entry, {Slot(issued + 1, k) : k \in T})
    BY <1>6
  <2> HIDE DEF q, o, T
  <2>4. Lists(q \o o, Entry, Pending(i, D, issued + 1, T))
    BY <1>2, <2>1, <2>2, <2>3, OneMore
  <2> QED BY <1>8, <2>4 DEF q, o, T
<1>11. Lists(queue'["alt"], Entry, Pending(i, E, issued + 1, Alt))
  <2> DEFINE q == queue["alt"]
             o == ops("alt")
             T == Alt
  <2>1. Lists(q, Entry, Pending(i, E, issued, T))
    BY DEF Place
  <2>2. T \in SUBSET (1 .. 22) /\ q \in Seq(Entries) /\ o \in Seq(Entries)
    BY <1>5, <1>7, MainStages
  <2>3. Lists(o, Entry, {Slot(issued + 1, k) : k \in T})
    BY <1>7
  <2> HIDE DEF q, o, T
  <2>4. Lists(q \o o, Entry, Pending(i, E, issued + 1, T))
    BY <1>2, <2>1, <2>2, <2>3, OneMore
  <2> QED BY <1>8, <2>4 DEF q, o, T
<1>12. Typed'
  BY <1>1, <1>2, <1>9 DEF Typed
<1>13. i \in 0 .. issued'
  BY <1>1, <1>2
<1>14. Recorded(i, D, E)'
  BY <1>1 DEF Place, Recorded
<1> QED BY <1>1, <1>3, <1>10, <1>11, <1>12, <1>13, <1>14 DEF Place

(* The entry at the head of a stream.                                      *)
LEMMA StepRuns ==
  ASSUME NEW s \in Streams, Typed, Step(s), NEW k \in 1 .. 22, NEW c,
         Head(queue[s]) = [op |-> Script[k], call |-> c]
  PROVE  Performed(k, c)
BY DEF Step, Performed

LEMMA StepQueue ==
  ASSUME NEW s \in Streams, Typed, Step(s)
  PROVE  /\ queue[s] \in Seq(Entries) /\ queue[s] # <<>> /\ queue'[s] = Tail(queue[s])
         /\ \A t \in Streams : t # s => queue'[t] = queue[t]
         /\ UNCHANGED <<cfg, issued>> /\ Typed' /\ UNCHANGED <<Main, Alt>>
<1>1. /\ queue[s] # <<>> /\ queue' = [queue EXCEPT ![s] = Tail(@)]
      /\ UNCHANGED <<cfg, issued>> /\ queue \in [Streams -> Seq(Entries)]
  BY DEF Step, Typed
<1>2. queue[s] \in Seq(Entries) /\ Tail(queue[s]) \in Seq(Entries)
  <2>1. queue[s] \in Seq(Entries)
    BY <1>1
  <2> QED BY <1>1, <2>1
<1>3. queue' \in [Streams -> Seq(Entries)]
  BY <1>1, <1>2
<1>4. Typed'
  BY <1>1, <1>3 DEF Typed
<1> QED BY <1>1, <1>2, <1>4 DEF Main, Alt

-----------------------------------------------------------------------------
(* A stream with the stages T, D of them done, runs stage k of call i.     *)
Runs(i, D, T, k) ==
  /\ i \in 1 .. Calls /\ k \in T \ D /\ \A l \in T : l < k => l \in D
  /\ Performed(k, i)

(* The first stage of the next call, once nothing is left of this one.     *)
Begins(i, D, E) ==
  D = Main /\ E = Alt /\ i + 1 \in 1 .. Calls /\ Performed(1, i + 1)

LEMMA Signalled ==
  ASSUME NEW i \in Nat, NEW D, NEW E, Recorded(i, D, E)
  PROVE  /\ <<i, "fork">> \in fired => 2 \in D
         /\ <<i, "v">> \in fired => 8 \in E
         /\ <<i, "rel">> \in fired => 10 \in E
<1>1. ~(i < i)
  OBVIOUS
<1>2. /\ <<i, "fork">> \in fired => i < i \/ (i = i /\ 2 \in D)
      /\ <<i, "v">> \in fired => i < i \/ (i = i /\ 8 \in E)
      /\ <<i, "rel">> \in fired => i < i \/ (i = i /\ 10 \in E)
  BY DEF Recorded
<1> QED BY <1>1, <1>2

LEMMA MainStep ==
  ASSUME NEW i, NEW D, NEW E, Typed, Place(i, D, E), Step("main")
  PROVE  \/ \E k \in 1 .. 22 : Runs(i, D, Main, k) /\ Place(i, D \cup {k}, E)'
         \/ Begins(i, D, E) /\ Place(i + 1, {1}, {})'
<1> DEFINE q == queue["main"]
<1>1. /\ q \in Seq(Entries) /\ q # <<>> /\ queue'["main"] = Tail(q) /\ queue'["alt"] = queue["alt"]
      /\ UNCHANGED <<cfg, issued>> /\ Main' = Main /\ Alt' = Alt
  BY StepQueue DEF Streams
<1>2. /\ issued \in 0 .. Calls /\ i \in 0 .. issued /\ i \in Nat /\ issued \in Nat /\ i <= issued
      /\ Calls \in Nat /\ Main \in SUBSET (1 .. 22)
  BY AttnAssumption, MainStages DEF Typed, Place
<1>3. /\ Segment(D, Main) /\ Segment(E, Alt) /\ Joined(D, E) /\ Recorded(i, D, E)
      /\ Lists(q, Entry, Pending(i, D, issued, Main))
      /\ Lists(queue["alt"], Entry, Pending(i, E, issued, Alt))
      /\ (i = 0 => D = Main /\ E = Alt) /\ (i # 0 => 1 \in D)
  BY DEF Place
<1>4. \A k, c : k \in 1 .. 22 /\ Head(q) = [op |-> Script[k], call |-> c] => Performed(k, c)
  BY StepRuns DEF Streams
<1> DEFINE T == Main
           n == issued
<1> HIDE DEF q, T, n
<1>5. PICK k \in T : Continuing(q, i, D, n, T, k) \/ Starting(q, i, D, n, T, k)
  <2>1. T \in SUBSET (1 .. 22) /\ n \in Nat /\ i <= n /\ Segment(D, T) /\ Lists(q, Entry, Pending(i, D, n, T))
    BY <1>2, <1>3 DEF T, n
  <2> QED BY <1>1, <1>2, <2>1, NextUp
<1>6. k \in 1 .. 22 /\ k \in Main
  BY <1>2 DEF T
<1>7. CASE Continuing(q, i, D, n, T, k)
  <2>1. /\ k \notin D /\ Segment(D \cup {k}, Main) /\ \A l \in Main : l < k => l \in D
        /\ Performed(k, i) /\ Lists(Tail(q), Entry, Pending(i, D \cup {k}, issued, Main))
    BY <1>4, <1>6, <1>7 DEF Continuing, T, n
  <2>2. i # 0 /\ 1 \in D
    BY <1>3, <1>6, <2>1
  <2>3. i \in 1 .. Calls
    BY <1>2, <2>2
  <2>4. k \notin {3, 7, 8, 9, 10}
    BY <1>6, MainStages
  <2>0. Ordered(k, i)
    BY <1>6, <2>1, Events
  <2>5. Joined(D \cup {k}, E)
    <3>1. k = 15 => 8 \in E
      <4>1. k = 15 => <<i, "v">> \in fired
        BY <2>0 DEF Ordered
      <4> QED BY <1>2, <1>3, <4>1, Signalled
    <3>2. k = 20 => 10 \in E
      <4>1. k = 20 => <<i, "rel">> \in fired
        BY <2>0 DEF Ordered
      <4> QED BY <1>2, <1>3, <4>1, Signalled
    <3> QED BY <1>3, <3>1, <3>2 DEF Joined
  <2>6. Recorded(i, D \cup {k}, E)'
    <3>1. fired' = fired \/ (k = 2 /\ fired' = fired \cup {<<i, "fork">>})
      <4>1. k \in Kernels \/ k \in {2, 8, 10} \/ k \in {3, 15, 20}
        BY <1>6 DEF Kernels
      <4> QED BY <2>0, <2>4, <4>1 DEF Ordered
    <3>2. CASE fired' = fired
      BY <1>3, <3>2 DEF Recorded
    <3>3. CASE k = 2 /\ fired' = fired \cup {<<i, "fork">>}
      <4> SUFFICES ASSUME NEW c \in Nat
                   PROVE  /\ <<c, "fork">> \in fired' => c < i \/ (c = i /\ 2 \in D \cup {k})
                          /\ <<c, "v">> \in fired' => c < i \/ (c = i /\ 8 \in E)
                          /\ <<c, "rel">> \in fired' => c < i \/ (c = i /\ 10 \in E)
        BY DEF Recorded
      <4>1. <<c, "v">> \in fired' => <<c, "v">> \in fired
        BY <3>3
      <4>2. <<c, "rel">> \in fired' => <<c, "rel">> \in fired
        BY <3>3
      <4>3. <<c, "fork">> \in fired' => <<c, "fork">> \in fired \/ c = i
        BY <3>3
      <4> QED BY <1>3, <3>3, <4>1, <4>2, <4>3 DEF Recorded
    <3> QED BY <3>1, <3>2, <3>3
  <2>7. Place(i, D \cup {k}, E)'
    BY <1>1, <1>2, <1>3, <2>1, <2>2, <2>5, <2>6 DEF Place
  <2> QED BY <1>6, <2>1, <2>3, <2>7 DEF Runs
<1>8. CASE Starting(q, i, D, n, T, k)
  <2>1. /\ D = Main /\ i < issued /\ \A l \in Main : k <= l
        /\ Performed(k, i + 1) /\ Lists(Tail(q), Entry, Pending(i + 1, {k}, issued, Main))
    BY <1>4, <1>6, <1>8 DEF Starting, T, n
  <2>2. k = 1
    <3>1. k <= 1
      BY <2>1, MainStages
    <3> QED BY <1>6, <3>1
  <2>3. E = Alt
    BY <1>3, <2>1, AltThrough
  <2>4. i + 1 \in 1 .. Calls /\ i + 1 \in 0 .. issued /\ i + 1 # 0
    BY <1>2, <2>1
  <2>5. Segment({1}, Main) /\ Segment({}, Alt)
    <3>1. \A l \in Main : ~(l < 1)
      BY <1>2
    <3> QED BY <3>1, MainStages DEF Segment
  <2>6. Joined({1}, {})
    BY DEF Joined
  <2>7. Recorded(i + 1, {1}, {})'
    <3>1. fired' = fired
      <4>1. Ordered(1, i + 1)
        BY <2>1, <2>2, Events
      <4> QED BY <4>1 DEF Ordered, Kernels
    <3>2. ASSUME NEW c \in Nat, c < i \/ c = i PROVE c < i + 1
      BY <1>2, <3>2
    <3> QED BY <1>3, <3>1, <3>2 DEF Recorded
  <2>8. Lists(queue["alt"], Entry, Pending(i + 1, {}, issued, Alt))
    <3>1. Alt \in SUBSET (1 .. 22)
      BY MainStages
    <3>2. Pending(i, Alt, issued, Alt) = Pending(i + 1, {}, issued, Alt)
      BY <1>2, <2>1, <3>1, NextCall
    <3> QED BY <1>3, <2>3, <3>2
  <2>9. Place(i + 1, {1}, {})'
    BY <1>1, <2>1, <2>2, <2>4, <2>5, <2>6, <2>7, <2>8 DEF Place
  <2> QED BY <2>1, <2>2, <2>3, <2>4, <2>9 DEF Begins
<1> QED BY <1>5, <1>7, <1>8

LEMMA AltStep ==
  ASSUME NEW i, NEW D, NEW E, Typed, Place(i, D, E), Step("alt")
  PROVE  \E k \in 1 .. 22 : Runs(i, E, Alt, k) /\ Place(i, D, E \cup {k})'
<1> DEFINE q == queue["alt"]
<1>1. /\ q \in Seq(Entries) /\ q # <<>> /\ queue'["alt"] = Tail(q) /\ queue'["main"] = queue["main"]
      /\ UNCHANGED <<cfg, issued>> /\ Main' = Main /\ Alt' = Alt
  BY StepQueue DEF Streams
<1>2. /\ issued \in 0 .. Calls /\ i \in 0 .. issued /\ i \in Nat /\ issued \in Nat /\ i <= issued
      /\ Calls \in Nat /\ Alt \in SUBSET (1 .. 22)
  BY AttnAssumption, MainStages DEF Typed, Place
<1>3. /\ Segment(D, Main) /\ Segment(E, Alt) /\ Joined(D, E) /\ Recorded(i, D, E)
      /\ Lists(queue["main"], Entry, Pending(i, D, issued, Main))
      /\ Lists(q, Entry, Pending(i, E, issued, Alt))
      /\ (i = 0 => D = Main /\ E = Alt) /\ (i # 0 => 1 \in D)
  BY DEF Place
<1>4. \A k, c : k \in 1 .. 22 /\ Head(q) = [op |-> Script[k], call |-> c] => Performed(k, c)
  BY StepRuns DEF Streams
<1> DEFINE T == Alt
           n == issued
<1> HIDE DEF q, T, n
<1>5. PICK k \in T : Continuing(q, i, E, n, T, k) \/ Starting(q, i, E, n, T, k)
  <2>1. T \in SUBSET (1 .. 22) /\ n \in Nat /\ i <= n /\ Segment(E, T) /\ Lists(q, Entry, Pending(i, E, n, T))
    BY <1>2, <1>3 DEF T, n
  <2> QED BY <1>1, <1>2, <2>1, NextUp
<1>6. k \in 1 .. 22 /\ k \in Alt /\ k \in {3, 7, 8, 9, 10} /\ 3 \in Alt
  BY <1>2, MainStages DEF T
<1>7. CASE Continuing(q, i, E, n, T, k)
  <2>1. /\ k \notin E /\ Segment(E \cup {k}, Alt) /\ \A l \in Alt : l < k => l \in E
        /\ Performed(k, i) /\ Lists(Tail(q), Entry, Pending(i, E \cup {k}, issued, Alt))
    BY <1>4, <1>6, <1>7 DEF Continuing, T, n
  <2>2. i # 0 /\ 1 \in D
    BY <1>3, <1>6, <2>1
  <2>3. i \in 1 .. Calls
    BY <1>2, <2>2
  <2>0. Ordered(k, i)
    BY <1>6, <2>1, Events
  <2>4. 2 \in D
    <3>1. CASE k = 3
      <4>1. <<i, "fork">> \in fired
        BY <2>0, <3>1 DEF Ordered
      <4> QED BY <1>2, <1>3, <4>1, Signalled
    <3>2. CASE k # 3
      <4>1. 3 \in E
        BY <1>6, <2>1, <3>2
      <4> QED BY <1>3, <4>1 DEF Joined
    <3> QED BY <3>1, <3>2
  <2>5. Joined(D, E \cup {k})
    BY <1>3, <2>4 DEF Joined
  <2>6. Recorded(i, D, E \cup {k})'
    <3>1. \/ fired' = fired
          \/ k = 8 /\ fired' = fired \cup {<<i, "v">>}
          \/ k = 10 /\ fired' = fired \cup {<<i, "rel">>}
      <4>1. k \in Kernels \/ k \in {2, 8, 10} \/ k \in {3, 15, 20}
        BY <1>6 DEF Kernels
      <4> QED BY <1>6, <2>0, <4>1 DEF Ordered
    <3>2. CASE fired' = fired
      BY <1>3, <3>2 DEF Recorded
    <3>3. CASE k = 8 /\ fired' = fired \cup {<<i, "v">>}
      <4> SUFFICES ASSUME NEW c \in Nat
                   PROVE  /\ <<c, "fork">> \in fired' => c < i \/ (c = i /\ 2 \in D)
                          /\ <<c, "v">> \in fired' => c < i \/ (c = i /\ 8 \in E \cup {k})
                          /\ <<c, "rel">> \in fired' => c < i \/ (c = i /\ 10 \in E \cup {k})
        BY DEF Recorded
      <4>1. <<c, "fork">> \in fired' => <<c, "fork">> \in fired
        BY <3>3
      <4>2. <<c, "rel">> \in fired' => <<c, "rel">> \in fired
        BY <3>3
      <4>3. <<c, "v">> \in fired' => <<c, "v">> \in fired \/ c = i
        BY <3>3
      <4> QED BY <1>3, <3>3, <4>1, <4>2, <4>3 DEF Recorded
    <3>4. CASE k = 10 /\ fired' = fired \cup {<<i, "rel">>}
      <4> SUFFICES ASSUME NEW c \in Nat
                   PROVE  /\ <<c, "fork">> \in fired' => c < i \/ (c = i /\ 2 \in D)
                          /\ <<c, "v">> \in fired' => c < i \/ (c = i /\ 8 \in E \cup {k})
                          /\ <<c, "rel">> \in fired' => c < i \/ (c = i /\ 10 \in E \cup {k})
        BY DEF Recorded
      <4>1. <<c, "fork">> \in fired' => <<c, "fork">> \in fired
        BY <3>4
      <4>2. <<c, "v">> \in fired' => <<c, "v">> \in fired
        BY <3>4
      <4>3. <<c, "rel">> \in fired' => <<c, "rel">> \in fired \/ c = i
        BY <3>4
      <4> QED BY <1>3, <3>4, <4>1, <4>2, <4>3 DEF Recorded
    <3> QED BY <3>1, <3>2, <3>3, <3>4
  <2>7. Place(i, D, E \cup {k})'
    BY <1>1, <1>2, <1>3, <2>1, <2>2, <2>5, <2>6 DEF Place
  <2> QED BY <1>6, <2>1, <2>3, <2>7 DEF Runs
<1>8. CASE Starting(q, i, E, n, T, k)
  <2>1. /\ i < issued /\ \A l \in Alt : k <= l
        /\ Performed(k, i + 1)
    BY <1>4, <1>6, <1>8 DEF Starting, T, n
  <2>2. k = 3
    BY <1>6, <2>1
  <2>3. <<i + 1, "fork">> \in fired /\ i + 1 \in Nat
    <3>1. Ordered(3, i + 1)
      BY <2>1, <2>2, Events
    <3> QED BY <1>2, <3>1 DEF Ordered
  <2>4. i + 1 < i \/ i + 1 = i
    BY <1>3, <2>3 DEF Recorded
  <2> QED BY <1>2, <2>4
<1> QED BY <1>5, <1>7, <1>8

-----------------------------------------------------------------------------
(***************************************************************************)
(* What the tensors have been through.                                     *)
(***************************************************************************)
Tensor(i, did) == [call |-> i, did |-> did]

KDid(b, n, q) == If(b, <<"conv">>) \o If(n, <<"norm">>) \o If(q, <<"quant">>)
QDid(n, t, q) == If(n, <<"norm">>) \o If(t, <<"tau">>) \o If(q, <<"quant">>)

Marks == {"conv", "norm", "tau", "quant", "late"}

LEMMA Grown ==
  ASSUME NEW i, NEW d, NEW s
  PROVE  Did(Tensor(i, d), s) = Tensor(i, d \o s)
<1> DEFINE e == d \o s
<1>1. [call |-> i, did |-> d].did \o s = e
  OBVIOUS
<1> HIDE DEF e
<1>2. [[call |-> i, did |-> d] EXCEPT !.did = e] = [call |-> i, did |-> e]
  OBVIOUS
<1> QED BY <1>1, <1>2 DEF Did, Tensor, e

LEMMA New == ASSUME NEW i PROVE Fresh(i) = Tensor(i, <<>>)
BY DEF Fresh, Tensor

LEMMA Fields == ASSUME NEW i, NEW d PROVE Tensor(i, d).did = d /\ Tensor(i, d).call = i
BY DEF Tensor

LEMMA FirstSteps == ASSUME NEW i, NEW s PROVE Did(Fresh(i), s) = Tensor(i, <<>> \o s)
BY New, Grown

LEMMA KSteps ==
  /\ KDid(FALSE, FALSE, FALSE) = <<>>
  /\ KDid(FALSE, FALSE, FALSE) \o <<"conv">> = KDid(TRUE, FALSE, FALSE)
  /\ \A b \in BOOLEAN : KDid(b, FALSE, FALSE) \o <<"norm">> = KDid(b, TRUE, FALSE)
  /\ \A b, n \in BOOLEAN : KDid(b, n, FALSE) \o <<"quant">> = KDid(b, n, TRUE)
<1>1. KDid(FALSE, FALSE, FALSE) = <<>>
  BY DEF KDid, If
<1>2. KDid(FALSE, FALSE, FALSE) \o <<"conv">> = KDid(TRUE, FALSE, FALSE)
  BY DEF KDid, If
<1>3. ASSUME NEW b \in BOOLEAN PROVE KDid(b, FALSE, FALSE) \o <<"norm">> = KDid(b, TRUE, FALSE)
  <2>1. CASE b
    BY <2>1 DEF KDid, If
  <2>2. CASE ~b
    BY <2>2 DEF KDid, If
  <2> QED BY <2>1, <2>2
<1>4. ASSUME NEW b \in BOOLEAN, NEW n \in BOOLEAN
      PROVE  KDid(b, n, FALSE) \o <<"quant">> = KDid(b, n, TRUE)
  <2>1. CASE b /\ n
    BY <2>1 DEF KDid, If
  <2>2. CASE b /\ ~n
    BY <2>2 DEF KDid, If
  <2>3. CASE ~b /\ n
    BY <2>3 DEF KDid, If
  <2>4. CASE ~b /\ ~n
    BY <2>4 DEF KDid, If
  <2> QED BY <2>1, <2>2, <2>3, <2>4
<1> QED BY <1>1, <1>2, <1>3, <1>4

LEMMA QSteps ==
  /\ QDid(FALSE, FALSE, FALSE) = <<>>
  /\ QDid(FALSE, FALSE, FALSE) \o <<"norm">> = QDid(TRUE, FALSE, FALSE)
  /\ \A b \in BOOLEAN : QDid(b, FALSE, FALSE) \o <<"tau">> = QDid(b, TRUE, FALSE)
  /\ \A b, n \in BOOLEAN : QDid(b, n, FALSE) \o <<"quant">> = QDid(b, n, TRUE)
  /\ \A b, n \in BOOLEAN : QDid(FALSE, FALSE, FALSE) \o (<<"norm">> \o If(b, <<"tau">>) \o If(n, <<"quant">>))
                          = QDid(TRUE, b, n)
<1>1. QDid(FALSE, FALSE, FALSE) = <<>>
  BY DEF QDid, If
<1>2. QDid(FALSE, FALSE, FALSE) \o <<"norm">> = QDid(TRUE, FALSE, FALSE)
  BY DEF QDid, If
<1>3. ASSUME NEW b \in BOOLEAN PROVE QDid(b, FALSE, FALSE) \o <<"tau">> = QDid(b, TRUE, FALSE)
  <2>1. CASE b
    BY <2>1 DEF QDid, If
  <2>2. CASE ~b
    BY <2>2 DEF QDid, If
  <2> QED BY <2>1, <2>2
<1>4. ASSUME NEW b \in BOOLEAN, NEW n \in BOOLEAN
      PROVE  /\ QDid(b, n, FALSE) \o <<"quant">> = QDid(b, n, TRUE)
             /\ <<>> \o (<<"norm">> \o If(b, <<"tau">>) \o If(n, <<"quant">>)) = QDid(TRUE, b, n)
  <2>1. CASE b /\ n
    BY <2>1 DEF QDid, If
  <2>2. CASE b /\ ~n
    BY <2>2 DEF QDid, If
  <2>3. CASE ~b /\ n
    BY <2>3 DEF QDid, If
  <2>4. CASE ~b /\ ~n
    BY <2>4 DEF QDid, If
  <2> QED BY <2>1, <2>2, <2>3, <2>4
<1> QED BY <1>1, <1>2, <1>3, <1>4

(* A tensor says that it is quantized.                                     *)
LEMMA SaysQuantized ==
  ASSUME NEW b \in BOOLEAN, NEW n \in BOOLEAN
  PROVE  Contains(KDid(b, n, TRUE), "quant") /\ ~Contains(KDid(b, n, FALSE), "quant")
<1>1. CASE b /\ n
  BY <1>1 DEF KDid, If, Contains
<1>2. CASE b /\ ~n
  BY <1>2 DEF KDid, If, Contains
<1>3. CASE ~b /\ n
  BY <1>3 DEF KDid, If, Contains
<1>4. CASE ~b /\ ~n
  BY <1>4 DEF KDid, If, Contains
<1> QED BY <1>1, <1>2, <1>3, <1>4

-----------------------------------------------------------------------------
(***************************************************************************)
(* What the memory holds when the device is at that place.                 *)
(***************************************************************************)
Shapes ==
  /\ DOMAIN buf = {"x", "q", "k", "v", "rel"}
  /\ DOMAIN rows = 1 .. Calls /\ DOMAIN seen = 1 .. Calls

QRight(i, D) ==
  TauFolds(cfg) =>
    buf.q = Tensor(i, QDid(4 \in D \/ 13 \in D,
                           (4 \in D /\ FoldTau(cfg)) \/ 14 \in D,
                           (4 \in D /\ PrologueQuantQ(cfg)) \/ 17 \in D))
KRight(i, D) ==
  buf.k = Tensor(i, KDid(4 \in D \/ 11 \in D, 4 \in D \/ 13 \in D, 18 \in D))
VRight(i, D, E) ==
  buf.v = Tensor(i, KDid(4 \in D \/ 12 \in D \/ 7 \in E, FALSE, 18 \in D))
RelRight(i, D, E) ==
  16 \in D \/ 9 \in E => buf.rel = Tensor(i, If(ApplyTau(cfg), <<"tau">>))

Tensors5(i, D, E) ==
  buf.x = i /\ QRight(i, D) /\ KRight(i, D) /\ VRight(i, D, E) /\ RelRight(i, D, E)

(* The updates of the convolution state.                                   *)
Advanced(b, i) == If(b, <<[kind |-> UpdateOf(cfg.mode), call |-> i]>>)
PrologueUpdates(D) == 4 \in D /\ cfg.mode # "draft_extend"
KUpdated(c, i, D) ==
  IF c = i THEN PrologueUpdates(D) \/ 5 \in D \/ 11 \in D ELSE c < i /\ cfg.kvConv
VUpdated(c, i, D, E) ==
  IF c = i THEN PrologueUpdates(D) \/ 6 \in D \/ 12 \in D \/ 7 \in E ELSE c < i /\ cfg.kvConv
ConvRight(i, D, E) ==
  conv = [c \in 1 .. Calls |-> [k |-> Advanced(KUpdated(c, i, D), c),
                                v |-> Advanced(VUpdated(c, i, D, E), c)]]

StoredBy(D) == (4 \in D /\ DoStore(cfg)) \/ 19 \in D \/ 21 \in D
RowsRight(i, D) ==
  \A c \in 1 .. Calls : c >= i => rows[c] = If(c = i /\ StoredBy(D), <<OwedRow(c)>>)

SeenRight ==
  \A c \in 1 .. Calls : seen[c] # <<>> =>
    /\ seen[c].rows = <<OwedRow(c)>>
    /\ seen[c].rel = Tensor(c, If(ApplyTau(cfg), <<"tau">>))
    /\ TauFolds(cfg) => seen[c].q = OwedQ(c)

Data(i, D, E) ==
  /\ Shapes
  /\ i > 0 => Tensors5(i, D, E)
  /\ ConvRight(i, D, E) /\ RowsRight(i, D) /\ SeenRight

(***************************************************************************)
(* What a stage does not touch stays right.                                *)
(***************************************************************************)
LEMMA QKept ==
  ASSUME NEW i, NEW D, NEW k, k \notin {4, 13, 14, 17}, QRight(i, D), cfg' = cfg, buf'.q = buf.q
  PROVE  QRight(i, D \cup {k})'
<1>1. \A l \in {4, 13, 14, 17} : l \in D \cup {k} <=> l \in D
  OBVIOUS
<1> QED BY <1>1 DEF QRight

LEMMA KKept ==
  ASSUME NEW i, NEW D, NEW k, k \notin {4, 11, 13, 18}, KRight(i, D), buf'.k = buf.k
  PROVE  KRight(i, D \cup {k})'
<1>1. \A l \in {4, 11, 13, 18} : l \in D \cup {k} <=> l \in D
  OBVIOUS
<1> QED BY <1>1 DEF KRight

LEMMA VKept ==
  ASSUME NEW i, NEW D, NEW E, NEW k, k \notin {4, 12, 18}, VRight(i, D, E), buf'.v = buf.v
  PROVE  VRight(i, D \cup {k}, E)'
<1>1. \A l \in {4, 12, 18} : l \in D \cup {k} <=> l \in D
  OBVIOUS
<1>2. (4 \in D \cup {k} \/ 12 \in D \cup {k} \/ 7 \in E) = (4 \in D \/ 12 \in D \/ 7 \in E)
  BY <1>1
<1>3. (18 \in D \cup {k}) = (18 \in D)
  BY <1>1
<1> QED BY <1>2, <1>3 DEF VRight

LEMMA RelKept ==
  ASSUME NEW i, NEW D, NEW E, NEW k, k # 16, RelRight(i, D, E), cfg' = cfg, buf'.rel = buf.rel
  PROVE  RelRight(i, D \cup {k}, E)'
<1>1. 16 \in D \cup {k} <=> 16 \in D
  OBVIOUS
<1> QED BY <1>1 DEF RelRight

LEMMA ConvKept ==
  ASSUME NEW i, NEW D, NEW E, NEW k, k \notin {4, 5, 6, 11, 12}, ConvRight(i, D, E),
         cfg' = cfg, conv' = conv
  PROVE  ConvRight(i, D \cup {k}, E)'
<1>1. \A l \in {4, 5, 6, 11, 12} : l \in D \cup {k} <=> l \in D
  OBVIOUS
<1>2. \A c : /\ KUpdated(c, i, D \cup {k})' = KUpdated(c, i, D)
             /\ VUpdated(c, i, D \cup {k}, E)' = VUpdated(c, i, D, E)
  BY <1>1 DEF KUpdated, VUpdated, PrologueUpdates
<1>3. \A b, c : Advanced(b, c)' = Advanced(b, c)
  BY DEF Advanced
<1> QED BY <1>2, <1>3 DEF ConvRight

LEMMA OwedKept ==
  ASSUME cfg' = cfg, NEW c
  PROVE  OwedRow(c)' = OwedRow(c) /\ OwedQ(c)' = OwedQ(c)
BY DEF OwedRow, OwedQ, OwedConv, OwedQuant

LEMMA RowsKept ==
  ASSUME NEW i, NEW D, NEW k, k \notin {4, 19, 21}, RowsRight(i, D), cfg' = cfg, rows' = rows
  PROVE  RowsRight(i, D \cup {k})'
<1>1. \A l \in {4, 19, 21} : l \in D \cup {k} <=> l \in D
  OBVIOUS
<1>2. StoredBy(D \cup {k})' <=> StoredBy(D)
  BY <1>1 DEF StoredBy
<1> QED BY <1>2, OwedKept DEF RowsRight

LEMMA SeenKept ==
  ASSUME SeenRight, cfg' = cfg, seen' = seen
  PROVE  SeenRight'
BY OwedKept DEF SeenRight

(* The alternate stream: stages of its own.                                *)
LEMMA AltKept ==
  ASSUME NEW i, NEW D, NEW E, NEW k, Data(i, D, E), cfg' = cfg, rows' = rows, seen' = seen,
         i > 0, buf'.x = buf.x, buf'.q = buf.q, buf'.k = buf.k, DOMAIN buf' = DOMAIN buf
  PROVE  /\ Shapes' /\ buf'.x = i /\ QRight(i, D)' /\ KRight(i, D)' /\ RowsRight(i, D)' /\ SeenRight'
         /\ k # 7 /\ buf'.v = buf.v => VRight(i, D, E \cup {k})'
         /\ k # 9 /\ buf'.rel = buf.rel => RelRight(i, D, E \cup {k})'
         /\ k # 7 /\ conv' = conv => ConvRight(i, D, E \cup {k})'
<1>1. /\ Shapes /\ Tensors5(i, D, E) /\ ConvRight(i, D, E) /\ RowsRight(i, D) /\ SeenRight
  BY DEF Data
<1>2. Shapes' /\ buf'.x = i /\ QRight(i, D)' /\ KRight(i, D)'
  BY <1>1 DEF Shapes, Tensors5, QRight, KRight
<1>3. SeenRight'
  BY <1>1, SeenKept
<1>4. RowsRight(i, D)'
  BY <1>1, OwedKept DEF RowsRight, StoredBy
<1>5. k # 7 => (7 \in E \cup {k} <=> 7 \in E)
  OBVIOUS
<1>6. k # 9 => (9 \in E \cup {k} <=> 9 \in E)
  OBVIOUS
<1>7. k # 7 /\ buf'.v = buf.v => VRight(i, D, E \cup {k})'
  BY <1>1, <1>5 DEF Tensors5, VRight
<1>8. k # 9 /\ buf'.rel = buf.rel => RelRight(i, D, E \cup {k})'
  BY <1>1, <1>6 DEF Tensors5, RelRight
<1>9. ASSUME k # 7, conv' = conv PROVE ConvRight(i, D, E \cup {k})'
  <2>1. \A c : /\ KUpdated(c, i, D)' = KUpdated(c, i, D)
               /\ VUpdated(c, i, D, E \cup {k})' = VUpdated(c, i, D, E)
    BY <1>5, <1>9 DEF KUpdated, VUpdated, PrologueUpdates
  <2>2. \A b, c : Advanced(b, c)' = Advanced(b, c)
    BY DEF Advanced
  <2> QED BY <1>1, <1>9, <2>1, <2>2 DEF ConvRight
<1> QED BY <1>2, <1>3, <1>4, <1>7, <1>8, <1>9

(* One call's convolution state has moved.                                 *)
LEMMA ConvMoved ==
  ASSUME NEW i \in 1 .. Calls, NEW D, NEW E, NEW D2, NEW E2, ConvRight(i, D, E), cfg' = cfg,
         NEW a, NEW b, a <=> KUpdated(i, i, D2), b <=> VUpdated(i, i, D2, E2),
         conv' = [conv EXCEPT ![i] = [k |-> Advanced(a, i), v |-> Advanced(b, i)]]
  PROVE  ConvRight(i, D2, E2)'
<1>1. \A c : c # i => /\ KUpdated(c, i, D2)' = KUpdated(c, i, D)
                      /\ VUpdated(c, i, D2, E2)' = VUpdated(c, i, D, E)
  BY DEF KUpdated, VUpdated
<1>2. \A w, c : Advanced(w, c)' = Advanced(w, c)
  BY DEF Advanced
<1>3. (KUpdated(i, i, D2)' <=> a) /\ (VUpdated(i, i, D2, E2)' <=> b)
  BY DEF KUpdated, VUpdated, PrologueUpdates
<1>4. Advanced(KUpdated(i, i, D2), i)' = Advanced(a, i) /\ Advanced(VUpdated(i, i, D2, E2), i)' = Advanced(b, i)
  BY <1>3 DEF Advanced, If
<1>5. ASSUME NEW c \in 1 .. Calls
      PROVE  conv'[c] = [k |-> Advanced(KUpdated(c, i, D2), c)', v |-> Advanced(VUpdated(c, i, D2, E2), c)']
  <2>1. CASE c = i
    BY <1>4, <2>1 DEF ConvRight
  <2>2. CASE c # i
    <3>1. conv'[c] = [k |-> Advanced(KUpdated(c, i, D), c), v |-> Advanced(VUpdated(c, i, D, E), c)]
      BY <2>2 DEF ConvRight
    <3>2. Advanced(KUpdated(c, i, D2), c)' = Advanced(KUpdated(c, i, D), c)
      BY <1>1, <2>2 DEF Advanced
    <3>3. Advanced(VUpdated(c, i, D2, E2), c)' = Advanced(VUpdated(c, i, D, E), c)
      BY <1>1, <2>2 DEF Advanced
    <3> QED BY <3>1, <3>2, <3>3
  <2> QED BY <2>1, <2>2
<1>6. conv' = [c \in 1 .. Calls |-> conv'[c]]
  BY DEF ConvRight
<1> QED BY <1>5, <1>6 DEF ConvRight

(***************************************************************************)
(* What is done when a stage runs.                                         *)
(***************************************************************************)
DoneBefore(D, T, k) == \A l \in 1 .. 22 : l \in D <=> l \in T /\ l < k

LEMMA Before ==
  ASSUME NEW i, NEW D, NEW T \in SUBSET (1 .. 22), NEW k \in 1 .. 22, Segment(D, T), Runs(i, D, T, k)
  PROVE  DoneBefore(D, T, k)
<1> SUFFICES ASSUME NEW l \in 1 .. 22
             PROVE  l \in D <=> l \in T /\ l < k
  BY DEF DoneBefore
<1>1. k \in T /\ k \notin D /\ \A m \in T : m < k => m \in D
  BY DEF Runs
<1>2. ASSUME l \in D PROVE l \in T /\ l < k
  <2>1. l \in T /\ l # k
    BY <1>1, <1>2 DEF Segment
  <2>2. ~(k < l)
    BY <1>1, <1>2 DEF Segment
  <2> QED BY <2>1, <2>2
<1> QED BY <1>1, <1>2

(* The stages of the main stream done before k.                            *)
Progress(D, k) ==
  /\ 4 \in D <=> UsesPrologue(cfg) /\ 4 < k
  /\ 5 \in D <=> UsesPrologue(cfg) /\ cfg.mode = "draft_extend" /\ 5 < k
  /\ 6 \in D <=> UsesPrologue(cfg) /\ cfg.mode = "draft_extend" /\ 6 < k
  /\ 11 \in D <=> ~UsesPrologue(cfg) /\ cfg.kvConv /\ 11 < k
  /\ 12 \in D <=> ~Overlaps(cfg) /\ cfg.kvConv /\ 12 < k
  /\ 13 \in D <=> ~UsesPrologue(cfg) /\ 13 < k
  /\ 14 \in D <=> ApplyTau(cfg) /\ ~(UsesPrologue(cfg) /\ FoldTau(cfg)) /\ 14 < k
  /\ 15 \in D <=> UsesAlt(cfg) /\ 15 < k
  /\ 16 \in D <=> ~Overlaps(cfg) /\ 16 < k
  /\ 17 \in D <=> cfg.kvDtype = "mxfp8" /\ cfg.backend = "fa4" /\ ~PrologueQuantQ(cfg) /\ 17 < k
  /\ 18 \in D <=> Prequantized(cfg) /\ 18 < k
  /\ 19 \in D <=> ~PrologueStored(cfg) /\ Early(cfg) /\ 19 < k
  /\ 20 \in D <=> Overlaps(cfg) /\ 20 < k
  /\ 21 \in D <=> ~PrologueStored(cfg) /\ ~Early(cfg) /\ 21 < k

LEMMA MainProgress ==
  ASSUME NEW D, NEW k \in 1 .. 23, \A l \in 1 .. 22 : l \in D <=> l \in Main /\ l < k
  PROVE  Progress(D, k)
<1>1. \A l \in {4, 5, 6, 11, 12, 13, 14, 15, 16, 17, 18, 19, 20, 21} : l \in D <=> Has(cfg, l) /\ l < k
  BY DEF Main, Stages, OnAlt
<1>2. Has(cfg, 4) <=> UsesPrologue(cfg)
  BY DEF Has
<1>3. Has(cfg, 5) <=> UsesPrologue(cfg) /\ cfg.mode = "draft_extend"
  BY DEF Has
<1>4. Has(cfg, 6) <=> UsesPrologue(cfg) /\ cfg.mode = "draft_extend"
  BY DEF Has
<1>5. Has(cfg, 11) <=> ~UsesPrologue(cfg) /\ cfg.kvConv
  BY DEF Has
<1>6. Has(cfg, 12) <=> ~Overlaps(cfg) /\ cfg.kvConv
  BY DEF Has
<1>7. Has(cfg, 13) <=> ~UsesPrologue(cfg)
  BY DEF Has
<1>8. Has(cfg, 14) <=> ApplyTau(cfg) /\ ~(UsesPrologue(cfg) /\ FoldTau(cfg))
  BY DEF Has
<1>9. Has(cfg, 15) <=> UsesAlt(cfg)
  BY DEF Has
<1>10. Has(cfg, 16) <=> ~Overlaps(cfg)
  BY DEF Has
<1>11. Has(cfg, 17) <=> cfg.kvDtype = "mxfp8" /\ cfg.backend = "fa4" /\ ~PrologueQuantQ(cfg)
  BY DEF Has
<1>12. Has(cfg, 18) <=> Prequantized(cfg)
  BY DEF Has
<1>13. Has(cfg, 19) <=> ~PrologueStored(cfg) /\ Early(cfg)
  BY DEF Has
<1>14. Has(cfg, 20) <=> Overlaps(cfg)
  BY DEF Has
<1>15. Has(cfg, 21) <=> ~PrologueStored(cfg) /\ ~Early(cfg)
  BY DEF Has
<1> QED BY <1>1, <1>2, <1>3, <1>4, <1>5, <1>6, <1>7, <1>8, <1>9, <1>10, <1>11, <1>12, <1>13,
           <1>14, <1>15 DEF Progress

(* The alternate stream, seen from the main one and the other way around.  *)
Behind(D, E) ==
  /\ 7 \in E => UsesAlt(cfg) /\ cfg.kvConv
  /\ 9 \in E => Overlaps(cfg)
  /\ UsesAlt(cfg) /\ cfg.kvConv /\ 15 \in D => 7 \in E
  /\ Overlaps(cfg) /\ 20 \in D => 9 \in E

LEMMA AltBehind ==
  ASSUME NEW D, NEW E, Segment(E, Alt), Joined(D, E)
  PROVE  Behind(D, E)
<1>1. (7 \in Alt <=> UsesAlt(cfg) /\ cfg.kvConv) /\ (9 \in Alt <=> Overlaps(cfg))
  <2>1. \A l \in {7, 9} : l \in Alt <=> Has(cfg, l)
    BY DEF Alt, Stages, OnAlt
  <2>2. (Has(cfg, 7) <=> UsesAlt(cfg) /\ cfg.kvConv) /\ (Has(cfg, 9) <=> Overlaps(cfg))
    BY DEF Has
  <2> QED BY <2>1, <2>2
<1>2. E \subseteq Alt /\ (8 \in E /\ 7 \in Alt => 7 \in E) /\ (10 \in E /\ 9 \in Alt => 9 \in E)
  BY DEF Segment
<1>3. (15 \in D => 8 \in E) /\ (20 \in D => 10 \in E)
  BY DEF Joined
<1> QED BY <1>1, <1>2, <1>3 DEF Behind

-----------------------------------------------------------------------------
(* What a row is owed is what it has been through once it is stored.       *)
LEMMA OwedSteps ==
  ASSUME NEW b \in BOOLEAN, NEW q \in BOOLEAN
  PROVE  /\ <<>> \o (If(b, <<"conv">>) \o <<"norm">> \o If(q, <<"quant">>)) = KDid(b, TRUE, q)
         /\ <<>> \o (If(b, <<"conv">>) \o If(q, <<"quant">>)) = KDid(b, FALSE, q)
<1>1. CASE b /\ q
  BY <1>1 DEF KDid, If
<1>2. CASE b /\ ~q
  BY <1>2 DEF KDid, If
<1>3. CASE ~b /\ q
  BY <1>3 DEF KDid, If
<1>4. CASE ~b /\ ~q
  BY <1>4 DEF KDid, If
<1> QED BY <1>1, <1>2, <1>3, <1>4

LEMMA StoredOwed ==
  ASSUME NEW i, NEW b \in BOOLEAN, NEW n \in BOOLEAN, NEW q \in BOOLEAN, NEW s \in BOOLEAN,
         s <=> cfg.kvDtype # "bf16", q => s
  PROVE  Stored(cfg, Tensor(i, KDid(b, n, q))) = Tensor(i, KDid(b, n, s))
<1> DEFINE t == Tensor(i, KDid(b, n, q))
<1>1. t.did = KDid(b, n, q)
  BY Fields
<1> HIDE DEF t
<1>2. CASE ~s
  <2>1. q = FALSE /\ s = FALSE /\ cfg.kvDtype = "bf16"
    BY <1>2
  <2>2. Stored(cfg, t) = t
    BY <2>1 DEF Stored
  <2> QED BY <2>1, <2>2 DEF t
<1>3. CASE s /\ q
  <2>1. q = TRUE /\ s = TRUE
    BY <1>3
  <2>2. Contains(t.did, "quant")
    BY <1>1, <2>1, SaysQuantized
  <2>3. Stored(cfg, t) = t
    BY <2>2 DEF Stored
  <2> QED BY <2>1, <2>3 DEF t
<1>4. CASE s /\ ~q
  <2>1. q = FALSE /\ s = TRUE /\ cfg.kvDtype # "bf16"
    BY <1>4
  <2>2. ~Contains(t.did, "quant")
    BY <1>1, <2>1, SaysQuantized
  <2>3. Stored(cfg, t) = Did(t, <<"quant">>)
    BY <2>1, <2>2 DEF Stored
  <2>4. Did(t, <<"quant">>) = Tensor(i, KDid(b, n, FALSE) \o <<"quant">>)
    BY <2>1, Grown DEF t
  <2>5. KDid(b, n, FALSE) \o <<"quant">> = KDid(b, n, TRUE)
    BY KSteps
  <2> QED BY <2>1, <2>3, <2>4, <2>5 DEF t
<1> QED BY <1>2, <1>3, <1>4 DEF t

LEMMA RowOwed ==
  ASSUME NEW i, NEW b \in BOOLEAN, NEW q \in BOOLEAN, cfg.kvConv \in BOOLEAN,
         b <=> cfg.kvConv, q => cfg.kvDtype # "bf16"
  PROVE  RowOf(cfg, Tensor(i, KDid(b, TRUE, q)), Tensor(i, KDid(b, FALSE, q)), SubPool(cfg))
         = OwedRow(i)
<1> DEFINE s == cfg.kvDtype # "bf16"
<1>1. s \in BOOLEAN /\ (s <=> cfg.kvDtype # "bf16") /\ (q => s) /\ b = cfg.kvConv
  OBVIOUS
<1>2. OwedQuant = If(s, <<"quant">>) /\ OwedConv = If(b, <<"conv">>)
  BY <1>1 DEF OwedQuant, OwedConv
<1> HIDE DEF s
<1>3. Stored(cfg, Tensor(i, KDid(b, TRUE, q))) = Tensor(i, KDid(b, TRUE, s))
  <2> DEFINE n == TRUE
  <2>1. n \in BOOLEAN /\ n = TRUE
    OBVIOUS
  <2> HIDE DEF n
  <2>2. Stored(cfg, Tensor(i, KDid(b, n, q))) = Tensor(i, KDid(b, n, s))
    BY <1>1, <2>1, StoredOwed
  <2> QED BY <2>1, <2>2
<1>4. Stored(cfg, Tensor(i, KDid(b, FALSE, q))) = Tensor(i, KDid(b, FALSE, s))
  BY <1>1, StoredOwed
<1>5. Did(Fresh(i), If(b, <<"conv">>) \o <<"norm">> \o If(s, <<"quant">>)) = Tensor(i, KDid(b, TRUE, s))
  <2> DEFINE d == If(b, <<"conv">>) \o <<"norm">> \o If(s, <<"quant">>)
  <2>1. <<>> \o d = KDid(b, TRUE, s)
    BY <1>1, OwedSteps
  <2> HIDE DEF d
  <2>2. Did(Fresh(i), d) = Tensor(i, KDid(b, TRUE, s))
    BY <2>1, FirstSteps
  <2> QED BY <2>2 DEF d
<1>6. Did(Fresh(i), If(b, <<"conv">>) \o If(s, <<"quant">>)) = Tensor(i, KDid(b, FALSE, s))
  <2> DEFINE d == If(b, <<"conv">>) \o If(s, <<"quant">>)
  <2>1. <<>> \o d = KDid(b, FALSE, s)
    BY <1>1, OwedSteps
  <2> HIDE DEF d
  <2>2. Did(Fresh(i), d) = Tensor(i, KDid(b, FALSE, s))
    BY <2>1, FirstSteps
  <2> QED BY <2>2 DEF d
<1> QED BY <1>2, <1>3, <1>4, <1>5, <1>6 DEF RowOf, OwedRow, SubPool

LEMMA QOwed ==
  ASSUME NEW i, NEW t \in BOOLEAN, NEW q \in BOOLEAN, t <=> ApplyTau(cfg),
         q <=> cfg.backend = "fa4" /\ cfg.kvDtype = "mxfp8"
  PROVE  OwedQ(i) = Tensor(i, QDid(TRUE, t, q))
<1>1. If(cfg.tau /\ ~cfg.local, <<"tau">>) = If(t, <<"tau">>)
  BY DEF ApplyTau, If
<1>2. If(cfg.backend = "fa4" /\ cfg.kvDtype = "mxfp8", <<"quant">>) = If(q, <<"quant">>)
  BY DEF If
<1>3. OwedQ(i) = Did(Fresh(i), <<"norm">> \o If(t, <<"tau">>) \o If(q, <<"quant">>))
  BY <1>1, <1>2 DEF OwedQ
<1>4. <<>> \o (<<"norm">> \o If(t, <<"tau">>) \o If(q, <<"quant">>)) = QDid(TRUE, t, q)
  BY QSteps
<1> QED BY <1>3, <1>4, FirstSteps

(* Reading and establishing the parts of Data.                             *)
LEMMA QIs ==
  ASSUME NEW i, NEW D, NEW n \in BOOLEAN, NEW t \in BOOLEAN, NEW q \in BOOLEAN,
         n <=> 4 \in D \/ 13 \in D, t <=> (4 \in D /\ FoldTau(cfg)) \/ 14 \in D,
         q <=> (4 \in D /\ PrologueQuantQ(cfg)) \/ 17 \in D
  PROVE  /\ QRight(i, D) /\ TauFolds(cfg) => buf.q = Tensor(i, QDid(n, t, q))
         /\ cfg' = cfg /\ (TauFolds(cfg) => buf'.q = Tensor(i, QDid(n, t, q))) => QRight(i, D)'
<1>1. n = (4 \in D \/ 13 \in D) /\ t = ((4 \in D /\ FoldTau(cfg)) \/ 14 \in D)
      /\ q = ((4 \in D /\ PrologueQuantQ(cfg)) \/ 17 \in D)
  OBVIOUS
<1> QED BY <1>1 DEF QRight

LEMMA KIs ==
  ASSUME NEW i, NEW D, NEW b \in BOOLEAN, NEW n \in BOOLEAN, NEW q \in BOOLEAN,
         b <=> 4 \in D \/ 11 \in D, n <=> 4 \in D \/ 13 \in D, q <=> 18 \in D
  PROVE  /\ KRight(i, D) => buf.k = Tensor(i, KDid(b, n, q))
         /\ buf'.k = Tensor(i, KDid(b, n, q)) => KRight(i, D)'
<1>1. b = (4 \in D \/ 11 \in D) /\ n = (4 \in D \/ 13 \in D) /\ q = (18 \in D)
  OBVIOUS
<1> QED BY <1>1 DEF KRight

LEMMA VIs ==
  ASSUME NEW i, NEW D, NEW E, NEW b \in BOOLEAN, NEW q \in BOOLEAN,
         b <=> 4 \in D \/ 12 \in D \/ 7 \in E, q <=> 18 \in D
  PROVE  /\ VRight(i, D, E) => buf.v = Tensor(i, KDid(b, FALSE, q))
         /\ buf'.v = Tensor(i, KDid(b, FALSE, q)) => VRight(i, D, E)'
<1>1. b = (4 \in D \/ 12 \in D \/ 7 \in E) /\ q = (18 \in D)
  OBVIOUS
<1> QED BY <1>1 DEF VRight

LEMMA ConvIs ==
  ASSUME NEW i \in 1 .. Calls, NEW D, NEW E, ConvRight(i, D, E),
         NEW a \in BOOLEAN, NEW b \in BOOLEAN,
         a <=> PrologueUpdates(D) \/ 5 \in D \/ 11 \in D,
         b <=> PrologueUpdates(D) \/ 6 \in D \/ 12 \in D \/ 7 \in E
  PROVE  conv[i] = [k |-> Advanced(a, i), v |-> Advanced(b, i)]
<1>1. a = KUpdated(i, i, D) /\ b = VUpdated(i, i, D, E)
  BY DEF KUpdated, VUpdated
<1>2. conv[i] = [k |-> Advanced(KUpdated(i, i, D), i), v |-> Advanced(VUpdated(i, i, D, E), i)]
  BY DEF ConvRight
<1> QED BY <1>1, <1>2

LEMMA ConvBecomes ==
  ASSUME NEW i \in 1 .. Calls, NEW D, NEW E, NEW D2, NEW E2, ConvRight(i, D, E), cfg' = cfg,
         NEW a \in BOOLEAN, NEW b \in BOOLEAN,
         a <=> PrologueUpdates(D2) \/ 5 \in D2 \/ 11 \in D2,
         b <=> PrologueUpdates(D2) \/ 6 \in D2 \/ 12 \in D2 \/ 7 \in E2,
         conv' = [conv EXCEPT ![i] = [k |-> Advanced(a, i), v |-> Advanced(b, i)]]
  PROVE  ConvRight(i, D2, E2)'
<1>1. (a <=> KUpdated(i, i, D2)) /\ (b <=> VUpdated(i, i, D2, E2))
  BY DEF KUpdated, VUpdated
<1> QED BY <1>1, ConvMoved

LEMMA Unconvolved ==
  ASSUME NEW i
  PROVE  /\ Advanced(FALSE, i) = <<>>
         /\ Conv(Tensor(i, KDid(FALSE, FALSE, FALSE)), <<>>) = Tensor(i, KDid(TRUE, FALSE, FALSE))
<1>1. Advanced(FALSE, i) = <<>>
  BY DEF Advanced, If
<1> DEFINE d == KDid(FALSE, FALSE, FALSE)
           e == KDid(TRUE, FALSE, FALSE)
<1>2. d \o <<"conv">> = e
  BY KSteps
<1> HIDE DEF d, e
<1>3. Conv(Tensor(i, d), <<>>) = Did(Tensor(i, d), <<"conv">>)
  BY DEF Conv
<1>4. Did(Tensor(i, d), <<"conv">>) = Tensor(i, e)
  BY <1>2, Grown
<1> QED BY <1>1, <1>3, <1>4 DEF d, e
-----------------------------------------------------------------------------
At(i, D, E) ==
  /\ i \in 1 .. Calls /\ cfg \in Settings /\ cfg' = cfg
  /\ Segment(D, Main) /\ Segment(E, Alt) /\ Joined(D, E)
  /\ Data(i, D, E)

LEMMA Known ==
  ASSUME NEW i, NEW D, NEW E, At(i, D, E)
  PROVE  /\ i \in 1 .. Calls /\ i > 0 /\ cfg' = cfg /\ Shapes /\ buf.x = i
         /\ cfg.kvConv \in BOOLEAN /\ cfg.mode \in Modes
         /\ QRight(i, D) /\ KRight(i, D) /\ VRight(i, D, E) /\ RelRight(i, D, E)
         /\ ConvRight(i, D, E) /\ RowsRight(i, D) /\ SeenRight /\ Behind(D, E)
<1>1. i \in 1 .. Calls /\ cfg \in Settings /\ cfg' = cfg /\ Data(i, D, E)
  BY DEF At
<1>2. i > 0
  BY <1>1, AttnAssumption
<1>3. Behind(D, E)
  BY AltBehind DEF At
<1>4. cfg.kvConv \in BOOLEAN /\ cfg.mode \in Modes
  BY <1>1 DEF Settings
<1> QED BY <1>1, <1>2, <1>3, <1>4 DEF Data, Tensors5

LEMMA MainKnown ==
  ASSUME NEW i, NEW D, NEW E, At(i, D, E), NEW k \in 1 .. 22, Runs(i, D, Main, k)
  PROVE  Progress(D, k) /\ Has(cfg, k) /\ Performed(k, i)
<1>1. DoneBefore(D, Main, k)
  BY MainStages, Before DEF At
<1>2. Progress(D, k)
  BY <1>1, MainProgress DEF DoneBefore
<1>3. Has(cfg, k) /\ Performed(k, i)
  BY DEF Runs, Main, Stages
<1> QED BY <1>2, <1>3

LEMMA Together ==
  ASSUME NEW i, NEW D, NEW E, Shapes', buf'.x = i, QRight(i, D)', KRight(i, D)', VRight(i, D, E)',
         RelRight(i, D, E)', ConvRight(i, D, E)', RowsRight(i, D)', SeenRight'
  PROVE  Data(i, D, E)'
BY DEF Data, Tensors5

-----------------------------------------------------------------------------
(***************************************************************************)
(* One lemma per stage: what it leaves right.                              *)
(***************************************************************************)
LEMMA MainEvents ==
  ASSUME NEW i, NEW D, NEW E, At(i, D, E), NEW k \in {2, 15, 20}, Runs(i, D, Main, k)
  PROVE  Data(i, D \cup {k}, E)'
<1>1. k \in 1 .. 22 /\ k \notin {4, 5, 6, 11, 12, 13, 14, 16, 17, 18, 19, 21}
  OBVIOUS
<1>2. Performed(k, i)
  BY DEF Runs
<1>3. UNCHANGED <<buf, conv, rows, seen>>
  <2>1. Ordered(k, i)
    BY <1>1, <1>2, Events
  <2> QED BY <2>1 DEF Ordered
<1>4. /\ cfg' = cfg /\ Shapes /\ buf.x = i /\ QRight(i, D) /\ KRight(i, D) /\ VRight(i, D, E)
      /\ RelRight(i, D, E) /\ ConvRight(i, D, E) /\ RowsRight(i, D) /\ SeenRight
  BY Known
<1>5. Shapes' /\ buf'.x = i
  BY <1>3, <1>4 DEF Shapes
<1>6. QRight(i, D \cup {k})'
  BY <1>1, <1>3, <1>4, QKept
<1>7. KRight(i, D \cup {k})'
  BY <1>1, <1>3, <1>4, KKept
<1>8. VRight(i, D \cup {k}, E)'
  BY <1>1, <1>3, <1>4, VKept
<1>9. RelRight(i, D \cup {k}, E)'
  BY <1>1, <1>3, <1>4, RelKept
<1>10. ConvRight(i, D \cup {k}, E)'
  BY <1>1, <1>3, <1>4, ConvKept
<1>11. RowsRight(i, D \cup {k})' /\ SeenRight'
  BY <1>1, <1>3, <1>4, RowsKept, SeenKept
<1> QED BY <1>5, <1>6, <1>7, <1>8, <1>9, <1>10, <1>11, Together

LEMMA AltEvents ==
  ASSUME NEW i, NEW D, NEW E, At(i, D, E), NEW k \in {3, 8, 10}, Runs(i, E, Alt, k)
  PROVE  Data(i, D, E \cup {k})'
<1>1. k \in 1 .. 22 /\ k # 7 /\ k # 9
  OBVIOUS
<1>2. Performed(k, i)
  BY DEF Runs
<1>3. UNCHANGED <<buf, conv, rows, seen>>
  <2>1. Ordered(k, i)
    BY <1>1, <1>2, Events
  <2> QED BY <2>1 DEF Ordered
<1>4. Data(i, D, E) /\ cfg' = cfg /\ i > 0
  BY Known DEF At
<1>5. /\ Shapes' /\ buf'.x = i /\ QRight(i, D)' /\ KRight(i, D)' /\ RowsRight(i, D)' /\ SeenRight'
      /\ VRight(i, D, E \cup {k})' /\ RelRight(i, D, E \cup {k})' /\ ConvRight(i, D, E \cup {k})'
  BY <1>1, <1>3, <1>4, AltKept
<1> QED BY <1>5, Together

(* A kernel that works on the tensors alone.                               *)
Untouched(i, D, E, k, b) ==
  /\ Shapes' /\ buf'.x = i /\ ConvRight(i, D \cup {k}, E)' /\ RowsRight(i, D \cup {k})' /\ SeenRight'
  /\ k \notin {13, 14, 17} /\ b.q = buf.q => QRight(i, D \cup {k})'
  /\ k \notin {13, 18} /\ b.k = buf.k => KRight(i, D \cup {k})'
  /\ k # 18 /\ b.v = buf.v => VRight(i, D \cup {k}, E)'
  /\ k # 16 /\ b.rel = buf.rel => RelRight(i, D \cup {k}, E)'

LEMMA OnlyTensors ==
  ASSUME NEW i, NEW D, NEW E, At(i, D, E), NEW k \in {13, 14, 16, 17, 18}, NEW b, Tensors(b),
         b.x = buf.x, DOMAIN b = DOMAIN buf
  PROVE  Untouched(i, D, E, k, b)
<1>1. k \notin {4, 5, 6, 11, 12, 19, 21}
  OBVIOUS
<1>2. /\ cfg' = cfg /\ Shapes /\ buf.x = i /\ QRight(i, D) /\ KRight(i, D) /\ VRight(i, D, E)
      /\ RelRight(i, D, E) /\ ConvRight(i, D, E) /\ RowsRight(i, D) /\ SeenRight
  BY Known
<1>3. buf' = b /\ conv' = conv /\ rows' = rows /\ seen' = seen
  BY DEF Tensors
<1>4. Shapes' /\ buf'.x = i
  BY <1>2, <1>3 DEF Shapes
<1>5. ConvRight(i, D \cup {k}, E)'
  BY <1>1, <1>2, <1>3, ConvKept
<1>6. RowsRight(i, D \cup {k})' /\ SeenRight'
  BY <1>1, <1>2, <1>3, RowsKept, SeenKept
<1>7. ASSUME k \notin {13, 14, 17}, b.q = buf.q PROVE QRight(i, D \cup {k})'
  <2>1. k \notin {4, 13, 14, 17}
    BY <1>1, <1>7
  <2> QED BY <1>2, <1>3, <1>7, <2>1, QKept
<1>8. ASSUME k \notin {13, 18}, b.k = buf.k PROVE KRight(i, D \cup {k})'
  <2>1. k \notin {4, 11, 13, 18}
    BY <1>1, <1>8
  <2> QED BY <1>2, <1>3, <1>8, <2>1, KKept
<1>9. ASSUME k # 18, b.v = buf.v PROVE VRight(i, D \cup {k}, E)'
  <2>1. k \notin {4, 12, 18}
    BY <1>1, <1>9
  <2> QED BY <1>2, <1>3, <1>9, <2>1, VKept
<1>10. ASSUME k # 16, b.rel = buf.rel PROVE RelRight(i, D \cup {k}, E)'
  BY <1>2, <1>3, <1>10, RelKept
<1> QED BY <1>4, <1>5, <1>6, <1>7, <1>8, <1>9, <1>10 DEF Untouched

(* A tensor that has been through one more step.                           *)
LEMMA QOnce ==
  ASSUME NEW i, NEW d, NEW e, NEW s, buf.q = Tensor(i, d), buf'.q = Did(buf.q, s), d \o s = e
  PROVE  buf'.q = Tensor(i, e)
BY Grown

LEMMA KOnce ==
  ASSUME NEW i, NEW d, NEW e, NEW s, buf.k = Tensor(i, d), buf'.k = Did(buf.k, s), d \o s = e
  PROVE  buf'.k = Tensor(i, e)
BY Grown

LEMMA VOnce ==
  ASSUME NEW i, NEW d, NEW e, NEW s, buf.v = Tensor(i, d), buf'.v = Did(buf.v, s), d \o s = e
  PROVE  buf'.v = Tensor(i, e)
BY Grown

LEMMA QkNorm ==
  ASSUME NEW i, NEW D, NEW E, At(i, D, E), Runs(i, D, Main, 13)
  PROVE  Data(i, D \cup {13}, E)'
<1> DEFINE b == [buf EXCEPT !.q = Did(@, <<"norm">>), !.k = Did(@, <<"norm">>)]
           D2 == D \cup {13}
<1>0. Progress(D, 13) /\ Has(cfg, 13) /\ Performed(13, i)
  BY MainKnown
<1>1. Tensors(b)
  BY <1>0, Effects
<1>2. /\ cfg' = cfg /\ Shapes /\ QRight(i, D) /\ KRight(i, D)
  BY Known
<1>3. /\ b.q = Did(buf.q, <<"norm">>) /\ b.k = Did(buf.k, <<"norm">>) /\ b.x = buf.x /\ b.v = buf.v
      /\ b.rel = buf.rel /\ DOMAIN b = DOMAIN buf
  BY <1>2 DEF Shapes
<1>4. buf' = b
  BY <1>1 DEF Tensors
<1> HIDE DEF b
<1>5. 4 \notin D /\ 13 \notin D /\ 14 \notin D /\ 17 \notin D /\ 18 \notin D
  BY <1>0 DEF Progress, Has
<1>6. QRight(i, D2)'
  <2>1. TauFolds(cfg) => buf.q = Tensor(i, QDid(FALSE, FALSE, FALSE))
    BY <1>2, <1>5, QIs
  <2>2. TauFolds(cfg) => buf'.q = Tensor(i, QDid(TRUE, FALSE, FALSE))
    BY <1>3, <1>4, <2>1, QSteps, QOnce
  <2>3. 13 \in D2 /\ 4 \notin D2 /\ 14 \notin D2 /\ 17 \notin D2
    BY <1>5
  <2> HIDE DEF D2
  <2> QED BY <1>2, <2>2, <2>3, QIs
<1>7. KRight(i, D2)'
  <2> DEFINE c == 11 \in D
  <2>1. c \in BOOLEAN /\ (c <=> 4 \in D \/ 11 \in D)
    BY <1>5
  <2>2. (c <=> 4 \in D2 \/ 11 \in D2) /\ 13 \in D2 /\ 18 \notin D2
    BY <1>5
  <2> HIDE DEF c, D2
  <2>3. buf.k = Tensor(i, KDid(c, FALSE, FALSE))
    BY <1>2, <1>5, <2>1, KIs
  <2>4. KDid(c, FALSE, FALSE) \o <<"norm">> = KDid(c, TRUE, FALSE)
    BY <2>1, KSteps
  <2>5. buf'.k = Tensor(i, KDid(c, TRUE, FALSE))
    BY <1>3, <1>4, <2>3, <2>4, KOnce
  <2> QED BY <2>1, <2>2, <2>5, KIs
<1>8. /\ Shapes' /\ buf'.x = i /\ ConvRight(i, D2, E)' /\ RowsRight(i, D2)' /\ SeenRight'
      /\ VRight(i, D2, E)' /\ RelRight(i, D2, E)'
  <2>1. Untouched(i, D, E, 13, b)
    BY <1>1, <1>3, OnlyTensors
  <2> QED BY <1>3, <2>1 DEF Untouched
<1> QED BY <1>6, <1>7, <1>8, Together

LEMMA ScaleQ ==
  ASSUME NEW i, NEW D, NEW E, At(i, D, E), Runs(i, D, Main, 14)
  PROVE  Data(i, D \cup {14}, E)'
<1> DEFINE b == [buf EXCEPT !.q = Did(@, <<"tau">>)]
           D2 == D \cup {14}
<1>0. Progress(D, 14) /\ Has(cfg, 14) /\ Performed(14, i)
  BY MainKnown
<1>1. Tensors(b)
  BY <1>0, Effects
<1>2. /\ cfg' = cfg /\ Shapes /\ QRight(i, D)
  BY Known
<1>3. /\ b.q = Did(buf.q, <<"tau">>) /\ b.k = buf.k /\ b.x = buf.x /\ b.v = buf.v
      /\ b.rel = buf.rel /\ DOMAIN b = DOMAIN buf
  BY <1>2 DEF Shapes
<1>4. buf' = b
  BY <1>1 DEF Tensors
<1> HIDE DEF b
<1>5. /\ 4 \in D \/ 13 \in D
      /\ ~(4 \in D /\ FoldTau(cfg)) /\ 14 \notin D /\ 17 \notin D
      /\ TauFolds(cfg) => ~(4 \in D /\ PrologueQuantQ(cfg))
  <2>1. ApplyTau(cfg) /\ ~(UsesPrologue(cfg) /\ FoldTau(cfg))
    BY <1>0 DEF Has
  <2>2. PrologueQuantQ(cfg) => UsesPrologue(cfg)
    BY DEF PrologueQuantQ
  <2> QED BY <1>0, <2>1, <2>2 DEF Progress, TauFolds
<1>6. QRight(i, D2)'
  <2>1. TauFolds(cfg) => buf.q = Tensor(i, QDid(TRUE, FALSE, FALSE))
    BY <1>2, <1>5, QIs
  <2>2. TauFolds(cfg) => buf'.q = Tensor(i, QDid(TRUE, TRUE, FALSE))
    <3>1. QDid(TRUE, FALSE, FALSE) \o <<"tau">> = QDid(TRUE, TRUE, FALSE)
      BY QSteps
    <3> QED BY <1>3, <1>4, <2>1, <3>1, QOnce
  <2>3. (4 \in D2 \/ 13 \in D2) /\ 14 \in D2 /\ 17 \notin D2
        /\ (TauFolds(cfg) => ~(4 \in D2 /\ PrologueQuantQ(cfg)))
    BY <1>5
  <2> HIDE DEF D2
  <2>4. CASE TauFolds(cfg)
    BY <1>2, <2>2, <2>3, <2>4, QIs
  <2>5. CASE ~TauFolds(cfg)
    BY <1>2, <2>5 DEF QRight
  <2> QED BY <2>4, <2>5
<1>7. /\ Shapes' /\ buf'.x = i /\ ConvRight(i, D2, E)' /\ RowsRight(i, D2)' /\ SeenRight'
      /\ KRight(i, D2)' /\ VRight(i, D2, E)' /\ RelRight(i, D2, E)'
  <2>1. Untouched(i, D, E, 14, b)
    BY <1>1, <1>3, OnlyTensors
  <2> QED BY <1>3, <2>1 DEF Untouched
<1> QED BY <1>6, <1>7, Together

LEMMA QuantQ ==
  ASSUME NEW i, NEW D, NEW E, At(i, D, E), Runs(i, D, Main, 17)
  PROVE  Data(i, D \cup {17}, E)'
<1> DEFINE b == [buf EXCEPT !.q = Did(@, <<"quant">>)]
           D2 == D \cup {17}
<1>0. Progress(D, 17) /\ Has(cfg, 17) /\ Performed(17, i)
  BY MainKnown
<1>1. Tensors(b)
  BY <1>0, Effects
<1>2. /\ cfg' = cfg /\ Shapes /\ QRight(i, D)
  BY Known
<1>3. /\ b.q = Did(buf.q, <<"quant">>) /\ b.k = buf.k /\ b.x = buf.x /\ b.v = buf.v
      /\ b.rel = buf.rel /\ DOMAIN b = DOMAIN buf
  BY <1>2 DEF Shapes
<1>4. buf' = b
  BY <1>1 DEF Tensors
<1> HIDE DEF b
<1> DEFINE t == (4 \in D /\ FoldTau(cfg)) \/ 14 \in D
<1>5. /\ 4 \in D \/ 13 \in D
      /\ 17 \notin D /\ ~(4 \in D /\ PrologueQuantQ(cfg))
      /\ t \in BOOLEAN /\ (t <=> (4 \in D /\ FoldTau(cfg)) \/ 14 \in D)
  BY <1>0 DEF Progress, Has
<1>6. QRight(i, D2)'
  <2>3. (4 \in D2 \/ 13 \in D2) /\ 17 \in D2 /\ (t <=> (4 \in D2 /\ FoldTau(cfg)) \/ 14 \in D2)
    BY <1>5
  <2> HIDE DEF D2, t
  <2>1. TauFolds(cfg) => buf.q = Tensor(i, QDid(TRUE, t, FALSE))
    BY <1>2, <1>5, QIs
  <2>2. TauFolds(cfg) => buf'.q = Tensor(i, QDid(TRUE, t, TRUE))
    <3>1. QDid(TRUE, t, FALSE) \o <<"quant">> = QDid(TRUE, t, TRUE)
      BY <1>5, QSteps
    <3> QED BY <1>3, <1>4, <2>1, <3>1, QOnce
  <2> QED BY <1>2, <1>5, <2>2, <2>3, QIs
<1>7. /\ Shapes' /\ buf'.x = i /\ ConvRight(i, D2, E)' /\ RowsRight(i, D2)' /\ SeenRight'
      /\ KRight(i, D2)' /\ VRight(i, D2, E)' /\ RelRight(i, D2, E)'
  <2>1. Untouched(i, D, E, 17, b)
    BY <1>1, <1>3, OnlyTensors
  <2> QED BY <1>3, <2>1 DEF Untouched
<1> QED BY <1>6, <1>7, Together

LEMMA RelProjOnMain ==
  ASSUME NEW i, NEW D, NEW E, At(i, D, E), Runs(i, D, Main, 16)
  PROVE  Data(i, D \cup {16}, E)'
<1> DEFINE b == [buf EXCEPT !.rel = RelProj(cfg)]
           D2 == D \cup {16}
<1>0. Progress(D, 16) /\ Has(cfg, 16) /\ Performed(16, i)
  BY MainKnown
<1>1. Tensors(b)
  BY <1>0, Effects
<1>2. cfg' = cfg /\ Shapes /\ buf.x = i
  BY Known
<1>3. /\ b.q = buf.q /\ b.k = buf.k /\ b.x = buf.x /\ b.v = buf.v
      /\ b.rel = RelProj(cfg) /\ DOMAIN b = DOMAIN buf
  BY <1>2 DEF Shapes
<1>4. buf' = b
  BY <1>1 DEF Tensors
<1> HIDE DEF b
<1>5. RelProj(cfg) = Tensor(i, If(ApplyTau(cfg), <<"tau">>))
  <2>1. <<>> \o If(ApplyTau(cfg), <<"tau">>) = If(ApplyTau(cfg), <<"tau">>)
    BY DEF If
  <2> QED BY <1>2, <2>1, FirstSteps DEF RelProj
<1>6. RelRight(i, D2, E)'
  BY <1>2, <1>3, <1>4, <1>5 DEF RelRight
<1>7. /\ Shapes' /\ buf'.x = i /\ ConvRight(i, D2, E)' /\ RowsRight(i, D2)' /\ SeenRight'
      /\ QRight(i, D2)' /\ KRight(i, D2)' /\ VRight(i, D2, E)'
  <2>1. Untouched(i, D, E, 16, b)
    BY <1>1, <1>3, OnlyTensors
  <2> QED BY <1>3, <2>1 DEF Untouched
<1> QED BY <1>6, <1>7, Together

LEMMA QuantKv ==
  ASSUME NEW i, NEW D, NEW E, At(i, D, E), Runs(i, D, Main, 18)
  PROVE  Data(i, D \cup {18}, E)'
<1> DEFINE b == [buf EXCEPT !.k = Did(@, <<"quant">>), !.v = Did(@, <<"quant">>)]
           D2 == D \cup {18}
<1>0. Progress(D, 18) /\ Has(cfg, 18) /\ Performed(18, i)
  BY MainKnown
<1>1. Tensors(b)
  BY <1>0, Effects
<1>2. /\ cfg' = cfg /\ Shapes /\ KRight(i, D) /\ VRight(i, D, E)
  BY Known
<1>3. /\ b.k = Did(buf.k, <<"quant">>) /\ b.v = Did(buf.v, <<"quant">>) /\ b.x = buf.x /\ b.q = buf.q
      /\ b.rel = buf.rel /\ DOMAIN b = DOMAIN buf
  BY <1>2 DEF Shapes
<1>4. buf' = b
  BY <1>1 DEF Tensors
<1> HIDE DEF b
<1>5. 18 \notin D
  BY <1>0 DEF Progress
<1>6. KRight(i, D2)'
  <2> DEFINE c == 4 \in D \/ 11 \in D
             n == 4 \in D \/ 13 \in D
  <2>1. c \in BOOLEAN /\ (c <=> 4 \in D \/ 11 \in D) /\ n \in BOOLEAN /\ (n <=> 4 \in D \/ 13 \in D)
    OBVIOUS
  <2>2. (c <=> 4 \in D2 \/ 11 \in D2) /\ (n <=> 4 \in D2 \/ 13 \in D2) /\ 18 \in D2
    OBVIOUS
  <2> HIDE DEF c, n, D2
  <2>3. buf.k = Tensor(i, KDid(c, n, FALSE))
    BY <1>2, <1>5, <2>1, KIs
  <2>4. KDid(c, n, FALSE) \o <<"quant">> = KDid(c, n, TRUE)
    BY <2>1, KSteps
  <2>5. buf'.k = Tensor(i, KDid(c, n, TRUE))
    BY <1>3, <1>4, <2>3, <2>4, KOnce
  <2> QED BY <2>1, <2>2, <2>5, KIs
<1>7. VRight(i, D2, E)'
  <2> DEFINE c == 4 \in D \/ 12 \in D \/ 7 \in E
  <2>1. c \in BOOLEAN /\ (c <=> 4 \in D \/ 12 \in D \/ 7 \in E)
    OBVIOUS
  <2>2. (c <=> 4 \in D2 \/ 12 \in D2 \/ 7 \in E) /\ 18 \in D2
    OBVIOUS
  <2> HIDE DEF c, D2
  <2>3. buf.v = Tensor(i, KDid(c, FALSE, FALSE))
    BY <1>2, <1>5, <2>1, VIs
  <2>4. KDid(c, FALSE, FALSE) \o <<"quant">> = KDid(c, FALSE, TRUE)
    BY <2>1, KSteps
  <2>5. buf'.v = Tensor(i, KDid(c, FALSE, TRUE))
    BY <1>3, <1>4, <2>3, <2>4, VOnce
  <2> QED BY <2>1, <2>2, <2>5, VIs
<1>8. /\ Shapes' /\ buf'.x = i /\ ConvRight(i, D2, E)' /\ RowsRight(i, D2)' /\ SeenRight'
      /\ QRight(i, D2)' /\ RelRight(i, D2, E)'
  <2>1. Untouched(i, D, E, 18, b)
    BY <1>1, <1>3, OnlyTensors
  <2> QED BY <1>3, <2>1 DEF Untouched
<1> QED BY <1>6, <1>7, <1>8, Together

-----------------------------------------------------------------------------
(* What stage k of the main stream leaves alone.                           *)
Kept(i, D, E, k) ==
  /\ Shapes' /\ buf'.x = i
  /\ k \notin {4, 13, 14, 17} /\ buf'.q = buf.q => QRight(i, D \cup {k})'
  /\ k \notin {4, 11, 13, 18} /\ buf'.k = buf.k => KRight(i, D \cup {k})'
  /\ k \notin {4, 12, 18} /\ buf'.v = buf.v => VRight(i, D \cup {k}, E)'
  /\ k # 16 /\ buf'.rel = buf.rel => RelRight(i, D \cup {k}, E)'
  /\ k \notin {4, 5, 6, 11, 12} /\ conv' = conv => ConvRight(i, D \cup {k}, E)'
  /\ k \notin {4, 19, 21} /\ rows' = rows => RowsRight(i, D \cup {k})'
  /\ seen' = seen => SeenRight'

LEMMA MainKept ==
  ASSUME NEW i, NEW D, NEW E, At(i, D, E), NEW k, buf'.x = buf.x, DOMAIN buf' = DOMAIN buf,
         DOMAIN rows' = DOMAIN rows, DOMAIN seen' = DOMAIN seen
  PROVE  Kept(i, D, E, k)
<1>1. /\ cfg' = cfg /\ Shapes /\ buf.x = i /\ QRight(i, D) /\ KRight(i, D) /\ VRight(i, D, E)
      /\ RelRight(i, D, E) /\ ConvRight(i, D, E) /\ RowsRight(i, D) /\ SeenRight
  BY Known
<1>2. Shapes' /\ buf'.x = i
  BY <1>1 DEF Shapes
<1>3. k \notin {4, 13, 14, 17} /\ buf'.q = buf.q => QRight(i, D \cup {k})'
  BY <1>1, QKept
<1>4. k \notin {4, 11, 13, 18} /\ buf'.k = buf.k => KRight(i, D \cup {k})'
  BY <1>1, KKept
<1>5. k \notin {4, 12, 18} /\ buf'.v = buf.v => VRight(i, D \cup {k}, E)'
  BY <1>1, VKept
<1>6. k # 16 /\ buf'.rel = buf.rel => RelRight(i, D \cup {k}, E)'
  BY <1>1, RelKept
<1>7. k \notin {4, 5, 6, 11, 12} /\ conv' = conv => ConvRight(i, D \cup {k}, E)'
  BY <1>1, ConvKept
<1>8. k \notin {4, 19, 21} /\ rows' = rows => RowsRight(i, D \cup {k})'
  BY <1>1, RowsKept
<1>9. seen' = seen => SeenRight'
  BY <1>1, SeenKept
<1> QED BY <1>2, <1>3, <1>4, <1>5, <1>6, <1>7, <1>8, <1>9 DEF Kept

(* One update of the state of k, or of v.                                  *)
Moves(i, t, a, b, u) ==
  conv[i] = [k |-> a, v |-> b] /\ conv' = [conv EXCEPT ![i][t] = Append(@, u)]
Moved(i, a, b) == conv' = [conv EXCEPT ![i] = [k |-> a, v |-> b]]

LEMMA KMoves ==
  ASSUME NEW i, NEW b, NEW u, Moves(i, "k", <<>>, b, u)
  PROVE  Moved(i, <<u>>, b)
<1> DEFINE e == Append(<<>>, u)
<1>1. e = <<u>>
  OBVIOUS
<1>2. conv' = [conv EXCEPT ![i] = [conv[i] EXCEPT !["k"] = Append(conv[i]["k"], u)]]
  BY DEF Moves
<1>3. conv[i] = [k |-> <<>>, v |-> b] /\ Append(conv[i]["k"], u) = e
  BY DEF Moves
<1> HIDE DEF e
<1>4. [[k |-> <<>>, v |-> b] EXCEPT !["k"] = e] = [k |-> e, v |-> b]
  OBVIOUS
<1> QED BY <1>1, <1>2, <1>3, <1>4 DEF Moved

LEMMA VMoves ==
  ASSUME NEW i, NEW a, NEW u, Moves(i, "v", a, <<>>, u)
  PROVE  Moved(i, a, <<u>>)
<1> DEFINE e == Append(<<>>, u)
<1>1. e = <<u>>
  OBVIOUS
<1>2. conv' = [conv EXCEPT ![i] = [conv[i] EXCEPT !["v"] = Append(conv[i]["v"], u)]]
  BY DEF Moves
<1>3. conv[i] = [k |-> a, v |-> <<>>] /\ Append(conv[i]["v"], u) = e
  BY DEF Moves
<1> HIDE DEF e
<1>4. [[k |-> a, v |-> <<>>] EXCEPT !["v"] = e] = [k |-> a, v |-> e]
  OBVIOUS
<1> QED BY <1>1, <1>2, <1>3, <1>4 DEF Moved

(* A convolution kernel of the main stream, and of the alternate stream.   *)
LEMMA KSconv ==
  ASSUME NEW i, NEW D, NEW E, At(i, D, E), Runs(i, D, Main, 11)
  PROVE  Data(i, D \cup {11}, E)'
<1> DEFINE D2 == D \cup {11}
<1>0. Progress(D, 11) /\ Has(cfg, 11) /\ Performed(11, i)
  BY MainKnown
<1>1. Sconv(cfg, i, "k")
  BY <1>0, Effects
<1>2. /\ cfg' = cfg /\ Shapes /\ buf.x = i /\ QRight(i, D) /\ KRight(i, D) /\ VRight(i, D, E)
      /\ RelRight(i, D, E) /\ ConvRight(i, D, E) /\ RowsRight(i, D) /\ SeenRight /\ i \in 1 .. Calls
  BY Known
<1>3. ~UsesPrologue(cfg) /\ cfg.kvConv /\ \A l \in {4, 5, 6, 11, 12, 13, 18} : l \notin D
  BY <1>0 DEF Progress, Has
<1>4. buf.k = Tensor(i, KDid(FALSE, FALSE, FALSE))
  BY <1>2, <1>3, KIs
<1> DEFINE c == 7 \in E
<1>5. c \in BOOLEAN /\ (c <=> PrologueUpdates(D) \/ 6 \in D \/ 12 \in D \/ 7 \in E)
      /\ (c <=> PrologueUpdates(D2) \/ 6 \in D2 \/ 12 \in D2 \/ 7 \in E) /\ ~PrologueUpdates(D)
  BY <1>3 DEF PrologueUpdates
<1> HIDE DEF c
<1>6. conv[i] = [k |-> <<>>, v |-> Advanced(c, i)]
  <2>1. conv[i] = [k |-> Advanced(FALSE, i), v |-> Advanced(c, i)]
    BY <1>2, <1>3, <1>5, ConvIs
  <2> QED BY <2>1, Unconvolved
<1>7. /\ buf'.k = Conv(buf.k, <<>>) /\ buf'.q = buf.q /\ buf'.v = buf.v /\ buf'.x = buf.x
      /\ buf'.rel = buf.rel /\ DOMAIN buf' = DOMAIN buf /\ rows' = rows /\ seen' = seen
  BY <1>1, <1>2, <1>6 DEF Sconv, Shapes
<1>8. KRight(i, D2)'
  <2>1. buf'.k = Tensor(i, KDid(TRUE, FALSE, FALSE))
    BY <1>4, <1>7, Unconvolved
  <2>2. 11 \in D2 /\ 4 \notin D2 /\ 13 \notin D2 /\ 18 \notin D2
    BY <1>3
  <2> HIDE DEF D2
  <2> QED BY <2>1, <2>2, KIs
<1>9. ConvRight(i, D2, E)'
  <2>1. buf["k"].call = i
    BY <1>4, Fields
  <2> DEFINE u == [kind |-> UpdateOf(cfg.mode), call |-> i]
  <2>2. conv' = [conv EXCEPT ![i]["k"] = Append(@, u)]
    BY <1>1, <2>1 DEF Sconv
  <2>3. Advanced(TRUE, i) = <<u>>
    BY DEF Advanced, If
  <2> HIDE DEF u
  <2>6. conv' = [conv EXCEPT ![i] = [k |-> Advanced(TRUE, i), v |-> Advanced(c, i)]]
    <3>1. Moves(i, "k", <<>>, Advanced(c, i), u)
      BY <1>6, <2>2 DEF Moves
    <3> QED BY <2>3, <3>1, KMoves DEF Moved
  <2>7. 11 \in D2
    OBVIOUS
  <2> HIDE DEF D2
  <2> QED BY <1>2, <1>5, <2>6, <2>7, ConvBecomes
<1>10. /\ Shapes' /\ buf'.x = i /\ QRight(i, D2)' /\ VRight(i, D2, E)' /\ RelRight(i, D2, E)'
       /\ RowsRight(i, D2)' /\ SeenRight'
  <2>1. Kept(i, D, E, 11)
    BY <1>7, MainKept
  <2> QED BY <1>7, <2>1 DEF Kept
<1> QED BY <1>8, <1>9, <1>10, Together

LEMMA VSconvOnMain ==
  ASSUME NEW i, NEW D, NEW E, At(i, D, E), Runs(i, D, Main, 12)
  PROVE  Data(i, D \cup {12}, E)'
<1> DEFINE D2 == D \cup {12}
<1>0. Progress(D, 12) /\ Has(cfg, 12) /\ Performed(12, i)
  BY MainKnown
<1>1. Sconv(cfg, i, "v")
  BY <1>0, Effects
<1>2. /\ cfg' = cfg /\ Shapes /\ buf.x = i /\ QRight(i, D) /\ KRight(i, D) /\ VRight(i, D, E)
      /\ RelRight(i, D, E) /\ ConvRight(i, D, E) /\ RowsRight(i, D) /\ SeenRight /\ i \in 1 .. Calls
      /\ Behind(D, E)
  BY Known
<1>3. /\ ~UsesPrologue(cfg) /\ ~UsesAlt(cfg) /\ cfg.kvConv
      /\ \A l \in {4, 5, 6, 12, 18} : l \notin D
      /\ 7 \notin E
  BY <1>0, <1>2 DEF Progress, Has, Overlaps, Behind
<1>4. buf.v = Tensor(i, KDid(FALSE, FALSE, FALSE))
  BY <1>2, <1>3, VIs
<1> DEFINE c == 11 \in D
<1>5. c \in BOOLEAN /\ (c <=> PrologueUpdates(D) \/ 5 \in D \/ 11 \in D)
      /\ (c <=> PrologueUpdates(D2) \/ 5 \in D2 \/ 11 \in D2) /\ ~PrologueUpdates(D)
  BY <1>3 DEF PrologueUpdates
<1> HIDE DEF c
<1>6. conv[i] = [k |-> Advanced(c, i), v |-> <<>>]
  <2>1. conv[i] = [k |-> Advanced(c, i), v |-> Advanced(FALSE, i)]
    BY <1>2, <1>3, <1>5, ConvIs
  <2> QED BY <2>1, Unconvolved
<1>7. /\ buf'.v = Conv(buf.v, <<>>) /\ buf'.q = buf.q /\ buf'.k = buf.k /\ buf'.x = buf.x
      /\ buf'.rel = buf.rel /\ DOMAIN buf' = DOMAIN buf /\ rows' = rows /\ seen' = seen
  BY <1>1, <1>2, <1>6 DEF Sconv, Shapes
<1>8. VRight(i, D2, E)'
  <2>1. buf'.v = Tensor(i, KDid(TRUE, FALSE, FALSE))
    BY <1>4, <1>7, Unconvolved
  <2>2. 12 \in D2 /\ 18 \notin D2
    BY <1>3
  <2> HIDE DEF D2
  <2> QED BY <2>1, <2>2, VIs
<1>9. ConvRight(i, D2, E)'
  <2>1. buf["v"].call = i
    BY <1>4, Fields
  <2> DEFINE u == [kind |-> UpdateOf(cfg.mode), call |-> i]
  <2>2. conv' = [conv EXCEPT ![i]["v"] = Append(@, u)]
    BY <1>1, <2>1 DEF Sconv
  <2>3. Advanced(TRUE, i) = <<u>>
    BY DEF Advanced, If
  <2> HIDE DEF u
  <2>6. conv' = [conv EXCEPT ![i] = [k |-> Advanced(c, i), v |-> Advanced(TRUE, i)]]
    <3>1. Moves(i, "v", Advanced(c, i), <<>>, u)
      BY <1>6, <2>2 DEF Moves
    <3>2. Moved(i, Advanced(c, i), <<u>>)
      BY <3>1, VMoves
    <3> QED BY <2>3, <3>2 DEF Moved
  <2>7. 12 \in D2
    OBVIOUS
  <2> HIDE DEF D2
  <2> QED BY <1>2, <1>5, <2>6, <2>7, ConvBecomes
<1>10. /\ Shapes' /\ buf'.x = i /\ QRight(i, D2)' /\ KRight(i, D2)' /\ RelRight(i, D2, E)'
       /\ RowsRight(i, D2)' /\ SeenRight'
  <2>1. Kept(i, D, E, 12)
    BY <1>7, MainKept
  <2> QED BY <1>7, <2>1 DEF Kept
<1> QED BY <1>8, <1>9, <1>10, Together

(* The accept-gated updates behind the prologue of a draft extend.         *)
LEMMA Updates ==
  ASSUME NEW i, NEW D, NEW E, At(i, D, E), NEW k \in {5, 6}, Runs(i, D, Main, k)
  PROVE  Data(i, D \cup {k}, E)'
<1> DEFINE D2 == D \cup {k}
<1>a. k \in 1 .. 22 /\ k \notin {4, 11, 12, 13, 14, 16, 17, 18, 19, 21}
  OBVIOUS
<1>0. Progress(D, k) /\ Has(cfg, k) /\ Performed(k, i)
  BY <1>a, MainKnown
<1>1. (k = 5 => Update(i, "k")) /\ (k = 6 => Update(i, "v"))
  BY <1>0, Effects
<1>2. /\ cfg' = cfg /\ Shapes /\ buf.x = i /\ QRight(i, D) /\ KRight(i, D) /\ VRight(i, D, E)
      /\ RelRight(i, D, E) /\ ConvRight(i, D, E) /\ RowsRight(i, D) /\ SeenRight /\ i \in 1 .. Calls
      /\ Behind(D, E)
  BY Known
<1>3. /\ UsesPrologue(cfg) /\ cfg.mode = "draft_extend" /\ 11 \notin D /\ 12 \notin D /\ 7 \notin E
      /\ 6 \notin D /\ (5 \in D <=> k = 6)
  <2>1. UsesPrologue(cfg) /\ cfg.mode = "draft_extend"
    BY <1>0 DEF Has
  <2>2. CASE k = 5
    BY <1>0, <1>2, <2>1, <2>2 DEF Progress, Behind, Overlaps, UsesAlt
  <2>3. CASE k = 6
    BY <1>0, <1>2, <2>1, <2>3 DEF Progress, Behind, Overlaps, UsesAlt
  <2> QED BY <2>1, <2>2, <2>3
<1>4. buf' = buf /\ rows' = rows /\ seen' = seen
  BY <1>1 DEF Update
<1>5. ~PrologueUpdates(D) /\ ~PrologueUpdates(D2)
  BY <1>3 DEF PrologueUpdates
<1> DEFINE u == [kind |-> "accepted", call |-> i]
<1>6. Advanced(TRUE, i) = <<u>>
  BY <1>3 DEF Advanced, If, UpdateOf
<1>8. /\ k = 5 => conv' = [conv EXCEPT ![i]["k"] = Append(@, u)]
      /\ k = 6 => conv' = [conv EXCEPT ![i]["v"] = Append(@, u)]
  BY <1>1, <1>2 DEF Update
<1> HIDE DEF u
<1>9. ASSUME k = 5 PROVE ConvRight(i, D2, E)'
  <2>1. conv[i] = [k |-> <<>>, v |-> <<>>]
    <3>1. conv[i] = [k |-> Advanced(FALSE, i), v |-> Advanced(FALSE, i)]
      BY <1>2, <1>3, <1>5, <1>9, ConvIs
    <3> QED BY <3>1, Unconvolved
  <2>3. conv' = [conv EXCEPT ![i] = [k |-> Advanced(TRUE, i), v |-> Advanced(FALSE, i)]]
    <3>1. Moves(i, "k", <<>>, <<>>, u)
      BY <1>8, <1>9, <2>1 DEF Moves
    <3> QED BY <1>6, <3>1, KMoves, Unconvolved DEF Moved
  <2>4. 5 \in D2 /\ 6 \notin D2 /\ 12 \notin D2
    BY <1>3, <1>9
  <2> HIDE DEF D2
  <2>5. ConvRight(i, D2, E)'
    BY <1>2, <1>3, <1>5, <2>3, <2>4, ConvBecomes
  <2> QED BY <2>5
<1>10. ASSUME k = 6 PROVE ConvRight(i, D2, E)'
  <2>1. conv[i] = [k |-> Advanced(TRUE, i), v |-> <<>>]
    <3>1. conv[i] = [k |-> Advanced(TRUE, i), v |-> Advanced(FALSE, i)]
      BY <1>2, <1>3, <1>5, <1>10, ConvIs
    <3> QED BY <3>1, Unconvolved
  <2>3. conv' = [conv EXCEPT ![i] = [k |-> Advanced(TRUE, i), v |-> Advanced(TRUE, i)]]
    <3>1. Moves(i, "v", Advanced(TRUE, i), <<>>, u)
      BY <1>8, <1>10, <2>1 DEF Moves
    <3>2. Moved(i, Advanced(TRUE, i), <<u>>)
      BY <3>1, VMoves
    <3> QED BY <1>6, <3>2 DEF Moved
  <2>4. 5 \in D2 /\ 6 \in D2
    BY <1>3, <1>10
  <2> HIDE DEF D2
  <2>5. ConvRight(i, D2, E)'
    BY <1>2, <2>3, <2>4, ConvBecomes
  <2> QED BY <2>5
<1>11. /\ Shapes' /\ buf'.x = i /\ QRight(i, D2)' /\ KRight(i, D2)' /\ VRight(i, D2, E)'
       /\ RelRight(i, D2, E)' /\ RowsRight(i, D2)' /\ SeenRight'
  <2>1. Kept(i, D, E, k)
    BY <1>4, MainKept
  <2> QED BY <1>a, <1>4, <2>1 DEF Kept
<1>12. ConvRight(i, D2, E)'
  BY <1>9, <1>10
<1> QED BY <1>11, <1>12, Together

LEMMA VSconvOnAlt ==
  ASSUME NEW i, NEW D, NEW E, At(i, D, E), Runs(i, E, Alt, 7)
  PROVE  Data(i, D, E \cup {7})'
<1> DEFINE E2 == E \cup {7}
<1>0. Performed(7, i) /\ 7 \in Alt /\ 7 \notin E /\ Has(cfg, 7)
  BY DEF Runs, Alt, Stages
<1>1. Sconv(cfg, i, "v")
  BY <1>0, Effects
<1>2. /\ cfg' = cfg /\ Shapes /\ buf.x = i /\ QRight(i, D) /\ KRight(i, D) /\ VRight(i, D, E)
      /\ RelRight(i, D, E) /\ ConvRight(i, D, E) /\ RowsRight(i, D) /\ SeenRight /\ i \in 1 .. Calls
      /\ Behind(D, E) /\ i > 0
  BY Known
<1>3. /\ 4 \notin D /\ 6 \notin D /\ 12 \notin D /\ 18 \notin D
  <2>1. UsesAlt(cfg) /\ cfg.kvConv
    BY <1>0 DEF Has
  <2>2. ~UsesPrologue(cfg) /\ Overlaps(cfg)
    BY <2>1 DEF UsesAlt, Overlaps
  <2>3. 4 \notin Main /\ 6 \notin Main /\ 12 \notin Main /\ 15 \in Main
    <3>1. \A l \in {4, 6, 12, 15} : l \in Main <=> Has(cfg, l)
      BY DEF Main, Stages, OnAlt
    <3>2. ~Has(cfg, 4) /\ ~Has(cfg, 6) /\ ~Has(cfg, 12) /\ Has(cfg, 15)
      BY <2>1, <2>2 DEF Has
    <3> QED BY <3>1, <3>2
  <2>4. Segment(D, Main)
    BY DEF At
  <2>5. 15 \notin D
    BY <1>0, <1>2, <2>1 DEF Behind
  <2> QED BY <2>3, <2>4, <2>5 DEF Segment
<1>4. buf.v = Tensor(i, KDid(FALSE, FALSE, FALSE))
  BY <1>0, <1>2, <1>3, VIs
<1> DEFINE c == PrologueUpdates(D) \/ 5 \in D \/ 11 \in D
<1>5. c \in BOOLEAN /\ (c <=> PrologueUpdates(D) \/ 5 \in D \/ 11 \in D) /\ ~PrologueUpdates(D)
  BY <1>3 DEF PrologueUpdates
<1> HIDE DEF c
<1>6. conv[i] = [k |-> Advanced(c, i), v |-> <<>>]
  <2>1. conv[i] = [k |-> Advanced(c, i), v |-> Advanced(FALSE, i)]
    BY <1>0, <1>2, <1>3, <1>5, ConvIs
  <2> QED BY <2>1, Unconvolved
<1>7. /\ buf'.v = Conv(buf.v, <<>>) /\ buf'.q = buf.q /\ buf'.k = buf.k /\ buf'.x = buf.x
      /\ buf'.rel = buf.rel /\ DOMAIN buf' = DOMAIN buf /\ rows' = rows /\ seen' = seen
  BY <1>1, <1>2, <1>6 DEF Sconv, Shapes
<1>8. VRight(i, D, E2)'
  <2>1. buf'.v = Tensor(i, KDid(TRUE, FALSE, FALSE))
    BY <1>4, <1>7, Unconvolved
  <2>2. 7 \in E2
    OBVIOUS
  <2> HIDE DEF E2
  <2> QED BY <1>3, <2>1, <2>2, VIs
<1>9. ConvRight(i, D, E2)'
  <2>1. buf["v"].call = i
    BY <1>4, Fields
  <2> DEFINE u == [kind |-> UpdateOf(cfg.mode), call |-> i]
  <2>2. conv' = [conv EXCEPT ![i]["v"] = Append(@, u)]
    BY <1>1, <2>1 DEF Sconv
  <2>3. Advanced(TRUE, i) = <<u>>
    BY DEF Advanced, If
  <2> HIDE DEF u
  <2>6. conv' = [conv EXCEPT ![i] = [k |-> Advanced(c, i), v |-> Advanced(TRUE, i)]]
    <3>1. Moves(i, "v", Advanced(c, i), <<>>, u)
      BY <1>6, <2>2 DEF Moves
    <3>2. Moved(i, Advanced(c, i), <<u>>)
      BY <3>1, VMoves
    <3> QED BY <2>3, <3>2 DEF Moved
  <2>7. 7 \in E2
    OBVIOUS
  <2> HIDE DEF E2
  <2> QED BY <1>2, <1>5, <2>6, <2>7, ConvBecomes
<1>10. /\ Shapes' /\ buf'.x = i /\ QRight(i, D)' /\ KRight(i, D)' /\ RowsRight(i, D)' /\ SeenRight'
       /\ RelRight(i, D, E2)'
  <2>1. Data(i, D, E)
    BY DEF At
  <2>2. 7 # 9
    OBVIOUS
  <2> QED BY <1>2, <1>7, <2>1, <2>2, AltKept
<1> QED BY <1>8, <1>9, <1>10, Together

LEMMA RelProjOnAlt ==
  ASSUME NEW i, NEW D, NEW E, At(i, D, E), Runs(i, E, Alt, 9)
  PROVE  Data(i, D, E \cup {9})'
<1>0. Performed(9, i)
  BY DEF Runs
<1>1. Tensors([buf EXCEPT !.rel = RelProj(cfg)])
  BY <1>0, Effects
<1>2. cfg' = cfg /\ Shapes /\ buf.x = i /\ i > 0
  BY Known
<1>3. /\ buf'.q = buf.q /\ buf'.k = buf.k /\ buf'.x = buf.x /\ buf'.v = buf.v
      /\ buf'.rel = RelProj(cfg) /\ DOMAIN buf' = DOMAIN buf /\ conv' = conv /\ rows' = rows /\ seen' = seen
  BY <1>1, <1>2 DEF Shapes, Tensors
<1>4. RelProj(cfg) = Tensor(i, If(ApplyTau(cfg), <<"tau">>))
  <2>1. <<>> \o If(ApplyTau(cfg), <<"tau">>) = If(ApplyTau(cfg), <<"tau">>)
    BY DEF If
  <2> QED BY <1>2, <2>1, FirstSteps DEF RelProj
<1>5. RelRight(i, D, E \cup {9})'
  BY <1>2, <1>3, <1>4 DEF RelRight
<1>6. /\ Shapes' /\ buf'.x = i /\ QRight(i, D)' /\ KRight(i, D)' /\ RowsRight(i, D)' /\ SeenRight'
      /\ VRight(i, D, E \cup {9})' /\ ConvRight(i, D, E \cup {9})'
  <2>1. Data(i, D, E)
    BY DEF At
  <2>2. 9 # 7
    OBVIOUS
  <2> QED BY <1>2, <1>3, <2>1, <2>2, AltKept
<1> QED BY <1>5, <1>6, Together

-----------------------------------------------------------------------------
(* The rows of the current call.                                           *)
LEMMA NotStored ==
  ASSUME NEW i \in 1 .. Calls, NEW D, RowsRight(i, D), ~StoredBy(D)
  PROVE  rows[i] = <<>>
BY DEF RowsRight, If

LEMMA RowsBecome ==
  ASSUME NEW i \in 1 .. Calls, NEW D, NEW D2, RowsRight(i, D), cfg' = cfg, Shapes,
         NEW b \in BOOLEAN, b <=> StoredBy(D2), NEW r, r = If(b, <<OwedRow(i)>>),
         rows' = [rows EXCEPT ![i] = r]
  PROVE  RowsRight(i, D2)'
<1>1. StoredBy(D2)' <=> b
  BY DEF StoredBy
<1>2. ASSUME NEW c \in 1 .. Calls, c >= i
      PROVE  rows'[c] = If(c = i /\ StoredBy(D2)', <<OwedRow(c)>>)
  <2>1. CASE c = i
    BY <1>1, <2>1 DEF Shapes, If
  <2>2. CASE c # i
    <3>1. rows'[c] = rows[c] /\ rows[c] = If(c = i /\ StoredBy(D), <<OwedRow(c)>>)
      BY <1>2, <2>2 DEF RowsRight, Shapes
    <3> QED BY <2>2, <3>1 DEF If
  <2> QED BY <2>1, <2>2
<1> QED BY <1>2, OwedKept DEF RowsRight

(* The fused prologue.                                                     *)
LEMMA Prologue ==
  ASSUME NEW i, NEW D, NEW E, At(i, D, E), Runs(i, D, Main, 4)
  PROVE  Data(i, D \cup {4}, E)'
<1> DEFINE D2 == D \cup {4}
<1>0. Progress(D, 4) /\ Has(cfg, 4) /\ Performed(4, i)
  BY MainKnown
<1>1. RunPrologue(cfg, i)
  BY <1>0, Effects
<1>2. /\ cfg' = cfg /\ Shapes /\ buf.x = i /\ QRight(i, D) /\ KRight(i, D) /\ VRight(i, D, E)
      /\ RelRight(i, D, E) /\ ConvRight(i, D, E) /\ RowsRight(i, D) /\ SeenRight /\ i \in 1 .. Calls
      /\ Behind(D, E) /\ cfg.kvConv \in BOOLEAN
  BY Known
<1>3. /\ UsesPrologue(cfg) /\ cfg.kvConv
      /\ \A l \in {4, 5, 6, 11, 12, 13, 14, 17, 18, 19, 21} : l \notin D
      /\ 7 \notin E
  <2>1. UsesPrologue(cfg)
    BY <1>0 DEF Has
  <2>2. ~UsesAlt(cfg) /\ cfg.kvConv
    BY <2>1 DEF UsesAlt, UsesPrologue
  <2> QED BY <1>0, <1>2, <2>1, <2>2 DEF Progress, Behind
<1>4. buf.k = Tensor(i, KDid(FALSE, FALSE, FALSE)) /\ buf.v = Tensor(i, KDid(FALSE, FALSE, FALSE))
  BY <1>2, <1>3, KIs, VIs
<1>5. conv[i] = [k |-> <<>>, v |-> <<>>]
  <2>1. ~PrologueUpdates(D)
    BY <1>3 DEF PrologueUpdates
  <2>2. conv[i] = [k |-> Advanced(FALSE, i), v |-> Advanced(FALSE, i)]
    BY <1>2, <1>3, <2>1, ConvIs
  <2> QED BY <2>2, Unconvolved
<1> DEFINE k == Did(Conv(buf.k, conv[i].k), <<"norm">>)
           v == Conv(buf.v, conv[i].v)
           s == <<"norm">> \o If(FoldTau(cfg), <<"tau">>) \o If(PrologueQuantQ(cfg), <<"quant">>)
           u == If(cfg.mode # "draft_extend", <<[kind |-> UpdateOf(cfg.mode), call |-> buf.x]>>)
           r == If(DoStore(cfg), <<RowOf(cfg, k, v, SubPool(cfg))>>)
<1>a. conv[i].k = <<>> /\ conv[i].v = <<>>
  BY <1>5
<1>b. Conv(buf.k, conv[i].k) = Tensor(i, KDid(TRUE, FALSE, FALSE))
  BY <1>4, <1>a, Unconvolved
<1>6. v = Tensor(i, KDid(TRUE, FALSE, FALSE))
  BY <1>4, <1>a, Unconvolved
<1>7. k = Tensor(i, KDid(TRUE, TRUE, FALSE))
  <2> DEFINE d == KDid(TRUE, FALSE, FALSE)
             e == KDid(TRUE, TRUE, FALSE)
             n == <<"norm">>
  <2>1. d \o n = e
    BY KSteps
  <2>2. Conv(buf.k, conv[i].k) = Tensor(i, d)
    BY <1>b
  <2> HIDE DEF d, e, n
  <2>3. Did(Tensor(i, d), n) = Tensor(i, e)
    BY <2>1, Grown
  <2> QED BY <2>2, <2>3 DEF d, e, n
<1>8. /\ buf' = [buf EXCEPT !.k = k, !.v = v, !.q = Did(@, s)]
      /\ conv' = [conv EXCEPT ![i] = [k |-> conv[i].k \o u, v |-> conv[i].v \o u]]
      /\ rows' = [rows EXCEPT ![i] = rows[i] \o r]
      /\ seen' = seen
  BY <1>1 DEF RunPrologue
<1> HIDE DEF k, v, s
<1>9. /\ buf'.k = k /\ buf'.v = v /\ buf'.q = Did(buf.q, s) /\ buf'.x = buf.x /\ buf'.rel = buf.rel
      /\ DOMAIN buf' = DOMAIN buf /\ DOMAIN rows' = DOMAIN rows /\ DOMAIN seen' = DOMAIN seen
  BY <1>2, <1>8 DEF Shapes
<1>10. QRight(i, D2)'
  <2> DEFINE t == FoldTau(cfg)
             q == PrologueQuantQ(cfg)
  <2>1. /\ t \in BOOLEAN /\ (t <=> (4 \in D2 /\ FoldTau(cfg)) \/ 14 \in D2)
        /\ q \in BOOLEAN /\ (q <=> (4 \in D2 /\ PrologueQuantQ(cfg)) \/ 17 \in D2)
        /\ 4 \in D2
    BY <1>3 DEF FoldTau, PrologueQuantQ
  <2>2. s = <<"norm">> \o If(t, <<"tau">>) \o If(q, <<"quant">>)
    BY DEF s
  <2> HIDE DEF t, q, D2
  <2>3. TauFolds(cfg) => buf.q = Tensor(i, QDid(FALSE, FALSE, FALSE))
    BY <1>2, <1>3, QIs
  <2>4. QDid(FALSE, FALSE, FALSE) \o s = QDid(TRUE, t, q)
    BY <2>1, <2>2, QSteps
  <2>5. TauFolds(cfg) => buf'.q = Tensor(i, QDid(TRUE, t, q))
    BY <1>9, <2>3, <2>4, QOnce
  <2> QED BY <1>2, <2>1, <2>5, QIs
<1>11. KRight(i, D2)' /\ VRight(i, D2, E)'
  <2>1. 4 \in D2 /\ 18 \notin D2
    BY <1>3
  <2> HIDE DEF D2
  <2>2. buf'.k = Tensor(i, KDid(TRUE, TRUE, FALSE)) /\ buf'.v = Tensor(i, KDid(TRUE, FALSE, FALSE))
    BY <1>6, <1>7, <1>9
  <2> QED BY <2>1, <2>2, KIs, VIs
<1>12. ConvRight(i, D2, E)'
  <2> DEFINE a == cfg.mode # "draft_extend"
  <2>1. /\ a \in BOOLEAN /\ (a <=> PrologueUpdates(D2) \/ 5 \in D2 \/ 11 \in D2)
        /\ (a <=> PrologueUpdates(D2) \/ 6 \in D2 \/ 12 \in D2 \/ 7 \in E)
    BY <1>3 DEF PrologueUpdates
  <2>2. u = Advanced(a, i)
    BY <1>2 DEF Advanced
  <2> HIDE DEF a
  <2>3. <<>> \o Advanced(a, i) = Advanced(a, i)
    BY DEF Advanced, If
  <2>4. conv' = [conv EXCEPT ![i] = [k |-> Advanced(a, i), v |-> Advanced(a, i)]]
    BY <1>8, <1>a, <2>2, <2>3
  <2> HIDE DEF D2
  <2> QED BY <1>2, <2>1, <2>4, ConvBecomes
<1>13. RowsRight(i, D2)'
  <2> DEFINE b == DoStore(cfg)
  <2>1. b \in BOOLEAN /\ (b <=> StoredBy(D2))
    BY <1>3 DEF StoredBy, DoStore, DoBf16Store, DoMxfp8Store
  <2>2. RowOf(cfg, k, v, SubPool(cfg)) = OwedRow(i)
    <3> DEFINE c == TRUE
               q == FALSE
    <3>1. c \in BOOLEAN /\ q \in BOOLEAN /\ (c <=> cfg.kvConv) /\ (q => cfg.kvDtype # "bf16")
          /\ c = TRUE /\ q = FALSE
      BY <1>3
    <3> HIDE DEF c, q
    <3>2. RowOf(cfg, Tensor(i, KDid(c, TRUE, q)), Tensor(i, KDid(c, FALSE, q)), SubPool(cfg)) = OwedRow(i)
      BY <1>2, <3>1, RowOwed
    <3> QED BY <1>6, <1>7, <3>1, <3>2
  <2>3. rows[i] = <<>>
    BY <1>2, <1>3, NotStored DEF StoredBy
  <2>4. r = If(b, <<OwedRow(i)>>)
    BY <2>2
  <2> HIDE DEF b, r
  <2>5. <<>> \o r = r
    BY <2>4 DEF If
  <2>6. rows' = [rows EXCEPT ![i] = r]
    BY <1>8, <2>3, <2>5
  <2> HIDE DEF D2
  <2> QED BY <1>2, <2>1, <2>4, <2>6, RowsBecome
<1>14. Shapes' /\ buf'.x = i /\ RelRight(i, D2, E)' /\ SeenRight'
  <2>1. Kept(i, D, E, 4)
    BY <1>9, MainKept
  <2> QED BY <1>8, <1>9, <2>1 DEF Kept
<1> QED BY <1>10, <1>11, <1>12, <1>13, <1>14, Together

(* The backend's store, before or after the join.                          *)
LEMMA Store ==
  ASSUME NEW i, NEW D, NEW E, At(i, D, E), NEW k \in {19, 21}, Runs(i, D, Main, k)
  PROVE  Data(i, D \cup {k}, E)'
<1> DEFINE D2 == D \cup {k}
<1>a. k \in 1 .. 22 /\ k \notin {4, 5, 6, 11, 12, 13, 14, 16, 17, 18}
  OBVIOUS
<1>0. Progress(D, k) /\ Has(cfg, k) /\ Performed(k, i)
  BY <1>a, MainKnown
<1>1. Stores(i)
  <2>1. CASE k = 19
    BY <1>0, <2>1, Effects
  <2>2. CASE k = 21
    BY <1>0, <2>2, Effects
  <2> QED BY <2>1, <2>2
<1>2. /\ cfg' = cfg /\ Shapes /\ buf.x = i /\ KRight(i, D) /\ VRight(i, D, E)
      /\ RowsRight(i, D) /\ i \in 1 .. Calls /\ Behind(D, E) /\ cfg.kvConv \in BOOLEAN
  BY Known
<1>3. /\ ~PrologueStored(cfg) /\ 19 \notin D /\ 21 \notin D
      /\ 4 \in D <=> UsesPrologue(cfg)
      /\ 11 \in D <=> ~UsesPrologue(cfg) /\ cfg.kvConv
      /\ 12 \in D <=> ~Overlaps(cfg) /\ cfg.kvConv
      /\ 13 \in D <=> ~UsesPrologue(cfg)
      /\ 15 \in D <=> UsesAlt(cfg)
      /\ 18 \in D <=> Prequantized(cfg)
  <2>1. CASE k = 19
    BY <1>0, <2>1 DEF Progress, Has
  <2>2. CASE k = 21
    BY <1>0, <2>2 DEF Progress, Has
  <2> QED BY <2>1, <2>2
<1> DEFINE c == cfg.kvConv
           q == Prequantized(cfg)
<1>4. /\ c \in BOOLEAN /\ (c <=> cfg.kvConv) /\ q \in BOOLEAN /\ (q <=> 18 \in D)
      /\ (q => cfg.kvDtype # "bf16")
  BY <1>2, <1>3 DEF Prequantized
<1>5. /\ c <=> 4 \in D \/ 11 \in D
      /\ c <=> 4 \in D \/ 12 \in D \/ 7 \in E
      /\ 4 \in D \/ 13 \in D
  <2>1. UsesPrologue(cfg) => cfg.kvConv
    BY DEF UsesPrologue
  <2>2. 7 \in E <=> UsesAlt(cfg) /\ cfg.kvConv
    BY <1>2, <1>3 DEF Behind
  <2>3. UsesAlt(cfg) => ~UsesPrologue(cfg)
    BY DEF UsesAlt
  <2> QED BY <1>3, <2>1, <2>2, <2>3 DEF Overlaps
<1> HIDE DEF c, q
<1>6. buf.k = Tensor(i, KDid(c, TRUE, q)) /\ buf.v = Tensor(i, KDid(c, FALSE, q))
  <2>1. buf.k = Tensor(i, KDid(c, TRUE, q))
    <3> DEFINE n == TRUE
    <3>1. n \in BOOLEAN /\ (n <=> 4 \in D \/ 13 \in D) /\ n = TRUE
      BY <1>5
    <3> HIDE DEF n
    <3>2. c \in BOOLEAN /\ q \in BOOLEAN /\ (q <=> 18 \in D) /\ (c <=> 4 \in D \/ 11 \in D)
      BY <1>4, <1>5
    <3>3. KRight(i, D)
      BY <1>2
    <3>4. KRight(i, D) => buf.k = Tensor(i, KDid(c, n, q))
      BY <3>1, <3>2, KIs
    <3> QED BY <3>1, <3>3, <3>4
  <2>2. buf.v = Tensor(i, KDid(c, FALSE, q))
    BY <1>2, <1>4, <1>5, VIs
  <2> QED BY <2>1, <2>2
<1>7. RowOf(cfg, buf.k, buf.v, SubPool(cfg)) = OwedRow(i)
  BY <1>2, <1>4, <1>6, RowOwed
<1>8. rows[i] = <<>>
  <2>1. ~StoredBy(D)
    BY <1>3 DEF StoredBy, PrologueStored
  <2> QED BY <1>2, <2>1, NotStored
<1>9. RowsRight(i, D2)'
  <2> DEFINE b == TRUE
             r == <<OwedRow(i)>>
  <2>1. b \in BOOLEAN /\ (b <=> StoredBy(D2)) /\ r = If(b, <<OwedRow(i)>>)
    BY DEF StoredBy, If
  <2>2. Append(<<>>, OwedRow(i)) = r
    OBVIOUS
  <2>3. rows' = [rows EXCEPT ![i] = r]
    BY <1>1, <1>7, <1>8, <2>2 DEF Stores
  <2> HIDE DEF b, r, D2
  <2> QED BY <1>2, <2>1, <2>3, RowsBecome
<1>10. /\ buf' = buf /\ conv' = conv /\ seen' = seen /\ DOMAIN rows' = DOMAIN rows
  BY <1>1 DEF Stores
<1>11. /\ Shapes' /\ buf'.x = i /\ QRight(i, D2)' /\ KRight(i, D2)' /\ VRight(i, D2, E)'
       /\ RelRight(i, D2, E)' /\ ConvRight(i, D2, E)' /\ SeenRight'
  <2>1. Kept(i, D, E, k)
    BY <1>10, MainKept
  <2> QED BY <1>a, <1>10, <2>1 DEF Kept
<1> QED BY <1>9, <1>11, Together

(* What the attention of a call is given.                                  *)
LEMMA Attention ==
  ASSUME NEW i, NEW D, NEW E, At(i, D, E), Runs(i, D, Main, 22)
  PROVE  Data(i, D \cup {22}, E)'
<1> DEFINE D2 == D \cup {22}
<1>0. Progress(D, 22) /\ Has(cfg, 22) /\ Performed(22, i)
  BY MainKnown
<1>1. Attends(i)
  BY <1>0, Effects
<1>2. /\ cfg' = cfg /\ Shapes /\ buf.x = i /\ QRight(i, D) /\ RelRight(i, D, E)
      /\ RowsRight(i, D) /\ SeenRight /\ i \in 1 .. Calls /\ Behind(D, E)
  BY Known
<1>3. rows[i] = <<OwedRow(i)>>
  <2>1. StoredBy(D)
    BY <1>0 DEF Progress, StoredBy, PrologueStored
  <2>2. rows[i] = If(i = i /\ StoredBy(D), <<OwedRow(i)>>)
    <3>1. i >= i
      BY <1>2
    <3> QED BY <1>2, <3>1 DEF RowsRight
  <2> QED BY <2>1, <2>2 DEF If
<1>4. buf.rel = Tensor(i, If(ApplyTau(cfg), <<"tau">>))
  <2>1. 16 \in D \/ 9 \in E
    BY <1>0, <1>2 DEF Progress, Behind
  <2> QED BY <1>2, <2>1 DEF RelRight
<1>5. TauFolds(cfg) => buf.q = OwedQ(i)
  <2> DEFINE t == ApplyTau(cfg)
             q == cfg.backend = "fa4" /\ cfg.kvDtype = "mxfp8"
  <2>1. t \in BOOLEAN /\ (t <=> ApplyTau(cfg)) /\ (t <=> (4 \in D /\ FoldTau(cfg)) \/ 14 \in D)
    <3>1. t \in BOOLEAN
      <4>1. cfg \in Settings
        BY DEF At
      <4>2. cfg.tau \in BOOLEAN
        BY <4>1 DEF Settings
      <4> QED BY <4>2 DEF ApplyTau
    <3> QED BY <1>0, <3>1 DEF Progress, FoldTau
  <2>2. /\ q \in BOOLEAN /\ (q <=> cfg.backend = "fa4" /\ cfg.kvDtype = "mxfp8")
        /\ (q <=> (4 \in D /\ PrologueQuantQ(cfg)) \/ 17 \in D)
    BY <1>0 DEF Progress, PrologueQuantQ, DoMxfp8Store
  <2>3. 4 \in D \/ 13 \in D
    BY <1>0 DEF Progress
  <2> HIDE DEF t, q
  <2>4. TauFolds(cfg) => buf.q = Tensor(i, QDid(TRUE, t, q))
    BY <1>2, <2>1, <2>2, <2>3, QIs
  <2>5. OwedQ(i) = Tensor(i, QDid(TRUE, t, q))
    BY <2>1, <2>2, QOwed
  <2> QED BY <2>4, <2>5
<1> DEFINE w == [q |-> buf.q, rel |-> buf.rel, rows |-> rows[i]]
<1>6. w.q = buf.q /\ w.rel = buf.rel /\ w.rows = rows[i]
  OBVIOUS
<1>7. seen' = [seen EXCEPT ![i] = w] /\ buf' = buf /\ conv' = conv /\ rows' = rows
  BY <1>1 DEF Attends
<1> HIDE DEF w
<1>8. SeenRight'
  <2>1. ASSUME NEW c \in 1 .. Calls, seen'[c] # <<>>
        PROVE  /\ seen'[c].rows = <<OwedRow(c)>>
               /\ seen'[c].rel = Tensor(c, If(ApplyTau(cfg), <<"tau">>))
               /\ TauFolds(cfg) => seen'[c].q = OwedQ(c)
    <3>1. CASE c = i
      <4>1. seen'[c] = w
        BY <1>2, <1>7, <3>1 DEF Shapes
      <4> QED BY <1>3, <1>4, <1>5, <1>6, <3>1, <4>1
    <3>2. CASE c # i
      <4>1. seen'[c] = seen[c]
        BY <1>7, <3>2
      <4> QED BY <1>2, <2>1, <4>1 DEF SeenRight
    <3> QED BY <3>1, <3>2
  <2> QED BY <1>2, <2>1, OwedKept DEF SeenRight
<1>9. /\ Shapes' /\ buf'.x = i /\ QRight(i, D2)' /\ KRight(i, D2)' /\ VRight(i, D2, E)'
      /\ RelRight(i, D2, E)' /\ ConvRight(i, D2, E)' /\ RowsRight(i, D2)'
  <2>0. DOMAIN seen' = DOMAIN seen
    BY <1>7
  <2>1. Kept(i, D, E, 22)
    BY <1>7, <2>0, MainKept
  <2> QED BY <1>7, <2>1 DEF Kept
<1> QED BY <1>8, <1>9, Together

-----------------------------------------------------------------------------
(* A finished call has convolved what it had to.                           *)
LEMMA Convolved ==
  ASSUME NEW i
  PROVE  /\ KUpdated(i, i, Main) <=> cfg.kvConv
         /\ VUpdated(i, i, Main, Alt) <=> cfg.kvConv
<1>1. \A k \in {4, 5, 6, 11, 12} : k \in Main <=> Has(cfg, k)
  BY DEF Main, Stages, OnAlt
<1>2. 7 \in Alt <=> Has(cfg, 7)
  BY DEF Alt, Stages, OnAlt
<1>3. /\ Has(cfg, 4) <=> UsesPrologue(cfg)
      /\ Has(cfg, 5) <=> UsesPrologue(cfg) /\ cfg.mode = "draft_extend"
      /\ Has(cfg, 6) <=> UsesPrologue(cfg) /\ cfg.mode = "draft_extend"
      /\ Has(cfg, 7) <=> UsesAlt(cfg) /\ cfg.kvConv
      /\ Has(cfg, 11) <=> ~UsesPrologue(cfg) /\ cfg.kvConv
      /\ Has(cfg, 12) <=> ~Overlaps(cfg) /\ cfg.kvConv
  BY DEF Has
<1>4. (UsesPrologue(cfg) => cfg.kvConv) /\ (UsesAlt(cfg) => ~UsesPrologue(cfg))
  BY DEF UsesPrologue, UsesAlt
<1>5. /\ 4 \in Main <=> UsesPrologue(cfg)
      /\ 5 \in Main <=> UsesPrologue(cfg) /\ cfg.mode = "draft_extend"
      /\ 6 \in Main <=> UsesPrologue(cfg) /\ cfg.mode = "draft_extend"
      /\ 11 \in Main <=> ~UsesPrologue(cfg) /\ cfg.kvConv
      /\ 12 \in Main <=> ~Overlaps(cfg) /\ cfg.kvConv
      /\ 7 \in Alt <=> UsesAlt(cfg) /\ cfg.kvConv
  BY <1>1, <1>2, <1>3
<1> QED BY <1>4, <1>5 DEF KUpdated, VUpdated, PrologueUpdates, Overlaps

LEMMA NextUpdates ==
  ASSUME NEW i \in Nat, NEW c \in Nat, cfg.kvConv \in BOOLEAN
  PROVE  /\ KUpdated(c, i + 1, {1}) <=> KUpdated(c, i, Main)
         /\ VUpdated(c, i + 1, {1}, {}) <=> VUpdated(c, i, Main, Alt)
<1>1. CASE c = i
  <2>1. c # i + 1 /\ c < i + 1
    BY <1>1
  <2> QED BY <1>1, <2>1, Convolved DEF KUpdated, VUpdated
<1>2. CASE c = i + 1
  <2>1. c # i /\ ~(c < i)
    BY <1>2
  <2> QED BY <1>2, <2>1 DEF KUpdated, VUpdated, PrologueUpdates
<1>3. CASE c # i /\ c # i + 1
  <2>1. c < i <=> c < i + 1
    BY <1>3
  <2> QED BY <1>3, <2>1 DEF KUpdated, VUpdated
<1> QED BY <1>1, <1>2, <1>3

LEMMA SameUpdates ==
  ASSUME NEW a, NEW b, a <=> b, NEW c
  PROVE  Advanced(a, c) = Advanced(b, c)
BY DEF Advanced, If

(* A call begins: its own projections replace those of the last one.       *)
LEMMA Beginning ==
  ASSUME NEW i \in Nat, cfg \in Settings, cfg' = cfg, Data(i, Main, Alt), Begins(i, Main, Alt)
  PROVE  Data(i + 1, {1}, {})'
<1> DEFINE n == i + 1
           b == [buf EXCEPT !.x = n, !.q = Fresh(n), !.k = Fresh(n), !.v = Fresh(n)]
           D == {1}
           E == {}
<1>1. n \in 1 .. Calls /\ Tensors(b) /\ Calls \in Nat
  BY Effects, AttnAssumption DEF Begins
<1>2. Shapes /\ ConvRight(i, Main, Alt) /\ RowsRight(i, Main) /\ SeenRight /\ cfg.kvConv \in BOOLEAN
  BY DEF Data, Settings
<1>3. \A l \in {4, 5, 6, 7, 9, 11, 12, 13, 14, 16, 17, 18, 19, 21} : l \notin D /\ l \notin E
  OBVIOUS
<1>4. /\ buf' = b /\ b.x = n /\ b.q = Fresh(n) /\ b.k = Fresh(n) /\ b.v = Fresh(n)
      /\ DOMAIN b = DOMAIN buf /\ conv' = conv /\ rows' = rows /\ seen' = seen
  BY <1>1, <1>2 DEF Tensors, Shapes
<1>5. Fresh(n) = Tensor(n, KDid(FALSE, FALSE, FALSE)) /\ Fresh(n) = Tensor(n, QDid(FALSE, FALSE, FALSE))
  BY New, KSteps, QSteps
<1> HIDE DEF b, D, E
<1>6. QRight(n, D)' /\ KRight(n, D)' /\ VRight(n, D, E)'
  <2>1. QRight(n, D)'
    BY <1>3, <1>4, <1>5, QIs
  <2>2. KRight(n, D)'
    BY <1>3, <1>4, <1>5, KIs
  <2>3. VRight(n, D, E)'
    BY <1>3, <1>4, <1>5, VIs
  <2> QED BY <2>1, <2>2, <2>3
<1>7. RelRight(n, D, E)'
  BY <1>3 DEF RelRight
<1>8. ConvRight(n, D, E)'
  <2>1. ASSUME NEW c \in 1 .. Calls
        PROVE  conv'[c] = [k |-> Advanced(KUpdated(c, n, D), c)', v |-> Advanced(VUpdated(c, n, D, E), c)']
    <3>1. (KUpdated(c, n, D) <=> KUpdated(c, i, Main)) /\ (VUpdated(c, n, D, E) <=> VUpdated(c, i, Main, Alt))
      BY <1>1, <1>2, NextUpdates DEF D, E
    <3>2. /\ Advanced(KUpdated(c, n, D), c) = Advanced(KUpdated(c, i, Main), c)
          /\ Advanced(VUpdated(c, n, D, E), c) = Advanced(VUpdated(c, i, Main, Alt), c)
      BY <3>1, SameUpdates
    <3>3. /\ Advanced(KUpdated(c, n, D), c)' = Advanced(KUpdated(c, n, D), c)
          /\ Advanced(VUpdated(c, n, D, E), c)' = Advanced(VUpdated(c, n, D, E), c)
      BY DEF Advanced, KUpdated, VUpdated, PrologueUpdates
    <3>4. conv'[c] = [k |-> Advanced(KUpdated(c, i, Main), c), v |-> Advanced(VUpdated(c, i, Main, Alt), c)]
      BY <1>2, <1>4 DEF ConvRight
    <3> QED BY <3>2, <3>3, <3>4
  <2>2. conv' = [c \in 1 .. Calls |-> conv'[c]]
    BY <1>2, <1>4 DEF ConvRight
  <2> QED BY <2>1, <2>2 DEF ConvRight
<1>9. RowsRight(n, D)'
  <2>1. ~StoredBy(D)'
    BY <1>3 DEF StoredBy
  <2>2. ASSUME NEW c \in 1 .. Calls, c >= n
        PROVE  rows'[c] = If(c = n /\ StoredBy(D)', <<OwedRow(c)>>')
    <3>1. c >= i /\ c # i
      BY <2>2
    <3>2. rows[c] = If(c = i /\ StoredBy(Main), <<OwedRow(c)>>)
      BY <1>2, <3>1 DEF RowsRight
    <3> QED BY <1>4, <2>1, <3>1, <3>2 DEF If
  <2> QED BY <2>2 DEF RowsRight
<1>10. SeenRight'
  BY <1>2, <1>4, SeenKept
<1>11. Shapes' /\ buf'.x = n
  BY <1>2, <1>4 DEF Shapes
<1>12. Data(n, D, E)'
  BY <1>6, <1>7, <1>8, <1>9, <1>10, <1>11, Together
<1> QED BY <1>12 DEF D, E

(* The host and the initial state.                                         *)
LEMMA InitData == ASSUME Init PROVE Data(0, Main, Alt)
<1>1. Calls \in Nat /\ ~(0 > 0)
  BY AttnAssumption
<1>2. Shapes
  BY DEF Init, Shapes
<1>3. ConvRight(0, Main, Alt)
  <2>1. ASSUME NEW c \in 1 .. Calls
        PROVE  Advanced(KUpdated(c, 0, Main), c) = <<>> /\ Advanced(VUpdated(c, 0, Main, Alt), c) = <<>>
    <3>1. c # 0 /\ ~(c < 0)
      BY <1>1
    <3> QED BY <3>1 DEF KUpdated, VUpdated, Advanced, If
  <2> QED BY <2>1 DEF Init, ConvRight
<1>4. RowsRight(0, Main)
  <2>1. ASSUME NEW c \in 1 .. Calls PROVE rows[c] = If(c = 0 /\ StoredBy(Main), <<OwedRow(c)>>)
    <3>1. c # 0
      BY <1>1
    <3> QED BY <3>1 DEF Init, If
  <2> QED BY <2>1 DEF RowsRight
<1>5. SeenRight
  BY DEF Init, SeenRight
<1> QED BY <1>1, <1>2, <1>3, <1>4, <1>5 DEF Data

LEMMA DataKept ==
  ASSUME NEW i, NEW D, NEW E, Data(i, D, E), UNCHANGED <<cfg, buf, conv, rows, seen>>
  PROVE  Data(i, D, E)'
<1>1. Shapes' /\ SeenRight' /\ (i > 0 => Tensors5(i, D, E)')
  BY SeenKept DEF Data, Shapes, Tensors5, QRight, KRight, VRight, RelRight
<1>2. ConvRight(i, D, E)'
  <2>1. \A c : /\ Advanced(KUpdated(c, i, D), c)' = Advanced(KUpdated(c, i, D), c)
               /\ Advanced(VUpdated(c, i, D, E), c)' = Advanced(VUpdated(c, i, D, E), c)
    BY DEF Advanced, KUpdated, VUpdated, PrologueUpdates
  <2> QED BY <2>1 DEF Data, ConvRight
<1>3. RowsRight(i, D)'
  BY OwedKept DEF Data, RowsRight, StoredBy
<1> QED BY <1>1, <1>2, <1>3 DEF Data
-----------------------------------------------------------------------------
(* Every stage of the main stream, and of the alternate stream.            *)
LEMMA MainData ==
  ASSUME NEW i, NEW D, NEW E, At(i, D, E), 1 \in D, NEW k \in 1 .. 22, Runs(i, D, Main, k)
  PROVE  Data(i, D \cup {k}, E)'
<1>1. k # 1 /\ k \notin {3, 7, 8, 9, 10}
  BY MainStages DEF Runs
<1>2. CASE k \in {2, 15, 20}
  BY <1>2, MainEvents
<1>3. CASE k = 4
  BY <1>3, Prologue
<1>4. CASE k \in {5, 6}
  BY <1>4, Updates
<1>5. CASE k = 11
  BY <1>5, KSconv
<1>6. CASE k = 12
  BY <1>6, VSconvOnMain
<1>7. CASE k = 13
  BY <1>7, QkNorm
<1>8. CASE k = 14
  BY <1>8, ScaleQ
<1>9. CASE k = 16
  BY <1>9, RelProjOnMain
<1>10. CASE k = 17
  BY <1>10, QuantQ
<1>11. CASE k = 18
  BY <1>11, QuantKv
<1>12. CASE k \in {19, 21}
  BY <1>12, Store
<1>13. CASE k = 22
  BY <1>13, Attention
<1> QED BY <1>1, <1>2, <1>3, <1>4, <1>5, <1>6, <1>7, <1>8, <1>9, <1>10, <1>11, <1>12, <1>13

LEMMA AltData ==
  ASSUME NEW i, NEW D, NEW E, At(i, D, E), NEW k \in 1 .. 22, Runs(i, E, Alt, k)
  PROVE  Data(i, D, E \cup {k})'
<1>1. k \in {3, 7, 8, 9, 10}
  BY MainStages DEF Runs
<1>2. CASE k \in {3, 8, 10}
  BY <1>2, AltEvents
<1>3. CASE k = 7
  BY <1>3, VSconvOnAlt
<1>4. CASE k = 9
  BY <1>4, RelProjOnAlt
<1> QED BY <1>1, <1>2, <1>3, <1>4

(* The inductive invariant.                                                *)
IInv == Typed /\ \E i, D, E : Place(i, D, E) /\ Data(i, D, E)

LEMMA InvInit == Init => IInv
BY InitPlace, InitData DEF IInv

LEMMA InvNext == IInv /\ [Next]_vars => IInv'
<1> SUFFICES ASSUME IInv, [Next]_vars PROVE IInv'
  OBVIOUS
<1>1. Typed
  BY DEF IInv
<1>2. PICK i, D, E : Place(i, D, E) /\ Data(i, D, E)
  BY DEF IInv
<1>3. cfg \in Settings /\ i \in Nat
  BY <1>1, <1>2, AttnAssumption DEF Typed, Place
<1>4. CASE Issue
  <2>1. Typed' /\ Place(i, D, E)'
    BY <1>1, <1>2, <1>4, IssuePlace
  <2>2. Data(i, D, E)'
    BY <1>2, <1>4, DataKept DEF Issue
  <2> QED BY <2>1, <2>2 DEF IInv
<1>5. CASE Step("main")
  <2>1. Typed' /\ cfg' = cfg
    BY <1>1, <1>5, StepQueue DEF Streams
  <2>2. ASSUME NEW k \in 1 .. 22, Runs(i, D, Main, k), Place(i, D \cup {k}, E)'
        PROVE  IInv'
    <3>1. At(i, D, E) /\ 1 \in D
      <4>1. i \in 1 .. Calls /\ i # 0
        BY <1>3, <2>2 DEF Runs
      <4> QED BY <1>2, <1>3, <2>1, <4>1 DEF At, Place
    <3>2. Data(i, D \cup {k}, E)'
      BY <2>2, <3>1, MainData
    <3> QED BY <2>1, <2>2, <3>2 DEF IInv
  <2>3. ASSUME Begins(i, D, E), Place(i + 1, {1}, {})'
        PROVE  IInv'
    <3>1. D = Main /\ E = Alt
      BY <2>3 DEF Begins
    <3>2. Data(i + 1, {1}, {})'
      BY <1>2, <1>3, <2>1, <2>3, <3>1, Beginning
    <3> QED BY <2>1, <2>3, <3>2 DEF IInv
  <2> QED BY <1>1, <1>2, <1>5, <2>2, <2>3, MainStep
<1>6. CASE Step("alt")
  <2>1. Typed' /\ cfg' = cfg
    BY <1>1, <1>6, StepQueue DEF Streams
  <2>2. PICK k \in 1 .. 22 : Runs(i, E, Alt, k) /\ Place(i, D, E \cup {k})'
    BY <1>1, <1>2, <1>6, AltStep
  <2>3. At(i, D, E)
    <3>1. i \in 1 .. Calls
      BY <2>2 DEF Runs
    <3> QED BY <1>2, <1>3, <2>1, <3>1 DEF At, Place
  <2>4. Data(i, D, E \cup {k})'
    BY <2>2, <2>3, AltData
  <2> QED BY <2>1, <2>2, <2>4 DEF IInv
<1>7. CASE UNCHANGED vars
  <2>1. Typed' /\ Place(i, D, E)'
    BY <1>1, <1>2, <1>7 DEF vars, Typed, Place, Main, Alt, Recorded
  <2>2. Data(i, D, E)'
    BY <1>2, <1>7, DataKept DEF vars
  <2> QED BY <2>1, <2>2 DEF IInv
<1> QED BY <1>4, <1>5, <1>6, <1>7 DEF Next, Streams

(* At every moment the device is at some place of some call, and the       *)
(* tensors, the convolution state and the rows are what that place says.   *)
THEOREM ForwardInvariant == Spec => []IInv
BY InvInit, InvNext, PTL DEF Spec
-----------------------------------------------------------------------------
LEMMA InvSeen == IInv => SeenRight
BY DEF IInv, Data

LEMMA OwnRows == IInv => StoredOnce
BY InvSeen DEF SeenRight, StoredOnce

LEMMA OwnOperands ==
  ASSUME \A c \in Configs : TauFolds(c)
  PROVE  IInv => AttendsOwnOperands
<1> SUFFICES ASSUME IInv, NEW i \in 1 .. Calls, seen[i] # <<>>
             PROVE  /\ seen[i].q = OwedQ(i)
                    /\ seen[i].rel = Did(Fresh(i), If(cfg.tau /\ ~cfg.local, <<"tau">>))
  BY DEF AttendsOwnOperands
<1>1. TauFolds(cfg)
  BY DEF IInv, Typed
<1>2. seen[i].q = OwedQ(i) /\ seen[i].rel = Tensor(i, If(ApplyTau(cfg), <<"tau">>))
  BY <1>1, InvSeen DEF SeenRight
<1> DEFINE s == If(ApplyTau(cfg), <<"tau">>)
<1>3. <<>> \o s = s
  BY DEF If
<1>4. If(cfg.tau /\ ~cfg.local, <<"tau">>) = s
  BY DEF ApplyTau
<1> HIDE DEF s
<1>5. Did(Fresh(i), s) = Tensor(i, s)
  BY <1>3, FirstSteps
<1> QED BY <1>2, <1>4, <1>5 DEF s

LEMMA AllConvolved == IInv => ConvAdvancedOnce
<1> SUFFICES ASSUME IInv, Finished PROVE ConvAdvancedOnce
  BY DEF ConvAdvancedOnce
<1>1. PICK i, D, E : Place(i, D, E) /\ Data(i, D, E)
  BY DEF IInv
<1>2. Typed /\ issued = Calls /\ queue["main"] = <<>> /\ issued \in Nat /\ i \in Nat /\ i <= issued
  BY <1>1, AttnAssumption DEF IInv, Typed, Place, Finished, Streams
<1>3. D = Main /\ i = Calls
  <2>1. Main \in SUBSET (1 .. 22) /\ 1 \in Main /\ Segment(D, Main)
    BY <1>1, MainStages DEF Place
  <2>2. Lists(<<>>, Entry, Pending(i, D, issued, Main))
    BY <1>1, <1>2 DEF Place
  <2> QED BY <1>2, <2>1, <2>2, NothingLeft
<1>4. E = Alt
  BY <1>1, <1>3, AltThrough DEF Place
<1>5. ASSUME NEW c \in 1 .. Calls
      PROVE  conv[c] = [k |-> Advanced(cfg.kvConv, c), v |-> Advanced(cfg.kvConv, c)]
  <2>1. (KUpdated(c, i, D) <=> cfg.kvConv) /\ (VUpdated(c, i, D, E) <=> cfg.kvConv)
    <3>1. CASE c = i
      BY <1>3, <1>4, <3>1, Convolved
    <3>2. CASE c # i
      <4>1. c < i
        BY <1>2, <1>3, <3>2
      <4> QED BY <3>2, <4>1 DEF KUpdated, VUpdated
    <3> QED BY <3>1, <3>2
  <2>2. /\ Advanced(KUpdated(c, i, D), c) = Advanced(cfg.kvConv, c)
        /\ Advanced(VUpdated(c, i, D, E), c) = Advanced(cfg.kvConv, c)
    BY <2>1, SameUpdates
  <2>3. conv[c] = [k |-> Advanced(KUpdated(c, i, D), c), v |-> Advanced(VUpdated(c, i, D, E), c)]
    BY <1>1 DEF Data, ConvRight
  <2> QED BY <2>2, <2>3
<1>6. ASSUME NEW c \in 1 .. Calls, NEW t \in {"k", "v"}
      PROVE  conv[c][t] = Advanced(cfg.kvConv, c)
  <2> DEFINE w == Advanced(cfg.kvConv, c)
  <2>1. conv[c] = [k |-> w, v |-> w]
    BY <1>5
  <2> HIDE DEF w
  <2>2. conv[c]["k"] = w /\ conv[c]["v"] = w
    BY <2>1
  <2>3. CASE t = "k"
    BY <2>2, <2>3 DEF w
  <2>4. CASE t = "v"
    BY <2>2, <2>4 DEF w
  <2> QED BY <2>3, <2>4
<1> QED BY <1>6 DEF ConvAdvancedOnce, Advanced

(* The attention of a call reads rows that were stored once, by the        *)
(* prologue or by the backend, with everything done to them that the pool  *)
(* and the layer ask for.                                                  *)
THEOREM RowsStoredOnce == Spec => []StoredOnce
BY ForwardInvariant, OwnRows, PTL

(* Once all calls are through, each has updated the convolution state of k *)
(* and of v once, whichever kernel of whichever stream did it.             *)
THEOREM ConvAdvances == Spec => []ConvAdvancedOnce
BY ForwardInvariant, AllConvolved, PTL

(* The attention of a call gets the query and the relative logits of that  *)
(* call, not those of the next one the host has already issued, provided   *)
(* the log scaling is folded wherever the prologue quantizes the query.    *)
THEOREM OperandsOwn ==
  ASSUME \A c \in Configs : TauFolds(c)
  PROVE  Spec => []AttendsOwnOperands
BY ForwardInvariant, OwnOperands, PTL
=============================================================================
