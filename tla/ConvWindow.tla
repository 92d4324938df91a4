----------------------------- MODULE ConvWindow -----------------------------
(***************************************************************************)
(* The sliding window of a short convolution, and the two ways the code    *)
(* moves it.  A ShortConvolution of kernel size W keeps, per cache slot,   *)
(* the last W - 1 PRE-convolution inputs of the sequence that owns it      *)
(* (patches/files/sconv.py).  What those inputs are is immaterial here:    *)
(* Inputs is any set that can tell an accepted token from a rejected one.  *)
(***************************************************************************)
EXTENDS Integers, Sequences

CONSTANTS
  Inputs,     \* the pre-convolution inputs a token can have
  StateLen,   \* W - 1, the conv_state_len of the code
  Zero,       \* the causal padding in front of the first token
  Stale       \* whatever a buffer holds that its reader has not written

ASSUME StateLenAssumption == StateLen \in Nat \ {0}
ASSUME CellAssumption == Zero \notin Inputs /\ Stale \notin Inputs \cup {Zero}

Cell == Inputs \cup {Zero, Stale}
Window == [1..StateLen -> Cell]

ZeroWindow  == [i \in 1..StateLen |-> Zero]
StaleWindow == [i \in 1..StateLen |-> Stale]

(***************************************************************************)
(* What a slot SHOULD hold after the inputs h: the last W - 1 of them,     *)
(* padded with zeros in front.                                             *)
(***************************************************************************)
WindowOf(h) ==
  [i \in 1..StateLen |->
     IF Len(h) + i > StateLen THEN h[Len(h) + i - StateLen] ELSE Zero]

(***************************************************************************)
(* What the kernels compute: the window at position n of the virtual       *)
(* padded sequence  win \o xs, read cell by cell and never materialised.   *)
(***************************************************************************)
WindowAt(win, xs, n) ==
  [i \in 1..StateLen |->
     IF n + i <= StateLen THEN win[n + i] ELSE xs[n + i - StateLen]]

(***************************************************************************)
(* What a convolution that takes one token at a time does to its state,    *)
(* and the state it is left with after the tokens xs.                      *)
(***************************************************************************)
ShiftIn(win, x) ==
  [i \in 1..StateLen |-> IF i < StateLen THEN win[i + 1] ELSE x]

FeedAll(win, xs) ==
  LET after[k \in 0..Len(xs)] ==
        IF k = 0 THEN win ELSE ShiftIn(after[k - 1], xs[k])
  IN  after[Len(xs)]
=============================================================================
