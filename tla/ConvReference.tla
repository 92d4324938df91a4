--------------------------- MODULE ConvReference ----------------------------
(***************************************************************************)
(* What the short-convolution cache promises to a request: it behaves as   *)
(* if the request's tokens had been fed to the convolution one at a time,  *)
(* from an empty state, with no speculation, no batching, no chunking, no  *)
(* slot reuse and no prefix cache.  A step feeds a run of tokens to some   *)
(* requests; a request may also end, which forgets its tokens.             *)
(***************************************************************************)
EXTENDS ConvWindow, SequencesExt

CONSTANT Reqs

VARIABLES
  ctx,    \* the tokens each request has consumed, as inputs
  win     \* the convolution state of each request

refVars == <<ctx, win>>

Init ==
  /\ ctx = [r \in Reqs |-> << >>]
  /\ win = [r \in Reqs |-> ZeroWindow]

Feed(S) ==
  /\ \A r \in S :
       LET old == Len(ctx[r])
           new == SubSeq(ctx'[r], old + 1, Len(ctx'[r]))
       IN  /\ IsStrictPrefix(ctx[r], ctx'[r])
           /\ win'[r] = FeedAll(win[r], new)
  /\ \A r \in Reqs \ S : ctx'[r] = ctx[r] /\ win'[r] = win[r]

End(r) ==
  /\ ctx' = [ctx EXCEPT ![r] = << >>]
  /\ win' = [win EXCEPT ![r] = ZeroWindow]

Next ==
  \/ \E S \in SUBSET Reqs : Feed(S)
  \/ \E r \in Reqs : End(r)

Spec == Init /\ [][Next]_refVars
=============================================================================
