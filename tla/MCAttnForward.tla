--------------------------- MODULE MCAttnForward ----------------------------
(***************************************************************************)
(* AttnForward over the settings that reach different code.                *)
(***************************************************************************)
EXTENDS AttnForward

(* A switch is off where no branch looks at it: the triton lane has no     *)
(* overlap, capture matters to the unfused FA4 path only, the fused MXFP8  *)
(* store to MXFP8 pools only, the layout to a prologue.  Layers without    *)
(* convolutions are one case.                                              *)
Distinct ==
  {c \in Settings :
     /\ ~c.kvConv => c.mode = "decode" /\ ~c.fusedPrologue /\ ~c.local
     /\ c.backend = "triton" =>
          /\ ~c.fusedPrologue /\ ~c.sheared /\ ~c.fusedStore
          /\ c.altStream /\ ~c.capture
     /\ ~c.layout => c.fusedPrologue /\ c.kvDtype # "fp4"
     /\ c.fusedPrologue => ~c.capture /\ c.altStream
     /\ c.capture => c.altStream
     /\ c.kvDtype # "mxfp8" => ~c.fusedStore
     /\ ~c.tau => ~c.fusedTau}

(* The log scaling left out of a prologue that quantizes the query is a    *)
(* case of its own: see the README.                                        *)
Reachable == {c \in Distinct : TauFolds(c)}
=============================================================================
