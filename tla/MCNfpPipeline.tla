--------------------------- MODULE MCNfpPipeline ---------------------------
(***************************************************************************)
(* A small instance of NfpPipeline: two threads compete for the ring of    *)
(* stage 1 and two for that of stage 3; stage 2 has two replicas, over     *)
(* which the two threads of stage 1 take turns on their own.               *)
(***************************************************************************)
EXTENDS NfpPipeline

SmallReplicas == [s \in Stages |-> IF s = 2 THEN 2 ELSE 1]

SmallContexts == [s \in Stages |-> IF s \in {1, 3} THEN 2 ELSE 1]
=============================================================================
