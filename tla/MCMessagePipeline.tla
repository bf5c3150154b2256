------------------------- MODULE MCMessagePipeline -------------------------
(***************************************************************************)
(* Instances of MessagePipeline for TLC.                                   *)
(***************************************************************************)
EXTENDS MessagePipeline, TLC

CONSTANTS r1, r2, w1, w2

TwoHosts == w1 :> r1 @@ w2 :> r2
=============================================================================
