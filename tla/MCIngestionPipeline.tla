--------------------------- MODULE MCIngestionPipeline ---------------------------
(* One upload behind its queue, with two calls of one or two processes.       *)
EXTENDS IngestionPipeline, TLC

CONSTANTS d1, v1, c1, w1, w2

OneDataset == v1 :> d1

OneUpload == c1 :> [key |-> "k1", version |-> v1]
=============================================================================
