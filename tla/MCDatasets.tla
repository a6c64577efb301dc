------------------------------- MODULE MCDatasets -------------------------------
(* Two uploads of one dataset that overlap, and two calls that ingest them.   *)
EXTENDS Datasets, TLC

CONSTANTS d1, v1, v2, c1, c2, c3, w1, w2

OneDataset == [v \in Version |-> d1]

\* A completion, the reuse of its key for the other version, and another key.
TwoUploads == c1 :> [key |-> "k1", version |-> v1]
           @@ c2 :> [key |-> "k1", version |-> v2]
           @@ c3 :> [key |-> "k2", version |-> v2]

WorkerSymmetry == Permutations(Worker)
=============================================================================
