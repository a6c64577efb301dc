--------------------------- MODULE MCSemanticMemory ---------------------------
(* The columns a user confirms as the meaning of "revenue", in their order.   *)
(* The version has no documents: its memory is what the user confirms.        *)
EXTENDS SemanticMemory

CONSTANTS colA, colB

TwoAnswers == <<colA, colB>>

\* Faults and retrievals are looked at apart: no call fails while a retrieval is
\* under way or its result cached, and none begins after a fault.  A definition
\* settles or not whether it is retrieved, and what a fault leaves undone a late
\* job leaves undone as well; the proof of CacheCurrent has both at once.
Apart == faults = 0 \/ (cache = None /\ \A r \in Reader : reader[r] = NoRetrieval)

ApartSpec ==
  MemoryInit /\ [][MemoryNext /\ Apart']_memoryVars /\ MemoryFairness
=============================================================================
