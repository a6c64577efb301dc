--------------------------- MODULE MCPrivacyDeletion ---------------------------
(* One dataset that may be added, two workers of the privacy queue, and one   *)
(* writer.                                                                     *)
EXTENDS PrivacyDeletion

\* A writer makes a store non-empty late; the fault that may use up the attempts
\* of a job is looked at without it.  The proofs of ErasedOnceDeleted and
\* AuditedOnce have both at once, and RetriesErase is not about what is stored.
Apart == faults < Attempts \/ (late = {} /\ \A x \in Writer : writing[x] = None)

ApartSpec ==
  /\ PrivacyInit /\ [][PrivacyNext /\ Apart']_privacyVars
  /\ \A w \in Worker : WF_privacyVars(Process(w))
===============================================================================
