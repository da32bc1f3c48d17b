------------------------------ MODULE MCRecovery ------------------------------
(* Instances of Recovery for TLC. *)
EXTENDS Recovery, TLC

\* The two databases of RecoveryInit and the first identity are told apart;
\* devices, new files and new identities are not.
Renaming == Permutations(Device)
              \cup Permutations(Path \ {Live, Old}) \cup Permutations(VaultId \ {First})

\* What later steps and the two invariants of the run can read: `owes` is history
\* for VerifiedMeansFinished alone, and Procedure reads `made` of a finished file
\* that nothing has replaced.
Relevant(p) ==
  IF ~HasDatabase(p) THEN store[p]
  ELSE [store[p] EXCEPT !.owes = FALSE,
                        !.made = IF store[p].done \/ p \in InUse THEN @ ELSE "any"]

RelevantVars ==
  <<[p \in Path |-> Relevant(p)], serving, current, cmd, dev, writes, withdrawn>>
=============================================================================
