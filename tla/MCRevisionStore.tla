-------------------------- MODULE MCRevisionStore ---------------------------
(* Instances of RevisionStore. *)
EXTENDS RevisionStore, TLC

CONSTANTS a, b, c

Kind(related, folder, deleted, n) ==
  [related |-> related, folder |-> folder, deleted |-> deleted, size |-> n]

\* Deletions, a folder, a file of two pieces, and an empty file renamed from a.
MCKinds ==
  {Kind(Null, FALSE, TRUE, 0), Kind(Null, TRUE, FALSE, 0), Kind(Null, FALSE, FALSE, 3),
   Kind(a, FALSE, FALSE, 0)}

\* A database of an early schema: a file of two pieces with inline content, and two
\* empty files.
MCStart ==
  (1 :> [path |-> a, related |-> Null, folder |-> FALSE, deleted |-> FALSE,
         size |-> 3, inline |-> Blob(1, 3)])
    @@ (2 :> RevisionRow(b, Kind(Null, FALSE, FALSE, 0))) @@ (3 :> RevisionRow(c, Kind(Null, FALSE, FALSE, 0)))
=============================================================================
