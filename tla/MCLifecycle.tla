---------------------------- MODULE MCLifecycle -----------------------------
(* Instances of Lifecycle. *)
EXTENDS Lifecycle, TLC

CONSTANTS p1, p2, p3, d1, d2, s1, s2

\* Two servers of different databases configured with one staging directory, and an
\* operator's process on the database of the first.
MCRoles    == (p1 :> {"serve"}) @@ (p2 :> {"serve", "stream"}) @@ (p3 :> {"rebind", "purge", "stream"})
MCDatabase == (p1 :> d1) @@ (p2 :> d2) @@ (p3 :> d1)
MCStaging  == (p1 :> s1) @@ (p2 :> s1) @@ (p3 :> s2)
=============================================================================
