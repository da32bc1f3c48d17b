---------------------------- MODULE MCAdmission -----------------------------
(* Instance of Admission.  Memory has the sizes of the code, four permits of *)
(* which a hash takes three; two pulls at a time, as in the code, leave a    *)
(* hash too little; the other pools are small enough to fill.                *)
EXTENDS Admission, TLC

CONSTANTS r1, r2, r3

MCCapacity ==
  [reader |-> 2, control |-> 2, waiter |-> 1, check |-> 1, bulk |-> 4, pull |-> 2,
   large |-> 1, order |-> 1, worker |-> 2]

\* Three password checks, or one beside two connections that take memory again
\* and again; every handler beside others that take its resources.
MCKinds == (r1 :> {"signin"}) @@ (r2 :> {"register", "pull", "upload", "init"})
             @@ (r3 :> {"signin", "deleted", "history", "rename"})
=============================================================================
