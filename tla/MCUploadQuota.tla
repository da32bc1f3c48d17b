----------------------------- MODULE MCUploadQuota -----------------------------
(* Instance of UploadQuota for TLC: u1 uploads to their own vault and, as a  *)
(* collaborator, to one of u2's.                                             *)
EXTENDS UploadQuota, TLC

CONSTANTS c1, c2, u1, u2

Acting == (c1 :> u1 @@ c2 :> u1)
Owning == (c1 :> u1 @@ c2 :> u2)
=============================================================================
