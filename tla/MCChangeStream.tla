---------------------------- MODULE MCChangeStream ----------------------------
(* Instances of ChangeStream for TLC.  Devices and paths are interchangeable. *)
EXTENDS ChangeStream, TLC

Interchangeable == Permutations(Conn) \cup Permutations(Path)
=============================================================================
