---------------------------- MODULE MCMessagePath ----------------------------
(* MessagePath on small pools and rings. *)
EXTENDS MessagePath, TLC

\* Clients are compared for equality only.
Symmetry == Permutations(Client)
=============================================================================
