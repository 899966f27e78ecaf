----------------------------- MODULE MCFrontEnd ------------------------------
(* A page in the second half of a year of three months, with two clocks. *)
EXTENDS FrontEnd, TLC

ThreeMonths == <<0, 3, 5, 8>>

Clocks == Permutations(Clock)
=============================================================================
