----------------------------- MODULE MCCommitment -----------------------------
(* An instance of Commitment small enough for TLC. *)
EXTENDS Commitment, TLC

Times == 0 .. 2
IdSymmetry == Permutations(Caller) \cup Permutations(EventId)
===============================================================================
