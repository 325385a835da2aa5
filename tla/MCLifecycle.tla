------------------------------ MODULE MCLifecycle ------------------------------
(* Instances of Lifecycle small enough for TLC. *)
EXTENDS Lifecycle, TLC

WorkerSymmetry == Permutations(Worker)

(* For liveness: a behaviour has a fault or an expiry, not both.  Neither  *)
(* is a fair action, so this takes no step away that has to happen.        *)
FaultOrExpiry == clock' + Faults - faults' <= 1

LiveSpec == Init /\ [][Next /\ FaultOrExpiry]_vars /\ Fairness
===============================================================================
