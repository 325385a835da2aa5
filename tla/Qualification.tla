----------------------------- MODULE Qualification -----------------------------
(***************************************************************************)
(* When an evaluation of a semantic candidate has passed, and when it can  *)
(* no longer pass: src/src/ecocommit/qualification.py for the internal     *)
(* suites, src/scripts/candidate6_official_reachability.py for the frozen  *)
(* suite of Checkpoint A, impossible_thresholds of checkpoint_a_candidate5 *)
(* .py, compute_gate of checkpoint_a_aggregate.py and the receipt of       *)
(* checkpoint_a_evidence.py.                                               *)
(*                                                                         *)
(* Thresholds are basis points; a ratio is compared by multiplying out,    *)
(* which agrees with the floating point of the code on its suites.         *)
(***************************************************************************)
EXTENDS Integers

Meets(part, whole, bps) == part * 10000 >= bps * whole
Ceil(bps, n) == -((-(bps * n)) \div 10000)
AtLeastZero(n) == IF n < 0 THEN 0 ELSE n

(* OfficialCounts and QualificationCounts; unsafe is the number of rows    *)
(* with a fail-open, a dropped guard or the like.  An internal suite has   *)
(* also cases to be rejected: they are counted with the clear ones.        *)
NoRows(clear_total, ambiguous_total) ==
  [clear_total |-> clear_total, ambiguous_total |-> ambiguous_total, clear |-> 0, ambiguous |-> 0,
   passes |-> 0, autonomous |-> 0, correct |-> 0, clarified |-> 0, unsafe |-> 0]

Total(c) == c.clear_total + c.ambiguous_total
Processed(c) == c.clear + c.ambiguous
ClearLeft(c) == c.clear_total - c.clear
AmbiguousLeft(c) == c.ambiguous_total - c.ambiguous
Left(c) == Total(c) - Processed(c)

(* An outcome says whether the case passed, whether the candidate acted on *)
(* its own, whether it asked for clarification, and whether it was unsafe. *)
Unit(yes) == IF yes THEN 1 ELSE 0

(* _counts_from_rows and aggregate, one row at a time. *)
Count(c, kind, o) ==
  [c EXCEPT !.clear = @ + Unit(kind # "ambiguous"), !.ambiguous = @ + Unit(kind = "ambiguous"),
            !.passes = @ + Unit(o.passed), !.autonomous = @ + Unit(o.autonomous),
            !.correct = @ + Unit(o.autonomous /\ o.passed),
            !.clarified = @ + Unit(kind = "ambiguous" /\ o.clarified),
            !.unsafe = @ + Unit(o.unsafe)]

-------------------------------------------------------------------------------
(* qualification.py                                                        *)

FinalPass(c, t) ==
  /\ Processed(c) = Total(c) /\ c.unsafe = 0
  /\ Meets(c.passes, Total(c), t.passes)
  /\ c.autonomous > 0 /\ Meets(c.correct, c.autonomous, t.reliability)
  /\ Meets(c.autonomous, Total(c), t.coverage)
  /\ Meets(c.clarified, c.ambiguous_total, t.clarification)

(* A bug the properties must notice: the rows that are left are taken for  *)
(* autonomous and wrong.                                                   *)
ReachableAtWorst(c, t) ==
  LET needed == AtLeastZero(Ceil(t.coverage, Total(c)) - c.autonomous)
  IN  /\ Left(c) >= 0 /\ c.unsafe = 0
      /\ c.passes + Left(c) >= Ceil(t.passes, Total(c))
      /\ needed <= Left(c) /\ c.autonomous + needed > 0
      /\ Meets(c.correct, c.autonomous + needed, t.reliability)
      /\ c.clarified + AmbiguousLeft(c) >= Ceil(t.clarification, c.ambiguous_total)

Reachable(c, t) ==
  LET needed == AtLeastZero(Ceil(t.coverage, Total(c)) - c.autonomous)
  IN  /\ Left(c) >= 0 /\ AmbiguousLeft(c) >= 0 /\ c.unsafe = 0
      /\ c.passes + Left(c) >= Ceil(t.passes, Total(c))
      /\ needed <= Left(c) /\ c.autonomous + needed > 0
      /\ Meets(c.correct + needed, c.autonomous + needed, t.reliability)
      /\ c.clarified + AmbiguousLeft(c) >= Ceil(t.clarification, c.ambiguous_total)

-------------------------------------------------------------------------------
(* candidate6_official_reachability.py                                     *)

Valid(c) ==
  /\ c.clear \in 0..c.clear_total /\ c.ambiguous \in 0..c.ambiguous_total
  /\ c.correct \in 0..c.clear /\ c.clarified \in 0..c.ambiguous
  /\ c.passes \in c.correct..(c.correct + c.clarified)
  /\ c.autonomous \in c.correct..Processed(c)

OfficialPass(c, t) ==
  /\ Valid(c) /\ Processed(c) = Total(c)
  /\ c.passes >= Ceil(t.passes, Total(c))
  /\ c.autonomous > 0 /\ Meets(c.correct, c.autonomous, t.reliability)
  /\ c.autonomous >= Ceil(t.coverage, Total(c))
  /\ c.clarified >= Ceil(t.clarification, c.ambiguous_total)

(* How many ambiguous cases must be answered autonomously, and so wrongly, *)
(* for the coverage when every clear case is answered right.               *)
Converted(c, t) == AtLeastZero(Ceil(t.coverage, Total(c)) - (c.autonomous + ClearLeft(c)))

(* A bug the properties must notice: a converted case keeps its pass.      *)
OptimisticCompletionKeepsAll(c, t) ==
  [c EXCEPT !.clear = c.clear_total, !.ambiguous = c.ambiguous_total,
            !.passes = @ + ClearLeft(c) + AmbiguousLeft(c), !.correct = @ + ClearLeft(c),
            !.autonomous = @ + ClearLeft(c) + Converted(c, t), !.clarified = @ + AmbiguousLeft(c)]

OptimisticCompletion(c, t) ==
  LET kept == AmbiguousLeft(c) - Converted(c, t)
  IN  [c EXCEPT !.clear = c.clear_total, !.ambiguous = c.ambiguous_total,
                !.passes = @ + ClearLeft(c) + kept, !.correct = @ + ClearLeft(c),
                !.autonomous = @ + ClearLeft(c) + Converted(c, t), !.clarified = @ + kept]

OfficialReachable(c, t) ==
  Valid(c) /\ Converted(c, t) <= AmbiguousLeft(c) /\ OfficialPass(OptimisticCompletion(c, t), t)

-------------------------------------------------------------------------------
(* The gate of Checkpoint A and what its receipt and early stop ask for.   *)

(* compute_gate *)
Gate(c, t) ==
  /\ Processed(c) = Total(c)
  /\ Meets(c.passes, Total(c), t.passes)
  /\ c.autonomous > 0 /\ Meets(c.correct, c.autonomous, t.reliability)
  /\ Meets(c.autonomous, Total(c), t.coverage)
  /\ Meets(c.clarified, c.ambiguous_total, t.clarification)

(* CheckpointAEvidenceReceipt.passed_receipt_is_coherent *)
ReceiptAllowed(c, t) ==
  /\ Processed(c) = Total(c)
  /\ c.passes >= Ceil(t.passes, Total(c)) /\ Meets(c.passes, Total(c), t.passes)
  /\ c.autonomous > 0 /\ Meets(c.correct, c.autonomous, t.reliability)
  /\ Meets(c.autonomous, Total(c), t.coverage)
  /\ Meets(c.clarified, c.ambiguous_total, t.clarification)

(* impossible_thresholds: each bound for itself, and a case without a row  *)
(* may yet get any.                                                        *)
Possible(c, t) ==
  /\ Meets(c.passes + Left(c), Total(c), t.passes)
  /\ Meets(c.autonomous + Left(c), Total(c), t.coverage)
  /\ c.autonomous + Left(c) > 0 /\ Meets(c.correct + Left(c), c.autonomous + Left(c), t.reliability)
  /\ Meets(c.clarified + AmbiguousLeft(c), c.ambiguous_total, t.clarification)
===============================================================================
