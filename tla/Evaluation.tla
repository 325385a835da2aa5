------------------------------- MODULE Evaluation -------------------------------
(***************************************************************************)
(* The runs that evaluate a semantic candidate once, case by case, and     *)
(* stop when passing has become impossible: checkpoint_a_candidate5.py,    *)
(* _candidate6.py, _candidate7.py and _candidate8.py on the frozen suite   *)
(* of Checkpoint A, and candidate8_formal_qualification.py on an internal  *)
(* one (src/scripts).                                                      *)
(*                                                                         *)
(* Candidate 5 evaluates every case in a process of its own, which may be  *)
(* killed, and lets checkpoint_a_aggregate.py decide from the files those  *)
(* processes left; the others decide from the rows they hold.  A run that  *)
(* dies is not repeated: the output directory and GITHUB_RUN_ATTEMPT       *)
(* refuse it.                                                              *)
(***************************************************************************)
EXTENDS Qualification, Sequences, FiniteSets

CONSTANTS
  Runner,         \* which of the runs there are
  KindsOf,        \* KindsOf[r]: the kinds of the cases of its suite, in order
  CriteriaOf,     \* CriteriaOf[r]: the thresholds it may be used with
  None

(* What rows add up to: QualificationCounts, OfficialCounts. *)
Counts ==
  [clear_total : Nat, ambiguous_total : Nat, clear : Nat, ambiguous : Nat, passes : Nat,
   autonomous : Nat, correct : Nat, clarified : Nat, unsafe : Nat]

(* QualificationThresholds, OfficialThresholds. *)
Rate == {bps \in Nat : 0 < bps /\ bps <= 10000}
Thresholds == [passes : Rate, reliability : Rate, coverage : Rate, clarification : Rate]

(* Only an internal suite has contradictory instructions; and it is so     *)
(* small that one wrong row is fatal: reachable() counts on it (24 cases,  *)
(* a reliability of 98 %).                                                 *)
OneWrongRowIsFatal ==
  "qualification" \in Runner =>
    \A t \in CriteriaOf["qualification"] : (10000 - t.reliability) * Len(KindsOf["qualification"]) < 10000

EvaluationAssumption ==
  /\ Runner \subseteq {"candidate 5", "candidate 6", "candidate 8", "qualification"}
  /\ \A r \in Runner : KindsOf[r] \in Seq({"clear", "ambiguous"} \cup (IF r = "qualification" THEN {"conflict"} ELSE {}))
  /\ \A r \in Runner : CriteriaOf[r] \subseteq Thresholds
  /\ OneWrongRowIsFatal
  /\ None \notin Counts \cup {"PASS", "FAILED", "OPEN"}

VARIABLES
  runner, criteria,
  index,          \* cases the run is through with
  counts,         \* what its rows add up to
  kept,           \* what the files of the case processes add up to
  torn,           \* one of them is not a whole file
  ended,          \* why the loop ended early
  pc, verdict, receipt

vars == <<runner, criteria, index, counts, kept, torn, ended, pc, verdict, receipt>>

SuiteSize == Len(KindsOf[runner])
Kind(i) == KindsOf[runner][i]
HowMany(r, ambiguous) == Cardinality({i \in DOMAIN KindsOf[r] : (KindsOf[r][i] = "ambiguous") = ambiguous})

Init ==
  /\ runner \in Runner /\ criteria \in CriteriaOf[runner]
  /\ index = 0 /\ counts = NoRows(HowMany(runner, FALSE), HowMany(runner, TRUE)) /\ kept = counts
  /\ torn = FALSE /\ ended = "no" /\ pc = "evaluate" /\ verdict = None /\ receipt = None

Result(passed, autonomous, clarified, unsafe) ==
  [passed |-> passed, autonomous |-> autonomous, clarified |-> clarified, unsafe |-> unsafe]

Right(kind) == Result(TRUE, kind = "clear", kind = "ambiguous", FALSE)
Nothing == Result(FALSE, FALSE, FALSE, FALSE)   \* rejected, or no contract

(* What a case may come to.  In the frozen suite a clarification counts    *)
(* also when the case fails; in an internal one it must name the right     *)
(* ambiguity, a guard may be dropped, a contradictory instruction has to   *)
(* be rejected, and acting on one of these two is fail-open                *)
(* (semantic_case_pass, score_case).                                       *)
Results(kind) ==
  {Right(kind), Nothing} \cup
  (IF runner = "qualification"
     THEN {Result(FALSE, autonomous, FALSE, TRUE) : autonomous \in BOOLEAN}
            \cup {Result(FALSE, TRUE, FALSE, FALSE) : k \in {"clear"} \cap {kind}}
     ELSE {Result(FALSE, TRUE, FALSE, FALSE)}
            \cup {Result(FALSE, FALSE, TRUE, FALSE) : k \in {"ambiguous"} \cap {kind}})

StillPossible(c) ==
  CASE runner = "candidate 5"   -> Possible(c, criteria)
    [] runner = "qualification" -> Reachable(c, criteria)
    [] OTHER                    -> OfficialReachable(c, criteria)

-------------------------------------------------------------------------------
(* The loop over the cases.                                                *)

Evaluating == pc = "evaluate" /\ ended = "no" /\ index < SuiteSize

(* The case is through; the run goes on while passing is possible. *)
Advance(c) ==
  /\ index' = index + 1 /\ counts' = c
  /\ ended' = IF StillPossible(c) THEN "no" ELSE "eliminated"
  /\ UNCHANGED <<runner, criteria, torn, pc, verdict, receipt>>

(* A row is scored.  In Candidate 6 a case the provider did not answer is  *)
(* one, without a result.                                                  *)
Score ==
  /\ Evaluating
  /\ \E o \in Results(Kind(index + 1)) :
       Advance(Count(counts, Kind(index + 1), o)) /\ kept' = counts'

(* The provider puts the case off: Candidate 5 and the qualification go on *)
(* without its row, Candidates 7 and 8 stop.                               *)
PutOff ==
  /\ Evaluating /\ runner # "candidate 6"
  /\ IF runner = "candidate 8"
       THEN ended' = "limited" /\ UNCHANGED <<runner, criteria, index, counts, pc, verdict, receipt>>
       ELSE Advance(counts)
  /\ UNCHANGED <<kept, torn>>

(* Candidate 5 kills a case process that is too slow, and looks no more at *)
(* its file: there may be none of a row, a whole row, or a torn one.       *)
TimeOut ==
  /\ Evaluating /\ runner = "candidate 5"
  /\ ended' = "stopped"
  /\ \/ UNCHANGED kept /\ torn' \in BOOLEAN
     \/ (\E o \in Results(Kind(index + 1)) : kept' = Count(kept, Kind(index + 1), o)) /\ UNCHANGED torn
  /\ UNCHANGED <<runner, criteria, index, counts, pc, verdict, receipt>>

(* A case process that fails by itself; its row, if it left one, counts.   *)
ProcessFails ==
  /\ Evaluating /\ runner = "candidate 5"
  /\ ended' = "stopped"
  /\ \/ UNCHANGED <<counts, kept>>
     \/ \E o \in Results(Kind(index + 1)) : counts' = Count(counts, Kind(index + 1), o) /\ kept' = counts'
  /\ UNCHANGED <<runner, criteria, index, torn, pc, verdict, receipt>>

-------------------------------------------------------------------------------
(* After the loop.                                                         *)

Finished == pc = "evaluate" /\ (ended # "no" \/ index = SuiteSize)

(* Candidate 5: the aggregate of the files, with a receipt if they pass.   *)
Aggregate ==
  /\ Finished /\ runner = "candidate 5"
  /\ IF ~torn /\ Gate(kept, criteria) /\ ReceiptAllowed(kept, criteria)
       THEN receipt' = kept ELSE UNCHANGED receipt
  /\ pc' = "decide"
  /\ UNCHANGED <<runner, criteria, index, counts, kept, torn, ended, verdict>>

(* A bug the properties must notice: a run the provider limited counts as  *)
(* failed.                                                                 *)
StatusWithoutLimit ==
  CASE runner = "candidate 5"   -> IF receipt # None THEN "PASS" ELSE IF ended = "eliminated" THEN "FAILED" ELSE "OPEN"
    [] runner = "qualification" -> IF FinalPass(counts, criteria) THEN "PASS" ELSE "FAILED"
    [] OTHER                    -> IF OfficialPass(counts, criteria) THEN "PASS" ELSE "FAILED"

(* PASS, FAILED, or a status that leaves the question open (INCOMPLETE,    *)
(* INCONCLUSIVE_PROVIDER_LIMITED, PROVIDER_LIMITED).                       *)
Status ==
  CASE runner = "candidate 5"   -> IF receipt # None THEN "PASS" ELSE IF ended = "eliminated" THEN "FAILED" ELSE "OPEN"
    [] runner = "qualification" -> IF index > Processed(counts) THEN "OPEN" ELSE IF FinalPass(counts, criteria) THEN "PASS" ELSE "FAILED"
    [] OTHER                    -> IF ended = "limited" THEN "OPEN" ELSE IF OfficialPass(counts, criteria) THEN "PASS" ELSE "FAILED"

Decide ==
  /\ \/ pc = "decide"
     \/ Finished /\ runner # "candidate 5"
  /\ verdict' = Status
  /\ pc' = IF Status = "PASS" /\ receipt = None THEN "receipt" ELSE "done"
  /\ UNCHANGED <<runner, criteria, index, counts, kept, torn, ended, receipt>>

(* Candidate 6 and the qualification write what they have; Candidates 7    *)
(* and 8 build a CheckpointAEvidenceReceipt, which may refuse.             *)
WriteReceipt ==
  /\ pc = "receipt"
  /\ IF runner = "candidate 8" /\ ~ReceiptAllowed(counts, criteria)
       THEN UNCHANGED receipt ELSE receipt' = counts
  /\ pc' = "done"
  /\ UNCHANGED <<runner, criteria, index, counts, kept, torn, ended, verdict>>

Crash ==
  /\ pc \notin {"done", "dead"}
  /\ pc' = "dead"
  /\ UNCHANGED <<runner, criteria, index, counts, kept, torn, ended, verdict, receipt>>

Next == Score \/ PutOff \/ TimeOut \/ ProcessFails \/ Aggregate \/ Decide \/ WriteReceipt \/ Crash

Spec == Init /\ [][Next]_vars

-------------------------------------------------------------------------------
TypeOK ==
  /\ runner \in Runner /\ criteria \in CriteriaOf[runner]
  /\ index \in 0..SuiteSize /\ Processed(counts) <= SuiteSize
  /\ ended \in {"no", "eliminated", "limited", "stopped"}
  /\ pc \in {"evaluate", "decide", "receipt", "done", "dead"}
  /\ verdict \in {None, "PASS", "FAILED", "OPEN"}

Passing(c) == IF runner = "qualification" THEN FinalPass(c, criteria) ELSE Gate(c, criteria)

(* The cases without a row could still come out so that the run passes: of *)
(* those that are not ambiguous right are acted on rightly, wrong wrongly  *)
(* and rejected rightly rejected; of the ambiguous good are clarified and  *)
(* pass, poor are clarified and fail, and bold are acted on.  In the       *)
(* qualification no later case makes up for an unsafe one.                 *)
CanPass(c) ==
  LET frozen == runner # "qualification"
      Upto(n, possible) == IF possible THEN 0..n ELSE {0}
  IN  /\ frozen \/ c.unsafe = 0
      /\ \E right \in 0..ClearLeft(c) : \E wrong \in 0..(ClearLeft(c) - right) :
         \E rejected \in Upto(ClearLeft(c) - right - wrong, ~frozen) :
         \E good \in 0..AmbiguousLeft(c) : \E poor \in Upto(AmbiguousLeft(c) - good, frozen) :
         \E bold \in Upto(AmbiguousLeft(c) - good - poor, frozen) :
           Passing([c EXCEPT !.clear = c.clear_total, !.ambiguous = c.ambiguous_total,
                             !.passes = @ + right + rejected + good, !.correct = @ + right,
                             !.autonomous = @ + right + wrong + bold, !.clarified = @ + good + poor])

(* A run is stopped, and called FAILED, only when no result of the cases   *)
(* it has no row of could have made it pass; and the class-aware bound of  *)
(* Candidates 6 to 8 never goes on without hope ("Return the exact         *)
(* optimistic jointly feasible completion", candidate6_official_           *)
(* reachability.py:56).                                                    *)
StopsOnlyWithoutHope ==
  /\ ended = "eliminated" \/ verdict = "FAILED" => ~CanPass(counts)
  /\ Evaluating /\ index > 0 /\ runner \in {"candidate 6", "candidate 8"} => CanPass(counts)

(* A PASS and a receipt stand for a row of every case, none put off, that  *)
(* pass the gate together, whichever process was killed; and a run that is *)
(* through with a PASS has its receipt (compute_gate, final_pass, the      *)
(* receipt's own checks).                                                  *)
PassMeansAllRows ==
  LET judged == IF runner = "candidate 5" THEN kept ELSE counts
  IN  /\ verdict = "PASS" \/ receipt # None => Processed(judged) = SuiteSize /\ Passing(judged)
      /\ receipt # None => receipt = judged
      /\ verdict = "PASS" /\ pc = "done" => receipt # None
===============================================================================
