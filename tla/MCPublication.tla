---------------------------- MODULE MCPublication ----------------------------
(***************************************************************************)
(* What scripts of the checkpoints find out once and write once, in one    *)
(* model for TLC: the evaluation of a candidate (Evaluation) and its       *)
(* resumable form (Shards) of Checkpoint A, the manifest and receipt of    *)
(* Checkpoint B (Finalization), the final evidence of the benchmark of     *)
(* Checkpoint C (FinalBenchmark), and beside them the operators of         *)
(* BenchmarkScoring on bounded inputs.  A behaviour is about one of the    *)
(* five, the part; the others stay as they began.                          *)
(***************************************************************************)
EXTENDS FinalBenchmark

CONSTANTS
  Finalizer, Version, Holds, Confirmed, MaxRecords, Batches, ClockOf, MaxFaults,   \* Finalization
  Runner, KindsOf, CriteriaOf,                                                     \* Evaluation
  Attempt, LastCase, ShardOf, Manifest, MinPasses,                                 \* Shards
  s1, u1, u2, f1, f2, a1, a2

VARIABLES
  part,
  sample,                                          \* of the inputs of BenchmarkScoring
  disk, log, manifest, receipt, place, read, observed, faults,                   \* Finalization
  runner, criteria, index, counts, kept, torn, ended, stage, verdict, certified,   \* Evaluation
  process, built, rows, output, issued, origin, lineage                            \* Shards

finalVars == <<disk, log, manifest, receipt, place, read, observed, faults>>

evalVars  == <<runner, criteria, index, counts, kept, torn, ended, stage, verdict, certified>>
shardVars == <<process, built, rows, output, issued, origin, lineage>>

L == INSTANCE Finalization WITH pc <- place, Clock <- ClockOf
E == INSTANCE Evaluation WITH pc <- stage, receipt <- certified
S == INSTANCE Shards WITH pc <- process, manifest <- built, file <- output, receipt <- issued

ASSUME FinalAssumed      == FinalBenchmarkAssumption
ASSUME ReceiptAssumed    == L!FinalizationAssumption
ASSUME EvaluationAssumed == E!EvaluationAssumption
ASSUME ShardsAssumed     == S!ShardsAssumption

Costs == [unsafe_execution |-> 5, false_abort |-> 3, abstention_review |-> 1, compensation |-> 2]
Case(id, safe) ==
  [id |-> id, amount |-> 10, limit |-> 10, exposure |-> 4, risk |-> 3000, safe |-> safe,
   legitimate |-> safe, compensation |-> IF safe THEN "NOT_REQUIRED" ELSE "SUCCEEDED",
   split |-> "FINAL_HELD_OUT", simulated |-> FALSE, simulated_costs |-> FALSE, signals |-> {}, evidence |-> <<>>, costs |-> Costs]

MCSuiteOf == s1 :> [frozen |-> 1, cases |-> <<Case(1, TRUE), Case(2, FALSE)>>]
TEL == [unsafe_execution |-> 10000, false_abort |-> 10000, abstention_review |-> 14999, compensation |-> 10000]
RuleWith(m) ==
  [margin |-> m, weights |-> TEL, completion |-> 10000, coverage |-> 0, reliability |-> 0, p95 |-> 9,
   errored |-> 1, missing_latency |-> 1, irreversible |-> 0]
MCRuleOf == [m \in {0} |-> RuleWith(m)]
MCUpstreamOf ==
  LET a == [mode |-> "FROZEN_AGGREGATE", revision |-> 1]
      u == [a |-> a, b |-> [revision |-> 1, binds |-> a], revision |-> 1]
  IN  u1 :> u @@ u2 :> [u EXCEPT !.a.mode = "FIXTURE"]

Row(d) == IF d = "ERROR" THEN ErrorRow ELSE [decision |-> d, latency |-> 1, provenance |-> "MEASURED_PROVIDER"]
Rows(d1, d2) == <<Row(d1), Row(d2)>>   \* of the cases 1 and 2
MCOutcome == {Rows("EXECUTE", "ERROR"), Rows("EXECUTE", "EXECUTE"), 1 :> Row("EXECUTE")}

-------------------------------------------------------------------------------
(* Samples for the operators.                                              *)

Evidence == [status : EvidenceStatus, required : BOOLEAN, latency : {1}]
Dynamic  == [type |-> "DYNAMIC_DETERMINISTIC_WORKFLOW", id |-> 4, credit |-> 100, failed |-> 3000,
             missing |-> 1000, stale |-> 1500, block_from |-> 7000, execute_to |-> 2500, overhead |-> 2]
Decisions == [kind : {"decision"}, evidence : [{1, 2} -> Evidence], risk : {0, 2500, 2600, 5500},
              active : BOOLEAN, amount : {10, 11}]
Ranks     == [kind : {"rank"}, n : 0..25, step : {1, 7}]
Verdicts  == [kind : {"verdict"}, ours : 0..8, theirs : 0..8, margin : {0, 2500, 6000}]
Orders    == {<<1, 2>>, <<2, 1>>}   \* in which the seed may shuffle the cases 1 and 2
Artifacts == [kind : {"artifact"}, order : Orders, replayed : {{1}, {1, 2}},
              changed : {"nothing", "row", "summary", "errors", "inputs", "time", "order", "twice"}]

CaseOf(s) == [Case(1, TRUE) EXCEPT !.amount = s.amount, !.risk = s.risk, !.evidence = s.evidence,
              !.signals = {[code |-> "velocity", active |-> s.active, weight |-> 1000]}]
SnapshotOf(tel) ==
  [cases |-> {1, 2}, tel |-> tel, completion |-> <<1, 1>>, coverage |-> <<2, 2>>, reliability |-> <<1, 2>>,
   p95 |-> 1, errored |-> 0, missing_latency |-> 0, irreversible |-> 0]
ValuesOf(s) == [i \in 1..s.n |-> (i * s.step) % 11]

InDevelopment(c) == [c EXCEPT !.split = "DEVELOPMENT", !.simulated_costs = TRUE]
Development == [frozen |-> 0, cases |-> <<InDevelopment(Case(1, TRUE)), InDevelopment(Case(2, FALSE))>>]
PlanOf(s) ==
  [suite |-> Development, registered |-> 1, weights |-> TEL,
   baselines |-> <<[type |-> "NAIVE_AGENT_REPLAY", id |-> 1, synthetic |-> FALSE, decisions |-> [i \in s.replayed |-> Row("EXECUTE")]],
                   [type |-> "PROMPT_GUARDRAIL_REPLAY", id |-> 2, synthetic |-> FALSE, decisions |-> Rows("ERROR", "BLOCK")],
                   [type |-> "STATIC_RULES", id |-> 3, ceiling |-> 10, blocked |-> {}, overhead |-> 1],
                   Dynamic,
                   [type |-> "CONSERVATIVE_ABSTAIN", id |-> 5, overhead |-> 0]>>]

ArtifactOf(s) ==
  LET a == RunBenchmark(PlanOf(s), Development, s.order, 1)
  IN  CASE s.changed = "nothing" -> a
        [] s.changed = "row"     -> [a EXCEPT !.results[3][1].decision = "BLOCK"]
        [] s.changed = "summary" -> [a EXCEPT !.summaries[4].tel = @ + 1]
        [] s.changed = "errors"  -> [a EXCEPT !.errors = 0]
        [] s.changed = "inputs"  -> [a EXCEPT !.provenance.fixtures = FALSE]
        [] s.changed = "time"    -> [a EXCEPT !.generated = 0]
        [] s.changed = "order"   -> [a EXCEPT !.order = <<@[2], @[1]>>]
        [] s.changed = "twice"   -> [a EXCEPT !.order = <<@[1], @[1]>>]

-------------------------------------------------------------------------------
(* What the retained files say.  The second contents are another attempt   *)
(* of the preflight and an order bound to it, a lifecycle and a webhook    *)
(* set with another refund, another good report of the durability tests    *)
(* and an observation after the capture.                                   *)
Scenarios == {"COMMITMENT_RESTART_REPLAY", "CROSS_PROCESS_IDEMPOTENCY", "HANDOFF_EXPIRY_RECONCILIATION",
              "PAYMENT_RESTART_REPLAY", "PENDING_REFUND_RETRY", "WEBHOOK_EVENT_DEDUPLICATION"}
Groups == {"CHECKPOINT_B", "DURABLE_STATE", "RAZORPAY_ADAPTER", "WEBHOOK_INGESTION", "WORKFLOW_SECURITY"}

Preflight(attempt) == [revision |-> "r", run |-> 7, attempt |-> attempt]
OrderFile(attempt) ==
  [revision |-> "r", preflight |-> Preflight(attempt), transaction |-> "tx", order |-> "o1",
   handoff |-> "h1", expires |-> 9, amount |-> 100, currency |-> "INR",
   creates |-> 1, mutations |-> 0, order_gets |-> 2, payment_gets |-> 1]
LifecycleFile(refunded) ==
  [handoff |-> "h1", transaction |-> "tx", order |-> "o1", payment |-> "pay", refund |-> refunded,
   refund_state |-> "REFUNDED", stage |-> "COMPENSATED", in_sync |-> TRUE, backend |-> "SQLITE_WAL_FULL_SYNC"]
EventOf(id, at, refunded) ==
  [event |-> id, transaction |-> "tx", order |-> "o1", payment |-> "pay", refund |-> refunded, at |-> at]
WebhookFile(refunded) ==
  [transaction |-> "tx", captured |-> EventOf(1, 2, "none"), refunded |-> EventOf(IF refunded = "rf1" THEN 2 ELSE 3, 3, refunded)]
DurabilityFile(report) ==
  [revision |-> "r", failed |-> {}, completed |-> Scenarios, report |-> report]
ManualFile(at) ==
  [revision |-> "r", account |-> "acc", artifact |-> "shot1", at |-> at,
   mode |-> "MANUAL", timeout |-> 259200, action |-> "NORMAL_REFUND"]
Same(content) == <<content, content>>
MCHolds ==
  [preflight   |-> <<Preflight(1), Preflight(2)>>,
   order       |-> <<OrderFile(1), OrderFile(2)>>,
   handoff     |-> Same([transaction |-> "tx", order |-> "o1", digest |-> "h1", expires |-> 9, account |-> "acc"]),
   lifecycle   |-> <<LifecycleFile("rf1"), LifecycleFile("rf2")>>,
   webhooks    |-> <<WebhookFile("rf1"), WebhookFile("rf2")>>,
   a           |-> Same([revision |-> "r", mode |-> "FROZEN_AGGREGATE"]),
   safety      |-> Same([revision |-> "r", collected |-> 5, passed |-> 5, failed |-> 0, errors |-> 0,
                         groups |-> Groups]),
   durability  |-> <<DurabilityFile(1), DurabilityFile(2)>>,
   certificate |-> Same([revision |-> "r", retained |-> {}]),
   manual      |-> <<ManualFile(1), ManualFile(3)>>,
   hook        |-> Same([revision |-> "r", account |-> "acc", artifact |-> "shot2", at |-> 1, scheme |-> "HTTPS",
                         state |-> "ENABLED", events |-> <<"payment.captured", "refund.processed">>])]

MCClockOf == f1 :> {1} @@ f2 :> {2}
MCBatches == {{"preflight", "order"}, {"lifecycle", "webhooks"}, {"durability"}, {"manual"}}

-------------------------------------------------------------------------------
(* The internal suite is the corpus of candidate8_sealed_preflight.py with *)
(* the thresholds of the formal qualification.  The frozen one is smaller  *)
(* than the 50 and 30 cases; at the thresholds of the repository a small   *)
(* suite hardly bears a wrong case, so others are tried beside them.       *)
Clear(n)     == [i \in 1..n |-> "clear"]
Ambiguous(n) == [i \in 1..n |-> "ambiguous"]
MCKindsOf ==
  [r \in {"candidate 5", "candidate 6", "candidate 8"} |-> Clear(5) \o Ambiguous(3)]
    @@ "qualification" :> (Clear(12) \o Ambiguous(3) \o <<"conflict">> \o Clear(8))

Thresholds(passes, reliability, coverage, clarification) ==
  [passes |-> passes, reliability |-> reliability, coverage |-> coverage, clarification |-> clarification]
MCCriteriaOf ==
  [r \in {"candidate 5", "candidate 6", "candidate 8"} |->
     {Thresholds(9000, 9500, 5500, 8000), Thresholds(5000, 6600, 7500, 3000)}]
    @@ "qualification" :> {Thresholds(9500, 9800, 6500, 9000)}

MCShardOf == a1 :> {1, 2} @@ a2 :> {2}

-------------------------------------------------------------------------------
(* The parts a behaviour is not about have no state of interest. *)
NoEvaluation ==
  /\ runner = None /\ criteria = None /\ index = None /\ counts = None /\ kept = None /\ torn = None
  /\ ended = None /\ stage = None /\ verdict = None /\ certified = None

MCInit ==
  /\ part \in {"held out", "scoring", "finalization", "evaluation", "shards"}
  /\ Init /\ L!Init /\ S!Init
  /\ IF part = "evaluation" THEN E!Init ELSE NoEvaluation
  /\ sample \in IF part = "scoring" THEN Decisions \cup Ranks \cup Verdicts \cup Artifacts ELSE {None}

MCNext ==
  /\ UNCHANGED <<part, sample>>
  /\ \/ part = "held out" /\ Next /\ UNCHANGED <<finalVars, evalVars, shardVars>>
     \/ part = "finalization" /\ L!Next /\ UNCHANGED <<vars, evalVars, shardVars>>
     \/ part = "evaluation" /\ E!Next /\ UNCHANGED <<vars, finalVars, shardVars>>
     \/ part = "shards" /\ S!Next /\ UNCHANGED <<vars, finalVars, evalVars>>

MCFairness == \A p \in Finalizer : WF_finalVars(part = "finalization" /\ L!Step(p))

MCSpec == MCInit /\ [][MCNext]_<<part, sample, vars, finalVars, evalVars, shardVars>> /\ MCFairness

SampleIs(kind) == sample # None /\ sample.kind = kind
Permission(row) == CASE row.decision = "EXECUTE" -> 2 [] row.decision = "ABSTAIN" -> 1 [] OTHER -> 0

(* Losing evidence never turns a refusal or a review of the dynamic        *)
(* baseline into an execution, and none executes without its required      *)
(* evidence (checkpoint_c_baselines.py: the order of the rules).           *)
EvidenceOnlyPermits ==
  SampleIs("decision") =>
    LET c == CaseOf(sample)
    IN  /\ DynamicRiskEvidence(Dynamic, c).decision = "EXECUTE" => ~RequiredIs(c, EvidenceStatus \ {"VERIFIED"})
        /\ \A e \in DOMAIN c.evidence, lost \in EvidenceStatus :
             c.evidence[e].status = "VERIFIED" =>
               Permission(DynamicRiskEvidence(Dynamic, [c EXCEPT !.evidence[e].status = lost]))
                 <= Permission(DynamicRiskEvidence(Dynamic, c))

(* The p95 is the least observed latency that at least 95 of 100           *)
(* observations do not exceed (nearest_rank_percentile).                   *)
RankIsLeast ==
  SampleIs("rank") /\ sample.n > 0 =>
    LET values == ValuesOf(sample)
        Covers(v) == 100 * CountWhere(values, LAMBDA w : w <= v) >= 95 * sample.n
    IN  NearestRank(values, 95) = Min({values[i] : i \in {j \in DOMAIN values : Covers(values[j])}})

(* Two artifacts say the same of every baseline and case, in any order. *)
SayTheSame(a, b) ==
  /\ a.summaries = b.summaries /\ a.provenance = b.provenance /\ a.errors = b.errors
  /\ DOMAIN a.results = DOMAIN b.results
  /\ \A base \in DOMAIN a.results : Range(a.results[base]) = Range(b.results[base])

(* A changed row, summary, error count, label, time or order of an         *)
(* artifact is noticed, and so is a replay that leaves out a case.  That   *)
(* the order is not compared with the plan's seed changes no number: what  *)
(* is accepted says what a run says in any order (BenchmarkArtifact,       *)
(* run_benchmark).                                                         *)
ArtifactsRecompute ==
  SampleIs("artifact") =>
    LET plan == PlanOf(sample)
        runs == {RunBenchmark(plan, Development, order, 1) : order \in Orders}
    IN  /\ SuiteAllowed(Development.cases) /\ PlanAllowed(plan) /\ RunAllowed(plan, Development, 1)
        /\ \A a \in {ArtifactOf(sample)} :
             /\ ArtifactValid(a) <=> (sample.changed = "nothing" /\ sample.replayed = {1, 2})
             /\ sample.changed = "nothing" => \A run \in runs : SayTheSame(a, run)

(* A pass asks for a strictly smaller loss, by the margin of the           *)
(* comparator's whatever was rounded down, so that two systems never both  *)
(* beat each other, and a candidate that loses less still passes           *)
(* (evaluate_final_metrics).                                               *)
VerdictsAreStrict ==
  SampleIs("verdict") =>
    LET Wins(a, b) == Passes(RuleWith(sample.margin), SnapshotOf(a), SnapshotOf(b))
    IN  Wins(sample.ours, sample.theirs) =>
          /\ (sample.theirs - sample.ours) * 10000 >= sample.margin * sample.theirs
          /\ ~Wins(sample.theirs, sample.ours)
          /\ \A less \in 0..sample.ours : Wins(less, sample.theirs)

(* The operators of the scoring on bounded inputs: lost evidence permits   *)
(* nothing more, the p95 is the nearest rank, a verdict is strict, and an  *)
(* artifact is accepted only as the recomputation of its rows (baselines,  *)
(* metrics and models).                                                    *)
ScoringIsSound == EvidenceOnlyPermits /\ RankIsLeast /\ VerdictsAreStrict /\ ArtifactsRecompute

(* A candidate of Checkpoint A is given up only when it cannot pass any    *)
(* more, and passes only with a row of every case; and no crash, torn file *)
(* or resumption replaces a row that was scored on the way to a receipt    *)
(* (the runners of checkpoint_a_*.py, qualification.py).                   *)
VerdictsAreEarned ==
  /\ part = "evaluation" => E!TypeOK /\ E!StopsOnlyWithoutHope /\ E!PassMeansAllRows
  /\ part = "shards" => S!TypeOK /\ S!ScoredRowsStay /\ S!ReceiptIsUnanimous

(* What is published was bound to the first registration before outcomes   *)
(* were known, and a published pass is a strict improvement on its rows    *)
(* (main of checkpoint_c_final_held_out.py, evaluate_final_metrics).       *)
FinalIsEarned == TypeOK /\ FinalIsPreregistered /\ PassIsEarned

(* A receipt names the manifest beside it, whose files are of one          *)
(* lifecycle and one revision, and neither is ever replaced, although the  *)
(* files change while they are read and several runs write (finalize_b8).  *)
ReceiptIsEarned ==
  [](L!TypeOK /\ L!ReceiptIsEarned) /\ L!OutputsStay

(* A run that died between its two outputs is completed by repeating it,   *)
(* if nothing it reads has changed (_write_or_verify, the retained time).  *)
InterruptedRunsRecover == part = "finalization" => L!InterruptedRunsRecover
===============================================================================
