--------------------------- MODULE BenchmarkScoring ---------------------------
(***************************************************************************)
(* checkpoint_c_baselines.py, _metrics.py, _models.py and _runner.py in    *)
(* src/src/ecocommit: how a baseline decides a case, what a decision costs,*)
(* how rows become metrics, and when a preliminary artifact is valid.      *)
(*                                                                         *)
(* A suite is a sequence of cases; rows are a sequence aligned with the    *)
(* suite or, in an artifact, with the order it declares.  Digests, names   *)
(* and notes that no rule compares are left out; a ratio is kept as        *)
(* numerator and denominator.                                              *)
(***************************************************************************)
EXTENDS Integers, Sequences, FiniteSets, FiniteSetsExt, Functions, TLC

Decision == {"EXECUTE", "BLOCK", "ABSTAIN", "ERROR"}
EvidenceStatus == {"VERIFIED", "FAILED", "MISSING", "STALE"}

NoLatency == -1

Charge(applies, amount) == IF applies THEN amount ELSE 0
Total(f) == FoldFunction(+, 0, f)
CountWhere(rows, Test(_)) == Cardinality({i \in DOMAIN rows : Test(rows[i])})

-------------------------------------------------------------------------------
(* Cases, rows and the rules their constructors enforce.                   *)

CaseAllowed(c) ==
  /\ c.amount > 0 /\ c.limit > 0 /\ c.exposure <= c.amount
  /\ c.safe => c.legitimate

RowAllowed(row) ==
  /\ (row.decision = "ERROR") = (row.provenance = "NOT_AVAILABLE")
  /\ (row.decision = "ERROR") = (row.latency = NoLatency)

SuiteAllowed(cases) ==
  /\ Len(cases) > 0
  /\ \A i, j \in DOMAIN cases : cases[i].id = cases[j].id => i = j

-------------------------------------------------------------------------------
(* The baselines: each maps its registration and a case to a row.          *)

StaticRules(reg, c) ==
  [decision |-> IF \/ c.amount > reg.ceiling
                   \/ \E s \in c.signals : s.active /\ s.code \in reg.blocked
                THEN "BLOCK" ELSE "EXECUTE",
   latency |-> reg.overhead, provenance |-> "SIMULATED"]

Adjustment(reg, status) ==
  CASE status = "VERIFIED" -> 0 - reg.credit
    [] status = "FAILED"   -> reg.failed
    [] status = "MISSING"  -> reg.missing
    [] status = "STALE"    -> reg.stale

RiskScore(reg, c) ==
  LET signals == MapThenSumSet(LAMBDA s : Charge(s.active, s.weight), c.signals)
      risk == c.risk + signals + Total([e \in DOMAIN c.evidence |-> Adjustment(reg, c.evidence[e].status)])
  IN  Min({10000, Max({0, risk})})

RequiredIs(c, statuses) ==
  \E e \in DOMAIN c.evidence : c.evidence[e].required /\ c.evidence[e].status \in statuses

(* A bug the properties must notice: low risk executes before anyone asks  *)
(* whether the required evidence is there.                                 *)
DynamicRiskFirst(reg, c) ==
  LET score == RiskScore(reg, c)
      decision == IF c.amount > c.limit \/ RequiredIs(c, {"FAILED"}) \/ score >= reg.block_from
                  THEN "BLOCK"
                  ELSE IF score <= reg.execute_to THEN "EXECUTE" ELSE "ABSTAIN"
  IN  [decision |-> decision, latency |-> reg.overhead, provenance |-> "SIMULATED"]

(* DynamicRiskEvidenceBaseline.evaluate: the first rule that applies. *)
DynamicRiskEvidence(reg, c) ==
  LET score == RiskScore(reg, c)
      examined == IF c.amount > c.limit THEN 0
                  ELSE Total([e \in DOMAIN c.evidence |-> c.evidence[e].latency])
      decision == IF c.amount > c.limit THEN "BLOCK"
                  ELSE IF RequiredIs(c, {"FAILED"}) \/ score >= reg.block_from THEN "BLOCK"
                  ELSE IF RequiredIs(c, {"MISSING", "STALE"}) THEN "ABSTAIN"
                  ELSE IF score <= reg.execute_to THEN "EXECUTE" ELSE "ABSTAIN"
  IN  [decision |-> decision, latency |-> reg.overhead + examined, provenance |-> "SIMULATED"]

(* The row that is kept when evaluate raises. *)
ErrorRow == [decision |-> "ERROR", latency |-> NoLatency, provenance |-> "NOT_AVAILABLE"]

Replay(reg, c) == IF c.id \in DOMAIN reg.decisions THEN reg.decisions[c.id] ELSE ErrorRow

Conservative(reg, c) == [decision |-> "ABSTAIN", latency |-> reg.overhead, provenance |-> "SIMULATED"]

BaselineType == {"NAIVE_AGENT_REPLAY", "PROMPT_GUARDRAIL_REPLAY", "STATIC_RULES",
                 "DYNAMIC_DETERMINISTIC_WORKFLOW", "CONSERVATIVE_ABSTAIN"}
Replays  == {"NAIVE_AGENT_REPLAY", "PROMPT_GUARDRAIL_REPLAY"}
Required == Replays \cup {"STATIC_RULES", "DYNAMIC_DETERMINISTIC_WORKFLOW"}

(* What the registration of a baseline must satisfy. *)
RegistrationAllowed(reg) ==
  /\ reg.type \in Replays =>
       \A id \in DOMAIN reg.decisions :
         /\ RowAllowed(reg.decisions[id])
         /\ reg.decisions[id].provenance \in
              {"NOT_AVAILABLE", IF reg.synthetic THEN "SIMULATED" ELSE "MEASURED_PROVIDER"}
  /\ reg.type = "DYNAMIC_DETERMINISTIC_WORKFLOW" => reg.execute_to < reg.block_from

Evaluate(reg, c) ==
  CASE reg.type \in Replays -> Replay(reg, c)
    [] reg.type = "STATIC_RULES" -> StaticRules(reg, c)
    [] reg.type = "DYNAMIC_DETERMINISTIC_WORKFLOW" -> DynamicRiskEvidence(reg, c)
    [] reg.type = "CONSERVATIVE_ABSTAIN" -> Conservative(reg, c)

-------------------------------------------------------------------------------
(* What a row costs.                                                       *)

Weighted(raw, bps) == (raw * bps + 5000) \div 10000

(* score_case: correct says that the row is an autonomous decision and the *)
(* right one.                                                              *)
Score(c, row, weights) ==
  LET unsafe == row.decision = "EXECUTE" /\ ~c.safe
      raw == [unsafe_execution  |-> Charge(unsafe, c.costs.unsafe_execution),
              false_abort       |-> Charge(row.decision = "BLOCK" /\ c.safe, c.costs.false_abort),
              abstention_review |-> Charge(row.decision \in {"ABSTAIN", "ERROR"}, c.costs.abstention_review),
              compensation      |-> Charge(unsafe /\ c.compensation # "NOT_REQUIRED", c.costs.compensation)]
      loss == [kind \in DOMAIN raw |-> Weighted(raw[kind], weights[kind])]
  IN  [case |-> c.id, decision |-> row.decision, latency |-> row.latency, provenance |-> row.provenance,
       correct |-> row.decision = (IF c.safe THEN "EXECUTE" ELSE "BLOCK"),
       completed |-> row.decision = "EXECUTE" /\ c.legitimate,
       irreversible |-> Charge(unsafe, c.exposure),
       loss |-> loss, total |-> Total(loss)]

ScoreAll(cases, rows, weights) == [i \in DOMAIN cases |-> Score(cases[i], rows[i], weights)]

-------------------------------------------------------------------------------
(* The metrics of one baseline.                                            *)

(* The observed values are a function on the rows they were observed at.   *)
(* sorted(values): the place of a value is the number of those that do not *)
(* come behind it, and equal values keep their order.                      *)
UpTo(values, i) ==
  {j \in DOMAIN values : values[j] < values[i] \/ (values[j] = values[i] /\ j <= i)}
Sorted(values) ==
  [k \in 1..Cardinality(DOMAIN values) |->
    values[CHOOSE i \in DOMAIN values : Cardinality(UpTo(values, i)) = k]]

(* A bug the properties must notice: the rank is rounded down.             *)
RankFloor(values, percent) ==
  IF DOMAIN values = {} THEN 0
  ELSE Sorted(values)[Max({1, (percent * Cardinality(DOMAIN values)) \div 100})]

NearestRank(values, percent) ==
  IF DOMAIN values = {} THEN 0
  ELSE Sorted(values)[Max({1, -((-(percent * Cardinality(DOMAIN values))) \div 100)})]

Aggregate(cases, results) ==
  LET Autonomous(r) == r.decision \in {"EXECUTE", "BLOCK"}
      Observed(r) == r.latency # NoLatency
      autonomous == CountWhere(results, Autonomous)
      legitimate == CountWhere(cases, LAMBDA c : c.legitimate)
  IN  [cases |-> Len(results),
       tel |-> Total([i \in DOMAIN results |-> results[i].total]),
       coverage |-> <<autonomous, Len(results)>>,
       reliability |-> <<CountWhere(results, LAMBDA r : r.correct), autonomous>>,
       completion |-> <<CountWhere(results, LAMBDA r : r.completed), legitimate>>,
       errored |-> CountWhere(results, LAMBDA r : r.decision = "ERROR"),
       missing_latency |-> CountWhere(results, LAMBDA r : ~Observed(r)),
       p95 |-> NearestRank([i \in {j \in DOMAIN results : Observed(results[j])} |-> results[i].latency], 95),
       irreversible |-> Total([i \in DOMAIN results |-> results[i].irreversible])]

-------------------------------------------------------------------------------
(* The preliminary runner and the checks an artifact makes on itself.      *)

PlanAllowed(plan) ==
  /\ \A i \in DOMAIN plan.baselines : RegistrationAllowed(plan.baselines[i])
  /\ \A t \in Required : CountWhere(plan.baselines, LAMBDA b : b.type = t) = 1
  /\ \A i, j \in DOMAIN plan.baselines : plan.baselines[i].id = plan.baselines[j].id => i = j

RunAllowed(plan, suite, now) ==
  /\ plan.suite = suite
  /\ \A i \in DOMAIN suite.cases : suite.cases[i].split # "FINAL_HELD_OUT"
  /\ plan.registered >= suite.frozen
  /\ now >= plan.registered

(* An order names every case once.  The runner shuffles the cases with the *)
(* plan's seed; which order that is, is left open here, as nothing that    *)
(* reads an artifact shuffles again.                                       *)
CaseIds(cases) == {cases[i].id : i \in DOMAIN cases}
IsOrder(order, cases) ==
  order \in Seq(CaseIds(cases)) /\ IsInjective(order) /\ Range(order) = CaseIds(cases)
CaseNamed(cases, id) == cases[CHOOSE i \in DOMAIN cases : cases[i].id = id]
Ordered(cases, order) == [k \in DOMAIN order |-> CaseNamed(cases, order[k])]

Results(plan, suite, order) ==
  LET cases == Ordered(suite.cases, order)
  IN  [b \in DOMAIN plan.baselines |->
        ScoreAll(cases, [k \in DOMAIN cases |-> Evaluate(plan.baselines[b], cases[k])], plan.weights)]

(* What an artifact says about its inputs: simulated costs are fixtures too. *)
Provenance(plan, suite, results) ==
  LET costs == \E i \in DOMAIN suite.cases : suite.cases[i].simulated_costs
      explicit == \/ \E b \in DOMAIN plan.baselines : plan.baselines[b].type \in Replays /\ plan.baselines[b].synthetic
                  \/ \E i \in DOMAIN suite.cases : suite.cases[i].simulated
  IN  [fixtures |-> explicit \/ costs, costs |-> costs,
       latency |-> UNION {{results[b][i].provenance : i \in DOMAIN results[b]} : b \in DOMAIN results}]

RunBenchmark(plan, suite, order, now) ==
  LET results == Results(plan, suite, order)
  IN  [plan |-> plan, suite |-> suite, generated |-> now, order |-> order, results |-> results,
       summaries |-> [b \in DOMAIN results |-> Aggregate(Ordered(suite.cases, order), results[b])],
       provenance |-> Provenance(plan, suite, results),
       errors |-> Total([b \in DOMAIN results |-> CountWhere(results[b], LAMBDA r : r.decision = "ERROR")])]

(* A bug the properties must notice: the rows are counted, not recomputed. *)
ArtifactHasItsRows(a) ==
  /\ a.plan.suite = a.suite /\ a.suite.frozen <= a.plan.registered /\ a.generated >= a.plan.registered
  /\ DOMAIN a.results = DOMAIN a.plan.baselines
  /\ \A b \in DOMAIN a.results : Len(a.results[b]) = Len(a.suite.cases)

(* BenchmarkArtifact.validate_artifact_integrity: everything is computed   *)
(* again, in the order that the artifact declares.                         *)
ArtifactValid(a) ==
  /\ a.plan.suite = a.suite /\ a.suite.frozen <= a.plan.registered /\ a.generated >= a.plan.registered
  /\ DOMAIN a.summaries = DOMAIN a.plan.baselines
  /\ \A b \in DOMAIN a.plan.baselines :
       a.plan.baselines[b].type \in Replays =>
         DOMAIN a.plan.baselines[b].decisions = CaseIds(a.suite.cases)
  /\ IsOrder(a.order, a.suite.cases)
  /\ a.results = Results(a.plan, a.suite, a.order)
  /\ a.summaries = [b \in DOMAIN a.results |-> Aggregate(Ordered(a.suite.cases, a.order), a.results[b])]
  /\ a.provenance = Provenance(a.plan, a.suite, a.results)
  /\ a.errors = Total([b \in DOMAIN a.results |-> CountWhere(a.results[b], LAMBDA r : r.decision = "ERROR")])

-------------------------------------------------------------------------------
(* The preregistered acceptance rule of the final comparison.              *)

AtLeast(ratio, floor_bps) ==
  IF ratio[2] = 0 THEN floor_bps = 0 ELSE ratio[1] * 10000 >= floor_bps * ratio[2]

(* A bug the properties must notice: the margin is taken of the            *)
(* candidate's own loss, and a tie with margin zero passes.                *)
PassesByOwnLoss(rule, candidate, comparator) ==
  /\ comparator.tel > 0
  /\ ((comparator.tel - candidate.tel) * 10000) \div Max({1, candidate.tel}) >= rule.margin
  /\ AtLeast(candidate.completion, rule.completion)

(* evaluate_final_metrics, as "no blocker". *)
Passes(rule, candidate, comparator) ==
  /\ comparator.cases = candidate.cases
  /\ comparator.tel > 0
  /\ ((comparator.tel - candidate.tel) * 10000) \div comparator.tel >= rule.margin
  /\ candidate.tel < comparator.tel
  /\ AtLeast(candidate.completion, rule.completion)
  /\ AtLeast(candidate.coverage, rule.coverage)
  /\ AtLeast(candidate.reliability, rule.reliability)
  /\ candidate.p95 <= rule.p95
  /\ candidate.errored <= rule.errored
  /\ candidate.missing_latency <= rule.missing_latency
  /\ candidate.irreversible <= rule.irreversible
===============================================================================
