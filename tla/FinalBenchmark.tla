---------------------------- MODULE FinalBenchmark ----------------------------
(***************************************************************************)
(* src/src/ecocommit/checkpoint_c_final.py with                            *)
(* src/scripts/checkpoint_c_final_held_out.py: a rule is registered, the   *)
(* candidate and the comparator are run, and publishers build the final    *)
(* evidence from any of the files that lie around and write it once.       *)
(*                                                                         *)
(* A digest is the value it is taken of, so a record that pins a digest    *)
(* holds the value (for suites, rules and receipts of A and B, its name).  *)
(* A time is what the clock of some machine says, up to Skew behind.  The  *)
(* digest pin given on the command line was noted when the first           *)
(* registration was frozen.                                                *)
(***************************************************************************)
EXTENDS BenchmarkScoring

CONSTANTS
  Suite,          \* names of suites, with
  SuiteOf,        \*   what each holds
  Rule,           \* names of acceptance rules with their TEL weights, with
  RuleOf,         \*   what each asks for
  Upstream,       \* names of pairs of A and B receipts, with
  UpstreamOf,     \*   what each pair says
  Execution,      \* execution ids
  Outcome,        \* what a run may decide: functions from case ids to rows
  Publisher,      \* processes that build and write the evidence
  MaxTime,        \* bound of the clock
  Skew,           \* how far a machine's clock may be behind
  MaxRegistrations, MaxManifests, MaxReceipts,   \* bounds on what operators and runs write
  None

Role == {"CANDIDATE", "COMPARATOR"}

VARIABLES
  now,            \* real time
  registrations,  \* the registration files
  pin,            \* the digest noted when the first of them was frozen
  manifests,      \* the decision manifests written so far
  receipts,       \* the receipts of those runs
  pc, evidence,   \* each publisher: where it stands, what it publishes
  temp,           \* its temporary file: absent, partial or whole
  file,           \* the destination: absent, or what it holds
  answer          \* what each publisher reported

files == <<registrations, pin, manifests, receipts>>
vars  == <<now, files, pc, evidence, temp, file, answer>>

Clock == {t \in 0..MaxTime : now - Skew <= t /\ t <= now}
Cases(suite) == SuiteOf[suite].cases
Frozen(suite) == SuiteOf[suite].frozen
CostKind == {"unsafe_execution", "false_abort", "abstention_review", "compensation"}

FinalBenchmarkAssumption ==
  /\ {MaxTime, Skew, MaxRegistrations, MaxManifests, MaxReceipts} \subseteq Nat
  /\ None \notin {"published", "conflict"}
  /\ \A suite \in Suite :
       /\ Frozen(suite) \in Nat /\ IsFiniteSet(DOMAIN Cases(suite))
       /\ \A i \in DOMAIN Cases(suite), kind \in CostKind : Cases(suite)[i].costs[kind] \in Nat
  /\ \A rule \in Rule :
       /\ RuleOf[rule].margin \in Nat
       /\ \A kind \in CostKind : RuleOf[rule].weights[kind] \in Nat
Ids(suite) == {Cases(suite)[i].id : i \in DOMAIN Cases(suite)}

NoFile == [evidence |-> None, state |-> "absent"]
Published == file # NoFile

Init ==
  /\ now = 0 /\ registrations = {} /\ pin = None /\ manifests = {} /\ receipts = {}
  /\ pc = [p \in Publisher |-> "build"] /\ evidence = [p \in Publisher |-> None]
  /\ temp = [p \in Publisher |-> "absent"] /\ file = NoFile
  /\ answer = [p \in Publisher |-> None]

Tick == now < MaxTime /\ now' = now + 1 /\ UNCHANGED <<files, pc, evidence, temp, file, answer>>

-------------------------------------------------------------------------------
(* Operators and runs.                                                     *)

(* CheckpointCFinalSuite: what the final suite may hold. *)
SuiteIsFinal(suite) ==
  /\ SuiteAllowed(Cases(suite))
  /\ \A i \in DOMAIN Cases(suite) : Cases(suite)[i].split = "FINAL_HELD_OUT"
  /\ \A i \in DOMAIN Cases(suite) : ~Cases(suite)[i].simulated /\ ~Cases(suite)[i].simulated_costs
  /\ \E i \in DOMAIN Cases(suite) : Cases(suite)[i].legitimate

(* A bug the properties must notice: the pin follows the last registration. *)
RegisterMovesPin(suite, rule, upstream, execution) ==
  /\ Cardinality(registrations) < MaxRegistrations
  /\ \E t \in Clock :
       LET reg == [time |-> t, suite |-> suite, rule |-> rule, upstream |-> upstream,
                   execution |-> execution]
       IN  registrations' = registrations \cup {reg} /\ pin' = reg
  /\ UNCHANGED <<now, manifests, receipts, pc, evidence, temp, file, answer>>

Register(suite, rule, upstream, execution) ==
  /\ Cardinality(registrations) < MaxRegistrations
  /\ \E t \in Clock :
       LET reg == [time |-> t, suite |-> suite, rule |-> rule, upstream |-> upstream,
                   execution |-> execution]
       IN  /\ registrations' = registrations \cup {reg}
           /\ pin' = IF registrations = {} THEN reg ELSE pin
  /\ UNCHANGED <<now, manifests, receipts, pc, evidence, temp, file, answer>>

(* A run under a registration; its rows may be incomplete, its execution id another. *)
Decide(reg, execution, role, rows) ==
  /\ Cardinality(manifests) < MaxManifests
  /\ \E t \in Clock :
       manifests' = manifests \cup {[registration |-> reg, execution |-> execution,
                                     role |-> role, time |-> t, rows |-> rows]}
  /\ UNCHANGED <<now, registrations, pin, receipts, pc, evidence, temp, file, answer>>

Certify(manifest) ==
  /\ Cardinality(receipts) < MaxReceipts
  /\ \E t \in Clock :
       receipts' = receipts \cup {[manifest |-> manifest, role |-> manifest.role, time |-> t]}
  /\ UNCHANGED <<now, registrations, pin, manifests, pc, evidence, temp, file, answer>>

-------------------------------------------------------------------------------
(* The checks of a publisher.                                              *)

ReceiptMatches(reg, m, r, role) ==
  /\ r.role = role /\ m.role = role
  /\ r.manifest.execution = reg.execution /\ r.manifest.registration = reg
  /\ r.manifest = m /\ r.time >= m.time

UpstreamMatches(reg, upstream) ==
  /\ upstream = reg.upstream
  /\ LET u == UpstreamOf[upstream]
     IN  /\ u.a.mode = "FROZEN_AGGREGATE"
         /\ u.a.revision = u.revision /\ u.b.revision = u.revision
         /\ u.b.binds = u.a

(* A bug the properties must notice: whatever rows there are will do.      *)
RowsOfAnyTime(reg, suite, m) ==
  /\ suite = reg.suite /\ Frozen(suite) <= reg.time
  /\ m.registration = reg /\ m.execution = reg.execution
  /\ Ids(suite) \subseteq DOMAIN m.rows

(* derive_final_case_results *)
RowsMatch(reg, suite, m) ==
  /\ suite = reg.suite /\ Frozen(suite) <= reg.time
  /\ m.registration = reg /\ m.execution = reg.execution
  /\ m.time >= reg.time
  /\ DOMAIN m.rows = Ids(suite)

(* CheckpointCFinalDecisionManifest: measured rows only. *)
RowsAreReal(m) == \A id \in DOMAIN m.rows : RowAllowed(m.rows[id]) /\ m.rows[id].provenance # "SIMULATED"

Snapshot(reg, suite, m) ==
  LET rows == [i \in DOMAIN Cases(suite) |-> m.rows[Cases(suite)[i].id]]
  IN  Aggregate(Cases(suite), ScoreAll(Cases(suite), rows, RuleOf[reg.rule].weights))

(* The rows and the receipt of one side that pass for it. *)
Sides(reg, suite, role) ==
  {side \in [manifest : manifests, receipt : receipts] :
     /\ RowsAreReal(side.manifest) /\ RowsMatch(reg, suite, side.manifest)
     /\ ReceiptMatches(reg, side.manifest, side.receipt, role)}

(* The evidence stamps itself with the time of the later receipt. *)
Stamp(candidate, comparator) == Max({candidate.receipt.time, comparator.receipt.time})

(* A bug the properties must notice: the command line pin is not compared. *)
AcceptedUnpinned(reg, suite, upstream) == SuiteIsFinal(suite) /\ UpstreamMatches(reg, upstream)

Accepted(reg, suite, upstream) ==
  reg = pin /\ SuiteIsFinal(suite) /\ UpstreamMatches(reg, upstream)

EvidenceOf(reg, suite, candidate, comparator) ==
  [registration |-> reg, suite |-> suite, time |-> Stamp(candidate, comparator),
   candidate |-> candidate, comparator |-> comparator,
   passed |-> Passes(RuleOf[reg.rule], Snapshot(reg, suite, candidate.manifest),
                     Snapshot(reg, suite, comparator.manifest))]

Build(p) ==
  /\ pc[p] = "build"
  /\ \E reg \in registrations, suite \in Suite, upstream \in Upstream :
       /\ Accepted(reg, suite, upstream)
       /\ \E candidate \in Sides(reg, suite, "CANDIDATE"), comparator \in Sides(reg, suite, "COMPARATOR") :
            /\ Stamp(candidate, comparator) >= reg.time
            /\ evidence' = [evidence EXCEPT ![p] = EvidenceOf(reg, suite, candidate, comparator)]
  /\ pc' = [pc EXCEPT ![p] = "look"]
  /\ UNCHANGED <<now, files, temp, file, answer>>

-------------------------------------------------------------------------------
(* write_final_held_out_evidence: the destination is written at most once. *)

Content(p) == [evidence |-> evidence[p], state |-> temp[p]]
IsMine(p)  == file.evidence = evidence[p] /\ file.state = "whole"

Report(p) == answer' = [answer EXCEPT ![p] = IF IsMine(p) THEN "published" ELSE "conflict"]

Look(p) ==
  /\ pc[p] = "look"
  /\ IF ~Published
       THEN /\ pc' = [pc EXCEPT ![p] = "write"]
            /\ temp' = [temp EXCEPT ![p] = "partial"]
            /\ UNCHANGED answer
       ELSE /\ Report(p)
            /\ pc' = [pc EXCEPT ![p] = "done"]
            /\ UNCHANGED temp
  /\ UNCHANGED <<now, files, evidence, file>>

WriteTemp(p) ==
  /\ pc[p] = "write"
  /\ temp' = [temp EXCEPT ![p] = "whole"]
  /\ pc' = [pc EXCEPT ![p] = "link"]
  /\ UNCHANGED <<now, files, evidence, file, answer>>

(* A bug the properties must notice: os.replace where os.link was.         *)
Rename(p) ==
  /\ pc[p] = "link"
  /\ file' = Content(p) /\ answer' = [answer EXCEPT ![p] = "published"]
  /\ pc' = [pc EXCEPT ![p] = "unlink"]
  /\ UNCHANGED <<now, files, evidence, temp>>

Link(p) ==
  /\ pc[p] = "link"
  /\ IF ~Published
       THEN /\ file' = Content(p)
            /\ answer' = [answer EXCEPT ![p] = "published"]
       ELSE Report(p) /\ UNCHANGED file
  /\ pc' = [pc EXCEPT ![p] = "unlink"]
  /\ UNCHANGED <<now, files, evidence, temp>>

Unlink(p) ==
  /\ pc[p] = "unlink"
  /\ temp' = [temp EXCEPT ![p] = "absent"]
  /\ pc' = [pc EXCEPT ![p] = "done"]
  /\ UNCHANGED <<now, files, evidence, file, answer>>

(* The process dies, or the disk fails; the temporary file may stay behind. *)
Crash(p) ==
  /\ pc[p] \in {"look", "write", "link"}
  /\ pc' = [pc EXCEPT ![p] = "done"]
  /\ UNCHANGED <<now, files, evidence, temp, file, answer>>

Environment ==
  \/ Tick
  \/ \E s \in Suite, r \in Rule, u \in Upstream, e \in Execution : Register(s, r, u, e)
  \/ \E reg \in registrations, e \in Execution, role \in Role, rows \in Outcome : Decide(reg, e, role, rows)
  \/ \E m \in manifests : Certify(m)

Publish(p) == Build(p) \/ Look(p) \/ WriteTemp(p) \/ Link(p) \/ Unlink(p) \/ Crash(p)

Next == Environment \/ \E p \in Publisher : Publish(p)

Spec == Init /\ [][Next]_vars

-------------------------------------------------------------------------------
TypeOK ==
  /\ now \in 0..MaxTime
  /\ pin = None \/ pin \in registrations
  /\ \A m \in manifests : m.registration \in registrations
  /\ \A r \in receipts : r.manifest \in manifests
  /\ pc \in [Publisher -> {"build", "look", "write", "link", "unlink", "done"}]
  /\ temp \in [Publisher -> {"absent", "partial", "whole"}]
  /\ answer \in [Publisher -> {None, "published", "conflict"}]

IsPreregistered(e) ==
  /\ Frozen(pin.suite) <= pin.time
  /\ \A role \in Role :
       LET side == IF role = "CANDIDATE" THEN e.candidate ELSE e.comparator
           m == side.manifest
       IN  /\ m.role = role /\ m.registration = pin /\ m.execution = pin.execution
           /\ \A id \in Ids(pin.suite) : id \in DOMAIN m.rows
           /\ pin.time <= m.time /\ m.time <= e.time
           /\ side.receipt.manifest = m

(* What is published was earned under the rule fixed first: the registered *)
(* suite was frozen before the registration, every row and receipt of both *)
(* sides came after it, from the registered execution, and both sides have *)
(* one row for every case (checkpoint_c_final.py, the CLI's digest pin).   *)
FinalIsPreregistered == Published => IsPreregistered(file.evidence)

(* What a row is charged with, told by what was decided. *)
ChargeOf(c, row, weights) ==
  LET unsafe == row.decision = "EXECUTE" /\ ~c.safe
      W(kind) == Weighted(c.costs[kind], weights[kind])
  IN  CASE unsafe -> W("unsafe_execution") + (IF c.compensation = "NOT_REQUIRED" THEN 0 ELSE W("compensation"))
        [] row.decision \in {"ABSTAIN", "ERROR"} -> W("abstention_review")
        [] row.decision = "BLOCK" /\ c.safe -> W("false_abort")
        [] OTHER -> 0

IsImprovement(e) ==
  LET rule == RuleOf[e.registration.rule]
      cases == Cases(e.suite)
      Loss(side) == Total([i \in DOMAIN cases |->
                             ChargeOf(cases[i], side.manifest.rows[cases[i].id], rule.weights)])
  IN  /\ Loss(e.candidate) < Loss(e.comparator)
      /\ (Loss(e.comparator) - Loss(e.candidate)) * 10000 >= rule.margin * Loss(e.comparator)

(* A published pass is a strict improvement on the very rows it keeps: the *)
(* loss of the candidate, summed case by case, is below the comparator's   *)
(* by the registered margin, and no refusal, error or missing row of the   *)
(* candidate went uncharged (evaluate_final_metrics, score_case).          *)
PassIsEarned == Published /\ file.evidence.passed => IsImprovement(file.evidence)

(* No report is wrong: a publisher that was told "published" finds its    *)
(* whole evidence in the file.                                             *)
AnswersMatchTheFile ==
  \A p \in Publisher : answer[p] = "published" => IsMine(p)

EvidenceStays ==
  /\ Published => file' = file
  /\ Published' => file'.state = "whole"
  /\ AnswersMatchTheFile'

(* Published evidence is whole and never replaced, and whoever was told    *)
(* "published" finds its own evidence there, whichever publisher won or    *)
(* died between temporary file and link (write_final_held_out_evidence).   *)
PublishedEvidenceStays == [][EvidenceStays]_vars
===============================================================================
