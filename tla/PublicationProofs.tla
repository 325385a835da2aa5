--------------------------- MODULE PublicationProofs ---------------------------
(***************************************************************************)
(* What the scripts of MCPublication are guaranteed to publish, for any    *)
(* suites, rules, runs, clocks, files, faults and numbers of writers:      *)
(* the final evidence (FinalBenchmark), the receipt of Checkpoint B        *)
(* (Finalization), and the verdicts of Checkpoint A (Evaluation, Shards).  *)
(***************************************************************************)
EXTENDS ScoringProofs, FiniteSetTheorems, WellFoundedInduction, TLAPS

-------------------------------------------------------------------------------
(* The final evidence (FinalBenchmark). *)

FilesAreDated ==
  /\ now \in 0..MaxTime
  /\ IF registrations = {} THEN pin = None ELSE pin \in registrations
  /\ \A reg \in registrations : reg.time \in Nat /\ reg.rule \in Rule
  /\ \A m \in manifests : m.time \in Nat /\ m.registration \in registrations
  /\ \A r \in receipts : r.time \in Nat /\ r.manifest \in manifests

(* Evidence that was accepted: what it says of the pinned registration     *)
(* stays true, since the pin stays where it is.                            *)
IsEarned(e) ==
  /\ registrations # {} /\ IsPreregistered(e)
  /\ e.passed => IsImprovement(e)

PublishersAreTruthful ==
  \A p \in Publisher :
    /\ pc[p] # "build" => IsEarned(evidence[p])
    /\ pc[p] = "link" => temp[p] = "whole"
    /\ answer[p] = "published" => pc[p] # "build" /\ Published /\ IsMine(p)

FileIsEarned == Published => file.state = "whole" /\ IsEarned(file.evidence)

PublisherTypes ==
  /\ pc \in [Publisher -> {"build", "look", "write", "link", "unlink", "done"}]
  /\ temp \in [Publisher -> {"absent", "partial", "whole"}]
  /\ answer \in [Publisher -> {None, "published", "conflict"}]
  /\ DOMAIN evidence = Publisher

PInv == FilesAreDated /\ PublisherTypes /\ PublishersAreTruthful /\ FileIsEarned

LEMMA FinalInitInv == Init => PInv
<1> SUFFICES ASSUME Init PROVE PInv
  OBVIOUS
<1>1. FilesAreDated
  BY FinalAssumed DEF Init, FilesAreDated, FinalBenchmarkAssumption
<1>2. PublisherTypes /\ FileIsEarned
  BY DEF Init, PublisherTypes, FileIsEarned, Published
<1>3. PublishersAreTruthful
  BY FinalAssumed DEF Init, PublishersAreTruthful, FinalBenchmarkAssumption
<1> QED
  BY <1>1, <1>2, <1>3 DEF PInv

LEMMA ClockIsNat == now \in 0..MaxTime => Clock \subseteq Nat
BY FinalAssumed DEF Clock, FinalBenchmarkAssumption

(* Operators and runs add files; the pin was noted with the first. *)
LEMMA EnvironmentKeepsFinal == PInv /\ Environment => PInv'
<1> SUFFICES ASSUME PInv, Environment PROVE PInv'
  OBVIOUS
<1>1. /\ UNCHANGED <<pc, evidence, temp, file, answer>>
      /\ registrations # {} => pin' = pin /\ registrations' # {}
  BY DEF Environment, Tick, files, Register, Decide, Certify
<1>2. \A e : IsEarned(e) => IsEarned(e)'
  <2> SUFFICES ASSUME NEW e, IsEarned(e) PROVE IsEarned(e)'
    OBVIOUS
  <2>1. pin' = pin /\ registrations' # {}
    BY <1>1 DEF IsEarned
  <2> QED
    BY <2>1 DEF IsEarned, IsPreregistered, IsImprovement
<1>3. PublisherTypes' /\ PublishersAreTruthful' /\ FileIsEarned'
  BY <1>1, <1>2 DEF PInv, PublisherTypes, PublishersAreTruthful, FileIsEarned, Published, IsMine
<1>4. FilesAreDated'
  <2>1. Clock \subseteq Nat
    BY ClockIsNat DEF PInv, FilesAreDated
  <2>2. CASE Tick
    BY <2>2, FinalAssumed DEF PInv, FilesAreDated, Tick, files, FinalBenchmarkAssumption
  <2>3. ASSUME NEW s \in Suite, NEW r \in Rule, NEW u \in Upstream, NEW e \in Execution, Register(s, r, u, e)
        PROVE  FilesAreDated'
    BY <2>1, <2>3 DEF PInv, FilesAreDated, Register
  <2>4. ASSUME NEW reg \in registrations, NEW e \in Execution, NEW role \in Role, NEW d \in Outcome,
               Decide(reg, e, role, d)
        PROVE  FilesAreDated'
    <3>1. PICK t \in Clock : manifests' = manifests \cup {[registration |-> reg, execution |-> e,
                                                          role |-> role, time |-> t, rows |-> d]}
      BY <2>4 DEF Decide
    <3>2. UNCHANGED <<now, registrations, pin, receipts>>
      BY <2>4 DEF Decide
    <3> QED
      BY <2>1, <3>1, <3>2 DEF PInv, FilesAreDated
  <2>5. ASSUME NEW m \in manifests, Certify(m)
        PROVE  FilesAreDated'
    <3>1. PICK t \in Clock : receipts' = receipts \cup {[manifest |-> m, role |-> m.role, time |-> t]}
      BY <2>5 DEF Certify
    <3>2. UNCHANGED <<now, registrations, pin, manifests>>
      BY <2>5 DEF Certify
    <3> QED
      BY <2>1, <3>1, <3>2 DEF PInv, FilesAreDated
  <2> QED
    BY <2>2, <2>3, <2>4, <2>5 DEF Environment
<1> QED
  BY <1>3, <1>4 DEF PInv

LEMMA MaxOfTwo == ASSUME NEW a \in Nat, NEW b \in Nat PROVE Max({a, b}) \in Nat /\ Max({a, b}) >= a /\ Max({a, b}) >= b
<1>1. \E x \in {a, b} : \A y \in {a, b} : x >= y
  <2>1. CASE a >= b
    BY <2>1
  <2>2. CASE b >= a
    BY <2>2
  <2> QED
    BY <2>1, <2>2
<1>2. Max({a, b}) \in {a, b} /\ \A y \in {a, b} : Max({a, b}) >= y
  BY <1>1 DEF Max
<1> QED
  BY <1>2

(* What the checks of a publisher establish. *)
LEMMA AcceptedIsEarned ==
  ASSUME FilesAreDated, NEW reg \in registrations, NEW suite \in Suite, NEW upstream \in Upstream,
         Accepted(reg, suite, upstream),
         NEW candidate \in Sides(reg, suite, "CANDIDATE"), NEW comparator \in Sides(reg, suite, "COMPARATOR")
  PROVE  IsEarned(EvidenceOf(reg, suite, candidate, comparator))
<1> DEFINE e == EvidenceOf(reg, suite, candidate, comparator)
<1>1. reg = pin /\ reg.time \in Nat /\ reg.rule \in Rule
  BY DEF Accepted, FilesAreDated
<1>2. ASSUME NEW role \in Role, NEW side \in Sides(reg, suite, role)
      PROVE  LET m == side.manifest
             IN  /\ suite = pin.suite /\ Frozen(suite) <= pin.time
                 /\ m.role = role /\ m.registration = pin /\ m.execution = pin.execution
                 /\ DOMAIN m.rows = Ids(pin.suite)
                 /\ pin.time <= m.time /\ m.time <= side.receipt.time
                 /\ side.receipt.manifest = m
                 /\ m.time \in Nat /\ side.receipt.time \in Nat
  BY <1>1, <1>2 DEF Sides, RowsMatch, ReceiptMatches, FilesAreDated
<1>3. "CANDIDATE" \in Role /\ "COMPARATOR" \in Role
  BY DEF Role
<1>4. e.time \in Nat /\ e.time >= candidate.receipt.time /\ e.time >= comparator.receipt.time
  BY <1>2, <1>3, MaxOfTwo DEF EvidenceOf, Stamp
<1>5. /\ e.registration = reg /\ e.suite = suite /\ e.candidate = candidate /\ e.comparator = comparator
      /\ e.passed = Passes(RuleOf[reg.rule], Snapshot(reg, suite, candidate.manifest),
                           Snapshot(reg, suite, comparator.manifest))
  BY DEF EvidenceOf
<1> HIDE DEF e
<1>6. IsPreregistered(e)
  <2> SUFFICES ASSUME NEW role \in Role
               PROVE  LET side == IF role = "CANDIDATE" THEN e.candidate ELSE e.comparator
                          m == side.manifest
                      IN  /\ m.role = role /\ m.registration = pin /\ m.execution = pin.execution
                          /\ \A id \in Ids(pin.suite) : id \in DOMAIN m.rows
                          /\ pin.time <= m.time /\ m.time <= e.time
                          /\ side.receipt.manifest = m
    BY <1>2, <1>3 DEF IsPreregistered
  <2>1. CASE role = "CANDIDATE"
    BY <1>1, <1>2, <1>3, <1>4, <1>5, <2>1
  <2>2. CASE role = "COMPARATOR"
    BY <1>1, <1>2, <1>3, <1>4, <1>5, <2>2
  <2> QED
    BY <2>1, <2>2 DEF Role
<1>7. e.passed => IsImprovement(e)
  <2> DEFINE ours == Snapshot(reg, suite, candidate.manifest)
             theirs == Snapshot(reg, suite, comparator.manifest)
             weights == RuleOf[reg.rule].weights
  <2>1. /\ ours.tel = LossOf(Cases(suite), candidate, weights) /\ ours.tel \in Nat
        /\ theirs.tel = LossOf(Cases(suite), comparator, weights) /\ theirs.tel \in Nat
    BY <1>1, SnapshotSumsCharges
  <2>2. RuleOf[reg.rule].margin \in Nat
    BY <1>1, FinalAssumed DEF FinalBenchmarkAssumption
  <2>3. IsImprovement(e) <=>
          /\ LossOf(Cases(suite), candidate, weights) < LossOf(Cases(suite), comparator, weights)
          /\ (LossOf(Cases(suite), comparator, weights) - LossOf(Cases(suite), candidate, weights)) * 10000
               >= RuleOf[reg.rule].margin * LossOf(Cases(suite), comparator, weights)
    BY <1>5 DEF IsImprovement, LossOf
  <2>4. e.passed = Passes(RuleOf[reg.rule], ours, theirs)
    BY <1>5
  <2> HIDE DEF ours, theirs, weights
  <2>6. e.passed => /\ ours.tel < theirs.tel
                    /\ (theirs.tel - ours.tel) * 10000 >= RuleOf[reg.rule].margin * theirs.tel
    <3> SUFFICES ASSUME e.passed
                 PROVE  /\ ours.tel < theirs.tel
                        /\ (theirs.tel - ours.tel) * 10000 >= RuleOf[reg.rule].margin * theirs.tel
      OBVIOUS
    <3>1. Passes(RuleOf[reg.rule], ours, theirs)
      BY <2>4
    <3> QED
      BY <2>1, <2>2, <3>1, PassIsStrict
  <2> QED
    BY <2>1, <2>3, <2>6
<1> QED
  BY <1>6, <1>7 DEF IsEarned, e


LEMMA PublisherKeepsFinal == ASSUME PInv, NEW p \in Publisher, Publish(p) PROVE PInv'
<1>1. UNCHANGED <<now, registrations, pin, manifests, receipts>>
  BY DEF Publish, Build, Look, WriteTemp, Link, Unlink, Crash, files
<1>2. FilesAreDated'
  BY <1>1 DEF PInv, FilesAreDated
<1>3. \A e : IsEarned(e) <=> IsEarned(e)'
  BY <1>1 DEF IsEarned, IsPreregistered, IsImprovement
<1>4. PublisherTypes'
  BY DEF PInv, PublisherTypes, Publish, Build, Look, WriteTemp, Link, Unlink, Crash, Report
<1>5. /\ pc \in [Publisher -> {"build", "look", "write", "link", "unlink", "done"}]
      /\ DOMAIN temp = Publisher /\ DOMAIN answer = Publisher /\ DOMAIN evidence = Publisher
      /\ FileIsEarned /\ PublishersAreTruthful
  BY DEF PInv, PublisherTypes
<1>6. ASSUME \/ file' = file
             \/ ~Published /\ file' = [evidence |-> evidence'[p], state |-> "whole"],
             \A q \in Publisher : q # p => /\ pc'[q] = pc[q] /\ temp'[q] = temp[q] /\ answer'[q] = answer[q]
                                          /\ evidence'[q] = evidence[q],
             pc'[p] # "build", IsEarned(evidence'[p]),
             pc'[p] = "link" => temp'[p] = "whole",
             answer'[p] = "published" => Published' /\ IsMine(p)'
      PROVE  PInv'
  <2>1. FileIsEarned'
    BY <1>3, <1>5, <1>6 DEF FileIsEarned, Published, NoFile
  <2>2. ASSUME NEW q \in Publisher, q # p PROVE PublishersAreTruthful!(q)'
    <3>1. pc'[q] = pc[q] /\ temp'[q] = temp[q] /\ answer'[q] = answer[q] /\ evidence'[q] = evidence[q]
      BY <1>6, <2>2
    <3>2. answer[q] = "published" => Published /\ file' = file
      BY <1>5, <1>6 DEF PublishersAreTruthful
    <3> QED
      BY <1>3, <1>5, <3>1, <3>2 DEF PublishersAreTruthful, Published, NoFile, IsMine
  <2>3. PublishersAreTruthful!(p)'
    BY <1>3, <1>6
  <2>4. PublishersAreTruthful'
    BY <2>2, <2>3 DEF PublishersAreTruthful
  <2> QED
    BY <1>2, <1>4, <2>1, <2>4 DEF PInv
<1>7. CASE Build(p)
  <2>1. PICK reg \in registrations, suite \in Suite, upstream \in Upstream :
          /\ Accepted(reg, suite, upstream)
          /\ \E candidate \in Sides(reg, suite, "CANDIDATE"), comparator \in Sides(reg, suite, "COMPARATOR") :
               evidence' = [evidence EXCEPT ![p] = EvidenceOf(reg, suite, candidate, comparator)]
    BY <1>7 DEF Build
  <2>2. IsEarned(evidence'[p])
    BY <1>5, <2>1, AcceptedIsEarned DEF PInv
  <2>3. /\ pc[p] = "build" /\ pc' = [pc EXCEPT ![p] = "look"] /\ UNCHANGED <<temp, file, answer>>
        /\ \A q \in Publisher : q # p => evidence'[q] = evidence[q]
    BY <1>5, <1>7, <2>1 DEF Build
  <2>4. answer[p] # "published"
    BY <1>5, <2>3 DEF PublishersAreTruthful
  <2> QED
    BY <1>5, <1>6, <2>2, <2>3, <2>4
<1>8. CASE ~Build(p)
  <2>1. UNCHANGED evidence /\ pc[p] # "build" /\ IsEarned(evidence[p]) /\ pc'[p] # "build"
        /\ \A q \in Publisher : q # p => pc'[q] = pc[q] /\ temp'[q] = temp[q] /\ answer'[q] = answer[q]
    BY <1>5, <1>8 DEF Publish, Look, WriteTemp, Link, Unlink, Crash, Report, PublishersAreTruthful
  <2>2. answer'[p] = answer[p] /\ file' = file => (answer'[p] = "published" => Published' /\ IsMine(p)')
    BY <1>5, <2>1 DEF PublishersAreTruthful, Published, NoFile, IsMine
  <2>3. CASE Look(p) \/ WriteTemp(p) \/ Unlink(p) \/ Crash(p)
    <3>1. file' = file /\ (pc'[p] = "link" => temp'[p] = "whole")
      BY <1>5, <2>3 DEF Look, WriteTemp, Unlink, Crash
    <3>2. answer'[p] = "published" => Published' /\ IsMine(p)'
      <4>1. CASE answer'[p] = answer[p]
        BY <2>2, <3>1, <4>1
      <4>2. CASE Look(p) /\ Published /\ Report(p)
        BY <1>5, <2>1, <3>1, <4>2 DEF Report, Published, NoFile, IsMine
      <4> QED
        BY <1>5, <2>3, <4>1, <4>2 DEF Look, WriteTemp, Unlink, Crash
    <3> QED
      BY <1>6, <2>1, <3>1, <3>2
  <2>4. CASE Link(p)
    <3>1. pc[p] = "link" /\ temp[p] = "whole" /\ pc'[p] = "unlink"
      BY <1>5, <2>4 DEF Link, PublishersAreTruthful
    <3>2. CASE Published
      <4>1. file' = file /\ Report(p)
        BY <2>4, <3>2 DEF Link
      <4>2. answer'[p] = "published" => Published' /\ IsMine(p)'
        BY <1>5, <2>1, <3>2, <4>1 DEF Report, Published, NoFile, IsMine
      <4> QED
        BY <1>6, <2>1, <3>1, <4>1, <4>2
    <3>3. CASE ~Published
      <4>1. file' = [evidence |-> evidence'[p], state |-> "whole"]
        BY <2>1, <2>4, <3>1, <3>3 DEF Link, Content
      <4>2. Published' /\ IsMine(p)'
        BY <4>1 DEF Published, NoFile, IsMine
      <4> QED
        BY <1>6, <2>1, <3>1, <3>3, <4>1, <4>2
    <3> QED
      BY <3>2, <3>3
  <2> QED
    BY <1>8, <2>3, <2>4 DEF Publish
<1> QED
  BY <1>7, <1>8

LEMMA FinalInvariance == PInv /\ [Next]_vars => PInv'
<1>1. ASSUME PInv, UNCHANGED vars PROVE PInv'
  <2>1. UNCHANGED <<now, registrations, pin, manifests, receipts, pc, evidence, temp, file, answer>>
    BY <1>1 DEF vars, files
  <2>2. \A e : IsEarned(e) <=> IsEarned(e)'
    BY <2>1 DEF IsEarned, IsPreregistered, IsImprovement
  <2>3. FilesAreDated' /\ PublisherTypes'
    BY <1>1, <2>1 DEF PInv, FilesAreDated, PublisherTypes
  <2>4. PublishersAreTruthful' /\ FileIsEarned'
    BY <1>1, <2>1, <2>2 DEF PInv, PublishersAreTruthful, FileIsEarned, Published, NoFile, IsMine
  <2> QED
    BY <2>3, <2>4 DEF PInv
<1> QED
  BY <1>1, EnvironmentKeepsFinal, PublisherKeepsFinal DEF Next

LEMMA FinalBehaviour == MCSpec => Init /\ [][Next]_vars
<1>1. MCInit => Init
  BY DEF MCInit
<1>2. [MCNext]_<<part, sample, vars, finalVars, evalVars, shardVars>> => [Next]_vars
  BY DEF MCNext
<1> QED
  BY <1>1, <1>2, PTL DEF MCSpec

(* Final evidence that is published was bound to the registration that was *)
(* noted first, before any of its rows, and a published pass is a strict   *)
(* improvement on the rows it keeps, for any suite, rule and outcomes      *)
(* (main of checkpoint_c_final_held_out.py, evaluate_final_metrics).       *)
THEOREM FinalStaysEarned == MCSpec => []FinalIsEarned
<1>1. PInv => FinalIsEarned
  <2>1. PInv => TypeOK
    BY DEF PInv, FilesAreDated, PublisherTypes, TypeOK
  <2>2. PInv => FinalIsPreregistered /\ PassIsEarned
    BY DEF PInv, FileIsEarned, IsEarned, FinalIsPreregistered, PassIsEarned
  <2> QED
    BY <2>1, <2>2 DEF FinalIsEarned
<1> QED
  BY <1>1, FinalBehaviour, FinalInitInv, FinalInvariance, PTL

(* Published evidence is whole and never replaced, and whoever was told    *)
(* "published" finds its own there, however many publishers race and die   *)
(* (write_final_held_out_evidence). *)
THEOREM PublishedEvidenceIsKept == MCSpec => PublishedEvidenceStays
<1>1. PInv /\ PInv' /\ [Next]_vars => [EvidenceStays]_vars
  <2> SUFFICES ASSUME PInv, PInv', Next PROVE EvidenceStays
    OBVIOUS
  <2>1. Published => file' = file
    BY DEF Next, Environment, Tick, Register, Decide, Certify, Publish, Build, Look, WriteTemp, Link, Unlink, Crash
  <2>2. (Published' => file'.state = "whole") /\ AnswersMatchTheFile'
    BY DEF PInv, FileIsEarned, PublishersAreTruthful, AnswersMatchTheFile
  <2> QED
    BY <2>1, <2>2 DEF EvidenceStays
<1> QED
  BY <1>1, FinalBehaviour, FinalInitInv, FinalInvariance, PTL DEF PublishedEvidenceStays

-------------------------------------------------------------------------------
(* The two outputs of Checkpoint B (Finalization).                         *)

(* The stages by their number, so that the one after each is known.        *)
LEMMA StageAt ==
  /\ DOMAIN L!Stages = 1..18
  /\ L!Stages[1] = "preflight" /\ L!Stages[2] = "preflight again" /\ L!Stages[3] = "order"
  /\ L!Stages[4] = "handoff" /\ L!Stages[5] = "lifecycle" /\ L!Stages[6] = "webhooks"
  /\ L!Stages[7] = "a" /\ L!Stages[8] = "safety" /\ L!Stages[9] = "durability"
  /\ L!Stages[10] = "certificate" /\ L!Stages[11] = "manual" /\ L!Stages[12] = "hook"
  /\ L!Stages[13] = "log" /\ L!Stages[14] = "log head" /\ L!Stages[15] = "log events"
  /\ L!Stages[16] = "manifest" /\ L!Stages[17] = "receipt" /\ L!Stages[18] = "finalized"
BY DEF L!Stages, L!Reads

LEMMA ReadAt == DOMAIN L!Reads = 1..15 /\ \A i \in 1..15 : L!Reads[i] = L!Stages[i]
BY DEF L!Stages, L!Reads

LEMMA FirstRead == L!Reads[1] = "preflight"
<1>1. 1 \in 1..15
  OBVIOUS
<1> QED
  BY <1>1, ReadAt, StageAt

LEMMA StagesDiffer == \A i, j \in 1..18 : L!Stages[i] = L!Stages[j] => i = j
<1> SUFFICES ASSUME NEW i \in 1..18, NEW j \in 1..18, L!Stages[i] = L!Stages[j] PROVE i = j
  OBVIOUS
<1>0. /\ i \in {1, 2, 3, 4, 5, 6, 7, 8, 9, 10, 11, 12, 13, 14, 15, 16, 17, 18}
      /\ j \in {1, 2, 3, 4, 5, 6, 7, 8, 9, 10, 11, 12, 13, 14, 15, 16, 17, 18}
  OBVIOUS
<1>1. i = 1 => j = 1
  BY <1>0, StageAt
<1>2. i = 2 => j = 2
  BY <1>0, StageAt
<1>3. i = 3 => j = 3
  BY <1>0, StageAt
<1>4. i = 4 => j = 4
  BY <1>0, StageAt
<1>5. i = 5 => j = 5
  BY <1>0, StageAt
<1>6. i = 6 => j = 6
  BY <1>0, StageAt
<1>7. i = 7 => j = 7
  BY <1>0, StageAt
<1>8. i = 8 => j = 8
  BY <1>0, StageAt
<1>9. i = 9 => j = 9
  BY <1>0, StageAt
<1>10. i = 10 => j = 10
  BY <1>0, StageAt
<1>11. i = 11 => j = 11
  BY <1>0, StageAt
<1>12. i = 12 => j = 12
  BY <1>0, StageAt
<1>13. i = 13 => j = 13
  BY <1>0, StageAt
<1>14. i = 14 => j = 14
  BY <1>0, StageAt
<1>15. i = 15 => j = 15
  BY <1>0, StageAt
<1>16. i = 16 => j = 16
  BY <1>0, StageAt
<1>17. i = 17 => j = 17
  BY <1>0, StageAt
<1>18. i = 18 => j = 18
  BY <1>0, StageAt
<1> QED
  BY <1>0, <1>1, <1>2, <1>3, <1>4, <1>5, <1>6, <1>7, <1>8, <1>9, <1>10, <1>11, <1>12, <1>13, <1>14, <1>15, <1>16, <1>17, <1>18

LEMMA NextStage == \A i \in 1..17 : L!After(L!Stages[i]) = L!Stages[i + 1]
<1> SUFFICES ASSUME NEW i \in 1..17 PROVE L!After(L!Stages[i]) = L!Stages[i + 1]
  OBVIOUS
<1> DEFINE at == CHOOSE j \in DOMAIN L!Stages : L!Stages[j] = L!Stages[i]
<1>1. i \in 1..18 /\ i + 1 = 1 + i
  OBVIOUS
<1>2. i \in DOMAIN L!Stages /\ DOMAIN L!Stages = 1..18
  BY <1>1, StageAt
<1>3. at \in DOMAIN L!Stages /\ L!Stages[at] = L!Stages[i]
  <2> HIDE DEF at
  <2>1. \E j \in DOMAIN L!Stages : L!Stages[j] = L!Stages[i]
    BY <1>2
  <2> QED
    BY <2>1 DEF at
<1>4. at = i
  BY <1>2, <1>3, StagesDiffer
<1>5. L!After(L!Stages[i]) = L!Stages[1 + at]
  BY DEF L!After
<1> QED
  BY <1>1, <1>4, <1>5

FileSlots == {"preflight", "preflight again", "order", "handoff", "lifecycle", "webhooks", "a", "safety",
              "durability", "certificate", "manual", "hook"}

LEMMA SlotsAreNamed == L!Slots = FileSlots \cup L!LogReads
<1>1. ASSUME NEW s \in L!Slots PROVE s \in FileSlots \cup L!LogReads
  <2>1. PICK i \in 1..15 : s = L!Stages[i]
    BY ReadAt DEF L!Slots
  <2>2. i \in {1, 2, 3, 4, 5, 6, 7, 8, 9, 10, 11, 12, 13, 14, 15}
    OBVIOUS
  <2> QED
    BY <2>1, <2>2, StageAt DEF FileSlots, L!LogReads
<1>2. \A i \in {1, 2, 3, 4, 5, 6, 7, 8, 9, 10, 11, 12, 13, 14, 15} : i \in 1..15
  OBVIOUS
<1>3. \A i \in 1..15 : L!Stages[i] \in L!Slots
  BY ReadAt DEF L!Slots
<1>4. ASSUME NEW s \in FileSlots \cup L!LogReads PROVE s \in L!Slots
  <2>1. \E i \in {1, 2, 3, 4, 5, 6, 7, 8, 9, 10, 11, 12, 13, 14, 15} : s = L!Stages[i]
    BY <1>4, StageAt DEF FileSlots, L!LogReads
  <2> QED
    BY <1>2, <1>3, <2>1
<1> QED
  BY <1>1, <1>4

(* The reads that lie between the second of the preflight and those of the *)
(* log, and the stages after all files were read.                          *)
Middle  == {"order", "handoff", "lifecycle", "webhooks", "a", "safety", "durability", "certificate",
            "manual", "hook"}
Written == {"manifest", "receipt", "finalized"}
Checked == L!LogReads \cup Written

LEMMA StagesAreNamed == {L!Stages[i] : i \in DOMAIN L!Stages} = FileSlots \cup Checked
<1>1. \A i \in 1..18 : i \in {1, 2, 3, 4, 5, 6, 7, 8, 9, 10, 11, 12, 13, 14, 15, 16, 17, 18}
  OBVIOUS
<1>2. \A i \in {1, 2, 3, 4, 5, 6, 7, 8, 9, 10, 11, 12, 13, 14, 15, 16, 17, 18} :
        i \in 1..18 /\ L!Stages[i] \in FileSlots \cup Checked
  <2>1. \A i \in {1, 2, 3, 4, 5, 6, 7, 8, 9, 10, 11, 12, 13, 14, 15, 16, 17, 18} : i \in 1..18
    OBVIOUS
  <2> QED
    BY <2>1, StageAt DEF FileSlots, Checked, Written, L!LogReads
<1>3. ASSUME NEW s \in FileSlots \cup Checked PROVE \E i \in 1..18 : L!Stages[i] = s
  BY <1>2, <1>3, StageAt DEF FileSlots, Checked, Written, L!LogReads
<1>4. ASSUME NEW s \in {L!Stages[i] : i \in DOMAIN L!Stages} PROVE s \in FileSlots \cup Checked
  <2>1. PICK i \in 1..18 : s = L!Stages[i]
    BY StageAt
  <2> QED
    BY <1>1, <1>2, <2>1
<1>5. ASSUME NEW s \in FileSlots \cup Checked PROVE s \in {L!Stages[i] : i \in DOMAIN L!Stages}
  BY <1>3, StageAt
<1> QED
  BY <1>4, <1>5

LEMMA AfterEach ==
  /\ L!After("preflight") = "preflight again" /\ L!After("preflight again") = "order"
  /\ \A s \in Middle \ {"hook"} : L!After(s) \in Middle
  /\ L!After("hook") = "log" /\ L!After("log") = "log head" /\ L!After("log head") = "log events"
  /\ L!After("log events") = "manifest" /\ L!After("manifest") = "receipt" /\ L!After("receipt") = "finalized"
<1>1. /\ \A i \in {1, 2, 3, 4, 5, 6, 7, 8, 9, 10, 11, 12, 13, 14, 15, 16, 17} : i \in 1..17
      /\ 1 + 1 = 2 /\ 2 + 1 = 3 /\ 3 + 1 = 4 /\ 4 + 1 = 5 /\ 5 + 1 = 6 /\ 6 + 1 = 7 /\ 7 + 1 = 8 /\ 8 + 1 = 9
      /\ 9 + 1 = 10 /\ 10 + 1 = 11 /\ 11 + 1 = 12 /\ 12 + 1 = 13 /\ 13 + 1 = 14 /\ 14 + 1 = 15 /\ 15 + 1 = 16
      /\ 16 + 1 = 17 /\ 17 + 1 = 18
  OBVIOUS
<1>2. /\ L!After(L!Stages[1]) = L!Stages[2] /\ L!After(L!Stages[2]) = L!Stages[3] /\ L!After(L!Stages[12]) = L!Stages[13]
      /\ L!After(L!Stages[13]) = L!Stages[14] /\ L!After(L!Stages[14]) = L!Stages[15] /\ L!After(L!Stages[15]) = L!Stages[16]
      /\ L!After(L!Stages[16]) = L!Stages[17] /\ L!After(L!Stages[17]) = L!Stages[18]
  BY <1>1, NextStage
<1>3. /\ L!After(L!Stages[3]) = L!Stages[4] /\ L!After(L!Stages[4]) = L!Stages[5] /\ L!After(L!Stages[5]) = L!Stages[6]
      /\ L!After(L!Stages[6]) = L!Stages[7] /\ L!After(L!Stages[7]) = L!Stages[8] /\ L!After(L!Stages[8]) = L!Stages[9]
      /\ L!After(L!Stages[9]) = L!Stages[10] /\ L!After(L!Stages[10]) = L!Stages[11] /\ L!After(L!Stages[11]) = L!Stages[12]
  BY <1>1, NextStage
<1>4. /\ L!After("preflight") = "preflight again" /\ L!After("preflight again") = "order" /\ L!After("hook") = "log"
      /\ L!After("log") = "log head" /\ L!After("log head") = "log events" /\ L!After("log events") = "manifest"
      /\ L!After("manifest") = "receipt" /\ L!After("receipt") = "finalized"
  BY <1>2, StageAt
<1>5. /\ L!After("order") = "handoff" /\ L!After("handoff") = "lifecycle" /\ L!After("lifecycle") = "webhooks"
      /\ L!After("webhooks") = "a" /\ L!After("a") = "safety" /\ L!After("safety") = "durability"
      /\ L!After("durability") = "certificate" /\ L!After("certificate") = "manual" /\ L!After("manual") = "hook"
  BY <1>3, StageAt
<1>6. \A s \in Middle \ {"hook"} : L!After(s) \in Middle
  BY <1>5 DEF Middle
<1> QED
  BY <1>4, <1>6

Event == Confirmed \cup {Holds["webhooks"][1].captured.event}
Times == {0} \cup UNION {ClockOf[p] : p \in Finalizer}

RunTypes ==
  /\ disk \in [L!File -> {1, 2}] /\ log \in Seq(Event) /\ Len(log) \in 1..MaxRecords /\ faults \in 0..MaxFaults
  /\ place \in [Finalizer -> FileSlots \cup Checked \cup {"idle"}]
  /\ read \in [Finalizer -> [L!Slots -> Nat]] /\ observed \in [Finalizer -> Times]

(* The manifest forgets the second reading of the preflight, with which    *)
(* the other files were compared.                                          *)
PreflightsAgree(r) ==
  /\ r["preflight"] \in {1, 2} /\ r["preflight again"] \in {1, 2}
  /\ L!SamePreflight(Holds["preflight"][r["preflight"]], Holds["preflight"][r["preflight again"]])

EventsAreRecorded(m, length) == L!EventsOf(Holds["webhooks"][m["webhooks"]]) \subseteq L!Events(length)

RunIsCareful(p) ==
  LET r == read[p]
  IN  /\ place[p] = "preflight again" => r["preflight"] \in {1, 2}
      /\ place[p] \in Middle \cup Checked => PreflightsAgree(r)
      /\ place[p] \in Checked => L!BelongTogether(L!Content(r), observed[p])
      /\ place[p] = "log head" => r["log"] <= Len(log)
      /\ place[p] \in {"log events"} \cup Written => r["log"] <= r["log head"]
      /\ place[p] \in Written => r["log events"] <= Len(log) /\ EventsAreRecorded(r, r["log events"])

(* What ReceiptIsEarned asks of the manifest a receipt names. *)
IsOfOneLifecycle(m) ==
  LET Held(f) == Holds[f][m[f]]
      w == Held("webhooks")
  IN  /\ \A f \in L!File \ {"handoff", "lifecycle", "webhooks"} : Held(f).revision = Held("preflight").revision
      /\ Held("order").order = Held("handoff").order
      /\ Held("lifecycle").handoff = Held("order").handoff
      /\ w.captured.payment = Held("lifecycle").payment
      /\ w.refunded.refund = Held("lifecycle").refund
      /\ w.captured.order = Held("order").order
      /\ Held("manual").at <= w.captured.at
      /\ Held("order").preflight.run = Held("preflight").run

OutputsBelong ==
  /\ manifest # None =>
       /\ manifest \in [L!Kept -> Nat] /\ IsOfOneLifecycle(manifest)
       /\ EventsAreRecorded(manifest, Len(log)) /\ manifest["log"] <= manifest["log head"]
  /\ receipt # None => manifest # None /\ receipt \in [time : Times, manifest : {manifest}]
  /\ \A p \in Finalizer :
       /\ place[p] \in {"receipt", "finalized"} => manifest = L!ManifestOf(p)
       /\ place[p] = "finalized" => receipt = L!ReceiptOf(p)

RInv == RunTypes /\ (\A p \in Finalizer : RunIsCareful(p)) /\ OutputsBelong

LEMMA RunInitInv == L!Init => RInv
<1> SUFFICES ASSUME L!Init PROVE RInv
  OBVIOUS
<1>1. RunTypes
  <2>1. log \in Seq(Event) /\ Len(log) = 1
    BY DEF L!Init, Event
  <2>2. MaxRecords \in Nat \ {0} /\ MaxFaults \in Nat
    BY ReceiptAssumed DEF L!FinalizationAssumption
  <2>3. read \in [Finalizer -> [L!Slots -> Nat]] /\ observed \in [Finalizer -> Times]
    BY DEF L!Init, L!Nothing, Times
  <2>4. disk \in [L!File -> {1, 2}] /\ place \in [Finalizer -> FileSlots \cup Checked \cup {"idle"}] /\ faults = 0
    BY DEF L!Init
  <2> QED
    BY <2>1, <2>2, <2>3, <2>4 DEF RunTypes
<1>2. \A p \in Finalizer : RunIsCareful(p)
  BY DEF L!Init, RunIsCareful, Middle, Checked, Written, L!LogReads
<1>3. OutputsBelong
  BY DEF L!Init, OutputsBelong
<1> QED
  BY <1>1, <1>2, <1>3 DEF RInv

LEMMA AtMost ==
  /\ \A a, b, c \in Nat : a <= b /\ b <= c => a <= c
  /\ \A a, b \in Nat : a <= b => 1..a \subseteq 1..b
OBVIOUS

(* The log only grows, and what was in it stays. *)
LEMMA LogGrows ==
  ASSUME RunTypes, NEW event \in Confirmed, L!Record(event)
  PROVE  /\ log' \in Seq(Event) /\ Len(log') \in 1..MaxRecords /\ Len(log) <= Len(log')
         /\ L!Events(Len(log)) \subseteq L!Events(Len(log))'
         /\ \A i \in 1..Len(log) : log'[i] = log[i]
<1>1. log \in Seq(Event) /\ event \in Event /\ log' = Append(log, event) /\ Len(log) < MaxRecords
  BY DEF RunTypes, L!Record, Event
<1>2. MaxRecords \in Nat
  BY ReceiptAssumed DEF L!FinalizationAssumption
<1>3. /\ log' \in Seq(Event) /\ Len(log') = Len(log) + 1 /\ Len(log) \in Nat
      /\ \A i \in 1..Len(log) : log'[i] = log[i]
  BY <1>1
<1>4. L!Events(Len(log)) \subseteq L!Events(Len(log))'
  <2>1. \A i \in 1..Len(log) : i \in 1..Len(log') /\ log'[i] = log[i]
    BY <1>3
  <2> QED
    BY <2>1 DEF L!Events
<1> QED
  BY <1>1, <1>2, <1>3, <1>4

(* The checks of a run, made of what it read, hold of what it writes down. *)
LEMMA CheckedIsOfOneLifecycle ==
  ASSUME NEW r, PreflightsAgree(r), NEW t, L!BelongTogether(L!Content(r), t)
  PROVE  IsOfOneLifecycle([slot \in L!Kept |-> r[slot]])
<1> DEFINE v == L!Content(r)
           m == [slot \in L!Kept |-> r[slot]]
           first == Holds["preflight"][r["preflight"]]
           again == Holds["preflight"][r["preflight again"]]
<1>1. \A f \in L!File : f \in L!Kept /\ m[f] = r[f] /\ v[f] = Holds[f][m[f]]
  BY SlotsAreNamed DEF L!File, L!Kept, L!Content, L!FileOf, FileSlots, L!LogReads
<1>2. v["preflight again"] = again
  BY SlotsAreNamed DEF L!Content, L!FileOf, FileSlots, L!LogReads
<1>3. again.revision = first.revision /\ again.run = first.run
  <2>1. {"revision", "run", "attempt"} \subseteq DOMAIN first /\ {"revision", "run", "attempt"} \subseteq DOMAIN again
    BY ReceiptAssumed DEF PreflightsAgree, L!FinalizationAssumption
  <2>2. [first EXCEPT !.attempt = 0] = [again EXCEPT !.attempt = 0]
    BY DEF PreflightsAgree, L!SamePreflight
  <2>3. [first EXCEPT !.attempt = 0].revision = first.revision /\ [first EXCEPT !.attempt = 0].run = first.run
    BY <2>1
  <2>4. [again EXCEPT !.attempt = 0].revision = again.revision /\ [again EXCEPT !.attempt = 0].run = again.run
    BY <2>1
  <2> QED
    BY <2>2, <2>3, <2>4
<1>4. /\ {"order", "a", "safety", "durability", "certificate", "manual", "hook", "handoff", "lifecycle", "webhooks", "preflight"}
           \subseteq L!File
      /\ L!File \ {"handoff", "lifecycle", "webhooks"} =
           {"order", "a", "safety", "durability", "certificate", "manual", "hook", "preflight"}
  BY DEF L!File
<1> HIDE DEF m, v, first, again
<1>5. /\ Holds["preflight"][m["preflight"]] = first
      /\ \A f \in {"order", "a", "safety", "durability", "certificate", "manual", "hook"} :
           v[f].revision = again.revision
      /\ v["order"].preflight = again
  BY <1>1, <1>2, <1>4 DEF L!BelongTogether, L!OneRevision, v, first
<1>6. /\ v["handoff"].order = v["order"].order /\ v["order"].handoff = v["handoff"].digest
      /\ v["lifecycle"].handoff = v["handoff"].digest /\ v["lifecycle"].order = v["handoff"].order
  BY DEF L!BelongTogether, L!HandoffMatches, L!LifecycleMatches, v
<1>7. /\ v["webhooks"].captured.payment = v["lifecycle"].payment
      /\ v["webhooks"].captured.order = v["lifecycle"].order
      /\ v["webhooks"].refunded.refund = v["lifecycle"].refund
  BY DEF L!BelongTogether, L!WebhooksMatch, v
<1>8. v["manual"].at <= v["webhooks"].captured.at
  BY DEF L!BelongTogether, L!ConfigurationMatches, v
<1>9. \A f \in L!File \ {"handoff", "lifecycle", "webhooks"} :
        Holds[f][m[f]].revision = Holds["preflight"][m["preflight"]].revision
  BY <1>1, <1>3, <1>4, <1>5
<1>10. /\ v["order"] = Holds["order"][m["order"]] /\ v["handoff"] = Holds["handoff"][m["handoff"]]
       /\ v["lifecycle"] = Holds["lifecycle"][m["lifecycle"]] /\ v["webhooks"] = Holds["webhooks"][m["webhooks"]]
       /\ v["manual"] = Holds["manual"][m["manual"]]
  BY <1>1, <1>4
<1>11. IsOfOneLifecycle(m)
  BY <1>3, <1>5, <1>6, <1>7, <1>8, <1>9, <1>10 DEF IsOfOneLifecycle
<1> QED
  BY <1>11 DEF m

(* Around the runs: files are replaced and the log grows. *)
LEMMA WorldKeepsRuns == RInv /\ L!Environment => RInv'
<1> SUFFICES ASSUME RInv, L!Environment PROVE RInv'
  OBVIOUS
<1>1. CASE \E f \in L!File : L!Replace(f)
  <2>1. PICK f \in L!File : L!Replace(f)
    BY <1>1
  <2>2. disk' \in [L!File -> {1, 2}] /\ UNCHANGED <<log, manifest, receipt, place, read, observed, faults>>
    BY <2>1 DEF L!Replace, RInv, RunTypes
  <2>3. \A n : L!Events(n) = L!Events(n)'
    BY <2>2 DEF L!Events
  <2>4. RunTypes'
    BY <2>2 DEF RInv, RunTypes
  <2>5. (\A p \in Finalizer : RunIsCareful(p))'
    BY <2>2, <2>3 DEF RInv, RunIsCareful, EventsAreRecorded
  <2>6. OutputsBelong'
    BY <2>2, <2>3 DEF RInv, OutputsBelong, EventsAreRecorded, L!ManifestOf, L!ReceiptOf
  <2> QED
    BY <2>4, <2>5, <2>6 DEF RInv
<1>2. CASE \E event \in Confirmed : L!Record(event)
  <2>1. PICK event \in Confirmed : L!Record(event)
    BY <1>2
  <2>2. UNCHANGED <<disk, manifest, receipt, place, read, observed, faults>>
    BY <2>1 DEF L!Record
  <2>3. /\ log' \in Seq(Event) /\ Len(log') \in 1..MaxRecords /\ Len(log) <= Len(log')
        /\ L!Events(Len(log)) \subseteq L!Events(Len(log))'
        /\ \A i \in 1..Len(log) : log'[i] = log[i]
    BY <2>1, LogGrows DEF RInv
  <2>4. Len(log) \in Nat /\ Len(log') \in Nat /\ \A p \in Finalizer, s \in L!Slots : read[p][s] \in Nat
    BY <2>3 DEF RInv, RunTypes
  <2>5. RunTypes'
    BY <2>2, <2>3 DEF RInv, RunTypes
  <2>6. ASSUME NEW p \in Finalizer PROVE RunIsCareful(p)'
    <3>1. {"log", "log head", "log events"} \subseteq L!Slots
      BY SlotsAreNamed DEF L!LogReads
    <3>0. RunIsCareful(p) /\ read[p]["log"] \in Nat /\ read[p]["log events"] \in Nat
      BY <2>4, <3>1 DEF RInv
    <3>2. place[p] = "log head" => read[p]["log"] <= Len(log')
      <4>1. place[p] = "log head" => read[p]["log"] <= Len(log)
        BY <3>0 DEF RunIsCareful
      <4> QED
        BY <2>3, <2>4, <3>0, <4>1, AtMost
    <3>3. place[p] \in Written =>
            read[p]["log events"] <= Len(log') /\ EventsAreRecorded(read[p], read[p]["log events"])'
      <4>1. place[p] \in Written =>
              read[p]["log events"] <= Len(log) /\ EventsAreRecorded(read[p], read[p]["log events"])
        BY <3>0 DEF RunIsCareful
      <4>2. read[p]["log events"] <= Len(log) =>
              read[p]["log events"] <= Len(log') /\ L!Events(read[p]["log events"]) = L!Events(read[p]["log events"])'
        <5>1. read[p]["log events"] <= Len(log) => read[p]["log events"] <= Len(log')
          BY <2>3, <2>4, <3>0, AtMost
        <5>2. read[p]["log events"] <= Len(log) =>
                \A i \in 1..read[p]["log events"] : log'[i] = log[i]
          BY <2>3, <2>4, <3>0, AtMost
        <5>3. read'[p]["log events"] = read[p]["log events"]
          BY <2>2
        <5>4. L!Events(read[p]["log events"])' = {log'[i] : i \in 1..read[p]["log events"]}
          BY <5>3 DEF L!Events
        <5>5. (\A i \in 1..read[p]["log events"] : log'[i] = log[i]) =>
                L!Events(read[p]["log events"]) = {log'[i] : i \in 1..read[p]["log events"]}
          BY DEF L!Events
        <5> QED
          BY <5>1, <5>2, <5>4, <5>5
      <4> QED
        BY <2>2, <4>1, <4>2 DEF EventsAreRecorded
    <3> QED
      BY <2>2, <3>0, <3>2, <3>3 DEF RunIsCareful
  <2>7. OutputsBelong'
    <3>1. manifest # None => EventsAreRecorded(manifest, Len(log))'
      BY <2>2, <2>3 DEF RInv, OutputsBelong, EventsAreRecorded
    <3> QED
      BY <2>2, <3>1 DEF RInv, OutputsBelong, EventsAreRecorded, L!ManifestOf, L!ReceiptOf
  <2> QED
    BY <2>5, <2>6, <2>7 DEF RInv
<1> QED
  BY <1>1, <1>2 DEF L!Environment

(* A step is one run's: the files and the log stay, and so do the others.  *)
OnlyMoves(p) ==
  /\ UNCHANGED <<disk, log>>
  /\ \A q \in Finalizer \ {p} : place'[q] = place[q] /\ read'[q] = read[q] /\ observed'[q] = observed[q]

LEMMA OthersStayCareful == ASSUME RInv, NEW p \in Finalizer, OnlyMoves(p)
                           PROVE  \A q \in Finalizer \ {p} : RunIsCareful(q)'
<1> SUFFICES ASSUME NEW q \in Finalizer \ {p} PROVE RunIsCareful(q)'
  OBVIOUS
<1>1. RunIsCareful(q) /\ log' = log /\ place'[q] = place[q] /\ read'[q] = read[q] /\ observed'[q] = observed[q]
  BY DEF RInv, OnlyMoves
<1>2. EventsAreRecorded(read[q], read[q]["log events"])' <=> EventsAreRecorded(read[q], read[q]["log events"])
  BY <1>1 DEF EventsAreRecorded, L!Events
<1> QED
  BY <1>1, <1>2 DEF RunIsCareful

LEMMA ReadsAreNumbers == ASSUME RunTypes, NEW s \in L!Slots
                         PROVE  L!Sees(s) \in Nat /\ (s \in FileSlots => L!Sees(s) \in {1, 2})
<1>1. CASE s \in L!LogReads
  <2>1. L!Sees(s) = Len(log) /\ s \notin FileSlots
    BY <1>1 DEF L!Sees, L!LogReads, FileSlots
  <2>2. Len(log) \in Nat
    BY DEF RunTypes
  <2> QED
    BY <2>1, <2>2
<1>2. CASE s \in FileSlots
  <2>1. s \notin L!LogReads /\ L!FileOf(s) \in L!File
    BY <1>2 DEF L!FileOf, L!File, FileSlots, L!LogReads
  <2>2. L!Sees(s) = disk[L!FileOf(s)]
    BY <2>1 DEF L!Sees
  <2> QED
    BY <2>1, <2>2 DEF RunTypes
<1> QED
  BY <1>1, <1>2, SlotsAreNamed

LEMMA AfterIsAStage == \A s \in L!Slots \cup {"manifest", "receipt"} : L!After(s) \in FileSlots \cup Checked
BY AfterEach, SlotsAreNamed DEF FileSlots, Checked, Written, L!LogReads, Middle

LEMMA StoppingMoves ==
  ASSUME RunTypes, NEW p \in Finalizer, L!Stop(p)
  PROVE  /\ place' \in [Finalizer -> FileSlots \cup Checked \cup {"idle"}] /\ place'[p] = "idle"
         /\ read' \in [Finalizer -> [L!Slots -> Nat]] /\ observed' \in [Finalizer -> Times]
         /\ \A q \in Finalizer \ {p} : place'[q] = place[q] /\ read'[q] = read[q] /\ observed'[q] = observed[q]
<1>1. L!Nothing \in [L!Slots -> Nat] /\ 0 \in Times
  BY DEF L!Nothing, Times
<1> QED
  BY <1>1 DEF RunTypes, L!Stop

(* A run that begins, reads or stops writes nothing. *)
LEMMA QuietStepKeepsRuns ==
  ASSUME RInv, NEW p \in Finalizer, OnlyMoves(p), UNCHANGED <<manifest, receipt>>, RunTypes', RunIsCareful(p)',
         place'[p] \notin {"receipt", "finalized"}
  PROVE  RInv'
<1>1. (\A q \in Finalizer : RunIsCareful(q))'
  BY OthersStayCareful
<1>2. OutputsBelong'
  <2>1. ASSUME NEW q \in Finalizer, place'[q] \in {"receipt", "finalized"}
        PROVE  place'[q] = place[q] /\ L!ManifestOf(q)' = L!ManifestOf(q) /\ L!ReceiptOf(q)' = L!ReceiptOf(q)
    BY <2>1 DEF OnlyMoves, L!ManifestOf, L!ReceiptOf
  <2>2. EventsAreRecorded(manifest, Len(log))' <=> EventsAreRecorded(manifest, Len(log))
    BY DEF OnlyMoves, EventsAreRecorded, L!Events
  <2> QED
    BY <2>1, <2>2 DEF RInv, OutputsBelong
<1> QED
  BY <1>1, <1>2 DEF RInv

LEMMA BeginKeepsRuns == ASSUME RInv, NEW p \in Finalizer, L!Begin(p) PROVE RInv'
<1>1. L!Reads[1] = "preflight"
  BY FirstRead
<1>2. PICK time \in ClockOf[p] : observed' = [observed EXCEPT ![p] = IF receipt = None THEN time ELSE receipt.time]
  BY DEF L!Begin
<1>3. (IF receipt = None THEN time ELSE receipt.time) \in Times
  BY DEF Times, RInv, OutputsBelong
<1>4. /\ read' = [read EXCEPT ![p] = L!Nothing] /\ place' = [place EXCEPT ![p] = "preflight"]
      /\ UNCHANGED <<disk, log, manifest, receipt, faults>>
  BY <1>1 DEF L!Begin, L!outside
<1>5. L!Nothing \in [L!Slots -> Nat] /\ "preflight" \in FileSlots
  BY DEF L!Nothing, FileSlots
<1>6. RunTypes' /\ OnlyMoves(p) /\ place'[p] = "preflight"
  BY <1>2, <1>3, <1>4, <1>5 DEF RInv, RunTypes, OnlyMoves
<1>7. RunIsCareful(p)'
  BY <1>6 DEF RunIsCareful, Middle, Checked, Written, L!LogReads
<1> QED
  BY <1>4, <1>6, <1>7, QuietStepKeepsRuns

LEMMA CrashKeepsRuns == ASSUME RInv, NEW p \in Finalizer, L!Crash(p) PROVE RInv'
<1>1. UNCHANGED <<disk, log, manifest, receipt>> /\ faults' \in 0..MaxFaults
  BY ReceiptAssumed DEF L!Crash, L!outside, RInv, RunTypes, L!FinalizationAssumption
<1>2. RunTypes' /\ OnlyMoves(p) /\ place'[p] = "idle"
  BY <1>1, StoppingMoves DEF RInv, RunTypes, OnlyMoves, L!Crash
<1>3. RunIsCareful(p)'
  BY <1>2 DEF RunIsCareful, Middle, Checked, Written, L!LogReads
<1> QED
  BY <1>1, <1>2, <1>3, QuietStepKeepsRuns

(* What was accepted stays accepted: later reads leave earlier ones alone. *)
LEMMA ReadKeepsRuns == ASSUME RInv, NEW p \in Finalizer, L!Read(p) PROVE RInv'
<1> DEFINE slot == place[p]
           r == [read[p] EXCEPT ![slot] = L!Sees(slot)]
<1>1. slot \in L!Slots /\ UNCHANGED <<disk, log, manifest, receipt, faults>> /\ RunTypes /\ RunIsCareful(p)
  BY DEF L!Read, L!outside, RInv
<1>2. CASE ~L!Accepts(slot, r, observed[p])
  <2>1. L!Stop(p)
    BY <1>2 DEF L!Read
  <2>2. RunTypes' /\ OnlyMoves(p) /\ place'[p] = "idle"
    BY <1>1, <2>1, StoppingMoves DEF RunTypes, OnlyMoves
  <2>3. RunIsCareful(p)'
    BY <2>2 DEF RunIsCareful, Middle, Checked, Written, L!LogReads
  <2> QED
    BY <1>1, <2>2, <2>3, QuietStepKeepsRuns
<1>3. CASE L!Accepts(slot, r, observed[p])
  <2>1. read' = [read EXCEPT ![p] = r] /\ place' = [place EXCEPT ![p] = L!After(slot)] /\ UNCHANGED observed
    BY <1>3 DEF L!Read
  <2>2. r \in [L!Slots -> Nat] /\ L!Sees(slot) \in Nat /\ (slot \in FileSlots => L!Sees(slot) \in {1, 2})
    BY <1>1, ReadsAreNumbers DEF RunTypes
  <2>3. read'[p] = r /\ place'[p] = L!After(slot) /\ observed'[p] = observed[p] /\ OnlyMoves(p) /\ RunTypes'
    BY <1>1, <2>1, <2>2, AfterIsAStage DEF RunTypes, OnlyMoves
  <2>4. r[slot] = L!Sees(slot) /\ \A s \in L!Slots : s # slot => r[s] = read[p][s]
    BY <1>1 DEF RunTypes
  <2>5. FileSlots \subseteq L!Slots /\ L!LogReads \subseteq L!Slots
    BY SlotsAreNamed
  <2> HIDE DEF slot, r
  <2>6. slot \notin {"preflight", "preflight again"} /\ PreflightsAgree(read[p]) => PreflightsAgree(r)
    BY <2>4, <2>5 DEF PreflightsAgree, FileSlots
  <2>7. slot \in L!LogReads => L!Content(r) = L!Content(read[p])
    BY <2>4 DEF L!Content
  <2>8. slot \in L!LogReads => r[slot] = Len(log)
    BY <2>4 DEF L!Sees
  <2>9. L!After(slot) \notin {"receipt", "finalized"} /\ RunIsCareful(p)'
    <3>1. CASE slot = "preflight"
      <4>1. L!After(slot) = "preflight again" /\ r["preflight"] \in {1, 2}
        BY <2>2, <2>4, <3>1, AfterEach DEF FileSlots
      <4> QED
        BY <2>3, <4>1 DEF RunIsCareful, Middle, Checked, Written, L!LogReads
    <3>2. CASE slot = "preflight again"
      <4>1. r["preflight"] \in {1, 2} /\ r["preflight again"] \in {1, 2}
        BY <1>1, <2>2, <2>4, <2>5, <3>2 DEF RunIsCareful, FileSlots, slot
      <4>2. L!SamePreflight(Holds["preflight"][r["preflight"]], Holds["preflight"][r["preflight again"]])
        BY <1>3, <3>2 DEF L!Accepts, L!FileOf, L!LogReads
      <4>3. L!After(slot) = "order" /\ PreflightsAgree(r)
        BY <3>2, <4>1, <4>2, AfterEach DEF PreflightsAgree
      <4> QED
        BY <2>3, <4>3 DEF RunIsCareful, Checked, Written, L!LogReads
    <3>3. CASE slot \in Middle \ {"hook"}
      <4>1. L!After(slot) \in Middle /\ PreflightsAgree(r)
        BY <1>1, <2>6, <3>3, AfterEach DEF RunIsCareful, slot, Middle
      <4>2. L!After(slot) \notin {"preflight again"} \cup Checked
        BY <4>1 DEF Middle, Checked, Written, L!LogReads
      <4> QED
        BY <2>3, <4>1, <4>2 DEF RunIsCareful, Checked, Written, L!LogReads
    <3>4. CASE slot = "hook"
      <4>1. L!After(slot) = "log" /\ PreflightsAgree(r)
        BY <1>1, <2>6, <3>4, AfterEach DEF RunIsCareful, slot, Middle
      <4>2. L!BelongTogether(L!Content(r), observed[p])
        BY <1>3, <3>4 DEF L!Accepts
      <4> QED
        BY <2>3, <4>1, <4>2 DEF RunIsCareful, Checked, Written, L!LogReads
    <3>5. CASE slot \in L!LogReads
      <4>1. PreflightsAgree(r) /\ L!BelongTogether(L!Content(r), observed[p])
        BY <1>1, <2>6, <2>7, <3>5 DEF RunIsCareful, slot, Checked, L!LogReads
      <4>2. Len(log) \in Nat /\ Len(log) <= Len(log)
        <5>1. Len(log) \in Nat
          BY <1>1 DEF RunTypes
        <5> QED
          BY <5>1
      <4>3. CASE slot = "log"
        <5>1. L!After(slot) = "log head" /\ r["log"] = Len(log)
          BY <2>8, <4>3, AfterEach DEF L!LogReads
        <5>2. read'[p]["log"] <= Len(log')
          BY <1>1, <2>3, <4>2, <5>1
        <5> QED
          BY <2>3, <4>1, <5>1, <5>2 DEF RunIsCareful, Checked, Written, L!LogReads
      <4>4. CASE slot = "log head"
        <5>1. L!After(slot) = "log events" /\ r["log head"] = Len(log) /\ r["log"] <= Len(log)
          BY <1>1, <2>4, <2>5, <2>8, <4>4, AfterEach DEF L!LogReads, RunIsCareful, slot
        <5> QED
          BY <1>1, <2>3, <4>1, <4>2, <5>1 DEF RunIsCareful, Checked, Written, L!LogReads
      <4>5. CASE slot = "log events"
        <5>1. L!After(slot) = "manifest" /\ r["log events"] = Len(log) /\ r["log"] <= r["log head"]
          BY <1>1, <2>4, <2>5, <2>8, <4>5, AfterEach DEF L!LogReads, RunIsCareful, slot
        <5>2. L!EventsOf(Holds["webhooks"][r["webhooks"]]) \subseteq L!Events(r["log events"])
          BY <1>3, <4>5 DEF L!Accepts
        <5>3. EventsAreRecorded(read[p], read[p]["log events"])'
          BY <1>1, <2>3, <5>2 DEF EventsAreRecorded, L!Events
        <5>4. read'[p]["log events"] <= Len(log')
          BY <1>1, <2>3, <4>2, <5>1
        <5> QED
          BY <2>3, <4>1, <5>1, <5>3, <5>4 DEF RunIsCareful, Checked, Written, L!LogReads
      <4> QED
        BY <3>5, <4>3, <4>4, <4>5 DEF L!LogReads
    <3> QED
      BY <1>1, <3>1, <3>2, <3>3, <3>4, <3>5, SlotsAreNamed DEF FileSlots, Middle
  <2> QED
    BY <1>1, <2>3, <2>9, QuietStepKeepsRuns
<1> QED
  BY <1>2, <1>3

LEMMA OutputsAreNotNone ==
  /\ \A m \in [L!Kept -> Nat] : m # None
  /\ \A m \in [L!Kept -> Nat], t \in Times : [time |-> t, manifest |-> m] # None
<1>1. None \notin [L!Kept -> Nat] \cup [time : Nat, manifest : [L!Kept -> Nat]]
  BY ReceiptAssumed DEF L!FinalizationAssumption
<1>2. Times \subseteq Nat
  BY ReceiptAssumed DEF L!FinalizationAssumption, Times
<1>3. ASSUME NEW m \in [L!Kept -> Nat], NEW t \in Times PROVE [time |-> t, manifest |-> m] # None
  <2>1. t \in Nat
    BY <1>2
  <2>2. [time |-> t, manifest |-> m] \in [time : Nat, manifest : [L!Kept -> Nat]]
    BY <2>1
  <2> QED
    BY <1>1, <2>2
<1> QED
  BY <1>1, <1>3

LEMMA ManifestsAreNumbers == ASSUME RunTypes, NEW p \in Finalizer PROVE L!ManifestOf(p) \in [L!Kept -> Nat]
<1>1. L!Kept \subseteq L!Slots
  BY DEF L!Kept
<1> QED
  BY <1>1 DEF RunTypes, L!ManifestOf

(* A run whose output is refused stops; one whose output is there goes on. *)
LEMMA RefusedKeepsRuns ==
  ASSUME RInv, NEW p \in Finalizer, L!Stop(p), UNCHANGED <<disk, log, faults, manifest, receipt>>
  PROVE  RInv'
<1>1. RunTypes' /\ OnlyMoves(p) /\ place'[p] = "idle"
  BY StoppingMoves DEF RInv, RunTypes, OnlyMoves
<1>2. RunIsCareful(p)'
  BY <1>1 DEF RunIsCareful, Middle, Checked, Written, L!LogReads
<1> QED
  BY <1>1, <1>2, QuietStepKeepsRuns

LEMMA PassingMoves ==
  ASSUME RInv, NEW p \in Finalizer, NEW next \in {"receipt", "finalized"}, place[p] \in {"manifest", "receipt"},
         place' = [place EXCEPT ![p] = next], UNCHANGED <<read, observed, disk, log, faults>>
  PROVE  /\ RunTypes' /\ (\A q \in Finalizer : RunIsCareful(q))' /\ OnlyMoves(p)
         /\ \A q \in Finalizer : L!ManifestOf(q)' = L!ManifestOf(q) /\ L!ReceiptOf(q)' = L!ReceiptOf(q)
         /\ place'[p] = next /\ \A q \in Finalizer \ {p} : place'[q] = place[q]
<1>1. /\ RunTypes' /\ OnlyMoves(p) /\ place'[p] = next
      /\ \A q \in Finalizer \ {p} : place'[q] = place[q]
  BY DEF RInv, RunTypes, OnlyMoves, Checked, Written
<1>2. RunIsCareful(p)'
  <2>1. RunIsCareful(p)
    BY DEF RInv
  <2>2. EventsAreRecorded(read[p], read[p]["log events"])' <=> EventsAreRecorded(read[p], read[p]["log events"])
    BY DEF EventsAreRecorded, L!Events
  <2> QED
    BY <1>1, <2>1, <2>2 DEF RunIsCareful, Checked, Written, Middle, L!LogReads
<1>3. \A q \in Finalizer : L!ManifestOf(q)' = L!ManifestOf(q) /\ L!ReceiptOf(q)' = L!ReceiptOf(q)
  BY DEF L!ManifestOf, L!ReceiptOf
<1> QED
  BY <1>1, <1>2, <1>3, OthersStayCareful

(* What a run that has read everything would write is what it checked. *)
LEMMA ManifestIsEarned ==
  ASSUME RInv, NEW p \in Finalizer, place[p] \in Written
  PROVE  LET m == L!ManifestOf(p)
         IN  IsOfOneLifecycle(m) /\ EventsAreRecorded(m, Len(log)) /\ m["log"] <= m["log head"]
<1> DEFINE r == read[p]
<1>1. RunIsCareful(p) /\ r \in [L!Slots -> Nat] /\ Len(log) \in Nat
  BY DEF RInv, RunTypes
<1>2. PreflightsAgree(r) /\ L!BelongTogether(L!Content(r), observed[p])
  BY <1>1 DEF RunIsCareful, Checked
<1>3. /\ r["log"] <= r["log head"] /\ r["log events"] <= Len(log)
      /\ L!EventsOf(Holds["webhooks"][r["webhooks"]]) \subseteq L!Events(r["log events"])
  BY <1>1 DEF RunIsCareful, EventsAreRecorded
<1>4. /\ L!ManifestOf(p) = [slot \in L!Kept |-> r[slot]]
      /\ {"log", "log head", "webhooks"} \subseteq L!Kept
  BY SlotsAreNamed DEF L!ManifestOf, L!Kept, FileSlots, L!LogReads
<1> HIDE DEF r
<1>5. IsOfOneLifecycle(L!ManifestOf(p))
  BY <1>2, <1>4, CheckedIsOfOneLifecycle
<1>6. r["log events"] \in Nat /\ 1..r["log events"] \subseteq 1..Len(log)
  <2>1. "log events" \in L!Slots
    BY SlotsAreNamed DEF L!LogReads
  <2> QED
    BY <1>1, <1>3, <2>1, AtMost
<1>7. L!Events(r["log events"]) \subseteq L!Events(Len(log))
  BY <1>6 DEF L!Events
<1> QED
  BY <1>3, <1>4, <1>5, <1>7 DEF EventsAreRecorded

LEMMA PublishManifestKeepsRuns == ASSUME RInv, NEW p \in Finalizer, L!PublishManifest(p) PROVE RInv'
<1> DEFINE mine == L!ManifestOf(p)
<1>1. /\ place[p] = "manifest" /\ UNCHANGED <<disk, log, receipt, faults>>
      /\ manifest' = IF manifest = None THEN mine ELSE manifest
  BY DEF L!PublishManifest, L!WriteOrVerify, L!outside
<1>2. mine \in [L!Kept -> Nat] /\ mine # None
  BY ManifestsAreNumbers, OutputsAreNotNone DEF RInv
<1>3. IsOfOneLifecycle(mine) /\ EventsAreRecorded(mine, Len(log)) /\ mine["log"] <= mine["log head"]
  BY <1>1, ManifestIsEarned DEF Written
<1>4. OutputsBelong
  BY DEF RInv
<1> HIDE DEF mine
<1>5. CASE manifest \notin {None, mine}
  <2>1. L!Stop(p)
    BY <1>5 DEF L!PublishManifest, L!WriteOrVerify, mine
  <2> QED
    BY <1>1, <1>5, <2>1, RefusedKeepsRuns
<1>6. CASE manifest \in {None, mine}
  <2>1. place' = [place EXCEPT ![p] = "receipt"] /\ UNCHANGED <<read, observed>>
    <3>1. place' = [place EXCEPT ![p] = L!After(@)] /\ UNCHANGED <<read, observed>>
      BY <1>6 DEF L!PublishManifest, L!WriteOrVerify, mine
    <3> QED
      BY <1>1, <3>1, AfterEach
  <2>2. /\ RunTypes' /\ (\A q \in Finalizer : RunIsCareful(q))'
        /\ \A q \in Finalizer : L!ManifestOf(q)' = L!ManifestOf(q) /\ L!ReceiptOf(q)' = L!ReceiptOf(q)
        /\ place'[p] = "receipt" /\ \A q \in Finalizer \ {p} : place'[q] = place[q]
    BY <1>1, <2>1, PassingMoves
  <2>3. manifest' = mine /\ (manifest # None => manifest' = manifest)
    BY <1>1, <1>6
  <2>4. EventsAreRecorded(manifest, Len(log))'
    BY <1>1, <1>3, <2>3 DEF EventsAreRecorded, L!Events
  <2>5. ASSUME NEW q \in Finalizer, place'[q] \in {"receipt", "finalized"} PROVE manifest' = L!ManifestOf(q)'
    <3>1. CASE q = p
      BY <2>2, <2>3, <3>1 DEF mine
    <3>2. CASE q # p
      <4>1. manifest = L!ManifestOf(q)
        BY <1>4, <2>2, <2>5, <3>2 DEF OutputsBelong
      <4>2. manifest # None
        BY <4>1, ManifestsAreNumbers, OutputsAreNotNone DEF RInv
      <4> QED
        BY <2>2, <2>3, <4>1, <4>2
    <3> QED
      BY <3>1, <3>2
  <2>6. ASSUME NEW q \in Finalizer, place'[q] = "finalized" PROVE receipt' = L!ReceiptOf(q)'
    BY <1>1, <1>4, <2>2, <2>6 DEF OutputsBelong
  <2>7. receipt' # None => manifest' # None /\ receipt' \in [time : Times, manifest : {manifest'}]
    BY <1>1, <1>2, <1>4, <2>3 DEF OutputsBelong
  <2>8. OutputsBelong'
    BY <1>2, <1>3, <2>3, <2>4, <2>5, <2>6, <2>7 DEF OutputsBelong
  <2> QED
    BY <2>2, <2>8 DEF RInv
<1> QED
  BY <1>5, <1>6

LEMMA PublishReceiptKeepsRuns == ASSUME RInv, NEW p \in Finalizer, L!PublishReceipt(p) PROVE RInv'
<1> DEFINE mine == L!ReceiptOf(p)
<1>1. /\ place[p] = "receipt" /\ UNCHANGED <<disk, log, manifest, faults>>
      /\ receipt' = IF receipt = None THEN mine ELSE receipt
  BY DEF L!PublishReceipt, L!WriteOrVerify, L!outside
<1>2. OutputsBelong
  BY DEF RInv
<1>3. /\ manifest = L!ManifestOf(p) /\ manifest # None
      /\ mine = [time |-> observed[p], manifest |-> manifest] /\ observed[p] \in Times
  BY <1>1, <1>2, ManifestsAreNumbers, OutputsAreNotNone DEF RInv, RunTypes, OutputsBelong, L!ReceiptOf
<1>4. mine # None
  BY <1>3, ManifestsAreNumbers, OutputsAreNotNone DEF RInv
<1> HIDE DEF mine
<1>5. CASE receipt \notin {None, mine}
  <2>1. L!Stop(p)
    BY <1>5 DEF L!PublishReceipt, L!WriteOrVerify, mine
  <2> QED
    BY <1>1, <1>5, <2>1, RefusedKeepsRuns
<1>6. CASE receipt \in {None, mine}
  <2>1. place' = [place EXCEPT ![p] = "finalized"] /\ UNCHANGED <<read, observed>>
    <3>1. place' = [place EXCEPT ![p] = L!After(@)] /\ UNCHANGED <<read, observed>>
      BY <1>6 DEF L!PublishReceipt, L!WriteOrVerify, mine
    <3> QED
      BY <1>1, <3>1, AfterEach
  <2>2. /\ RunTypes' /\ (\A q \in Finalizer : RunIsCareful(q))'
        /\ \A q \in Finalizer : L!ManifestOf(q)' = L!ManifestOf(q) /\ L!ReceiptOf(q)' = L!ReceiptOf(q)
        /\ place'[p] = "finalized" /\ \A q \in Finalizer \ {p} : place'[q] = place[q]
    BY <1>1, <2>1, PassingMoves
  <2>3. receipt' = mine /\ (receipt # None => receipt' = receipt)
    BY <1>1, <1>6
  <2>4. manifest' # None => /\ manifest' \in [L!Kept -> Nat] /\ IsOfOneLifecycle(manifest')
                            /\ EventsAreRecorded(manifest, Len(log))' /\ manifest'["log"] <= manifest'["log head"]
    BY <1>1, <1>2 DEF OutputsBelong, EventsAreRecorded, L!Events
  <2>5. ASSUME NEW q \in Finalizer
        PROVE  /\ place'[q] \in {"receipt", "finalized"} => manifest' = L!ManifestOf(q)'
               /\ place'[q] = "finalized" => receipt' = L!ReceiptOf(q)'
    <3>1. CASE q = p
      BY <1>1, <1>3, <2>2, <2>3, <3>1 DEF mine
    <3>2. CASE q # p
      <4>1. /\ place[q] \in {"receipt", "finalized"} => manifest = L!ManifestOf(q)
            /\ place[q] = "finalized" => receipt = L!ReceiptOf(q)
        BY <1>2 DEF OutputsBelong
      <4>2. place[q] = "finalized" => receipt # None
        <5>1. place[q] = "finalized" =>
                /\ L!ReceiptOf(q) = [time |-> observed[q], manifest |-> L!ManifestOf(q)]
                /\ observed[q] \in Times
          BY DEF L!ReceiptOf, RInv, RunTypes
        <5> QED
          BY <4>1, <5>1, ManifestsAreNumbers, OutputsAreNotNone DEF RInv
      <4> QED
        BY <1>1, <2>2, <2>3, <3>2, <4>1, <4>2
    <3> QED
      BY <3>1, <3>2
  <2>6. receipt' # None => manifest' # None /\ receipt' \in [time : Times, manifest : {manifest'}]
    BY <1>1, <1>3, <2>3
  <2>7. OutputsBelong'
    BY <2>4, <2>5, <2>6 DEF OutputsBelong
  <2> QED
    BY <2>2, <2>7 DEF RInv
<1> QED
  BY <1>5, <1>6

LEMMA RunInvariance == RInv /\ [L!Next]_(L!vars) => RInv'
<1>1. ASSUME RInv, UNCHANGED L!vars PROVE RInv'
  <2>1. UNCHANGED <<disk, log, manifest, receipt, place, read, observed, faults>>
    BY <1>1 DEF L!vars
  <2>2. RunTypes'
    BY <1>1, <2>1 DEF RInv, RunTypes
  <2>3. (\A p \in Finalizer : RunIsCareful(p))'
    <3> SUFFICES ASSUME NEW p \in Finalizer PROVE RunIsCareful(p)'
      OBVIOUS
    <3>1. EventsAreRecorded(read[p], read[p]["log events"])' <=> EventsAreRecorded(read[p], read[p]["log events"])
      BY <2>1 DEF EventsAreRecorded, L!Events
    <3>2. RunIsCareful(p)
      BY <1>1 DEF RInv
    <3> QED
      BY <2>1, <3>1, <3>2 DEF RunIsCareful
  <2>4. OutputsBelong'
    BY <1>1, <2>1 DEF RInv, OutputsBelong, EventsAreRecorded, L!Events, L!ManifestOf, L!ReceiptOf
  <2> QED
    BY <2>2, <2>3, <2>4 DEF RInv
<1>2. ASSUME RInv, NEW p \in Finalizer, L!Step(p) \/ L!Crash(p) PROVE RInv'
  BY <1>2, BeginKeepsRuns, ReadKeepsRuns, PublishManifestKeepsRuns, PublishReceiptKeepsRuns, CrashKeepsRuns DEF L!Step
<1> QED
  BY <1>1, <1>2, WorldKeepsRuns DEF L!Next

(* Outputs that are there stay, and a run ends with the receipt on disk.   *)
LEMMA RunsKeepOutputs == RInv /\ RInv' /\ [L!Next]_(L!vars) => [L!OutputsKept]_(L!vars)
<1> SUFFICES ASSUME RInv, RInv', L!Next PROVE L!OutputsKept
  OBVIOUS
<1>1. (manifest # None => manifest' = manifest) /\ (receipt # None => receipt' = receipt)
  BY DEF L!Next, L!Environment, L!Replace, L!Record, L!Step, L!Begin, L!Read, L!PublishManifest, L!PublishReceipt, L!Crash
<1>2. ASSUME NEW p \in Finalizer, place'[p] = "finalized" PROVE receipt' = L!ReceiptOf(p)
  <2>1. receipt' = L!ReceiptOf(p)'
    BY <1>2 DEF RInv, OutputsBelong
  <2>2. read'[p] = read[p] /\ observed'[p] = observed[p]
    <3>1. CASE L!Environment
      BY <3>1 DEF L!Environment, L!Replace, L!Record
    <3>2. ASSUME NEW q \in Finalizer, L!Step(q) \/ L!Crash(q), q # p PROVE read'[p] = read[p] /\ observed'[p] = observed[p]
      BY <3>2 DEF RInv, RunTypes, L!Step, L!Begin, L!Read, L!PublishManifest, L!PublishReceipt, L!WriteOrVerify, L!Crash, L!Stop
    <3>3. ASSUME L!Step(p) \/ L!Crash(p) PROVE read'[p] = read[p] /\ observed'[p] = observed[p]
      <4>1. \A s \in L!Slots : L!After(s) # "finalized"
        BY AfterEach, SlotsAreNamed DEF FileSlots, L!LogReads, Middle
      <4>2. L!Reads[1] = "preflight"
        BY FirstRead
      <4>3. ~L!Stop(p) /\ ~L!Begin(p) /\ ~L!Crash(p)
        BY <1>2, <4>2 DEF RInv, RunTypes, L!Stop, L!Begin, L!Crash
      <4>4. ~L!Read(p)
        BY <1>2, <4>1, <4>3 DEF L!Read, RInv, RunTypes
      <4> QED
        BY <3>3, <4>3, <4>4 DEF L!Step, L!PublishManifest, L!PublishReceipt, L!WriteOrVerify
    <3> QED
      BY <3>1, <3>2, <3>3 DEF L!Next
  <2> QED
    BY <2>1, <2>2 DEF L!ReceiptOf, L!ManifestOf
<1> QED
  BY <1>1, <1>2 DEF L!OutputsKept

LEMMA RunBehaviour == MCSpec => L!Init /\ [][L!Next]_(L!vars)
<1>1. MCInit => L!Init
  BY DEF MCInit
<1>2. [MCNext]_<<part, sample, vars, finalVars, evalVars, shardVars>> => [L!Next]_(L!vars)
  BY DEF MCNext, finalVars, L!vars
<1> QED
  BY <1>1, <1>2, PTL DEF MCSpec

(* A receipt of Checkpoint B names the manifest beside it, what that names *)
(* is of one lifecycle and one revision, and neither is ever replaced, for *)
(* any contents, replacements, clocks and number of runs (finalize_b8).    *)
THEOREM ReceiptStaysEarned == MCSpec => ReceiptIsEarned
<1>1. RInv => L!TypeOK /\ L!ReceiptIsEarned
  <2>1. {L!Stages[i] : i \in DOMAIN L!Stages} = FileSlots \cup Checked
    BY StagesAreNamed
  <2>2. RInv => L!TypeOK
    BY <2>1 DEF RInv, RunTypes, L!TypeOK, Times
  <2>3. RInv => L!ReceiptIsEarned
    <3> SUFFICES ASSUME RInv, receipt # None PROVE L!ReceiptIsEarned
      BY DEF L!ReceiptIsEarned
    <3>1. /\ IsOfOneLifecycle(manifest) /\ EventsAreRecorded(manifest, Len(log))
          /\ manifest["log"] <= manifest["log head"]
          /\ receipt \in [time : Times, manifest : {manifest}]
      BY DEF RInv, OutputsBelong
    <3>2. receipt.manifest = manifest
      BY <3>1
    <3>3. L!ReceiptIsEarned <=>
            /\ manifest = receipt.manifest /\ IsOfOneLifecycle(manifest)
            /\ EventsAreRecorded(manifest, Len(log)) /\ manifest["log"] <= manifest["log head"]
      BY DEF IsOfOneLifecycle, EventsAreRecorded, L!ReceiptIsEarned
    <3> QED
      BY <3>1, <3>2, <3>3
  <2> QED
    BY <2>2, <2>3
<1>2. MCSpec => [](L!TypeOK /\ L!ReceiptIsEarned)
  BY <1>1, RunBehaviour, RunInitInv, RunInvariance, PTL
<1>3. MCSpec => L!OutputsStay
  BY RunBehaviour, RunInitInv, RunInvariance, RunsKeepOutputs, PTL DEF L!OutputsStay
<1> QED
  BY <1>2, <1>3 DEF ReceiptIsEarned

-------------------------------------------------------------------------------
(* The resumable evaluation (Shards).                                      *)

HalfwayStages == {"save", "saving", "evaluate", "defer", "deferring"}

AttemptTypes ==
  /\ process \in [Attempt -> {"idle", "done", "deferred", "dead"} \cup HalfwayStages]
  /\ built \in [Attempt -> Manifest \cup {None}]
  /\ DOMAIN rows = Attempt /\ DOMAIN output = Attempt /\ DOMAIN origin = Attempt /\ DOMAIN lineage = Attempt

RowsAreOfTheShard ==
  \A a \in Attempt : ~S!Conflicting(rows[a]) /\ S!CasesOf(rows[a]) \subseteq ShardOf[a]

(* A whole output holds everything that ever went into it. *)
OutputsHoldTheirLineage ==
  \A a \in Attempt : output[a] # None /\ output[a].whole =>
    lineage[a] = S!Signed(output[a].rows, output[a].manifest)

HInv == AttemptTypes /\ RowsAreOfTheShard /\ OutputsHoldTheirLineage /\ S!ScoredRowsStay /\ S!ReceiptIsUnanimous

(* Where no two rows of a case differ, one of each case is all of them. *)
LEMMA OnePerCaseIsAll ==
  ASSUME NEW R, NEW all, S!OnePerCase(R, all), ~S!Conflicting(all)
  PROVE  R = all
<1>1. ASSUME NEW r \in all PROVE r \in R
  <2>1. r.case \in S!CasesOf(R)
    BY DEF S!OnePerCase, S!CasesOf
  <2>2. PICK k \in R : k.case = r.case
    BY <2>1 DEF S!CasesOf
  <2>3. k \in all
    BY DEF S!OnePerCase
  <2> QED
    BY <2>2, <2>3 DEF S!Conflicting
<1> QED
  BY <1>1 DEF S!OnePerCase

LEMMA LineageOfOneManifest ==
  ASSUME HInv, NEW T \in SUBSET S!Artifacts, NEW m, \A b \in T : output[b].whole /\ output[b].manifest = m
  PROVE  S!LineageOf(T) = S!Signed(S!RowsIn(T), m)
<1>1. \A b \in T : lineage[b] = S!Signed(output[b].rows, m)
  BY DEF HInv, OutputsHoldTheirLineage, S!Artifacts
<1>2. \A b \in T : lineage[b] = {[row |-> r, manifest |-> m] : r \in output[b].rows}
  BY <1>1 DEF S!Signed
<1>3. ASSUME NEW x \in S!LineageOf(T) PROVE x \in S!Signed(S!RowsIn(T), m)
  <2>1. PICK b \in T : x \in lineage[b]
    BY DEF S!LineageOf
  <2>2. PICK r \in output[b].rows : x = [row |-> r, manifest |-> m]
    BY <1>2, <2>1
  <2> QED
    BY <2>2 DEF S!Signed, S!RowsIn
<1>4. ASSUME NEW x \in S!Signed(S!RowsIn(T), m) PROVE x \in S!LineageOf(T)
  <2>1. PICK r \in S!RowsIn(T) : x = [row |-> r, manifest |-> m]
    BY DEF S!Signed
  <2>2. PICK b \in T : r \in output[b].rows
    BY DEF S!RowsIn
  <2>3. x \in lineage[b]
    BY <1>2, <2>1, <2>2
  <2> QED
    BY <2>3 DEF S!LineageOf
<1> QED
  BY <1>3, <1>4

LEMMA ShardsInitInv == S!Init => HInv
<1> SUFFICES ASSUME S!Init PROVE HInv
  OBVIOUS
<1>1. AttemptTypes
  BY DEF S!Init, AttemptTypes
<1>2. RowsAreOfTheShard
  BY DEF S!Init, RowsAreOfTheShard, S!Conflicting, S!CasesOf
<1>3. OutputsHoldTheirLineage /\ S!ReceiptIsUnanimous
  BY DEF S!Init, OutputsHoldTheirLineage, S!ReceiptIsUnanimous
<1>4. S!ScoredRowsStay
  BY DEF S!Init, S!ScoredRowsStay, S!Idle
<1> QED
  BY <1>1, <1>2, <1>3, <1>4 DEF HInv

(* The attempts that do not move. *)
OnlyWorks(a) ==
  \A b \in Attempt \ {a} :
    /\ process'[b] = process[b] /\ built'[b] = built[b] /\ rows'[b] = rows[b]
    /\ output'[b] = output[b] /\ origin'[b] = origin[b] /\ lineage'[b] = lineage[b]

ScoredRowsStayOf(a) ==
  /\ ~S!Idle(a) => origin[a] \subseteq S!Signed(rows[a], built[a])
  /\ process[a] \in {"done", "deferred"} =>
       output[a].whole /\ output[a].rows = rows[a] /\ output[a].manifest = built[a]
  /\ process[a] = "done" => S!CasesOf(rows[a]) = ShardOf[a]

LEMMA AttemptKeepsShards ==
  ASSUME HInv, NEW a \in Attempt, OnlyWorks(a), AttemptTypes', issued' = issued,
         (~S!Conflicting(rows[a]) /\ S!CasesOf(rows[a]) \subseteq ShardOf[a])',
         (output[a] # None /\ output[a].whole => lineage[a] = S!Signed(output[a].rows, output[a].manifest))',
         ScoredRowsStayOf(a)'
  PROVE  HInv'
<1>1. RowsAreOfTheShard'
  <2> SUFFICES ASSUME NEW b \in Attempt PROVE (~S!Conflicting(rows[b]) /\ S!CasesOf(rows[b]) \subseteq ShardOf[b])'
    BY DEF RowsAreOfTheShard
  <2>1. CASE b # a
    BY <2>1 DEF HInv, RowsAreOfTheShard, OnlyWorks
  <2> QED
    BY <2>1
<1>2. OutputsHoldTheirLineage'
  <2> SUFFICES ASSUME NEW b \in Attempt
               PROVE (output[b] # None /\ output[b].whole => lineage[b] = S!Signed(output[b].rows, output[b].manifest))'
    BY DEF OutputsHoldTheirLineage
  <2>1. CASE b # a
    BY <2>1 DEF HInv, OutputsHoldTheirLineage, OnlyWorks
  <2> QED
    BY <2>1
<1>3. S!ScoredRowsStay'
  <2>1. ASSUME NEW b \in Attempt PROVE ScoredRowsStayOf(b)'
    <3>1. CASE b # a
      <4>1. ScoredRowsStayOf(b)
        BY DEF HInv, S!ScoredRowsStay, ScoredRowsStayOf
      <4> QED
        BY <3>1, <4>1 DEF ScoredRowsStayOf, OnlyWorks, S!Idle
    <3> QED
      BY <3>1
  <2> QED
    BY <2>1 DEF S!ScoredRowsStay, ScoredRowsStayOf
<1>4. S!ReceiptIsUnanimous'
  BY DEF HInv, S!ReceiptIsUnanimous
<1> QED
  BY <1>1, <1>2, <1>3, <1>4 DEF HInv

LEMMA StartKeepsShards == ASSUME HInv, NEW a \in Attempt, S!Start(a) PROVE HInv'
<1>1. PICK T \in SUBSET S!Artifacts, m \in Manifest :
        /\ S!Readable(a, T, m) /\ built' = [built EXCEPT ![a] = m]
        /\ \E R \in SUBSET S!RowsIn(T) : S!OnePerCase(R, S!RowsIn(T)) /\ rows' = [rows EXCEPT ![a] = R]
        /\ origin' = [origin EXCEPT ![a] = S!LineageOf(T)]
  BY DEF S!Start
<1>2. /\ process' = [process EXCEPT ![a] = "save"] /\ UNCHANGED <<output, issued, lineage>>
      /\ rows' = [rows EXCEPT ![a] = S!RowsIn(T)]
  BY <1>1, OnePerCaseIsAll DEF S!Start, S!Readable
<1>3. S!LineageOf(T) = S!Signed(S!RowsIn(T), m)
  BY <1>1, LineageOfOneManifest DEF S!Readable
<1>4. AttemptTypes' /\ OnlyWorks(a)
  BY <1>1, <1>2 DEF HInv, AttemptTypes, OnlyWorks, HalfwayStages
<1>5. process'[a] = "save" /\ rows'[a] = S!RowsIn(T) /\ built'[a] = m /\ origin'[a] = S!LineageOf(T)
  BY <1>1, <1>2 DEF HInv, AttemptTypes
<1>6. ~S!Conflicting(S!RowsIn(T)) /\ S!CasesOf(S!RowsIn(T)) \subseteq ShardOf[a]
  <2>1. \A b \in T : \A r \in output[b].rows : r.case \in ShardOf[a]
    BY <1>1 DEF S!Readable, S!CasesOf
  <2> QED
    BY <1>1, <2>1 DEF S!Readable, S!CasesOf, S!RowsIn
<1>7. (output[a] # None /\ output[a].whole => lineage[a] = S!Signed(output[a].rows, output[a].manifest))'
  BY <1>2 DEF HInv, OutputsHoldTheirLineage
<1>8. ScoredRowsStayOf(a)'
  BY <1>3, <1>5 DEF ScoredRowsStayOf
<1> QED
  BY <1>2, <1>4, <1>5, <1>6, <1>7, <1>8, AttemptKeepsShards

LEMMA OpenKeepsShards == ASSUME HInv, NEW a \in Attempt, S!Open(a) PROVE HInv'
<1>1. /\ process' = [process EXCEPT ![a] = process'[a]] /\ process'[a] \in {"saving", "deferring"}
      /\ output' = [output EXCEPT ![a] = [whole |-> FALSE, rows |-> {}, manifest |-> None]]
      /\ UNCHANGED <<built, rows, issued, origin, lineage>> /\ process[a] \in {"save", "defer"}
  BY DEF S!Open, HInv, AttemptTypes
<1>2. AttemptTypes' /\ OnlyWorks(a)
  BY <1>1 DEF HInv, AttemptTypes, OnlyWorks, HalfwayStages
<1>3. (~S!Conflicting(rows[a]) /\ S!CasesOf(rows[a]) \subseteq ShardOf[a])'
  BY <1>1 DEF HInv, RowsAreOfTheShard
<1>4. ~output'[a].whole
  BY <1>1 DEF HInv, AttemptTypes
<1>5. ScoredRowsStayOf(a)'
  BY <1>1 DEF HInv, S!ScoredRowsStay, ScoredRowsStayOf, S!Idle
<1> QED
  BY <1>1, <1>2, <1>3, <1>4, <1>5, AttemptKeepsShards

(* What is written is what the attempt holds, with the rows it began with. *)
LEMMA WriteKeepsShards == ASSUME HInv, NEW a \in Attempt, S!Write(a) PROVE HInv'
<1>1. /\ process[a] \in {"saving", "deferring"}
      /\ output' = [output EXCEPT ![a] = [whole |-> TRUE, rows |-> rows[a], manifest |-> built[a]]]
      /\ lineage' = [lineage EXCEPT ![a] = origin[a] \cup S!Signed(rows[a], built[a])]
      /\ process' = [process EXCEPT ![a] = process'[a]]
      /\ process'[a] = IF process[a] = "deferring" THEN "deferred" ELSE IF S!Left(a) = {} THEN "done" ELSE "evaluate"
      /\ UNCHANGED <<built, rows, issued, origin>>
  BY DEF S!Write, HInv, AttemptTypes
<1>2. AttemptTypes' /\ OnlyWorks(a)
  BY <1>1 DEF HInv, AttemptTypes, OnlyWorks, HalfwayStages
<1>3. ~S!Conflicting(rows[a]) /\ S!CasesOf(rows[a]) \subseteq ShardOf[a] /\ ScoredRowsStayOf(a)
  BY DEF HInv, RowsAreOfTheShard, S!ScoredRowsStay, ScoredRowsStayOf
<1>4. output'[a] = [whole |-> TRUE, rows |-> rows[a], manifest |-> built[a]]
  BY <1>1 DEF HInv, AttemptTypes
<1>5. origin[a] \subseteq S!Signed(rows[a], built[a])
  BY <1>1, <1>3 DEF ScoredRowsStayOf, S!Idle
<1>6. lineage'[a] = S!Signed(rows[a], built[a])
  BY <1>1, <1>5 DEF HInv, AttemptTypes
<1>7. process'[a] = "done" => S!CasesOf(rows[a]) = ShardOf[a]
  BY <1>1, <1>3 DEF S!Left
<1>8. ScoredRowsStayOf(a)'
  BY <1>1, <1>4, <1>5, <1>7 DEF ScoredRowsStayOf
<1>9. (output[a] # None /\ output[a].whole => lineage[a] = S!Signed(output[a].rows, output[a].manifest))'
  BY <1>4, <1>6
<1> QED
  BY <1>1, <1>2, <1>3, <1>8, <1>9, AttemptKeepsShards

LEMMA EvaluateKeepsShards == ASSUME HInv, NEW a \in Attempt, S!Evaluate(a) PROVE HInv'
<1>1. PICK c \in S!Left(a), passed \in BOOLEAN : rows' = [rows EXCEPT ![a] = @ \cup {S!Row(c, passed)}]
  BY DEF S!Evaluate
<1>2. /\ process[a] = "evaluate" /\ process' = [process EXCEPT ![a] = "save"]
      /\ UNCHANGED <<built, output, issued, origin, lineage>>
  BY DEF S!Evaluate
<1>3. ~S!Conflicting(rows[a]) /\ S!CasesOf(rows[a]) \subseteq ShardOf[a] /\ ScoredRowsStayOf(a)
  BY DEF HInv, RowsAreOfTheShard, S!ScoredRowsStay, ScoredRowsStayOf
<1>4. AttemptTypes' /\ OnlyWorks(a) /\ process'[a] = "save" /\ rows'[a] = rows[a] \cup {S!Row(c, passed)}
  BY <1>1, <1>2 DEF HInv, AttemptTypes, OnlyWorks, HalfwayStages
<1>5. c \in ShardOf[a] /\ (\A r \in rows[a] : r.case # c) /\ S!Row(c, passed).case = c
  BY DEF S!Left, S!CasesOf, S!Row
<1>6. (~S!Conflicting(rows[a]) /\ S!CasesOf(rows[a]) \subseteq ShardOf[a])'
  BY <1>3, <1>4, <1>5 DEF S!Conflicting, S!CasesOf
<1>7. origin'[a] \subseteq S!Signed(rows'[a], built'[a])
  BY <1>2, <1>3, <1>4 DEF ScoredRowsStayOf, S!Idle, S!Signed
<1>8. ScoredRowsStayOf(a)'
  BY <1>4, <1>7 DEF ScoredRowsStayOf
<1>9. (output[a] # None /\ output[a].whole => lineage[a] = S!Signed(output[a].rows, output[a].manifest))'
  BY <1>2 DEF HInv, OutputsHoldTheirLineage
<1> QED
  BY <1>2, <1>4, <1>6, <1>8, <1>9, AttemptKeepsShards

LEMMA DeferKeepsShards == ASSUME HInv, NEW a \in Attempt, S!Defer(a) PROVE HInv'
<1>1. /\ process[a] = "evaluate" /\ process' = [process EXCEPT ![a] = "defer"]
      /\ UNCHANGED <<built, rows, output, issued, origin, lineage>>
  BY DEF S!Defer
<1>2. AttemptTypes' /\ OnlyWorks(a) /\ process'[a] = "defer"
  BY <1>1 DEF HInv, AttemptTypes, OnlyWorks, HalfwayStages
<1>3. (~S!Conflicting(rows[a]) /\ S!CasesOf(rows[a]) \subseteq ShardOf[a])'
  BY <1>1 DEF HInv, RowsAreOfTheShard
<1>4. (output[a] # None /\ output[a].whole => lineage[a] = S!Signed(output[a].rows, output[a].manifest))'
  BY <1>1 DEF HInv, OutputsHoldTheirLineage
<1>5. ScoredRowsStayOf(a)'
  BY <1>1, <1>2 DEF HInv, S!ScoredRowsStay, ScoredRowsStayOf, S!Idle
<1> QED
  BY <1>1, <1>2, <1>3, <1>4, <1>5, AttemptKeepsShards

LEMMA DeathKeepsShards == ASSUME HInv, NEW a \in Attempt, S!Crash(a) PROVE HInv'
<1>1. /\ process' = [process EXCEPT ![a] = "dead"] /\ built' = [built EXCEPT ![a] = None]
      /\ rows' = [rows EXCEPT ![a] = {}] /\ origin' = [origin EXCEPT ![a] = {}]
      /\ UNCHANGED <<output, issued, lineage>>
  BY DEF S!Crash
<1>2. AttemptTypes' /\ OnlyWorks(a) /\ process'[a] = "dead" /\ rows'[a] = {}
  BY <1>1 DEF HInv, AttemptTypes, OnlyWorks
<1>3. (~S!Conflicting(rows[a]) /\ S!CasesOf(rows[a]) \subseteq ShardOf[a])'
  BY <1>2 DEF S!Conflicting, S!CasesOf
<1>4. (output[a] # None /\ output[a].whole => lineage[a] = S!Signed(output[a].rows, output[a].manifest))'
  BY <1>1 DEF HInv, OutputsHoldTheirLineage
<1>5. ScoredRowsStayOf(a)'
  BY <1>2 DEF ScoredRowsStayOf, S!Idle
<1> QED
  BY <1>1, <1>2, <1>3, <1>4, <1>5, AttemptKeepsShards

LEMMA AggregateKeepsShards == ASSUME HInv, S!Aggregate PROVE HInv'
<1>1. PICK T \in SUBSET S!Artifacts, R \in SUBSET S!RowsIn(S!Artifacts) :
        /\ T # {} /\ S!Agree(T) /\ S!OnePerCase(R, S!RowsIn(T)) /\ S!Passes(R)
        /\ issued' = [rows |-> R, manifests |-> {output[a].manifest : a \in T}, lineage |-> S!LineageOf(T)]
  BY DEF S!Aggregate
<1>2. UNCHANGED <<process, built, rows, output, origin, lineage>>
  BY DEF S!Aggregate
<1>3. S!ReceiptIsUnanimous'
  <2>1. R = S!RowsIn(T)
    BY <1>1, OnePerCaseIsAll DEF S!Agree
  <2>2. ASSUME NEW m \in {output[a].manifest : a \in T} PROVE S!LineageOf(T) = S!Signed(R, m)
    <3>1. \A b \in T : output[b].whole /\ output[b].manifest = m
      BY <1>1 DEF S!Agree
    <3> QED
      BY <2>1, <3>1, LineageOfOneManifest
  <2>3. issued'.rows = R /\ issued'.manifests = {output[a].manifest : a \in T} /\ issued'.lineage = S!LineageOf(T)
    BY <1>1
  <2> QED
    BY <1>1, <2>2, <2>3 DEF S!ReceiptIsUnanimous
<1>4. AttemptTypes' /\ RowsAreOfTheShard' /\ OutputsHoldTheirLineage' /\ S!ScoredRowsStay'
  BY <1>2 DEF HInv, AttemptTypes, RowsAreOfTheShard, OutputsHoldTheirLineage, S!ScoredRowsStay, S!Idle
<1> QED
  BY <1>3, <1>4 DEF HInv

LEMMA ShardsInvariance == HInv /\ [S!Next]_(S!vars) => HInv'
<1>1. ASSUME HInv, UNCHANGED S!vars PROVE HInv'
  <2>1. UNCHANGED <<process, built, rows, output, issued, origin, lineage>>
    BY <1>1 DEF S!vars
  <2>2. AttemptTypes' /\ RowsAreOfTheShard' /\ OutputsHoldTheirLineage' /\ S!ScoredRowsStay'
    BY <1>1, <2>1 DEF HInv, AttemptTypes, RowsAreOfTheShard, OutputsHoldTheirLineage, S!ScoredRowsStay, S!Idle
  <2>3. S!ReceiptIsUnanimous'
    BY <1>1, <2>1 DEF HInv, S!ReceiptIsUnanimous
  <2> QED
    BY <2>2, <2>3 DEF HInv
<1>2. ASSUME HInv, NEW a \in Attempt, S!Step(a) PROVE HInv'
  BY <1>2, StartKeepsShards, OpenKeepsShards, WriteKeepsShards, EvaluateKeepsShards, DeferKeepsShards,
     DeathKeepsShards DEF S!Step
<1> QED
  BY <1>1, <1>2, AggregateKeepsShards DEF S!Next

LEMMA ShardsBehaviour == MCSpec => S!Init /\ [][S!Next]_(S!vars)
<1>1. MCInit => S!Init
  BY DEF MCInit
<1>2. [MCNext]_<<part, sample, vars, finalVars, evalVars, shardVars>> => [S!Next]_(S!vars)
  BY DEF MCNext, shardVars, S!vars
<1> QED
  BY <1>1, <1>2, PTL DEF MCSpec

LEMMA ShardsStayEarned == MCSpec => [](S!TypeOK /\ S!ScoredRowsStay /\ S!ReceiptIsUnanimous)
<1>1. HInv => S!TypeOK /\ S!ScoredRowsStay /\ S!ReceiptIsUnanimous
  BY DEF HInv, AttemptTypes, RowsAreOfTheShard, HalfwayStages, S!TypeOK
<1> QED
  BY <1>1, ShardsBehaviour, ShardsInitInv, ShardsInvariance, PTL

-------------------------------------------------------------------------------
(* The evaluation of a candidate (Evaluation): what its rows can come to.  *)

LEMMA CeilMeets ==
  ASSUME NEW x \in Int, NEW b \in Nat, NEW n \in Nat
  PROVE  E!Ceil(b, n) \in Int /\ (x >= E!Ceil(b, n) <=> E!Meets(x, n, b))
<1>1. PICK m \in Nat : m = b * n
  OBVIOUS
<1>2. PICK q \in Int : q = (-m) \div 10000
  OBVIOUS
<1>3. 10000 * q <= -m /\ -m < 10000 * q + 10000
  BY <1>2
<1>4. E!Ceil(b, n) = -q
  BY <1>1, <1>2 DEF E!Ceil
<1> QED
  BY <1>1, <1>3, <1>4 DEF E!Meets

(* More right answers than answers more do not harm a reliability. *)
LEMMA RightAnswersHelp ==
  ASSUME NEW r \in Nat, r <= 10000, NEW x \in Int, NEW y \in Int, NEW x2 \in Int, NEW y2 \in Int,
         E!Meets(x, y, r), x2 >= x, x2 - x >= y2 - y
  PROVE  E!Meets(x2, y2, r)
<1>1. x * 10000 >= r * y
  BY DEF E!Meets
<1>2. CASE y2 <= y
  <2>1. PICK d \in Nat : y = y2 + d
    BY <1>2
  <2>2. PICK j \in Int, k \in Int, l \in Int : j = r * y2 /\ k = r * d /\ l = r * y
    OBVIOUS
  <2>3. l = j + k /\ k >= 0
    BY <2>1, <2>2
  <2>4. x * 10000 >= l
    BY <1>1, <2>2
  <2>5. x2 * 10000 >= j
    BY <2>3, <2>4
  <2> QED
    BY <2>2, <2>5 DEF E!Meets
<1>3. CASE y2 > y
  <2>1. PICK d \in Nat : y2 = y + d
    BY <1>3
  <2>2. PICK j \in Int, k \in Int, l \in Int : j = r * y2 /\ k = r * d /\ l = r * y
    OBVIOUS
  <2>3. j = l + k
    BY <2>1, <2>2
  <2>4. k <= 10000 * d
    BY <2>1, <2>2
  <2>5. x * 10000 >= l
    BY <1>1, <2>2
  <2>6. x2 * 10000 >= j
    BY <2>1, <2>3, <2>4, <2>5
  <2> QED
    BY <2>2, <2>6 DEF E!Meets
<1> QED
  BY <1>2, <1>3

LEMMA MoreMeets ==
  ASSUME NEW x \in Int, NEW x2 \in Int, x2 >= x, NEW n \in Int, NEW b \in Int, E!Meets(x, n, b)
  PROVE  E!Meets(x2, n, b)
<1>1. PICK m \in Int : m = b * n
  OBVIOUS
<1>2. x * 10000 >= m
  BY <1>1 DEF E!Meets
<1>3. x2 * 10000 >= m
  BY <1>2
<1> QED
  BY <1>1, <1>3 DEF E!Meets

(* When one row is more than may be wrong, nothing is. *)
LEMMA OneWrongIsFatal ==
  ASSUME NEW r \in Nat, r <= 10000, NEW n \in Nat, (10000 - r) * n < 10000,
         NEW y \in 0..n, NEW x \in 0..y, E!Meets(x, y, r)
  PROVE  x = y
<1> SUFFICES ASSUME x < y PROVE FALSE
  OBVIOUS
<1>1. x * 10000 >= r * y
  BY DEF E!Meets
<1>2. PICK w \in Nat : w = 10000 - r
  OBVIOUS
<1>3. PICK d \in Nat : n = y + d
  OBVIOUS
<1>4. PICK j \in Int, k \in Int, l \in Int : j = w * y /\ k = w * d /\ l = w * n
  OBVIOUS
<1>5. l = j + k /\ k >= 0
  BY <1>3, <1>4
<1>6. l < 10000
  BY <1>2, <1>4
<1>7. j = 10000 * y - r * y
  BY <1>2, <1>4
<1>8. PICK i \in Int : i = r * y
  OBVIOUS
<1> QED
  BY <1>1, <1>5, <1>6, <1>7, <1>8

-------------------------------------------------------------------------------
(* How many cases of each kind come before the next one. *)

Before(r, n, ambiguous) == {i \in 1..n : (KindsOf[r][i] = "ambiguous") = ambiguous}
Many(r, n, ambiguous) == Cardinality(Before(r, n, ambiguous))

Kinds(r) == {"clear", "ambiguous"} \cup (IF r = "qualification" THEN {"conflict"} ELSE {})

LEMMA SuitesAreSmall ==
  /\ Runner \subseteq {"candidate 5", "candidate 6", "candidate 8", "qualification"}
  /\ \A r \in Runner : KindsOf[r] \in Seq(Kinds(r))
  /\ \A r \in Runner : CriteriaOf[r] \subseteq E!Thresholds
  /\ E!OneWrongRowIsFatal
  /\ None \notin E!Counts \cup {"PASS", "FAILED", "OPEN"}
<1>1. E!EvaluationAssumption => Runner \subseteq {"candidate 5", "candidate 6", "candidate 8", "qualification"}
  BY Zenon DEF E!EvaluationAssumption
<1>2. E!EvaluationAssumption => \A r \in Runner : KindsOf[r] \in Seq(Kinds(r))
  BY Zenon DEF E!EvaluationAssumption, Kinds
<1>3. E!EvaluationAssumption => \A r \in Runner : CriteriaOf[r] \subseteq E!Thresholds
  BY Zenon DEF E!EvaluationAssumption
<1>4. E!EvaluationAssumption => E!OneWrongRowIsFatal /\ None \notin E!Counts \cup {"PASS", "FAILED", "OPEN"}
  BY Zenon DEF E!EvaluationAssumption
<1> QED
  BY <1>1, <1>2, <1>3, <1>4, EvaluationAssumed, Zenon

LEMMA SuiteIsFinite ==
  ASSUME runner \in Runner PROVE E!SuiteSize \in Nat /\ DOMAIN KindsOf[runner] = 1..E!SuiteSize
<1>1. KindsOf[runner] \in Seq(Kinds(runner))
  BY SuitesAreSmall, Zenon
<1>2. \A kinds \in Seq(Kinds(runner)) : Len(kinds) \in Nat /\ DOMAIN kinds = 1..Len(kinds)
  OBVIOUS
<1> QED
  BY <1>1, <1>2, Zenon DEF E!SuiteSize

LEMMA ManyIsNat == ASSUME NEW n \in Nat, NEW b \in BOOLEAN
                   PROVE  Many(runner, n, b) \in 0..n /\ IsFiniteSet(Before(runner, n, b))
<1>1. Before(runner, n, b) \in SUBSET (1..n) /\ IsFiniteSet(1..n) /\ Cardinality(1..n) = n
  BY FS_Interval DEF Before
<1> QED
  BY <1>1, FS_Subset, FS_CardinalityType DEF Many

LEMMA ManyGrows == ASSUME NEW n \in Nat, NEW m \in Nat, n <= m, NEW b \in BOOLEAN PROVE Many(runner, n, b) <= Many(runner, m, b)
<1>1. Before(runner, n, b) \in SUBSET Before(runner, m, b) /\ IsFiniteSet(Before(runner, m, b))
  BY ManyIsNat DEF Before
<1> QED
  BY <1>1, FS_Subset DEF Many

LEMMA NoneBefore == \A b \in BOOLEAN : Many(runner, 0, b) = 0
BY ManyIsNat

LEMMA OneMore ==
  ASSUME NEW n \in Nat, NEW b \in BOOLEAN
  PROVE  Many(runner, n + 1, b) = Many(runner, n, b) + E!Unit((E!Kind(n + 1) = "ambiguous") = b)
<1> DEFINE more == (E!Kind(n + 1) = "ambiguous") = b
<1>1. Before(runner, n + 1, b) = IF more THEN Before(runner, n, b) \cup {n + 1} ELSE Before(runner, n, b)
  BY DEF Before, E!Kind
<1>2. n + 1 \notin Before(runner, n, b)
  BY DEF Before
<1>3. CASE more
  BY <1>1, <1>2, <1>3, ManyIsNat, FS_AddElement DEF Many, E!Unit
<1>4. CASE ~more
  BY <1>1, <1>4, ManyIsNat DEF Many, E!Unit
<1> QED
  BY <1>3, <1>4

LEMMA EvaluationCounts == \A T : E!Cardinality(T) = Cardinality(T)
  BY Zenon DEF E!Cardinality, Cardinality

LEMMA AllAreCounted ==
  ASSUME runner \in Runner, NEW b \in BOOLEAN
  PROVE  E!HowMany(runner, b) = Many(runner, E!SuiteSize, b)
<1>1. {i \in DOMAIN KindsOf[runner] : (KindsOf[runner][i] = "ambiguous") = b} = Before(runner, E!SuiteSize, b)
  BY SuiteIsFinite, Zenon DEF Before
<1>2. E!HowMany(runner, b) = Cardinality({i \in DOMAIN KindsOf[runner] : (KindsOf[runner][i] = "ambiguous") = b})
  BY EvaluationCounts, Zenon DEF E!HowMany
<1> QED
  BY <1>1, <1>2, Zenon DEF Many

LEMMA KindsPartition ==
  ASSUME NEW n \in Nat
  PROVE  Many(runner, n, TRUE) + Many(runner, n, FALSE) = n
<1>1. /\ Before(runner, n, TRUE) \cup Before(runner, n, FALSE) = 1..n
      /\ Before(runner, n, TRUE) \cap Before(runner, n, FALSE) = {}
  BY DEF Before
<1>2. Cardinality(1..n) = n
  BY FS_Interval
<1>3. Cardinality(Before(runner, n, TRUE) \cap Before(runner, n, FALSE)) = 0
  BY <1>1, FS_EmptySet
<1>4. Cardinality(1..n) = Many(runner, n, TRUE) + Many(runner, n, FALSE) - 0
  BY <1>1, <1>3, ManyIsNat, FS_Union, Zenon DEF Many
<1>5. \A x, y \in 0..n : n = x + y - 0 => x + y = n
  OBVIOUS
<1>6. Many(runner, n, TRUE) \in 0..n /\ Many(runner, n, FALSE) \in 0..n
  BY ManyIsNat, Zenon
<1> QED
  BY <1>2, <1>4, <1>5, <1>6, Zenon
-------------------------------------------------------------------------------
(* What the cases without a row can still come to.                         *)

WellCounted(c) ==
  /\ c \in E!Counts
  /\ c.clear <= c.clear_total /\ c.ambiguous <= c.ambiguous_total
  /\ c.correct <= c.autonomous /\ c.autonomous <= c.clear + c.ambiguous

Completed(c, right, wrong, rejected, good, poor, bold) ==
  [c EXCEPT !.clear = c.clear_total, !.ambiguous = c.ambiguous_total,
            !.passes = @ + right + rejected + good, !.correct = @ + right,
            !.autonomous = @ + right + wrong + bold, !.clarified = @ + good + poor]

LEMMA CompletedCounts ==
  ASSUME NEW c \in E!Counts, NEW right \in Nat, NEW wrong \in Nat, NEW rejected \in Nat,
         NEW good \in Nat, NEW poor \in Nat, NEW bold \in Nat
  PROVE  Completed(c, right, wrong, rejected, good, poor, bold) \in E!Counts
<1>1. /\ c.passes + right + rejected + good \in Nat /\ c.correct + right \in Nat
      /\ c.autonomous + right + wrong + bold \in Nat /\ c.clarified + good + poor \in Nat
  BY DEF E!Counts
<1> QED
  BY <1>1 DEF Completed, E!Counts

LEMMA CountsAreNumbers ==
  ASSUME NEW c \in E!Counts
  PROVE  /\ c.clear_total \in Nat /\ c.ambiguous_total \in Nat /\ c.clear \in Nat /\ c.ambiguous \in Nat
         /\ c.passes \in Nat /\ c.autonomous \in Nat /\ c.correct \in Nat /\ c.clarified \in Nat /\ c.unsafe \in Nat
         /\ E!Total(c) \in Nat /\ E!Processed(c) \in Nat
         /\ E!ClearLeft(c) = c.clear_total - c.clear /\ E!AmbiguousLeft(c) = c.ambiguous_total - c.ambiguous
         /\ E!Total(c) = c.clear_total + c.ambiguous_total /\ E!Processed(c) = c.clear + c.ambiguous
         /\ E!Left(c) = E!ClearLeft(c) + E!AmbiguousLeft(c)
BY DEF E!Counts, E!Total, E!Processed, E!ClearLeft, E!AmbiguousLeft, E!Left

LEMMA PassingMeans ==
  ASSUME NEW c \in E!Counts, NEW right \in Nat, NEW wrong \in Nat, NEW rejected \in Nat,
         NEW good \in Nat, NEW poor \in Nat, NEW bold \in Nat, NEW t
  PROVE  /\ E!Gate(Completed(c, right, wrong, rejected, good, poor, bold), t) <=>
              /\ E!Meets(c.passes + right + rejected + good, E!Total(c), t.passes)
              /\ c.autonomous + right + wrong + bold > 0
              /\ E!Meets(c.correct + right, c.autonomous + right + wrong + bold, t.reliability)
              /\ E!Meets(c.autonomous + right + wrong + bold, E!Total(c), t.coverage)
              /\ E!Meets(c.clarified + good + poor, c.ambiguous_total, t.clarification)
         /\ E!FinalPass(Completed(c, right, wrong, rejected, good, poor, bold), t) <=>
              E!Gate(Completed(c, right, wrong, rejected, good, poor, bold), t) /\ c.unsafe = 0
<1> PICK d : d = Completed(c, right, wrong, rejected, good, poor, bold)
  OBVIOUS
<1>1. /\ d.clear_total = c.clear_total /\ d.ambiguous_total = c.ambiguous_total
      /\ d.clear = c.clear_total /\ d.ambiguous = c.ambiguous_total
      /\ d.passes = c.passes + right + rejected + good /\ d.correct = c.correct + right
      /\ d.autonomous = c.autonomous + right + wrong + bold
      /\ d.clarified = c.clarified + good + poor /\ d.unsafe = c.unsafe
  BY DEF Completed, E!Counts
<1>2. E!Total(d) = E!Total(c) /\ E!Processed(d) = E!Total(d)
  BY <1>1 DEF E!Total, E!Processed
<1> QED
  BY <1>1, <1>2 DEF E!Gate, E!FinalPass

LEMMA CanPassMeans ==
  ASSUME NEW c, WellCounted(c), E!CanPass(c)
  PROVE  \E right, wrong, rejected, good, poor, bold \in Nat :
           /\ right + wrong + rejected <= E!ClearLeft(c) /\ good + poor + bold <= E!AmbiguousLeft(c)
           /\ runner # "qualification" => rejected = 0
           /\ runner = "qualification" => poor = 0 /\ bold = 0
           /\ E!Passing(Completed(c, right, wrong, rejected, good, poor, bold))
<1> DEFINE Upto(n, possible) == IF possible THEN 0..n ELSE {0}
<1>1. PICK right, wrong, rejected, good, poor, bold :
        /\ right \in 0..E!ClearLeft(c) /\ wrong \in 0..(E!ClearLeft(c) - right)
        /\ rejected \in Upto(E!ClearLeft(c) - right - wrong, ~(runner # "qualification"))
        /\ good \in 0..E!AmbiguousLeft(c) /\ poor \in Upto(E!AmbiguousLeft(c) - good, runner # "qualification")
        /\ bold \in Upto(E!AmbiguousLeft(c) - good - poor, runner # "qualification")
        /\ E!Passing(Completed(c, right, wrong, rejected, good, poor, bold))
  BY DEF E!CanPass, Completed
<1>2. E!ClearLeft(c) \in Nat /\ E!AmbiguousLeft(c) \in Nat
  BY CountsAreNumbers DEF WellCounted
<1>3. right \in Nat /\ wrong \in Nat /\ good \in Nat /\ E!ClearLeft(c) - right - wrong \in Nat /\ E!AmbiguousLeft(c) - good \in Nat
  BY <1>1, <1>2
<1>4. /\ rejected \in Nat /\ right + wrong + rejected <= E!ClearLeft(c) /\ (runner # "qualification" => rejected = 0)
      /\ poor \in Nat /\ E!AmbiguousLeft(c) - good - poor \in Nat /\ (runner = "qualification" => poor = 0)
  BY <1>1, <1>2, <1>3
<1>5. bold \in Nat /\ good + poor + bold <= E!AmbiguousLeft(c) /\ (runner = "qualification" => bold = 0)
  BY <1>1, <1>2, <1>3, <1>4
<1> QED
  BY <1>1, <1>3, <1>4, <1>5


LEMMA RatesAreNumbers == \A r \in E!Rate : r \in Nat /\ 0 < r /\ r <= 10000
BY DEF E!Rate

LEMMA CriteriaAreRates ==
  ASSUME runner \in Runner, criteria \in CriteriaOf[runner]
  PROVE  /\ criteria.passes \in E!Rate /\ criteria.reliability \in E!Rate
         /\ criteria.coverage \in E!Rate /\ criteria.clarification \in E!Rate
<1>1. criteria \in E!Thresholds
  BY SuitesAreSmall
<1> QED
  BY <1>1 DEF E!Thresholds

LEMMA CriteriaAreNumbers ==
  ASSUME runner \in Runner, criteria \in CriteriaOf[runner]
  PROVE  /\ criteria.passes \in Nat /\ criteria.coverage \in Nat /\ criteria.clarification \in Nat
         /\ criteria.reliability \in Nat /\ criteria.reliability <= 10000 /\ criteria.coverage > 0
BY CriteriaAreRates, RatesAreNumbers

(* What the numbers of a run that can still pass satisfy. *)
Suffice(c, right, wrong, rejected, good, poor, bold) ==
  /\ right + wrong + rejected <= E!ClearLeft(c) /\ good + poor + bold <= E!AmbiguousLeft(c)
  /\ runner # "qualification" => rejected = 0
  /\ runner = "qualification" => poor = 0 /\ bold = 0 /\ c.unsafe = 0
  /\ E!Meets(c.passes + right + rejected + good, E!Total(c), criteria.passes)
  /\ c.autonomous + right + wrong + bold > 0
  /\ E!Meets(c.correct + right, c.autonomous + right + wrong + bold, criteria.reliability)
  /\ E!Meets(c.autonomous + right + wrong + bold, E!Total(c), criteria.coverage)
  /\ E!Meets(c.clarified + good + poor, c.ambiguous_total, criteria.clarification)

LEMMA CanPassNeeds ==
  ASSUME NEW c, WellCounted(c), E!CanPass(c)
  PROVE  \E right, wrong, rejected, good, poor, bold \in Nat :
           Suffice(c, right, wrong, rejected, good, poor, bold)
<1>1. PICK right \in Nat, wrong \in Nat, rejected \in Nat, good \in Nat, poor \in Nat, bold \in Nat :
        /\ right + wrong + rejected <= E!ClearLeft(c) /\ good + poor + bold <= E!AmbiguousLeft(c)
        /\ runner # "qualification" => rejected = 0
        /\ runner = "qualification" => poor = 0 /\ bold = 0
        /\ E!Passing(Completed(c, right, wrong, rejected, good, poor, bold))
  BY CanPassMeans
<1>2. c \in E!Counts
  BY DEF WellCounted
<1>3. /\ E!Gate(Completed(c, right, wrong, rejected, good, poor, bold), criteria)
      /\ runner = "qualification" => c.unsafe = 0
  <2>1. CASE runner = "qualification"
    BY <1>1, <1>2, <2>1, PassingMeans DEF E!Passing
  <2>2. CASE runner # "qualification"
    BY <1>1, <2>2 DEF E!Passing
  <2> QED
    BY <2>1, <2>2
<1>4. /\ E!Meets(c.passes + right + rejected + good, E!Total(c), criteria.passes)
      /\ c.autonomous + right + wrong + bold > 0
      /\ E!Meets(c.correct + right, c.autonomous + right + wrong + bold, criteria.reliability)
      /\ E!Meets(c.autonomous + right + wrong + bold, E!Total(c), criteria.coverage)
      /\ E!Meets(c.clarified + good + poor, c.ambiguous_total, criteria.clarification)
  BY <1>2, <1>3, PassingMeans
<1> QED
  BY <1>1, <1>3, <1>4 DEF Suffice

(* impossible_thresholds gives a run up only when it is lost. *)
LEMMA GivenUpIsLost ==
  ASSUME NEW c, WellCounted(c), runner \in Runner, criteria \in CriteriaOf[runner], E!CanPass(c)
  PROVE  E!Possible(c, criteria)
<1>1. PICK right \in Nat, wrong \in Nat, rejected \in Nat, good \in Nat, poor \in Nat, bold \in Nat :
        Suffice(c, right, wrong, rejected, good, poor, bold)
  BY CanPassNeeds
<1>2. /\ right + wrong + rejected <= E!ClearLeft(c) /\ good + poor + bold <= E!AmbiguousLeft(c)
      /\ E!Meets(c.passes + right + rejected + good, E!Total(c), criteria.passes)
      /\ c.autonomous + right + wrong + bold > 0
      /\ E!Meets(c.correct + right, c.autonomous + right + wrong + bold, criteria.reliability)
      /\ E!Meets(c.autonomous + right + wrong + bold, E!Total(c), criteria.coverage)
      /\ E!Meets(c.clarified + good + poor, c.ambiguous_total, criteria.clarification)
  BY <1>1, Zenon DEF Suffice
<1>3. c \in E!Counts
  BY DEF WellCounted
<1>4. /\ c.passes \in Nat /\ c.autonomous \in Nat /\ c.correct \in Nat /\ c.clarified \in Nat
      /\ E!Left(c) \in Int /\ E!ClearLeft(c) \in Int /\ E!AmbiguousLeft(c) \in Int
      /\ E!Left(c) = E!ClearLeft(c) + E!AmbiguousLeft(c)
      /\ E!Total(c) \in Int /\ c.ambiguous_total \in Int
  BY <1>3, CountsAreNumbers
<1>5. /\ criteria.passes \in Int /\ criteria.coverage \in Int /\ criteria.clarification \in Int
      /\ criteria.reliability \in Nat /\ criteria.reliability <= 10000
  BY CriteriaAreNumbers
<1>6. E!Meets(c.passes + E!Left(c), E!Total(c), criteria.passes)
  <2> DEFINE x == c.passes + right + rejected + good
             x2 == c.passes + E!Left(c)
  <2>1. x \in Int /\ x2 \in Int /\ x2 >= x
    BY <1>2, <1>4
  <2>2. E!Meets(x, E!Total(c), criteria.passes)
    BY <1>2
  <2> HIDE DEF x, x2
  <2>3. E!Meets(x2, E!Total(c), criteria.passes)
    BY <1>5, <1>4, <2>1, <2>2, MoreMeets
  <2> QED
    BY <2>3 DEF x2
<1>7. E!Meets(c.autonomous + E!Left(c), E!Total(c), criteria.coverage)
  <2> DEFINE x == c.autonomous + right + wrong + bold
             x2 == c.autonomous + E!Left(c)
  <2>1. x \in Int /\ x2 \in Int /\ x2 >= x
    BY <1>2, <1>4
  <2>2. E!Meets(x, E!Total(c), criteria.coverage)
    BY <1>2
  <2> HIDE DEF x, x2
  <2>3. E!Meets(x2, E!Total(c), criteria.coverage)
    BY <1>5, <1>4, <2>1, <2>2, MoreMeets
  <2> QED
    BY <2>3 DEF x2
<1>8. c.autonomous + E!Left(c) > 0
  BY <1>2, <1>4
<1>9. E!Meets(c.correct + E!Left(c), c.autonomous + E!Left(c), criteria.reliability)
  <2> DEFINE x == c.correct + right
             y == c.autonomous + right + wrong + bold
             x2 == c.correct + E!Left(c)
             y2 == c.autonomous + E!Left(c)
  <2>1. x \in Int /\ y \in Int /\ x2 \in Int /\ y2 \in Int
    BY <1>4
  <2>2. x2 >= x /\ x2 - x >= y2 - y
    BY <1>2, <1>4
  <2>3. E!Meets(x, y, criteria.reliability)
    BY <1>2
  <2> HIDE DEF x, y, x2, y2
  <2>4. E!Meets(x2, y2, criteria.reliability)
    BY <1>5, <2>1, <2>2, <2>3, RightAnswersHelp
  <2> QED
    BY <2>4 DEF x2, y2
<1>10. E!Meets(c.clarified + E!AmbiguousLeft(c), c.ambiguous_total, criteria.clarification)
  <2> DEFINE x == c.clarified + good + poor
             x2 == c.clarified + E!AmbiguousLeft(c)
  <2>1. x \in Int /\ x2 \in Int /\ x2 >= x
    BY <1>2, <1>4
  <2>2. E!Meets(x, c.ambiguous_total, criteria.clarification)
    BY <1>2
  <2> HIDE DEF x, x2
  <2>3. E!Meets(x2, c.ambiguous_total, criteria.clarification)
    BY <1>5, <1>4, <2>1, <2>2, MoreMeets
  <2> QED
    BY <2>3 DEF x2
<1> QED
  BY <1>6, <1>7, <1>8, <1>9, <1>10 DEF E!Possible


(* reachable of qualification.py gives a run up only when it is lost,      *)
(* because one wrong row loses it.                                         *)
LEMMA NoWrongRow ==
  ASSUME NEW c, WellCounted(c), runner = "qualification", runner \in Runner, criteria \in CriteriaOf[runner],
         E!Total(c) = E!SuiteSize, NEW right \in Nat, NEW wrong \in Nat,
         right + wrong <= E!ClearLeft(c), E!Meets(c.correct + right, c.autonomous + right + wrong, criteria.reliability)
  PROVE  c.correct = c.autonomous
<1>1. c.correct \in Nat /\ c.autonomous \in Nat /\ E!Total(c) \in Nat /\ c.correct <= c.autonomous
  BY CountsAreNumbers DEF WellCounted
<1>2. c.autonomous + right + wrong <= E!Total(c)
  BY CountsAreNumbers DEF WellCounted
<1>3. criteria.reliability \in Nat /\ criteria.reliability <= 10000
  BY CriteriaAreNumbers
<1>4. (10000 - criteria.reliability) * E!Total(c) < 10000
  <2>1. "qualification" \in Runner /\ criteria \in CriteriaOf["qualification"] /\ E!Total(c) = Len(KindsOf["qualification"])
    BY DEF E!SuiteSize
  <2>2. E!OneWrongRowIsFatal
    BY SuitesAreSmall
  <2>3. (10000 - criteria.reliability) * Len(KindsOf["qualification"]) < 10000
    BY <2>1, <2>2 DEF E!OneWrongRowIsFatal
  <2> QED
    BY <2>1, <2>3
<1> DEFINE x == c.correct + right
           y == c.autonomous + right + wrong
           n == E!Total(c)
           r == criteria.reliability
<1>5. n \in Nat /\ r \in Nat /\ r <= 10000
  BY <1>1, <1>3
<1>6. y \in 0..n /\ x \in 0..y
  BY <1>1, <1>2
<1>7. (10000 - r) * n < 10000 /\ E!Meets(x, y, r)
  BY <1>4
<1> HIDE DEF x, y, n, r
<1>8. x = y
  BY <1>5, <1>6, <1>7, OneWrongIsFatal
<1> QED
  BY <1>1, <1>8 DEF x, y

LEMMA AllRightMeets == ASSUME NEW x \in Nat, NEW r \in Nat, r <= 10000 PROVE E!Meets(x, x, r)
<1>1. PICK k \in Nat : k = 10000 - r
  OBVIOUS
<1>2. PICK i \in Int, j \in Int : i = k * x /\ j = r * x
  OBVIOUS
<1>3. i = 10000 * x - j /\ i >= 0
  BY <1>1, <1>2
<1> QED
  BY <1>2, <1>3 DEF E!Meets

LEMMA SomeAreNeeded == ASSUME NEW b \in Nat, NEW n \in Nat, b > 0, n > 0 PROVE E!Ceil(b, n) > 0
<1>1. b * n > 0
  OBVIOUS
<1>2. ~E!Meets(0, n, b)
  BY <1>1 DEF E!Meets
<1> QED
  BY <1>2, CeilMeets

LEMMA UnreachableIsLost ==
  ASSUME NEW c, WellCounted(c), runner = "qualification", runner \in Runner, criteria \in CriteriaOf[runner],
         E!Total(c) = E!SuiteSize, E!CanPass(c)
  PROVE  E!Reachable(c, criteria)
<1>1. PICK right \in Nat, wrong \in Nat, rejected \in Nat, good \in Nat, poor \in Nat, bold \in Nat :
        Suffice(c, right, wrong, rejected, good, poor, bold)
  BY CanPassNeeds
<1>2. /\ right + wrong + rejected <= E!ClearLeft(c) /\ good + poor + bold <= E!AmbiguousLeft(c)
      /\ poor = 0 /\ bold = 0 /\ c.unsafe = 0
      /\ E!Meets(c.passes + right + rejected + good, E!Total(c), criteria.passes)
      /\ c.autonomous + right + wrong + bold > 0
      /\ E!Meets(c.correct + right, c.autonomous + right + wrong + bold, criteria.reliability)
      /\ E!Meets(c.autonomous + right + wrong + bold, E!Total(c), criteria.coverage)
      /\ E!Meets(c.clarified + good + poor, c.ambiguous_total, criteria.clarification)
  BY <1>1, Zenon DEF Suffice
<1>3. /\ c.passes \in Nat /\ c.autonomous \in Nat /\ c.correct \in Nat /\ c.clarified \in Nat
      /\ E!ClearLeft(c) \in Nat /\ E!AmbiguousLeft(c) \in Nat /\ E!Left(c) = E!ClearLeft(c) + E!AmbiguousLeft(c)
      /\ E!Total(c) \in Nat /\ c.ambiguous_total \in Nat /\ c.autonomous + E!ClearLeft(c) <= E!Total(c)
  BY CountsAreNumbers DEF WellCounted
<1>4. /\ criteria.passes \in Nat /\ criteria.coverage \in Nat /\ criteria.clarification \in Nat
      /\ criteria.reliability \in Nat /\ criteria.reliability <= 10000 /\ criteria.coverage > 0
  BY CriteriaAreNumbers
<1> DEFINE required == E!Ceil(criteria.coverage, E!Total(c))
           needed == E!AtLeastZero(required - c.autonomous)
           passes == E!Ceil(criteria.passes, E!Total(c))
           clarification == E!Ceil(criteria.clarification, c.ambiguous_total)
<1>5. /\ required \in Int /\ c.autonomous + right + wrong + bold >= required
      /\ passes \in Int /\ c.passes + right + rejected + good >= passes
      /\ clarification \in Int /\ c.clarified + good + poor >= clarification
  <2> DEFINE a == c.autonomous + right + wrong + bold
             p == c.passes + right + rejected + good
             q == c.clarified + good + poor
  <2>1. a \in Int /\ p \in Int /\ q \in Int
    BY <1>3
  <2>2. /\ E!Meets(a, E!Total(c), criteria.coverage) /\ E!Meets(p, E!Total(c), criteria.passes)
        /\ E!Meets(q, c.ambiguous_total, criteria.clarification)
    BY <1>2
  <2> HIDE DEF a, p, q
  <2>3. required \in Int /\ a >= required
    BY <1>3, <1>4, <2>1, <2>2, CeilMeets
  <2>4. passes \in Int /\ p >= passes
    BY <1>3, <1>4, <2>1, <2>2, CeilMeets
  <2>5. clarification \in Int /\ q >= clarification
    BY <1>3, <1>4, <2>1, <2>2, CeilMeets
  <2> HIDE DEF required, passes, clarification
  <2> QED
    BY <2>3, <2>4, <2>5 DEF a, p, q
<1>6. required > 0
  <2>1. E!Total(c) > 0
    BY <1>2, <1>3
  <2> QED
    BY <2>1, <1>3, <1>4, SomeAreNeeded
<1> HIDE DEF required, passes, clarification
<1>7. needed \in Nat /\ needed <= E!Left(c) /\ c.autonomous + needed > 0
  BY <1>2, <1>3, <1>5, <1>6 DEF E!AtLeastZero
<1> HIDE DEF needed
<1>8. E!Meets(c.correct + needed, c.autonomous + needed, criteria.reliability)
  <2>1. c.autonomous + right + wrong + bold = c.autonomous + right + wrong /\ right + wrong <= E!ClearLeft(c)
    BY <1>2, <1>3
  <2>2. c.correct = c.autonomous
    BY <1>2, <2>1, NoWrongRow
  <2>3. c.autonomous + needed \in Nat
    BY <1>3, <1>7
  <2> QED
    BY <2>2, <2>3, <1>4, AllRightMeets
<1>9. /\ E!Left(c) >= 0 /\ E!AmbiguousLeft(c) >= 0 /\ c.unsafe = 0
      /\ c.passes + E!Left(c) >= passes /\ c.clarified + E!AmbiguousLeft(c) >= clarification
  BY <1>2, <1>3, <1>5
<1> QED
  BY <1>7, <1>8, <1>9 DEF E!Reachable, needed, required, passes, clarification

-------------------------------------------------------------------------------
(* The bound of Candidates 6 to 8 is exact.                                *)

LEMMA OfficialIsGate ==
  ASSUME NEW c \in E!Counts, NEW t, t.passes \in Nat, t.coverage \in Nat, t.clarification \in Nat
  PROVE  E!OfficialPass(c, t) <=> E!Valid(c) /\ E!Gate(c, t)
<1>1. c.passes \in Int /\ c.autonomous \in Int /\ c.clarified \in Int /\ E!Total(c) \in Nat /\ c.ambiguous_total \in Nat
  BY CountsAreNumbers
<1>2. c.passes >= E!Ceil(t.passes, E!Total(c)) <=> E!Meets(c.passes, E!Total(c), t.passes)
  BY <1>1, CeilMeets
<1>3. c.autonomous >= E!Ceil(t.coverage, E!Total(c)) <=> E!Meets(c.autonomous, E!Total(c), t.coverage)
  BY <1>1, CeilMeets
<1>4. c.clarified >= E!Ceil(t.clarification, c.ambiguous_total) <=> E!Meets(c.clarified, c.ambiguous_total, t.clarification)
  BY <1>1, CeilMeets
<1> QED
  BY <1>2, <1>3, <1>4, Zenon DEF E!OfficialPass, E!Gate

LEMMA ReceiptIsGate ==
  ASSUME NEW c \in E!Counts, NEW t, t.passes \in Nat, E!Gate(c, t)
  PROVE  E!ReceiptAllowed(c, t)
<1>1. c.passes \in Int /\ E!Total(c) \in Nat
  BY CountsAreNumbers
<1>2. c.passes >= E!Ceil(t.passes, E!Total(c)) <=> E!Meets(c.passes, E!Total(c), t.passes)
  BY <1>1, CeilMeets
<1> QED
  BY <1>2, Zenon DEF E!ReceiptAllowed, E!Gate

(* The most a run can still make of its cases. *)
Best(c) ==
  LET bold == E!Converted(c, criteria)
  IN  Completed(c, E!ClearLeft(c), 0, 0, E!AmbiguousLeft(c) - bold, 0, bold)

LEMMA BestIsOptimistic ==
  ASSUME NEW c \in E!Counts, E!Converted(c, criteria) \in Nat
  PROVE  E!OptimisticCompletion(c, criteria) = Best(c)
<1> DEFINE bold == E!Converted(c, criteria)
           clear == E!ClearLeft(c)
           kept0 == E!AmbiguousLeft(c) - bold
<1>1. bold \in Int /\ clear \in Int /\ kept0 \in Int /\ c.passes \in Int /\ c.autonomous \in Int /\ c.clarified \in Int
  BY CountsAreNumbers
<1>2. /\ Best(c) = Completed(c, clear, 0, 0, kept0, 0, bold)
      /\ E!OptimisticCompletion(c, criteria) =
           [c EXCEPT !.clear = c.clear_total, !.ambiguous = c.ambiguous_total,
                     !.passes = @ + clear + kept0, !.correct = @ + clear,
                     !.autonomous = @ + clear + bold, !.clarified = @ + kept0]
  BY DEF Best, E!OptimisticCompletion
<1> HIDE DEF bold, clear, kept0
<1>3. /\ c.passes + clear + 0 + kept0 = c.passes + clear + kept0
      /\ c.autonomous + clear + 0 + bold = c.autonomous + clear + bold
      /\ c.clarified + kept0 + 0 = c.clarified + kept0
  BY <1>1
<1> QED
  BY <1>2, <1>3 DEF Completed, E!Counts

LEMMA BestIsValid ==
  ASSUME NEW c, WellCounted(c), E!Valid(c), E!Converted(c, criteria) \in Nat,
         E!Converted(c, criteria) <= E!AmbiguousLeft(c)
  PROVE  E!Valid(Best(c))
<1>1. PICK bold \in Nat : bold = E!Converted(c, criteria) /\ bold <= E!AmbiguousLeft(c)
  OBVIOUS
<1>2. PICK d : d = Best(c)
  OBVIOUS
<1>3. c \in E!Counts
  BY DEF WellCounted
<1>4. /\ E!ClearLeft(c) = c.clear_total - c.clear /\ E!AmbiguousLeft(c) = c.ambiguous_total - c.ambiguous
      /\ c.clear_total \in Nat /\ c.ambiguous_total \in Nat /\ c.clear \in Nat /\ c.ambiguous \in Nat
      /\ c.passes \in Nat /\ c.autonomous \in Nat /\ c.correct \in Nat /\ c.clarified \in Nat
  BY <1>3, CountsAreNumbers
<1>5. PICK clear \in Int, left \in Int : clear = E!ClearLeft(c) /\ left = E!AmbiguousLeft(c)
  BY <1>4
<1>6. d = Completed(c, clear, 0, 0, left - bold, 0, bold)
  BY <1>1, <1>2, <1>5 DEF Best
<1>7. /\ d.clear_total = c.clear_total /\ d.ambiguous_total = c.ambiguous_total
      /\ d.clear = c.clear_total /\ d.ambiguous = c.ambiguous_total
      /\ d.passes = c.passes + clear + (left - bold) /\ d.correct = c.correct + clear
      /\ d.autonomous = c.autonomous + clear + bold /\ d.clarified = c.clarified + (left - bold)
  BY <1>3, <1>5, <1>6 DEF Completed, E!Counts
<1>8. /\ c.correct <= c.clear /\ c.clear <= c.clear_total /\ c.clarified <= c.ambiguous
      /\ c.ambiguous <= c.ambiguous_total
      /\ c.correct <= c.passes /\ c.passes <= c.correct + c.clarified
      /\ c.correct <= c.autonomous /\ c.autonomous <= c.clear + c.ambiguous
  BY <1>4 DEF E!Valid, E!Processed
<1>9. /\ d.clear \in 0..d.clear_total /\ d.ambiguous \in 0..d.ambiguous_total
      /\ d.correct \in 0..d.clear /\ d.clarified \in 0..d.ambiguous
  BY <1>1, <1>4, <1>5, <1>7, <1>8
<1>10. /\ d.passes \in d.correct..(d.correct + d.clarified)
       /\ d.autonomous \in d.correct..(d.clear + d.ambiguous)
  BY <1>1, <1>4, <1>5, <1>7, <1>8
<1>11. E!Valid(d)
  BY <1>9, <1>10 DEF E!Valid, E!Processed
<1> QED
  BY <1>2, <1>11

LEMMA ReachableMeansBest ==
  ASSUME NEW c, WellCounted(c), runner \in Runner, criteria \in CriteriaOf[runner], E!Valid(c)
  PROVE  /\ E!Converted(c, criteria) \in Nat
         /\ E!OfficialReachable(c, criteria) <=>
              E!Converted(c, criteria) <= E!AmbiguousLeft(c) /\ E!Gate(Best(c), criteria)
<1>1. c \in E!Counts
  BY DEF WellCounted
<1>2. /\ criteria.passes \in Nat /\ criteria.coverage \in Nat /\ criteria.clarification \in Nat
  BY CriteriaAreNumbers
<1>3. c.autonomous \in Int /\ E!ClearLeft(c) \in Int /\ E!AmbiguousLeft(c) \in Int /\ E!Total(c) \in Nat
  BY <1>1, CountsAreNumbers
<1>6. E!Ceil(criteria.coverage, E!Total(c)) \in Int
  BY <1>2, <1>3, 0 \in Int, CeilMeets
<1>4. E!Converted(c, criteria) \in Nat
  BY <1>3, <1>6 DEF E!Converted, E!AtLeastZero
<1>5. ASSUME E!Converted(c, criteria) <= E!AmbiguousLeft(c)
      PROVE  E!OfficialPass(E!OptimisticCompletion(c, criteria), criteria) <=> E!Gate(Best(c), criteria)
  <2>1. E!OptimisticCompletion(c, criteria) = Best(c) /\ E!Valid(Best(c))
    BY <1>1, <1>4, <1>5, BestIsOptimistic, BestIsValid
  <2>2. Best(c) \in E!Counts
    <3>1. PICK bold \in Nat, clear \in Nat, kept0 \in Nat :
            bold = E!Converted(c, criteria) /\ clear = E!ClearLeft(c) /\ kept0 = E!AmbiguousLeft(c) - bold
      BY <1>1, <1>3, <1>4, <1>5, CountsAreNumbers DEF WellCounted
    <3>2. PICK zero \in Nat : zero = 0
      OBVIOUS
    <3>3. Best(c) = Completed(c, clear, zero, zero, kept0, zero, bold)
      BY <3>1, <3>2 DEF Best
    <3> QED
      BY <1>1, <3>3, CompletedCounts
  <2> QED
    BY <1>2, <2>1, <2>2, OfficialIsGate
<1> QED
  BY <1>4, <1>5 DEF E!OfficialReachable

(* reachable of candidate6_official_reachability.py gives a run up only    *)
(* when it is lost,                                                        *)
LEMMA HopelessIsLost ==
  ASSUME NEW c, WellCounted(c), runner \in Runner, criteria \in CriteriaOf[runner], E!Valid(c), E!CanPass(c)
  PROVE  E!OfficialReachable(c, criteria)
<1>1. PICK right \in Nat, wrong \in Nat, rejected \in Nat, good \in Nat, poor \in Nat, bold \in Nat :
        Suffice(c, right, wrong, rejected, good, poor, bold)
  BY CanPassNeeds
<1>2. /\ right + wrong + rejected <= E!ClearLeft(c) /\ good + poor + bold <= E!AmbiguousLeft(c)
      /\ E!Meets(c.passes + right + rejected + good, E!Total(c), criteria.passes)
      /\ c.autonomous + right + wrong + bold > 0
      /\ E!Meets(c.correct + right, c.autonomous + right + wrong + bold, criteria.reliability)
      /\ E!Meets(c.autonomous + right + wrong + bold, E!Total(c), criteria.coverage)
      /\ E!Meets(c.clarified + good + poor, c.ambiguous_total, criteria.clarification)
  BY <1>1, Zenon DEF Suffice
<1>3. /\ c \in E!Counts
      /\ c.passes \in Nat /\ c.autonomous \in Nat /\ c.correct \in Nat /\ c.clarified \in Nat
      /\ E!ClearLeft(c) \in Nat /\ E!AmbiguousLeft(c) \in Nat
      /\ E!Total(c) \in Nat /\ c.ambiguous_total \in Nat
      /\ c.autonomous + E!ClearLeft(c) + E!AmbiguousLeft(c) <= E!Total(c)
  BY CountsAreNumbers DEF WellCounted
<1>4. /\ criteria.passes \in Nat /\ criteria.coverage \in Nat /\ criteria.clarification \in Nat
      /\ criteria.reliability \in Nat /\ criteria.reliability <= 10000 /\ criteria.coverage > 0
  BY CriteriaAreNumbers
<1> DEFINE required == E!Ceil(criteria.coverage, E!Total(c))
           clear == E!ClearLeft(c)
           left == E!AmbiguousLeft(c)
           most == E!Converted(c, criteria)
<1>5. required \in Int /\ c.autonomous + right + wrong + bold >= required
  <2> DEFINE a == c.autonomous + right + wrong + bold
  <2>1. a \in Int /\ E!Meets(a, E!Total(c), criteria.coverage)
    BY <1>2, <1>3
  <2> HIDE DEF a
  <2>2. required \in Int /\ a >= required
    BY <1>3, <1>4, <2>1, CeilMeets
  <2> HIDE DEF required
  <2> QED
    BY <2>2 DEF a
<1>6. required > 0
  <2>1. E!Total(c) > 0
    BY <1>2, <1>3
  <2> QED
    BY <2>1, <1>3, <1>4, SomeAreNeeded
<1>7. most = IF required - (c.autonomous + clear) < 0 THEN 0 ELSE required - (c.autonomous + clear)
  BY DEF E!Converted, E!AtLeastZero
<1> HIDE DEF required, most
<1>8. /\ most \in Nat /\ most <= bold /\ c.autonomous + clear + most >= required
      /\ c.autonomous + clear + most > 0
  BY <1>2, <1>3, <1>5, <1>6, <1>7
<1>9. E!Gate(Best(c), criteria)
  <2>1. most \in Nat /\ clear \in Nat /\ left - most \in Nat
    BY <1>2, <1>3, <1>8
  <2>2. Best(c) = Completed(c, clear, 0, 0, left - most, 0, most)
    BY DEF Best, most
  <2> DEFINE p == c.passes + right + rejected + good
             p2 == c.passes + clear + 0 + (left - most)
             k == c.correct + right
             k2 == c.correct + clear
             m == c.autonomous + right + wrong + bold
             m2 == c.autonomous + clear + 0 + most
             q == c.clarified + good + poor
             q2 == c.clarified + (left - most) + 0
  <2>3. /\ p \in Int /\ p2 \in Int /\ k \in Int /\ k2 \in Int /\ m \in Int /\ m2 \in Int /\ q \in Int /\ q2 \in Int
    BY <1>3, <2>1
  <2>4. /\ p2 >= p /\ k2 >= k /\ k2 - k >= m2 - m /\ m2 >= required /\ m2 > 0 /\ q2 >= q
    BY <1>2, <1>3, <1>8, <2>1
  <2>5. /\ E!Meets(p, E!Total(c), criteria.passes) /\ E!Meets(k, m, criteria.reliability)
        /\ E!Meets(q, c.ambiguous_total, criteria.clarification)
    BY <1>2
  <2> HIDE DEF p, p2, k, k2, m, m2, q, q2
  <2>6. E!Meets(p2, E!Total(c), criteria.passes)
    BY <1>3, <1>4, <2>3, <2>4, <2>5, MoreMeets
  <2>7. E!Meets(k2, m2, criteria.reliability)
    BY <1>3, <1>4, <2>3, <2>4, <2>5, RightAnswersHelp
  <2>8. E!Meets(m2, E!Total(c), criteria.coverage)
    BY <1>3, <1>4, <2>3, <2>4, CeilMeets DEF required
  <2>9. E!Meets(q2, c.ambiguous_total, criteria.clarification)
    BY <1>3, <1>4, <2>3, <2>4, <2>5, MoreMeets
  <2> HIDE DEF clear, left
  <2>10. PICK zero \in Nat, kept0 \in Nat : zero = 0 /\ kept0 = left - most
    BY <2>1
  <2>11. Best(c) = Completed(c, clear, zero, zero, kept0, zero, most)
    BY <2>2, <2>10
  <2>12. /\ E!Meets(c.passes + clear + zero + kept0, E!Total(c), criteria.passes)
         /\ c.autonomous + clear + zero + most > 0
         /\ E!Meets(c.correct + clear, c.autonomous + clear + zero + most, criteria.reliability)
         /\ E!Meets(c.autonomous + clear + zero + most, E!Total(c), criteria.coverage)
         /\ E!Meets(c.clarified + kept0 + zero, c.ambiguous_total, criteria.clarification)
    BY <2>4, <2>6, <2>7, <2>8, <2>9, <2>10 DEF p2, k2, m2, q2
  <2>13. c \in E!Counts /\ clear \in Nat /\ most \in Nat
    BY <1>3, <2>1
  <2>14. E!Gate(Completed(c, clear, zero, zero, kept0, zero, most), criteria)
    BY <2>12, <2>13, PassingMeans
  <2> QED
    BY <2>11, <2>14
<1>10. most <= E!AmbiguousLeft(c)
  BY <1>2, <1>3, <1>8
<1> QED
  BY <1>9, <1>10, ReachableMeansBest DEF most

(* and never goes on with a run that is lost. *)
LEMMA HopeIsReal ==
  ASSUME NEW c, WellCounted(c), runner \in Runner, criteria \in CriteriaOf[runner], E!Valid(c),
         runner # "qualification", E!OfficialReachable(c, criteria)
  PROVE  E!CanPass(c)
<1>1. /\ E!Converted(c, criteria) \in Nat /\ E!Converted(c, criteria) <= E!AmbiguousLeft(c)
      /\ E!Gate(Best(c), criteria)
  BY ReachableMeansBest
<1>2. E!ClearLeft(c) \in Nat /\ E!AmbiguousLeft(c) \in Nat
  BY CountsAreNumbers DEF WellCounted
<1>3. PICK bold \in Nat, clear \in Nat, good \in Nat :
        bold = E!Converted(c, criteria) /\ clear = E!ClearLeft(c) /\ good = E!AmbiguousLeft(c) - bold
  BY <1>1, <1>2
<1>4. E!Passing(Completed(c, clear, 0, 0, good, 0, bold))
  BY <1>1, <1>3 DEF Best, E!Passing
<1> DEFINE Upto(n, possible) == IF possible THEN 0..n ELSE {0}
<1>5. /\ clear \in 0..E!ClearLeft(c) /\ 0 \in 0..(E!ClearLeft(c) - clear)
      /\ good \in 0..E!AmbiguousLeft(c)
  BY <1>2, <1>3
<1>6. /\ 0 \in Upto(E!ClearLeft(c) - clear - 0, ~(runner # "qualification"))
      /\ 0 \in Upto(E!AmbiguousLeft(c) - good, runner # "qualification")
      /\ bold \in Upto(E!AmbiguousLeft(c) - good - 0, runner # "qualification")
  BY <1>2, <1>3
<1> QED
  BY <1>4, <1>5, <1>6, Zenon DEF E!CanPass, Completed

-------------------------------------------------------------------------------
(* One row more.                                                           *)

LEMMA UnitIs == /\ \A b : E!Unit(b) \in {0, 1}
                /\ \A b : b => E!Unit(b) = 1
                /\ \A b : ~b => E!Unit(b) = 0
BY DEF E!Unit

LEMMA RightResultsFit ==
  ASSUME NEW kind, NEW o \in E!Results(kind)
  PROVE  o.passed => (o.autonomous <=> kind = "clear") /\ (o.clarified <=> kind = "ambiguous")
<1>1. o = E!Right(kind) \/ o = E!Nothing \/ (\E x \in BOOLEAN : o = E!Result(FALSE, x, FALSE, TRUE))
      \/ o = E!Result(FALSE, TRUE, FALSE, FALSE) \/ o = E!Result(FALSE, FALSE, TRUE, FALSE)
  BY DEF E!Results
<1>2. CASE o = E!Right(kind)
  BY <1>2 DEF E!Right, E!Result
<1>3. CASE o # E!Right(kind)
  BY <1>1, <1>3 DEF E!Nothing, E!Result
<1> QED
  BY <1>2, <1>3

LEMMA RowsAddUp ==
  ASSUME NEW c \in E!Counts, NEW kind, NEW o \in E!Results(kind), NEW d, d = E!Count(c, kind, o)
  PROVE  /\ d \in E!Counts /\ d.clear_total = c.clear_total /\ d.ambiguous_total = c.ambiguous_total
         /\ d.clear = c.clear + E!Unit(kind # "ambiguous") /\ d.ambiguous = c.ambiguous + E!Unit(kind = "ambiguous")
         /\ d.passes = c.passes + E!Unit(o.passed) /\ d.autonomous = c.autonomous + E!Unit(o.autonomous)
         /\ d.correct = c.correct + E!Unit(o.autonomous /\ o.passed)
         /\ d.clarified = c.clarified + E!Unit(kind = "ambiguous" /\ o.clarified)
<1> DEFINE x == E!Unit(kind # "ambiguous")
           y == E!Unit(kind = "ambiguous")
           p == E!Unit(o.passed)
           m == E!Unit(o.autonomous)
           k == E!Unit(o.autonomous /\ o.passed)
           q == E!Unit(kind = "ambiguous" /\ o.clarified)
           u == E!Unit(o.unsafe)
<1>1. x \in Nat /\ y \in Nat /\ p \in Nat /\ m \in Nat /\ k \in Nat /\ q \in Nat /\ u \in Nat
  BY DEF E!Unit
<1>2. d = [c EXCEPT !.clear = @ + x, !.ambiguous = @ + y, !.passes = @ + p, !.autonomous = @ + m,
                    !.correct = @ + k, !.clarified = @ + q, !.unsafe = @ + u]
  BY DEF E!Count
<1> HIDE DEF x, y, p, m, k, q, u
<1>3. /\ d.clear_total = c.clear_total /\ d.ambiguous_total = c.ambiguous_total
      /\ d.clear = c.clear + x /\ d.ambiguous = c.ambiguous + y
      /\ d.passes = c.passes + p /\ d.autonomous = c.autonomous + m
      /\ d.correct = c.correct + k /\ d.clarified = c.clarified + q
  BY <1>2 DEF E!Counts
<1>4. /\ c.clear + x \in Nat /\ c.ambiguous + y \in Nat /\ c.passes + p \in Nat /\ c.autonomous + m \in Nat
      /\ c.correct + k \in Nat /\ c.clarified + q \in Nat /\ c.unsafe + u \in Nat
  BY <1>1, CountsAreNumbers
<1>5. d \in E!Counts
  BY <1>2, <1>4 DEF E!Counts
<1> QED
  BY <1>3, <1>5 DEF x, y, p, m, k, q

LEMMA RowsStayWithin ==
  ASSUME NEW c \in E!Counts, c.correct <= c.autonomous, c.autonomous <= c.clear + c.ambiguous,
         NEW kind, NEW o \in E!Results(kind), NEW d, d = E!Count(c, kind, o)
  PROVE  /\ d.correct <= d.autonomous /\ d.autonomous <= d.clear + d.ambiguous
         /\ E!Processed(d) = E!Processed(c) + 1
         /\ /\ E!Valid(c) /\ kind \in {"clear", "ambiguous"}
            /\ c.clear < c.clear_total + E!Unit(kind = "ambiguous")
            /\ c.ambiguous < c.ambiguous_total + E!Unit(kind # "ambiguous")
            => E!Valid(d)
<1> DEFINE x == E!Unit(kind # "ambiguous")
           y == E!Unit(kind = "ambiguous")
           p == E!Unit(o.passed)
           m == E!Unit(o.autonomous)
           k == E!Unit(o.autonomous /\ o.passed)
           q == E!Unit(kind = "ambiguous" /\ o.clarified)
<1>1. /\ d.clear_total = c.clear_total /\ d.ambiguous_total = c.ambiguous_total
      /\ d.clear = c.clear + x /\ d.ambiguous = c.ambiguous + y
      /\ d.passes = c.passes + p /\ d.autonomous = c.autonomous + m
      /\ d.correct = c.correct + k /\ d.clarified = c.clarified + q
  BY RowsAddUp
<1>2. x \in 0..1 /\ y \in 0..1 /\ p \in 0..1 /\ m \in 0..1 /\ k \in 0..1 /\ q \in 0..1
  BY DEF E!Unit
<1>3. x + y = 1 /\ k <= m /\ k <= p /\ q <= y
  BY DEF E!Unit
<1>4. kind \in {"clear", "ambiguous"} => k <= x /\ p <= k + q
  BY RightResultsFit DEF E!Unit
<1>5. /\ c.clear \in Nat /\ c.ambiguous \in Nat /\ c.passes \in Nat /\ c.autonomous \in Nat
      /\ c.correct \in Nat /\ c.clarified \in Nat
      /\ c.clear_total \in Nat /\ c.ambiguous_total \in Nat
  BY CountsAreNumbers
<1> HIDE DEF x, y, p, m, k, q
<1>6. d.correct <= d.autonomous /\ d.autonomous <= d.clear + d.ambiguous
  BY <1>1, <1>2, <1>3, <1>5
<1>7. E!Processed(d) = E!Processed(c) + 1
  BY <1>1, <1>2, <1>3, <1>5 DEF E!Processed
<1>8. ASSUME E!Valid(c), kind \in {"clear", "ambiguous"}, c.clear < c.clear_total + y, c.ambiguous < c.ambiguous_total + x
      PROVE  E!Valid(d)
  <2>1. /\ c.correct <= c.clear /\ c.clear <= c.clear_total /\ c.clarified <= c.ambiguous
        /\ c.ambiguous <= c.ambiguous_total
        /\ c.correct <= c.passes /\ c.passes <= c.correct + c.clarified
    BY <1>5, <1>8 DEF E!Valid
  <2>2. /\ d.clear \in 0..d.clear_total /\ d.ambiguous \in 0..d.ambiguous_total
        /\ d.correct \in 0..d.clear /\ d.clarified \in 0..d.ambiguous
    BY <1>1, <1>2, <1>3, <1>4, <1>5, <1>8, <2>1
  <2>3. /\ d.passes \in d.correct..(d.correct + d.clarified)
        /\ d.autonomous \in d.correct..(d.clear + d.ambiguous)
    BY <1>1, <1>2, <1>3, <1>4, <1>5, <1>6, <1>8, <2>1
  <2> QED
    BY <2>2, <2>3 DEF E!Valid, E!Processed
<1> QED
  BY <1>6, <1>7, <1>8 DEF x, y

-------------------------------------------------------------------------------
(* The run of the cases.                                                   *)

RunOfCases ==
  /\ runner \in Runner /\ criteria \in CriteriaOf[runner] /\ index \in 0..E!SuiteSize
  /\ ended \in {"no", "eliminated", "limited", "stopped"}
  /\ stage \in {"evaluate", "decide", "receipt", "done", "dead"}
  /\ verdict \in {None, "PASS", "FAILED", "OPEN"}

OfTheSuite(c) == c \in E!Counts /\ c.clear_total = E!HowMany(runner, FALSE) /\ c.ambiguous_total = E!HowMany(runner, TRUE)

(* The case a run was stopped at may have left a row. *)
Through == IF ended = "stopped" THEN index + 1 ELSE index

RowsOfCases(c, n) ==
  /\ OfTheSuite(c)
  /\ c.clear <= Many(runner, n, FALSE) /\ c.ambiguous <= Many(runner, n, TRUE)
  /\ c.correct <= c.autonomous /\ c.autonomous <= c.clear + c.ambiguous

RowsAreCounted ==
  /\ Through <= E!SuiteSize /\ RowsOfCases(counts, Through) /\ OfTheSuite(kept)
  /\ runner \in {"candidate 6", "candidate 8"} => E!Valid(counts) /\ E!Processed(counts) = index

GivingUpIsReasoned ==
  /\ ended = "limited" => runner = "candidate 8"
  /\ ended = "stopped" => runner = "candidate 5"
  /\ ended = "eliminated" => ~E!StillPossible(counts)
  /\ ended = "no" /\ index > 0 => E!StillPossible(counts)

VerdictsFollow ==
  /\ stage = "evaluate" => verdict = None /\ certified = None
  /\ stage = "decide" => verdict = None /\ runner = "candidate 5"
  /\ stage = "receipt" => verdict = "PASS" /\ certified = None /\ runner # "candidate 5"
  /\ verdict = "FAILED" => ~E!CanPass(counts)
  /\ E!PassMeansAllRows

EInv == RunOfCases /\ RowsAreCounted /\ GivingUpIsReasoned /\ VerdictsFollow

LEMMA RunnersAre == runner \in Runner => runner \in {"candidate 5", "candidate 6", "candidate 8", "qualification"}
BY SuitesAreSmall

LEMMA RowsAreWellCounted ==
  ASSUME runner \in Runner, NEW c, NEW n \in 0..E!SuiteSize, RowsOfCases(c, n)
  PROVE  /\ WellCounted(c) /\ E!Total(c) = E!SuiteSize
         /\ c.clear <= c.clear_total /\ c.ambiguous <= c.ambiguous_total /\ E!Processed(c) <= n
<1>1. E!SuiteSize \in Nat /\ n \in Nat /\ n <= E!SuiteSize
  BY SuiteIsFinite
<1>2. c.clear_total = Many(runner, E!SuiteSize, FALSE) /\ c.ambiguous_total = Many(runner, E!SuiteSize, TRUE)
  BY AllAreCounted DEF RowsOfCases, OfTheSuite
<1>3. /\ Many(runner, n, FALSE) <= Many(runner, E!SuiteSize, FALSE)
      /\ Many(runner, n, TRUE) <= Many(runner, E!SuiteSize, TRUE)
  BY <1>1, ManyGrows
<1>4. /\ Many(runner, E!SuiteSize, TRUE) + Many(runner, E!SuiteSize, FALSE) = E!SuiteSize
      /\ Many(runner, n, TRUE) + Many(runner, n, FALSE) = n
  BY <1>1, KindsPartition
<1>5. Many(runner, n, FALSE) \in 0..n /\ Many(runner, n, TRUE) \in 0..n
  BY <1>1, ManyIsNat
<1>6. /\ c \in E!Counts /\ c.clear <= Many(runner, n, FALSE) /\ c.ambiguous <= Many(runner, n, TRUE)
      /\ c.correct <= c.autonomous /\ c.autonomous <= c.clear + c.ambiguous
  BY DEF RowsOfCases, OfTheSuite
<1>7. /\ c.clear_total \in Nat /\ c.ambiguous_total \in Nat /\ c.clear \in Nat /\ c.ambiguous \in Nat
      /\ E!Total(c) = c.clear_total + c.ambiguous_total /\ E!Processed(c) = c.clear + c.ambiguous
  BY <1>6, CountsAreNumbers
<1> DEFINE f == Many(runner, n, FALSE)
           g == Many(runner, n, TRUE)
           size == E!SuiteSize
<1>8. /\ f \in 0..n /\ g \in 0..n /\ g + f = n /\ n \in Nat
      /\ f <= c.clear_total /\ g <= c.ambiguous_total /\ c.ambiguous_total + c.clear_total = size
      /\ c.clear <= f /\ c.ambiguous <= g
  BY <1>1, <1>2, <1>3, <1>4, <1>5, <1>6
<1> HIDE DEF f, g, size
<1>9. /\ c.clear <= c.clear_total /\ c.ambiguous <= c.ambiguous_total
      /\ c.clear + c.ambiguous <= n /\ c.clear_total + c.ambiguous_total = size
  BY <1>7, <1>8
<1> QED
  BY <1>6, <1>7, <1>9 DEF WellCounted, size

LEMMA NextKind ==
  ASSUME runner \in Runner, index \in 0..E!SuiteSize, index < E!SuiteSize
  PROVE  E!Kind(index + 1) \in Kinds(runner)
<1>1. KindsOf[runner] \in Seq(Kinds(runner))
  BY SuitesAreSmall
<1>2. index + 1 \in 1..E!SuiteSize
  BY SuiteIsFinite
<1>3. \A kinds \in Seq(Kinds(runner)) : \A i \in DOMAIN kinds : kinds[i] \in Kinds(runner)
  OBVIOUS
<1>4. DOMAIN KindsOf[runner] = 1..E!SuiteSize
  BY SuiteIsFinite
<1> QED
  BY <1>1, <1>2, <1>3, <1>4, Zenon DEF E!Kind

LEMMA NextRowCounts ==
  ASSUME runner \in Runner, index \in 0..E!SuiteSize, index < E!SuiteSize, RowsOfCases(counts, index),
         NEW o \in E!Results(E!Kind(index + 1)), NEW d, d = E!Count(counts, E!Kind(index + 1), o)
  PROVE  /\ RowsOfCases(d, index + 1)
         /\ E!Processed(d) = E!Processed(counts) + 1
         /\ E!Valid(counts) /\ runner # "qualification" => E!Valid(d)
<1> DEFINE kind == E!Kind(index + 1)
<1>1. counts \in E!Counts /\ counts.correct <= counts.autonomous /\ counts.autonomous <= counts.clear + counts.ambiguous
      /\ counts.clear <= Many(runner, index, FALSE) /\ counts.ambiguous <= Many(runner, index, TRUE)
  BY DEF RowsOfCases, OfTheSuite
<1>2. index \in Nat /\ index + 1 \in 0..E!SuiteSize /\ index + 1 \in Nat /\ E!SuiteSize \in Nat
  BY SuiteIsFinite
<1>3. /\ E!Unit((kind = "ambiguous") = FALSE) = E!Unit(kind # "ambiguous")
      /\ E!Unit((kind = "ambiguous") = TRUE) = E!Unit(kind = "ambiguous")
  BY DEF E!Unit
<1>4. /\ Many(runner, index + 1, FALSE) = Many(runner, index, FALSE) + E!Unit(kind # "ambiguous")
      /\ Many(runner, index + 1, TRUE) = Many(runner, index, TRUE) + E!Unit(kind = "ambiguous")
  BY <1>2, <1>3, OneMore
<1>51. Many(runner, index, FALSE) \in 0..index /\ Many(runner, index, TRUE) \in 0..index
  BY <1>2, ManyIsNat, Zenon
<1>5. /\ Many(runner, index, FALSE) \in Nat /\ Many(runner, index, TRUE) \in Nat
      /\ E!Unit(kind # "ambiguous") \in 0..1 /\ E!Unit(kind = "ambiguous") \in 0..1
      /\ E!Unit(kind # "ambiguous") + E!Unit(kind = "ambiguous") = 1
  <2> DEFINE f == Many(runner, index, FALSE)
             g == Many(runner, index, TRUE)
  <2>1. f \in 0..index /\ g \in 0..index
    BY <1>51
  <2> HIDE DEF f, g
  <2>2. f \in Nat /\ g \in Nat
    BY <1>2, <2>1
  <2>3. /\ E!Unit(kind # "ambiguous") \in 0..1 /\ E!Unit(kind = "ambiguous") \in 0..1
        /\ E!Unit(kind # "ambiguous") + E!Unit(kind = "ambiguous") = 1
    BY DEF E!Unit
  <2> QED
    BY <2>2, <2>3 DEF f, g
<1>6. /\ d \in E!Counts /\ d.clear_total = counts.clear_total /\ d.ambiguous_total = counts.ambiguous_total
      /\ d.clear = counts.clear + E!Unit(kind # "ambiguous") /\ d.ambiguous = counts.ambiguous + E!Unit(kind = "ambiguous")
  BY <1>1, RowsAddUp
<1>7. /\ d.correct <= d.autonomous /\ d.autonomous <= d.clear + d.ambiguous
      /\ E!Processed(d) = E!Processed(counts) + 1
  BY <1>1, RowsStayWithin
<1>8. RowsOfCases(d, index + 1)
  <2>1. counts.clear \in Nat /\ counts.ambiguous \in Nat
    BY <1>1, CountsAreNumbers
  <2> DEFINE x == E!Unit(kind # "ambiguous")
             y == E!Unit(kind = "ambiguous")
             f == Many(runner, index, FALSE)
             g == Many(runner, index, TRUE)
             fNext == Many(runner, index + 1, FALSE)
             gNext == Many(runner, index + 1, TRUE)
  <2>2. /\ x \in 0..1 /\ y \in 0..1 /\ f \in Nat /\ g \in Nat /\ fNext = f + x /\ gNext = g + y
        /\ d.clear = counts.clear + x /\ d.ambiguous = counts.ambiguous + y /\ counts.clear <= f /\ counts.ambiguous <= g
    BY <1>1, <1>4, <1>5, <1>6
  <2> HIDE DEF x, y, f, g, fNext, gNext
  <2>3. d.clear <= fNext /\ d.ambiguous <= gNext
    BY <2>1, <2>2
  <2>4. OfTheSuite(d)
    BY <1>6 DEF RowsOfCases, OfTheSuite
  <2> QED
    BY <1>7, <2>3, <2>4 DEF RowsOfCases, fNext, gNext
<1>9. ASSUME E!Valid(counts), runner # "qualification" PROVE E!Valid(d)
  <2>1. kind \in {"clear", "ambiguous"}
    BY <1>9, NextKind DEF Kinds
  <2>2. d.clear <= counts.clear_total /\ d.ambiguous <= counts.ambiguous_total
    BY <1>2, <1>6, <1>8, RowsAreWellCounted
  <2>3. /\ counts.clear \in Nat /\ counts.ambiguous \in Nat /\ counts.clear_total \in Nat
        /\ counts.ambiguous_total \in Nat
    BY <1>1, CountsAreNumbers
  <2>4. /\ counts.clear < counts.clear_total + E!Unit(kind = "ambiguous")
        /\ counts.ambiguous < counts.ambiguous_total + E!Unit(kind # "ambiguous")
    BY <1>5, <1>6, <2>2, <2>3
  <2> QED
    BY <1>1, <1>9, <2>1, <2>4, RowsStayWithin
<1> QED
  BY <1>7, <1>8, <1>9
-------------------------------------------------------------------------------
(* The verdict.                                                            *)

(* With a row of every case there is nothing left to hope for. *)
LEMMA NothingLeft ==
  ASSUME NEW c, WellCounted(c), E!Processed(c) = E!Total(c), E!CanPass(c)
  PROVE  E!Passing(c)
<1>1. PICK right \in Nat, wrong \in Nat, rejected \in Nat, good \in Nat, poor \in Nat, bold \in Nat :
        Suffice(c, right, wrong, rejected, good, poor, bold)
  BY CanPassNeeds
<1>2. /\ c.clear \in Nat /\ c.ambiguous \in Nat /\ c.clear_total \in Nat /\ c.ambiguous_total \in Nat
      /\ c.clear <= c.clear_total /\ c.ambiguous <= c.ambiguous_total
      /\ E!ClearLeft(c) = c.clear_total - c.clear /\ E!AmbiguousLeft(c) = c.ambiguous_total - c.ambiguous
      /\ c.clear + c.ambiguous = c.clear_total + c.ambiguous_total
  BY CountsAreNumbers DEF WellCounted
<1>3. E!ClearLeft(c) = 0 /\ E!AmbiguousLeft(c) = 0
  BY <1>2
<1>4. right = 0 /\ wrong = 0 /\ rejected = 0 /\ good = 0 /\ poor = 0 /\ bold = 0
  BY <1>1, <1>3 DEF Suffice
<1>5. c.passes \in Nat /\ c.correct \in Nat /\ c.autonomous \in Nat /\ c.clarified \in Nat
  BY CountsAreNumbers DEF WellCounted
<1>6. /\ c.passes + right + rejected + good = c.passes /\ c.correct + right = c.correct
      /\ c.autonomous + right + wrong + bold = c.autonomous /\ c.clarified + good + poor = c.clarified
  BY <1>4, <1>5
<1>7. /\ E!Meets(c.passes, E!Total(c), criteria.passes) /\ c.autonomous > 0
      /\ E!Meets(c.correct, c.autonomous, criteria.reliability)
      /\ E!Meets(c.autonomous, E!Total(c), criteria.coverage)
      /\ E!Meets(c.clarified, c.ambiguous_total, criteria.clarification)
      /\ runner = "qualification" => c.unsafe = 0
  BY <1>1, <1>6 DEF Suffice
<1> QED
  BY <1>7 DEF E!Passing, E!Gate, E!FinalPass

LEMMA HopeKeepsARunGoing ==
  ASSUME RunOfCases, RowsAreCounted, E!CanPass(counts)
  PROVE  E!StillPossible(counts)
<1>1. WellCounted(counts) /\ E!Total(counts) = E!SuiteSize
  <2>1. RowsOfCases(counts, Through) /\ Through \in 0..E!SuiteSize
    <3>1. Through <= E!SuiteSize /\ index \in 0..E!SuiteSize /\ E!SuiteSize \in Nat
      BY SuiteIsFinite DEF RunOfCases, RowsAreCounted
    <3>2. Through \in 0..E!SuiteSize
      BY <3>1 DEF Through
    <3> QED
      BY <3>2 DEF RowsAreCounted
  <2>2. PICK n : n = Through
    OBVIOUS
  <2> QED
    BY <2>1, <2>2, RowsAreWellCounted DEF RunOfCases
<1>2. runner \in Runner /\ criteria \in CriteriaOf[runner]
  BY DEF RunOfCases
<1>3. CASE runner = "candidate 5"
  <2>1. E!Possible(counts, criteria)
    BY <1>1, <1>2, GivenUpIsLost
  <2> QED
    BY <1>3, <2>1 DEF E!StillPossible
<1>4. CASE runner = "qualification"
  <2>1. E!Reachable(counts, criteria)
    BY <1>1, <1>2, <1>4, UnreachableIsLost
  <2> QED
    BY <1>4, <2>1 DEF E!StillPossible
<1>5. CASE runner \in {"candidate 6", "candidate 8"}
  <2>1. E!OfficialReachable(counts, criteria)
    BY <1>1, <1>2, <1>5, HopelessIsLost DEF RowsAreCounted
  <2> QED
    BY <1>5, <2>1 DEF E!StillPossible
<1> QED
  BY <1>2, <1>3, <1>4, <1>5, RunnersAre

Judged == IF runner = "candidate 5" THEN kept ELSE counts

AllRowsPass(c) == E!Processed(c) = E!SuiteSize /\ E!Passing(c)

LEMMA JudgedIsCounted ==
  ASSUME EInv
  PROVE  /\ WellCounted(counts) /\ E!Total(counts) = E!SuiteSize /\ E!Processed(counts) <= Through
         /\ E!Total(kept) = E!SuiteSize /\ kept \in E!Counts
         /\ Through \in Nat /\ Through = (IF ended = "stopped" THEN index + 1 ELSE index) /\ E!SuiteSize \in Nat
<1>1. runner \in Runner /\ index \in 0..E!SuiteSize /\ E!SuiteSize \in Nat
  BY SuiteIsFinite DEF EInv, RunOfCases
<1>2. Through <= E!SuiteSize /\ RowsOfCases(counts, Through) /\ OfTheSuite(kept)
  BY DEF EInv, RowsAreCounted
<1>3. Through \in 0..E!SuiteSize
  BY <1>1, <1>2 DEF Through
<1>4. WellCounted(counts) /\ E!Total(counts) = E!SuiteSize /\ E!Processed(counts) <= Through
  <2>1. PICK n : n = Through
    OBVIOUS
  <2> QED
    BY <1>1, <1>2, <1>3, <2>1, RowsAreWellCounted
<1>5. E!Total(kept) = E!SuiteSize /\ kept \in E!Counts
  <2>1. kept \in E!Counts /\ E!Total(kept) = E!Total(counts)
    BY <1>2 DEF RowsOfCases, OfTheSuite, E!Total
  <2> QED
    BY <1>4, <2>1
<1> QED
  BY <1>1, <1>3, <1>4, <1>5 DEF Through

Deciding == stage = "decide" \/ (E!Finished /\ runner # "candidate 5")

LEMMA StatusIsEarned ==
  ASSUME EInv, Deciding
  PROVE  /\ E!Status \in {"PASS", "FAILED", "OPEN"}
         /\ E!Status = "FAILED" => ~E!CanPass(counts)
         /\ E!Status = "PASS" => AllRowsPass(Judged)
         /\ stage = "decide" /\ E!Status = "PASS" => certified # None
<1>1. /\ runner \in Runner /\ criteria \in CriteriaOf[runner] /\ index \in 0..E!SuiteSize
      /\ ended \in {"no", "eliminated", "limited", "stopped"}
      /\ stage = "decide" => runner = "candidate 5"
      /\ ended = "limited" => runner = "candidate 8"
      /\ ended = "stopped" => runner = "candidate 5"
      /\ ended = "eliminated" => ~E!StillPossible(counts)
      /\ certified # None => E!Processed(Judged) = E!SuiteSize /\ E!Passing(Judged)
  BY DEF EInv, RunOfCases, GivingUpIsReasoned, VerdictsFollow, E!PassMeansAllRows, Judged
<1>2. E!CanPass(counts) => E!StillPossible(counts)
  BY HopeKeepsARunGoing DEF EInv
<1>3. CASE runner = "candidate 5"
  BY <1>1, <1>2, <1>3 DEF E!Status, AllRowsPass
<1>4. ASSUME runner # "candidate 5", ended = "no" PROVE index = E!SuiteSize
  BY <1>4 DEF Deciding, E!Finished, EInv, VerdictsFollow
<1>5. CASE runner = "qualification"
  <2>1. E!Processed(counts) <= index /\ E!Total(counts) = E!SuiteSize /\ WellCounted(counts)
        /\ E!Processed(counts) \in Nat /\ index \in Nat
    BY <1>1, <1>5, JudgedIsCounted, CountsAreNumbers, SuiteIsFinite DEF WellCounted
  <2>2. E!Passing(counts) <=> E!FinalPass(counts, criteria)
    BY <1>5 DEF E!Passing
  <2>3. E!FinalPass(counts, criteria) => E!Processed(counts) = E!Total(counts)
    BY DEF E!FinalPass
  <2>4. /\ index > E!Processed(counts) => E!Status = "OPEN"
        /\ ~(index > E!Processed(counts)) => E!Status = (IF E!FinalPass(counts, criteria) THEN "PASS" ELSE "FAILED")
    BY <1>5 DEF E!Status
  <2>5. ASSUME ~(index > E!Processed(counts)), ~E!Passing(counts), E!CanPass(counts) PROVE FALSE
    <3>1. ended = "no" /\ index = E!SuiteSize
      BY <1>1, <1>2, <1>4, <1>5, <2>5
    <3>2. E!Processed(counts) = E!Total(counts)
      <4>1. PICK n \in Nat : n = E!Processed(counts)
        BY <2>1
      <4>2. n <= index /\ ~(index > n) /\ index \in Nat
        BY <2>1, <2>5, <4>1
      <4>3. \A i, j \in Nat : i <= j /\ ~(j > i) => i = j
        OBVIOUS
      <4> QED
        BY <2>1, <3>1, <4>1, <4>2, <4>3, Zenon
    <3> QED
      BY <2>1, <2>5, <3>2, NothingLeft
  <2>6. Judged = counts /\ stage # "decide"
    BY <1>1, <1>5 DEF Judged
  <2> QED
    BY <2>1, <2>2, <2>3, <2>4, <2>5, <2>6 DEF AllRowsPass
<1>6. CASE runner \in {"candidate 6", "candidate 8"}
  <2>1. /\ E!Valid(counts) /\ E!Processed(counts) = index
        /\ E!Total(counts) = E!SuiteSize /\ WellCounted(counts) /\ counts \in E!Counts
    BY <1>6, JudgedIsCounted DEF EInv, RowsAreCounted, WellCounted
  <2>2. E!Passing(counts) <=> E!Gate(counts, criteria)
    BY <1>6 DEF E!Passing
  <2>3. E!Gate(counts, criteria) <=> E!OfficialPass(counts, criteria)
    <3>1. criteria.passes \in Nat /\ criteria.coverage \in Nat /\ criteria.clarification \in Nat
      <4>1. runner \in Runner /\ criteria \in CriteriaOf[runner]
        BY <1>1, Zenon
      <4> QED
        BY <4>1, CriteriaAreNumbers
    <3>2. E!OfficialPass(counts, criteria) <=> E!Valid(counts) /\ E!Gate(counts, criteria)
      BY <2>1, <3>1, OfficialIsGate
    <3> QED
      BY <2>1, <3>2
  <2>4. E!Gate(counts, criteria) => E!Processed(counts) = E!Total(counts)
    BY DEF E!Gate
  <2>5. /\ ended = "limited" => E!Status = "OPEN"
        /\ ended # "limited" => E!Status = (IF E!OfficialPass(counts, criteria) THEN "PASS" ELSE "FAILED")
    BY <1>6 DEF E!Status
  <2>6. ASSUME ended # "limited", ~E!Passing(counts), E!CanPass(counts) PROVE FALSE
    <3>1. ended = "no" /\ index = E!SuiteSize
      BY <1>1, <1>2, <1>4, <1>6, <2>6
    <3>2. E!Processed(counts) = E!Total(counts)
      BY <2>1, <3>1
    <3> QED
      BY <2>1, <2>6, <3>2, NothingLeft
  <2>7. Judged = counts /\ stage # "decide"
    BY <1>1, <1>6 DEF Judged
  <2> QED
    BY <2>1, <2>2, <2>3, <2>4, <2>5, <2>6, <2>7 DEF AllRowsPass
<1> QED
  BY <1>1, <1>3, <1>5, <1>6, RunnersAre

LEMMA EInvMeans == EInv => E!TypeOK /\ E!StopsOnlyWithoutHope /\ E!PassMeansAllRows
<1> SUFFICES ASSUME EInv PROVE E!TypeOK /\ E!StopsOnlyWithoutHope /\ E!PassMeansAllRows
  OBVIOUS
<1>1. E!CanPass(counts) => E!StillPossible(counts)
  BY HopeKeepsARunGoing DEF EInv
<1>2. E!Processed(counts) <= E!SuiteSize
  <2>1. /\ E!Processed(counts) <= Through /\ Through <= E!SuiteSize
        /\ E!Processed(counts) \in Nat /\ Through \in Nat /\ E!SuiteSize \in Nat
    BY JudgedIsCounted, CountsAreNumbers DEF EInv, RowsAreCounted, WellCounted
  <2> QED
    BY <2>1
<1>3. E!TypeOK
  BY <1>2 DEF EInv, RunOfCases, E!TypeOK
<1>4. ended = "eliminated" \/ verdict = "FAILED" => ~E!CanPass(counts)
  BY <1>1 DEF EInv, GivingUpIsReasoned, VerdictsFollow
<1>5. ASSUME E!Evaluating, index > 0, runner \in {"candidate 6", "candidate 8"} PROVE E!CanPass(counts)
  <2>1. E!StillPossible(counts)
    BY <1>5 DEF E!Evaluating, EInv, GivingUpIsReasoned
  <2>2. E!OfficialReachable(counts, criteria)
    BY <1>5, <2>1 DEF E!StillPossible
  <2>3. E!Valid(counts) /\ runner \in Runner /\ criteria \in CriteriaOf[runner] /\ WellCounted(counts)
    BY <1>5, JudgedIsCounted DEF EInv, RowsAreCounted, RunOfCases
  <2> QED
    BY <1>5, <2>2, <2>3, HopeIsReal
<1>6. E!StopsOnlyWithoutHope
  BY <1>4, <1>5 DEF E!StopsOnlyWithoutHope
<1> QED
  BY <1>3, <1>6 DEF EInv, VerdictsFollow

-------------------------------------------------------------------------------
(* What the steps keep.                                                    *)

LEMMA SuiteStays == runner' = runner => E!SuiteSize' = E!SuiteSize
BY Zenon DEF E!SuiteSize

LEMMA HopeStays ==
  ASSUME UNCHANGED <<runner, criteria, counts>>
  PROVE  /\ E!CanPass(counts)' <=> E!CanPass(counts)
         /\ E!StillPossible(counts)' <=> E!StillPossible(counts)
<1>1. runner' = runner /\ criteria' = criteria /\ counts' = counts
  OBVIOUS
<1>2. E!CanPass(counts)' <=> E!CanPass(counts)
  BY <1>1, SMT DEF E!CanPass, E!Passing
<1>3. E!StillPossible(counts)' <=> E!StillPossible(counts)
  BY <1>1, Zenon DEF E!StillPossible
<1> QED
  BY <1>2, <1>3

ValidAt(c, n) == runner \in {"candidate 6", "candidate 8"} => E!Valid(c) /\ E!Processed(c) = n

LEMMA NextRowsAreCounted ==
  ASSUME runner' = runner, NEW c, NEW k, NEW n, c = counts', k = kept', n = Through', n <= E!SuiteSize,
         RowsOfCases(c, n), OfTheSuite(k),
         ValidAt(c, index')
  PROVE  RowsAreCounted'
<1>1. (Through <= E!SuiteSize)'
  BY SuiteStays, Zenon
<1>2. RowsOfCases(counts, Through)'
  BY Zenon DEF RowsOfCases, OfTheSuite
<1>3. OfTheSuite(kept)'
  BY Zenon DEF OfTheSuite
<1>4. (runner \in {"candidate 6", "candidate 8"} => E!Valid(counts) /\ E!Processed(counts) = index)'
  BY Zenon DEF ValidAt
<1> QED
  BY <1>1, <1>2, <1>3, <1>4, Zenon DEF RowsAreCounted

LEMMA NoVerdictWhileEvaluating ==
  ASSUME EInv, stage = "evaluate", UNCHANGED <<stage, verdict, certified>>
  PROVE  VerdictsFollow'
<1>1. verdict' = None /\ certified' = None /\ stage' = "evaluate"
  BY DEF EInv, VerdictsFollow
<1>2. None \notin {"PASS", "FAILED"}
  BY SuitesAreSmall, Zenon
<1>3. stage' \notin {"decide", "receipt"}
  BY <1>1
<1>4. E!PassMeansAllRows'
  BY <1>1, <1>2, Zenon DEF E!PassMeansAllRows
<1> QED
  BY <1>1, <1>2, <1>3, <1>4, Zenon DEF VerdictsFollow

(* One case is through. *)
LEMMA AdvanceKeeps ==
  ASSUME EInv, E!Evaluating, NEW c, NEW k, k = kept', E!Advance(c), RowsOfCases(c, index + 1), OfTheSuite(k),
         ValidAt(c, index + 1)
  PROVE  EInv'
<1>1. /\ index' = index + 1 /\ counts' = c
      /\ ended' = IF E!StillPossible(c) THEN "no" ELSE "eliminated"
      /\ UNCHANGED <<runner, criteria, torn, stage, verdict, certified>>
  BY DEF E!Advance
<1>2. stage = "evaluate" /\ ended = "no" /\ index < E!SuiteSize
  BY DEF E!Evaluating
<1>3. runner \in Runner /\ criteria \in CriteriaOf[runner] /\ index \in 0..E!SuiteSize /\ E!SuiteSize \in Nat
  BY SuiteIsFinite DEF EInv, RunOfCases
<1>4. index + 1 \in 0..E!SuiteSize /\ index + 1 <= E!SuiteSize
  BY <1>2, <1>3
<1>5. RunOfCases'
  <2>1. index' \in 0..E!SuiteSize' /\ runner' = runner /\ criteria' = criteria
    BY <1>1, <1>4, SuiteStays, Zenon
  <2>2. ended' \in {"no", "eliminated"} /\ stage' = stage /\ verdict' = verdict
    BY <1>1
  <2> QED
    BY <1>2, <1>3, <2>1, <2>2, Zenon DEF EInv, RunOfCases
<1>6. RowsAreCounted'
  <2>1. Through' = index + 1
    BY <1>1, Zenon DEF Through
  <2>2. PICK n : n = index + 1
    OBVIOUS
  <2> QED
    BY <1>1, <1>4, <2>1, <2>2, NextRowsAreCounted, Zenon
<1>7. GivingUpIsReasoned'
  <2>1. E!StillPossible(counts)' <=> E!StillPossible(c)
    BY <1>1, Zenon DEF E!StillPossible
  <2>2. /\ ended' = "no" => E!StillPossible(c)
        /\ ended' = "eliminated" => ~E!StillPossible(c)
        /\ ended' # "limited" /\ ended' # "stopped"
    BY <1>1
  <2> QED
    BY <2>1, <2>2, Zenon DEF GivingUpIsReasoned
<1>8. VerdictsFollow'
  BY <1>1, <1>2, NoVerdictWhileEvaluating, Zenon
<1> QED
  BY <1>5, <1>6, <1>7, <1>8 DEF EInv

LEMMA RunningRows ==
  ASSUME EInv, E!Evaluating
  PROVE  /\ runner \in Runner /\ index \in 0..E!SuiteSize /\ index < E!SuiteSize /\ index \in Nat
         /\ RowsOfCases(counts, index) /\ OfTheSuite(counts) /\ OfTheSuite(kept)
         /\ ValidAt(counts, index)
<1>1. ended = "no" /\ index < E!SuiteSize
  BY DEF E!Evaluating
<1>2. Through = index
  BY <1>1 DEF Through
<1>3. RowsOfCases(counts, index) /\ OfTheSuite(kept)
  BY <1>2, Zenon DEF EInv, RowsAreCounted
<1>4. index \in 0..E!SuiteSize /\ runner \in Runner
  BY Zenon DEF EInv, RunOfCases
<1>5. index \in Nat
  BY <1>4, SuiteIsFinite
<1> QED
  BY <1>1, <1>3, <1>4, <1>5, Zenon DEF RowsOfCases, EInv, RowsAreCounted, ValidAt

(* The rows of the cases before one are among those up to it. *)
LEMMA RowsOfMoreCases ==
  ASSUME NEW c, NEW n \in Nat, RowsOfCases(c, n)
  PROVE  RowsOfCases(c, n + 1)
<1>1. Many(runner, n, FALSE) <= Many(runner, n + 1, FALSE) /\ Many(runner, n, TRUE) <= Many(runner, n + 1, TRUE)
  <2>1. n + 1 \in Nat /\ n <= n + 1
    OBVIOUS
  <2> QED
    BY <2>1, ManyGrows, Zenon
<1>2. /\ Many(runner, n, FALSE) \in 0..n /\ Many(runner, n, TRUE) \in 0..n
      /\ Many(runner, n + 1, FALSE) \in 0..(n + 1) /\ Many(runner, n + 1, TRUE) \in 0..(n + 1)
  <2>1. n + 1 \in Nat
    OBVIOUS
  <2> QED
    BY <2>1, ManyIsNat, Zenon
<1>3. c.clear \in Nat /\ c.ambiguous \in Nat /\ OfTheSuite(c)
  BY CountsAreNumbers DEF RowsOfCases, OfTheSuite
<1>4. c.clear <= Many(runner, n, FALSE) /\ c.ambiguous <= Many(runner, n, TRUE)
  BY Zenon DEF RowsOfCases
<1> DEFINE f == Many(runner, n, FALSE)
           g == Many(runner, n, TRUE)
           fMore == Many(runner, n + 1, FALSE)
           gMore == Many(runner, n + 1, TRUE)
<1>5. /\ f <= fMore /\ g <= gMore /\ c.clear <= f /\ c.ambiguous <= g
      /\ f \in 0..n /\ g \in 0..n /\ fMore \in 0..(n + 1) /\ gMore \in 0..(n + 1)
  BY <1>1, <1>2, <1>4, Zenon
<1> HIDE DEF f, g, fMore, gMore
<1>6. c.clear <= fMore /\ c.ambiguous <= gMore
  BY <1>3, <1>5
<1> QED
  BY <1>3, <1>6, Zenon DEF RowsOfCases, fMore, gMore

LEMMA ScoreKeeps == ASSUME EInv, E!Score PROVE EInv'
<1>1. PICK o \in E!Results(E!Kind(index + 1)) :
        E!Advance(E!Count(counts, E!Kind(index + 1), o)) /\ kept' = counts'
  BY DEF E!Score
<1>2. E!Evaluating
  BY DEF E!Score
<1>3. PICK d : d = E!Count(counts, E!Kind(index + 1), o)
  OBVIOUS
<1>4. RowsOfCases(d, index + 1) /\ ValidAt(d, index + 1)
  <2>1. /\ RowsOfCases(d, index + 1) /\ E!Processed(d) = E!Processed(counts) + 1
        /\ E!Valid(counts) /\ runner # "qualification" => E!Valid(d)
    BY <1>2, <1>3, RunningRows, NextRowCounts
  <2>2. ValidAt(counts, index)
    BY <1>2, RunningRows
  <2> QED
    BY <2>1, <2>2, Zenon DEF ValidAt
<1>5. kept' = d /\ E!Advance(d)
  BY <1>1, <1>3 DEF E!Advance
<1>6. OfTheSuite(d)
  BY <1>4 DEF RowsOfCases
<1> QED
  BY <1>2, <1>4, <1>5, <1>6, AdvanceKeeps, Zenon

(* The run ends here without a verdict; the process of the case may have left its row. *)
LEMMA EndingKeeps ==
  ASSUME EInv, E!Evaluating, NEW c, NEW k, NEW n, c = counts', k = kept', n = Through', n <= E!SuiteSize,
         RowsOfCases(c, n), OfTheSuite(k), ValidAt(c, index),
         UNCHANGED <<runner, criteria, index, stage, verdict, certified>>,
         \/ ended' = "limited" /\ runner = "candidate 8"
         \/ ended' = "stopped" /\ runner = "candidate 5"
  PROVE  EInv'
<1>1. RunOfCases'
  <2>1. E!SuiteSize' = E!SuiteSize
    BY SuiteStays, Zenon
  <2> QED
    BY <2>1, Zenon DEF EInv, RunOfCases
<1>2. RowsAreCounted'
  BY NextRowsAreCounted, Zenon
<1>3. GivingUpIsReasoned'
  <2>1. ended' \notin {"no", "eliminated"}
    BY Zenon
  <2> QED
    BY <2>1, Zenon DEF GivingUpIsReasoned
<1>4. VerdictsFollow'
  BY NoVerdictWhileEvaluating, Zenon DEF E!Evaluating
<1> QED
  BY <1>1, <1>2, <1>3, <1>4 DEF EInv

LEMMA PutOffKeeps == ASSUME EInv, E!PutOff PROVE EInv'
<1>1. E!Evaluating /\ kept' = kept
  BY DEF E!PutOff
<1>2. /\ index \in Nat /\ RowsOfCases(counts, index) /\ ValidAt(counts, index) /\ OfTheSuite(kept)
      /\ runner \in Runner /\ index \in 0..E!SuiteSize
  BY <1>1, RunningRows, Zenon
<1>3. CASE runner = "candidate 8"
  <2>1. ended' = "limited" /\ UNCHANGED <<runner, criteria, index, counts, stage, verdict, certified>>
    BY <1>3 DEF E!PutOff
  <2>2. Through' = index
    BY <2>1, Zenon DEF Through
  <2>3. index <= E!SuiteSize
    BY <1>2, SuiteIsFinite
  <2>4. PICK c, k, n : c = counts /\ k = kept /\ n = index
    OBVIOUS
  <2> QED
    BY <1>1, <1>2, <1>3, <2>1, <2>2, <2>3, <2>4, EndingKeeps, Zenon
<1>4. CASE runner # "candidate 8"
  <2>1. E!Advance(counts) /\ runner # "candidate 6"
    BY <1>4, Zenon DEF E!PutOff
  <2>2. RowsOfCases(counts, index + 1)
    BY <1>2, RowsOfMoreCases, Zenon
  <2>3. ValidAt(counts, index + 1)
    BY <1>4, <2>1, Zenon DEF ValidAt
  <2>4. PICK c, k : c = counts /\ k = kept
    OBVIOUS
  <2> QED
    BY <1>1, <1>2, <2>1, <2>2, <2>3, <2>4, AdvanceKeeps, Zenon
<1> QED
  BY <1>3, <1>4, Zenon

LEMMA TimeOutKeeps == ASSUME EInv, E!TimeOut PROVE EInv'
<1>1. E!Evaluating /\ runner = "candidate 5" /\ ended' = "stopped"
      /\ UNCHANGED <<runner, criteria, index, counts, stage, verdict, certified>>
  BY Zenon DEF E!TimeOut
<1>2. /\ index \in Nat /\ RowsOfCases(counts, index) /\ OfTheSuite(kept) /\ index \in 0..E!SuiteSize /\ index < E!SuiteSize
      /\ runner \in Runner
  BY <1>1, RunningRows, Zenon
<1>3. OfTheSuite(kept')
  <2>1. CASE kept' = kept
    BY <1>2, <2>1, Zenon
  <2>2. CASE \E o \in E!Results(E!Kind(index + 1)) : kept' = E!Count(kept, E!Kind(index + 1), o)
    <3>1. PICK o \in E!Results(E!Kind(index + 1)) : kept' = E!Count(kept, E!Kind(index + 1), o)
      BY <2>2, Zenon
    <3>2. PICK d : d = kept'
      OBVIOUS
    <3>3. kept \in E!Counts
      BY <1>2, Zenon DEF OfTheSuite
    <3>4. d \in E!Counts /\ d.clear_total = kept.clear_total /\ d.ambiguous_total = kept.ambiguous_total
      BY <3>1, <3>2, <3>3, RowsAddUp
    <3> QED
      BY <1>2, <3>2, <3>4, Zenon DEF OfTheSuite
  <2> QED
    BY <2>1, <2>2, Zenon DEF E!TimeOut
<1>4. Through' = index + 1
  BY <1>1, Zenon DEF Through
<1>5. RowsOfCases(counts, index + 1)
  BY <1>2, RowsOfMoreCases, Zenon
<1>6. index + 1 <= E!SuiteSize
  <2>1. \A i, m \in Nat : i < m => i + 1 <= m
    OBVIOUS
  <2> QED
    BY <1>2, <2>1, SuiteIsFinite, Zenon
<1>7. ValidAt(counts, index)
  BY <1>1, RunningRows, Zenon
<1>8. PICK c, k, n : c = counts' /\ k = kept' /\ n = Through'
  OBVIOUS
<1> QED
  BY <1>1, <1>3, <1>4, <1>5, <1>6, <1>7, <1>8, EndingKeeps, Zenon

LEMMA ProcessFailsKeeps == ASSUME EInv, E!ProcessFails PROVE EInv'
<1>1. E!Evaluating /\ runner = "candidate 5" /\ ended' = "stopped"
      /\ UNCHANGED <<runner, criteria, index, stage, verdict, certified>>
  BY Zenon DEF E!ProcessFails
<1>2. /\ index \in Nat /\ RowsOfCases(counts, index) /\ OfTheSuite(kept) /\ index \in 0..E!SuiteSize /\ index < E!SuiteSize
      /\ runner \in Runner
  BY <1>1, RunningRows, Zenon
<1>3. RowsOfCases(counts', index + 1) /\ OfTheSuite(kept')
  <2>1. CASE counts' = counts /\ kept' = kept
    BY <1>2, <2>1, RowsOfMoreCases, Zenon
  <2>2. CASE \E o \in E!Results(E!Kind(index + 1)) : counts' = E!Count(counts, E!Kind(index + 1), o) /\ kept' = counts'
    <3>1. PICK o \in E!Results(E!Kind(index + 1)) : counts' = E!Count(counts, E!Kind(index + 1), o) /\ kept' = counts'
      BY <2>2, Zenon
    <3>2. PICK d : d = counts'
      OBVIOUS
    <3>3. RowsOfCases(d, index + 1)
      BY <1>2, <3>1, <3>2, NextRowCounts, Zenon
    <3> QED
      BY <3>1, <3>2, <3>3, Zenon DEF RowsOfCases
  <2> QED
    BY <2>1, <2>2, Zenon DEF E!ProcessFails
<1>4. Through' = index + 1
  BY <1>1, Zenon DEF Through
<1>5. index + 1 <= E!SuiteSize
  <2>1. \A i, m \in Nat : i < m => i + 1 <= m
    OBVIOUS
  <2> QED
    BY <1>2, <2>1, SuiteIsFinite, Zenon
<1>6. PICK c, k, n : c = counts' /\ k = kept' /\ n = Through'
  OBVIOUS
<1>7. ValidAt(c, index)
  BY <1>1, Zenon DEF ValidAt
<1> QED
  BY <1>1, <1>3, <1>4, <1>5, <1>6, <1>7, EndingKeeps, Zenon

(* After the loop nothing of the run changes but what is decided about it. *)
LEMMA DecidingKeeps ==
  ASSUME EInv, UNCHANGED <<runner, criteria, index, counts, kept, ended>>,
         stage' \in {"evaluate", "decide", "receipt", "done", "dead"},
         verdict' \in {None, "PASS", "FAILED", "OPEN"},
         stage' # "evaluate", VerdictsFollow'
  PROVE  EInv'
<1>1. E!SuiteSize' = E!SuiteSize
  BY SuiteStays, Zenon
<1>2. RunOfCases'
  BY <1>1, Zenon DEF EInv, RunOfCases
<1>3. Through' = Through
  BY Zenon DEF Through
<1>4. RowsAreCounted'
  <2>1. PICK c, k, n : c = counts' /\ k = kept' /\ n = Through'
    OBVIOUS
  <2>2. n <= E!SuiteSize /\ RowsOfCases(c, n) /\ OfTheSuite(k) /\ ValidAt(c, index')
    BY <1>3, <2>1, Zenon DEF EInv, RowsAreCounted, ValidAt
  <2> QED
    BY <2>1, <2>2, NextRowsAreCounted, Zenon
<1>5. GivingUpIsReasoned'
  BY HopeStays, Zenon DEF EInv, GivingUpIsReasoned
<1> QED
  BY <1>2, <1>4, <1>5 DEF EInv

(* PassMeansAllRows is about these. *)
LEMMA PassingStays ==
  ASSUME UNCHANGED <<runner, criteria, counts, kept>>
  PROVE  /\ Judged' = Judged
         /\ AllRowsPass(Judged)' <=> AllRowsPass(Judged)
<1>1. Judged' = Judged
  BY Zenon DEF Judged
<1>2. E!SuiteSize' = E!SuiteSize
  BY SuiteStays, Zenon
<1>3. E!Passing(Judged)' <=> E!Passing(Judged)
  BY <1>1, Zenon DEF E!Passing
<1>4. AllRowsPass(Judged)' <=> AllRowsPass(Judged)
  BY <1>1, <1>2, <1>3, Zenon DEF AllRowsPass
<1> QED
  BY <1>1, <1>4

LEMMA PassMeans ==
  E!PassMeansAllRows <=>
    /\ verdict = "PASS" \/ certified # None => AllRowsPass(Judged)
    /\ certified # None => certified = Judged
    /\ verdict = "PASS" /\ stage = "done" => certified # None
BY Zenon DEF E!PassMeansAllRows, AllRowsPass, Judged

LEMMA AggregateKeeps == ASSUME EInv, E!Aggregate PROVE EInv'
<1>1. /\ stage = "evaluate" /\ runner = "candidate 5" /\ stage' = "decide"
      /\ UNCHANGED <<runner, criteria, index, counts, kept, torn, ended, verdict>>
  BY Zenon DEF E!Aggregate, E!Finished
<1>2. verdict = None /\ certified = None /\ verdict' = None
  BY <1>1, Zenon DEF EInv, VerdictsFollow
<1>3. certified' = certified \/ (certified' = kept /\ E!Gate(kept, criteria))
  BY Zenon DEF E!Aggregate
<1>4. Judged = kept
  BY <1>1, Zenon DEF Judged
<1>5. E!Gate(kept, criteria) => AllRowsPass(Judged)
  <2>1. E!Gate(kept, criteria) => E!Processed(kept) = E!Total(kept)
    BY Zenon DEF E!Gate
  <2>2. E!Passing(kept) <=> E!Gate(kept, criteria)
    BY <1>1, Zenon DEF E!Passing
  <2> QED
    BY <1>4, <2>1, <2>2, JudgedIsCounted, Zenon DEF AllRowsPass
<1>6. None \notin {"PASS", "FAILED"}
  BY SuitesAreSmall, Zenon
<1>7. /\ Judged' = Judged
      /\ AllRowsPass(Judged)' <=> AllRowsPass(Judged)
  BY <1>1, PassingStays, Zenon
<1>8. /\ verdict' = "PASS" \/ certified' # None => AllRowsPass(Judged)'
      /\ certified' # None => certified' = Judged'
      /\ verdict' = "PASS" /\ stage' = "done" => certified' # None
  BY <1>1, <1>2, <1>3, <1>4, <1>5, <1>6, <1>7, Zenon
<1>9. E!PassMeansAllRows'
  BY <1>8, Zenon DEF E!PassMeansAllRows, AllRowsPass, Judged
<1>10. VerdictsFollow'
  BY <1>1, <1>2, <1>6, <1>9, Zenon DEF VerdictsFollow
<1> QED
  BY <1>1, <1>2, <1>10, DecidingKeeps, Zenon

LEMMA DecideKeeps == ASSUME EInv, E!Decide PROVE EInv'
<1>1. /\ Deciding /\ verdict' = E!Status
      /\ stage' = IF E!Status = "PASS" /\ certified = None THEN "receipt" ELSE "done"
      /\ UNCHANGED <<runner, criteria, index, counts, kept, torn, ended, certified>>
  BY Zenon DEF E!Decide, Deciding
<1>2. /\ E!Status \in {"PASS", "FAILED", "OPEN"}
      /\ E!Status = "FAILED" => ~E!CanPass(counts)
      /\ E!Status = "PASS" => AllRowsPass(Judged)
      /\ stage = "decide" /\ E!Status = "PASS" => certified # None
  BY <1>1, StatusIsEarned
<1>3. /\ certified # None => AllRowsPass(Judged)
      /\ certified # None => certified = Judged
  BY PassMeans, Zenon DEF EInv, VerdictsFollow
<1>4. stage' \in {"receipt", "done"} /\ verdict' \in {"PASS", "FAILED", "OPEN"}
  BY <1>1, <1>2
<1>5. /\ Judged' = Judged
      /\ AllRowsPass(Judged)' <=> AllRowsPass(Judged)
      /\ E!CanPass(counts)' <=> E!CanPass(counts)
  BY <1>1, PassingStays, HopeStays, Zenon
<1>6. /\ verdict' = "PASS" \/ certified' # None => AllRowsPass(Judged)'
      /\ certified' # None => certified' = Judged'
      /\ verdict' = "PASS" /\ stage' = "done" => certified' # None
  BY <1>1, <1>2, <1>3, <1>5, Zenon
<1>7. E!PassMeansAllRows'
  BY <1>6, Zenon DEF E!PassMeansAllRows, AllRowsPass, Judged
<1>8. stage' = "receipt" => verdict' = "PASS" /\ certified' = None /\ runner' # "candidate 5"
  <2>1. stage' = "receipt" => E!Status = "PASS" /\ certified = None
    BY <1>1
  <2>2. stage = "decide" => ~(E!Status = "PASS" /\ certified = None)
    BY <1>2, Zenon
  <2>3. stage = "decide" \/ runner # "candidate 5"
    BY <1>1, Zenon DEF Deciding
  <2> QED
    BY <1>1, <2>1, <2>2, <2>3, Zenon
<1>9. VerdictsFollow'
  <2>1. stage' # "evaluate" /\ stage' # "decide"
    BY <1>4
  <2>2. verdict' = "FAILED" => ~E!CanPass(counts)'
    BY <1>1, <1>2, <1>5, Zenon
  <2> QED
    BY <1>7, <1>8, <2>1, <2>2, Zenon DEF VerdictsFollow
<1>10. stage' # "evaluate" /\ stage' \in {"evaluate", "decide", "receipt", "done", "dead"}
       /\ verdict' \in {None, "PASS", "FAILED", "OPEN"}
  BY <1>4
<1> QED
  BY <1>1, <1>9, <1>10, DecidingKeeps, Zenon

LEMMA WriteReceiptKeeps == ASSUME EInv, E!WriteReceipt PROVE EInv'
<1>1. /\ stage = "receipt" /\ stage' = "done"
      /\ certified' = IF runner = "candidate 8" /\ ~E!ReceiptAllowed(counts, criteria) THEN certified ELSE counts
      /\ UNCHANGED <<runner, criteria, index, counts, kept, torn, ended, verdict>>
  BY Zenon DEF E!WriteReceipt
<1>2. /\ verdict = "PASS" /\ certified = None /\ runner # "candidate 5" /\ AllRowsPass(Judged)
      /\ runner \in Runner /\ criteria \in CriteriaOf[runner]
  BY <1>1, PassMeans, Zenon DEF EInv, VerdictsFollow, RunOfCases
<1>3. Judged = counts /\ counts \in E!Counts
  BY <1>2, JudgedIsCounted, Zenon DEF Judged, WellCounted
<1>4. runner = "candidate 8" => E!ReceiptAllowed(counts, criteria)
  <2>1. runner = "candidate 8" => E!Gate(counts, criteria)
    BY <1>2, <1>3, Zenon DEF AllRowsPass, E!Passing
  <2>2. criteria.passes \in Nat
    <3>1. runner \in Runner /\ criteria \in CriteriaOf[runner]
      BY <1>2, Zenon
    <3> QED
      BY <3>1, CriteriaAreNumbers
  <2>3. PICK c, t : c = counts /\ t = criteria
    OBVIOUS
  <2> QED
    BY <1>3, <2>1, <2>2, <2>3, ReceiptIsGate, Zenon
<1>5. certified' = counts /\ counts # None
  BY <1>1, <1>3, <1>4, SuitesAreSmall, Zenon
<1>6. /\ Judged' = Judged
      /\ AllRowsPass(Judged)' <=> AllRowsPass(Judged)
  BY <1>1, PassingStays, Zenon
<1>7. /\ verdict' = "PASS" \/ certified' # None => AllRowsPass(Judged)'
      /\ certified' # None => certified' = Judged'
      /\ verdict' = "PASS" /\ stage' = "done" => certified' # None
  BY <1>1, <1>2, <1>3, <1>5, <1>6, Zenon
<1>8. E!PassMeansAllRows'
  BY <1>7, Zenon DEF E!PassMeansAllRows, AllRowsPass, Judged
<1>9. VerdictsFollow'
  <2>1. verdict' = "PASS" /\ stage' = "done"
    BY <1>1, <1>2, Zenon
  <2>2. verdict' # "FAILED" /\ stage' \notin {"evaluate", "decide", "receipt"}
    BY <2>1
  <2> QED
    BY <1>8, <2>2, Zenon DEF VerdictsFollow
<1>10. stage' # "evaluate" /\ stage' \in {"evaluate", "decide", "receipt", "done", "dead"}
       /\ verdict' \in {None, "PASS", "FAILED", "OPEN"}
  <2>1. verdict' = "PASS" /\ stage' = "done"
    BY <1>1, <1>2, Zenon
  <2> QED
    BY <2>1
<1> QED
  BY <1>1, <1>9, <1>10, DecidingKeeps, Zenon

LEMMA CrashKeeps == ASSUME EInv, E!Crash PROVE EInv'
<1>1. /\ stage' = "dead"
      /\ UNCHANGED <<runner, criteria, index, counts, kept, torn, ended, verdict, certified>>
  BY DEF E!Crash
<1>2. /\ Judged' = Judged
      /\ AllRowsPass(Judged)' <=> AllRowsPass(Judged)
      /\ E!CanPass(counts)' <=> E!CanPass(counts)
  BY <1>1, PassingStays, HopeStays, Zenon
<1>3. stage' \notin {"evaluate", "decide", "receipt", "done"}
  BY <1>1
<1>4. /\ verdict = "PASS" \/ certified # None => AllRowsPass(Judged)
      /\ certified # None => certified = Judged
      /\ verdict = "FAILED" => ~E!CanPass(counts)
      /\ verdict \in {None, "PASS", "FAILED", "OPEN"}
  BY PassMeans, Zenon DEF EInv, VerdictsFollow, RunOfCases
<1>5. /\ verdict' = "PASS" \/ certified' # None => AllRowsPass(Judged)'
      /\ certified' # None => certified' = Judged'
      /\ verdict' = "PASS" /\ stage' = "done" => certified' # None
  BY <1>1, <1>2, <1>3, <1>4, Zenon
<1>6. E!PassMeansAllRows'
  BY <1>5, Zenon DEF E!PassMeansAllRows, AllRowsPass, Judged
<1>7. VerdictsFollow'
  BY <1>1, <1>2, <1>3, <1>4, <1>6, Zenon DEF VerdictsFollow
<1>8. stage' # "evaluate" /\ stage' \in {"evaluate", "decide", "receipt", "done", "dead"}
  BY <1>1
<1> QED
  BY <1>1, <1>4, <1>7, <1>8, DecidingKeeps, Zenon

LEMMA EvaluationInitInv == E!Init => EInv
<1> SUFFICES ASSUME E!Init PROVE EInv
  OBVIOUS
<1>1. /\ runner \in Runner /\ criteria \in CriteriaOf[runner] /\ index = 0
      /\ counts = E!NoRows(E!HowMany(runner, FALSE), E!HowMany(runner, TRUE)) /\ kept = counts
      /\ ended = "no" /\ stage = "evaluate" /\ verdict = None /\ certified = None
  BY Zenon DEF E!Init
<1>2. E!SuiteSize \in Nat
  BY <1>1, SuiteIsFinite
<1>3. RunOfCases
  <2>1. index \in 0..E!SuiteSize
    BY <1>1, <1>2
  <2>2. ended \in {"no", "eliminated", "limited", "stopped"}
        /\ stage \in {"evaluate", "decide", "receipt", "done", "dead"}
    BY <1>1
  <2> QED
    BY <1>1, <2>1, <2>2, Zenon DEF RunOfCases
<1>4. PICK c, f, g : c = counts /\ f = E!HowMany(runner, FALSE) /\ g = E!HowMany(runner, TRUE)
  OBVIOUS
<1>5. f \in Nat /\ g \in Nat
  <2>1. f = Many(runner, E!SuiteSize, FALSE) /\ g = Many(runner, E!SuiteSize, TRUE)
    BY <1>1, <1>4, AllAreCounted, Zenon
  <2>2. f \in 0..E!SuiteSize /\ g \in 0..E!SuiteSize
    BY <1>2, <2>1, ManyIsNat, Zenon
  <2> QED
    BY <1>2, <2>2
<1>6. c = [clear_total |-> f, ambiguous_total |-> g, clear |-> 0, ambiguous |-> 0,
           passes |-> 0, autonomous |-> 0, correct |-> 0, clarified |-> 0, unsafe |-> 0]
  BY <1>1, <1>4, Zenon DEF E!NoRows
<1>7. c \in E!Counts /\ E!Valid(c) /\ E!Processed(c) = 0 /\ c.clear = 0 /\ c.ambiguous = 0
      /\ c.clear_total = f /\ c.ambiguous_total = g /\ c.correct <= c.autonomous /\ c.autonomous <= c.clear + c.ambiguous
  BY <1>5, <1>6 DEF E!Counts, E!Valid, E!Processed
<1>8. Through = index
  BY <1>1, Zenon DEF Through
<1>9. OfTheSuite(c)
  BY <1>4, <1>7, Zenon DEF OfTheSuite
<1>10. RowsOfCases(c, 0)
  <2> DEFINE none == Many(runner, 0, FALSE)
             noOther == Many(runner, 0, TRUE)
  <2>1. none = 0 /\ noOther = 0
    BY NoneBefore, Zenon
  <2> HIDE DEF none, noOther
  <2>2. c.clear <= none /\ c.ambiguous <= noOther
    BY <1>7, <2>1
  <2> QED
    BY <1>7, <1>9, <2>2, Zenon DEF RowsOfCases, none, noOther
<1>11. RowsAreCounted
  <2>1. Through <= E!SuiteSize
    BY <1>1, <1>2, <1>8
  <2> QED
    BY <1>1, <1>4, <1>7, <1>8, <1>9, <1>10, <2>1, Zenon DEF RowsAreCounted
<1>12. GivingUpIsReasoned
  <2>1. ~(index > 0) /\ ended \notin {"eliminated", "limited", "stopped"}
    BY <1>1
  <2> QED
    BY <2>1, Zenon DEF GivingUpIsReasoned
<1>13. VerdictsFollow
  <2>1. None \notin {"PASS", "FAILED"}
    BY SuitesAreSmall, Zenon
  <2>2. stage \notin {"decide", "receipt"}
    BY <1>1
  <2> QED
    BY <1>1, <2>1, <2>2, Zenon DEF VerdictsFollow, E!PassMeansAllRows
<1> QED
  BY <1>3, <1>11, <1>12, <1>13 DEF EInv

LEMMA EvaluationRests == EInv /\ UNCHANGED E!vars => EInv'
<1> SUFFICES ASSUME EInv, UNCHANGED E!vars PROVE EInv'
  OBVIOUS
<1>1. UNCHANGED <<runner, criteria, index, counts, kept, ended, stage, verdict, certified>>
  BY Zenon DEF E!vars
<1>2. E!SuiteSize' = E!SuiteSize
  BY <1>1, SuiteStays, Zenon
<1>3. /\ Judged' = Judged
      /\ AllRowsPass(Judged)' <=> AllRowsPass(Judged)
      /\ E!CanPass(counts)' <=> E!CanPass(counts)
      /\ E!StillPossible(counts)' <=> E!StillPossible(counts)
  BY <1>1, PassingStays, HopeStays, Zenon
<1>4. RunOfCases'
  BY <1>1, <1>2, Zenon DEF EInv, RunOfCases
<1>5. RowsAreCounted'
  <2>1. PICK c, k, n : c = counts' /\ k = kept' /\ n = Through'
    OBVIOUS
  <2>2. Through' = Through
    BY <1>1, Zenon DEF Through
  <2>3. n <= E!SuiteSize /\ RowsOfCases(c, n) /\ OfTheSuite(k) /\ ValidAt(c, index')
    BY <1>1, <2>1, <2>2, Zenon DEF EInv, RowsAreCounted, ValidAt
  <2> QED
    BY <1>1, <2>1, <2>3, NextRowsAreCounted, Zenon
<1>6. GivingUpIsReasoned'
  BY <1>1, <1>3, Zenon DEF EInv, GivingUpIsReasoned
<1>7. E!PassMeansAllRows'
  <2>1. /\ verdict' = "PASS" \/ certified' # None => AllRowsPass(Judged)'
        /\ certified' # None => certified' = Judged'
        /\ verdict' = "PASS" /\ stage' = "done" => certified' # None
    BY <1>1, <1>3, PassMeans, Zenon DEF EInv, VerdictsFollow
  <2> QED
    BY <2>1, Zenon DEF E!PassMeansAllRows, AllRowsPass, Judged
<1>8. VerdictsFollow'
  BY <1>1, <1>3, <1>7, Zenon DEF EInv, VerdictsFollow
<1> QED
  BY <1>4, <1>5, <1>6, <1>8 DEF EInv

LEMMA EvaluationInvariance == EInv /\ [E!Next]_(E!vars) => EInv'
BY ScoreKeeps, PutOffKeeps, TimeOutKeeps, ProcessFailsKeeps, AggregateKeeps, DecideKeeps, WriteReceiptKeeps,
   CrashKeeps, EvaluationRests, Zenon DEF E!Next

OfEvaluation == part = "evaluation" => EInv

LEMMA EvaluationStaysEarned == MCSpec => []OfEvaluation
<1>1. MCInit => OfEvaluation
  BY EvaluationInitInv, Zenon DEF MCInit, OfEvaluation
<1>2. OfEvaluation /\ [MCNext]_<<part, sample, vars, finalVars, evalVars, shardVars>> => OfEvaluation'
  <2> SUFFICES ASSUME OfEvaluation, [MCNext]_<<part, sample, vars, finalVars, evalVars, shardVars>>,
                      part' = "evaluation"
               PROVE  EInv'
    BY DEF OfEvaluation
  <2>1. part = "evaluation"
    BY DEF MCNext
  <2>2. [E!Next]_(E!vars)
    BY <2>1 DEF MCNext, evalVars, E!vars
  <2> QED
    BY <2>1, <2>2, EvaluationInvariance DEF OfEvaluation
<1> QED
  BY <1>1, <1>2, PTL DEF MCSpec

(* A candidate is given up only when no result of the rest could have made *)
(* it pass, a pass and a receipt stand for a row of every case, and no row *)
(* that was scored is replaced on the way to a receipt (the runners of     *)
(* checkpoint_a_*.py, qualification.py).                                   *)
THEOREM VerdictsStayEarned == MCSpec => []VerdictsAreEarned
<1>1. (part = "evaluation" => EInv) /\ S!TypeOK /\ S!ScoredRowsStay /\ S!ReceiptIsUnanimous => VerdictsAreEarned
  BY EInvMeans, Zenon DEF VerdictsAreEarned
<1>2. OfEvaluation => (part = "evaluation" => EInv)
  BY DEF OfEvaluation
<1> QED
  BY <1>1, <1>2, EvaluationStaysEarned, ShardsStayEarned, PTL
===============================================================================
