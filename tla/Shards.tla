--------------------------------- MODULE Shards ---------------------------------
(***************************************************************************)
(* The resumable evaluation of Checkpoint A: checkpoint_a_shard.py scores  *)
(* a range of the frozen cases and writes what it has to its output after  *)
(* every case; a later attempt resumes from the outputs of earlier ones;   *)
(* checkpoint_a_aggregate.py puts outputs together and writes a receipt    *)
(* (src/scripts).                                                          *)
(*                                                                         *)
(* An output is written in place, so that a process that dies in the write *)
(* leaves a torn file.  Attempts may run at the same time, each with an    *)
(* output of its own, and an attempt may be run again on its output.  A    *)
(* row passes or fails; the other thresholds are those of Qualification.   *)
(***************************************************************************)
EXTENDS Naturals, FiniteSets

CONSTANTS
  Attempt,
  LastCase,     \* the frozen suite is 1..LastCase
  ShardOf,      \* ShardOf[a]: the cases of --start to --end
  Manifest,     \* what build_manifest may come to: source, model, prompts
  MinPasses,
  None

ShardsAssumption ==
  /\ LastCase \in Nat /\ MinPasses \in Nat
  /\ ShardOf \in [Attempt -> SUBSET (1..LastCase)]

VARIABLES
  pc,           \* where the process of the attempt is
  manifest,     \* the manifest it built
  rows,         \* the rows it holds
  file,         \* its output: None, or whether it is whole, its rows, its manifest
  receipt,
  origin,       \* history: the rows it resumed from, and theirs
  lineage       \* history: every row that went into the output

vars == <<pc, manifest, rows, file, receipt, origin, lineage>>

Init ==
  /\ pc = [a \in Attempt |-> "idle"] /\ manifest = [a \in Attempt |-> None]
  /\ rows = [a \in Attempt |-> {}] /\ file = [a \in Attempt |-> None]
  /\ receipt = None
  /\ origin = [a \in Attempt |-> {}] /\ lineage = [a \in Attempt |-> {}]

Idle(a) == pc[a] \in {"idle", "done", "deferred", "dead"}
Row(c, passed) == [case |-> c, passed |-> passed]
CasesOf(R) == {r.case : r \in R}
Conflicting(R) == \E r, s \in R : r.case = s.case /\ r # s
(* by_id: every case of all keeps one row. *)
OnePerCase(R, all) == R \subseteq all /\ CasesOf(R) = CasesOf(all) /\ ~Conflicting(R)
Signed(R, m) == {[row |-> r, manifest |-> m] : r \in R}

Artifacts == {a \in Attempt : Idle(a) /\ file[a] # None}
RowsIn(S) == UNION {file[b].rows : b \in S}
LineageOf(S) == UNION {lineage[b] : b \in S}

-------------------------------------------------------------------------------
(* checkpoint_a_shard.py                                                   *)

(* A bug the properties must notice: the first row of a case is taken.     *)
ReadableFirstWins(a, S, m) ==
  \A b \in S : file[b].whole /\ file[b].manifest = m /\ CasesOf(file[b].rows) \subseteq ShardOf[a]

(* A bug the properties must notice: rows of another manifest are taken.   *)
ReadableAnyManifest(a, S, m) ==
  /\ \A b \in S : file[b].whole /\ CasesOf(file[b].rows) \subseteq ShardOf[a]
  /\ ~Conflicting(RowsIn(S))

(* _load_resume: every artifact is whole, of this manifest and of cases of *)
(* this shard, and no two disagree.                                        *)
Readable(a, S, m) ==
  /\ \A b \in S : file[b].whole /\ file[b].manifest = m /\ CasesOf(file[b].rows) \subseteq ShardOf[a]
  /\ ~Conflicting(RowsIn(S))

(* The process starts, maybe from artifacts; where they are refused it     *)
(* ends with nothing changed.                                              *)
Start(a) ==
  /\ Idle(a)
  /\ \E S \in SUBSET Artifacts, m \in Manifest :
       /\ Readable(a, S, m)
       /\ manifest' = [manifest EXCEPT ![a] = m]
       /\ \E R \in SUBSET RowsIn(S) : OnePerCase(R, RowsIn(S)) /\ rows' = [rows EXCEPT ![a] = R]
       /\ origin' = [origin EXCEPT ![a] = LineageOf(S)]
  /\ pc' = [pc EXCEPT ![a] = "save"]
  /\ UNCHANGED <<file, receipt, lineage>>

(* _write_partial empties the output first ... *)
Open(a) ==
  /\ pc[a] \in {"save", "defer"}
  /\ file' = [file EXCEPT ![a] = [whole |-> FALSE, rows |-> {}, manifest |-> None]]
  /\ pc' = [pc EXCEPT ![a] = IF @ = "save" THEN "saving" ELSE "deferring"]
  /\ UNCHANGED <<manifest, rows, receipt, origin, lineage>>

Left(a) == ShardOf[a] \ CasesOf(rows[a])

(* ... and writes the rows; a deferral ends the process with exit code 75. *)
Write(a) ==
  /\ pc[a] \in {"saving", "deferring"}
  /\ file' = [file EXCEPT ![a] = [whole |-> TRUE, rows |-> rows[a], manifest |-> manifest[a]]]
  /\ lineage' = [lineage EXCEPT ![a] = origin[a] \cup Signed(rows[a], manifest[a])]
  /\ pc' = [pc EXCEPT ![a] = IF @ = "deferring" THEN "deferred"
                             ELSE IF Left(a) = {} THEN "done" ELSE "evaluate"]
  /\ UNCHANGED <<manifest, rows, receipt, origin>>

(* A bug the properties must notice: a resumed case is evaluated again.    *)
EvaluateAnew(a) ==
  /\ pc[a] = "evaluate"
  /\ \E c \in ShardOf[a], passed \in BOOLEAN :
       /\ c \in Left(a) \/ Row(c, TRUE) \notin rows[a]
       /\ rows' = [rows EXCEPT ![a] = {r \in @ : r.case # c} \cup {Row(c, passed)}]
  /\ pc' = [pc EXCEPT ![a] = "save"]
  /\ UNCHANGED <<manifest, file, receipt, origin, lineage>>

(* The next case that has no row is evaluated and bound to the manifest. *)
Evaluate(a) ==
  /\ pc[a] = "evaluate"
  /\ \E c \in Left(a), passed \in BOOLEAN :
       /\ \A d \in Left(a) : c <= d
       /\ rows' = [rows EXCEPT ![a] = @ \cup {Row(c, passed)}]
  /\ pc' = [pc EXCEPT ![a] = "save"]
  /\ UNCHANGED <<manifest, file, receipt, origin, lineage>>

(* The provider is out of quota or down: no row. *)
Defer(a) ==
  /\ pc[a] = "evaluate"
  /\ pc' = [pc EXCEPT ![a] = "defer"]
  /\ UNCHANGED <<manifest, rows, file, receipt, origin, lineage>>

Crash(a) ==
  /\ ~Idle(a)
  /\ pc' = [pc EXCEPT ![a] = "dead"]
  /\ manifest' = [manifest EXCEPT ![a] = None] /\ rows' = [rows EXCEPT ![a] = {}]
  /\ origin' = [origin EXCEPT ![a] = {}]
  /\ UNCHANGED <<file, receipt, lineage>>

-------------------------------------------------------------------------------
(* checkpoint_a_aggregate.py: main                                         *)

(* A bug the properties must notice: the last row of a case is taken.      *)
AgreeOnManifest(S) == \A a, b \in S : file[a].whole /\ file[a].manifest = file[b].manifest

Agree(S) ==
  /\ \A a, b \in S : file[a].whole /\ file[a].manifest = file[b].manifest
  /\ ~Conflicting(RowsIn(S))

Passes(R) == CasesOf(R) = 1..LastCase /\ Cardinality({r \in R : r.passed}) >= MinPasses

Aggregate ==
  /\ \E S \in SUBSET Artifacts, R \in SUBSET RowsIn(Artifacts) :
       /\ S # {} /\ Agree(S)
       /\ OnePerCase(R, RowsIn(S)) /\ Passes(R)
       /\ receipt' = [rows |-> R, manifests |-> {file[a].manifest : a \in S}, lineage |-> LineageOf(S)]
  /\ UNCHANGED <<pc, manifest, rows, file, origin, lineage>>

Step(a) == Start(a) \/ Open(a) \/ Write(a) \/ Evaluate(a) \/ Defer(a) \/ Crash(a)

(* The model ends with the first receipt. *)
Next == receipt = None /\ ((\E a \in Attempt : Step(a)) \/ Aggregate)

Spec == Init /\ [][Next]_vars

-------------------------------------------------------------------------------
TypeOK ==
  /\ pc \in [Attempt -> {"idle", "save", "saving", "evaluate", "defer", "deferring", "done", "deferred", "dead"}]
  /\ manifest \in [Attempt -> Manifest \cup {None}]
  /\ \A a \in Attempt : ~Conflicting(rows[a]) /\ CasesOf(rows[a]) \subseteq ShardOf[a]

(* A row that a whole artifact held is never scored again by a process     *)
(* that resumes from it, however often processes die in between and resume *)
(* from one another, and a process that ends of itself leaves its rows in  *)
(* a whole output, of every case of its shard unless it was deferred       *)
(* (checkpoint_a_shard.py, "resumable").                                   *)
ScoredRowsStay ==
  \A a \in Attempt :
    /\ ~Idle(a) => origin[a] \subseteq Signed(rows[a], manifest[a])
    /\ pc[a] \in {"done", "deferred"} =>
         file[a].whole /\ file[a].rows = rows[a] /\ file[a].manifest = manifest[a]
    /\ pc[a] = "done" => CasesOf(rows[a]) = ShardOf[a]

(* The rows of a receipt are those of every artifact it was made from and  *)
(* of every artifact these were resumed from, all of one manifest: no      *)
(* unfavourable row was replaced on the way ("conflicting duplicate rows", *)
(* checkpoint_a_aggregate.py:113).                                         *)
ReceiptIsUnanimous ==
  receipt # None =>
    /\ Passes(receipt.rows)
    /\ \A m \in receipt.manifests : receipt.lineage = Signed(receipt.rows, m)
===============================================================================
