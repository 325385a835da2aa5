----------------------------- MODULE Finalization -----------------------------
(***************************************************************************)
(* src/scripts/checkpoint_b8_finalize.py: the finalizer reads the retained *)
(* files of a B8 run one after another, while their owners may still be    *)
(* replacing them and the webhook receiver may still be appending to its   *)
(* audit log, checks that they belong together, and writes two files once: *)
(* the provider manifest and the receipt that names it.  It may die at any *)
(* point and is run again.                                                 *)
(*                                                                         *)
(* A file holds one of a few contents, named by a Version; Holds says what *)
(* each content says.  A digest is the thing it is taken of: a manifest is *)
(* the versions that were read, and a receipt holds its manifest.  The     *)
(* audit log is a sequence of the events it confirms, and what is read of  *)
(* it is a length; its chain is the matter of Audit.  Every run has its    *)
(* own clock.                                                              *)
(***************************************************************************)
EXTENDS Integers, Sequences

CONSTANTS
  Finalizer,      \* runs of the script, each of them repeated after a failure
  Version,        \* contents a file may have
  Holds,          \* Holds[file][version]: what it says
  Confirmed,      \* the events the log may confirm
  MaxRecords,     \* bound on the length of the log
  Batches,        \* bound: the sets of files that may be replaced in one behaviour
  Clock,          \* Clock[p]: the times at which the run p may begin
  MaxFaults,      \* bound on crashes and failed writes
  None

File == {"preflight", "order", "handoff", "lifecycle", "webhooks", "a", "safety",
         "durability", "certificate", "manual", "hook"}

(* The reads in the order of the code.  The preflight receipt is read      *)
(* twice, by _read_json and load_preflight_receipt; the log three times,   *)
(* for its digest, its head and its events.                                *)
Reads == << "preflight", "preflight again", "order", "handoff", "lifecycle", "webhooks",
            "a", "safety", "durability", "certificate", "manual", "hook",
            "log", "log head", "log events" >>
Stages == Reads \o <<"manifest", "receipt", "finalized">>

Slots == {Reads[i] : i \in DOMAIN Reads}
LogReads == {"log", "log head", "log events"}
(* What the manifest keeps: the digest of every file and the head of the   *)
(* log, but not what the second reading of the preflight and the third of  *)
(* the log saw.                                                            *)
Kept == Slots \ {"preflight again", "log events"}
FileOf(slot) == IF slot = "preflight again" THEN "preflight" ELSE slot

VARIABLES
  disk,           \* the version each file has
  log,            \* the audit log
  manifest,       \* the provider manifest, or None
  receipt,        \* the receipt of Checkpoint B, or None
  pc,             \* each finalizer: its stage, idle before and after a failure
  read,           \*   what it has read
  observed,       \*   the time its receipt will carry
  faults

vars == <<disk, log, manifest, receipt, pc, read, observed, faults>>
outside == <<disk, log>>

FinalizationAssumption ==
  /\ {1, 2} \subseteq Version /\ \A f \in File : DOMAIN Holds[f] = Version
  /\ \A v \in Version : {"revision", "run", "attempt"} \subseteq DOMAIN Holds["preflight"][v]
  /\ Batches \subseteq SUBSET File /\ MaxRecords \in Nat \ {0} /\ MaxFaults \in Nat
  /\ \A p \in Finalizer : Clock[p] \subseteq Nat \ {0}
  /\ None \notin [Kept -> Nat] \cup [time : Nat, manifest : [Kept -> Nat]]

Nothing == [slot \in Slots |-> 0]
After(stage) == Stages[1 + CHOOSE i \in DOMAIN Stages : Stages[i] = stage]

Init ==
  /\ disk = [f \in File |-> 1] /\ log = <<Holds["webhooks"][1].captured.event>>
  /\ manifest = None /\ receipt = None
  /\ pc = [p \in Finalizer |-> "idle"] /\ read = [p \in Finalizer |-> Nothing]
  /\ observed = [p \in Finalizer |-> 0] /\ faults = 0

-------------------------------------------------------------------------------
(* What a single file must say to be loaded (the models of the script and  *)
(* of the receipts; load_preflight_receipt).                               *)

RequiredGroups == {"CHECKPOINT_B", "DURABLE_STATE", "RAZORPAY_ADAPTER", "WEBHOOK_INGESTION", "WORKFLOW_SECURITY"}
RequiredScenarios == {"COMMITMENT_RESTART_REPLAY", "CROSS_PROCESS_IDEMPOTENCY", "HANDOFF_EXPIRY_RECONCILIATION",
                      "PAYMENT_RESTART_REPLAY", "PENDING_REFUND_RETRY", "WEBHOOK_EVENT_DEDUPLICATION"}

OrderBoundary(o) ==
  /\ o.amount = 100 /\ o.currency = "INR"
  /\ o.creates = 1 /\ o.mutations = 0       \* POSTs to /orders and elsewhere
  /\ o.order_gets >= 2 /\ o.payment_gets = 1

SafetyPassed(s) == s.passed = s.collected /\ s.failed + s.errors = 0 /\ s.groups = RequiredGroups
DurabilityPassed(d) == d.failed = {} /\ d.completed = RequiredScenarios
KeyIsAbsent(c) == c.retained = {}

ManualCapture(m) == m.mode = "MANUAL" /\ m.timeout = 259200 /\ m.action = "NORMAL_REFUND"
WebhookEnabled(h) == h.scheme = "HTTPS" /\ h.state = "ENABLED" /\ h.events = <<"payment.captured", "refund.processed">>

WebhookSet(w) == w.captured.transaction = w.transaction /\ w.refunded.transaction = w.transaction
                 /\ w.captured.payment = w.refunded.payment /\ w.captured.order = w.refunded.order
                 /\ w.captured.event # w.refunded.event

-------------------------------------------------------------------------------
(* What the files must say of one another; v maps each file to what was    *)
(* read of it, and v["preflight again"] is the verified preflight.         *)

OneRevision(v) ==
  /\ \A f \in {"order", "a", "safety", "durability", "certificate", "manual", "hook"} :
       v[f].revision = v["preflight again"].revision
  /\ v["a"].mode = "FROZEN_AGGREGATE"
  /\ v["order"].preflight = v["preflight again"]

HandoffMatches(o, h) ==
  /\ h.transaction = o.transaction /\ h.order = o.order
  /\ o.handoff = h.digest /\ o.expires = h.expires

LifecycleMatches(h, l) ==
  /\ l.handoff = h.digest /\ l.transaction = h.transaction /\ l.order = h.order
  /\ l.refund_state = "REFUNDED" /\ l.stage = "COMPENSATED" /\ l.in_sync
  /\ l.backend = "SQLITE_WAL_FULL_SYNC"

(* A bug the properties must notice: the refund is not compared.           *)
WebhooksMatchPayment(h, l, w) ==
  /\ w.transaction = h.transaction
  /\ \A event \in {w.captured, w.refunded} : event.order = l.order /\ event.payment = l.payment

WebhooksMatch(h, l, w) ==
  /\ w.transaction = h.transaction
  /\ \A event \in {w.captured, w.refunded} : event.order = l.order /\ event.payment = l.payment
  /\ w.refunded.refund = l.refund

ConfigurationMatches(v, time) ==
  LET captured == v["webhooks"].captured.at
      refunded == v["webhooks"].refunded.at
  IN  /\ v["manual"].account = v["hook"].account /\ v["manual"].account = v["handoff"].account
      /\ v["manual"].artifact # v["hook"].artifact
      /\ v["manual"].at <= captured
      /\ v["hook"].at <= captured /\ v["hook"].at <= refunded
      /\ v["manual"].at <= time /\ v["hook"].at <= time

BelongTogether(v, time) ==
  /\ OneRevision(v)
  /\ HandoffMatches(v["order"], v["handoff"])
  /\ LifecycleMatches(v["handoff"], v["lifecycle"])
  /\ WebhooksMatch(v["handoff"], v["lifecycle"], v["webhooks"])
  /\ ConfigurationMatches(v, time)

-------------------------------------------------------------------------------
(* The world around the finalizer.                                         *)

Replace(f) ==
  /\ disk[f] = 1 /\ \E b \in Batches : {g \in File : disk[g] # 1} \cup {f} \subseteq b
  /\ disk' = [disk EXCEPT ![f] = 2]
  /\ UNCHANGED <<log, manifest, receipt, pc, read, observed, faults>>

Record(event) ==
  /\ Len(log) < MaxRecords
  /\ log' = Append(log, event)
  /\ UNCHANGED <<disk, manifest, receipt, pc, read, observed, faults>>

-------------------------------------------------------------------------------
(* One run of finalize_b8.                                                 *)

Sees(slot) == IF slot \in LogReads THEN Len(log) ELSE disk[FileOf(slot)]
Content(r) == [slot \in Slots \ LogReads |-> Holds[FileOf(slot)][r[slot]]]
Events(length) == {log[i] : i \in 1..length}
EventsOf(set) == {set.captured.event, set.refunded.event}

SamePreflight(first, again) == [first EXCEPT !.attempt = 0] = [again EXCEPT !.attempt = 0]

(* What must hold after a read for the run to go on; the files are checked *)
(* against one another after the last of them.                             *)
Accepts(slot, r, time) ==
  LET c == IF slot \in LogReads THEN None ELSE Holds[FileOf(slot)][r[slot]]
  IN  CASE slot = "preflight again" -> SamePreflight(Holds["preflight"][r["preflight"]], c)
        [] slot = "order"       -> OrderBoundary(c)
        [] slot = "webhooks"    -> WebhookSet(c)
        [] slot = "safety"      -> SafetyPassed(c)
        [] slot = "durability"  -> DurabilityPassed(c)
        [] slot = "certificate" -> KeyIsAbsent(c)
        [] slot = "manual"      -> ManualCapture(c)
        [] slot = "hook"        -> WebhookEnabled(c) /\ BelongTogether(Content(r), time)
        [] slot = "log head"    -> r[slot] >= 2
        [] slot = "log events"  -> EventsOf(Holds["webhooks"][r["webhooks"]]) \subseteq Events(r[slot])
        [] OTHER -> TRUE

(* The run fails, and can be repeated.                                     *)
Stop(p) ==
  /\ pc' = [pc EXCEPT ![p] = "idle"]
  /\ read' = [read EXCEPT ![p] = Nothing]
  /\ observed' = [observed EXCEPT ![p] = 0]

(* A bug the properties must notice: a repeated run stamps its own time on *)
(* the receipt it would have to reproduce.                                 *)
BeginAnew(p) ==
  /\ pc[p] = "idle"
  /\ \E time \in Clock[p] : observed' = [observed EXCEPT ![p] = time]
  /\ read' = [read EXCEPT ![p] = Nothing] /\ pc' = [pc EXCEPT ![p] = Reads[1]]
  /\ UNCHANGED <<outside, manifest, receipt, faults>>

Begin(p) ==
  /\ pc[p] = "idle"
  /\ \E time \in Clock[p] : observed' = [observed EXCEPT ![p] = IF receipt = None THEN time ELSE receipt.time]
  /\ read' = [read EXCEPT ![p] = Nothing] /\ pc' = [pc EXCEPT ![p] = Reads[1]]
  /\ UNCHANGED <<outside, manifest, receipt, faults>>

Read(p) ==
  /\ pc[p] \in Slots
  /\ LET r == [read[p] EXCEPT ![pc[p]] = Sees(pc[p])]
     IN  IF Accepts(pc[p], r, observed[p])
           THEN /\ read' = [read EXCEPT ![p] = r]
                /\ pc' = [pc EXCEPT ![p] = After(@)]
                /\ UNCHANGED observed
           ELSE Stop(p)
  /\ UNCHANGED <<outside, manifest, receipt, faults>>

(* The receipt keeps its time and the digest of the manifest.              *)
ManifestOf(p) == [slot \in Kept |-> read[p][slot]]
ReceiptOf(p) == [time |-> observed[p], manifest |-> ManifestOf(p)]

(* _write_or_verify: the file is linked from a whole temporary one if it   *)
(* is not there, and otherwise must be what this run would have written.   *)
(* The look before the link decides nothing that the link does not.        *)
WriteOrVerify(p, file, mine) ==
  /\ IF file \in {None, mine}
       THEN pc' = [pc EXCEPT ![p] = After(@)] /\ UNCHANGED <<read, observed>>
       ELSE Stop(p)
  /\ UNCHANGED <<outside, faults>>

(* A bug the properties must notice: the manifest of another run is        *)
(* replaced.                                                               *)
PublishManifestOver(p) ==
  /\ pc[p] = "manifest"
  /\ manifest' = ManifestOf(p)
  /\ WriteOrVerify(p, None, ManifestOf(p)) /\ UNCHANGED receipt

PublishManifest(p) ==
  /\ pc[p] = "manifest"
  /\ manifest' = IF manifest = None THEN ManifestOf(p) ELSE manifest
  /\ WriteOrVerify(p, manifest, ManifestOf(p)) /\ UNCHANGED receipt

PublishReceipt(p) ==
  /\ pc[p] = "receipt"
  /\ receipt' = IF receipt = None THEN ReceiptOf(p) ELSE receipt
  /\ WriteOrVerify(p, receipt, ReceiptOf(p)) /\ UNCHANGED manifest

(* The process dies, or a write fails; a temporary file may stay behind.   *)
(* One that dies while it reads leaves as little as one begun later.       *)
Crash(p) ==
  /\ pc[p] \in {"manifest", "receipt"} /\ faults < MaxFaults
  /\ Stop(p) /\ faults' = faults + 1
  /\ UNCHANGED <<outside, manifest, receipt>>

Step(p) == Begin(p) \/ Read(p) \/ PublishManifest(p) \/ PublishReceipt(p)

Environment ==
  \/ \E f \in File : Replace(f)
  \/ \E event \in Confirmed : Record(event)

Next == Environment \/ \E p \in Finalizer : Step(p) \/ Crash(p)

(* A run goes on, and a failed one is repeated; nobody has to replace a    *)
(* file or append to the log.                                              *)
Fairness == \A p \in Finalizer : WF_vars(Step(p))

Spec == Init /\ [][Next]_vars /\ Fairness

-------------------------------------------------------------------------------
TypeOK ==
  /\ disk \in [File -> {1, 2}] /\ Len(log) \in 1..MaxRecords
  /\ \A p \in Finalizer : observed[p] \in {0} \cup UNION {Clock[q] : q \in Finalizer}
  /\ faults \in 0..MaxFaults
  /\ pc \in [Finalizer -> {Stages[i] : i \in DOMAIN Stages} \cup {"idle"}]
  /\ \A p \in Finalizer : DOMAIN read[p] = Slots

(* Whatever is replaced between two reads, and whichever of several runs   *)
(* wrote which file, a receipt on disk names the manifest beside it, and   *)
(* the files named there are those of one lifecycle of one revision: the   *)
(* same order, payment and refund in handoff, lifecycle and webhook set,   *)
(* both events confirmed by the log, and manual capture configured before  *)
(* the capture (finalize_b8).                                              *)
ReceiptIsEarned ==
  receipt # None =>
    /\ manifest = receipt.manifest
    /\ LET Held(f) == Holds[f][manifest[f]]
           w == Held("webhooks")
       IN  /\ \A f \in File \ {"handoff", "lifecycle", "webhooks"} :
                 Held(f).revision = Held("preflight").revision
           /\ Held("order").order = Held("handoff").order
           /\ Held("lifecycle").handoff = Held("order").handoff
           /\ w.captured.payment = Held("lifecycle").payment
           /\ w.refunded.refund = Held("lifecycle").refund
           /\ w.captured.order = Held("order").order
           /\ Held("manual").at <= w.captured.at
           /\ Held("order").preflight.run = Held("preflight").run
    /\ EventsOf(Holds["webhooks"][manifest["webhooks"]]) \subseteq Events(Len(log))
    /\ manifest["log"] <= manifest["log head"]

OutputsKept ==
  /\ manifest # None => manifest' = manifest
  /\ receipt # None => receipt' = receipt
  /\ \A p \in Finalizer : pc'[p] = "finalized" => receipt' = ReceiptOf(p)

(* Neither file is changed or removed once it is there, and a run that     *)
(* reports success reports the receipt on disk, also when it only          *)
(* reproduced it (_write_or_verify).                                       *)
OutputsStay == [][OutputsKept]_vars

(* Once both events are recorded, and while no file is touched and the log *)
(* does not grow, every run ends in success when it is repeated, whichever *)
(* of them died between the manifest and the receipt: the later ones write *)
(* the same bytes ("can recover if a prior process stopped between its two *)
(* outputs", docs/REPRODUCIBILITY.md:298).                                 *)
Untouched == \A f \in File : disk[f] = 1
Settled ==
  /\ Untouched /\ Len(log) = MaxRecords /\ EventsOf(Holds["webhooks"][1]) \subseteq Events(MaxRecords)
  /\ manifest = None /\ \A p \in Finalizer : pc[p] = "idle"

InterruptedRunsRecover ==
  Settled ~> (\A p \in Finalizer : pc[p] = "finalized") \/ ~Untouched
===============================================================================
