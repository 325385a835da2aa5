------------------------------- MODULE Lifecycle -------------------------------
(***************************************************************************)
(* The compensated payment lifecycle of one prepared operation:            *)
(* RazorpayPreparedTestExecutionAdapter.execute (execution.py), which runs *)
(* complete_test_lifecycle (razorpay_checkout.py), which calls reserve,    *)
(* capture and refund of RazorpayTestPaymentAdapter (razorpay.py), the     *)
(* engine of commitment.py and CompensationCoordinator.compensate          *)
(* (reconciliation.py), over the shared SQLite stores of durable.py.       *)
(*                                                                         *)
(* A worker is one caller that requests the execution, again and again,    *)
(* in its own process.  What the workers share is durable: the rows of the *)
(* ledger, the PaymentSnapshot and the commitment.  A compare_and_set is   *)
(* one step here (Commitment has its two transactions), and a lease is     *)
(* live or lapsed (IdempotencyLedger has its clock).  Every stage is       *)
(* reached by one event, so stage, proposal time and time of the last      *)
(* transition stand for the stored history.                                *)
(*                                                                         *)
(* The payment provider is external: it is modelled from the statuses the  *)
(* adapter asks for and accepts.                                           *)
(***************************************************************************)
EXTENDS Naturals

CONSTANTS
  Worker,         \* concurrent callers of execute
  MaxTime,        \* bound of the clock
  CertTTL,        \* life of a capture certificate
  HandoffExpiry,  \* expires_at of the prepared handoff
  Faults,         \* how many crashes and lost calls may happen
  Gone            \* owner of the rows a dead process left behind

ASSUME TimeAssumption  == MaxTime \in Nat /\ CertTTL \in Nat /\ HandoffExpiry \in Nat
ASSUME FaultAssumption == Faults \in Nat
ASSUME GoneAssumption  == Gone \notin Worker

VARIABLES
  clock,       \* wall clock, as coarse as the certificate's life
  provider,    \* status of the payment at the provider
  refund,      \* status of its full refund at the provider
  late,        \* requests a worker gave up on that may still arrive
  payment,     \* state of the durable PaymentSnapshot
  commitment,  \* the durable commitment
  row,         \* ledger rows of the execution and of its three operations
  pc, now,     \* where each worker stands; the time its execution uses
  held,        \* each worker's copy of the commitment
  reply,       \* the refund status a worker was told
  faults       \* faults that may still happen

world  == <<clock, provider, refund, late, faults>>
stored == <<payment, commitment, row>>
local  == <<pc, now, held, reply>>
vars   == <<world, stored, local>>

Operation == {"EXECUTION", "RESERVE", "CAPTURE", "REFUND"}
Inner     == Operation \ {"EXECUTION"}

(* PaymentState and CommitmentStage in the order the lifecycle reaches them. *)
PaymentRank == [NONE |-> 0, RESERVED |-> 1, CAPTURED |-> 2, REFUND_PENDING |-> 3, REFUNDED |-> 4]
StageRank   == [ABSENT |-> 0, PROPOSED |-> 1, AUTHORIZED |-> 2, RESERVED |-> 3,
                CAPTURE_ALLOWED |-> 4, CAPTURED |-> 5, COMPENSATION_PENDING |-> 6,
                COMPENSATED |-> 7]
Payment  == DOMAIN PaymentRank
Stage    == DOMAIN StageRank
Captured == {"CAPTURED", "REFUND_PENDING", "REFUNDED"}

Reached(s, stage) == StageRank[s] >= StageRank[stage]
After(s) == CHOOSE t \in Stage : StageRank[t] = StageRank[s] + 1

Commitment == [stage: Stage, proposedAt: 0 .. MaxTime, last: 0 .. MaxTime]
Absent     == [stage |-> "ABSENT", proposedAt |-> 0, last |-> 0]
NoRow      == [status |-> "ABSENT", owner |-> Gone, lapsed |-> FALSE]

Owns(w, r)   == row[r].status = "PENDING" /\ row[r].owner = w
Claimable(r) == row[r].status = "ABSENT" \/ (row[r].status = "PENDING" /\ row[r].lapsed)

(* verify() and hold_snapshot_current: issued at the proposal, the         *)
(* certificate ends before the evidence does.                              *)
CertificateValid(w) ==
  /\ held[w].proposedAt <= now[w]
  /\ now[w] < held[w].proposedAt + CertTTL

Init ==
  /\ clock = 0 /\ provider = "authorized" /\ refund = "none" /\ late = {} /\ faults = Faults
  /\ payment = "NONE" /\ commitment = Absent /\ row = [r \in Operation |-> NoRow]
  /\ pc = [w \in Worker |-> "idle"]
  /\ now = [w \in Worker |-> 0]
  /\ held = [w \in Worker |-> Absent]
  /\ reply = [w \in Worker |-> "none"]

-------------------------------------------------------------------------------
(* What the steps are made of. *)

At(w, here)   == pc[w] = here
Goto(w, next) == pc' = [pc EXCEPT ![w] = next]

(* The variables of the operation go out of scope. *)
Forget(w) ==
  /\ now' = [now EXCEPT ![w] = 0]
  /\ held' = [held EXCEPT ![w] = Absent]
  /\ reply' = [reply EXCEPT ![w] = "none"]

(* A worker's step that changes only its place, read from shared state. *)
Look(w, here, next) ==
  /\ At(w, here)
  /\ Goto(w, next)
  /\ UNCHANGED <<world, stored, now, held, reply>>

(* _claim: insert the row, take over a lapsed one, or replay its result. *)
Claim(w, r, here, enter, replayed) ==
  /\ At(w, here)
  /\ \/ /\ Claimable(r)
        /\ row' = [row EXCEPT ![r] = [status |-> "PENDING", owner |-> w, lapsed |-> FALSE]]
        /\ Goto(w, enter)
     \/ /\ row[r].status = "COMPLETED"
        /\ Goto(w, replayed)
        /\ UNCHANGED row
  /\ UNCHANGED <<world, payment, commitment, now, held, reply>>

(* The end of the ledger's execute: complete the row, unless it was lost. *)
CompleteRow(w, r, here, next) ==
  /\ At(w, here)
  /\ IF Owns(w, r)
     THEN /\ row' = [row EXCEPT ![r] = [NoRow EXCEPT !.status = "COMPLETED"]]
          /\ Goto(w, next)
     ELSE Goto(w, "failing") /\ UNCHANGED row
  /\ UNCHANGED <<world, payment, commitment>>

(* A bug the properties must notice: the snapshot is written unconditionally. *)
StoreBlindly(w, here, expected, updated, next) ==
  /\ At(w, here) /\ payment' = updated /\ Goto(w, next)
  /\ UNCHANGED <<world, commitment, row, now, held, reply>>

(* compare_and_set of the payment snapshot that the worker read before. *)
Store(w, here, expected, updated, next) ==
  /\ At(w, here)
  /\ IF payment = expected
     THEN payment' = updated /\ Goto(w, next)
     ELSE Goto(w, "failing") /\ UNCHANGED payment
  /\ UNCHANGED <<world, commitment, row, now, held, reply>>

(* _transition of the engine to the next stage, persisted. *)
Advance(w, next) ==
  LET to == [held[w] EXCEPT !.stage = After(@), !.last = now[w]] IN
  /\ IF /\ now[w] >= held[w].last
        /\ to.stage = "CAPTURE_ALLOWED" => CertificateValid(w)
        /\ commitment = held[w]
     THEN /\ commitment' = to
          /\ held' = [held EXCEPT ![w] = to]
          /\ Goto(w, next)
     ELSE Goto(w, "failing") /\ UNCHANGED <<commitment, held>>
  /\ UNCHANGED <<world, payment, row, now, reply>>

-------------------------------------------------------------------------------
(* execute and the head of complete_test_lifecycle. *)

Execute(w) == Claim(w, "EXECUTION", "idle", "begin", "idle")

(* A bug the properties must notice: an expired handoff is always refused. *)
BeginUnexpired(w) ==
  /\ At(w, "begin")
  /\ now' = [now EXCEPT ![w] = clock]
  /\ Goto(w, IF clock <= HandoffExpiry THEN "reserveClaim" ELSE "refused")
  /\ UNCHANGED <<world, stored, held, reply>>

(* One clock reading serves the whole execution.  After the handoff's      *)
(* expiry only a payment that is already bound lets it continue.           *)
Begin(w) ==
  /\ At(w, "begin")
  /\ now' = [now EXCEPT ![w] = clock]
  /\ Goto(w, CASE clock <= HandoffExpiry \/ payment \in Captured -> "reserveClaim"
               [] clock > HandoffExpiry /\ payment = "RESERVED"  -> "boundCheck"
               [] clock > HandoffExpiry /\ payment = "NONE"      -> "refused")
  /\ UNCHANGED <<world, stored, held, reply>>

(* A bug the properties must notice: CAPTURE_ALLOWED is not among the bound stages. *)
BoundCheckCaptured(w) ==
  Look(w, "boundCheck",
       IF Reached(commitment.stage, "CAPTURED") THEN "reserveClaim" ELSE "refused")

(* has_bound_lifecycle_state goes on to read the commitment. *)
BoundCheck(w) ==
  Look(w, "boundCheck",
       IF Reached(commitment.stage, "CAPTURE_ALLOWED") THEN "reserveClaim" ELSE "refused")

(* PREPARED_OPERATION_EXPIRED with provider_call_status NOT_STARTED. *)
Refused(w) == Look(w, "refused", "failing")

(* reserve: bind the authorized payment as the reversible hold. *)
ReserveClaim(w) == Claim(w, "RESERVE", "reserveClaim", "reserveRead", "resume")
ReserveRead(w)  == Look(w, "reserveRead", IF payment = "NONE" THEN "reserveGet" ELSE "reserveDone")
ReserveGet(w)   == Look(w, "reserveGet", IF provider = "authorized" THEN "reserveWrite" ELSE "failing")
ReserveWrite(w) == Store(w, "reserveWrite", "NONE", "RESERVED", "reserveDone")
ReserveDone(w)  == CompleteRow(w, "RESERVE", "reserveDone", "resume") /\ UNCHANGED <<now, held, reply>>

(* resume_or_propose: the stored commitment, or a new one. *)
Resume(w) ==
  /\ At(w, "resume")
  /\ held' = [held EXCEPT ![w] = commitment]
  /\ Goto(w, IF commitment = Absent THEN "propose" ELSE "journal")
  /\ UNCHANGED <<world, stored, now, reply>>

Propose(w) ==
  LET proposed == [stage |-> "PROPOSED", proposedAt |-> now[w], last |-> now[w]] IN
  /\ At(w, "propose")
  /\ IF commitment = Absent
     THEN /\ commitment' = proposed
          /\ held' = [held EXCEPT ![w] = proposed]
          /\ Goto(w, "journal")
     ELSE Goto(w, "failing") /\ UNCHANGED <<commitment, held>>
  /\ UNCHANGED <<world, payment, row, now, reply>>

(* authorize, reserve and allow_capture; events already recorded replay. *)
Journal(w) ==
  /\ At(w, "journal")
  /\ IF Reached(held[w].stage, "CAPTURE_ALLOWED")
     THEN Look(w, "journal", "decide")
     ELSE Advance(w, "journal")

(* Capture, or go on from a capture that is already durable. *)
Decide(w) ==
  Look(w, "decide",
       CASE payment \in Captured -> "recordCapture"
         [] payment \notin Captured /\ held[w].stage = "CAPTURE_ALLOWED" -> "captureClaim"
         [] OTHER -> "failing")

-------------------------------------------------------------------------------
(* capture: the irreversible boundary. *)

CaptureClaim(w) == Claim(w, "CAPTURE", "captureClaim", "captureCheck", "recordCapture")

(* A bug the properties must notice: the certificate is not verified again. *)
CaptureUnchecked(w) ==
  Look(w, "captureCheck", IF payment \in Captured THEN "captureDone" ELSE "captureGet")

CaptureCheck(w) ==
  Look(w, "captureCheck",
       CASE ~CertificateValid(w)                              -> "failing"
         [] CertificateValid(w) /\ payment \in Captured       -> "captureDone"
         [] CertificateValid(w) /\ payment \notin Captured    -> "captureGet")

CaptureGet(w) == Look(w, "captureGet", IF provider = "authorized" THEN "capturePost" ELSE "failing")

(* The provider captures an authorized payment and refuses any other. *)
CapturePost(w) ==
  /\ At(w, "capturePost")
  /\ IF provider = "authorized"
     THEN provider' = "captured" /\ Goto(w, "captureWrite")
     ELSE UNCHANGED provider /\ Goto(w, "captureAmbiguous")
  /\ UNCHANGED <<clock, refund, late, faults, stored, now, held, reply>>

(* A bug the properties must notice: a lost answer counts as a capture. *)
CaptureAssumed(w) == Look(w, "captureAmbiguous", "captureWrite")

(* The POST failed: only a payment that reads captured was captured. *)
CaptureAmbiguous(w) ==
  Look(w, "captureAmbiguous", IF provider = "captured" THEN "captureWrite" ELSE "failing")

CaptureWrite(w) == Store(w, "captureWrite", "RESERVED", "CAPTURED", "captureDone")
CaptureDone(w)  ==
  CompleteRow(w, "CAPTURE", "captureDone", "recordCapture") /\ UNCHANGED <<now, held, reply>>

RecordCapture(w) ==
  /\ At(w, "recordCapture")
  /\ IF Reached(held[w].stage, "CAPTURED")
     THEN Look(w, "recordCapture", "compensate")
     ELSE Advance(w, "compensate")

-------------------------------------------------------------------------------
(* compensate and refund. *)

Compensate(w) ==
  /\ At(w, "compensate")
  /\ CASE held[w].stage = "CAPTURED"             -> Advance(w, "refundSnapshot")
       [] held[w].stage = "COMPENSATION_PENDING" -> Look(w, "compensate", "refundSnapshot")
       [] held[w].stage = "COMPENSATED"          -> Look(w, "compensate", "finish")

RefundSnapshot(w) ==
  Look(w, "refundSnapshot", IF payment = "REFUNDED" THEN "completeCompensation" ELSE "refundClaim")

RefundClaim(w) == Claim(w, "REFUND", "refundClaim", "refundRead", "completeCompensation")

(* A bug the properties must notice: a pending refund is a final result. *)
RefundReadPendingIsFinal(w) ==
  Look(w, "refundRead",
       CASE payment \in {"REFUNDED", "REFUND_PENDING"} -> "refundDone"
         [] payment = "CAPTURED"                       -> "refundGet"
         [] OTHER                                      -> "failing")

RefundRead(w) ==
  Look(w, "refundRead",
       CASE payment = "REFUNDED"       -> "refundDone"
         [] payment = "REFUND_PENDING" -> "refundPoll"
         [] payment = "CAPTURED"       -> "refundGet"
         [] OTHER                      -> "failing")

(* _PendingRefund: a pending refund is polled by a later execution. *)
RefundPoll(w)      == Look(w, "refundPoll", IF refund = "processed" THEN "refundPollWrite" ELSE "failing")
RefundPollWrite(w) == Store(w, "refundPollWrite", "REFUND_PENDING", "REFUNDED", "refundDone")

RefundGet(w) == Look(w, "refundGet", IF provider = "captured" THEN "refundPost" ELSE "failing")

(* The provider makes one refund per idempotency token, and may answer     *)
(* before it is processed.                                                 *)
Refunds ==
  IF refund = "none" /\ provider = "captured"
  THEN /\ refund' \in {"pending", "processed"}
       /\ provider' = IF refund' = "processed" THEN "refunded" ELSE provider
  ELSE UNCHANGED <<provider, refund>>

RefundPost(w) ==
  /\ At(w, "refundPost")
  /\ Refunds
  /\ reply' = [reply EXCEPT ![w] = refund']
  /\ Goto(w, "refundWrite")
  /\ UNCHANGED <<clock, late, faults, stored, now, held>>

(* Bugs the properties must notice: the provider's word is stored as the   *)
(* state; an accepted refund completes the compensation.                   *)
RefundWriteRaw(w) == Store(w, "refundWrite", "CAPTURED", reply[w], "refundDone")
RefundWriteAccepted(w) ==
  Store(w, "refundWrite", "CAPTURED",
        IF reply[w] = "processed" THEN "REFUNDED" ELSE "REFUND_PENDING", "completeCompensation")

RefundWrite(w) ==
  IF reply[w] = "processed"
  THEN Store(w, "refundWrite", "CAPTURED", "REFUNDED", "refundDone")
  ELSE Store(w, "refundWrite", "CAPTURED", "REFUND_PENDING", "failing")

RefundDone(w) ==
  CompleteRow(w, "REFUND", "refundDone", "completeCompensation") /\ UNCHANGED <<now, held, reply>>

CompleteCompensation(w) == At(w, "completeCompensation") /\ Advance(w, "finish")

(* Only a refunded, compensated, reconciled lifecycle is a final result. *)
Finish(w) ==
  Look(w, "finish",
       IF payment = "REFUNDED" /\ held[w].stage = "COMPENSATED" THEN "executionDone" ELSE "failing")

ExecutionDone(w) == CompleteRow(w, "EXECUTION", "executionDone", "idle") /\ Forget(w)

(* The operation raised: its ledger call deletes its row, then the         *)
(* execution's ledger call deletes the execution's.                        *)
Delete(w, rows, here, next) ==
  /\ At(w, here)
  /\ row' = [r \in Operation |-> IF r \in rows /\ Owns(w, r) THEN NoRow ELSE row[r]]
  /\ Goto(w, next)
  /\ Forget(w)
  /\ UNCHANGED <<world, payment, commitment>>

Fail(w)   == Delete(w, Inner, "failing", "unwinding")
Unwind(w) == Delete(w, {"EXECUTION"}, "unwinding", "idle")

-------------------------------------------------------------------------------
(* Faults and the world. *)

Fault == faults > 0 /\ faults' = faults - 1

(* The process dies; a new one starts with nothing but the durable state. *)
Crash(w) ==
  /\ Fault
  /\ ~At(w, "idle")
  /\ row' = [r \in Operation |-> IF Owns(w, r) THEN [row[r] EXCEPT !.owner = Gone] ELSE row[r]]
  /\ Goto(w, "idle")
  /\ Forget(w)
  /\ UNCHANGED <<clock, provider, refund, late, payment, commitment>>

Getting == {"reserveGet", "captureGet", "captureAmbiguous", "refundPoll", "refundGet"}

LoseGet(w) ==
  /\ Fault
  /\ pc[w] \in Getting
  /\ Goto(w, "failing")
  /\ UNCHANGED <<clock, provider, refund, late, stored, now, held, reply>>

Captures == provider' = IF provider = "authorized" THEN "captured" ELSE provider

(* RazorpayTransportError: the response of the POST was lost, or the       *)
(* request is still under way.                                             *)
LoseCapture(w) ==
  /\ Fault
  /\ At(w, "capturePost")
  /\ \/ Captures /\ UNCHANGED late
     \/ late' = late \cup {"capture"} /\ UNCHANGED provider
  /\ Goto(w, "captureAmbiguous")
  /\ UNCHANGED <<clock, refund, stored, now, held, reply>>

LoseRefund(w) ==
  /\ Fault
  /\ At(w, "refundPost")
  /\ \/ Refunds /\ UNCHANGED late
     \/ late' = late \cup {"refund"} /\ UNCHANGED <<provider, refund>>
  /\ Goto(w, "failing")
  /\ UNCHANGED <<clock, stored, now, held, reply>>

(* A request that its worker gave up on arrives after all. *)
Arrive ==
  /\ \/ "capture" \in late /\ Captures /\ late' = late \ {"capture"} /\ UNCHANGED refund
     \/ "refund" \in late /\ Refunds /\ late' = late \ {"refund"}
  /\ UNCHANGED <<clock, faults, stored, local>>

(* The refund is processed some time after it was accepted. *)
RefundSettles ==
  /\ refund = "pending"
  /\ refund' = "processed" /\ provider' = "refunded"
  /\ UNCHANGED <<clock, late, faults, stored, local>>

(* An authorization that is not captured in time is given back. *)
HoldReleased ==
  /\ provider = "authorized"
  /\ provider' = "released"
  /\ UNCHANGED <<clock, refund, late, faults, stored, local>>

LeaseLapses ==
  /\ \E r \in Operation :
       /\ row[r].status = "PENDING" /\ ~row[r].lapsed
       /\ row' = [row EXCEPT ![r].lapsed = TRUE]
  /\ UNCHANGED <<world, payment, commitment, local>>

Tick ==
  /\ clock < MaxTime
  /\ clock' = clock + 1
  /\ UNCHANGED <<provider, refund, late, faults, stored, local>>

-------------------------------------------------------------------------------
Step(w) ==
  \/ Execute(w) \/ Begin(w) \/ BoundCheck(w) \/ Refused(w)
  \/ ReserveClaim(w) \/ ReserveRead(w) \/ ReserveGet(w) \/ ReserveWrite(w) \/ ReserveDone(w)
  \/ Resume(w) \/ Propose(w) \/ Journal(w) \/ Decide(w)
  \/ CaptureClaim(w) \/ CaptureCheck(w) \/ CaptureGet(w) \/ CapturePost(w)
  \/ CaptureAmbiguous(w) \/ CaptureWrite(w) \/ CaptureDone(w) \/ RecordCapture(w)
  \/ Compensate(w) \/ RefundSnapshot(w) \/ RefundClaim(w) \/ RefundRead(w)
  \/ RefundPoll(w) \/ RefundPollWrite(w) \/ RefundGet(w) \/ RefundPost(w)
  \/ RefundWrite(w) \/ RefundDone(w) \/ CompleteCompensation(w)
  \/ Finish(w) \/ ExecutionDone(w) \/ Fail(w) \/ Unwind(w)

Next ==
  \/ \E w \in Worker :
       Step(w) \/ Crash(w) \/ LoseGet(w) \/ LoseCapture(w) \/ LoseRefund(w)
  \/ Arrive \/ RefundSettles \/ HoldReleased \/ LeaseLapses \/ Tick

(* Processes run and callers retry until the execution has a result; a     *)
(* lease runs out after 300 seconds; an accepted refund is processed.      *)
(* Nothing forces time past an expiry, a fault, a late arrival or the      *)
(* release of the hold.                                                    *)
Fairness ==
  /\ \A w \in Worker : WF_vars(Step(w))
  /\ WF_vars(LeaseLapses) /\ WF_vars(RefundSettles)

Spec     == Init /\ [][Next]_vars
FairSpec == Spec /\ Fairness

-------------------------------------------------------------------------------
Place ==
  {"idle", "begin", "boundCheck", "refused", "resume", "propose", "journal", "decide",
   "reserveClaim", "reserveRead", "reserveGet", "reserveWrite", "reserveDone",
   "captureClaim", "captureCheck", "captureGet", "capturePost", "captureAmbiguous",
   "captureWrite", "captureDone", "recordCapture", "compensate", "refundSnapshot",
   "refundClaim", "refundRead", "refundPoll", "refundPollWrite", "refundGet",
   "refundPost", "refundWrite", "refundDone", "completeCompensation", "finish",
   "executionDone", "failing", "unwinding"}

TypeOK ==
  /\ clock \in 0 .. MaxTime
  /\ provider \in {"authorized", "captured", "refunded", "released"}
  /\ refund \in {"none", "pending", "processed"}
  /\ late \subseteq {"capture", "refund"}
  /\ faults \in 0 .. Faults
  /\ payment \in Payment
  /\ commitment \in Commitment
  /\ row \in [Operation -> [status: {"ABSENT", "PENDING", "COMPLETED"},
                            owner: Worker \cup {Gone}, lapsed: BOOLEAN]]
  /\ pc \in [Worker -> Place]
  /\ now \in [Worker -> 0 .. MaxTime]
  /\ held \in [Worker -> Commitment]
  /\ reply \in [Worker -> {"none", "pending", "processed"}]

(* The local record never runs ahead of the provider: it says CAPTURED,    *)
(* REFUND_PENDING or REFUNDED only of money that was, whatever workers     *)
(* overlap and whatever answers are lost.                                  *)
LocalFollowsProvider ==
  /\ payment \in Captured => provider \in {"captured", "refunded"}
  /\ payment = "REFUND_PENDING" => refund # "none"
  /\ payment = "REFUNDED" => provider = "refunded"

(* The commitment never runs ahead of the payment record, although they    *)
(* are separate documents written in separate transactions: no stage says  *)
(* reserved, captured or compensated before the payment does.              *)
JournalFollowsPayment ==
  /\ commitment.stage # "ABSENT" => payment # "NONE"
  /\ Reached(commitment.stage, "CAPTURED") => payment \in Captured
  /\ commitment.stage = "COMPENSATED" => payment = "REFUNDED"

(* A replayed result is true when it is replayed: what a COMPLETED row     *)
(* answers to later callers is what the stores still hold.                 *)
CachedResultsAreTrue ==
  /\ row["RESERVE"].status = "COMPLETED" => payment # "NONE"
  /\ row["CAPTURE"].status = "COMPLETED" => payment \in Captured
  /\ row["REFUND"].status = "COMPLETED" => payment = "REFUNDED"
  /\ row["EXECUTION"].status = "COMPLETED" =>
       payment = "REFUNDED" /\ commitment.stage = "COMPENSATED"

(* Money moves only behind the boundary: when the provider captures, the   *)
(* commitment durably says CAPTURE_ALLOWED or more, and the request was    *)
(* sent by an execution whose time lay within its certificate (or is one   *)
(* that arrives late).                                                     *)
CaptureIsCertified ==
  [][provider = "authorized" /\ provider' = "captured" =>
       /\ Reached(commitment.stage, "CAPTURE_ALLOWED")
       /\ \/ "capture" \in late
          \/ \E w \in Worker : At(w, "capturePost") /\ CertificateValid(w)]_vars

(* A slow worker that wakes up after others have gone on cannot move the   *)
(* payment record or the commitment back.                                  *)
NothingMovesBack ==
  [][/\ PaymentRank[payment'] >= PaymentRank[payment]
     /\ StageRank[commitment'.stage] >= StageRank[commitment.stage]]_vars

(* An expired operation is refused with provider_call_status NOT_STARTED   *)
(* only while the money has not moved, even when the capture is not yet    *)
(* in the payment record.                                                  *)
RefusalMeansNoCapture ==
  [][\A w \in Worker :
       pc'[w] = "refused" /\ pc[w] # "refused" =>
         provider \in {"authorized", "released"} /\ "capture" \notin late]_vars

(* Captured money is not left behind.  Without a fault it is refunded and  *)
(* the refund journaled, whatever leases lapse, workers overlap or         *)
(* certificates and handoffs expire meanwhile; and after a crash or a lost *)
(* call, too, once the capture is in the payment record the refund reaches *)
(* the provider.                                                           *)
CapturesAreCompensated ==
  /\ (provider = "captured") ~>
       ((payment = "REFUNDED" /\ commitment.stage = "COMPENSATED") \/ faults < Faults)
  /\ (payment = "CAPTURED") ~> (provider = "refunded")

(* ARCHITECTURE.md: "Ambiguous order/capture outcomes recover only from an exact      *)
(* provider-side binding match" and "provider crash-window reconstruction":*)
(* a capture the provider made is found again and recorded.                *)
CaptureIsReconstructed == (provider = "captured") ~> (payment \in Captured)

(* docs: "Capture/refund crash window: ... exact result reconstruction":   *)
(* a refund the provider processed is found again and recorded.            *)
RefundIsReconstructed == (provider = "refunded") ~> (payment = "REFUNDED")
===============================================================================
