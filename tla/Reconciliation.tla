----------------------------- MODULE Reconciliation -----------------------------
(***************************************************************************)
(* Reconciler and CompensationCoordinator of reconciliation.py, at work on *)
(* one commitment and one simulated payment while other callers carry the  *)
(* same commitment forward (the order of checkpoint_d_workflow.py), cancel *)
(* it, or crash and load it again.  Every caller works on its own copy of  *)
(* the commitment; the engine stores a successor only if that copy is      *)
(* still the stored one (Commitment has the two transactions of that       *)
(* write), and the payment adapter sees nothing but the copy.              *)
(***************************************************************************)
EXTENDS SimulatedPayments

CONSTANTS
  Caller,
  KeyOf,       \* the idempotency key each caller uses
  ReasonOf,    \* the compensation reason each caller gives
  MaxFaults    \* bound: crashes and injected failures

ASSUME ReconciliationAssumption ==
  /\ KeyOf \in [Caller -> IdemKey]
  /\ MaxFaults \in Nat
  /\ None \notin {"CAPTURE_MISSING", "REFUND_MISSING"}

VARIABLES
  stored,   \* the commitment in the state store
  copy,     \* each caller's copy
  pc,       \* where each caller stands
  held,     \* the provider reference it has in hand
  faults

vars == <<payment, done, failing, stored, copy, pc, held, faults>>

Proposed == [stage |-> "PROPOSED", left |-> None, reservation |-> None,
             capture |-> None, reason |-> None, refund |-> None]

Init ==
  /\ PaymentsInit
  /\ stored = Proposed
  /\ copy = [c \in Caller |-> Proposed]
  /\ pc = [c \in Caller |-> "idle"]
  /\ held = [c \in Caller |-> None]
  /\ faults = 0

Goto(c, place) == pc' = [pc EXCEPT ![c] = place]

(* _transition to s with the fields f, and _persist.  A caller whose copy  *)
(* is old gets an exception and is back where it started.                  *)
Transition(c, s, f, next) ==
  LET updated == [f EXCEPT !.stage = s, !.left = f.stage] IN
  IF copy[c] = stored
  THEN stored' = updated /\ copy' = [copy EXCEPT ![c] = updated] /\ Goto(c, next)
  ELSE UNCHANGED <<stored, copy>> /\ Goto(c, "idle")

Idle(c, stages) == pc[c] = "idle" /\ copy[c].stage \in stages

-------------------------------------------------------------------------------
(* Carrying the commitment forward. *)

(* resume_or_propose *)
Load(c) ==
  /\ pc[c] = "idle" /\ copy[c] # stored
  /\ copy' = [copy EXCEPT ![c] = stored]
  /\ UNCHANGED <<payment, done, failing, stored, pc, held, faults>>

Authorize(c) ==
  /\ Idle(c, {"PROPOSED"})
  /\ Transition(c, "AUTHORIZED", copy[c], "idle")
  /\ UNCHANGED <<payment, done, failing, held, faults>>

(* An adapter call: a result in hand, an exception, or a crash after the   *)
(* effect.                                                                 *)
Call(c, op, next, otherwise) ==
  \/ /\ Succeeds(op, KeyOf[c], copy[c], TRUE)
     /\ held' = [held EXCEPT ![c] = Reference(op, KeyOf[c])]
     /\ Goto(c, next)
     /\ UNCHANGED <<stored, copy, faults>>
  \/ /\ faults < MaxFaults
     /\ Succeeds(op, KeyOf[c], copy[c], FALSE)
     /\ faults' = faults + 1
     /\ held' = [held EXCEPT ![c] = None]
     /\ Goto(c, "idle")
     /\ UNCHANGED <<stored, copy>>
  \/ /\ Fails(op, KeyOf[c], copy[c])
     /\ Goto(c, otherwise)
     /\ UNCHANGED <<stored, copy, held, faults>>

TakeHold(c) == Idle(c, {"AUTHORIZED"}) /\ Call(c, "RESERVE", "holding", "idle")

JournalHold(c) ==
  /\ pc[c] = "holding"
  /\ Transition(c, "RESERVED", [copy[c] EXCEPT !.reservation = held[c]], "idle")
  /\ UNCHANGED <<payment, done, failing, held, faults>>

AllowCapture(c) ==
  /\ Idle(c, {"RESERVED"})
  /\ Transition(c, "CAPTURE_ALLOWED", copy[c], "idle")
  /\ UNCHANGED <<payment, done, failing, held, faults>>

(* Only an injected provider failure is cleaned up after. *)
Capture(c) ==
  /\ Idle(c, {"CAPTURE_ALLOWED"})
  /\ Call(c, "CAPTURE", "captured", IF "CAPTURE" \in failing THEN "cleanup" ELSE "idle")

RecordCapture(c) ==
  /\ pc[c] = "captured"
  /\ Transition(c, "CAPTURED", [copy[c] EXCEPT !.capture = held[c]], "idle")
  /\ UNCHANGED <<payment, done, failing, held, faults>>

(* After a failed capture: void the hold, and fail the commitment only if  *)
(* that worked.                                                            *)
Void(c) == pc[c] = "cleanup" /\ Call(c, "VOID", "voided", "idle")

Fail(c) ==
  /\ pc[c] = "voided"
  /\ Transition(c, "FAILED", copy[c], "idle")
  /\ UNCHANGED <<payment, done, failing, held, faults>>

Cancel(c) ==
  /\ Idle(c, {"PROPOSED", "AUTHORIZED", "RESERVED", "CAPTURE_ALLOWED"})
  /\ Transition(c, "CANCELLED", copy[c], "idle")
  /\ UNCHANGED <<payment, done, failing, held, faults>>

-------------------------------------------------------------------------------
(* CompensationCoordinator.compensate. *)

(* Bugs the properties must notice: any payment counts as captured; the    *)
(* refund is asked for before the compensation is journaled.               *)
CompensateUnverified(c) ==
  /\ Idle(c, {"CAPTURE_ALLOWED", "CAPTURED", "COMPENSATION_PENDING"})
  /\ IF copy[c].stage = "CAPTURE_ALLOWED"
     THEN Goto(c, "reconciling") /\ held' = [held EXCEPT ![c] = payment.reference]
     ELSE Goto(c, IF copy[c].stage = "CAPTURED" THEN "beginning" ELSE "refunding") /\ UNCHANGED held
  /\ UNCHANGED <<payment, done, failing, stored, copy, faults>>

CompensateAtOnce(c) ==
  /\ Idle(c, {"CAPTURED", "COMPENSATION_PENDING"})
  /\ Goto(c, "refunding")
  /\ UNCHANGED <<payment, done, failing, stored, copy, held, faults>>

(* The first snapshot: from CAPTURE_ALLOWED the payment must be captured;  *)
(* a pending compensation must have been begun for the same reason.        *)
Compensate(c) ==
  /\ Idle(c, {"CAPTURE_ALLOWED", "CAPTURED", "COMPENSATION_PENDING"})
  /\ CASE copy[c].stage = "CAPTURE_ALLOWED" ->
            /\ payment.state = "CAPTURED"
            /\ Goto(c, "reconciling")
            /\ held' = [held EXCEPT ![c] = payment.reference]
       [] copy[c].stage = "CAPTURED" -> Goto(c, "beginning") /\ UNCHANGED held
       [] OTHER -> /\ copy[c].reason = ReasonOf[c]
                   /\ Goto(c, "refunding") /\ UNCHANGED held
  /\ UNCHANGED <<payment, done, failing, stored, copy, faults>>

(* record_capture under the event id reconcile-capture. *)
ReconcileCapture(c) ==
  /\ pc[c] = "reconciling"
  /\ Transition(c, "CAPTURED", [copy[c] EXCEPT !.capture = held[c]], "beginning")
  /\ UNCHANGED <<payment, done, failing, held, faults>>

BeginCompensation(c) ==
  /\ pc[c] = "beginning"
  /\ Transition(c, "COMPENSATION_PENDING", [copy[c] EXCEPT !.reason = ReasonOf[c]], "refunding")
  /\ UNCHANGED <<payment, done, failing, held, faults>>

(* A bug the properties must notice: only a refund this process remembers  *)
(* is recognised.                                                          *)
FindRemembered(c) ==
  /\ pc[c] = "refunding" /\ payment.state = "REFUNDED"
  /\ held[c] = payment.reference
  /\ Goto(c, "completing")
  /\ UNCHANGED <<payment, done, failing, stored, copy, held, faults>>

(* The second snapshot shows the refund: it need only be journaled. *)
FindRefund(c) ==
  /\ pc[c] = "refunding" /\ payment.state = "REFUNDED"
  /\ held' = [held EXCEPT ![c] = payment.reference]
  /\ Goto(c, "completing")
  /\ UNCHANGED <<payment, done, failing, stored, copy, faults>>

StartRefund(c) ==
  /\ pc[c] = "refunding" /\ payment.state # "REFUNDED"
  /\ Goto(c, "refundCall")
  /\ UNCHANGED <<payment, done, failing, stored, copy, held, faults>>

(* A failed refund leaves the compensation pending, for a retry. *)
Refund(c) == pc[c] = "refundCall" /\ Call(c, "REFUND", "completing", "idle")

CompleteCompensation(c) ==
  /\ pc[c] = "completing"
  /\ Transition(c, "COMPENSATED", [copy[c] EXCEPT !.refund = held[c]], "idle")
  /\ UNCHANGED <<payment, done, failing, held, faults>>

-------------------------------------------------------------------------------
Crash(c) ==
  /\ pc[c] # "idle" /\ faults < MaxFaults
  /\ faults' = faults + 1
  /\ held' = [held EXCEPT ![c] = None]
  /\ Goto(c, "idle")
  /\ UNCHANGED <<payment, done, failing, stored, copy>>

Inject(op) ==
  /\ faults < MaxFaults /\ op \notin failing
  /\ faults' = faults + 1
  /\ SetFailure(op, TRUE)
  /\ UNCHANGED <<stored, copy, pc, held>>

Restore(op) ==
  /\ op \in failing
  /\ SetFailure(op, FALSE)
  /\ UNCHANGED <<stored, copy, pc, held, faults>>

Compensating(c) ==
  \/ Compensate(c) \/ ReconcileCapture(c) \/ BeginCompensation(c)
  \/ FindRefund(c) \/ StartRefund(c) \/ Refund(c) \/ CompleteCompensation(c)

Forward(c) ==
  \/ Authorize(c) \/ TakeHold(c) \/ JournalHold(c) \/ AllowCapture(c)
  \/ Capture(c) \/ RecordCapture(c) \/ Void(c) \/ Fail(c)

Next ==
  \/ \E c \in Caller : Load(c) \/ Forward(c) \/ Cancel(c) \/ Compensating(c) \/ Crash(c)
  \/ \E op \in {"CAPTURE", "REFUND"} : Inject(op) \/ Restore(op)

(* Callers finish and retry what they began; injected failures end. *)
Fairness ==
  /\ \A c \in Caller : WF_vars(Load(c)) /\ WF_vars(Compensating(c))
                       /\ WF_vars(JournalHold(c) \/ RecordCapture(c) \/ Void(c) \/ Fail(c))
  /\ \A op \in {"CAPTURE", "REFUND"} : WF_vars(Restore(op))

Spec     == Init /\ [][Next]_vars
FairSpec == Spec /\ Fairness

-------------------------------------------------------------------------------
(* Reconciler.reconcile, on a commitment m and a payment state p. *)

ExpectedStates(m) ==
  CASE m.stage \in {"PROPOSED", "AUTHORIZED"}       -> {"NONE"}
    [] m.stage \in {"RESERVED", "CAPTURE_ALLOWED"}  -> {"RESERVED"}
    [] m.stage = "CAPTURED"                         -> {"CAPTURED"}
    [] m.stage = "COMPENSATION_PENDING"             -> {"CAPTURED", "REFUND_PENDING", "REFUNDED"}
    [] m.stage = "COMPENSATED"                      -> {"REFUNDED"}
    [] m.stage = "CANCELLED" ->
         IF m.left \in {"RESERVED", "CAPTURE_ALLOWED"} THEN {"VOIDED"} ELSE {"NONE"}
    [] m.stage = "FAILED"                           -> {"NONE", "VOIDED", "REFUNDED"}

StateFinding(m, p) ==
  CASE m.stage = "COMPENSATED"                      -> "REFUND_MISSING"
    [] m.stage = "CAPTURED"                         -> "CAPTURE_MISSING"
    [] m.stage \notin {"COMPENSATED", "CAPTURED"} /\ p = "CAPTURED" -> "UNEXPECTED_CAPTURE"
    [] m.stage \notin {"COMPENSATED", "CAPTURED"} /\ p = "REFUND_PENDING" -> "REFUND_PENDING"
    [] m.stage = "CANCELLED" /\ p = "RESERVED"      -> "VOID_MISSING"
    [] m.stage = "FAILED" /\ p = "RESERVED"         -> "FAILED_RESERVATION_NEEDS_VOID"
    [] m.stage \in {"RESERVED", "CAPTURE_ALLOWED"} /\ p \in {"NONE", "VOIDED", "REFUNDED"} -> "RESERVATION_STATE_MISMATCH"
    [] OTHER                                        -> "PAYMENT_STATE_MISMATCH"

Finding(m, p) == IF p \in ExpectedStates(m) THEN None ELSE StateFinding(m, p)

-------------------------------------------------------------------------------
Ref == {Reference(op, k) : op \in Operation, k \in IdemKey} \cup {None}
Stage == {"PROPOSED", "AUTHORIZED", "RESERVED", "CAPTURE_ALLOWED", "CAPTURED",
          "COMPENSATION_PENDING", "COMPENSATED", "CANCELLED", "FAILED"}
Commitments ==
  [stage: Stage, left: Stage \cup {None}, reservation: Ref, capture: Ref,
   reason: {ReasonOf[c] : c \in Caller} \cup {None}, refund: Ref]

TypeOK ==
  /\ payment \in [state: {"NONE", "RESERVED", "CAPTURED", "VOIDED", "REFUNDED"}, reference: Ref]
  /\ \A e \in done : e.op \in Operation /\ e.key \in IdemKey
  /\ failing \subseteq Operation
  /\ stored \in Commitments /\ copy \in [Caller -> Commitments]
  /\ pc \in [Caller -> {"idle", "holding", "captured", "cleanup", "voided", "reconciling",
                        "beginning", "refunding", "refundCall", "completing"}]
  /\ held \in [Caller -> Ref]
  /\ faults \in 0..MaxFaults

(* The books never claim more than the payment did: whatever callers,      *)
(* crashes and retries interleave, the reconciler finds no journaled       *)
(* capture or refund without its payment (record_capture after capture,    *)
(* or after compensate's look at the payment).                             *)
NothingIsMissing == Finding(stored, payment.state) \notin {"CAPTURE_MISSING", "REFUND_MISSING"}

(* The references in the journal are the payment's own, although several   *)
(* callers compete under different keys and two code paths record a        *)
(* capture and a refund each.                                              *)
JournalMatchesPayment ==
  /\ stored.stage \in {"RESERVED", "CAPTURE_ALLOWED"} /\ payment.state = "RESERVED"
       => stored.reservation = payment.reference
  /\ stored.stage = "CAPTURED" => stored.capture = payment.reference
  /\ stored.stage = "COMPENSATED" => stored.refund = payment.reference

(* A refund is asked for only when the journal already says so: captured   *)
(* money never leaves a commitment that has not begun compensation.        *)
RefundsAreJournaledFirst ==
  payment.state = "REFUNDED" => stored.stage \in {"COMPENSATION_PENDING", "COMPENSATED"}

(* A compensation that was begun is completed: a crash after the refund, a *)
(* failed refund and a second coordinator all leave it retryable.          *)
CompensationCompletes ==
  stored.stage = "COMPENSATION_PENDING" ~> stored.stage = "COMPENSATED"

(* "captured funds cannot transition to FAILED; compensation must remain   *)
(* actionable" (commitment.py:513): compensate accepts the commitment of a *)
(* captured payment.                                                       *)
CompensationStaysActionable ==
  payment.state = "CAPTURED" =>
    stored.stage \in {"CAPTURE_ALLOWED", "CAPTURED", "COMPENSATION_PENDING"}
===============================================================================
