--------------------------- MODULE SimulatedPayments ---------------------------
(***************************************************************************)
(* SimulatedPaymentAdapter of payments.py for one transaction: the payment *)
(* snapshot, the results its ledger keeps, and the operations that are     *)
(* made to fail.  An operation runs under the adapter's lock and ends in a *)
(* compare_and_set, so it is one step; a crash may keep the ledger from    *)
(* learning its result.  A reference is the operation and its idempotency  *)
(* key, as the digest the code makes of them.                              *)
(***************************************************************************)
EXTENDS Naturals

CONSTANTS IdemKey, None

Operation == {"RESERVE", "CAPTURE", "VOID", "REFUND"}

VARIABLES
  payment,   \* PaymentSnapshot: state and last_reference
  done,      \* completed ledger entries: operation, key and fingerprint
  failing    \* _fail_operations

paymentVars == <<payment, done, failing>>

From == [RESERVE |-> "NONE", CAPTURE |-> "RESERVED", VOID |-> "RESERVED", REFUND |-> "CAPTURED"]
To   == [RESERVE |-> "RESERVED", CAPTURE |-> "CAPTURED", VOID |-> "VOIDED", REFUND |-> "REFUNDED"]

Reference(op, k) == <<op, k>>

(* The commitment is part of the fingerprint of a capture only. *)
Entry(op, k, commitment) ==
  [op |-> op, key |-> k, commitment |-> IF op = "CAPTURE" THEN commitment ELSE None]

PaymentsInit ==
  /\ payment = [state |-> "NONE", reference |-> None]
  /\ done = {}
  /\ failing = {}

(* _assert_capture_authority; certificates are CaptureBoundary's subject. *)
CaptureAuthority(commitment) ==
  /\ commitment.stage = "CAPTURE_ALLOWED"
  /\ payment.state = "RESERVED" => commitment.reservation = payment.reference

(* The ledger: the key is unused, or was used for this very request. *)
NoCollision(op, k, commitment) ==
  \A e \in done : e.op = op /\ e.key = k => e = Entry(op, k, commitment)

Replays(op, k, commitment) == Entry(op, k, commitment) \in done

(* A bug the properties must notice: a state that is reached already is    *)
(* taken for this request's own work.                                      *)
ReconstructAny(op, k) == payment.state = To[op]

(* The snapshot already shows this very request: the ledger missed it. *)
Reconstructs(op, k) == payment.state = To[op] /\ payment.reference = Reference(op, k)

(* perform_locked would go through. *)
Performs(op, k, commitment) ==
  /\ op \notin failing
  /\ op = "CAPTURE" => CaptureAuthority(commitment)
  /\ Reconstructs(op, k) \/ payment.state = From[op]

(* _execute returns a result; remember tells whether the process lives     *)
(* long enough for the ledger to keep it.                                  *)
Succeeds(op, k, commitment, remember) ==
  /\ NoCollision(op, k, commitment)
  /\ \/ /\ Replays(op, k, commitment)
        /\ UNCHANGED payment
     \/ /\ ~Replays(op, k, commitment)
        /\ Performs(op, k, commitment)
        /\ payment' = IF Reconstructs(op, k) THEN payment
                      ELSE [state |-> To[op], reference |-> Reference(op, k)]
  /\ done' = IF remember THEN done \cup {Entry(op, k, commitment)} ELSE done
  /\ UNCHANGED failing

(* _execute raises. *)
Fails(op, k, commitment) ==
  /\ \/ ~NoCollision(op, k, commitment)
     \/ ~Replays(op, k, commitment) /\ ~Performs(op, k, commitment)
  /\ UNCHANGED paymentVars

(* set_failure *)
SetFailure(op, enabled) ==
  /\ failing' = IF enabled THEN failing \cup {op} ELSE failing \ {op}
  /\ UNCHANGED <<payment, done>>
===============================================================================
