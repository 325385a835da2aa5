------------------------------ MODULE MCPayments ------------------------------
(***************************************************************************)
(* Three stages of a payment, in one model for TLC: how its order is made  *)
(* (OrderCreation), how a capture is certified and guarded                 *)
(* (CaptureBoundary), and how callers, the compensation coordinator and    *)
(* the reconciler keep the journal and the payment together                *)
(* (Reconciliation, over SimulatedPayments).  A behaviour is about one of  *)
(* them, the part; the others stay as they began.                          *)
(*                                                                         *)
(* The records are a quote and an authorization, their successors, and     *)
(* some the registry must reject: a stale version number, an older         *)
(* observation, another subject, another issuer.                           *)
(***************************************************************************)
EXTENDS Reconciliation, Sequences, FiniteSets, TLC

CONSTANTS
  Parts,                                                           \* what is looked at
  Record, Authority, MaxAge, Skew, Tier, Subject, N, MaxTime,      \* Evidence
  Amount, TTL, DecisionAge,                                        \* CaptureBoundary
  MaxLosses,                                                       \* OrderCreation
  a, b, k1, k2

VARIABLES
  part,
  latest, revoked, clock,                                          \* Evidence
  place, now, read, checked, decided, cert, captured, whole,       \* CaptureBoundary
  placed, late, underway, remembered, ledger, lock, at, key, match, answers, losses

boundaryVars ==
  <<latest, revoked, clock, place, now, read, checked, decided, cert, captured, whole>>

orderVars ==
  <<placed, late, underway, remembered, ledger, lock, at, key, match, answers, losses>>

B == INSTANCE CaptureBoundary WITH pc <- place
O == INSTANCE OrderCreation WITH
  Thread <- Caller, Key <- IdemKey, pc <- at, faults <- losses, MaxFaults <- MaxLosses

ASSUME BoundaryAssumed == B!BoundaryAssumption /\ B!EvidenceAssumption
ASSUME OrderAssumed    == O!OrderAssumption

MCKeyOf    == a :> k1 @@ b :> k2
MCReasonOf == a :> "late" @@ b :> "other"

Rec(id, version, claims, observed, expires) ==
  [id |-> id, version |-> version, claims |-> claims, observed |-> observed,
   expires |-> expires, authority |-> "shop", issuer |-> "shop-key",
   kind |-> IF id = 1 THEN "PRICE_QUOTE" ELSE "USER_AUTHORIZATION", subject |-> "tx"]

MCRecord ==
  { Rec(1, 1, {"price"}, 0, 3), Rec(1, 2, {"price"}, 1, 4), Rec(1, 2, {}, 1, 4),
    Rec(1, 3, {"price"}, 0, 4), Rec(2, 1, {"yes"}, 0, 2), Rec(2, 2, {"yes"}, 1, 4),
    [Rec(2, 3, {"yes"}, 1, 4) EXCEPT !.subject = "other"],
    [Rec(2, 3, {"yes"}, 1, 4) EXCEPT !.issuer = "unknown"] }

MCAuthority == {<<"shop", "shop-key", "PRICE_QUOTE">>, <<"shop", "shop-key", "USER_AUTHORIZATION">>}

Need(kind, claims) == [kind |-> kind, authorities |-> {"shop"}, claims |-> claims]

MCTier ==
  { [requirements |-> {Need("PRICE_QUOTE", {"price"}), Need("USER_AUTHORIZATION", {"yes"})}, cap |-> 5],
    [requirements |-> {Need("USER_AUTHORIZATION", {"yes"})}, cap |-> 2] }

MCInit ==
  /\ part \in Parts
  /\ Init /\ B!Init /\ O!Init
  /\ part # "order" => late = FALSE /\ key = KeyOf

MCNext ==
  /\ UNCHANGED part
  /\ \/ part = "order" /\ O!Next /\ UNCHANGED <<vars, boundaryVars>>
     \/ part = "boundary" /\ B!Next /\ UNCHANGED <<vars, orderVars>>
     \/ part = "journal" /\ Next /\ UNCHANGED <<boundaryVars, orderVars>>

(* Nothing that is fair can happen to a journal nobody has written to, nor *)
(* to an idle adapter unless it is called.                                 *)
MCFairness ==
  /\ Fairness
  /\ \A t \in Caller : WF_orderVars(O!Step(t))
  /\ SF_orderVars(part = "order" /\ \E t \in Caller, k \in IdemKey : O!Call(t, k))

MCSpec == MCInit /\ [][MCNext]_<<part, vars, boundaryVars, orderVars>> /\ MCFairness

-------------------------------------------------------------------------------
(* A snapshot is read one record at a time and may name a combination that *)
(* never existed; a certificate may not (snapshot, then the check in issue *)
(* of certificate.py).                                                     *)
CertificateNamesARealState == B!TypeOK /\ B!CertificateNamesARealState

(* At the instant of the capture the certificate's records are the current *)
(* and fresh ones together, although all were checked long before, and the *)
(* policy would grant the amount for them: the registry never goes back,   *)
(* and a decision taken on older records buys nothing                      *)
(* (hold_snapshot_current, register, calculate).                           *)
CaptureIsCovered ==
  /\ B!RegistryOnlyAdvances
  /\ B!CaptureOnCurrentEvidence
  /\ B!CaptureWithinPresentCap

(* The books never claim more than the payment did, and name the payment's *)
(* own references: whatever callers, crashes, keys and retries interleave, *)
(* the reconciler finds no journaled capture or refund without its payment,*)
(* and nothing is refunded before the journal says so.                     *)
BooksMatchPayment ==
  TypeOK /\ NothingIsMissing /\ JournalMatchesPayment /\ RefundsAreJournaledFirst

(* Failed requests, lost answers, threads and restarts make no second      *)
(* order with one receipt unless a POST lands late, and even then callers  *)
(* of one key are never given different orders (create_order and           *)
(* _find_order_by_receipt of razorpay.py).                                 *)
OrdersAreUnique ==
  O!TypeOK /\ O!OneOrderPerReceipt /\ O!OneOrderPerRun /\ O!CallersAgree

(* Once failures are over, a caller that keeps asking gets its order from  *)
(* a server that was restarted and remembers none, and a compensation that *)
(* was begun is completed (create_order; compensate).                      *)
RetriesSucceed ==
  (part = "order" => O!SomebodyIsAnswered) /\ CompensationCompletes
===============================================================================
