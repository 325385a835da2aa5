----------------------------- MODULE OrderCreation -----------------------------
(***************************************************************************)
(* RazorpayTestPaymentAdapter.create_order of razorpay.py for one          *)
(* transaction: the threads of one server call it with idempotency keys,   *)
(* each of which determines a receipt.  Orders are remembered in memory    *)
(* only; a restarted server finds them again at the provider by receipt.   *)
(* The provider may refuse a POST, carry it out and lose the answer, or,   *)
(* where late, carry it out after the adapter gave up on it.  It does not  *)
(* itself refuse a second order with one receipt.  The in-process          *)
(* ledger is taken as ThreadLedger shows it: one call per key at a time,   *)
(* results kept, failures forgotten.                                       *)
(***************************************************************************)
EXTENDS Naturals, Sequences, FiniteSets

CONSTANTS
  Thread,
  Key,         \* idempotency keys, one to one with receipts
  MaxFaults,   \* bound: failed requests, lost answers and restarts
  None

Order == [key: Key, id: Nat]

OrderAssumption ==
  /\ MaxFaults \in Nat
  /\ None \notin Thread /\ None \notin Nat /\ None \notin Order

VARIABLES
  placed,      \* at the provider: the receipt of each order; ids are positions
  late,        \* whether a POST may land after its timeout
  underway,    \* POSTs per receipt that may still land
  remembered,  \* _orders: the order of the transaction, or None
  ledger,      \* per key: the order id kept as the result, or None
  lock,        \* self._lock
  pc, key, match,   \* per thread: place, key, order found or made
  answers,     \* pairs of key and order id that callers got, ever
  faults

provider == <<placed, late, underway>>
vars == <<provider, remembered, ledger, lock, pc, key, match, answers, faults>>

Boot ==
  /\ remembered' = None
  /\ ledger' = [k \in Key |-> None]
  /\ lock' = None
  /\ pc' = [t \in Thread |-> "idle"]
  /\ match' = [t \in Thread |-> None]

Init ==
  /\ placed = <<>> /\ late \in BOOLEAN /\ underway = [k \in Key |-> 0]
  /\ remembered = None /\ ledger = [k \in Key |-> None] /\ lock = None
  /\ pc = [t \in Thread |-> "idle"]
  /\ key \in [Thread -> Key]
  /\ match = [t \in Thread |-> None]
  /\ answers = {} /\ faults = 0

Goto(t, place) == pc' = [pc EXCEPT ![t] = place]

Fault == faults < MaxFaults /\ faults' = faults + 1

-------------------------------------------------------------------------------
Busy == {key[t] : t \in {u \in Thread : pc[u] # "idle"}}

(* execute: a finished key is replayed, a busy one waited for. *)
Call(t, k) ==
  /\ pc[t] = "idle" /\ k \notin Busy
  /\ key' = [key EXCEPT ![t] = k]
  /\ IF ledger[k] = None
     THEN Goto(t, "lock") /\ UNCHANGED answers
     ELSE answers' = answers \cup {<<k, ledger[k]>>} /\ UNCHANGED pc
  /\ UNCHANGED <<provider, remembered, ledger, lock, match, faults>>

(* The lock, and the order this process may have made before. *)
Enter(t) ==
  /\ pc[t] = "lock" /\ lock = None
  /\ lock' = t
  /\ Goto(t, IF remembered = None THEN "find" ELSE "raise")
  /\ UNCHANGED <<provider, remembered, ledger, key, match, answers, faults>>

Matches(k) == {id \in DOMAIN placed : placed[id] = k}

(* A bug the properties must notice: of several matches the last is taken.  *)
FindAny(t) ==
  /\ pc[t] \in {"find", "recover"}
  /\ match' = [match EXCEPT ![t] =
       IF Matches(key[t]) = {} THEN None
       ELSE CHOOSE id \in Matches(key[t]) : \A j \in Matches(key[t]) : j <= id]
  /\ Goto(t, IF Matches(key[t]) # {} THEN "keep"
             ELSE IF pc[t] = "find" THEN "post" ELSE "raise")
  /\ UNCHANGED <<provider, remembered, ledger, lock, key, answers, faults>>

(* A bug the properties must notice: the lookup of _find_order_by_receipt  *)
(* only after a failed POST.                                               *)
FindLate(t) ==
  /\ pc[t] \in {"find", "recover"}
  /\ LET found == IF pc[t] = "find" THEN {} ELSE Matches(key[t]) IN
     /\ match' = [match EXCEPT ![t] =
          IF Cardinality(found) = 1 THEN CHOOSE id \in found : TRUE ELSE None]
     /\ Goto(t, IF Cardinality(found) = 1 THEN "keep"
                ELSE IF pc[t] = "find" /\ found = {} THEN "post" ELSE "raise")
  /\ UNCHANGED <<provider, remembered, ledger, lock, key, answers, faults>>

(* _find_order_by_receipt and _validate_order, before the POST and after a *)
(* failed one: several matches are refused.                                *)
Find(t) ==
  /\ pc[t] \in {"find", "recover"}
  /\ LET found == Matches(key[t]) IN
     /\ match' = [match EXCEPT ![t] =
          IF Cardinality(found) = 1 THEN CHOOSE id \in found : TRUE ELSE None]
     /\ Goto(t, IF Cardinality(found) = 1 THEN "keep"
                ELSE IF pc[t] = "find" /\ found = {} THEN "post" ELSE "raise")
  /\ UNCHANGED <<provider, remembered, ledger, lock, key, answers, faults>>

(* The lookup itself may fail. *)
FindFails(t) ==
  /\ pc[t] \in {"find", "recover"} /\ Fault
  /\ Goto(t, "raise")
  /\ UNCHANGED <<provider, remembered, ledger, lock, key, match, answers>>

Post(t) ==
  /\ pc[t] = "post"
  /\ placed' = Append(placed, key[t])
  /\ match' = [match EXCEPT ![t] = Len(placed')]
  /\ Goto(t, "keep")
  /\ UNCHANGED <<late, underway, remembered, ledger, lock, key, answers, faults>>

(* RazorpayAPIError or RazorpayTransportError: the order was refused, or   *)
(* made, or is still to be made.                                           *)
PostFails(t) ==
  /\ pc[t] = "post" /\ Fault
  /\ \/ UNCHANGED provider
     \/ placed' = Append(placed, key[t]) /\ UNCHANGED underway
     \/ /\ late
        /\ underway' = [underway EXCEPT ![key[t]] = @ + 1] /\ UNCHANGED placed
  /\ Goto(t, "recover")
  /\ UNCHANGED <<late, remembered, ledger, lock, key, match, answers>>

Keep(t) ==
  /\ pc[t] = "keep"
  /\ remembered' = [key |-> key[t], id |-> match[t]]
  /\ ledger' = [ledger EXCEPT ![key[t]] = match[t]]
  /\ answers' = answers \cup {<<key[t], match[t]>>}
  /\ lock' = (IF lock = t THEN None ELSE lock) /\ Goto(t, "idle")
  /\ UNCHANGED <<provider, key, match, faults>>

(* A bug the properties must notice: a failure is remembered as an order. *)
RaiseRemembering(t) ==
  /\ pc[t] = "raise"
  /\ remembered' = [key |-> key[t], id |-> 0]
  /\ lock' = (IF lock = t THEN None ELSE lock) /\ Goto(t, "idle")
  /\ UNCHANGED <<provider, ledger, key, match, answers, faults>>

Raise(t) ==
  /\ pc[t] = "raise"
  /\ lock' = (IF lock = t THEN None ELSE lock) /\ Goto(t, "idle")
  /\ UNCHANGED <<provider, remembered, ledger, key, match, answers, faults>>

Land(k) ==
  /\ underway[k] > 0
  /\ underway' = [underway EXCEPT ![k] = @ - 1]
  /\ placed' = Append(placed, k)
  /\ UNCHANGED <<late, remembered, ledger, lock, pc, key, match, answers, faults>>

Restart ==
  /\ Fault /\ Boot
  /\ UNCHANGED <<provider, key, answers>>

Step(t) == Enter(t) \/ Find(t) \/ Post(t) \/ Keep(t) \/ Raise(t)

Next ==
  \/ \E t \in Thread : Step(t) \/ FindFails(t) \/ PostFails(t)
  \/ \E t \in Thread, k \in Key : Call(t, k)
  \/ \E k \in Key : Land(k)
  \/ Restart

(* Calls go on, and whoever needs the order asks again. *)
Spec     == Init /\ [][Next]_vars
FairSpec == /\ Spec
            /\ \A t \in Thread : WF_vars(Step(t))
            /\ SF_vars(\E t \in Thread, k \in Key : Call(t, k))

-------------------------------------------------------------------------------
TypeOK ==
  /\ placed \in Seq(Key) /\ late \in BOOLEAN /\ underway \in [Key -> Nat]
  /\ remembered \in Order \cup {None}
  /\ ledger \in [Key -> Nat \cup {None}]
  /\ lock \in Thread \cup {None}
  /\ pc \in [Thread -> {"idle", "lock", "find", "post", "recover", "keep", "raise"}]
  /\ key \in [Thread -> Key] /\ match \in [Thread -> Nat \cup {None}]
  /\ answers \subseteq Key \X DOMAIN placed
  /\ faults \in 0..MaxFaults

(* Failed requests, lost answers, threads and restarts never make a second *)
(* order with one receipt, as long as no POST lands late.                  *)
OneOrderPerReceipt == ~late => \A k \in Key : Cardinality(Matches(k)) <= 1

(* All callers of one key, before and after restarts and even with late    *)
(* POSTs, are given the same order: several matches are refused.           *)
CallersAgree == \A a, b \in answers : a[1] = b[1] => a[2] = b[2]

(* Within one run of the server a transaction is only ever given one       *)
(* order, under whatever key (the check of _orders).                       *)
OneOrderPerRun ==
  \A j, k \in Key : None \notin {ledger[j], ledger[k]} => ledger[j] = ledger[k]

(* When the faults are over a caller that keeps asking gets an order, as   *)
(* long as no POST lands late (two matches are refused for good).          *)
SomebodyIsAnswered == ~late => <>(answers # {})
===============================================================================
