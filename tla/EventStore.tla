------------------------------- MODULE EventStore -------------------------------
(***************************************************************************)
(* What the webhook receiver promises, without documents, an index or      *)
(* retries: events become readable one by one and stay so, each as it was  *)
(* first received, and only a readable event is acknowledged.              *)
(***************************************************************************)

CONSTANTS Event, Receipt, None

VARIABLES
  readable,  \* the first receipt of each event that records() returns, or None
  acked      \* the events that were answered with success

vars == <<readable, acked>>

Init == readable = [e \in Event |-> None] /\ acked = {}

Publish(e, r) ==
  /\ readable[e] = None
  /\ readable' = [readable EXCEPT ![e] = r]
  /\ UNCHANGED acked

Acknowledge(e) ==
  /\ readable[e] # None
  /\ acked' = acked \cup {e}
  /\ UNCHANGED readable

Next == \E e \in Event : Acknowledge(e) \/ \E r \in Receipt : Publish(e, r)

Spec == Init /\ [][Next]_vars
===============================================================================
