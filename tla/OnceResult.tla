------------------------------ MODULE OnceResult ------------------------------
(***************************************************************************)
(* What an idempotency ledger promises its callers, with no rows, leases   *)
(* or owners: the result of a key is decided once, by one call, and every  *)
(* call that returns for that key made the same request and returns that   *)
(* result.  SQLiteIdempotencyLedger (durable.py) is shown to implement it  *)
(* by IdempotencyLedger.                                                   *)
(***************************************************************************)

CONSTANTS
  Call,         \* calls of execute(); each has its own owner token
  Key,          \* idempotency keys (a scope and a key)
  Fingerprint,  \* digests of the request a key is used for
  None          \* no value

VARIABLES
  request,      \* the key and fingerprint each call was made with
  decided,      \* the call whose result a key keeps, or None
  outcome       \* the call whose result each call returned, or None

vars == <<request, decided, outcome>>

Init ==
  /\ request \in [Call -> [key: Key, print: Fingerprint]]
  /\ decided = [k \in Key |-> None]
  /\ outcome = [c \in Call |-> None]

(* A call's own result becomes the result of its key. *)
Decide(c) ==
  /\ decided[request[c].key] = None
  /\ outcome[c] = None
  /\ decided' = [decided EXCEPT ![request[c].key] = c]
  /\ outcome' = [outcome EXCEPT ![c] = c]
  /\ UNCHANGED request

(* A call returns the result the key already has; d made the same request. *)
Repeat(c) ==
  /\ outcome[c] = None
  /\ \E d \in Call :
       /\ decided[request[c].key] = d
       /\ request[d] = request[c]
       /\ outcome' = [outcome EXCEPT ![c] = d]
  /\ UNCHANGED <<request, decided>>

Next == \E c \in Call : Decide(c) \/ Repeat(c)

Spec == Init /\ [][Next]_vars
===============================================================================
