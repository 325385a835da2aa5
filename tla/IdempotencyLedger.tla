--------------------------- MODULE IdempotencyLedger ---------------------------
(***************************************************************************)
(* SQLiteIdempotencyLedger of durable.py: execute() claims a row for its   *)
(* key, runs the operation outside every transaction, and then either      *)
(* completes the row or deletes it.  A crash leaves the row PENDING until  *)
(* its lease runs out, after which another call takes it over - also when  *)
(* the first call is only slow and still running.                          *)
(*                                                                         *)
(* A call is one execution of execute(), so a call is its own owner token  *)
(* (a fresh uuid).  Each BEGIN IMMEDIATE ... COMMIT block is one action;   *)
(* the clock read that precedes the claim's block is another one, so a     *)
(* call that waits for SQLite's write lock uses an old reading.            *)
(***************************************************************************)
EXTENDS Naturals

CONSTANTS Call, Key, Fingerprint, Lease, None

ASSUME LeaseAssumption == Lease \in Nat \ {0}
ASSUME NoneAssumption  == None \notin Call \cup Fingerprint

VARIABLES
  row,        \* idempotency_operations, by key
  clock,      \* the host's clock, as far as leases can tell
  request,    \* the arguments of each call
  pc,         \* where each call stands
  now,        \* the clock reading of each call's current claim attempt
  outcome,    \* the call whose result each returned call got
  effects,    \* the calls whose operation took effect
  deadline,   \* when the lease each call was granted runs out
  overran     \* the calls that were still at work when their lease ran out

vars == <<row, clock, request, pc, now, outcome, effects, deadline, overran>>

Absent == [status |-> "ABSENT", print |-> None, owner |-> None,
           expires |-> 0, result |-> None]
Pending(p, c, t) == [status |-> "PENDING", print |-> p, owner |-> c,
                     expires |-> t, result |-> None]
Completed(p, c) == [status |-> "COMPLETED", print |-> p, owner |-> None,
                    expires |-> 0, result |-> c]

KeyOf(c)   == request[c].key
PrintOf(c) == request[c].print
RowOf(c)   == row[KeyOf(c)]

(* WHERE ... status = 'PENDING' AND owner_token = ? *)
Owns(c) == RowOf(c).status = "PENDING" /\ RowOf(c).owner = c

Working == {"running", "performed"}
Ended   == {"returned", "raised", "conflict", "crashed"}

Init ==
  /\ row = [k \in Key |-> Absent]
  /\ clock = 0
  /\ request \in [Call -> [key: Key, print: Fingerprint]]
  /\ pc = [c \in Call |-> "new"]
  /\ now = [c \in Call |-> 0]
  /\ outcome = [c \in Call |-> None]
  /\ effects = {}
  /\ deadline = [c \in Call |-> 0]
  /\ overran = {}

-------------------------------------------------------------------------------
(* The claim loop. *)

ReadClock(c) ==
  /\ pc[c] = "new"
  /\ now' = [now EXCEPT ![c] = clock]
  /\ pc' = [pc EXCEPT ![c] = "claiming"]
  /\ UNCHANGED <<row, clock, request, outcome, effects, deadline, overran>>

(* The row is written with this call as owner.  The lease counts from the  *)
(* clock reading, so it may already be over when the row is written.       *)
TakeLease(c) ==
  LET expires == now[c] + Lease IN
  /\ row' = [row EXCEPT ![KeyOf(c)] = Pending(PrintOf(c), c, expires)]
  /\ pc' = [pc EXCEPT ![c] = "running"]
  /\ deadline' = [deadline EXCEPT ![c] = expires]
  /\ overran' = IF expires <= clock THEN overran \cup {c} ELSE overran
  /\ UNCHANGED <<clock, request, now, outcome, effects>>

Insert(c) ==
  /\ pc[c] = "claiming"
  /\ RowOf(c).status = "ABSENT"
  /\ TakeLease(c)

(* The key was used for another request: IdempotencyConflict. *)
Mismatch(c) ==
  /\ pc[c] = "claiming"
  /\ RowOf(c).status # "ABSENT"
  /\ RowOf(c).print # PrintOf(c)
  /\ pc' = [pc EXCEPT ![c] = "conflict"]
  /\ UNCHANGED <<row, clock, request, now, outcome, effects, deadline, overran>>

(* A bug the properties must notice: the wrong column is returned. *)
ReplayFingerprint(c) ==
  /\ pc[c] = "claiming"
  /\ RowOf(c).status = "COMPLETED"
  /\ RowOf(c).print = PrintOf(c)
  /\ outcome' = [outcome EXCEPT ![c] = RowOf(c).print]
  /\ pc' = [pc EXCEPT ![c] = "returned"]
  /\ UNCHANGED <<row, clock, request, now, effects, deadline, overran>>

Replay(c) ==
  /\ pc[c] = "claiming"
  /\ RowOf(c).status = "COMPLETED"
  /\ RowOf(c).print = PrintOf(c)
  /\ outcome' = [outcome EXCEPT ![c] = RowOf(c).result]
  /\ pc' = [pc EXCEPT ![c] = "returned"]
  /\ UNCHANGED <<row, clock, request, now, effects, deadline, overran>>

(* Bugs the properties must notice: a live lease is taken over; only the   *)
(* owner may take its own row over.                                        *)
TakeOverLive(c) ==
  /\ pc[c] = "claiming" /\ RowOf(c).status = "PENDING" /\ RowOf(c).print = PrintOf(c)
  /\ TakeLease(c)
TakeOverOwn(c) ==
  /\ pc[c] = "claiming" /\ RowOf(c).print = PrintOf(c) /\ Owns(c)
  /\ RowOf(c).expires <= now[c]
  /\ TakeLease(c)

(* lease_expires_epoch <= now *)
TakeOver(c) ==
  /\ pc[c] = "claiming"
  /\ RowOf(c).status = "PENDING"
  /\ RowOf(c).print = PrintOf(c)
  /\ RowOf(c).expires <= now[c]
  /\ TakeLease(c)

(* Another call holds a live lease: sleep, then try again. *)
Wait(c) ==
  /\ pc[c] = "claiming"
  /\ RowOf(c).status = "PENDING"
  /\ RowOf(c).print = PrintOf(c)
  /\ RowOf(c).expires > now[c]
  /\ pc' = [pc EXCEPT ![c] = "new"]
  /\ UNCHANGED <<row, clock, request, now, outcome, effects, deadline, overran>>

-------------------------------------------------------------------------------
(* The operation and what follows it. *)

Perform(c) ==
  /\ pc[c] = "running"
  /\ effects' = effects \cup {c}
  /\ pc' = [pc EXCEPT ![c] = "performed"]
  /\ UNCHANGED <<row, clock, request, now, outcome, deadline, overran>>

(* The operation raises, before its effect or after it. *)
OperationRaises(c) ==
  /\ pc[c] \in Working
  /\ pc' = [pc EXCEPT ![c] = "releasing"]
  /\ UNCHANGED <<row, clock, request, now, outcome, effects, deadline, overran>>

(* A bug the properties must notice: a lost row is completed all the same. *)
CompleteAnyway(c) ==
  /\ pc[c] = "performed"
  /\ row' = [row EXCEPT ![KeyOf(c)] = Completed(PrintOf(c), c)]
  /\ outcome' = [outcome EXCEPT ![c] = c]
  /\ pc' = [pc EXCEPT ![c] = "returned"]
  /\ UNCHANGED <<clock, request, now, effects, deadline, overran>>

Complete(c) ==
  /\ pc[c] = "performed"
  /\ Owns(c)
  /\ row' = [row EXCEPT ![KeyOf(c)] = Completed(PrintOf(c), c)]
  /\ outcome' = [outcome EXCEPT ![c] = c]
  /\ pc' = [pc EXCEPT ![c] = "returned"]
  /\ UNCHANGED <<clock, request, now, effects, deadline, overran>>

(* DurableStateConflict: "idempotency lease was lost before completion". *)
LeaseLost(c) ==
  /\ pc[c] = "performed"
  /\ ~Owns(c)
  /\ pc' = [pc EXCEPT ![c] = "releasing"]
  /\ UNCHANGED <<row, clock, request, now, outcome, effects, deadline, overran>>

(* A bug the properties must notice: cleanup deletes whoever's row it is. *)
ReleaseAnyOwner(c) ==
  /\ pc[c] = "releasing"
  /\ row' = [row EXCEPT ![KeyOf(c)] = IF @.status = "PENDING" THEN Absent ELSE @]
  /\ pc' = [pc EXCEPT ![c] = "raised"]
  /\ UNCHANGED <<clock, request, now, outcome, effects, deadline, overran>>

(* except BaseException: delete the row if this call still owns it. *)
Release(c) ==
  /\ pc[c] = "releasing"
  /\ row' = IF Owns(c) THEN [row EXCEPT ![KeyOf(c)] = Absent] ELSE row
  /\ pc' = [pc EXCEPT ![c] = "raised"]
  /\ UNCHANGED <<clock, request, now, outcome, effects, deadline, overran>>

(* The process dies; what it wrote stays. *)
Crash(c) ==
  /\ pc[c] \notin Ended
  /\ pc' = [pc EXCEPT ![c] = "crashed"]
  /\ UNCHANGED <<row, clock, request, now, outcome, effects, deadline, overran>>

(* Time is only seen through leases, so it passes while one is running. *)
Tick ==
  /\ \E k \in Key : row[k].status = "PENDING" /\ row[k].expires > clock
  /\ clock' = clock + 1
  /\ overran' = overran \cup
                  {c \in Call : pc[c] \in Working /\ deadline[c] <= clock + 1}
  /\ UNCHANGED <<row, request, pc, now, outcome, effects, deadline>>

Step(c) ==
  \/ ReadClock(c) \/ Insert(c) \/ Mismatch(c) \/ Replay(c) \/ TakeOver(c)
  \/ Wait(c) \/ Perform(c) \/ Complete(c) \/ LeaseLost(c) \/ Release(c)

Next ==
  \/ \E c \in Call : Step(c) \/ OperationRaises(c) \/ Crash(c)
  \/ Tick

(* A live process keeps executing and time passes; operations need not     *)
(* raise and processes need not crash.                                     *)
Fairness == WF_vars(Tick) /\ \A c \in Call : WF_vars(Step(c))

Spec     == Init /\ [][Next]_vars
FairSpec == Spec /\ Fairness

-------------------------------------------------------------------------------
TypeOK ==
  /\ row \in [Key -> [status: {"ABSENT", "PENDING", "COMPLETED"},
                      print: Fingerprint \cup {None},
                      owner: Call \cup {None},
                      expires: Nat,
                      result: Call \cup {None}]]
  /\ clock \in Nat
  /\ request \in [Call -> [key: Key, print: Fingerprint]]
  /\ pc \in [Call -> {"new", "claiming", "releasing"} \cup Working \cup Ended]
  /\ now \in [Call -> Nat]
  /\ outcome \in [Call -> Call \cup {None}]
  /\ effects \subseteq Call
  /\ deadline \in [Call -> Nat]
  /\ overran \subseteq Call

(* Why a call's effect may not be the only one of its key: it raised, its  *)
(* process died, or it outlived its lease.                                 *)
Excused(c) == pc[c] \in {"releasing", "raised", "crashed"} \/ c \in overran

(* An operation takes effect once per key: of two calls whose operations   *)
(* both took effect for one key, one raised, crashed or outlived its lease *)
(* (the claim, take-over and delete blocks of _claim and execute).         *)
ExecuteOnce ==
  \A c, d \in effects :
    c # d /\ KeyOf(c) = KeyOf(d) => Excused(c) \/ Excused(d)

(* Work without the row: a call that is still running its operation holds  *)
(* its PENDING row unless its own lease has run out - nobody takes a live  *)
(* lease and nobody else's cleanup deletes it.                             *)
LiveLeaseIsKept ==
  \A c \in Call : pc[c] \in Working => Owns(c) \/ deadline[c] <= clock

(* Whatever the interleaving, every call ends: no crash or abandoned row   *)
(* blocks the claim loop for ever.                                         *)
EveryCallEnds == \A c \in Call : <>(pc[c] \in Ended)

(* The rows, leases and take-overs implement the promise of OnceResult:    *)
(* one result per key, returned only to calls with the same request.       *)
Promise == INSTANCE OnceResult WITH
  decided <- [k \in Key |-> row[k].result]

ImplementsPromise == Promise!Spec
===============================================================================
