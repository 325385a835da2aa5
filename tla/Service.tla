-------------------------------- MODULE Service --------------------------------
(***************************************************************************)
(* The JSON service: CheckpointDApi.handle of api.py in front of the       *)
(* routes of CheckpointDService in service.py, and the prepared execution  *)
(* adapter of execution.py behind the commit route.  A request writes      *)
(* audit records at several points; each write may fail, and the process   *)
(* may die between any two steps.  The audit log is taken as Audit shows   *)
(* it, the ledger as IdempotencyLedger, the lifecycle as Lifecycle: here a *)
(* run of it may or may not move the payment and ends with a processed     *)
(* refund, a pending one, or an exception.                                 *)
(***************************************************************************)
EXTENDS Naturals, FiniteSets

CONSTANTS
  Request,
  SinkMayFail,  \* whether the logger has a sink that can raise
  MaxFaults,    \* bound: failed audit writes, raising sinks, crashes
  None

ServiceAssumption ==
  SinkMayFail \in BOOLEAN /\ MaxFaults \in Nat /\ None \notin Request

(* What can be asked.  "good" names the prepared operation, "unknown"      *)
(* another one, "noOperation" none; "unreadable" and "foreign" stop at the *)
(* boundary.                                                               *)
Kind == {"good", "unknown", "noOperation", "unreadable", "foreign", "webhook",
         "simulate", "badScenario", "status"}
Commit == {"good", "unknown", "noOperation"}

VARIABLES
  gates,     \* "open": service_test_execution_ready; "shut": no evidence is
             \* pinned; "broken": the pinned evidence fails to load
  opened,    \* requests during whose life the gates have been open
  expired,   \* the handoff's expiry has passed
  kind, pc,  \* per request
  records,   \* audit records: pairs of request and event type
  claim,     \* the ledger entry of the operation: its owner or None
  result,    \* the ledger keeps a completed result
  effect,    \* of the operation at the provider
  called,    \* requests whose run of the lifecycle may have called it
  answer,    \* per request, or None
  faults

vars == <<gates, opened, expired, kind, pc, records, claim, result, effect, called, answer, faults>>
world == <<gates, opened, expired, kind>>
run == <<claim, result, effect, called>>

Init ==
  /\ gates \in {"open", "shut"} /\ opened = {} /\ expired = FALSE
  /\ kind \in [Request -> Kind]
  /\ pc = [r \in Request |-> "new"]
  /\ records = {} /\ claim = None /\ result = FALSE
  /\ effect = "none" /\ called = {}
  /\ answer = [r \in Request |-> None] /\ faults = 0

Goto(r, place) == pc' = [pc EXCEPT ![r] = place] /\ UNCHANGED answer

Fault == faults < MaxFaults /\ faults' = faults + 1

(* A bug the properties must notice: an answer leaves out that the         *)
(* provider was called.                                                    *)
ReplyTersely(r, code, said) ==
  /\ answer' = [answer EXCEPT ![r] = [code |-> code, called |-> IF code = 503 THEN "no" ELSE said]]
  /\ pc' = [pc EXCEPT ![r] = "over"]
  /\ UNCHANGED faults

(* _finish and the reply; a sink that raises ends in handle's last clause. *)
Reply(r, code, said) ==
  \/ /\ answer' = [answer EXCEPT ![r] = [code |-> code, called |-> said]]
     /\ pc' = [pc EXCEPT ![r] = "over"]
     /\ UNCHANGED faults
  \/ SinkMayFail /\ Fault /\ Goto(r, "raised")

(* audit_log.append; Stored and Lost are what follows in the handler. *)
Stored(r, type) == records' = records \cup {<<r, type>>}
Lost == Fault /\ UNCHANGED records

(* _audit_failure *)
Denied503(r) ==
  /\ Lost
  /\ pc' = [pc EXCEPT ![r] = "over"]
  /\ answer' = [answer EXCEPT ![r] = [code |-> 503, called |-> "no"]]

-------------------------------------------------------------------------------
(* _reject: the record may be lost without changing the answer. *)
RejectWith(r, code) ==
  /\ Stored(r, "rejected") \/ UNCHANGED records
  /\ pc' = [pc EXCEPT ![r] = "over"]
  /\ answer' = [answer EXCEPT ![r] = [code |-> code, called |-> "no"]]
  /\ UNCHANGED <<world, run, faults>>

Reject(r) == RejectWith(r, 400)

(* The last clause of handle: whatever raised, nothing is said to have     *)
(* been called.                                                            *)
RejectRaised(r) == pc[r] = "raised" /\ RejectWith(r, 500)

(* __call__: no usable length, or no body of that length. *)
RejectUnread(r) == pc[r] = "new" /\ kind[r] = "unreadable" /\ Reject(r)

(* handle: route, method, limiter, bearer token, size, type and JSON. *)
RejectAtRoute(r) == pc[r] = "new" /\ kind[r] = "foreign" /\ Reject(r)

(* The webhook route: Webhook says what becomes of the event. *)
HandOnWebhook(r) ==
  /\ pc[r] = "new" /\ kind[r] = "webhook"
  /\ \/ Reject(r)
     \/ Reply(r, 200, "no") /\ UNCHANGED <<world, records, run>>

(* health, readiness, status; evidence that fails to load raises.          *)
Report(r) ==
  /\ pc[r] = "new" /\ kind[r] = "status"
  /\ IF gates = "broken" THEN Goto(r, "raised") /\ UNCHANGED faults
     ELSE Reply(r, IF gates = "open" THEN 200 ELSE 503, "no")
  /\ UNCHANGED <<world, records, run>>

Accept(r) ==
  /\ pc[r] = "new" /\ kind[r] \in Commit \cup {"simulate", "badScenario"}
  /\ Goto(r, "request")
  /\ opened' = IF gates = "open" THEN opened \cup {r} ELSE opened
  /\ UNCHANGED <<gates, expired, kind, records, run, faults>>

(* The first record of simulate and of request_commit. *)
RecordRequest(r) ==
  /\ pc[r] = "request"
  /\ \/ /\ Stored(r, "requested")
        /\ Goto(r, IF kind[r] \in Commit THEN "gate" ELSE "simulate")
        /\ UNCHANGED faults
     \/ Denied503(r)
  /\ UNCHANGED <<world, run>>

(* run of the simulated workflow; an unknown scenario is rejected and a    *)
(* failing workflow reported, both after a record of their own.            *)
Simulate(r) ==
  /\ pc[r] = "simulate"
  /\ \/ \E code \in IF kind[r] = "simulate" THEN {200, 503} ELSE {400} :
          Stored(r, "simulated") /\ Reply(r, code, "no")
     \/ Denied503(r)
  /\ UNCHANGED <<world, run>>

(* A bug the properties must notice: readiness is not asked for.           *)
GateOpen(r) ==
  /\ pc[r] = "gate"
  /\ Goto(r, IF kind[r] # "noOperation" THEN "start" ELSE "deny")
  /\ UNCHANGED <<world, records, run, faults>>

(* The status source is asked anew for each request. *)
Gate(r) ==
  /\ pc[r] = "gate"
  /\ Goto(r, CASE gates = "broken" -> "raised"
               [] gates = "open" /\ kind[r] # "noOperation" -> "start"
               [] OTHER -> "deny")
  /\ UNCHANGED <<world, records, run, faults>>

Deny(r) ==
  /\ pc[r] = "deny"
  /\ \/ /\ Stored(r, "denied")
        /\ \E code \in {423} \cup (IF kind[r] = "noOperation" THEN {400} ELSE {}) :
             Reply(r, code, "no")
     \/ Denied503(r)
  /\ UNCHANGED <<world, run>>

(* A bug the properties must notice: the run starts without its record.    *)
StartAnyhow(r) ==
  /\ pc[r] = "start"
  /\ (Stored(r, "started") /\ UNCHANGED faults) \/ Lost
  /\ Goto(r, "execute")
  /\ UNCHANGED <<world, run>>

Start(r) ==
  /\ pc[r] = "start"
  /\ \/ Stored(r, "started") /\ Goto(r, "execute") /\ UNCHANGED faults
     \/ Denied503(r)
  /\ UNCHANGED <<world, run>>

-------------------------------------------------------------------------------
(* A bug the properties must notice: a kept result is not replayed. *)
ClaimAgain(r) ==
  /\ pc[r] = "execute"
  /\ IF kind[r] = "unknown" THEN Goto(r, "failNotStarted") /\ UNCHANGED claim
     ELSE claim = None /\ claim' = r /\ Goto(r, "perform")
  /\ UNCHANGED <<world, records, result, effect, called, faults>>

(* execute: an unknown operation, a kept result, or the claim of the       *)
(* ledger entry; an entry that is owned is waited for.                     *)
Claim(r) ==
  /\ pc[r] = "execute"
  /\ IF kind[r] = "unknown" THEN Goto(r, "failNotStarted") /\ UNCHANGED claim
     ELSE IF result THEN Goto(r, "complete") /\ UNCHANGED claim
     ELSE claim = None /\ claim' = r /\ Goto(r, "perform")
  /\ UNCHANGED <<world, records, result, effect, called, faults>>

(* perform: an expired operation goes on only if it is already bound. *)
Perform(r) ==
  /\ pc[r] = "perform"
  /\ IF expired /\ effect = "none"
     THEN claim' = None /\ Goto(r, "failNotStarted") /\ UNCHANGED called
     ELSE UNCHANGED claim /\ called' = called \cup {r} /\ Goto(r, "lifecycle")
  /\ UNCHANGED <<world, records, result, effect, faults>>

Reached(e) == CASE e = "none" -> {"none", "pending", "refunded"}
                [] e = "pending" -> {"pending", "refunded"}
                [] OTHER -> {"refunded"}

(* A bug the properties must notice: an exception keeps the claim. *)
LifecycleKeepsClaim(r) ==
  /\ pc[r] = "lifecycle"
  /\ effect' \in Reached(effect)
  /\ \/ effect' = "refunded" /\ result' = TRUE /\ claim' = None /\ Goto(r, "complete")
     \/ effect' = "pending" /\ UNCHANGED result /\ claim' = None /\ Goto(r, "observed")
     \/ UNCHANGED <<claim, result>> /\ Goto(r, "failUnknown")
  /\ UNCHANGED <<world, records, called, faults>>

(* complete_test_lifecycle; only a processed refund is kept as the result, *)
(* a pending one (_PendingExecution) and an exception free the entry.      *)
LifecycleEnds(r) ==
  /\ pc[r] = "lifecycle"
  /\ claim' = None
  /\ effect' \in Reached(effect)
  /\ \/ effect' = "refunded" /\ result' = TRUE /\ Goto(r, "complete")
     \/ effect' = "pending" /\ UNCHANGED result /\ Goto(r, "observed")
     \/ UNCHANGED result /\ Goto(r, "failUnknown")
  /\ UNCHANGED <<world, records, called, faults>>

(* A TestExecutionError raised before, and one after, anything was sent;   *)
(* the record of the failure may be lost.                                  *)
FailNotStarted(r) ==
  /\ pc[r] = "failNotStarted"
  /\ Stored(r, "failed") \/ UNCHANGED records
  /\ Reply(r, 503, "no")
  /\ UNCHANGED <<world, run>>

FailUnknown(r) ==
  /\ pc[r] = "failUnknown"
  /\ Stored(r, "failed") \/ UNCHANGED records
  /\ Reply(r, 503, "unknown")
  /\ UNCHANGED <<world, run>>

(* A bug the properties must notice: success does not wait for its record. *)
CompleteUnrecorded(r) ==
  /\ pc[r] \in {"complete", "observed"}
  /\ Stored(r, "completed") \/ UNCHANGED records
  /\ Reply(r, IF pc[r] = "complete" THEN 200 ELSE 202, "yes")
  /\ UNCHANGED <<world, run>>

(* The record of the outcome, or EXECUTED_RECONCILIATION_REQUIRED. *)
Complete(r) ==
  /\ pc[r] \in {"complete", "observed"}
  /\ \/ Stored(r, "completed") /\ Reply(r, IF pc[r] = "complete" THEN 200 ELSE 202, "yes")
     \/ /\ Lost
        /\ pc' = [pc EXCEPT ![r] = "over"]
        /\ answer' = [answer EXCEPT ![r] = [code |-> 503, called |-> "yes"]]
  /\ UNCHANGED <<world, run>>

-------------------------------------------------------------------------------
(* The process dies with everything in flight; the claim it held lapses. *)
Crash ==
  /\ \E r \in Request : pc[r] \notin {"new", "over"}
  /\ Fault
  /\ pc' = [r \in Request |-> IF pc[r] = "new" THEN "new" ELSE "over"]
  /\ claim' = None
  /\ effect' \in IF \E r \in Request : pc[r] = "lifecycle" THEN Reached(effect) ELSE {effect}
  /\ UNCHANGED <<world, records, result, called, answer>>

(* The pinned files are changed under the running server, or put back. *)
Tamper ==
  /\ gates = "open" /\ gates' = "broken"
  /\ UNCHANGED <<opened, expired, kind, pc, records, run, answer, faults>>

Restore ==
  /\ gates = "broken" /\ gates' = "open"
  /\ opened' = opened \cup {r \in Request : pc[r] \notin {"new", "over"}}
  /\ UNCHANGED <<expired, kind, pc, records, run, answer, faults>>

Expire ==
  /\ ~expired /\ expired' = TRUE
  /\ UNCHANGED <<gates, opened, kind, pc, records, run, answer, faults>>

Step(r) ==
  \/ RejectRaised(r) \/ RejectUnread(r) \/ RejectAtRoute(r) \/ HandOnWebhook(r) \/ Report(r)
  \/ Accept(r) \/ RecordRequest(r) \/ Simulate(r) \/ Gate(r) \/ Deny(r)
  \/ Start(r) \/ Claim(r) \/ Perform(r) \/ LifecycleEnds(r)
  \/ FailNotStarted(r) \/ FailUnknown(r) \/ Complete(r)

Next == (\E r \in Request : Step(r)) \/ Crash \/ Tamper \/ Restore \/ Expire

Spec     == Init /\ [][Next]_vars
FairSpec == Spec /\ \A r \in Request : WF_vars(Step(r))

-------------------------------------------------------------------------------
TypeOK ==
  /\ gates \in {"open", "shut", "broken"} /\ opened \subseteq Request /\ expired \in BOOLEAN /\ result \in BOOLEAN
  /\ kind \in [Request -> Kind]
  /\ pc \in [Request -> {"new", "request", "simulate", "gate", "deny", "start", "execute",
       "perform", "lifecycle", "failNotStarted", "failUnknown", "complete", "observed",
       "raised", "over"}]
  /\ records \subseteq Request \X {"rejected", "requested", "simulated", "denied",
                                   "started", "failed", "completed"}
  /\ claim \in Request \cup {None}
  /\ effect \in {"none", "pending", "refunded"}
  /\ called \subseteq Request
  /\ \A r \in Request : answer[r] # None =>
       answer[r].code \in {200, 202, 400, 423, 500, 503} /\ answer[r].called \in {"no", "yes", "unknown"}
  /\ faults \in 0..MaxFaults

(* No answer says that the provider was not called when the request's run  *)
(* may have called it: "provider-call uncertainty is represented           *)
(* truthfully" (the comment on the last clause of handle).                 *)
AnswersAreTruthful ==
  \A r \in called : answer[r] # None => answer[r].called # "no"

(* The same of every answer but that last clause's own, which it also      *)
(* gives when a log sink raises behind a finished execution.               *)
HandlersAreTruthful ==
  \A r \in called : answer[r] # None /\ answer[r].code # 500 => answer[r].called # "no"

(* Whatever fails or dies, a request that may have called the provider has *)
(* left the records of its arrival and of its start.                       *)
CallsLeaveATrace ==
  \A r \in called : <<r, "requested">> \in records /\ <<r, "started">> \in records

(* A commit is reported as done only with the record of its outcome, and   *)
(* as finished only once the refund has been processed.                    *)
SuccessIsRecorded ==
  \A r \in Request :
    answer[r] # None /\ kind[r] \in Commit /\ answer[r].code \in {200, 202} =>
      /\ <<r, "completed">> \in records
      /\ answer[r].code = 200 => effect = "refunded"

(* A request calls the provider only if the gates were open at some time   *)
(* since it arrived: the status is read per request, not per process.      *)
ClosedGatesDeny == called \subseteq opened

(* After a completed run no request calls the provider again; until then   *)
(* a pending refund can be looked at again.                                *)
CompletedRunIsReplayed == [][result => called' = called]_vars

(* Every request comes to an end, whoever holds the operation dies. *)
RequestsEnd == \A r \in Request : pc[r] # "new" ~> pc[r] = "over"
===============================================================================
