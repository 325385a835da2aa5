------------------------------- MODULE MCServer -------------------------------
(***************************************************************************)
(* A server from its start to its answers, in one model for TLC: how a     *)
(* process comes up and loads its evidence (Startup), what it does with    *)
(* requests (Service), and the status both ask for leave (SafetyStatus),   *)
(* for every combination of gates that its constructor is given.  A        *)
(* behaviour is about one of them, the part; the others stay as they began.*)
(***************************************************************************)
EXTENDS Startup

CONSTANTS
  Parts,                                       \* what is looked at
  Request, SinkMayFail, MaxFaults, None,       \* Service
  State                                        \* of a gate

VARIABLES
  part,
  gates, opened, expired, kind, place, records, claim, result, effect, called,
  reply, faults,
  status, built                                \* a SafetyStatus, and whether it was made

serviceVars == <<gates, opened, expired, kind, place, records, claim, result,
                 effect, called, reply, faults>>
statusVars  == <<status, built>>

V == INSTANCE Service WITH pc <- place, answer <- reply

ASSUME ServiceAssumed == V!ServiceAssumption

Construct ==
  /\ built = "no"
  /\ built' = IF Constructible(status) THEN "yes" ELSE "refused"
  /\ UNCHANGED status

MCInit ==
  /\ part \in Parts
  /\ Init /\ V!Init /\ built = "no"
  /\ part # "start" => \A f \in File : disk[f] = 1
  /\ part # "service" => gates = "shut" /\ kind = [r \in Request |-> "status"]
  /\ status \in IF part = "status" THEN Inputs(State) ELSE {DemoStatus}

MCNext ==
  /\ UNCHANGED part
  /\ \/ part = "start" /\ Next /\ UNCHANGED <<serviceVars, statusVars>>
     \/ part = "service" /\ V!Next /\ UNCHANGED <<vars, statusVars>>
     \/ part = "status" /\ Construct /\ UNCHANGED <<vars, serviceVars>>

MCFairness ==
  /\ WF_vars(Process)
  /\ \A r \in Request : WF_serviceVars(part = "service" /\ V!Step(r))

MCSpec == MCInit /\ [][MCNext]_<<part, vars, serviceVars, statusVars>> /\ MCFairness

-------------------------------------------------------------------------------
(* A ready answer is earned: by one bundle, all of it at its pin although  *)
(* its files are replaced one by one while it is read, and by a preflight  *)
(* of this very process; the log counts each contact first                 *)
(* (load_authoritative_evidence, prepare_test_runtime).                    *)
ReadyIsEarned ==
  /\ TypeOK
  /\ ReadyIsOneBundle /\ ReadyIsPreflighted /\ StatusIsBuilt /\ ContactsAreRecorded

(* Readiness, the lists of blockers and the constructor's rules, written   *)
(* apart, agree on every status: the reasons given for a denial are the    *)
(* reasons of it; enabled calls are ready calls; only the submission gate  *)
(* may be open in an irreversible commit (checkpoint_status.py).           *)
StatusIsConsistent ==
  built = "yes" =>
    /\ \A adapter \in BOOLEAN :
         ServiceReady(status, adapter) <=> ServiceBlockers(status, adapter) = {}
    /\ status.calls_enabled => TestExecutionReady(status)
    /\ IrreversibleCommitReady(status) => Blockers(status) \subseteq {"E"}
    /\ Blockers(status) = {} => IrreversibleCommitReady(status)

(* Whatever fails or dies, a request that may have called the provider was *)
(* let through by open gates, left the records of its arrival and start,   *)
(* and is not told by its handler that nothing was called; success is told *)
(* only with the record of the outcome; and after a completed run nobody   *)
(* calls again (request_commit of service.py, perform of execution.py).    *)
CallsAreAccountedFor ==
  /\ [](/\ V!TypeOK /\ V!HandlersAreTruthful /\ V!CallsLeaveATrace
        /\ V!ClosedGatesDeny /\ V!SuccessIsRecorded)
  /\ V!CompletedRunIsReplayed

(* A start ends with a server or without a process, and a request with an  *)
(* answer or with the process, whoever dies holding the operation.         *)
StartsAndRequestsFinish ==
  StartsAndRequestsEnd /\ (part = "service" => V!RequestsEnd)

(* "provider-call uncertainty is represented truthfully", in all answers.  *)
AnswersAreTruthful == V!AnswersAreTruthful
===============================================================================
