----------------------------- MODULE SafetyStatus -----------------------------
(***************************************************************************)
(* src/src/ecocommit/checkpoint_status.py: what the five gate reports, the *)
(* mode and the provider's state authorise.  The constructor refuses some  *)
(* combinations; readiness and the lists of blockers are computed apart    *)
(* from each other and from the constructor's rules, and have to agree.    *)
(***************************************************************************)
Checkpoint  == {"A", "B", "C", "D", "E"}
ProviderPrerequisites == {"A", "B", "C"}
ExecutionCheckpoints  == {"A", "B", "C", "D"}

Prerequisites ==
  [A |-> {}, B |-> {"A"}, C |-> {"A", "B"}, D |-> {"A", "B", "C"}, E |-> {"A", "B", "C", "D"}]

GateState == {"NOT_EVALUATED", "IN_PROGRESS", "PASSED", "FAILED", "BLOCKED"}
ExecutionMode  == {"SIMULATED", "REAL_PROVIDER_TEST"}
ProviderStatus == {"NOT_CONFIGURED", "SIMULATED", "RAZORPAY_TEST_MODE"}

(* evidence: whether the reference is a non-blank string. *)
GateReports(states) == [state : states, evidence : BOOLEAN]

Inputs(states) ==
  [gates : [Checkpoint -> GateReports(states)], mode : ExecutionMode,
   provider_status : ProviderStatus, credentials_verified : BOOLEAN,
   calls_enabled : BOOLEAN, final_integration_verified : BOOLEAN]

(* GateReport.__post_init__ and accepted. *)
ReportAllowed(report) == report.state = "PASSED" => report.evidence
Accepted(report) == report.state = "PASSED" /\ report.evidence

AllAccepted(s, checkpoints) == \A c \in checkpoints : Accepted(s.gates[c])

(* SafetyStatus.__post_init__ *)
Constructible(s) ==
  /\ \A c \in Checkpoint : ReportAllowed(s.gates[c])
  /\ \A c \in Checkpoint : Accepted(s.gates[c]) => AllAccepted(s, Prerequisites[c])
  /\ s.final_integration_verified => AllAccepted(s, ExecutionCheckpoints)
  /\ s.credentials_verified => s.provider_status = "RAZORPAY_TEST_MODE"
  /\ s.calls_enabled => /\ s.mode = "REAL_PROVIDER_TEST"
                        /\ s.provider_status = "RAZORPAY_TEST_MODE"
                        /\ s.credentials_verified
                        /\ AllAccepted(s, ProviderPrerequisites)

(* provider_test_execution_ready *)
TestExecutionReady(s) ==
  /\ AllAccepted(s, ProviderPrerequisites)
  /\ s.mode = "REAL_PROVIDER_TEST"
  /\ s.provider_status = "RAZORPAY_TEST_MODE"
  /\ s.credentials_verified /\ s.calls_enabled

(* A bug the properties must notice: final integration is not asked for. *)
IrreversibleUnverified(s) ==
  AllAccepted(s, ExecutionCheckpoints) /\ TestExecutionReady(s)

(* irreversible_commit_ready *)
IrreversibleCommitReady(s) ==
  /\ AllAccepted(s, ExecutionCheckpoints)
  /\ s.final_integration_verified
  /\ TestExecutionReady(s)

NotAccepted(s, checkpoints) == {c \in checkpoints : ~Accepted(s.gates[c])}

ProviderFacts(s) ==
  {b \in {"mode", "provider", "credentials", "calls"} :
     CASE b = "mode" -> s.mode # "REAL_PROVIDER_TEST"
       [] b = "provider" -> s.provider_status # "RAZORPAY_TEST_MODE"
       [] b = "credentials" -> ~s.credentials_verified
       [] OTHER -> ~s.calls_enabled}

(* A bug the properties must notice: D is listed as a blocker of the runs  *)
(* that are to produce the evidence for D.                                 *)
ProviderBlockersWithD(s) == NotAccepted(s, ExecutionCheckpoints) \cup ProviderFacts(s)

(* provider_execution_blockers and blockers *)
ProviderBlockers(s) == NotAccepted(s, ProviderPrerequisites) \cup ProviderFacts(s)
Blockers(s) ==
  NotAccepted(s, Checkpoint) \cup ProviderFacts(s)
    \cup {b \in {"final"} : ~s.final_integration_verified}

(* _service_snapshot of service.py, with and without an execution adapter. *)
ServiceReady(s, adapter) == TestExecutionReady(s) /\ adapter
ServiceBlockers(s, adapter) ==
  ProviderBlockers(s) \cup {b \in {"adapter"} : ~adapter}
===============================================================================
