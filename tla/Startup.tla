-------------------------------- MODULE Startup --------------------------------
(***************************************************************************)
(* How a server process comes up and what its status rests on:             *)
(* scripts/checkpoint_d_server.py (the command line entry point and the    *)
(* prepared runtime), src/ecocommit/deployment.py (the hosted entry point) *)
(* and checkpoint_d_evidence.py (the pinned evidence, loaded once before   *)
(* the provider is contacted and again for every request).                 *)
(*                                                                         *)
(* A file has a version; a digest that matches its pin says that the       *)
(* version is the pinned one.  The files are read one after another, and   *)
(* an operator may replace any of them between two reads.  What the        *)
(* receipts say of each other is part of what was pinned together.         *)
(***************************************************************************)
EXTENDS Naturals, Sequences, SafetyStatus

CONSTANTS
  Version,     \* of the evidence bundle
  WithD,       \* the versions whose pins name a receipt for checkpoint D
  MaxStarts, MaxChanges

ASSUME StartupAssumption ==
  WithD \subseteq Version /\ MaxStarts \in Nat /\ MaxChanges \in Nat

Receipts == <<"pins", "A", "B", "C", "D">>
File     == {"pins", "A", "B", "C", "D", "operation"}
Secret   == {"token", "credentials", "key", "signing", "webhook"}
Down     == [entry |-> "none"]
Unread   == [f \in File |-> 0]

(* What a process is started with.  sound: the host's policy variables and *)
(* paths pass; secrets: those that are supplied and fit.                   *)
Environment ==
  [entry : {"cli", "hosted"}, sound : BOOLEAN, mode : {"DISABLED", "RAZORPAY_TEST_MODE"},
   evidence : {"none", "part", "all"}, prepared : {"none", "part", "all"},
   secrets : {Secret} \cup {Secret \ {s} : s \in Secret}, version : Version]

VARIABLES
  disk,       \* File -> version
  env, pc,    \* of the process
  seen,       \* File -> version of what the process read, 0 before
  next,       \* index in Receipts of the file to be read next
  preflight,  \* this process: "none", "started", "contacted", "completed"
  audit,      \* number of audit records of each type
  contacts,   \* requests the provider has seen from starting processes
  answer,     \* the last answer to a request
  starts, changes

vars == <<disk, env, pc, seen, next, preflight, audit, contacts, answer, starts, changes>>
outside == <<disk, changes, starts, env>>
provider == <<preflight, audit, contacts>>

Init ==
  /\ disk \in {[f \in File |-> v] : v \in Version}
  /\ env = Down /\ pc = "down" /\ seen = Unread /\ next = 1
  /\ preflight = "none" /\ audit = [started |-> 0, completed |-> 0, failed |-> 0]
  /\ contacts = 0 /\ answer = "none" /\ starts = 0 /\ changes = 0

Change(f, v) ==
  /\ changes < MaxChanges /\ disk[f] # v
  /\ disk' = [disk EXCEPT ![f] = v] /\ changes' = changes + 1
  /\ UNCHANGED <<env, pc, seen, next, provider, answer, starts>>

Launch(e) ==
  /\ pc = "down" /\ starts < MaxStarts
  /\ starts' = starts + 1 /\ env' = e /\ pc' = "config"
  /\ UNCHANGED <<disk, changes, seen, next, provider, answer>>

(* The process ends: a check that failed, an operator, a crash. *)
End ==
  /\ env' = Down /\ pc' = "down" /\ seen' = Unread /\ next' = 1
  /\ preflight' = "none" /\ answer' = "none"
  /\ UNCHANGED <<disk, changes, starts>>

Goto(place) == pc' = place /\ UNCHANGED <<outside, seen, next, answer>>

-------------------------------------------------------------------------------
(* The checks of main and serve. *)
CliAllowed(e) ==
  /\ e.evidence # "part" /\ e.prepared # "part"
  /\ e.prepared = "all" => e.evidence = "all"

(* DeploymentConfig.from_environment *)
HostedAllowed(e) ==
  /\ e.sound /\ e.evidence # "part" /\ e.prepared # "part"
  /\ e.mode = "DISABLED" => e.prepared = "none"
  /\ e.mode = "RAZORPAY_TEST_MODE" => e.evidence = "all" /\ e.prepared = "all"

(* The command line loads the evidence before it prepares an execution,    *)
(* the hosted entry point whenever it is configured.                       *)
Configure ==
  /\ pc = "config"
  /\ IF env.entry = "cli" THEN CliAllowed(env) ELSE HostedAllowed(env)
  /\ Goto(IF env.evidence = "all" /\ (env.entry = "hosted" \/ env.prepared = "all") THEN "load"
          ELSE IF env.prepared = "all" THEN "token" ELSE "serving")
  /\ UNCHANGED provider

RefuseConfig ==
  /\ pc = "config"
  /\ ~(IF env.entry = "cli" THEN CliAllowed(env) ELSE HostedAllowed(env))
  /\ End /\ UNCHANGED <<audit, contacts>>

(* A bug the properties must notice: the digest of C is not compared. *)
PinHoldsButForC(f) == f = "C" \/ disk[f] = env.version

(* _read_pinned: the bytes that were hashed are the bytes that are parsed. *)
PinHolds(f) == disk[f] = env.version

AllRead == next > (IF env.version \in WithD THEN 5 ELSE 4)

(* One step of load_authoritative_evidence, at startup and per request. *)
Read ==
  /\ pc \in {"load", "reload"} /\ ~AllRead
  /\ PinHolds(Receipts[next])
  /\ seen' = [seen EXCEPT ![Receipts[next]] = disk[Receipts[next]]]
  /\ next' = next + 1
  /\ UNCHANGED <<outside, pc, provider, answer>>

Loaded ==
  /\ pc = "load" /\ AllRead
  /\ Goto(IF env.prepared = "all" THEN "token" ELSE "serving")
  /\ UNCHANGED provider

LoadFails ==
  /\ pc = "load" /\ ~AllRead /\ ~PinHolds(Receipts[next])
  /\ End /\ UNCHANGED <<audit, contacts>>

CheckToken ==
  /\ pc = "token" /\ "token" \in env.secrets
  /\ Goto("operation") /\ UNCHANGED provider

(* load_prepared_test_operation: the file is read once, against its pin. *)
LoadOperation ==
  /\ pc = "operation" /\ PinHolds("operation")
  /\ seen' = [seen EXCEPT !["operation"] = disk["operation"]]
  /\ pc' = "secrets"
  /\ UNCHANGED <<outside, next, answer, provider>>

(* A bug the properties must notice: the webhook secret is left for later. *)
CheckSecretsLater ==
  /\ pc = "secrets" /\ Secret \ {"webhook"} \subseteq env.secrets
  /\ Goto("record") /\ UNCHANGED provider

(* The credentials, the key of the operation, both secrets. *)
CheckSecrets ==
  /\ pc = "secrets" /\ Secret \subseteq env.secrets
  /\ Goto("record") /\ UNCHANGED provider

Refuse ==
  /\ \/ pc = "token" /\ "token" \notin env.secrets
     \/ pc = "operation" /\ ~PinHolds("operation")
     \/ pc = "secrets" /\ ~(Secret \subseteq env.secrets)
  /\ End /\ UNCHANGED <<audit, contacts>>

(* A bug the properties must notice: the record does not come first. *)
RecordPreflightLater ==
  /\ pc = "record"
  /\ preflight' = "started" /\ Goto("preflight")
  /\ UNCHANGED <<audit, contacts>>

(* The records around the preflight; a write that fails ends the process. *)
RecordPreflight ==
  /\ pc = "record"
  /\ audit' = [audit EXCEPT !.started = @ + 1]
  /\ preflight' = "started" /\ Goto("preflight")
  /\ UNCHANGED contacts

(* verify_credentials: sent, and answered or not. *)
Preflight ==
  /\ pc = "preflight"
  /\ contacts' = contacts + 1 /\ preflight' = "contacted"
  /\ \E ok \in BOOLEAN : Goto(IF ok THEN "completed" ELSE "failed")
  /\ UNCHANGED audit

(* A bug the properties must notice: a preflight that failed is served on. *)
RecordFailureAndServe ==
  /\ pc = "failed"
  /\ audit' = [audit EXCEPT !.failed = @ + 1]
  /\ Goto("serving") /\ UNCHANGED <<preflight, contacts>>

RecordFailure ==
  /\ pc = "failed"
  /\ audit' = [audit EXCEPT !.failed = @ + 1]
  /\ End /\ UNCHANGED contacts

RecordCompletion ==
  /\ pc = "completed"
  /\ audit' = [audit EXCEPT !.completed = @ + 1]
  /\ preflight' = "completed" /\ Goto("serving")
  /\ UNCHANGED contacts

(* Any audit write that fails, a crash, or an operator's stop. *)
Stop == pc # "down" /\ End /\ UNCHANGED <<audit, contacts>>

-------------------------------------------------------------------------------
(* build_application: the status source, and the adapter it comes with. *)
HasAdapter == env.prepared = "all"

Blocked == [state |-> "BLOCKED", evidence |-> FALSE]
Passed  == [state |-> "PASSED", evidence |-> TRUE]

(* A bug the properties must notice: E is reported as passed without D. *)
LoadedStatusWithE ==
  [gates |-> [c \in Checkpoint |-> IF c # "D" \/ env.version \in WithD THEN Passed ELSE Blocked],
   mode |-> "REAL_PROVIDER_TEST", provider_status |-> "RAZORPAY_TEST_MODE",
   credentials_verified |-> HasAdapter, calls_enabled |-> HasAdapter,
   final_integration_verified |-> env.version \in WithD]

(* LoadedAuthoritativeEvidence.safety_status *)
LoadedStatus ==
  [gates |-> [c \in Checkpoint |->
     IF c \in {"A", "B", "C"} \/ (c = "D" /\ env.version \in WithD) THEN Passed ELSE Blocked],
   mode |-> "REAL_PROVIDER_TEST", provider_status |-> "RAZORPAY_TEST_MODE",
   credentials_verified |-> HasAdapter, calls_enabled |-> HasAdapter,
   final_integration_verified |-> env.version \in WithD]

(* The demo's static status: every gate blocked. *)
DemoStatus ==
  [gates |-> [c \in Checkpoint |-> Blocked], mode |-> "SIMULATED",
   provider_status |-> "SIMULATED", credentials_verified |-> FALSE,
   calls_enabled |-> FALSE, final_integration_verified |-> FALSE]

(* The bundle is read from the start for every request. *)
Ask ==
  /\ pc = "serving" /\ env.evidence = "all"
  /\ pc' = "reload" /\ next' = 1 /\ seen' = [Unread EXCEPT !["operation"] = seen["operation"]]
  /\ answer' = "none" /\ UNCHANGED <<outside, provider>>

AskDemo ==
  /\ pc = "serving" /\ env.evidence = "none"
  /\ answer' = IF ServiceReady(DemoStatus, HasAdapter) THEN "ready" ELSE "denied"
  /\ UNCHANGED <<outside, pc, seen, next, provider>>

(* StrictTLSProxyMiddleware: a request that did not come through the       *)
(* trusted proxy, over TLS, for this host, is answered without the service.*)
RejectAtProxy ==
  /\ pc = "serving" /\ env.entry = "hosted"
  /\ answer' = "rejected"
  /\ UNCHANGED <<outside, pc, seen, next, provider>>

Answer ==
  /\ pc = "reload" /\ AllRead
  /\ answer' = IF ServiceReady(LoadedStatus, HasAdapter) THEN "ready" ELSE "denied"
  /\ pc' = "serving"
  /\ UNCHANGED <<outside, seen, next, provider>>

ReloadFails ==
  /\ pc = "reload" /\ ~AllRead /\ ~PinHolds(Receipts[next])
  /\ answer' = "failed" /\ pc' = "serving"
  /\ UNCHANGED <<outside, seen, next, provider>>

Process ==
  \/ Configure \/ RefuseConfig \/ Read \/ Loaded \/ LoadFails \/ CheckToken
  \/ LoadOperation \/ CheckSecrets \/ Refuse \/ RecordPreflight \/ Preflight
  \/ RecordFailure \/ RecordCompletion \/ Answer \/ ReloadFails

Next ==
  \/ Process \/ Ask \/ AskDemo \/ RejectAtProxy \/ Stop
  \/ \E e \in Environment : Launch(e)
  \/ \E f \in File, v \in Version : Change(f, v)

Spec     == Init /\ [][Next]_vars
FairSpec == Spec /\ WF_vars(Process)

-------------------------------------------------------------------------------
TypeOK ==
  /\ disk \in [File -> Version] /\ seen \in [File -> Version \cup {0}]
  /\ env \in Environment \cup {Down}
  /\ pc \in {"down", "config", "load", "token", "operation", "secrets", "record",
             "preflight", "completed", "failed", "serving", "reload"}
  /\ next \in 1..(Len(Receipts) + 1)
  /\ preflight \in {"none", "started", "contacted", "completed"}
  /\ answer \in {"none", "ready", "denied", "failed", "rejected"}
  /\ starts \in 0..MaxStarts /\ changes \in 0..MaxChanges

Pinned(v) == {f \in File : f = "D" => v \in WithD}

(* "Validate every remaining secret/configuration dependency before making *)
(* the read-only provider credential preflight": whichever entry point     *)
(* started it, a process that contacts the provider has read every pinned  *)
(* file at its pinned version, and holds every secret.                     *)
ContactIsEarned ==
  [][contacts' # contacts =>
       /\ env.secrets = Secret /\ env.prepared = "all" /\ env.evidence = "all"
       /\ \A f \in Pinned(env.version) : seen[f] = env.version]_vars

(* However processes die, the audit log never counts fewer preflights than *)
(* the provider has seen, nor more outcomes.                               *)
ContactsAreRecorded ==
  /\ contacts <= audit.started
  /\ audit.completed + audit.failed <= contacts

(* A ready answer rests on one bundle, all of it at the pinned version,    *)
(* although its files were replaced one by one while it was read.          *)
ReadyIsOneBundle ==
  answer = "ready" => \A f \in Pinned(env.version) : seen[f] = env.version

(* Only a process whose own preflight was recorded as completed is ready.  *)
ReadyIsPreflighted == answer = "ready" => preflight = "completed"

(* The status a server builds is never one the constructor refuses. *)
StatusIsBuilt == pc \in {"reload", "serving"} => Constructible(LoadedStatus)

(* A start ends with a server or without a process, a request is answered. *)
StartsAndRequestsEnd == pc \notin {"down", "serving"} ~> pc \in {"down", "serving"}
===============================================================================
