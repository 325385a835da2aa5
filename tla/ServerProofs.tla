----------------------------- MODULE ServerProofs -----------------------------
(***************************************************************************)
(* What a server is guaranteed in MCServer, for any bundles, starts,       *)
(* changed files, requests, gates and faults: that a ready answer and a    *)
(* contact with the provider are earned (Startup), that its status agrees  *)
(* with itself (SafetyStatus), and that calls of the provider are          *)
(* accounted for (Service).                                                *)
(***************************************************************************)
EXTENDS MCServer, TLAPS

-------------------------------------------------------------------------------
(* A process that comes up (Startup). *)

CountsAreNumbers ==
  /\ audit \in [started : Nat, completed : Nat, failed : Nat]
  /\ contacts \in Nat

(* The provider is contacted between a record and its outcome. *)
ContactsAreBetweenRecords ==
  /\ contacts <= audit.started
  /\ pc = "preflight" => contacts < audit.started
  /\ audit.completed + audit.failed <= contacts
  /\ pc \in {"completed", "failed"} => audit.completed + audit.failed < contacts

AfterEvidence  == {"token", "operation", "secrets", "record", "preflight", "completed", "failed"}
AfterOperation == {"secrets", "record", "preflight", "completed", "failed", "serving", "reload"}
AfterSecrets   == {"record", "preflight", "completed", "failed"}

(* What a process has read, by where it stands.  The bundle is at its pins *)
(* up to the file to be read next.                                         *)
ReadingIsPinned ==
  /\ pc # "down" => env \in Environment
  /\ pc \in {"down", "config"} => next = 1
  /\ pc \in {"load", "reload"} =>
       \A i \in 1..Len(Receipts) : i < next => seen[Receipts[i]] = env.version
  /\ pc = "load" => env.evidence = "all"
  /\ pc \in AfterEvidence =>
       /\ env.prepared = "all" /\ env.evidence = "all"
       /\ \A f \in Pinned(env.version) \ {"operation"} : seen[f] = env.version
  /\ pc \in AfterOperation /\ env.prepared = "all" => seen["operation"] = env.version
  /\ pc \in AfterSecrets => env.secrets = Secret
  /\ pc \in {"serving", "reload"} /\ env.prepared = "all" => preflight = "completed"

(* While the bundle is read again there is no answer; a ready one stands   *)
(* only as long as its process serves on what it read.                     *)
ReadyStands ==
  answer = "ready" =>
    /\ pc = "serving" /\ env.prepared = "all"
    /\ \A f \in Pinned(env.version) : seen[f] = env.version

SInv == TypeOK /\ CountsAreNumbers /\ ContactsAreBetweenRecords /\ ReadingIsPinned /\ ReadyStands

LEMMA StartInitInv == Init => SInv
<1> SUFFICES ASSUME Init PROVE SInv
  OBVIOUS
<1>1. TypeOK
  BY StartupAssumption DEF Init, TypeOK, Unread, Receipts
<1>2. CountsAreNumbers /\ ContactsAreBetweenRecords
  BY DEF Init, CountsAreNumbers, ContactsAreBetweenRecords
<1>3. ReadingIsPinned /\ ReadyStands
  BY DEF Init, ReadingIsPinned, ReadyStands, AfterEvidence, AfterOperation, AfterSecrets
<1> QED
  BY <1>1, <1>2, <1>3 DEF SInv

(* Whatever makes a process end leaves nothing to explain. *)
LEMMA EndKeepsInv ==
  ASSUME SInv, End, contacts' = contacts,
         \/ audit' = audit
         \/ pc = "failed" /\ audit' = [audit EXCEPT !.failed = @ + 1]
  PROVE  SInv'
<1>1. TypeOK'
  BY DEF SInv, TypeOK, End, Unread, Receipts, Down
<1>2. CountsAreNumbers'
  BY DEF SInv, CountsAreNumbers
<1>3. ContactsAreBetweenRecords'
  BY DEF SInv, CountsAreNumbers, ContactsAreBetweenRecords, End
<1>4. ReadingIsPinned' /\ ReadyStands'
  BY DEF End, ReadingIsPinned, ReadyStands, AfterEvidence, AfterOperation, AfterSecrets
<1> QED
  BY <1>1, <1>2, <1>3, <1>4 DEF SInv

LEMMA EndingsKeepInv ==
  SInv /\ (RefuseConfig \/ LoadFails \/ Refuse \/ RecordFailure \/ Stop) => SInv'
BY EndKeepsInv DEF RefuseConfig, LoadFails, Refuse, RecordFailure, Stop

(* Steps that leave the counters alone. *)
LEMMA QuietStep ==
  ASSUME SInv, UNCHANGED <<audit, contacts>>, pc' \notin {"preflight", "completed", "failed"}
  PROVE  CountsAreNumbers' /\ ContactsAreBetweenRecords'
BY DEF SInv, CountsAreNumbers, ContactsAreBetweenRecords

LEMMA OutsideKeepsInv ==
  ASSUME SInv,
         \/ \E e \in Environment : Launch(e)
         \/ \E f \in File, v \in Version : Change(f, v)
  PROVE  SInv'
<1>1. ASSUME NEW e \in Environment, Launch(e) PROVE SInv'
  <2>1. TypeOK'
    BY <1>1, StartupAssumption DEF SInv, TypeOK, Launch, provider, Receipts
  <2>2. CountsAreNumbers' /\ ContactsAreBetweenRecords'
    BY <1>1, QuietStep DEF Launch, provider
  <2>3. ReadingIsPinned' /\ ReadyStands'
    BY <1>1 DEF SInv, Launch, ReadingIsPinned, ReadyStands, AfterEvidence, AfterOperation, AfterSecrets
  <2> QED
    BY <2>1, <2>2, <2>3 DEF SInv
<1>2. ASSUME NEW f \in File, NEW v \in Version, Change(f, v) PROVE SInv'
  <2>1. TypeOK'
    BY <1>2, StartupAssumption DEF SInv, TypeOK, Change, provider, Receipts
  <2>2. UNCHANGED <<env, pc, seen, next, preflight, audit, contacts, answer>>
    BY <1>2 DEF Change, provider
  <2>3. /\ CountsAreNumbers' /\ ContactsAreBetweenRecords'
        /\ ReadingIsPinned' /\ ReadyStands'
    BY <2>2 DEF SInv, CountsAreNumbers, ContactsAreBetweenRecords, ReadingIsPinned, ReadyStands
  <2> QED
    BY <2>1, <2>3 DEF SInv
<1> QED
  BY <1>1, <1>2

(* The bundle has been read when no receipt is left. *)
LEMMA AllReadIsPinned ==
  ASSUME SInv, AllRead, pc \in {"load", "reload"}
  PROVE  \A f \in Pinned(env.version) \ {"operation"} : seen[f] = env.version
<1> SUFFICES ASSUME NEW f \in Pinned(env.version), f # "operation"
             PROVE  seen[f] = env.version
  OBVIOUS
<1>1. \A i \in 1..5 : i < next => seen[Receipts[i]] = env.version
  BY DEF SInv, ReadingIsPinned, Receipts
<1>2. next \in 1..6 /\ (next > 5 \/ (env.version \notin WithD /\ next > 4))
  BY DEF SInv, TypeOK, Receipts, AllRead
<1>3. /\ seen["pins"] = env.version /\ seen["A"] = env.version
      /\ seen["B"] = env.version /\ seen["C"] = env.version
      /\ env.version \in WithD => seen["D"] = env.version
  BY <1>1, <1>2 DEF Receipts
<1> QED
  BY <1>3 DEF Pinned, File

LEMMA LoadingKeepsInv == SInv /\ (Configure \/ Read \/ Loaded) => SInv'
<1>1. ASSUME SInv, Configure PROVE SInv'
  <2>1. /\ UNCHANGED <<disk, changes, starts, env, seen, next, preflight, audit, contacts, answer>>
        /\ pc = "config" /\ pc' \in {"load", "token", "serving"} /\ env \in Environment
        /\ pc' = "load" => env.evidence = "all"
        /\ pc' # "token"
        /\ pc' = "serving" => env.prepared # "all"
        /\ next = 1
    <3>1. /\ UNCHANGED <<disk, changes, starts, env, seen, next, preflight, audit, contacts, answer>>
          /\ pc = "config" /\ env \in Environment /\ next = 1
      BY <1>1 DEF SInv, ReadingIsPinned, Configure, Goto, outside, provider
    <3>2. /\ env.entry \in {"cli", "hosted"} /\ env.mode \in {"DISABLED", "RAZORPAY_TEST_MODE"}
          /\ IF env.entry = "cli" THEN CliAllowed(env) ELSE HostedAllowed(env)
      BY <1>1, <3>1 DEF Configure, Environment
    <3>3. env.prepared = "all" => env.evidence = "all"
      BY <3>2 DEF CliAllowed, HostedAllowed
    <3>4. pc' = IF env.evidence = "all" /\ (env.entry = "hosted" \/ env.prepared = "all") THEN "load"
                ELSE IF env.prepared = "all" THEN "token" ELSE "serving"
      BY <1>1 DEF Configure, Goto
    <3>5. CASE env.evidence = "all" /\ (env.entry = "hosted" \/ env.prepared = "all")
      BY <3>1, <3>3, <3>4, <3>5
    <3>6. CASE ~(env.evidence = "all" /\ (env.entry = "hosted" \/ env.prepared = "all"))
      <4>1. env.prepared # "all"
        BY <3>3, <3>6
      <4>2. pc' = "serving"
        BY <3>4, <3>6, <4>1
      <4> QED
        BY <3>1, <4>1, <4>2
    <3> QED
      BY <3>5, <3>6
  <2>2. TypeOK'
    BY <1>1, <2>1 DEF SInv, TypeOK
  <2>3. CountsAreNumbers' /\ ContactsAreBetweenRecords'
    BY <1>1, <2>1, QuietStep
  <2>4. ReadingIsPinned' /\ ReadyStands'
    BY <1>1, <2>1
    DEF SInv, ReadingIsPinned, ReadyStands, AfterEvidence, AfterOperation, AfterSecrets
  <2> QED
    BY <2>2, <2>3, <2>4 DEF SInv
<1>2. ASSUME SInv, Read PROVE SInv'
  <2>1. /\ UNCHANGED <<disk, changes, starts, env, pc, preflight, audit, contacts, answer>>
        /\ pc \in {"load", "reload"} /\ next \in 1..5 /\ next' = next + 1
        /\ seen' = [seen EXCEPT ![Receipts[next]] = env.version]
        /\ disk[Receipts[next]] = env.version
    BY <1>2 DEF SInv, TypeOK, Read, PinHolds, AllRead, outside, provider, Receipts
  <2>2. TypeOK'
    BY <1>2, <2>1 DEF SInv, TypeOK, Receipts, File
  <2>3. CountsAreNumbers' /\ ContactsAreBetweenRecords'
    BY <1>2, <2>1, QuietStep
  <2>4. ReadingIsPinned' /\ ReadyStands'
    BY <1>2, <2>1
    DEF SInv, TypeOK, ReadingIsPinned, ReadyStands, AfterEvidence, AfterOperation, AfterSecrets, Receipts, File
  <2> QED
    BY <2>2, <2>3, <2>4 DEF SInv
<1>3. ASSUME SInv, Loaded PROVE SInv'
  <2>1. /\ UNCHANGED <<disk, changes, starts, env, seen, next, preflight, audit, contacts, answer>>
        /\ pc = "load" /\ pc' = IF env.prepared = "all" THEN "token" ELSE "serving"
    BY <1>3 DEF Loaded, Goto, outside, provider
  <2>2. TypeOK'
    BY <1>3, <2>1 DEF SInv, TypeOK
  <2>3. CountsAreNumbers' /\ ContactsAreBetweenRecords'
    BY <1>3, <2>1, QuietStep
  <2>4. ReadingIsPinned' /\ ReadyStands'
    BY <1>3, <2>1, AllReadIsPinned
    DEF SInv, Loaded, ReadingIsPinned, ReadyStands, AfterEvidence, AfterOperation, AfterSecrets
  <2> QED
    BY <2>2, <2>3, <2>4 DEF SInv
<1> QED
  BY <1>1, <1>2, <1>3

LEMMA PreparingKeepsInv == SInv /\ (CheckToken \/ LoadOperation \/ CheckSecrets) => SInv'
<1>1. ASSUME SInv, CheckToken \/ CheckSecrets PROVE SInv'
  <2>1. /\ UNCHANGED <<disk, changes, starts, env, seen, next, preflight, audit, contacts, answer>>
        /\ \/ pc = "token" /\ pc' = "operation"
           \/ pc = "secrets" /\ pc' = "record" /\ env.secrets = Secret
    BY <1>1
    DEF SInv, ReadingIsPinned, CheckToken, CheckSecrets, Goto, outside, provider, Environment
  <2>2. TypeOK'
    BY <1>1, <2>1 DEF SInv, TypeOK
  <2>3. CountsAreNumbers' /\ ContactsAreBetweenRecords'
    BY <1>1, <2>1, QuietStep
  <2>4. ReadingIsPinned' /\ ReadyStands'
    BY <1>1, <2>1
    DEF SInv, ReadingIsPinned, ReadyStands, AfterEvidence, AfterOperation, AfterSecrets
  <2> QED
    BY <2>2, <2>3, <2>4 DEF SInv
<1>2. ASSUME SInv, LoadOperation PROVE SInv'
  <2>1. /\ UNCHANGED <<disk, changes, starts, env, next, preflight, audit, contacts, answer>>
        /\ pc = "operation" /\ pc' = "secrets"
        /\ seen' = [seen EXCEPT !["operation"] = env.version] /\ disk["operation"] = env.version
    BY <1>2 DEF LoadOperation, PinHolds, outside, provider
  <2>2. TypeOK'
    BY <1>2, <2>1 DEF SInv, TypeOK, File
  <2>3. CountsAreNumbers' /\ ContactsAreBetweenRecords'
    BY <1>2, <2>1, QuietStep
  <2>4. ReadingIsPinned' /\ ReadyStands'
    BY <1>2, <2>1
    DEF SInv, TypeOK, ReadingIsPinned, ReadyStands, AfterEvidence, AfterOperation, AfterSecrets,
        File, Pinned
  <2> QED
    BY <2>2, <2>3, <2>4 DEF SInv
<1> QED
  BY <1>1, <1>2

LEMMA ContactingKeepsInv == SInv /\ (RecordPreflight \/ Preflight \/ RecordCompletion) => SInv'
<1> SUFFICES ASSUME SInv, RecordPreflight \/ Preflight \/ RecordCompletion PROVE SInv'
  OBVIOUS
<1>1. /\ UNCHANGED <<disk, changes, starts, env, seen, next, answer>>
      /\ \/ /\ pc = "record" /\ pc' = "preflight" /\ preflight' = "started"
            /\ audit' = [audit EXCEPT !.started = @ + 1] /\ contacts' = contacts
         \/ /\ pc = "preflight" /\ pc' \in {"completed", "failed"} /\ preflight' = "contacted"
            /\ contacts' = contacts + 1 /\ audit' = audit
         \/ /\ pc = "completed" /\ pc' = "serving" /\ preflight' = "completed"
            /\ audit' = [audit EXCEPT !.completed = @ + 1] /\ contacts' = contacts
  BY DEF RecordPreflight, Preflight, RecordCompletion, Goto, outside
<1>2. TypeOK'
  BY <1>1 DEF SInv, TypeOK
<1>3. CountsAreNumbers'
  BY <1>1 DEF SInv, CountsAreNumbers
<1>4. ContactsAreBetweenRecords'
  BY <1>1 DEF SInv, CountsAreNumbers, ContactsAreBetweenRecords
<1>5. ReadingIsPinned' /\ ReadyStands'
  BY <1>1 DEF SInv, ReadingIsPinned, ReadyStands, AfterEvidence, AfterOperation, AfterSecrets
<1> QED
  BY <1>2, <1>3, <1>4, <1>5 DEF SInv

(* Requests: the bundle is read anew for each, and a ready answer is given *)
(* only with the adapter of a prepared operation, hence after a preflight. *)
LEMMA ServingKeepsInv ==
  SInv /\ (Ask \/ AskDemo \/ RejectAtProxy \/ Answer \/ ReloadFails) => SInv'
<1> SUFFICES ASSUME SInv, Ask \/ AskDemo \/ RejectAtProxy \/ Answer \/ ReloadFails PROVE SInv'
  OBVIOUS
<1>1. /\ UNCHANGED <<disk, changes, starts, env, preflight, audit, contacts>>
      /\ pc \in {"serving", "reload"} /\ pc' \in {"serving", "reload"}
      /\ \/ /\ answer' = "none" /\ next' = 1 /\ pc' = "reload"
            /\ seen' = [Unread EXCEPT !["operation"] = seen["operation"]]
         \/ /\ UNCHANGED <<seen, next>> /\ answer' \in {"denied", "failed", "rejected"}
            /\ pc' = "serving"
         \/ /\ UNCHANGED <<seen, next>> /\ answer' = "ready" /\ Answer /\ HasAdapter
            /\ pc = "reload" /\ pc' = "serving"
  <2>1. AskDemo => answer' = "denied"
    BY DEF AskDemo, ServiceReady, TestExecutionReady, DemoStatus
  <2>2. Answer => answer' = "denied" \/ (answer' = "ready" /\ HasAdapter)
    BY DEF Answer, ServiceReady
  <2> QED
    BY <2>1, <2>2 DEF Ask, AskDemo, RejectAtProxy, Answer, ReloadFails, outside, provider
<1>2. TypeOK'
  BY <1>1 DEF SInv, TypeOK, Unread, Receipts, File
<1>3. CountsAreNumbers' /\ ContactsAreBetweenRecords'
  BY <1>1, QuietStep
<1>4. ReadingIsPinned'
  BY <1>1
  DEF SInv, TypeOK, ReadingIsPinned, AfterEvidence, AfterOperation, AfterSecrets, Unread, File, Receipts
<1>5. ReadyStands'
  <2> SUFFICES ASSUME answer' = "ready" PROVE ReadyStands'
    BY DEF ReadyStands
  <2>1. /\ Answer /\ env.prepared = "all" /\ pc' = "serving" /\ seen' = seen /\ env' = env
    BY <1>1 DEF HasAdapter
  <2>2. \A f \in Pinned(env.version) \ {"operation"} : seen[f] = env.version
    BY <2>1, AllReadIsPinned DEF Answer
  <2>3. seen["operation"] = env.version
    BY <2>1 DEF SInv, ReadingIsPinned, AfterOperation, Answer
  <2>4. \A f \in Pinned(env.version) : seen[f] = env.version
    BY <2>2, <2>3
  <2> QED
    BY <2>1, <2>4 DEF ReadyStands, Pinned
<1> QED
  BY <1>2, <1>3, <1>4, <1>5 DEF SInv

LEMMA StartNextKeepsInv == SInv /\ [Next]_vars => SInv'
<1>1. SInv /\ UNCHANGED vars => SInv'
  BY DEF vars, SInv, TypeOK, CountsAreNumbers, ContactsAreBetweenRecords, ReadingIsPinned, ReadyStands
<1> QED
  BY <1>1, EndingsKeepInv, OutsideKeepsInv, LoadingKeepsInv, PreparingKeepsInv,
     ContactingKeepsInv, ServingKeepsInv
  DEF Next, Process

LEMMA StartBehaviour == MCSpec => Spec
<1>1. MCInit => Init
  BY DEF MCInit
<1>2. [MCNext]_<<part, vars, serviceVars, statusVars>> => [Next]_vars
  BY DEF MCNext
<1> QED
  BY <1>1, <1>2, PTL DEF MCSpec, Spec

LEMMA StartInvariance == MCSpec => []SInv
BY StartInitInv, StartNextKeepsInv, StartBehaviour, PTL DEF Spec

(* A ready answer rests on one bundle, all of it at its pins although its  *)
(* files were replaced one by one while it was read, and on a preflight of *)
(* this very process; the audit log counts each contact first              *)
(* (load_authoritative_evidence, prepare_test_runtime).                    *)
THEOREM ReadyAnswersAreEarned == MCSpec => []ReadyIsEarned
<1>1. SInv => ReadyIsPreflighted
  BY DEF SInv, ReadingIsPinned, ReadyStands, ReadyIsPreflighted
<1>2. StatusIsBuilt
  <2> DEFINE s == LoadedStatus
  <2>1. /\ \A c \in {"A", "B", "C"} : s.gates[c] = Passed
        /\ s.gates["D"] = IF env.version \in WithD THEN Passed ELSE Blocked
        /\ s.gates["E"] = Blocked
        /\ s.final_integration_verified <=> env.version \in WithD
    BY DEF LoadedStatus, Checkpoint
  <2>2. Accepted(Passed) = TRUE /\ Accepted(Blocked) = FALSE /\ ReportAllowed(Passed) /\ ReportAllowed(Blocked)
    BY DEF Accepted, ReportAllowed, Passed, Blocked
  <2>3. /\ s.provider_status = "RAZORPAY_TEST_MODE" /\ s.mode = "REAL_PROVIDER_TEST"
        /\ s.calls_enabled = s.credentials_verified
    BY DEF LoadedStatus
  <2> HIDE DEF s
  <2>4. \A c \in {"A", "B", "C"} : Accepted(s.gates[c])
    BY <2>1, <2>2
  <2>5. \A c \in Checkpoint : ReportAllowed(s.gates[c])
    BY <2>1, <2>2 DEF Checkpoint
  <2>6. \A c \in Checkpoint : Accepted(s.gates[c]) => AllAccepted(s, Prerequisites[c])
    BY <2>1, <2>2, <2>4 DEF Checkpoint, AllAccepted, Prerequisites
  <2>7. s.final_integration_verified => AllAccepted(s, ExecutionCheckpoints)
    BY <2>1, <2>2, <2>4 DEF AllAccepted, ExecutionCheckpoints
  <2>8. AllAccepted(s, ProviderPrerequisites)
    BY <2>4 DEF AllAccepted, ProviderPrerequisites
  <2> QED
    BY <2>3, <2>5, <2>6, <2>7, <2>8 DEF StatusIsBuilt, Constructible, s
<1>3. SInv => ReadyIsEarned
  BY <1>1, <1>2
  DEF SInv, ContactsAreBetweenRecords, ReadyStands, ReadyIsEarned, ReadyIsOneBundle,
      ContactsAreRecorded
<1> QED
  BY <1>3, StartInvariance, PTL

(* Whichever entry point started it, a process contacts the provider only  *)
(* when it has read every pinned file at its pinned version and holds      *)
(* every secret (prepare_test_runtime).                                    *)
THEOREM ContactsAreEarned == MCSpec => ContactIsEarned
<1>1. SInv /\ [Next]_vars =>
        [contacts' # contacts =>
           /\ env.secrets = Secret /\ env.prepared = "all" /\ env.evidence = "all"
           /\ \A f \in Pinned(env.version) : seen[f] = env.version]_vars
  <2> SUFFICES ASSUME SInv, [Next]_vars, contacts' # contacts
               PROVE  /\ env.secrets = Secret /\ env.prepared = "all" /\ env.evidence = "all"
                      /\ \A f \in Pinned(env.version) : seen[f] = env.version
    OBVIOUS
  <2>1. pc = "preflight"
    BY DEF Next, Process, vars, provider, Configure, RefuseConfig, Read, Loaded, LoadFails,
       CheckToken, LoadOperation, CheckSecrets, Refuse, RecordPreflight, Preflight,
       RecordFailure, RecordCompletion, Answer, ReloadFails, Ask, AskDemo, RejectAtProxy,
       Stop, Launch, Change
  <2> QED
    BY <2>1 DEF SInv, ReadingIsPinned, AfterEvidence, AfterOperation, AfterSecrets
<1> QED
  BY <1>1, StartInvariance, StartBehaviour, PTL DEF Spec, ContactIsEarned

-------------------------------------------------------------------------------
(* The status of a server (SafetyStatus). *)

BInv ==
  /\ part = "status" => status \in Inputs(State)
  /\ part # "status" => built # "yes"
  /\ built = "yes" => Constructible(status)

(* Readiness, the lists of blockers and the constructor's rules, written   *)
(* apart, agree on every status the constructor accepts, whatever states   *)
(* its gates are given (checkpoint_status.py).                             *)
THEOREM StatusAgreesWithItself == MCSpec => []StatusIsConsistent
<1>1. MCInit => BInv
  BY DEF MCInit, BInv
<1>2. BInv /\ [MCNext]_<<part, vars, serviceVars, statusVars>> => BInv'
  BY DEF BInv, MCNext, Construct, statusVars
<1>3. BInv => StatusIsConsistent
  <2> SUFFICES ASSUME built = "yes", status \in Inputs(State), Constructible(status)
               PROVE  StatusIsConsistent
    BY DEF BInv, StatusIsConsistent
  <2> DEFINE accepted(c) == Accepted(status.gates[c])
  <2>1. /\ status.calls_enabled \in BOOLEAN /\ status.credentials_verified \in BOOLEAN
        /\ status.final_integration_verified \in BOOLEAN
    BY DEF Inputs
  <2>2. \A adapter \in BOOLEAN : ServiceReady(status, adapter) <=> ServiceBlockers(status, adapter) = {}
    <3> TAKE adapter \in BOOLEAN
    <3>1. NotAccepted(status, ProviderPrerequisites) = {} <=> AllAccepted(status, ProviderPrerequisites)
      BY DEF NotAccepted, AllAccepted
    <3>2. ProviderFacts(status) = {} <=>
            /\ status.mode = "REAL_PROVIDER_TEST" /\ status.provider_status = "RAZORPAY_TEST_MODE"
            /\ status.credentials_verified /\ status.calls_enabled
      BY <2>1 DEF ProviderFacts
    <3>3. {b \in {"adapter"} : ~adapter} = {} <=> adapter
      OBVIOUS
    <3> QED
      BY <3>1, <3>2, <3>3
      DEF ServiceReady, ServiceBlockers, TestExecutionReady, ProviderBlockers
  <2>3. status.calls_enabled => TestExecutionReady(status)
    BY DEF Constructible, TestExecutionReady
  <2>4. IrreversibleCommitReady(status) => Blockers(status) \subseteq {"E"}
    <3> SUFFICES ASSUME IrreversibleCommitReady(status) PROVE Blockers(status) \subseteq {"E"}
      OBVIOUS
    <3>1. NotAccepted(status, Checkpoint) \subseteq {"E"}
      BY DEF IrreversibleCommitReady, AllAccepted, ExecutionCheckpoints, NotAccepted, Checkpoint
    <3>2. ProviderFacts(status) = {}
      BY DEF IrreversibleCommitReady, TestExecutionReady, ProviderFacts
    <3> QED
      BY <3>1, <3>2 DEF IrreversibleCommitReady, Blockers
  <2>5. Blockers(status) = {} => IrreversibleCommitReady(status)
    <3> SUFFICES ASSUME Blockers(status) = {} PROVE IrreversibleCommitReady(status)
      OBVIOUS
    <3>1. \A c \in Checkpoint : Accepted(status.gates[c])
      BY DEF Blockers, NotAccepted
    <3>2. ProviderFacts(status) = {} /\ status.final_integration_verified
      BY DEF Blockers
    <3>3. /\ status.mode = "REAL_PROVIDER_TEST" /\ status.provider_status = "RAZORPAY_TEST_MODE"
          /\ status.credentials_verified /\ status.calls_enabled
      BY <3>2 DEF ProviderFacts
    <3> QED
      BY <3>1, <3>2, <3>3
      DEF IrreversibleCommitReady, TestExecutionReady, AllAccepted, Checkpoint,
          ExecutionCheckpoints, ProviderPrerequisites
  <2> QED
    BY <2>2, <2>3, <2>4, <2>5 DEF StatusIsConsistent
<1> QED
  BY <1>1, <1>2, <1>3, PTL DEF MCSpec

-------------------------------------------------------------------------------
(* Requests (Service). *)

Place == {"new", "request", "simulate", "gate", "deny", "start", "execute", "perform", "lifecycle",
          "failNotStarted", "failUnknown", "complete", "observed", "raised", "over"}
RecordOf == Request \X {"rejected", "requested", "simulated", "denied", "started", "failed", "completed"}
Reply == [code : {200, 202, 400, 423, 500, 503}, called : {"no", "yes", "unknown"}]

ServiceTypes ==
  /\ gates \in {"open", "shut", "broken"} /\ opened \subseteq Request
  /\ expired \in BOOLEAN /\ result \in BOOLEAN
  /\ kind \in [Request -> V!Kind] /\ place \in [Request -> Place]
  /\ records \subseteq RecordOf
  /\ claim \in Request \cup {None} /\ effect \in {"none", "pending", "refunded"}
  /\ called \subseteq Request /\ reply \in [Request -> Reply \cup {None}]
  /\ faults \in 0..MaxFaults

(* What has been recorded, and whether the gates were open, by where a     *)
(* request stands.                                                         *)
RequestsLeaveTraces ==
  \A r \in Request :
    /\ place[r] \notin {"new", "raised", "over", "request", "simulate"} =>
         kind[r] \in V!Commit /\ <<r, "requested">> \in records
    /\ place[r] = "simulate" => kind[r] \notin V!Commit
    /\ place[r] \in {"execute", "perform", "lifecycle", "failUnknown"} => <<r, "started">> \in records
    /\ place[r] \in {"start", "execute", "perform", "lifecycle"} => r \in opened
    /\ gates = "open" /\ place[r] \notin {"new", "raised", "over"} => r \in opened

(* Who may have called the provider is past the claim, with its records;   *)
(* what is reported as complete was refunded.                              *)
CallersArePastTheClaim ==
  \A r \in Request :
    /\ r \in called => /\ place[r] \in {"lifecycle", "failUnknown", "complete", "observed", "raised", "over"}
                       /\ <<r, "requested">> \in records /\ <<r, "started">> \in records
                       /\ r \in opened
    /\ place[r] = "complete" => effect = "refunded"

(* Nobody is answered before the end, nor untruthfully; success is told    *)
(* with its record.                                                        *)
RepliesAreEarned ==
  \A r \in Request : reply[r] # None =>
    /\ place[r] = "over"
    /\ r \in called /\ reply[r].code # 500 => reply[r].called # "no"
    /\ kind[r] \in V!Commit /\ reply[r].code \in {200, 202} =>
         /\ <<r, "completed">> \in records
         /\ reply[r].code = 200 => effect = "refunded"

(* One request at a time is behind the claim, and none after a result. *)
ClaimIsExclusive ==
  /\ \A r \in Request : place[r] \in {"perform", "lifecycle"} => claim = r /\ ~result
  /\ result => effect = "refunded"

VInv ==
  ServiceTypes /\ RequestsLeaveTraces /\ CallersArePastTheClaim /\ RepliesAreEarned /\ ClaimIsExclusive

LEMMA ServiceInitInv == V!Init => VInv
<1> SUFFICES ASSUME V!Init PROVE VInv
  OBVIOUS
<1>1. /\ opened = {} /\ records = {} /\ called = {} /\ result = FALSE /\ claim = None
      /\ gates \in {"open", "shut"} /\ expired = FALSE /\ effect = "none" /\ faults = 0
      /\ kind \in [Request -> V!Kind]
      /\ place = [r \in Request |-> "new"] /\ reply = [r \in Request |-> None]
  BY DEF V!Init
<1>2. ServiceTypes
  <2>1. place \in [Request -> Place] /\ reply \in [Request -> Reply \cup {None}]
    BY <1>1 DEF Place
  <2>2. faults \in 0..MaxFaults
    BY <1>1, ServiceAssumed DEF V!ServiceAssumption
  <2> QED
    BY <1>1, <2>1, <2>2 DEF ServiceTypes
<1>3. RequestsLeaveTraces /\ CallersArePastTheClaim /\ RepliesAreEarned /\ ClaimIsExclusive
  BY <1>1 DEF RequestsLeaveTraces, CallersArePastTheClaim, RepliesAreEarned, ClaimIsExclusive
<1> QED
  BY <1>2, <1>3 DEF VInv

(* A step of request r that leaves the ledger and the provider alone: what *)
(* it has to keep is decided by where it goes, what it records and what it *)
(* answers.                                                                *)
LEMMA PlainStep ==
  ASSUME VInv, NEW r \in Request, place[r] # "over",
         UNCHANGED <<gates, expired, kind, claim, result, effect, called>>,
         opened \subseteq opened', opened' \subseteq Request,
         records \subseteq records', records' \subseteq RecordOf, faults' \in 0..MaxFaults,
         place' = [place EXCEPT ![r] = place'[r]], place'[r] \in Place \ {"perform", "lifecycle"},
         reply' = [reply EXCEPT ![r] = reply'[r]], reply'[r] \in Reply \cup {None},
         RequestsLeaveTraces!(r)', CallersArePastTheClaim!(r)', RepliesAreEarned!(r)'
  PROVE  VInv'
<1>1. ServiceTypes'
  BY DEF VInv, ServiceTypes
<1>2. ASSUME NEW u \in Request, u # r
      PROVE  place'[u] = place[u] /\ reply'[u] = reply[u]
  BY <1>2 DEF VInv, ServiceTypes
<1>3. RequestsLeaveTraces'
  <2> SUFFICES ASSUME NEW u \in Request, u # r PROVE RequestsLeaveTraces!(u)'
    BY DEF RequestsLeaveTraces
  <2> QED
    BY <1>2 DEF VInv, RequestsLeaveTraces
<1>4. CallersArePastTheClaim'
  <2> SUFFICES ASSUME NEW u \in Request, u # r PROVE CallersArePastTheClaim!(u)'
    BY DEF CallersArePastTheClaim
  <2> QED
    BY <1>2 DEF VInv, CallersArePastTheClaim
<1>5. RepliesAreEarned'
  <2> SUFFICES ASSUME NEW u \in Request, u # r PROVE RepliesAreEarned!(u)'
    BY DEF RepliesAreEarned
  <2> QED
    BY <1>2 DEF VInv, RepliesAreEarned
<1>6. ClaimIsExclusive'
  BY <1>2 DEF VInv, ClaimIsExclusive
<1> QED
  BY <1>1, <1>3, <1>4, <1>5, <1>6 DEF VInv

(* A step that ends with an answer, or with a sink that raises, or with    *)
(* the process out of its audit log. *)
LEMMA AnswerStep ==
  ASSUME VInv, NEW r \in Request, NEW code \in {200, 202, 400, 423, 500, 503},
         NEW said \in {"no", "yes", "unknown"},
         UNCHANGED <<gates, opened, expired, kind, claim, result, effect, called>>,
         place[r] # "over", V!Reply(r, code, said),
         records \subseteq records', records' \subseteq RecordOf,
         r \in called /\ code # 500 => said # "no",
         kind[r] \in V!Commit /\ code \in {200, 202} =>
           <<r, "completed">> \in records' /\ (code = 200 => effect = "refunded")
  PROVE  VInv'
<1> USE DEF V!Reply, V!Goto, V!Fault
<1>1. place' = [place EXCEPT ![r] = place'[r]] /\ place'[r] \in {"over", "raised"}
  BY DEF VInv, ServiceTypes
<1>2. /\ reply' = [reply EXCEPT ![r] = reply'[r]]
      /\ \/ reply'[r] = reply[r]
         \/ place'[r] = "over" /\ reply'[r] = [code |-> code, called |-> said]
  BY DEF VInv, ServiceTypes
<1>3. faults' \in 0..MaxFaults
  BY ServiceAssumed DEF VInv, ServiceTypes, V!ServiceAssumption
<1>4. reply[r] = None
  BY DEF VInv, RepliesAreEarned
<1>5. reply'[r] \in Reply \cup {None}
  BY <1>2, <1>4 DEF Reply
<1>6. RequestsLeaveTraces!(r)'
  BY <1>1
<1>7. CallersArePastTheClaim!(r)'
  BY <1>1 DEF VInv, CallersArePastTheClaim
<1>8. RepliesAreEarned!(r)'
  BY <1>2, <1>4
<1>9. opened' \subseteq Request /\ place'[r] \in Place \ {"perform", "lifecycle"}
  BY <1>1 DEF VInv, ServiceTypes, Place
<1> QED
  BY <1>1, <1>2, <1>3, <1>5, <1>6, <1>7, <1>8, <1>9, PlainStep

(* A step that goes on. *)
LEMMA GoOnStep ==
  ASSUME VInv, NEW r \in Request, NEW to \in Place \ {"perform", "lifecycle", "over"},
         place[r] # "over", V!Goto(r, to), UNCHANGED <<gates, expired, kind, claim, result, effect, called, faults>>,
         opened \subseteq opened', opened' \subseteq Request,
         records \subseteq records', records' \subseteq RecordOf,
         to # "raised" =>
           /\ to \notin {"new", "request", "simulate"} => kind[r] \in V!Commit /\ <<r, "requested">> \in records'
           /\ to = "simulate" => kind[r] \notin V!Commit
           /\ to \in {"execute", "failUnknown"} => <<r, "started">> \in records'
           /\ to \in {"start", "execute"} => r \in opened'
           /\ gates = "open" /\ to # "new" => r \in opened',
         r \in called => to \in {"failUnknown", "complete", "observed", "raised"},
         to = "complete" => effect = "refunded"
  PROVE  VInv'
<1>1. place' = [place EXCEPT ![r] = place'[r]] /\ place'[r] = to /\ reply' = reply
  BY DEF V!Goto, VInv, ServiceTypes
<1>2. reply' = [reply EXCEPT ![r] = reply'[r]] /\ reply'[r] = None
  BY <1>1 DEF VInv, ServiceTypes, RepliesAreEarned
<1>3. RequestsLeaveTraces!(r)'
  BY <1>1
<1>4. CallersArePastTheClaim!(r)'
  BY <1>1 DEF VInv, CallersArePastTheClaim
<1>5. RepliesAreEarned!(r)'
  BY <1>2
<1>6. faults' \in 0..MaxFaults
  BY DEF VInv, ServiceTypes
<1> QED
  BY <1>1, <1>2, <1>3, <1>4, <1>5, <1>6, PlainStep

(* A step that answers because nothing could be recorded, or although. *)
LEMMA RefusalStep ==
  ASSUME VInv, NEW r \in Request, NEW code \in {400, 500, 503}, NEW said \in {"no", "yes"},
         UNCHANGED <<gates, opened, expired, kind, claim, result, effect, called>>,
         place[r] # "over", faults' \in 0..MaxFaults,
         place' = [place EXCEPT ![r] = "over"],
         reply' = [reply EXCEPT ![r] = [code |-> code, called |-> said]],
         records \subseteq records', records' \subseteq RecordOf,
         r \in called /\ code # 500 => said # "no"
  PROVE  VInv'
<1>1. place' = [place EXCEPT ![r] = place'[r]] /\ place'[r] = "over"
  BY DEF VInv, ServiceTypes
<1>2. reply' = [reply EXCEPT ![r] = reply'[r]] /\ reply'[r] = [code |-> code, called |-> said]
  BY DEF VInv, ServiceTypes
<1>3. RequestsLeaveTraces!(r)'
  BY <1>1
<1>4. CallersArePastTheClaim!(r)'
  BY <1>1 DEF VInv, CallersArePastTheClaim
<1>5. RepliesAreEarned!(r)'
  BY <1>1, <1>2
<1>6. /\ opened' \subseteq Request /\ place'[r] \in Place \ {"perform", "lifecycle"}
      /\ reply'[r] \in Reply \cup {None}
  BY <1>1, <1>2 DEF VInv, ServiceTypes, Place, Reply
<1> QED
  BY <1>1, <1>2, <1>3, <1>4, <1>5, <1>6, PlainStep

(* The steps of a request that leave ledger and provider alone. *)
LEMMA PlainActionsKeepInv ==
  ASSUME VInv, NEW r \in Request,
         \/ V!RejectRaised(r) \/ V!RejectUnread(r) \/ V!RejectAtRoute(r) \/ V!HandOnWebhook(r)
         \/ V!Report(r) \/ V!Accept(r) \/ V!RecordRequest(r) \/ V!Simulate(r) \/ V!Gate(r)
         \/ V!Deny(r) \/ V!Start(r) \/ V!FailNotStarted(r) \/ V!FailUnknown(r) \/ V!Complete(r)
  PROVE  VInv'
<1> USE DEF V!world, V!run
<1>1. /\ records \subseteq RecordOf /\ faults \in 0..MaxFaults /\ opened \subseteq Request
      /\ MaxFaults \in Nat
      /\ r \in called => place[r] \in {"lifecycle", "failUnknown", "complete", "observed", "raised", "over"}
      /\ \A type \in {"rejected", "requested", "simulated", "denied", "started", "failed", "completed"} :
           V!Stored(r, type) => /\ records \subseteq records' /\ records' \subseteq RecordOf
                                /\ <<r, type>> \in records'
  BY ServiceAssumed
  DEF VInv, ServiceTypes, CallersArePastTheClaim, RecordOf, V!ServiceAssumption, V!Stored
<1>2. ASSUME V!RejectWith(r, 500), place[r] = "raised"
      PROVE  VInv'
  <2>1. UNCHANGED <<gates, opened, expired, kind, claim, result, effect, called>>
    BY <1>2 DEF V!RejectWith
  <2>2. place' = [place EXCEPT ![r] = "over"] /\ faults' \in 0..MaxFaults /\ place[r] # "over"
    BY <1>1, <1>2 DEF V!RejectWith
  <2>3. reply' = [reply EXCEPT ![r] = [code |-> 500, called |-> "no"]]
    BY <1>2 DEF V!RejectWith
  <2>4. records \subseteq records' /\ records' \subseteq RecordOf
    BY <1>1, <1>2 DEF V!RejectWith
  <2>5. 500 \in {400, 500, 503} /\ "no" \in {"no", "yes"} /\ ~(r \in called /\ 500 # 500)
    OBVIOUS
  <2> QED
    BY <2>1, <2>2, <2>3, <2>4, <2>5, RefusalStep
<1>3. ASSUME V!RejectWith(r, 400), place[r] = "new"
      PROVE  VInv'
  <2>1. UNCHANGED <<gates, opened, expired, kind, claim, result, effect, called>>
    BY <1>3 DEF V!RejectWith
  <2>2. place' = [place EXCEPT ![r] = "over"] /\ faults' \in 0..MaxFaults /\ place[r] # "over"
    BY <1>1, <1>3 DEF V!RejectWith
  <2>3. reply' = [reply EXCEPT ![r] = [code |-> 400, called |-> "no"]]
    BY <1>3 DEF V!RejectWith
  <2>4. records \subseteq records' /\ records' \subseteq RecordOf
    BY <1>1, <1>3 DEF V!RejectWith
  <2>5. r \notin called
    BY <1>1, <1>3
  <2>6. 400 \in {400, 500, 503} /\ "no" \in {"no", "yes"}
    OBVIOUS
  <2> QED
    BY <2>1, <2>2, <2>3, <2>4, <2>5, <2>6, RefusalStep
<1>4. ASSUME V!Denied503(r), place[r] \in {"request", "simulate", "deny", "start"},
             UNCHANGED <<gates, opened, expired, kind, claim, result, effect, called>>
      PROVE  VInv'
  <2>1. faults' \in 0..MaxFaults /\ records' = records
    BY <1>1, <1>4 DEF V!Denied503, V!Lost, V!Fault
  <2>2. /\ place' = [place EXCEPT ![r] = "over"]
        /\ reply' = [reply EXCEPT ![r] = [code |-> 503, called |-> "no"]]
    BY <1>4 DEF V!Denied503
  <2>3. place[r] # "over" /\ ~(r \in called /\ 503 # 500)
    BY <1>1, <1>4
  <2>4. records \subseteq records' /\ records' \subseteq RecordOf
    BY <1>1, <2>1
  <2>5. 503 \in {400, 500, 503} /\ "no" \in {"no", "yes"}
    OBVIOUS
  <2> QED
    BY <1>4, <2>1, <2>2, <2>3, <2>4, <2>5, RefusalStep
<1>5. CASE V!RejectRaised(r)
  BY <1>2, <1>5 DEF V!RejectRaised
<1>6. CASE V!RejectUnread(r) \/ V!RejectAtRoute(r)
  BY <1>3, <1>6 DEF V!RejectUnread, V!RejectAtRoute, V!Reject
<1>7. CASE V!HandOnWebhook(r)
  <2>1. CASE V!Reject(r)
    BY <1>3, <1>7, <2>1 DEF V!HandOnWebhook, V!Reject
  <2>2. CASE V!Reply(r, 200, "no") /\ UNCHANGED <<V!world, records, V!run>>
    <3>1. kind[r] \notin V!Commit /\ place[r] = "new"
      BY <1>7 DEF V!HandOnWebhook, V!Commit
    <3> QED
      BY <1>1, <2>2, <3>1, AnswerStep
  <2> QED
    BY <1>7, <2>1, <2>2 DEF V!HandOnWebhook
<1>8. CASE V!Report(r)
  <2>1. /\ kind[r] \notin V!Commit /\ place[r] = "new"
        /\ UNCHANGED <<gates, opened, expired, kind, records, claim, result, effect, called>>
    BY <1>8 DEF V!Report, V!Commit
  <2>2. CASE V!Goto(r, "raised") /\ UNCHANGED faults
    BY <1>1, <2>1, <2>2, GoOnStep DEF Place
  <2>3. CASE \E code \in {200, 503} : V!Reply(r, code, "no")
    BY <1>1, <2>1, <2>3, AnswerStep
  <2> QED
    BY <1>8, <2>2, <2>3 DEF V!Report
<1>9. CASE V!Accept(r)
  <2>1. /\ place[r] = "new" /\ V!Goto(r, "request")
        /\ UNCHANGED <<gates, expired, kind, records, claim, result, effect, called, faults>>
        /\ opened' = IF gates = "open" THEN opened \cup {r} ELSE opened
    BY <1>9 DEF V!Accept
  <2>2. opened \subseteq opened' /\ opened' \subseteq Request /\ (gates = "open" => r \in opened')
    BY <1>1, <2>1
  <2> QED
    BY <1>1, <2>1, <2>2, GoOnStep DEF Place
<1>10. CASE V!RecordRequest(r)
  <2>1. place[r] = "request" /\ UNCHANGED <<gates, opened, expired, kind, claim, result, effect, called>>
    BY <1>10 DEF V!RecordRequest
  <2>2. CASE /\ V!Stored(r, "requested") /\ UNCHANGED faults
             /\ V!Goto(r, IF kind[r] \in V!Commit THEN "gate" ELSE "simulate")
    <3>1. gates = "open" => r \in opened
      BY <2>1 DEF VInv, RequestsLeaveTraces
    <3>2. CASE kind[r] \in V!Commit
      BY <1>1, <2>1, <2>2, <3>1, <3>2, GoOnStep DEF Place
    <3>3. CASE kind[r] \notin V!Commit
      BY <1>1, <2>1, <2>2, <3>1, <3>3, GoOnStep DEF Place
    <3> QED
      BY <3>2, <3>3
  <2> QED
    BY <1>4, <1>10, <2>1, <2>2 DEF V!RecordRequest
<1>11. CASE V!Simulate(r)
  <2>1. place[r] = "simulate" /\ UNCHANGED <<gates, opened, expired, kind, claim, result, effect, called>>
    BY <1>11 DEF V!Simulate
  <2>2. ASSUME NEW code \in {200, 400, 503}, V!Stored(r, "simulated"), V!Reply(r, code, "no")
        PROVE  VInv'
    <3>1. kind[r] \notin V!Commit
      BY <2>1 DEF VInv, RequestsLeaveTraces
    <3> QED
      BY <1>1, <2>1, <2>2, <3>1, AnswerStep
  <2> QED
    BY <1>4, <1>11, <2>1, <2>2 DEF V!Simulate
<1>12. CASE V!Gate(r)
  <2>1. /\ place[r] = "gate" /\ kind[r] \in V!Commit /\ <<r, "requested">> \in records
        /\ gates = "open" => r \in opened
        /\ UNCHANGED <<gates, opened, expired, kind, records, claim, result, effect, called, faults>>
    BY <1>12 DEF V!Gate, VInv, RequestsLeaveTraces
  <2>2. ASSUME NEW to \in {"raised", "start", "deny"}, V!Goto(r, to), to = "start" => gates = "open"
        PROVE  VInv'
    BY <1>1, <2>1, <2>2, GoOnStep DEF Place
  <2>3. CASE gates = "broken"
    BY <1>12, <2>2, <2>3 DEF V!Gate
  <2>4. CASE gates = "open" /\ kind[r] # "noOperation"
    BY <1>12, <2>2, <2>4 DEF V!Gate
  <2>5. CASE ~(gates = "broken") /\ ~(gates = "open" /\ kind[r] # "noOperation")
    BY <1>12, <2>2, <2>5 DEF V!Gate
  <2> QED
    BY <2>3, <2>4, <2>5
<1>13. CASE V!Deny(r)
  <2>1. place[r] = "deny" /\ UNCHANGED <<gates, opened, expired, kind, claim, result, effect, called>>
    BY <1>13 DEF V!Deny
  <2>2. ASSUME NEW code \in {400, 423}, V!Stored(r, "denied"), V!Reply(r, code, "no")
        PROVE  VInv'
    BY <1>1, <2>1, <2>2, AnswerStep
  <2> QED
    BY <1>4, <1>13, <2>1, <2>2 DEF V!Deny
<1>14. CASE V!Start(r)
  <2>1. /\ place[r] = "start" /\ UNCHANGED <<gates, opened, expired, kind, claim, result, effect, called>>
        /\ kind[r] \in V!Commit /\ <<r, "requested">> \in records /\ r \in opened
    BY <1>14 DEF V!Start, VInv, RequestsLeaveTraces
  <2>2. CASE V!Stored(r, "started") /\ V!Goto(r, "execute") /\ UNCHANGED faults
    BY <1>1, <2>1, <2>2, GoOnStep DEF Place
  <2> QED
    BY <1>4, <1>14, <2>1, <2>2 DEF V!Start
<1>15. CASE V!FailNotStarted(r) \/ V!FailUnknown(r)
  <2>1. /\ place[r] \in {"failNotStarted", "failUnknown"}
        /\ UNCHANGED <<gates, opened, expired, kind, claim, result, effect, called>>
        /\ records \subseteq records' /\ records' \subseteq RecordOf
        /\ \/ place[r] = "failNotStarted" /\ V!Reply(r, 503, "no")
           \/ V!Reply(r, 503, "unknown")
    BY <1>1, <1>15 DEF V!FailNotStarted, V!FailUnknown
  <2> QED
    BY <1>1, <2>1, AnswerStep
<1>16. CASE V!Complete(r)
  <2>1. /\ place[r] \in {"complete", "observed"}
        /\ UNCHANGED <<gates, opened, expired, kind, claim, result, effect, called>>
        /\ place[r] = "complete" => effect = "refunded"
    BY <1>16 DEF V!Complete, VInv, CallersArePastTheClaim
  <2>2. ASSUME NEW code \in {200, 202}, V!Stored(r, "completed"), V!Reply(r, code, "yes"),
               code = 200 => place[r] = "complete"
        PROVE  VInv'
    BY <1>1, <2>1, <2>2, AnswerStep
  <2>3. CASE /\ V!Lost /\ place' = [place EXCEPT ![r] = "over"]
             /\ reply' = [reply EXCEPT ![r] = [code |-> 503, called |-> "yes"]]
    <3>1. faults' \in 0..MaxFaults /\ records' = records
      BY <1>1, <2>3 DEF V!Lost, V!Fault
    <3>2. records \subseteq records' /\ records' \subseteq RecordOf /\ place[r] # "over"
      BY <1>1, <2>1, <3>1
    <3>3. 503 \in {400, 500, 503} /\ "yes" \in {"no", "yes"} /\ "yes" # "no"
      OBVIOUS
    <3> QED
      BY <2>1, <2>3, <3>1, <3>2, <3>3, RefusalStep
  <2>4. CASE V!Stored(r, "completed") /\ V!Reply(r, IF place[r] = "complete" THEN 200 ELSE 202, "yes")
    <3>1. CASE place[r] = "complete"
      BY <2>2, <2>4, <3>1
    <3>2. CASE place[r] # "complete"
      BY <2>2, <2>4, <3>2
    <3> QED
      BY <3>1, <3>2
  <2> QED
    BY <1>16, <2>3, <2>4 DEF V!Complete
<1> QED
  BY <1>5, <1>6, <1>7, <1>8, <1>9, <1>10, <1>11, <1>12, <1>13, <1>14, <1>15, <1>16
(* A step of request r at the ledger entry or behind its claim. *)
LEMMA LedgerStep ==
  ASSUME VInv, NEW r \in Request, place[r] \in {"execute", "perform", "lifecycle"},
         NEW to \in {"perform", "lifecycle", "failNotStarted", "failUnknown", "complete", "observed"},
         V!Goto(r, to), UNCHANGED <<gates, opened, expired, kind, records, faults>>,
         claim' \in Request \cup {None}, result' \in BOOLEAN,
         effect' \in {"none", "pending", "refunded"}, effect = "refunded" => effect' = "refunded",
         called \subseteq called', called' \subseteq called \cup {r},
         r \in called' => to \in {"lifecycle", "failUnknown", "complete", "observed"},
         to = "complete" => effect' = "refunded",
         ClaimIsExclusive'
  PROVE  VInv'
<1>1. /\ place' \in [Request -> Place] /\ place'[r] = to /\ reply' = reply
      /\ \A u \in Request : u # r => place'[u] = place[u]
  BY DEF V!Goto, VInv, ServiceTypes, Place
<1>2. /\ kind[r] \in V!Commit /\ r \in opened /\ <<r, "requested">> \in records /\ <<r, "started">> \in records
      /\ reply[r] = None
  BY DEF VInv, RequestsLeaveTraces, RepliesAreEarned
<1>3. ServiceTypes'
  BY <1>1 DEF VInv, ServiceTypes
<1>4. RequestsLeaveTraces'
  <2> SUFFICES ASSUME NEW u \in Request PROVE RequestsLeaveTraces!(u)'
    BY DEF RequestsLeaveTraces
  <2>1. CASE u = r
    BY <1>1, <1>2, <2>1
  <2>2. CASE u # r
    BY <1>1, <2>2 DEF VInv, RequestsLeaveTraces
  <2> QED
    BY <2>1, <2>2
<1>5. CallersArePastTheClaim'
  <2> SUFFICES ASSUME NEW u \in Request PROVE CallersArePastTheClaim!(u)'
    BY DEF CallersArePastTheClaim
  <2>1. CASE u = r
    BY <1>1, <1>2, <2>1
  <2>2. CASE u # r
    BY <1>1, <2>2 DEF VInv, CallersArePastTheClaim
  <2> QED
    BY <2>1, <2>2
<1>6. RepliesAreEarned'
  <2> SUFFICES ASSUME NEW u \in Request PROVE RepliesAreEarned!(u)'
    BY DEF RepliesAreEarned
  <2>1. CASE u = r
    BY <1>1, <1>2, <2>1
  <2>2. CASE u # r
    BY <1>1, <2>2 DEF VInv, RepliesAreEarned
  <2> QED
    BY <2>1, <2>2
<1> QED
  BY <1>3, <1>4, <1>5, <1>6 DEF VInv

(* Only the owner of the claim runs the lifecycle, and only while nothing  *)
(* is kept: what CompletedRunIsReplayed comes from. *)
LEMMA LedgerActionsKeepInv ==
  ASSUME VInv, NEW r \in Request, V!Claim(r) \/ V!Perform(r) \/ V!LifecycleEnds(r)
  PROVE  VInv'
<1> USE DEF V!world
<1>1. /\ effect \in {"none", "pending", "refunded"} /\ claim \in Request \cup {None} /\ result \in BOOLEAN
      /\ called \subseteq Request /\ opened \subseteq Request /\ None \notin Request
      /\ records \subseteq RecordOf
      /\ \A u \in Request : place[u] \in {"perform", "lifecycle"} => claim = u /\ ~result
      /\ result => effect = "refunded"
      /\ r \in called => place[r] \in {"lifecycle", "failUnknown", "complete", "observed", "raised", "over"}
      /\ place \in [Request -> Place]
  BY ServiceAssumed DEF VInv, ServiceTypes, CallersArePastTheClaim, ClaimIsExclusive, V!ServiceAssumption
<1>2. CASE V!Claim(r)
  <2>1. /\ place[r] = "execute" /\ kind[r] \in V!Commit /\ r \in opened /\ r \notin called
        /\ <<r, "requested">> \in records /\ <<r, "started">> \in records
        /\ UNCHANGED <<gates, opened, expired, kind, records, result, effect, called, faults>>
    BY <1>1, <1>2 DEF V!Claim, VInv, RequestsLeaveTraces
  <2>2. CASE V!Goto(r, "failNotStarted") /\ UNCHANGED claim
    BY <1>1, <2>1, <2>2, GoOnStep DEF Place
  <2>3. CASE result /\ V!Goto(r, "complete") /\ UNCHANGED claim
    BY <1>1, <2>1, <2>3, GoOnStep DEF Place
  <2>4. CASE ~result /\ claim = None /\ claim' = r /\ V!Goto(r, "perform")
    <3>1. ClaimIsExclusive'
      BY <1>1, <2>1, <2>4 DEF V!Goto, ClaimIsExclusive
    <3> QED
      BY <1>1, <2>1, <2>4, <3>1, LedgerStep
  <2> QED
    BY <1>2, <2>2, <2>3, <2>4 DEF V!Claim
<1>3. CASE V!Perform(r)
  <2>1. /\ place[r] = "perform" /\ claim = r /\ ~result /\ r \notin called
        /\ UNCHANGED <<gates, opened, expired, kind, records, result, effect, faults>>
    BY <1>1, <1>3 DEF V!Perform
  <2>2. CASE claim' = None /\ V!Goto(r, "failNotStarted") /\ UNCHANGED called
    <3>1. ClaimIsExclusive'
      BY <1>1, <2>1, <2>2 DEF V!Goto, ClaimIsExclusive
    <3> QED
      BY <1>1, <2>1, <2>2, <3>1, LedgerStep
  <2>3. CASE UNCHANGED claim /\ called' = called \cup {r} /\ V!Goto(r, "lifecycle")
    <3>1. ClaimIsExclusive'
      BY <1>1, <2>1, <2>3 DEF V!Goto, ClaimIsExclusive
    <3> QED
      BY <1>1, <2>1, <2>3, <3>1, LedgerStep
  <2> QED
    BY <1>3, <2>2, <2>3 DEF V!Perform
<1>4. CASE V!LifecycleEnds(r)
  <2>1. /\ place[r] = "lifecycle" /\ claim = r /\ ~result /\ claim' = None
        /\ UNCHANGED <<gates, opened, expired, kind, records, called, faults>>
        /\ effect' \in {"none", "pending", "refunded"} /\ (effect = "refunded" => effect' = "refunded")
    BY <1>1, <1>4 DEF V!LifecycleEnds, V!Reached
  <2>2. ASSUME NEW to \in {"complete", "observed", "failUnknown"}, V!Goto(r, to),
               result' \in BOOLEAN, to = "complete" \/ result' => effect' = "refunded"
        PROVE  VInv'
    <3>1. ClaimIsExclusive'
      BY <1>1, <2>1, <2>2 DEF V!Goto, ClaimIsExclusive
    <3> QED
      BY <1>1, <2>1, <2>2, <3>1, LedgerStep
  <2>3. CASE effect' = "refunded" /\ result' = TRUE /\ V!Goto(r, "complete")
    BY <2>2, <2>3
  <2>4. CASE UNCHANGED result /\ (V!Goto(r, "observed") \/ V!Goto(r, "failUnknown"))
    <3>1. result' = FALSE
      BY <1>1, <2>1, <2>4
    <3> QED
      BY <2>2, <2>4, <3>1
  <2> QED
    BY <1>4, <2>3, <2>4 DEF V!LifecycleEnds
<1> QED
  BY <1>2, <1>3, <1>4

LEMMA CrashKeepsInv == ASSUME VInv, V!Crash PROVE VInv'
<1> USE DEF V!world
<1>1. /\ UNCHANGED <<gates, opened, expired, kind, records, result, called, reply>> /\ claim' = None
      /\ place' = [r \in Request |-> IF place[r] = "new" THEN "new" ELSE "over"]
  BY DEF V!Crash
<1>2. \A r \in Request : /\ place'[r] = "new" <=> place[r] = "new"
                         /\ place'[r] # "new" => place'[r] = "over"
  BY <1>1
<1>3. effect' \in {"none", "pending", "refunded"} /\ (effect = "refunded" => effect' = "refunded")
  BY DEF V!Crash, V!Reached, VInv, ServiceTypes
<1>4. ServiceTypes'
  <2>1. faults' \in 0..MaxFaults
    BY ServiceAssumed DEF V!Crash, V!Fault, VInv, ServiceTypes, V!ServiceAssumption
  <2>2. place' \in [Request -> Place]
    BY <1>1 DEF Place
  <2> QED
    BY <1>1, <1>3, <2>1, <2>2 DEF VInv, ServiceTypes
<1>5. RequestsLeaveTraces'
  BY <1>2 DEF RequestsLeaveTraces
<1>6. CallersArePastTheClaim'
  BY <1>1, <1>2 DEF VInv, CallersArePastTheClaim
<1>7. RepliesAreEarned'
  BY <1>1, <1>2, <1>3 DEF VInv, RepliesAreEarned
<1>8. ClaimIsExclusive'
  BY <1>1, <1>2, <1>3 DEF VInv, ClaimIsExclusive
<1> QED
  BY <1>4, <1>5, <1>6, <1>7, <1>8 DEF VInv

(* What happens around the requests: the pinned files and the clock. *)
LEMMA EnvironmentKeepsInv == ASSUME VInv, V!Tamper \/ V!Restore \/ V!Expire PROVE VInv'
<1> USE DEF V!run
<1>1. /\ UNCHANGED <<kind, place, records, claim, result, effect, called, reply, faults>>
      /\ opened \subseteq opened' /\ opened' \subseteq Request
      /\ gates' \in {"open", "shut", "broken"} /\ expired' \in BOOLEAN
  BY DEF V!Tamper, V!Restore, V!Expire, VInv, ServiceTypes
<1>2. ServiceTypes'
  BY <1>1 DEF VInv, ServiceTypes
<1>3. RequestsLeaveTraces'
  <2> SUFFICES ASSUME NEW r \in Request PROVE RequestsLeaveTraces!(r)'
    BY DEF RequestsLeaveTraces
  <2>1. gates' = "open" /\ place'[r] \notin {"new", "raised", "over"} => r \in opened'
    BY <1>1 DEF V!Tamper, V!Restore, V!Expire, VInv, RequestsLeaveTraces
  <2> QED
    BY <1>1, <2>1 DEF VInv, RequestsLeaveTraces
<1>4. CallersArePastTheClaim'
  BY <1>1 DEF VInv, CallersArePastTheClaim
<1>5. RepliesAreEarned'
  BY <1>1 DEF VInv, RepliesAreEarned
<1>6. ClaimIsExclusive'
  BY <1>1 DEF VInv, ClaimIsExclusive
<1> QED
  BY <1>2, <1>3, <1>4, <1>5, <1>6 DEF VInv

LEMMA ServiceNextKeepsInv == VInv /\ [V!Next]_(V!vars) => VInv'
<1> SUFFICES ASSUME VInv, [V!Next]_(V!vars) PROVE VInv'
  OBVIOUS
<1>1. CASE UNCHANGED V!vars
  BY <1>1 DEF V!vars, VInv, ServiceTypes, RequestsLeaveTraces, CallersArePastTheClaim,
              RepliesAreEarned, ClaimIsExclusive
<1>2. ASSUME NEW r \in Request, V!Step(r) PROVE VInv'
  BY <1>2, PlainActionsKeepInv, LedgerActionsKeepInv DEF V!Step
<1> QED
  BY <1>1, <1>2, CrashKeepsInv, EnvironmentKeepsInv DEF V!Next

(* Behind a kept result nobody calls: only the owner of the claim does. *)
LEMMA ResultsAreReplayed == VInv /\ [V!Next]_(V!vars) => [result => called' = called]_(V!vars)
<1> SUFFICES ASSUME VInv, V!Next, result PROVE called' = called
  OBVIOUS
<1> USE DEF V!world, V!run
<1>1. ASSUME NEW r \in Request, V!Step(r) PROVE called' = called
  <2>1. CASE V!Perform(r)
    BY <2>1 DEF V!Perform, VInv, ClaimIsExclusive
  <2>2. CASE V!Claim(r) \/ V!LifecycleEnds(r)
    BY <2>2 DEF V!Claim, V!LifecycleEnds
  <2>3. CASE V!RejectRaised(r) \/ V!RejectUnread(r) \/ V!RejectAtRoute(r) \/ V!HandOnWebhook(r) \/ V!Report(r)
    BY <2>3 DEF V!RejectRaised, V!RejectUnread, V!RejectAtRoute, V!HandOnWebhook, V!Report, V!Reject, V!RejectWith
  <2>4. CASE V!Accept(r) \/ V!RecordRequest(r) \/ V!Simulate(r) \/ V!Gate(r) \/ V!Deny(r) \/ V!Start(r)
    BY <2>4 DEF V!Accept, V!RecordRequest, V!Simulate, V!Gate, V!Deny, V!Start
  <2>5. CASE V!FailNotStarted(r) \/ V!FailUnknown(r) \/ V!Complete(r)
    BY <2>5 DEF V!FailNotStarted, V!FailUnknown, V!Complete
  <2> QED
    BY <1>1, <2>1, <2>2, <2>3, <2>4, <2>5 DEF V!Step
<1> QED
  BY <1>1 DEF V!Next, V!Crash, V!Tamper, V!Restore, V!Expire
LEMMA ServiceBehaviour == MCSpec => V!Init /\ [][V!Next]_(V!vars)
<1>1. MCInit => V!Init
  BY DEF MCInit
<1>2. [MCNext]_<<part, vars, serviceVars, statusVars>> => [V!Next]_(V!vars)
  BY DEF MCNext, serviceVars, V!vars
<1> QED
  BY <1>1, <1>2, PTL DEF MCSpec

(* Whatever fails or dies: a request that may have called the provider was *)
(* let through by open gates, left the records of its arrival and start,   *)
(* and is not told by its handler that nothing was called; success is told *)
(* only with the record of the outcome; and behind a completed run nobody  *)
(* calls again (request_commit of service.py, perform of execution.py).    *)
THEOREM CallsStayAccountedFor == MCSpec => CallsAreAccountedFor
<1> DEFINE promises == /\ V!TypeOK /\ V!HandlersAreTruthful /\ V!CallsLeaveATrace
                       /\ V!ClosedGatesDeny /\ V!SuccessIsRecorded
<1>1. VInv => promises
  <2> SUFFICES ASSUME VInv PROVE promises
    OBVIOUS
  <2>1. V!TypeOK
    <3>1. \A r \in Request : reply[r] # None => /\ reply[r].code \in {200, 202, 400, 423, 500, 503}
                                                /\ reply[r].called \in {"no", "yes", "unknown"}
      BY DEF VInv, ServiceTypes, Reply
    <3> QED
      BY <3>1 DEF V!TypeOK, VInv, ServiceTypes, Place, RecordOf
  <2>2. V!HandlersAreTruthful
    BY DEF V!HandlersAreTruthful, VInv, ServiceTypes, RepliesAreEarned
  <2>3. V!CallsLeaveATrace /\ V!ClosedGatesDeny
    BY DEF V!CallsLeaveATrace, V!ClosedGatesDeny, VInv, ServiceTypes, CallersArePastTheClaim
  <2>4. V!SuccessIsRecorded
    BY DEF V!SuccessIsRecorded, VInv, RepliesAreEarned
  <2> QED
    BY <2>1, <2>2, <2>3, <2>4
<1>2. CallsAreAccountedFor <=> []promises /\ [][result => called' = called]_(V!vars)
  BY DEF CallsAreAccountedFor, V!CompletedRunIsReplayed
<1> HIDE DEF promises
<1> QED
  BY <1>1, <1>2, ServiceBehaviour, ServiceInitInv, ServiceNextKeepsInv, ResultsAreReplayed, PTL
===============================================================================
