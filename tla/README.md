# ECOCOMMIT: TLA+ models, checks and proofs

ECOCOMMIT turns an instruction into a typed economic contract and lets money
move only behind an evidence-bound capture certificate. This directory models
the parts of the repository that move money, remember that it moved, and decide
what may be believed about it: ledgers, commitments, the compensated payment
lifecycle, evidence and certificates, orders, webhooks, the audit log, the HTTP
service and its startup, and the scripts that derive final evidence from files.
TLC checks the models on small instances; TLAPS proves all their safety properties
for all instances.

Code references without a directory are relative to `src/src/ecocommit/`.

## The system

| Component | State | Operations | Talks to |
|---|---|---|---|
| Idempotency ledger, `durable.py` | one SQLite row per key: fingerprint, PENDING/COMPLETED, owner, lease, result | `execute` (claim, run, complete or delete) | every side effect runs inside it |
| JSON document store, `durable.py` | versioned, digest-bound documents | `load`, `create`, `compare_and_swap` | payment, commitment and webhook stores |
| Commitment engine, `commitment.py` | one `CommitmentState` per transaction: stage, history, references | nine operations from `propose` to `fail` | document store, certificate verifier |
| Razorpay adapter, `razorpay.py` | `PaymentSnapshot` (NONE to REFUNDED), orders in memory | `create_order`, `reserve`, `capture`, `refund`, `snapshot` | provider over HTTP, ledger, payment store |
| Lifecycle, `razorpay_checkout.py`, `execution.py` | none of its own; one ledger row per prepared operation | `execute`, `complete_test_lifecycle`, `has_bound_lifecycle_state` | all of the above |
| Reconciliation, `reconciliation.py` | none | `reconcile`, `compensate` | engine, adapter |
| Certificates, evidence, exposure | registry of versioned evidence records | `issue`, `verify`, `register`, `revoke`, `snapshot`, `hold_snapshot_current` | engine, adapter |
| Simulated payments, `payments.py` | payment snapshots | `reserve`, `capture`, `void`, `refund` | demo workflow |
| Webhooks, `webhook.py` | event documents and an index per transaction | `record`, `records`, `ingest` | document store, audit |
| Audit, `audit.py` | hash-chained append-only file | `append`, `verify` | service, webhooks |
| Service and API, `service.py`, `api.py` | rate-limiter window, status cache | HTTP routes | execution, audit |
| Startup, `deployment.py`, `scripts/checkpoint_d_server.py` | pinned evidence bundle, preflight records | `prepare_test_runtime`, readiness reload | files, provider, service |
| Checkpoint status, `checkpoint_status.py` | none: five gate reports, a mode and a provider state | readiness, blockers | startup, service |
| Checkpoint A, `scripts/checkpoint_a_*.py`, `qualification.py` | rows and files of one evaluation | score case by case, stop early, aggregate, write a receipt; resume a shard | files, language model |
| Benchmark, `checkpoint_c_*.py` | registrations, decision manifests, receipts | scoring, acceptance, write-once publication | files |
| B8 finalizer, `scripts/checkpoint_b8_finalize.py` | twelve retained files, two outputs | read, cross-check, write or verify | files, audit log |

One server process serves requests on several threads, operator scripts open
the same SQLite file from other processes, and a process may be replaced while
its leases still run. So the hard behaviours are: two executions of the same
operation at once (a lease of 300 s ran out, its owner is only slow), a crash
between a provider call and the write that records it, a lost or late HTTP
answer, old copies of shared documents, times sampled long before they are
used, and two expiries (handoff, certificate) that pass in between.
`PROJECT.json` lists these hazards with the line where each one bites.

What makes each component correct:

* ledger: one effect and one result per key and request; a live lease is
  respected; no caller waits for ever;
* commitment: an append-only, coherent history; no lost update; a captured
  commitment never ends in FAILED or CANCELLED;
* lifecycle: provider, payment record, commitment and cached results never
  contradict one another; money moves only with CAPTURE_ALLOWED stored and a
  valid certificate; captured money comes back and the books say so;
* evidence and certificates: nothing that was revoked, superseded or expired
  authorises a capture;
* orders: one order per receipt, and callers of one key agree on it;
* books: the journal never claims more than the payment did, and a refund is
  journaled before it is asked for;
* webhooks: every event is kept once, in either order, across crashes;
* audit: a chain that verifies, or no further append;
* service: a request that may have called the provider is recorded and is not
  told that nothing was called; a completed run is replayed;
* startup: ready means one bundle, at its pins, and a preflight of this process;
* evaluations: a candidate is given up only when it cannot pass any more, passes
  only with a row of every case, and no row is scored a second time;
* published evidence: what is on disk is whole, earned, and never replaced.

## Modules

| Module | Models | Notes |
|---|---|---|
| `OnceResult` | what a ledger promises | abstract: a key is decided once, callers with the same request get that decision |
| `IdempotencyLedger` | `SQLiteIdempotencyLedger` | one action per SQLite transaction; implements `OnceResult` |
| `ThreadLedger` | `IdempotencyLedger` of `idempotency.py` | threads, one Condition, nested calls; implements `OnceResult` |
| `RateLimiter` | `SlidingWindowRateLimiter` of `api.py` | clock read outside the lock |
| `Commitment` | `ProgressiveCommitmentEngine`, `SQLiteCommitmentStateStore` | full histories; a `compare_and_set` is two transactions |
| `Lifecycle` | `execute`, `complete_test_lifecycle`, `reserve`, `capture`, `refund`, `compensate` | composes ledger rows, payment record, commitment and provider |
| `OrderCreation` | `create_order`, `_find_order_by_receipt` | lost, late and refused POSTs, restarts |
| `Evidence` | `EvidenceRegistry`, `ExposureCalculator` | the registry and what trusted policy grants for its records |
| `CaptureBoundary` | `snapshot`, `issue`, `verify`, the guarded `capture` | extends `Evidence`; the lock is held where the code holds it |
| `SimulatedPayments` | `SimulatedPaymentAdapter`, payment stores | operations with their ledger entries and failures |
| `Reconciliation` | `Reconciler`, `CompensationCoordinator`, the workflow of `checkpoint_d_workflow.py` | extends `SimulatedPayments`; copies of one commitment |
| `EventStore` | what the webhook store promises | abstract: acknowledged events are readable and keep their first receipt |
| `Webhook` | `ingest`, `SQLiteWebhookEvidenceStore` | document, index, audit and answer are separate steps; implements `EventStore` |
| `Audit` | `AppendOnlyAuditLog` | both locks, partial writes, failed syncs, crashes, power cuts |
| `Service` | `CheckpointDApi.handle`, `CheckpointDService`, the prepared adapter | every route, every audit record, failures between them |
| `SafetyStatus` | `checkpoint_status.py` | operators: constructor, readiness, blockers |
| `Startup` | both server entry points, the evidence loader | extends `SafetyStatus`; files read one by one while replaced |
| `Qualification` | the final gates and early-stop bounds of Checkpoint A and of the qualification | operators |
| `Evaluation` | the one-shot runners of candidates 5 to 8 and of the formal qualification | extends `Qualification` |
| `Shards` | `checkpoint_a_shard.py`, `checkpoint_a_aggregate.py` | attempts that die, resume from one another and are aggregated |
| `BenchmarkScoring` | baselines, scoring, metrics, artifact checks, acceptance | operators |
| `FinalBenchmark` | registration, decisions, receipts, publication | extends `BenchmarkScoring`; racing publishers |
| `Finalization` | `finalize_b8` | files read one by one while replaced, two outputs written once |
| `CommitmentProofs`, `LifecycleProofs` | | theorems about the module of that name |
| `LedgersProofs`, `PaymentsProofs`, `StoresProofs`, `ServerProofs`, `PublicationProofs` | | theorems about the parts of `MCLedgers`, `MCPayments`, `MCStores`, `MCServer`, `MCPublication` |
| `ScoringProofs` | | theorems about the operators of `BenchmarkScoring`, for all inputs; `PublicationProofs` extends it |
| `MC...` | | instances for TLC |

Components that share state are composed by `EXTENDS` (`CaptureBoundary` over
`Evidence`, `Reconciliation` over `SimulatedPayments`, `Startup` over
`SafetyStatus`, `Evaluation` over `Qualification`, `FinalBenchmark` over
`BenchmarkScoring`) or, where one uses
another's promise, by modelling that promise: `Service` takes its ledger as
`IdempotencyLedger` shows it and the lifecycle as `Lifecycle` does, and
`OrderCreation` its ledger as `ThreadLedger`.

`IdempotencyLedger`. A call is one execution of `execute`, hence one owner
token. `ReadClock` is the clock reading before `BEGIN IMMEDIATE`; `Insert`,
`Mismatch`, `Replay`, `TakeOver` and `Wait` are the five ways out of `_claim`;
`Perform` is the effect of the operation, `Complete` and `LeaseLost` the
completing transaction, `Release` the delete after any exception. `overran` and
`deadline` only record, for the properties, which calls outlived their lease.
Result encoding, argument validation and the re-entry guard are left out.

`Commitment`. The stored document has a version; a caller's copy may be any
earlier one. `Compare` is the read and comparison of `compare_and_set`, `Swap`
and `Conflict` the versioned UPDATE. `Sources`, `Target` and `Allowed` are the
engine's checks, `CoherentHistory` is the pydantic validator: the property
`ValidatorAccepts` relates the two. Rejected and replayed calls change nothing
and are not actions.

`Lifecycle`. A worker is one caller that requests the execution again and again
from its own process. `pc` follows the code between the points where it touches
shared state, so that another worker may act between any two of them: each
ledger transaction, each read of a snapshot, each GET or POST, each
`compare_and_set`. `Claim`, `CompleteRow`, `Store`, `Advance` and `Delete` are
the shared building blocks (ledger claim and completion, payment CAS, engine
transition, ledger cleanup). Abstractions, and what justifies them:

* a `compare_and_set` is atomic: `Commitment` has its two transactions and
  proves `HistoryOnlyGrows` and `CopiesArePrefixes`, so a failing or stale
  write changes nothing;
* a lease is live or lapsed and may lapse at any time, which contains every
  timing of `IdempotencyLedger`;
* stage, proposal time and last time stand for the history: in this lifecycle a
  stage is reached by one event only, so equal stages mean equal histories;
* bindings (transaction digest, order, payment and refund ids) are those of the
  one prepared operation; every check of them succeeds;
* one unit of the clock is the 60 s of a certificate; evidence lives longer
  than the certificate (300 s) and so never decides;
* `has_bound_lifecycle_state` is evaluated by `execute` and again, at the same
  `now`, by `complete_test_lifecycle`; the states it accepts are never left, so
  the second evaluation is left out;
* a failed or pending lifecycle is one path: both ledger levels delete their
  rows (`Fail`, `Unwind`).

External to the code, and modelled from what the code asks of it: the provider
captures only an authorized payment, makes one refund per idempotency token,
answers a refund as pending or processed, shows a payment as `captured` until
its refund is processed and as `refunded` after (`razorpay.py:293,480` name that
status), and may release an uncaptured hold. Requests and answers may be lost,
and a request may arrive after its sender gave up (`late`).

`ThreadLedger`. `stack` says which calls a thread is inside of, because an entry
names its owner's thread and an operation may call `execute` again. `Wait` is
the untimed wait of the Condition; every change of an entry notifies.

`RateLimiter`. `MaxDelay` bounds how long a thread is held up between the clock
and the lock; the exact statements about a window need it, the code has none.

`OrderCreation`. The provider's orders are a sequence and an id is a position;
`underway` counts POSTs that may still land after their timeout, where `late`
allows it. After a restart `_orders` is empty and only the lookup by receipt
remains. The code does not look across keys: another key makes another order
after a restart, which `OrdersAreUnique` therefore does not exclude.

`CaptureBoundary`. Snapshot and checks take the registry's lock once per record;
`hold_snapshot_current` holds it over the capture. Every step uses a time that
was read before it.

`Reconciliation`. Each caller works on its own copy and may crash and load it
again; `Compensate` has the branches of `compensate`; findings of the reconciler
are operators over stage and payment state. Injected failures of the simulated
adapter are faults.

`Webhook`. The 8 rounds of `_add_to_index` are `MaxTries`, 2 in the run: what
matters is that they run out, after which the provider sends the event again.

`Audit`. A hash is the history it stands for, so two chains with equal heads are
equal. A torn line is a fragment behind the last complete line.

`Service`. Gates open, shut and break under a running server; a request may be
denied, fail at any audit write, wait for the ledger entry of another one, meet
an expired handoff, or lose its process.

`Startup`. A file has a version; a digest at its pin says that the version is the
pinned one. The bundle is loaded before the provider is contacted and again for
every request, one file after another, while an operator replaces files.

`Qualification`, `Evaluation`, `Shards`. A row is reduced to what the gates count:
passed, acted on, clarified, unsafe; thresholds are basis points, and ratios are
compared by multiplying out, which agrees with the floating point of the code on
its suites. Runners share one loop and differ in their bound, in what a case that
the provider puts off does, and in where the receipt comes from; Candidate 5 is
judged by the files its case processes left, which the model keeps apart from
the rows it holds (`kept`, `counts`). In `Shards`, a file is rewritten in place,
so it is torn between `Open` and `Write`; two history variables keep which rows
an output descends from.

`BenchmarkScoring`, `FinalBenchmark`. A digest is the value it is taken of. Rules,
suites and upstream receipts are names for what they say. The rows of an artifact
are in the order it declares. The runner shuffles by the plan's seed, while the
validator asks for any permutation of the cases and never shuffles again
(`checkpoint_c_models.py:702-726`): an order is any permutation here (`IsOrder`), and
what is claimed is that it changes no number. Each machine has a
clock that lags by at most `Skew`. Nothing in the code stops one execution id
from being run twice under one registration, and the model allows it. The
destination is written by a temporary file and `link`, which fails when the name
exists.

`Finalization`. The reads are in the order of the code: the preflight receipt
twice, the audit log three times (digest, head, events). `Accepts` is what must
hold after each; the checks of one file against another run after the last file,
`BelongTogether`. A run takes the time of a receipt that is already there.
`_write_or_verify` looks, links, and compares if somebody was faster; the look
decides nothing that the link does not and is merged with it. A crash while
reading leaves what a later beginning leaves, so crashes are only where outputs
are written.

## Runs

A run is a question about a group of components. Where components do not share
state they are checked side by side: an MC module extends one of them, instances
the others, and a variable `part`, chosen by Init and never changed, says which of
them acts; the others keep their first state. Every behaviour of the
composition is then a behaviour of one component, and a property that combines
statements about several of them (named and explained in the MC module) says of
each what it would say alone.

| Run | Instance | Question |
|---|---|---|
| `ledgers` | 3 calls, 1 key, 2 requests, lease of 1 tick; 3 calls, 2 threads, 2 keys; 2 attempts per 3 ticks | one effect and one result per key, live leases, ownership by thread, exact windows, every call ends, refinement of `OnceResult` |
| `commitment` | 2 callers, 6 event ids, times 0..2, certificate expires at 1 | history, old copies, validator, captured funds |
| `lifecycle` | 2 workers, 1 fault, clock 0..2, both expiries | agreement of provider, record, commitment and cached results |
| `lifecycle_live` | 2 workers, 1 fault or both expiries | captured money is refunded and journaled |
| `payments` | 2 callers with 2 keys, 2 faults; 8 evidence records, 4 ticks; 4 lost requests or restarts | books, certified captures, unique orders, and that retries succeed |
| `stores` | 3 threads in 2 processes, 3 faults; 2 handlers, 2 events, 2 bodies, 1 failure | one chain, no append behind damage, every call ends and the verified set arrives, refinement of `EventStore` |
| `server` | 2 bundles, 2 starts, 2 changed files; 2 requests of every kind, 3 faults; every status with passed or blocked gates | readiness is earned, contacts and calls are accounted for, starts and requests finish |
| `publication` | 24 internal or 8 frozen cases with two sets of thresholds; 2 attempts at 2 cases; 2 registrations, 3 manifests, 3 receipts, 2 publishers; 2 finalizers, files replaced in 4 ways, 1 crash; samples for the operators | verdicts, final evidence and receipts are earned, stay, and survive crashes |
| `capture_lost`, `refund_lost` | 1 worker, 1 fault | expected violations, see Findings |
| `reconciliation_cancel` | the journal alone, no fault | expected violation, see Findings |
| `service_sink` | 1 request, 1 fault | expected violation, see Findings |

Bounds. Three calls give an owner, one that takes over and a third that meets
either of them; keys of the SQLite ledger do not interact, so one is enough; two
keys of the thread ledger nest. Six ids let a full history run to COMPENSATED and
let any id be reused on the way; two callers give every stale copy. Two workers
give every overlap of a slow owner and its successor; one fault is a crash at any
step or one lost or late call, and lapsed leases are unlimited. Clock values 0,
1, 2 against `CertTTL = 1` and `HandoffExpiry = 1` give certificates and handoffs
that are valid, that expire while a worker waits, and that expire one after the
other. In `payments`, two evidence ids with two good versions each give every mix
of old and new in a snapshot, and four ticks outlive evidence, decision and
certificate in turn; two keys make a retry under another key. In `stores`, two
threads of one process and one of another use both locks; three faults give damage,
a crash during its discovery and a power cut after it. In `server`, two requests overlap or follow one
another, and three faults let both lose an audit record and one its process; two
bundles with two changed files give every mix a loader can meet. In
`publication`, a second registration after the pin, a manifest more than
registrations, and `Skew` of the whole clock give evidence out of order; the
files of the finalizer that are bound to one another are replaced in pairs,
one before the other, and two finalizers with different clocks race. The internal
suite is the corpus of `scripts/candidate8_sealed_preflight.py` in full, at the
thresholds of the formal qualification; of the frozen suite, 5 clear and 3
ambiguous cases stand for 50 and 30. At the thresholds of the repository eight
cases bear no wrong one, so a second, laxer set is tried, with a coverage that
needs ambiguous cases acted on. That the qualification stops only without hope
holds for suites of this size: its bound adds the least number of autonomous rows
the coverage needs, and with the default thresholds of `QualificationThresholds`
and 34 autonomous cases or more, further correct rows could lift the reliability
above what the bound allows. No suite of the repository is that large. Two
attempts that are run again at will resume from themselves, from each other and
from both. The samples of `BenchmarkScoring` cover each rule's boundary from both sides.

`CHECK_DEADLOCK FALSE` is set where the system may really stop: every call
ended, every request answered, or the execution completed and nobody needs
anything. Each cfg says which.

Fairness. Live processes, threads and handlers take their steps, time passes for
leases, and a lease that nobody extends runs out. Callers that the code leaves to
retry do so: the lifecycle (which answers STARTED_OR_UNKNOWN or a pending result
and expects to be called again), the finalizer, and strongly fair calls of
`create_order`. The provider sends an unacknowledged webhook event again
(strongly fair, as the handler may be busy) and processes an accepted refund.
`Restore` in `Reconciliation` ends an injected failure. Crashes, lost calls, late
arrivals, the release of a hold, expiries and replaced files are never forced.
`MCLifecycle`'s `LiveSpec` only leaves out behaviours with both a fault and an
expiry; neither is fair, so no step that has to happen is taken away.
`InterruptedRunsRecover` assumes that no file is touched and that the log no
longer grows: a log that grows between its three reads can leave a manifest that
no later run reproduces, which is listed as a hazard.

Every property has a mutant: a plausible bug in a mapped definition (`as` in
`PROJECT.json`, kept beside the definition in the module) that TLC must find to
violate it.

## Findings

All are differences between the documents and the code that the models met;
`docs/THREAT_MODEL.md:67` already says that small crash windows are unproven.

* `capture_lost`: the provider captured, but the worker crashed, or lost both
  the POST's and the following GET's answer, before it wrote CAPTURED. Every
  retry of `capture` first requires the provider to say `authorized`
  (`razorpay.py:701-708`) and the certificate of the first proposal to be valid,
  so the capture is never recorded and never compensated. `docs/ARCHITECTURE.md`
  line 275 says ambiguous capture outcomes recover from an exact provider-side
  binding match; that is true only within one call.
* `refund_lost`: the provider refunded, but the record still says CAPTURED.
  Every retry of `refund` first requires the provider to say `captured`
  (`razorpay.py:872-880`), which a refunded payment no longer does, so the
  idempotency token that would return the refund is never sent.

* `reconciliation_cancel`: `commitment.py:513` promises that captured funds cannot
  fail and stay compensable, but the engine looks at its own stage only. A payment
  that is captured and not yet recorded can be cancelled by another caller, and
  `compensate` then refuses the commitment for ever.
* `service_sink`: the comment at `api.py:348` says that uncertainty about a provider
  call is answered truthfully before the generic guard. A log sink that raises
  after the adapter ran reaches that guard, which answers `provider_called` false.
  No sink that raises is installed by the deployed server; all other answers are
  truthful (`CallsAreAccountedFor`).

The other side of the first two: without faults, and for any capture that
reached the record, the money comes back in spite of lapsed leases, overlaps and
expiries (`CapturesAreCompensated`).

## Proofs

All proofs are checked by TLAPS for every value of the constants, from the
assumptions named in the modules (a positive lease, natural times, distinct null
values).

* `CommitmentProofs`: `Invariance` adds that a write in flight extends the
  version it read, and where captures and certificates are recorded. From it
  follow `TypeCorrect`, `ValidatorNeverRejects`, `NoFork`,
  `CapturedFundsStayActionable` and `NoLostUpdate`.
* `LifecycleProofs`: none of the four agreements is inductive, because a write
  is justified by something its worker read steps before. `Facts(w, p, ...)`
  says what a worker may rely on at place `p` (at `captureWrite`, that the
  provider captured; at `capturePost`, that its certificate was valid), and
  `ProviderFollowsBoundary` that the provider captures, or may still, only
  behind a stored CAPTURE_ALLOWED. Workers do not disturb one another's facts
  because nothing shared ever moves back (`Forward`, `OthersStayPlaced`), so
  each step either reads a fact or establishes it: `LookIsGood`, `ClaimIsGood`,
  `StoreIsGood`, ... prove that once per kind of step, and the lemmas
  `HeadIsGood` to `WorldSteps` once per action. From this invariant follow all
  safety properties of the runs: `TypeCorrect`, `RecordFollowsProvider`,
  `CommitmentFollowsRecord`, `ReplayedResultsAreTrue`, `NoStepBack`,
  `MoneyMovesBehindTheBoundary` and `RefusalIsHonest`.

The other modules extend an MC module, because what its runs check are
statements about its parts. They prove first that in the composition each part
takes its own steps or stutters (`LimiterBehaviour`, `OrderBehaviour`, ...), and
then use the specification of the part alone; nothing depends on the values the
cfg gives.

* `LedgersProofs`. For `IdempotencyLedger`, `Invariance` proves an inductive invariant
  that adds to the types which call may own which row: an owner is at work or dead, a
  completed row was completed by a returned call, and an owner's deadline is its
  row's. From it follow `TypeCorrect`, `EffectOnce`, `LeaseKept`, and
  `Implementation`, the step-by-step refinement of `OnceResult`. For `ThreadLedger`
  (`ThreadsKeepTurns`), an entry names a thread
  only, so `EntriesAreSound` and `CallsAreAsTheyStand` add which call is behind a
  pending or completed entry, and that who is at work wrote its own request there.
  For `RateLimiter` (`LimiterStaysExact`), the clock is read before the lock, so the
  deque is not sorted and dropping from its head can keep old attempts or, worse,
  could drop recent ones. `DequeIsRecent` is why it does not: the deque is the end
  of the admissions, and every admission younger than a window less the delay is in
  it. `DelaysAreBounded` relates the sampled time to the time of the decision, by
  which admissions are ordered. A decision then sees a suffix (`LiveIsSuffix`,
  `DecisionFinds`): a refusal has a full deque of recent admissions
  (`RefusalKeepsInv`), an admission finds room in the deque and with it in every
  window that is still open (`AdmissionKeepsInv`).
* `PaymentsProofs`. For `CaptureBoundary`, a snapshot is read record by record and
  checked record by record. `ReadsAreHeldOrGone` says that a record that was read is
  still the current one or never will be again, since the registry only advances;
  `SecondPassDecides`, that unless all of them were current at one instant one is
  gone which the second pass has still to look at. So a pass that succeeds earns the
  certificate (`CertificatesNameRealStates`), and the check under the registry's lock
  earns the capture (`CapturesAreCovered`). For `OrderCreation` (`OrdersStayUnique`),
  the lock is kept from the lookup to the memory of the order, and what one run
  answered it remembers. For `Reconciliation` (`BooksStayTrue`), `HandsAreEarned` says
  what a caller's copy and the reference in its hand prove about the payment at each
  place, and `JournalIsEarned` the same of the stored commitment; a stale copy cannot
  spoil it because a payment only moves forward and every write compares the copy it
  was made from with the stored commitment.
* `StoresProofs`. For `Audit` (`AuditChainIsSound`, `NothingGrowsBehindATornLine`),
  `HolderIsCurrent` says that the records the lock's holder verified are the file's
  until its own line is in, and `AcknowledgedIsSynced` that what was returned is below
  the synced length, which a power cut respects. For `Webhook` (`WebhookEventsAreKept`),
  `HandlersLeaveTraces` says what is durable by the time a handler reaches each step;
  with it every step implements one of `EventStore` or none.

* `ServerProofs`. For `Startup` (`ReadyAnswersAreEarned`, `ContactsAreEarned`),
  `ReadingIsPinned` says which files have been read by where the process stands, and
  that they are those of the pinned bundle although the directory is replaced
  meanwhile; `ReadyStands`, that a ready answer goes with a process that still serves
  on what it read; `ContactsAreBetweenRecords` counts the contacts between a record
  and its outcome. For `SafetyStatus` (`StatusAgreesWithItself`) nothing moves: that
  readiness, blockers and constructor, each written out by itself in the code, agree
  holds for any states of the gates. For `Service` (`CallsStayAccountedFor`),
  `RequestsLeaveTraces` and `CallersArePastTheClaim` say what has been recorded of a
  request by where it stands, and `RepliesAreEarned` what an answer stands for. That a
  completed run is replayed and not run again needs `ClaimIsExclusive`: one request at
  a time is behind the claim, and none after a result.
* `ScoringProofs`. The scoring has no steps: its theorems are about operators and hold
  for all inputs, of which the run samples some. `RankIsNearest`: the percentile is the
  least observed value that covers the asked share, for any values and percentage; the
  sort is defined in `BenchmarkScoring` by the place of each value, since the library's
  `SortSeq` is computed by TLC and has no definition a prover can use, and
  `PlacesAreTaken` says that every place is taken once. `VerdictIsStrict`: for any rule,
  a pass is a smaller loss by the margin in spite of the rounding of its quotient, and
  two systems never pass against each other. `LostEvidencePermitsNothingMore`: for any
  weights and signals, a lost verification only adds risk (`RiskGrows`, from the
  monotony of sums and of the clamp), and no rule reads it in favour of acting.
  `AcceptedIsRecomputed`: an accepted artifact says of every baseline, case, input and
  error what a run of its plan says in whatever order of the cases, and that run is
  accepted too. The code accepts orders that no seed produces, so this is what its
  check of the order must not spoil: sums, counts and the percentile are the same under
  a permutation of the cases (`TotalIgnoresOrder`, `RankIgnoresOrder`,
  `AggregateIgnoresOrder`), for any plan and suite whose amounts, weights and latencies
  are numbers (`InputsAreNumbers`). With them
  `ScoringStaysSound` is the invariant of the run, whose samples of artifacts are the
  only inputs the proof evaluates. The sums are defined by folds, and the lemmas about
  them at the head of the module are an induction over a set, since the library's
  induction over an operator is out of the provers' reach.
* `PublicationProofs` has four parts. For `FinalBenchmark` (`FinalStaysEarned`,
  `PublishedEvidenceIsKept`), what was accepted stays true because the pin is set with
  the first registration and never moves (`FilesAreDated`, `IsEarned`), and what the
  code computes as a loss is what the rows are charged with, summed in any order. For
  `Finalization`
  (`ReceiptStaysEarned`), `RunIsCareful` says what a run knows at each place: that its
  two readings of the preflight agree, that the files it read belong together, and that
  the log it read in three pieces only grew. For `Shards` (`ShardsStayEarned`), a whole
  output holds everything that went into it (`OutputsHoldTheirLineage`). For
  `Evaluation` (`VerdictsStayEarned`), `RowsAreCounted` says that the counts are those
  of rows of the cases so far, one each; and for any suite, thresholds and counts the
  early-stop bounds of the code are compared with all the completions there are:
  `GivenUpIsLost` (Candidate 5), `HopelessIsLost` and `HopeIsReal` (the class-aware
  bound of Candidates 6 to 8 is exact), `UnreachableIsLost` (the qualification). The
  last one needs the named assumption `OneWrongRowIsFatal`, see under Bounds: the
  comment in `qualification.py:23` that further rows cannot repair a wrong one is true
  just for suites of which it holds, and the proof uses it at that very step
  (`NoWrongRow`).

Every safety and action property of a passing run is a theorem. Only model-checked:
liveness (`CallsEnd`, `CapturesAreCompensated`, `RetriesSucceed`, `WorkEnds`,
`StartsAndRequestsFinish`, `InterruptedRunsRecover`), which is out of the prover's
reach. The runs that expect a violation state what a comment or document says, and are
counterexamples, not theorems.

## Not modelled

Left out, with the reason (also under `components` in `PROJECT.json`):

* contracts, interpreter, validator and candidates 7 to 9: text and schemas, no
  shared state; what a language model makes of a case is any of the results the
  scoring tells apart;
* preregistrations, manifests and provider readiness of Checkpoint A: built and
  compared as a whole before the first case;
* canonical encoding, digests and signatures: a digest is modelled by what it is
  taken of, a signature always matches;
* the integrity scan of the document store, pagination of the provider's order
  list, response encoding, metrics, log lines, static assets, UI;
* the legacy `CheckpointCFinalEvidence`, the loaders of benchmark files, and
  `write_artifact` (`checkpoint_c_runner.py`): it calls itself atomic, but its
  temporary name is fixed and two writers of one destination would share it; it
  publishes preliminary artifacts only, from a script that an operator starts;
* provenance and readiness scripts, which read and print.
