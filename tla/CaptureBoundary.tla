----------------------------- MODULE CaptureBoundary -----------------------------
(***************************************************************************)
(* The path from evidence to a capture: EvidenceRegistry.snapshot, the     *)
(* exposure decision, CertificateSigner.issue, CertificateVerifier.verify  *)
(* when the commitment is allowed to capture, and the capture itself in    *)
(* SimulatedPaymentAdapter, which holds the registry's lock.  Snapshots    *)
(* and the checks of issue and verify take the lock once per record, so    *)
(* the registry may change between any two of their steps; every step      *)
(* works with a time read before it.  Signatures and bindings of the one   *)
(* transaction always match.                                               *)
(***************************************************************************)
EXTENDS Evidence

CONSTANTS
  Amount,       \* amount_minor of the transaction
  TTL,          \* ttl_seconds of a certificate
  DecisionAge   \* max_decision_age_seconds

Certificate == [snapshot: [1..N -> Record], issued: Nat, expires: Nat]

BoundaryAssumption ==
  /\ Amount \in Nat \ {0} /\ TTL \in Nat \ {0} /\ DecisionAge \in Nat
  /\ None \notin Certificate

VARIABLES
  pc,         \* where the caller stands
  now,        \* the time it passes to the step at hand
  read,       \* the records its snapshot binds so far
  checked,    \* how many of them the check at hand has passed
  decided,    \* evaluated_at of its exposure decision
  cert,       \* its commit certificate, or None
  captured,   \* the certificate the payment was captured with, or None
  whole       \* history: the snapshot was the registry's state at some instant

caller == <<pc, now, read, checked, decided, cert, captured>>
vars   == <<latest, revoked, clock, pc, now, read, checked, decided, cert, captured, whole>>

Init ==
  /\ RegistryInit
  /\ pc = "idle" /\ now = 0 /\ read = <<>> /\ checked = 0 /\ decided = 0
  /\ cert = None /\ captured = None /\ whole = FALSE

(* A check fails: before the boundary the caller starts over; a commitment *)
(* that is CAPTURE_ALLOWED keeps its certificate.                          *)
Refused(from) == IF from = "capturing" THEN "allowed" ELSE "idle"

Begin ==
  /\ pc = "idle"
  /\ pc' = "reading" /\ now' = clock /\ read' = <<>> /\ cert' = None
  /\ UNCHANGED <<latest, revoked, clock, checked, decided, captured>>

(* One record of snapshot(): get_fresh under the lock, and its subject. *)
ReadRecord ==
  /\ pc = "reading" /\ Len(read) < N
  /\ LET e == Len(read) + 1 IN
       IF Usable(e, now) /\ latest[e].subject = Subject
       THEN read' = Append(read, latest[e]) /\ pc' = pc
       ELSE read' = <<>> /\ pc' = "idle"
  /\ UNCHANGED <<latest, revoked, clock, now, checked, decided, cert, captured>>

(* ExposureCalculator.calculate; a denied decision goes no further. *)
Decide ==
  /\ pc = "reading" /\ Len(read) = N
  /\ decided' = now
  /\ pc' = IF Amount <= Cap(read, now) THEN "decided" ELSE "idle"
  /\ UNCHANGED <<latest, revoked, clock, now, read, checked, cert, captured>>

(* A bug the properties must notice: issuance trusts the snapshot. *)
StartIssuingUnchecked ==
  /\ pc = "decided"
  /\ now' = clock
  /\ IF clock - decided > DecisionAge THEN pc' = "idle" ELSE pc' = "issuing"
  /\ checked' = N
  /\ UNCHANGED <<latest, revoked, clock, read, decided, cert, captured>>

(* issue: the decision is recent ... *)
StartIssuing ==
  /\ pc = "decided"
  /\ now' = clock
  /\ IF clock - decided > DecisionAge THEN pc' = "idle" ELSE pc' = "issuing"
  /\ checked' = 0
  /\ UNCHANGED <<latest, revoked, clock, read, decided, cert, captured>>

(* ... every record is still current, one look at a time ... *)
CheckRecord ==
  /\ pc \in {"issuing", "verifying"} /\ checked < N
  /\ IF Current(read[checked + 1], now)
     THEN checked' = checked + 1 /\ pc' = pc
     ELSE checked' = 0 /\ pc' = "idle"
  /\ UNCHANGED <<latest, revoked, clock, now, read, decided, cert, captured>>

(* ... and the trusted policy repeats the decision. *)
Issue ==
  /\ pc = "issuing" /\ checked = N
  /\ LET expires == Min({now + TTL, SnapshotExpiry(read)}) IN
       IF now < expires /\ Amount <= Cap(read, decided)
       THEN /\ cert' = [snapshot |-> read, issued |-> now, expires |-> expires]
            /\ pc' = "certified"
       ELSE cert' = cert /\ pc' = "idle"
  /\ UNCHANGED <<latest, revoked, clock, now, read, checked, decided, captured>>

(* Time window of verify. *)
Valid(c, t) ==
  /\ c.issued <= t + Skew
  /\ t < c.expires
  /\ c.expires <= SnapshotExpiry(c.snapshot)

(* verify, for allow_capture. *)
StartVerifying ==
  /\ pc = "certified"
  /\ now' = clock
  /\ checked' = 0
  /\ pc' = IF Valid(cert, clock) THEN "verifying" ELSE "idle"
  /\ UNCHANGED <<latest, revoked, clock, read, decided, cert, captured>>

AllowCapture ==
  /\ pc = "verifying" /\ checked = N
  /\ pc' = "allowed"
  /\ UNCHANGED <<latest, revoked, clock, now, read, checked, decided, cert, captured>>

(* capture: the time is read, then the ledger and both locks are waited for. *)
StartCapture ==
  /\ pc = "allowed" /\ captured = None
  /\ now' = clock
  /\ pc' = "capturing"
  /\ UNCHANGED <<latest, revoked, clock, read, checked, decided, cert, captured>>

(* Bugs the properties must notice: the registry is not asked again, as if *)
(* the check of allow_capture were enough; the certificate's time and the  *)
(* records' freshness are not.                                             *)
CaptureUnguarded ==
  /\ pc = "capturing"
  /\ IF Valid(cert, now)
     THEN captured' = cert /\ pc' = "captured"
     ELSE captured' = captured /\ pc' = Refused(pc)
  /\ UNCHANGED <<latest, revoked, clock, now, read, checked, decided, cert>>
CaptureExpired ==
  /\ pc = "capturing"
  /\ IF \A i \in 1..N : latest[i] = cert.snapshot[i] /\ <<i, latest[i].version>> \notin revoked
     THEN captured' = cert /\ pc' = "captured"
     ELSE captured' = captured /\ pc' = Refused(pc)
  /\ UNCHANGED <<latest, revoked, clock, now, read, checked, decided, cert>>

(* hold_snapshot_current around verify and the payment's compare_and_set. *)
Capture ==
  /\ pc = "capturing"
  /\ IF Valid(cert, now) /\ \A i \in 1..N : Current(cert.snapshot[i], now)
     THEN captured' = cert /\ pc' = "captured"
     ELSE captured' = captured /\ pc' = Refused(pc)
  /\ UNCHANGED <<latest, revoked, clock, now, read, checked, decided, cert>>

CallerNext ==
  \/ Begin \/ ReadRecord \/ Decide \/ StartIssuing \/ CheckRecord \/ Issue
  \/ StartVerifying \/ AllowCapture \/ StartCapture \/ Capture

(* All records of a snapshot are the registry's, at one instant. *)
IsRegistryState(snapshot) ==
  /\ Len(snapshot) = N
  /\ \A i \in 1..N : latest[i] = snapshot[i] /\ <<i, snapshot[i].version>> \notin revoked

Next ==
  /\ CallerNext \/ (RegistryNext /\ UNCHANGED caller)
  /\ whole' = (IsRegistryState(read)' \/ (whole /\ read' = read))

Spec == Init /\ [][Next]_vars

-------------------------------------------------------------------------------
TypeOK ==
  /\ latest \in [1..N -> Record \cup {None}]
  /\ revoked \subseteq (1..N) \X Nat
  /\ clock \in 0..MaxTime /\ now \in 0..clock /\ decided \in 0..clock
  /\ pc \in {"idle", "reading", "decided", "issuing", "certified", "verifying",
             "allowed", "capturing", "captured"}
  /\ read \in UNION {[1..n -> Record] : n \in 0..N}
  /\ checked \in 0..N
  /\ cert \in Certificate \cup {None}
  /\ captured \in Certificate \cup {None}
  /\ whole \in BOOLEAN

(* A snapshot is read one record at a time and may name a combination that *)
(* never existed; a certificate may not.  Two passes over the records in   *)
(* the same order, on a registry that never goes back, leave an instant    *)
(* between them at which all were current (snapshot, then the check in     *)
(* issue).                                                                 *)
CertificateNamesARealState == cert # None => whole

(* What the capture step needs of the registry at that very instant: the   *)
(* certificate's records are the current, unrevoked ones together, fresh   *)
(* at the caller's time, though all of them were checked long before       *)
(* (hold_snapshot_current).                                                *)
CaptureOnCurrentEvidence ==
  [][captured' # captured =>
       /\ IsRegistryState(captured'.snapshot)
       /\ \A i \in 1..N : Fresh(latest[i], now)]_vars

(* The policy would grant the captured amount for the registry's state at  *)
(* the capture, at a time no later than the certificate's end: a decision  *)
(* taken on older records buys nothing (calculate in issue, verify).       *)
CaptureWithinPresentCap ==
  [][captured' # captured => Amount <= Cap(latest, now)]_vars
===============================================================================
