---------------------------- MODULE PaymentsProofs ----------------------------
(***************************************************************************)
(* What is guaranteed about the three stages of a payment in MCPayments,   *)
(* for any records, callers, keys, times and numbers of faults: the        *)
(* certificates and captures of CaptureBoundary, the orders of             *)
(* OrderCreation, and the books of Reconciliation.                         *)
(***************************************************************************)
EXTENDS MCPayments, FiniteSetTheorems, SequenceTheorems, WellFoundedInduction, TLAPS

-------------------------------------------------------------------------------
(* Evidence, certificates and captures (CaptureBoundary). *)

(* Registered records are filed under their own id, and only versions that *)
(* were registered are revoked.                                            *)
RegistryIsOrdered ==
  /\ \A e \in 1..N : latest[e] # None => latest[e].id = e
  /\ \A v \in revoked : latest[v[1]] # None /\ v[2] <= latest[v[1]].version

(* A record that was read is still the usable one, or never will be again. *)
Held(i) == latest[i] = read[i] /\ <<i, read[i].version>> \notin revoked

Gone(i) ==
  \/ <<i, read[i].version>> \in revoked
  \/ latest[i] # None /\ read[i].version < latest[i].version

ReadsAreHeldOrGone ==
  \A i \in 1..Len(read) : read[i].id = i /\ (Held(i) \/ Gone(i))

(* Unless a whole snapshot was read at one instant, a record is gone that  *)
(* the second pass has still to look at.                                   *)
SecondPassDecides ==
  /\ place \in {"reading", "decided", "issuing"} => cert = None
  /\ place \in {"decided", "issuing"} => Len(read) = N
  /\ Len(read) = N /\ place \in {"reading", "decided", "issuing"} =>
       whole \/ \E i \in 1..N : Gone(i) /\ (place = "issuing" => checked < i)

(* A certificate is for the records its caller has read, and for a         *)
(* decision the policy took on them.                                       *)
CertificateIsEarned ==
  /\ cert # None => whole /\ cert.snapshot = read /\ Amount <= B!Cap(read, decided)
  /\ place \in {"certified", "verifying", "allowed", "capturing", "captured"} => cert # None

BInv ==
  /\ B!TypeOK
  /\ RegistryIsOrdered
  /\ ReadsAreHeldOrGone
  /\ SecondPassDecides
  /\ CertificateIsEarned

(* A set of natural numbers that is not empty has a least element. *)
LEMMA LeastNatural ==
  ASSUME NEW S \in SUBSET Nat, S # {}
  PROVE  B!Min(S) \in S /\ \A n \in S : B!Min(S) <= n
<1>1. PICK m \in S : \A n \in S : ~(<<n, m>> \in OpToRel(<, Nat))
  BY NatLessThanWellFounded, WFMin
<1>2. \A n \in S : ~(n < m)
  BY <1>1 DEF OpToRel
<1>3. \A n \in S : m <= n
  BY <1>2
<1> QED
  BY <1>3 DEF B!Min

(* A snapshot expires at some time, and no later than its records. *)
LEMMA SnapshotsExpire ==
  ASSUME NEW s \in [1..N -> Record]
  PROVE  /\ B!SnapshotExpiry(s) \in Nat
         /\ \A i \in 1..N : B!SnapshotExpiry(s) <= B!EffectiveExpiry(s[i])
<1> USE BoundaryAssumed DEF B!EvidenceAssumption
<1>1. ASSUME NEW r \in Record PROVE B!EffectiveExpiry(r) \in Nat
  <2>1. {r.observed + MaxAge, r.expires} \in SUBSET Nat
    OBVIOUS
  <2> QED
    BY <2>1, LeastNatural DEF B!EffectiveExpiry
<1>2. DOMAIN s = 1..N /\ 1 \in 1..N
  OBVIOUS
<1> DEFINE ends == {B!EffectiveExpiry(s[i]) : i \in DOMAIN s}
<1>3. ends \in SUBSET Nat
  BY <1>1, <1>2
<1>4. ends # {}
  BY <1>2
<1>5. B!SnapshotExpiry(s) = B!Min(ends)
  BY DEF B!SnapshotExpiry
<1>6. \A i \in 1..N : B!EffectiveExpiry(s[i]) \in ends
  BY <1>2
<1>7. B!Min(ends) \in ends /\ \A n \in ends : B!Min(ends) <= n
  <2> HIDE DEF ends
  <2> QED
    BY <1>3, <1>4, LeastNatural
<1> HIDE DEF ends
<1> QED
  BY <1>3, <1>5, <1>6, <1>7

LEMMA ReadIsSequence ==
  ASSUME B!TypeOK
  PROVE  read \in Seq(Record) /\ Len(read) \in 0..N
<1>1. PICK n \in 0..N : read \in [1..n -> Record]
  BY DEF B!TypeOK
<1>2. n \in Nat
  BY <1>1, BoundaryAssumed DEF B!EvidenceAssumption
<1> QED
  BY <1>1, <1>2

LEMMA SequenceIsRead ==
  ASSUME NEW s \in Seq(Record), Len(s) \in 0..N
  PROVE  s \in UNION {[1..n -> Record] : n \in 0..N}
<1>1. s \in [1..Len(s) -> Record]
  OBVIOUS
<1> QED
  BY <1>1

LEMMA BoundaryInitInv == B!Init => BInv
<1> SUFFICES ASSUME B!Init PROVE BInv
  OBVIOUS
<1> USE BoundaryAssumed DEF B!BoundaryAssumption, B!EvidenceAssumption
<1>1. read = <<>> /\ read \in Seq(Record) /\ Len(read) = 0
  BY DEF B!Init
<1>2. read \in UNION {[1..n -> Record] : n \in 0..N}
  BY <1>1, SequenceIsRead
<1>3. B!TypeOK
  <2>1. /\ latest \in [1..N -> Record \cup {None}]
        /\ revoked \subseteq (1..N) \X Nat
        /\ clock \in 0..MaxTime /\ now \in 0..clock /\ decided \in 0..clock
        /\ checked \in 0..N
    BY DEF B!Init, B!RegistryInit
  <2> QED
    BY <1>2, <2>1 DEF B!Init, B!TypeOK
<1> QED
  BY <1>1, <1>3
  DEF B!Init, B!RegistryInit, BInv, RegistryIsOrdered, ReadsAreHeldOrGone, SecondPassDecides,
      CertificateIsEarned

(* The registry only moves on: what is gone stays gone, what is held is    *)
(* either still held or gone.                                              *)
LEMMA RegistryMovesOn ==
  ASSUME BInv, B!RegistryNext, UNCHANGED B!caller
  PROVE  /\ latest' \in [1..N -> Record \cup {None}]
         /\ revoked' \subseteq (1..N) \X Nat
         /\ clock' \in 0..MaxTime /\ clock <= clock'
         /\ RegistryIsOrdered'
         /\ \A i \in 1..Len(read) : Gone(i) => Gone(i)'
         /\ \A i \in 1..Len(read) : Held(i) => Held(i)' \/ Gone(i)'
<1> USE BoundaryAssumed DEF B!BoundaryAssumption, B!EvidenceAssumption
<1>0. read \in Seq(Record) /\ Len(read) \in 0..N /\ \A i \in 1..Len(read) : read[i] \in Record
  BY ReadIsSequence DEF BInv
<1>2. CASE B!Tick
  BY <1>2 DEF BInv, B!TypeOK, B!Tick, B!registry, B!caller, RegistryIsOrdered, Held, Gone
<1>3. ASSUME NEW r \in Record, B!Register(r)
      PROVE  /\ latest' \in [1..N -> Record \cup {None}]
             /\ UNCHANGED <<revoked, clock, read>>
             /\ RegistryIsOrdered'
             /\ \A i \in 1..Len(read) : Gone(i) => Gone(i)'
             /\ \A i \in 1..Len(read) : Held(i) => Held(i)' \/ Gone(i)'
  <2>1. /\ latest' = [latest EXCEPT ![r.id] = r] /\ UNCHANGED <<revoked, clock, read>>
        /\ r.id \in 1..N /\ r # None /\ r.version \in Nat
        /\ latest[r.id] # None => latest[r.id] \in Record /\ latest[r.id].version \in Nat
                                  /\ latest[r.id].version < r.version
    BY <1>3 DEF BInv, B!TypeOK, B!Register, B!Supersedes, B!caller
  <2>2. RegistryIsOrdered'
    <3>1. ASSUME NEW e \in 1..N, latest'[e] # None PROVE latest'[e].id = e
      BY <2>1, <3>1 DEF BInv, B!TypeOK, RegistryIsOrdered
    <3>2. ASSUME NEW v \in revoked
          PROVE  latest'[v[1]] # None /\ v[2] <= latest'[v[1]].version
      <4>1. /\ v[1] \in 1..N /\ v[2] \in Nat
            /\ latest[v[1]] # None /\ v[2] <= latest[v[1]].version
        BY DEF BInv, B!TypeOK, RegistryIsOrdered
      <4>2. CASE v[1] = r.id
        BY <2>1, <4>1, <4>2 DEF BInv, B!TypeOK
      <4>3. CASE v[1] # r.id
        BY <2>1, <4>1, <4>3 DEF BInv, B!TypeOK
      <4> QED
        BY <4>2, <4>3
    <3> QED
      BY <2>1, <3>1, <3>2 DEF RegistryIsOrdered
  <2>3. ASSUME NEW i \in 1..Len(read)
        PROVE  /\ Gone(i) => Gone(i)'
               /\ Held(i) => Held(i)' \/ Gone(i)'
    <3>1. i \in 1..N /\ read[i] \in Record /\ read[i].version \in Nat /\ read[i] # None
      BY <1>0
    <3>2. latest[i] # None => latest[i] \in Record /\ latest[i].version \in Nat
      BY <3>1 DEF BInv, B!TypeOK
    <3>3. CASE i = r.id
      BY <2>1, <3>1, <3>2, <3>3 DEF BInv, B!TypeOK, Held, Gone
    <3>4. CASE i # r.id
      BY <2>1, <3>1, <3>4 DEF BInv, B!TypeOK, Held, Gone
    <3> QED
      BY <3>3, <3>4
  <2>4. latest' \in [1..N -> Record \cup {None}]
    BY <2>1 DEF BInv, B!TypeOK
  <2> QED
    BY <2>1, <2>2, <2>3, <2>4
<1>4. ASSUME NEW e \in 1..N, B!Revoke(e)
      PROVE  /\ revoked' \subseteq (1..N) \X Nat
             /\ UNCHANGED <<latest, clock, read>>
             /\ RegistryIsOrdered'
             /\ \A i \in 1..Len(read) : Gone(i) => Gone(i)'
             /\ \A i \in 1..Len(read) : Held(i) => Held(i)' \/ Gone(i)'
  <2>1. /\ revoked' = revoked \cup {<<e, latest[e].version>>}
        /\ UNCHANGED <<latest, clock, read>>
        /\ latest[e] # None /\ latest[e].version \in Nat
    BY <1>4 DEF BInv, B!TypeOK, B!Revoke, B!caller
  <2>2. RegistryIsOrdered'
    BY <2>1 DEF BInv, B!TypeOK, RegistryIsOrdered
  <2> QED
    BY <2>1, <2>2 DEF BInv, B!TypeOK, Held, Gone
<1> QED
  BY <1>2, <1>3, <1>4 DEF BInv, B!TypeOK, B!RegistryNext

LEMMA RegistryKeepsInv ==
  ASSUME BInv, B!RegistryNext, UNCHANGED B!caller,
         whole' = (B!IsRegistryState(read)' \/ (whole /\ read' = read))
  PROVE  BInv'
<1> USE BoundaryAssumed DEF B!BoundaryAssumption, B!EvidenceAssumption
<1>1. /\ UNCHANGED <<place, now, read, checked, decided, cert, captured>>
      /\ whole => whole' = TRUE
      /\ whole' \in BOOLEAN
  BY DEF B!caller, BInv, B!TypeOK, B!IsRegistryState
<1>2. read \in Seq(Record) /\ Len(read) \in 0..N
  BY ReadIsSequence DEF BInv
<1>3. B!TypeOK'
  BY <1>1, RegistryMovesOn DEF BInv, B!TypeOK
<1>4. RegistryIsOrdered' /\ ReadsAreHeldOrGone'
  BY <1>1, RegistryMovesOn DEF BInv, ReadsAreHeldOrGone
<1>5. SecondPassDecides'
  BY <1>1, <1>2, RegistryMovesOn DEF BInv, SecondPassDecides
<1>6. CertificateIsEarned'
  BY <1>1 DEF BInv, CertificateIsEarned, B!Cap, B!Satisfied, B!SnapshotExpiry
<1> QED
  BY <1>3, <1>4, <1>5, <1>6 DEF BInv

(* whole is remembered while the snapshot stays the same. *)
LEMMA WholeStays ==
  ASSUME BInv, whole' = (B!IsRegistryState(read)' \/ (whole /\ read' = read))
  PROVE  /\ whole' \in BOOLEAN
         /\ read' = read /\ whole => whole'
         /\ B!IsRegistryState(read)' => whole'
  BY DEF BInv, B!TypeOK, B!IsRegistryState

LEMMA BeginKeepsInv ==
  ASSUME BInv, B!Begin, whole' = (B!IsRegistryState(read)' \/ (whole /\ read' = read))
  PROVE  BInv'
<1> USE BoundaryAssumed DEF B!BoundaryAssumption, B!EvidenceAssumption
<1>1. read' = <<>> /\ read' \in Seq(Record) /\ Len(read') = 0
  BY DEF B!Begin
<1>2. read' \in UNION {[1..n -> Record] : n \in 0..N}
  BY <1>1, SequenceIsRead
<1>3. /\ now' = clock /\ place' = "reading" /\ cert' = None
      /\ UNCHANGED <<latest, revoked, clock, checked, decided, captured>>
  BY DEF B!Begin
<1>4. B!TypeOK'
  BY <1>2, <1>3, WholeStays DEF BInv, B!TypeOK
<1> QED
  BY <1>1, <1>3, <1>4
  DEF BInv, RegistryIsOrdered, ReadsAreHeldOrGone, SecondPassDecides, CertificateIsEarned

(* The first pass: every record is held when it is read, and if all still  *)
(* are when the last one is read, that instant was whole.                  *)
LEMMA ReadRecordKeepsInv ==
  ASSUME BInv, B!ReadRecord, whole' = (B!IsRegistryState(read)' \/ (whole /\ read' = read))
  PROVE  BInv'
<1> USE BoundaryAssumed DEF B!BoundaryAssumption, B!EvidenceAssumption
<1>0. read \in Seq(Record) /\ Len(read) \in 0..N /\ Len(read) < N
  BY ReadIsSequence DEF BInv, B!ReadRecord
<1>1. /\ place = "reading" /\ cert = None
      /\ UNCHANGED <<latest, revoked, clock, now, checked, decided, cert, captured>>
  BY DEF B!ReadRecord, BInv, SecondPassDecides
<1>2. CASE read' = <<>> /\ place' = "idle"
  <2>1. read' \in Seq(Record) /\ Len(read') = 0
    BY <1>2
  <2>2. read' \in UNION {[1..n -> Record] : n \in 0..N}
    BY <2>1, SequenceIsRead
  <2>3. B!TypeOK'
    BY <1>1, <1>2, <2>2, WholeStays DEF BInv, B!TypeOK
  <2> QED
    BY <1>1, <1>2, <2>1, <2>3
    DEF BInv, RegistryIsOrdered, ReadsAreHeldOrGone, SecondPassDecides, CertificateIsEarned
<1>3. CASE ~(read' = <<>> /\ place' = "idle")
  <2> DEFINE e == Len(read) + 1
  <2>1. /\ read' = Append(read, latest[e]) /\ place' = place
        /\ e \in 1..N /\ latest[e] # None /\ <<e, latest[e].version>> \notin revoked
    BY <1>0, <1>3 DEF B!ReadRecord, B!Usable
  <2>2. latest[e] \in Record /\ latest[e].id = e
    BY <2>1 DEF BInv, B!TypeOK, RegistryIsOrdered
  <2>3. /\ read' \in Seq(Record) /\ Len(read') = e
        /\ read'[e] = latest[e] /\ \A i \in 1..Len(read) : read'[i] = read[i]
    BY <1>0, <2>1, <2>2
  <2>4. read' \in UNION {[1..n -> Record] : n \in 0..N}
    <3>1. Len(read') \in 0..N
      BY <2>1, <2>3
    <3> QED
      BY <2>3, <3>1, SequenceIsRead
  <2>5. B!TypeOK'
    BY <1>1, <2>1, <2>4, WholeStays DEF BInv, B!TypeOK
  <2>6. ReadsAreHeldOrGone'
    <3> SUFFICES ASSUME NEW i \in 1..e
                 PROVE  read'[i].id = i /\ (Held(i)' \/ Gone(i)')
      BY <2>3 DEF ReadsAreHeldOrGone
    <3>1. CASE i = e
      BY <1>1, <2>1, <2>2, <2>3, <3>1 DEF Held
    <3>2. CASE i \in 1..Len(read)
      BY <1>1, <2>3, <3>2 DEF BInv, ReadsAreHeldOrGone, Held, Gone
    <3> QED
      BY <1>0, <3>1, <3>2
  <2>7. SecondPassDecides'
    <3>1. CASE \E i \in 1..N : e = N /\ Gone(i)'
      BY <1>1, <2>1, <2>3, <3>1 DEF SecondPassDecides
    <3>2. CASE e = N /\ ~\E i \in 1..N : Gone(i)'
      <4>1. \A i \in 1..N : Held(i)'
        BY <2>3, <2>6, <3>2 DEF ReadsAreHeldOrGone
      <4>2. B!IsRegistryState(read)'
        BY <2>3, <3>2, <4>1 DEF B!IsRegistryState, Held
      <4> QED
        BY <1>1, <2>1, <2>3, <4>2, WholeStays DEF SecondPassDecides
    <3>3. CASE e # N
      BY <1>1, <2>1, <2>3, <3>3 DEF SecondPassDecides
    <3> QED
      BY <3>1, <3>2, <3>3
  <2>8. RegistryIsOrdered' /\ CertificateIsEarned'
    BY <1>1, <2>1 DEF BInv, RegistryIsOrdered, CertificateIsEarned
  <2> QED
    BY <2>5, <2>6, <2>7, <2>8 DEF BInv
<1> QED
  BY <1>2, <1>3

(* Steps that only move on leave the passes as they are. *)
LEMMA DecideKeepsInv ==
  ASSUME BInv, B!Decide \/ B!StartIssuing \/ B!StartVerifying \/ B!AllowCapture
                 \/ B!StartCapture \/ B!Capture,
         whole' = (B!IsRegistryState(read)' \/ (whole /\ read' = read))
  PROVE  BInv'
<1> USE BoundaryAssumed DEF B!BoundaryAssumption, B!EvidenceAssumption
<1>0. read \in Seq(Record) /\ Len(read) \in 0..N
  BY ReadIsSequence DEF BInv
<1>1. UNCHANGED <<latest, revoked, clock, read, cert>>
  BY DEF B!Decide, B!StartIssuing, B!StartVerifying, B!AllowCapture, B!StartCapture, B!Capture
<1>2. B!TypeOK'
  BY <1>1, WholeStays
  DEF BInv, B!TypeOK, B!Decide, B!StartIssuing, B!StartVerifying, B!AllowCapture,
      B!StartCapture, B!Capture, B!Refused
<1>3. RegistryIsOrdered' /\ ReadsAreHeldOrGone'
  BY <1>1 DEF BInv, RegistryIsOrdered, ReadsAreHeldOrGone, Held, Gone
<1>4. SecondPassDecides'
  BY <1>0, <1>1, WholeStays
  DEF BInv, SecondPassDecides, Gone, B!Decide, B!StartIssuing, B!StartVerifying, B!AllowCapture,
      B!StartCapture, B!Capture, B!Refused
<1>5. CertificateIsEarned'
  BY <1>1, WholeStays
  DEF BInv, CertificateIsEarned, SecondPassDecides, B!Cap, B!Satisfied, B!SnapshotExpiry,
      B!Decide, B!StartIssuing, B!StartVerifying, B!AllowCapture, B!StartCapture, B!Capture,
      B!Refused
<1> QED
  BY <1>2, <1>3, <1>4, <1>5 DEF BInv

(* The second pass: a record that is gone does not get through. *)
LEMMA CheckRecordKeepsInv ==
  ASSUME BInv, B!CheckRecord, whole' = (B!IsRegistryState(read)' \/ (whole /\ read' = read))
  PROVE  BInv'
<1> USE BoundaryAssumed DEF B!BoundaryAssumption, B!EvidenceAssumption
<1>0. read \in Seq(Record) /\ Len(read) \in 0..N
  BY ReadIsSequence DEF BInv
<1>1. /\ place \in {"issuing", "verifying"} /\ checked \in 0..N /\ checked < N
      /\ UNCHANGED <<latest, revoked, clock, now, read, decided, cert, captured>>
      /\ \/ /\ checked' = checked + 1 /\ place' = place
            /\ B!Current(read[checked + 1], now)
         \/ checked' = 0 /\ place' = "idle"
  BY DEF BInv, B!TypeOK, B!CheckRecord
<1>2. B!TypeOK'
  BY <1>1, WholeStays DEF BInv, B!TypeOK
<1>3. RegistryIsOrdered' /\ ReadsAreHeldOrGone'
  BY <1>1 DEF BInv, RegistryIsOrdered, ReadsAreHeldOrGone, Held, Gone
<1>4. SecondPassDecides'
  <2>1. CASE place' = "idle" \/ place = "verifying"
    BY <1>1, <2>1 DEF SecondPassDecides
  <2>2. CASE place' = "issuing" /\ place = "issuing"
    <3> DEFINE i == checked + 1
    <3>1. i \in 1..N /\ Len(read) = N /\ checked' = i /\ B!Current(read[i], now)
      BY <1>1, <2>2 DEF BInv, SecondPassDecides
    <3>2. read[i] \in Record /\ read[i].id = i /\ read[i].version \in Nat
      BY <1>0, <3>1 DEF BInv, ReadsAreHeldOrGone
    <3>3. ~Gone(i)
      BY <3>1, <3>2 DEF B!Current, B!Usable, Gone
    <3>4. \A j \in 1..N : Gone(j) /\ checked < j => checked' < j /\ Gone(j)'
      BY <1>1, <3>1, <3>3 DEF Gone
    <3> QED
      BY <1>1, <2>2, <3>1, <3>4, WholeStays DEF BInv, SecondPassDecides
  <2> QED
    BY <1>1, <2>1, <2>2
<1>5. CertificateIsEarned'
  BY <1>1, WholeStays
  DEF BInv, CertificateIsEarned, B!Cap, B!Satisfied, B!SnapshotExpiry
<1> QED
  BY <1>2, <1>3, <1>4, <1>5 DEF BInv

(* Whoever has looked at all records a second time has read them together. *)
LEMMA IssueKeepsInv ==
  ASSUME BInv, B!Issue, whole' = (B!IsRegistryState(read)' \/ (whole /\ read' = read))
  PROVE  BInv'
<1> USE BoundaryAssumed DEF B!BoundaryAssumption, B!EvidenceAssumption
<1>0. read \in Seq(Record) /\ Len(read) = N
  BY ReadIsSequence DEF BInv, SecondPassDecides, B!Issue
<1>1. read \in [1..N -> Record] /\ B!SnapshotExpiry(read) \in Nat
  BY <1>0, SnapshotsExpire
<1> DEFINE expires == B!Min({now + TTL, B!SnapshotExpiry(read)})
<1>2. expires \in Nat
  <2>1. {now + TTL, B!SnapshotExpiry(read)} \in SUBSET Nat
    BY <1>1 DEF BInv, B!TypeOK
  <2> QED
    BY <2>1, LeastNatural
<1>3. /\ place = "issuing" /\ checked = N /\ cert = None
      /\ UNCHANGED <<latest, revoked, clock, now, read, checked, decided, captured>>
      /\ \/ /\ cert' = [snapshot |-> read, issued |-> now, expires |-> expires]
            /\ place' = "certified" /\ Amount <= B!Cap(read, decided)
         \/ cert' = None /\ place' = "idle"
  BY DEF B!Issue, BInv, SecondPassDecides
<1> HIDE DEF expires
<1>4. [snapshot |-> read, issued |-> now, expires |-> expires] \in B!Certificate
  BY <1>1, <1>2 DEF BInv, B!TypeOK, B!Certificate
<1>5. B!TypeOK'
  BY <1>3, <1>4, WholeStays DEF BInv, B!TypeOK, B!Certificate
<1>6. RegistryIsOrdered' /\ ReadsAreHeldOrGone'
  BY <1>3 DEF BInv, RegistryIsOrdered, ReadsAreHeldOrGone, Held, Gone
<1>7. SecondPassDecides'
  BY <1>3 DEF SecondPassDecides
<1>8. whole
  BY <1>0, <1>3 DEF BInv, SecondPassDecides
<1>9. B!Cap(read, decided)' = B!Cap(read, decided)
  BY <1>3 DEF B!Cap, B!Satisfied, B!SnapshotExpiry
<1>10. CertificateIsEarned'
  <2>1. whole'
    BY <1>3, <1>8, WholeStays
  <2>2. CASE cert' = None /\ place' = "idle"
    BY <2>2 DEF CertificateIsEarned
  <2>3. CASE /\ cert' = [snapshot |-> read, issued |-> now, expires |-> expires]
             /\ place' = "certified" /\ Amount <= B!Cap(read, decided)
    <3>1. cert'.snapshot = read' /\ cert' # None
      BY <1>3, <1>4, <2>3 DEF B!Certificate, B!BoundaryAssumption
    <3>2. Amount <= B!Cap(read, decided)'
      BY <1>9, <2>3
    <3> QED
      BY <2>1, <3>1, <3>2 DEF CertificateIsEarned
  <2> QED
    BY <1>3, <2>2, <2>3
<1> QED
  BY <1>5, <1>6, <1>7, <1>10 DEF BInv

LEMMA BoundaryNextKeepsInv == BInv /\ [B!Next]_(B!vars) => BInv'
<1> SUFFICES ASSUME BInv, [B!Next]_(B!vars) PROVE BInv'
  OBVIOUS
<1>1. CASE B!Next
  BY <1>1, BeginKeepsInv, ReadRecordKeepsInv, DecideKeepsInv, CheckRecordKeepsInv,
     IssueKeepsInv, RegistryKeepsInv
  DEF B!Next, B!CallerNext
<1>2. CASE UNCHANGED B!vars
  BY <1>2
  DEF B!vars, BInv, B!TypeOK, B!Certificate, RegistryIsOrdered, ReadsAreHeldOrGone, Held, Gone,
      SecondPassDecides, CertificateIsEarned, B!Cap, B!Satisfied, B!SnapshotExpiry
<1> QED
  BY <1>1, <1>2

LEMMA BoundaryBehaviour == MCSpec => B!Spec
<1>1. MCInit => B!Init
  BY DEF MCInit
<1>2. [MCNext]_<<part, vars, boundaryVars, orderVars>> => [B!Next]_(B!vars)
  BY DEF MCNext, boundaryVars, B!vars
<1> QED
  BY <1>1, <1>2, PTL DEF MCSpec, B!Spec

LEMMA BoundaryInvariance == MCSpec => []BInv
<1>1. B!Spec => []BInv
  BY BoundaryInitInv, BoundaryNextKeepsInv, PTL DEF B!Spec
<1> QED
  BY <1>1, BoundaryBehaviour, PTL

(* A certificate names records that were current together at one instant,  *)
(* although snapshot and issue look at them one by one: a record that was  *)
(* superseded or revoked between its two looks never comes back.           *)
THEOREM CertificatesNameRealStates == MCSpec => []CertificateNamesARealState
<1>1. BInv => CertificateNamesARealState
  BY DEF BInv, CertificateIsEarned, CertificateNamesARealState, B!CertificateNamesARealState
<1> QED
  BY <1>1, BoundaryInvariance, PTL

(* The registry's steps go forward, those of callers leave it alone. *)
LEMMA RegistryAdvances ==
  ASSUME BInv, [B!Next]_(B!vars)
  PROVE  [/\ revoked \subseteq revoked'
          /\ \A e \in 1..N : latest[e] # None /\ latest'[e] # latest[e] =>
               /\ latest'[e] # None
               /\ latest'[e].version > latest[e].version
               /\ latest'[e].observed >= latest[e].observed
               /\ B!SameIdentity(latest'[e], latest[e])
               /\ <<e, latest'[e].version>> \notin revoked]_(B!registry)
<1> USE BoundaryAssumed DEF B!BoundaryAssumption, B!EvidenceAssumption
<1>1. CASE UNCHANGED B!registry
  BY <1>1
<1>2. ASSUME NEW r \in Record, B!Register(r), NEW e \in 1..N, latest[e] # None,
             latest'[e] # latest[e]
      PROVE  /\ latest'[e] # None
             /\ latest'[e].version > latest[e].version
             /\ latest'[e].observed >= latest[e].observed
             /\ B!SameIdentity(latest'[e], latest[e])
             /\ <<e, latest'[e].version>> \notin revoked
  <2>1. e = r.id /\ latest'[e] = r /\ latest[e] \in Record /\ r # None
    BY <1>2 DEF B!Register, BInv, B!TypeOK
  <2>2. r.version > latest[e].version /\ r.observed >= latest[e].observed
        /\ B!SameIdentity(r, latest[e])
    BY <1>2, <2>1 DEF B!Register, B!Supersedes
  <2>3. <<e, r.version>> \notin revoked
    <3> SUFFICES ASSUME <<e, r.version>> \in revoked PROVE FALSE
      OBVIOUS
    <3>1. r.version <= latest[e].version
      BY DEF BInv, RegistryIsOrdered
    <3> QED
      BY <2>1, <2>2, <3>1
  <2> QED
    BY <2>1, <2>2, <2>3
<1>3. ASSUME NEW r \in Record, B!Register(r) PROVE revoked' = revoked
  BY <1>3 DEF B!Register
<1>4. ASSUME NEW e \in 1..N, B!Revoke(e) PROVE revoked \subseteq revoked' /\ latest' = latest
  BY <1>4 DEF B!Revoke
<1>5. \/ UNCHANGED B!registry
      \/ \E r \in Record : B!Register(r)
      \/ \E e \in 1..N : B!Revoke(e)
  BY DEF B!Next, B!CallerNext, B!RegistryNext, B!Tick, B!vars, B!registry, B!Begin,
         B!ReadRecord, B!Decide, B!StartIssuing, B!CheckRecord, B!Issue, B!StartVerifying,
         B!AllowCapture, B!StartCapture, B!Capture
<1> QED
  BY <1>1, <1>2, <1>3, <1>4, <1>5

(* The records of the certificate are the registry's when it is used, and  *)
(* none has expired, so the policy grants for them what it granted before. *)
LEMMA CaptureOnWhatWasCertified ==
  ASSUME BInv, [B!Next]_(B!vars), captured' # captured
  PROVE  /\ B!IsRegistryState(captured'.snapshot)
         /\ \A i \in 1..N : B!Fresh(latest[i], now)
         /\ Amount <= B!Cap(latest, now)
<1> USE BoundaryAssumed DEF B!BoundaryAssumption, B!EvidenceAssumption
<1>1. /\ place = "capturing" /\ captured' = cert
      /\ B!Valid(cert, now) /\ \A i \in 1..N : B!Current(cert.snapshot[i], now)
  BY DEF B!Next, B!CallerNext, B!RegistryNext, B!caller, B!vars, B!Begin, B!ReadRecord,
         B!Decide, B!StartIssuing, B!CheckRecord, B!Issue, B!StartVerifying, B!AllowCapture,
         B!StartCapture, B!Capture
<1>2. /\ cert \in B!Certificate /\ cert.snapshot = read /\ Amount <= B!Cap(read, decided)
  BY <1>1 DEF BInv, B!TypeOK, CertificateIsEarned
<1>3. read \in [1..N -> Record] /\ Len(read) = N /\ cert.expires \in Nat
  BY <1>2 DEF B!Certificate
<1>4. \A i \in 1..N : /\ read[i].id = i /\ latest[i] = read[i]
                      /\ <<i, latest[i].version>> \notin revoked
                      /\ B!Fresh(latest[i], now)
  BY <1>1, <1>2, <1>3 DEF BInv, ReadsAreHeldOrGone, B!Current, B!Usable
<1>5. B!IsRegistryState(captured'.snapshot)
  BY <1>1, <1>2, <1>3, <1>4 DEF B!IsRegistryState
<1>6. latest = read
  <2>1. latest \in [1..N -> Record \cup {None}]
    BY DEF BInv, B!TypeOK
  <2>2. latest = [i \in 1..N |-> latest[i]]
    BY <2>1
  <2>3. read = [i \in 1..N |-> read[i]]
    BY <1>3
  <2> QED
    BY <1>4, <2>2, <2>3
<1>7. /\ B!SnapshotExpiry(read) \in Nat /\ now \in Nat /\ decided \in Nat
      /\ now < B!SnapshotExpiry(read)
  BY <1>1, <1>2, <1>3, SnapshotsExpire DEF BInv, B!TypeOK, B!Valid
<1>8. Amount <= B!Cap(read, now)
  BY <1>2, <1>7 DEF B!Cap
<1> QED
  BY <1>4, <1>5, <1>6, <1>8

(* The registry never goes back, and at the capture all records of the     *)
(* certificate are current and fresh together and earn the amount.         *)
THEOREM CapturesAreCovered == MCSpec => CaptureIsCovered
<1>1. BInv /\ [B!Next]_(B!vars) =>
        [/\ revoked \subseteq revoked'
         /\ \A e \in 1..N : latest[e] # None /\ latest'[e] # latest[e] =>
              /\ latest'[e] # None
              /\ latest'[e].version > latest[e].version
              /\ latest'[e].observed >= latest[e].observed
              /\ B!SameIdentity(latest'[e], latest[e])
              /\ <<e, latest'[e].version>> \notin revoked]_(B!registry)
  BY RegistryAdvances
<1>2. BInv /\ [B!Next]_(B!vars) =>
        [captured' # captured =>
           /\ B!IsRegistryState(captured'.snapshot)
           /\ \A i \in 1..N : B!Fresh(latest[i], now)]_(B!vars)
  BY CaptureOnWhatWasCertified
<1>3. BInv /\ [B!Next]_(B!vars) =>
        [captured' # captured => Amount <= B!Cap(latest, now)]_(B!vars)
  BY CaptureOnWhatWasCertified
<1> QED
  BY <1>1, <1>2, <1>3, BoundaryInvariance, BoundaryBehaviour, PTL
  DEF B!Spec, CaptureIsCovered, B!RegistryOnlyAdvances, B!CaptureOnCurrentEvidence,
      B!CaptureWithinPresentCap

-------------------------------------------------------------------------------
(* The orders of a transaction (OrderCreation). *)

(* Work on an order is done under the lock, and only while this process    *)
(* remembers none.                                                         *)
WorkHoldsLock ==
  \A t \in Caller :
    /\ at[t] \in {"find", "post", "recover", "keep", "raise"} => lock = t
    /\ at[t] \in {"find", "post", "recover", "keep"} => remembered = None

(* All results of one run are the order it remembers, and were answers.    *)
LedgerIsRemembered ==
  \A k \in IdemKey : ledger[k] # None =>
    /\ remembered # None /\ remembered.id = ledger[k]
    /\ <<k, ledger[k]>> \in answers

(* An answer names an order of its key; no POST is made for a key that was *)
(* answered, nor another answer kept for it.                               *)
AnswersAreOrders ==
  /\ \A v \in answers : placed[v[2]] = v[1]
  /\ \A t \in Caller : at[t] = "post" => \A v \in answers : v[1] # key[t]
  /\ \A t \in Caller : at[t] = "keep" =>
       /\ match[t] \in O!Matches(key[t])
       /\ \A v \in answers : v[1] = key[t] => v[2] = match[t]

(* Unless POSTs land late, a POST is only made for a receipt without order. *)
ReceiptsAreUnique ==
  ~late => /\ \A k \in IdemKey : underway[k] = 0
           /\ \A i, j \in DOMAIN placed : placed[i] = placed[j] => i = j
           /\ \A t \in Caller : at[t] = "post" => O!Matches(key[t]) = {}

OInv ==
  /\ O!TypeOK
  /\ WorkHoldsLock
  /\ LedgerIsRemembered
  /\ AnswersAreOrders
  /\ ReceiptsAreUnique
  /\ O!CallersAgree

LEMMA SameCardinality == \A S : O!Cardinality(S) = Cardinality(S)
  BY Zenon DEF O!Cardinality, Cardinality

(* The orders with one receipt: a set of positions, none or one if unique. *)
LEMMA MatchesAreFinite ==
  ASSUME placed \in Seq(IdemKey), NEW k \in IdemKey
  PROVE  /\ O!Matches(k) \subseteq 1..Len(placed) /\ IsFiniteSet(O!Matches(k))
         /\ Cardinality(O!Matches(k)) = 1 => \E x \in Nat : O!Matches(k) = {x}
<1>1. O!Matches(k) \subseteq 1..Len(placed)
  BY DEF O!Matches
<1>2. IsFiniteSet(1..Len(placed))
  BY FS_Interval
<1>3. IsFiniteSet(O!Matches(k))
  BY <1>1, <1>2, FS_Subset
<1>4. ASSUME Cardinality(O!Matches(k)) = 1 PROVE \E x \in Nat : O!Matches(k) = {x}
  BY <1>1, <1>3, <1>4, FS_Singleton
<1> QED
  BY <1>1, <1>3, <1>4

(* A new order is one more match of its receipt. *)
LEMMA OneMoreOrder ==
  ASSUME placed \in Seq(IdemKey), NEW k \in IdemKey, placed' = Append(placed, k)
  PROVE  /\ placed' \in Seq(IdemKey) /\ Len(placed') = Len(placed) + 1
         /\ Len(placed') \in Nat /\ Len(placed') \notin DOMAIN placed
         /\ DOMAIN placed' = DOMAIN placed \cup {Len(placed')}
         /\ placed'[Len(placed')] = k
         /\ \A i \in DOMAIN placed : placed'[i] = placed[i]
         /\ \A j \in IdemKey : O!Matches(j) \subseteq O!Matches(j)'
<1>1. /\ placed' \in Seq(IdemKey) /\ Len(placed') = Len(placed) + 1
      /\ Len(placed') \in Nat /\ DOMAIN placed = 1..Len(placed)
      /\ DOMAIN placed' = 1..(Len(placed) + 1)
      /\ placed'[Len(placed')] = k
      /\ \A i \in 1..Len(placed) : placed'[i] = placed[i]
  OBVIOUS
<1>2. DOMAIN placed' = DOMAIN placed \cup {Len(placed')} /\ Len(placed') \notin DOMAIN placed
  BY <1>1
<1> QED
  BY <1>1, <1>2 DEF O!Matches

LEMMA OrderInitInv == O!Init => OInv
  BY OrderAssumed
  DEF O!OrderAssumption, O!Init, OInv, O!TypeOK, WorkHoldsLock, LedgerIsRemembered, AnswersAreOrders,
      ReceiptsAreUnique, O!CallersAgree

(* execute and the lock: a result that is replayed was an answer before. *)
LEMMA CallKeepsInv ==
  ASSUME OInv, NEW t \in Caller, NEW k \in IdemKey, O!Call(t, k)
  PROVE  OInv'
<1> USE OrderAssumed DEF O!OrderAssumption
<1>1. /\ key' = [key EXCEPT ![t] = k] /\ at[t] = "idle"
      /\ (at' = at \/ at' = [at EXCEPT ![t] = "lock"])
      /\ UNCHANGED <<placed, late, underway, remembered, ledger, lock, match, losses>>
  BY DEF O!Call, O!Goto, O!provider
<1>2. answers' = answers
  BY DEF O!Call, OInv, LedgerIsRemembered
<1>3. O!TypeOK'
  BY <1>1, <1>2 DEF OInv, O!TypeOK, O!Order
<1>4. \A u \in Caller : at'[u] \in {"idle", "lock"} \/ (at'[u] = at[u] /\ key'[u] = key[u])
  BY <1>1 DEF OInv, O!TypeOK
<1> QED
  BY <1>1, <1>2, <1>3, <1>4
  DEF OInv, WorkHoldsLock, LedgerIsRemembered, AnswersAreOrders, ReceiptsAreUnique,
      O!CallersAgree, O!Matches

LEMMA EnterKeepsInv ==
  ASSUME OInv, NEW t \in Caller, O!Enter(t)
  PROVE  OInv'
<1> USE OrderAssumed DEF O!OrderAssumption
<1>1. /\ lock = None /\ lock' = t
      /\ at' = [at EXCEPT ![t] = IF remembered = None THEN "find" ELSE "raise"]
      /\ UNCHANGED <<placed, late, underway, remembered, ledger, key, match, answers, losses>>
  BY DEF O!Enter, O!Goto, O!provider
<1>2. O!TypeOK'
  BY <1>1 DEF OInv, O!TypeOK, O!Order
<1>3. \A u \in Caller : IF u = t THEN at'[u] = IF remembered = None THEN "find" ELSE "raise"
                                ELSE at'[u] = at[u] /\ at[u] \in {"idle", "lock"}
  BY <1>1 DEF OInv, O!TypeOK, WorkHoldsLock
<1> QED
  BY <1>1, <1>2, <1>3
  DEF OInv, WorkHoldsLock, LedgerIsRemembered, AnswersAreOrders, ReceiptsAreUnique,
      O!CallersAgree, O!Matches

(* One match is taken; without any there can be no answers of its key. *)
LEMMA FindKeepsInv ==
  ASSUME OInv, NEW t \in Caller, O!Find(t)
  PROVE  OInv'
<1> USE OrderAssumed DEF O!OrderAssumption
<1> DEFINE found == O!Matches(key[t])
<1>0. /\ at[t] \in {"find", "recover"} /\ key[t] \in IdemKey /\ placed \in Seq(IdemKey)
      /\ UNCHANGED <<placed, late, underway, remembered, ledger, lock, key, answers, losses>>
  BY DEF O!Find, O!provider, OInv, O!TypeOK
<1>1. /\ at' = [at EXCEPT ![t] = IF O!Cardinality(found) = 1 THEN "keep"
                                 ELSE IF at[t] = "find" /\ found = {} THEN "post" ELSE "raise"]
      /\ match' = [match EXCEPT ![t] =
                     IF O!Cardinality(found) = 1 THEN CHOOSE id \in found : TRUE ELSE None]
  BY Zenon DEF O!Find, O!Goto
<1>2. /\ lock = t /\ remembered = None
      /\ \A u \in Caller \ {t} : at'[u] = at[u] /\ match'[u] = match[u]
      /\ \A u \in Caller \ {t} : at[u] \in {"idle", "lock"}
  BY <1>0, <1>1 DEF OInv, O!TypeOK, WorkHoldsLock
<1>3. \A v \in answers : v[1] = key[t] => v[2] \in found
  BY <1>0 DEF OInv, O!TypeOK, AnswersAreOrders, O!Matches
<1>4. CASE O!Cardinality(found) = 1
  <2>1. PICK x \in Nat : found = {x}
    BY <1>0, <1>1, <1>4, SameCardinality, MatchesAreFinite
  <2>2. at'[t] = "keep" /\ match'[t] = x /\ match'[t] \in O!Matches(key[t])
    <3>1. (CHOOSE id \in found : TRUE) = x
      BY <2>1
    <3>2. match' = [match EXCEPT ![t] = x] /\ at' = [at EXCEPT ![t] = "keep"]
      BY <1>1, <1>4, <3>1, Zenon
    <3> QED
      BY <1>0, <2>1, <3>2 DEF OInv, O!TypeOK
  <2>3. O!TypeOK'
    <3>1. match' \in [Caller -> Nat \cup {None}]
      BY <1>0, <1>1, <2>1, <2>2 DEF OInv, O!TypeOK
    <3> QED
      BY <1>0, <1>1, <1>4, <3>1 DEF OInv, O!TypeOK, O!Order
  <2>4. O!Matches(key[t])' = found
    BY <1>0 DEF O!Matches
  <2>5. WorkHoldsLock' /\ LedgerIsRemembered' /\ O!CallersAgree'
    BY <1>0, <1>2, <2>2 DEF OInv, WorkHoldsLock, LedgerIsRemembered, O!CallersAgree
  <2>6. AnswersAreOrders'
    BY <1>0, <1>2, <1>3, <2>1, <2>2, <2>4 DEF OInv, AnswersAreOrders
  <2>7. ReceiptsAreUnique'
    BY <1>0, <1>2, <2>2 DEF OInv, ReceiptsAreUnique
  <2> QED
    BY <2>3, <2>5, <2>6, <2>7 DEF OInv
<1>5. CASE O!Cardinality(found) # 1 /\ at[t] = "find" /\ found = {}
  <2>1. at'[t] = "post"
    BY <1>0, <1>1, <1>5 DEF OInv, O!TypeOK
  <2>2. O!TypeOK'
    BY <1>0, <1>1, <1>5 DEF OInv, O!TypeOK, O!Order
  <2>3. O!Matches(key[t])' = {} /\ \A v \in answers : v[1] # key[t]
    BY <1>0, <1>1, <1>3, <1>5 DEF O!Matches
  <2> QED
    BY <1>0, <1>1, <1>2, <2>1, <2>2, <2>3
    DEF OInv, WorkHoldsLock, LedgerIsRemembered, AnswersAreOrders, ReceiptsAreUnique,
        O!CallersAgree
<1>6. CASE O!Cardinality(found) # 1 /\ ~(at[t] = "find" /\ found = {})
  <2>1. at'[t] = "raise"
    BY <1>0, <1>1, <1>6 DEF OInv, O!TypeOK
  <2>2. O!TypeOK'
    BY <1>0, <1>1, <1>6 DEF OInv, O!TypeOK, O!Order
  <2> QED
    BY <1>0, <1>1, <1>2, <2>1, <2>2
    DEF OInv, WorkHoldsLock, LedgerIsRemembered, AnswersAreOrders, ReceiptsAreUnique,
        O!CallersAgree
<1> QED
  BY <1>4, <1>5, <1>6

(* Giving up changes nothing but the place and the lock. *)
LEMMA GivingUpKeepsInv ==
  ASSUME OInv, NEW t \in Caller, O!FindFails(t) \/ O!Raise(t)
  PROVE  OInv'
<1> USE OrderAssumed DEF O!OrderAssumption
<1>1. /\ at[t] \in {"find", "recover", "raise"}
      /\ \/ at' = [at EXCEPT ![t] = "raise"] /\ lock' = lock
         \/ at' = [at EXCEPT ![t] = "idle"] /\ lock' \in {lock, None}
      /\ UNCHANGED <<placed, late, underway, remembered, ledger, key, match, answers>>
      /\ losses' \in 0..MaxLosses
  BY DEF O!FindFails, O!Raise, O!Goto, O!Fault, O!provider, OInv, O!TypeOK
<1>2. O!TypeOK'
  BY <1>1 DEF OInv, O!TypeOK, O!Order
<1>3. lock = t /\ \A u \in Caller \ {t} : at'[u] = at[u] /\ at[u] \in {"idle", "lock"}
  BY <1>1 DEF OInv, O!TypeOK, WorkHoldsLock
<1>4. at'[t] = "idle" \/ (at'[t] = "raise" /\ lock' = lock)
  BY <1>1 DEF OInv, O!TypeOK
<1> QED
  BY <1>1, <1>2, <1>3, <1>4
  DEF OInv, WorkHoldsLock, LedgerIsRemembered, AnswersAreOrders, ReceiptsAreUnique,
      O!CallersAgree, O!Matches

LEMMA PostKeepsInv ==
  ASSUME OInv, NEW t \in Caller, O!Post(t)
  PROVE  OInv'
<1> USE OrderAssumed DEF O!OrderAssumption
<1>1. /\ at[t] = "post" /\ key[t] \in IdemKey /\ placed \in Seq(IdemKey)
      /\ placed' = Append(placed, key[t])
      /\ match' = [match EXCEPT ![t] = Len(placed')]
      /\ at' = [at EXCEPT ![t] = "keep"]
      /\ UNCHANGED <<late, underway, remembered, ledger, lock, key, answers, losses>>
  BY DEF O!Post, O!Goto, OInv, O!TypeOK
<1>2. /\ placed' \in Seq(IdemKey) /\ Len(placed') \in Nat /\ Len(placed') \notin DOMAIN placed
      /\ DOMAIN placed' = DOMAIN placed \cup {Len(placed')}
      /\ placed'[Len(placed')] = key[t]
      /\ \A i \in DOMAIN placed : placed'[i] = placed[i]
  BY <1>1, OneMoreOrder
<1>3. /\ lock = t /\ remembered = None
      /\ at'[t] = "keep" /\ match'[t] = Len(placed')
      /\ \A u \in Caller \ {t} : at'[u] = at[u] /\ match'[u] = match[u]
      /\ \A u \in Caller \ {t} : at[u] \in {"idle", "lock"}
  BY <1>1 DEF OInv, O!TypeOK, WorkHoldsLock
<1>4. O!TypeOK'
  BY <1>1, <1>2 DEF OInv, O!TypeOK, O!Order
<1>5. WorkHoldsLock' /\ LedgerIsRemembered' /\ O!CallersAgree'
  BY <1>1, <1>3 DEF OInv, WorkHoldsLock, LedgerIsRemembered, O!CallersAgree
<1>6. AnswersAreOrders'
  <2>1. \A v \in answers : v[2] \in DOMAIN placed /\ placed'[v[2]] = v[1] /\ v[1] # key[t]
    BY <1>1, <1>2 DEF OInv, O!TypeOK, AnswersAreOrders
  <2>2. Len(placed') \in O!Matches(key[t])'
    BY <1>1, <1>2 DEF O!Matches
  <2> QED
    BY <1>1, <1>3, <2>1, <2>2 DEF AnswersAreOrders, O!Matches
<1>7. ReceiptsAreUnique'
  <2> SUFFICES ASSUME ~late PROVE ReceiptsAreUnique'
    BY <1>1 DEF ReceiptsAreUnique
  <2>1. \A i \in DOMAIN placed : placed[i] # key[t]
    BY <1>1 DEF OInv, ReceiptsAreUnique, O!Matches
  <2>2. \A i, j \in DOMAIN placed' : placed'[i] = placed'[j] => i = j
    BY <1>2, <2>1 DEF OInv, ReceiptsAreUnique
  <2> QED
    BY <1>1, <1>3, <2>2 DEF OInv, ReceiptsAreUnique
<1> QED
  BY <1>4, <1>5, <1>6, <1>7 DEF OInv

(* A POST that failed may have made its order all the same; the lookup     *)
(* that follows tells.                                                     *)
LEMMA PostFailsKeepsInv ==
  ASSUME OInv, NEW t \in Caller, O!PostFails(t)
  PROVE  OInv'
<1> USE OrderAssumed DEF O!OrderAssumption
<1>1. /\ at[t] = "post" /\ key[t] \in IdemKey /\ placed \in Seq(IdemKey)
      /\ at' = [at EXCEPT ![t] = "recover"]
      /\ UNCHANGED <<late, remembered, ledger, lock, key, match, answers>>
      /\ losses' \in 0..MaxLosses
  BY DEF O!PostFails, O!Goto, O!Fault, OInv, O!TypeOK
<1>2. /\ lock = t /\ remembered = None
      /\ at'[t] = "recover"
      /\ \A u \in Caller \ {t} : at'[u] = at[u] /\ at[u] \in {"idle", "lock"}
  BY <1>1 DEF OInv, O!TypeOK, WorkHoldsLock
<1>3. WorkHoldsLock' /\ LedgerIsRemembered' /\ O!CallersAgree'
  BY <1>1, <1>2 DEF OInv, WorkHoldsLock, LedgerIsRemembered, O!CallersAgree
<1>4. CASE UNCHANGED placed
  <2>1. underway' \in [IdemKey -> Nat] /\ (~late => underway' = underway)
    <3>1. \/ underway' = underway
          \/ late /\ underway' = [underway EXCEPT ![key[t]] = underway[key[t]] + 1]
          \/ placed' = Append(placed, key[t])
      BY DEF O!PostFails, O!provider
    <3>2. placed' # Append(placed, key[t])
      BY <1>1, <1>4, OneMoreOrder
    <3> QED
      BY <1>1, <3>1, <3>2 DEF OInv, O!TypeOK
  <2>2. O!TypeOK'
    BY <1>1, <1>4, <2>1 DEF OInv, O!TypeOK, O!Order
  <2> QED
    BY <1>1, <1>2, <1>3, <1>4, <2>1, <2>2
    DEF OInv, AnswersAreOrders, ReceiptsAreUnique, O!Matches
<1>5. CASE placed' = Append(placed, key[t]) /\ UNCHANGED underway
  <2>1. /\ placed' \in Seq(IdemKey) /\ Len(placed') \in Nat
        /\ DOMAIN placed' = DOMAIN placed \cup {Len(placed')}
        /\ Len(placed') \notin DOMAIN placed
        /\ placed'[Len(placed')] = key[t]
        /\ \A i \in DOMAIN placed : placed'[i] = placed[i]
    BY <1>1, <1>5, OneMoreOrder
  <2>2. O!TypeOK'
    BY <1>1, <1>5, <2>1 DEF OInv, O!TypeOK, O!Order
  <2>3. AnswersAreOrders'
    BY <1>1, <1>2, <2>1 DEF OInv, O!TypeOK, AnswersAreOrders
  <2>4. ReceiptsAreUnique'
    <3> SUFFICES ASSUME ~late PROVE ReceiptsAreUnique'
      BY <1>1 DEF ReceiptsAreUnique
    <3>1. \A i \in DOMAIN placed : placed[i] # key[t]
      BY <1>1 DEF OInv, ReceiptsAreUnique, O!Matches
    <3>2. \A i, j \in DOMAIN placed' : placed'[i] = placed'[j] => i = j
      BY <2>1, <3>1 DEF OInv, ReceiptsAreUnique
    <3> QED
      BY <1>1, <1>2, <1>5, <3>2 DEF OInv, ReceiptsAreUnique
  <2> QED
    BY <1>3, <2>2, <2>3, <2>4 DEF OInv
<1> QED
  BY <1>4, <1>5 DEF O!PostFails, O!provider

(* The order is remembered, kept and answered; nothing else was. *)
LEMMA KeepKeepsInv ==
  ASSUME OInv, NEW t \in Caller, O!Keep(t)
  PROVE  OInv'
<1> USE OrderAssumed DEF O!OrderAssumption
<1>1. /\ at[t] = "keep" /\ key[t] \in IdemKey /\ match[t] \in O!Matches(key[t])
      /\ match[t] \in Nat /\ match[t] \in DOMAIN placed /\ placed[match[t]] = key[t]
      /\ \A v \in answers : v[1] = key[t] => v[2] = match[t]
      /\ lock = t /\ remembered = None
  BY DEF O!Keep, OInv, O!TypeOK, WorkHoldsLock, AnswersAreOrders, O!Matches
<1>2. /\ remembered' = [key |-> key[t], id |-> match[t]]
      /\ ledger' = [ledger EXCEPT ![key[t]] = match[t]]
      /\ answers' = answers \cup {<<key[t], match[t]>>}
      /\ at' = [at EXCEPT ![t] = "idle"]
      /\ lock' = None
      /\ UNCHANGED <<placed, late, underway, key, match, losses>>
  BY <1>1 DEF O!Keep, O!Goto, O!provider
<1>3. /\ remembered' \in O!Order /\ remembered' # None /\ remembered'.id = match[t]
  BY <1>1, <1>2 DEF O!Order
<1>4. /\ at'[t] = "idle" /\ \A u \in Caller \ {t} : at'[u] = at[u] /\ at[u] \in {"idle", "lock"}
  BY <1>1, <1>2 DEF OInv, O!TypeOK, WorkHoldsLock
<1>5. /\ ledger'[key[t]] = match[t]
      /\ \A k \in IdemKey \ {key[t]} : ledger'[k] = None
  BY <1>1, <1>2 DEF OInv, O!TypeOK, LedgerIsRemembered
<1>6. O!TypeOK'
  BY <1>1, <1>2, <1>3 DEF OInv, O!TypeOK
<1>7. WorkHoldsLock' /\ ReceiptsAreUnique'
  BY <1>2, <1>4 DEF OInv, WorkHoldsLock, ReceiptsAreUnique, O!Matches
<1>8. LedgerIsRemembered'
  BY <1>2, <1>3, <1>5 DEF LedgerIsRemembered
<1>9. AnswersAreOrders' /\ O!CallersAgree'
  BY <1>1, <1>2, <1>4 DEF OInv, AnswersAreOrders, O!CallersAgree
<1> QED
  BY <1>6, <1>7, <1>8, <1>9 DEF OInv

(* A late POST brings an order no answer names. *)
LEMMA LandKeepsInv ==
  ASSUME OInv, NEW k \in IdemKey, O!Land(k)
  PROVE  OInv'
<1> USE OrderAssumed DEF O!OrderAssumption
<1>1. /\ placed \in Seq(IdemKey) /\ placed' = Append(placed, k)
      /\ underway[k] > 0 /\ underway' = [underway EXCEPT ![k] = underway[k] - 1]
      /\ UNCHANGED <<late, remembered, ledger, lock, at, key, match, answers, losses>>
  BY DEF O!Land, OInv, O!TypeOK
<1>2. /\ placed' \in Seq(IdemKey)
      /\ DOMAIN placed' = DOMAIN placed \cup {Len(placed')}
      /\ \A i \in DOMAIN placed : placed'[i] = placed[i]
      /\ \A j \in IdemKey : O!Matches(j) \subseteq O!Matches(j)'
  BY <1>1, OneMoreOrder
<1>3. underway' \in [IdemKey -> Nat] /\ late
  BY <1>1 DEF OInv, O!TypeOK, ReceiptsAreUnique
<1>4. O!TypeOK'
  BY <1>1, <1>2, <1>3 DEF OInv, O!TypeOK, O!Order
<1>5. AnswersAreOrders'
  BY <1>1, <1>2 DEF OInv, O!TypeOK, AnswersAreOrders
<1> QED
  BY <1>1, <1>3, <1>4, <1>5
  DEF OInv, WorkHoldsLock, LedgerIsRemembered, ReceiptsAreUnique, O!CallersAgree

(* A restarted server knows nothing; the provider and the callers do. *)
LEMMA RestartKeepsInv ==
  ASSUME OInv, O!Restart
  PROVE  OInv'
  BY OrderAssumed
  DEF O!OrderAssumption, O!Restart, O!Boot, O!Fault, O!provider, OInv, O!TypeOK, O!Order,
      WorkHoldsLock, LedgerIsRemembered, AnswersAreOrders, ReceiptsAreUnique, O!CallersAgree,
      O!Matches

LEMMA OrderNextKeepsInv == OInv /\ [O!Next]_(O!vars) => OInv'
<1>1. ASSUME OInv, O!Next PROVE OInv'
  BY <1>1, CallKeepsInv, EnterKeepsInv, FindKeepsInv, GivingUpKeepsInv, PostKeepsInv,
     PostFailsKeepsInv, KeepKeepsInv, LandKeepsInv, RestartKeepsInv
  DEF O!Next, O!Step
<1>2. ASSUME OInv, UNCHANGED O!vars PROVE OInv'
  BY <1>2
  DEF O!vars, O!provider, OInv, O!TypeOK, WorkHoldsLock, LedgerIsRemembered, AnswersAreOrders,
      ReceiptsAreUnique, O!CallersAgree, O!Matches
<1> QED
  BY <1>1, <1>2

LEMMA OrderBehaviour == MCSpec => O!Spec
<1>1. MCInit => O!Init
  BY DEF MCInit
<1>2. [MCNext]_<<part, vars, boundaryVars, orderVars>> => [O!Next]_(O!vars)
  BY DEF MCNext, orderVars, O!vars, O!provider
<1> QED
  BY <1>1, <1>2, PTL DEF MCSpec, O!Spec

(* No receipt gets a second order unless a POST lands late; even then the  *)
(* callers of a key agree, and one run of the server makes one order.      *)
THEOREM OrdersStayUnique == MCSpec => []OrdersAreUnique
<1>1. OInv => O!OneOrderPerReceipt
  <2> SUFFICES ASSUME OInv, ~late, NEW k \in IdemKey
               PROVE  Cardinality(O!Matches(k)) <= 1
    BY SameCardinality DEF O!OneOrderPerReceipt
  <2>1. \A i, j \in O!Matches(k) : i = j
    BY DEF OInv, ReceiptsAreUnique, O!Matches
  <2>2. O!Matches(k) = {} \/ \E i \in O!Matches(k) : O!Matches(k) = {i}
    BY <2>1
  <2> QED
    BY <2>2, FS_EmptySet, FS_Singleton
<1>2. OInv => O!OneOrderPerRun
  BY DEF OInv, LedgerIsRemembered, O!OneOrderPerRun
<1>3. OInv => OrdersAreUnique
  BY <1>1, <1>2 DEF OInv, OrdersAreUnique
<1>4. O!Spec => []OInv
  BY OrderInitInv, OrderNextKeepsInv, PTL DEF O!Spec
<1> QED
  BY <1>3, <1>4, OrderBehaviour, PTL

-------------------------------------------------------------------------------
(* The journal and the payment (Reconciliation, SimulatedPayments). *)

(* A payment p that went, or is past, the operation op; while it is just   *)
(* there, r is its reference.                                              *)
Earned(op, r, p) ==
  /\ op = "RESERVE" => p.state # "NONE" /\ (p.state = "RESERVED" => p.reference = r)
  /\ op = "CAPTURE" => p.state \in {"CAPTURED", "REFUNDED"}
                       /\ (p.state = "CAPTURED" => p.reference = r)
  /\ op = "REFUND" => p.state = "REFUNDED" /\ p.reference = r

(* Results the ledger replays tell what happened. *)
ResultsAreEarned == \A e \in done : Earned(e.op, Reference(e.op, e.key), payment)

(* A caller in the middle of something has the copy it began with, and the *)
(* reference in its hand is one the payment p has or had.                  *)
HandIsEarned(c, here, hand, p) ==
  /\ here = "holding" => copy[c].stage = "AUTHORIZED" /\ Earned("RESERVE", hand, p)
  /\ here \in {"captured", "reconciling"} => Earned("CAPTURE", hand, p)
  /\ here \in {"captured", "reconciling", "cleanup", "voided"} => copy[c].stage = "CAPTURE_ALLOWED"
  /\ here = "beginning" => copy[c].stage = "CAPTURED"
  /\ here \in {"refunding", "refundCall", "completing"} => copy[c].stage = "COMPENSATION_PENDING"
  /\ here = "completing" => Earned("REFUND", hand, p)

HandsAreEarned == \A c \in Caller : HandIsEarned(c, pc[c], held[c], payment)

Compensation == {"COMPENSATION_PENDING", "COMPENSATED"}

(* What one caller knows of a compensation the journal knows too. *)
CompensationIsJournaled ==
  \A c \in Caller : copy[c].stage \in Compensation => stored.stage \in Compensation

EntryIsEarned(m, p) ==
  /\ m.stage \in {"RESERVED", "CAPTURE_ALLOWED"} => Earned("RESERVE", m.reservation, p)
  /\ m.stage = "CAPTURED" => Earned("CAPTURE", m.capture, p)
  /\ m.stage = "COMPENSATED" => Earned("REFUND", m.refund, p)
  /\ p.state = "REFUNDED" => m.stage \in Compensation

JournalIsEarned == EntryIsEarned(stored, payment)

RInv ==
  /\ TypeOK
  /\ ResultsAreEarned
  /\ HandsAreEarned
  /\ CompensationIsJournaled
  /\ JournalIsEarned

(* What an operation of the adapter does to the payment and its ledger: a  *)
(* payment moves one way, a result once earned stays earned.               *)
LEMMA PaymentMovesOn ==
  ASSUME TypeOK, ResultsAreEarned, NEW op \in Operation, NEW k \in IdemKey,
         NEW m \in Commitments, NEW remember \in BOOLEAN, Succeeds(op, k, m, remember)
  PROVE  /\ payment' \in [state: {"NONE", "RESERVED", "CAPTURED", "VOIDED", "REFUNDED"},
                          reference: Ref]
         /\ \A e \in done' : e.op \in Operation /\ e.key \in IdemKey
         /\ failing' = failing
         /\ ResultsAreEarned'
         /\ Earned(op, Reference(op, k), payment')
         /\ \A o, r : Earned(o, r, payment) => Earned(o, r, payment')
         /\ op # "REFUND" => payment' = payment \/ payment.state \in {"NONE", "RESERVED"}
         /\ payment'.state = "REFUNDED" => payment' = payment \/ op = "REFUND"
         /\ op = "REFUND" => payment' = payment \/ payment.state = "CAPTURED"
<1>1. Reference(op, k) \in Ref
  BY DEF Ref
<1>2. Entry(op, k, m).op = op /\ Entry(op, k, m).key = k
  BY DEF Entry
<1>3. /\ done' \subseteq done \cup {Entry(op, k, m)} /\ failing' = failing
      /\ \A e \in done' : e.op \in Operation /\ e.key \in IdemKey
  BY <1>2 DEF Succeeds, TypeOK
<1>4. CASE Replays(op, k, m)
  <2>1. payment' = payment /\ Earned(op, Reference(op, k), payment)
    BY <1>2, <1>4 DEF Succeeds, Replays, ResultsAreEarned
  <2>2. ResultsAreEarned'
    BY <1>2, <1>3, <2>1 DEF ResultsAreEarned
  <2> QED
    BY <1>3, <2>1, <2>2 DEF TypeOK
<1>5. CASE ~Replays(op, k, m)
  <2>1. \/ /\ payment.state = To[op] /\ payment.reference = Reference(op, k)
           /\ payment' = payment
        \/ /\ payment.state = From[op]
           /\ payment' = [state |-> To[op], reference |-> Reference(op, k)]
    BY <1>5 DEF Succeeds, Performs, Reconstructs
  <2>2. /\ payment' \in [state: {"NONE", "RESERVED", "CAPTURED", "VOIDED", "REFUNDED"},
                         reference: Ref]
        /\ Earned(op, Reference(op, k), payment')
        /\ \A o, r : Earned(o, r, payment) => Earned(o, r, payment')
        /\ op # "REFUND" => payment' = payment \/ payment.state \in {"NONE", "RESERVED"}
        /\ payment'.state = "REFUNDED" => payment' = payment \/ op = "REFUND"
        /\ op = "REFUND" => payment' = payment \/ payment.state = "CAPTURED"
    BY <1>1, <2>1 DEF TypeOK, Operation, From, To, Earned
  <2>3. ResultsAreEarned'
    BY <1>2, <1>3, <2>2 DEF ResultsAreEarned
  <2> QED
    BY <1>3, <2>2, <2>3
<1> QED
  BY <1>4, <1>5

Place == {"idle", "holding", "captured", "cleanup", "voided", "reconciling",
          "beginning", "refunding", "refundCall", "completing"}

(* A caller is somewhere else, with something else in its hand, after a    *)
(* step that leaves payment, journal and copies alone.                     *)
LEMMA MovesKeepInv ==
  ASSUME RInv, UNCHANGED <<payment, done, stored, copy>>,
         failing' \subseteq Operation, faults' \in 0..MaxFaults,
         NEW c \in Caller, NEW next \in Place, pc' = [pc EXCEPT ![c] = next],
         NEW hand \in Ref, held' = [held EXCEPT ![c] = hand],
         HandIsEarned(c, next, hand, payment)
  PROVE  RInv'
<1>1. TypeOK'
  BY DEF RInv, TypeOK, Place
<1>2. \A d \in Caller : IF d = c THEN pc'[d] = next /\ held'[d] = hand
                                 ELSE pc'[d] = pc[d] /\ held'[d] = held[d]
  BY DEF RInv, TypeOK
<1>3. HandsAreEarned'
  BY <1>2 DEF RInv, HandsAreEarned, HandIsEarned
<1> QED
  BY <1>1, <1>3 DEF RInv, ResultsAreEarned, CompensationIsJournaled, JournalIsEarned

LEMMA HeldIsKept ==
  ASSUME TypeOK, NEW c \in Caller
  PROVE  held = [held EXCEPT ![c] = held[c]] /\ held[c] \in Ref
         /\ copy[c] \in Commitments /\ stored \in Commitments
  BY DEF TypeOK

(* A call of the adapter: at most a refund moves the payment of a          *)
(* commitment in compensation.                                             *)
LEMMA CallOfAdapterKeepsInv ==
  ASSUME RInv, NEW c \in Caller, NEW op \in Operation,
         NEW next \in Place, NEW otherwise \in {"idle", "cleanup"},
         op = "REFUND" => copy[c].stage = "COMPENSATION_PENDING",
         otherwise = "cleanup" => copy[c].stage = "CAPTURE_ALLOWED",
         \A p : Earned(op, Reference(op, KeyOf[c]), p)
                  => HandIsEarned(c, next, Reference(op, KeyOf[c]), p),
         Call(c, op, next, otherwise)
  PROVE  RInv'
<1> USE ReconciliationAssumption
<1>0. KeyOf[c] \in IdemKey /\ copy[c] \in Commitments
  BY DEF RInv, TypeOK
<1> DEFINE ref == Reference(op, KeyOf[c])
<1>1. ASSUME NEW remember \in BOOLEAN, Succeeds(op, KeyOf[c], copy[c], remember),
             UNCHANGED <<stored, copy>>, faults' \in 0..MaxFaults,
             NEW hand \in Ref, held' = [held EXCEPT ![c] = hand],
             NEW to \in Place, pc' = [pc EXCEPT ![c] = to],
             HandIsEarned(c, to, hand, payment')
      PROVE  RInv'
  <2>1. /\ payment' \in [state: {"NONE", "RESERVED", "CAPTURED", "VOIDED", "REFUNDED"},
                         reference: Ref]
        /\ \A e \in done' : e.op \in Operation /\ e.key \in IdemKey
        /\ failing' = failing
        /\ ResultsAreEarned'
        /\ \A o, r : Earned(o, r, payment) => Earned(o, r, payment')
        /\ op # "REFUND" => payment' = payment \/ payment.state \in {"NONE", "RESERVED"}
        /\ payment'.state = "REFUNDED" => payment' = payment \/ op = "REFUND"
        /\ op = "REFUND" => payment' = payment \/ payment.state = "CAPTURED"
    BY <1>0, <1>1, PaymentMovesOn DEF RInv
  <2>2. TypeOK'
    BY <1>1, <2>1 DEF RInv, TypeOK, Place
  <2>3. \A d \in Caller : IF d = c THEN pc'[d] = to /\ held'[d] = hand
                                   ELSE pc'[d] = pc[d] /\ held'[d] = held[d]
    BY <1>1 DEF RInv, TypeOK
  <2>4. HandsAreEarned'
    BY <1>1, <2>1, <2>3 DEF RInv, HandsAreEarned, HandIsEarned
  <2>5. JournalIsEarned'
    BY <1>1, <2>1 DEF RInv, JournalIsEarned, EntryIsEarned, CompensationIsJournaled, Compensation
  <2> QED
    BY <1>1, <2>1, <2>2, <2>4, <2>5 DEF RInv, CompensationIsJournaled
<1>2. CASE /\ Succeeds(op, KeyOf[c], copy[c], TRUE)
           /\ held' = [held EXCEPT ![c] = ref] /\ Goto(c, next)
           /\ UNCHANGED <<stored, copy, faults>>
  <2>1. ref \in Ref /\ faults' \in 0..MaxFaults
    BY <1>0, <1>2 DEF Ref, RInv, TypeOK
  <2>2. HandIsEarned(c, next, ref, payment')
    BY <1>0, <1>2, PaymentMovesOn DEF RInv
  <2> QED
    BY <1>1, <1>2, <2>1, <2>2 DEF Goto
<1>3. CASE /\ faults < MaxFaults /\ Succeeds(op, KeyOf[c], copy[c], FALSE)
           /\ faults' = faults + 1 /\ held' = [held EXCEPT ![c] = None] /\ Goto(c, "idle")
           /\ UNCHANGED <<stored, copy>>
  <2>1. None \in Ref /\ faults' \in 0..MaxFaults /\ "idle" \in Place
    BY <1>3 DEF Ref, RInv, TypeOK, Place
  <2>2. HandIsEarned(c, "idle", None, payment')
    BY DEF HandIsEarned
  <2> QED
    BY <1>1, <1>3, <2>1, <2>2 DEF Goto
<1>4. CASE /\ Fails(op, KeyOf[c], copy[c]) /\ Goto(c, otherwise)
           /\ UNCHANGED <<stored, copy, held, faults>>
  <2>1. /\ held' = [held EXCEPT ![c] = held[c]] /\ held[c] \in Ref
        /\ pc' = [pc EXCEPT ![c] = otherwise] /\ otherwise \in Place
        /\ UNCHANGED <<payment, done, stored, copy>>
        /\ failing' \subseteq Operation /\ faults' \in 0..MaxFaults
    BY <1>4, HeldIsKept DEF Goto, Fails, paymentVars, RInv, TypeOK, Place
  <2>2. HandIsEarned(c, otherwise, held[c], payment)
    BY DEF HandIsEarned
  <2> QED
    BY <2>1, <2>2, MovesKeepInv
<1> QED
  BY <1>2, <1>3, <1>4 DEF Call

(* A transition of the journal: a caller with an old copy stays out, the   *)
(* others' copies and hands are not concerned.                             *)
LEMMA TransitionKeepsInv ==
  ASSUME RInv, UNCHANGED <<payment, done, failing, held, faults>>,
         NEW c \in Caller, NEW s \in Stage, NEW f \in Commitments,
         NEW next \in {"idle", "beginning", "refunding"},
         f.stage = copy[c].stage,
         Transition(c, s, f, next),
         copy[c] = stored =>
           /\ s \in {"RESERVED", "CAPTURE_ALLOWED"} => Earned("RESERVE", f.reservation, payment)
           /\ s = "CAPTURED" => Earned("CAPTURE", f.capture, payment)
           /\ s = "COMPENSATED" => Earned("REFUND", f.refund, payment)
           /\ payment.state = "REFUNDED" \/ stored.stage \in Compensation => s \in Compensation,
         next = "beginning" => s = "CAPTURED",
         next = "refunding" => s = "COMPENSATION_PENDING"
  PROVE  RInv'
<1> DEFINE updated == [f EXCEPT !.stage = s, !.left = f.stage]
<1>0. /\ updated \in Commitments /\ updated.stage = s
      /\ updated.reservation = f.reservation /\ updated.capture = f.capture
      /\ updated.refund = f.refund
  BY DEF Commitments
<1>1. CASE copy[c] = stored
  <2>1. /\ stored' = updated /\ copy' = [copy EXCEPT ![c] = updated]
        /\ pc' = [pc EXCEPT ![c] = next]
    BY <1>1 DEF Transition, Goto
  <2> HIDE DEF updated
  <2>2. \A d \in Caller : IF d = c THEN pc'[d] = next /\ copy'[d] = updated
                                   ELSE pc'[d] = pc[d] /\ copy'[d] = copy[d]
    BY <2>1 DEF RInv, TypeOK
  <2>3. TypeOK'
    BY <1>0, <2>1 DEF RInv, TypeOK
  <2>4. HandsAreEarned'
    BY <1>0, <2>1, <2>2 DEF RInv, HandsAreEarned, HandIsEarned
  <2>5. CompensationIsJournaled'
    BY <1>0, <1>1, <2>1, <2>2 DEF RInv, CompensationIsJournaled
  <2>6. JournalIsEarned'
    BY <1>0, <1>1, <2>1 DEF JournalIsEarned, EntryIsEarned
  <2> QED
    BY <2>3, <2>4, <2>5, <2>6 DEF RInv, ResultsAreEarned
<1>2. CASE copy[c] # stored
  <2>1. /\ pc' = [pc EXCEPT ![c] = "idle"] /\ UNCHANGED <<payment, done, stored, copy>>
        /\ failing' \subseteq Operation /\ faults' \in 0..MaxFaults
        /\ held' = [held EXCEPT ![c] = held[c]] /\ held[c] \in Ref /\ "idle" \in Place
    BY <1>2, HeldIsKept DEF Transition, Goto, RInv, TypeOK, Place
  <2>2. HandIsEarned(c, "idle", held[c], payment)
    BY DEF HandIsEarned
  <2> QED
    BY <2>1, <2>2, MovesKeepInv
<1> QED
  BY <1>1, <1>2

LEMMA JournalInitInv == Init => RInv
  BY ReconciliationAssumption
  DEF ReconciliationAssumption, Init, PaymentsInit, Proposed, RInv, TypeOK, Commitments, Stage,
      Ref, Operation, ResultsAreEarned, HandsAreEarned, HandIsEarned, CompensationIsJournaled,
      Compensation, JournalIsEarned, EntryIsEarned

LEMMA LoadKeepsInv ==
  ASSUME RInv, NEW c \in Caller, Load(c)
  PROVE  RInv'
<1>1. /\ pc[c] = "idle" /\ copy' = [copy EXCEPT ![c] = stored]
      /\ UNCHANGED <<payment, done, failing, stored, pc, held, faults>>
  BY DEF Load
<1>2. \A d \in Caller : copy'[d] = IF d = c THEN stored ELSE copy[d]
  BY <1>1 DEF RInv, TypeOK
<1>3. TypeOK'
  BY <1>1 DEF RInv, TypeOK
<1>4. HandsAreEarned'
  BY <1>1, <1>2 DEF RInv, HandsAreEarned, HandIsEarned
<1>5. CompensationIsJournaled'
  BY <1>1, <1>2 DEF RInv, CompensationIsJournaled
<1> QED
  BY <1>1, <1>3, <1>4, <1>5 DEF RInv, ResultsAreEarned, JournalIsEarned

(* The journal's own steps forward, and the end of a commitment. *)
LEMMA ForwardKeepsInv ==
  ASSUME RInv, NEW c \in Caller, Forward(c) \/ Cancel(c)
  PROVE  RInv'
<1> USE DEF Stage, Compensation
<1>0. /\ copy[c] \in Commitments /\ held[c] \in Ref
      /\ HandIsEarned(c, pc[c], held[c], payment) /\ EntryIsEarned(stored, payment)
  BY DEF RInv, TypeOK, HandsAreEarned, JournalIsEarned
<1>1. CASE Authorize(c)
  BY <1>0, <1>1, TransitionKeepsInv DEF Authorize, Idle, EntryIsEarned
<1>2. CASE TakeHold(c)
  <2>1. Call(c, "RESERVE", "holding", "idle") /\ copy[c].stage = "AUTHORIZED"
    BY <1>2 DEF TakeHold, Idle
  <2> QED
    BY <2>1, CallOfAdapterKeepsInv DEF Operation, Place, HandIsEarned
<1>3. CASE JournalHold(c)
  <2> DEFINE f == [copy[c] EXCEPT !.reservation = held[c]]
  <2>1. f \in Commitments /\ f.stage = copy[c].stage /\ f.reservation = held[c]
    BY <1>0 DEF Commitments
  <2>2. /\ Transition(c, "RESERVED", f, "idle")
        /\ UNCHANGED <<payment, done, failing, held, faults>>
        /\ copy[c].stage = "AUTHORIZED" /\ Earned("RESERVE", held[c], payment)
    BY <1>0, <1>3 DEF JournalHold, HandIsEarned
  <2> HIDE DEF f
  <2> QED
    BY <1>0, <2>1, <2>2, TransitionKeepsInv DEF EntryIsEarned
<1>4. CASE AllowCapture(c)
  BY <1>0, <1>4, TransitionKeepsInv DEF AllowCapture, Idle, EntryIsEarned
<1>5. CASE Capture(c)
  <2>1. PICK otherwise \in {"idle", "cleanup"} : Call(c, "CAPTURE", "captured", otherwise)
    BY <1>5 DEF Capture
  <2>2. copy[c].stage = "CAPTURE_ALLOWED"
    BY <1>5 DEF Capture, Idle
  <2> QED
    BY <2>1, <2>2, CallOfAdapterKeepsInv DEF Operation, Place, HandIsEarned
<1>6. CASE RecordCapture(c)
  <2> DEFINE f == [copy[c] EXCEPT !.capture = held[c]]
  <2>1. f \in Commitments /\ f.stage = copy[c].stage /\ f.capture = held[c]
    BY <1>0 DEF Commitments
  <2>2. /\ Transition(c, "CAPTURED", f, "idle")
        /\ UNCHANGED <<payment, done, failing, held, faults>>
        /\ copy[c].stage = "CAPTURE_ALLOWED" /\ Earned("CAPTURE", held[c], payment)
    BY <1>0, <1>6 DEF RecordCapture, HandIsEarned
  <2> HIDE DEF f
  <2> QED
    BY <1>0, <2>1, <2>2, TransitionKeepsInv DEF EntryIsEarned
<1>7. CASE Void(c)
  <2>1. Call(c, "VOID", "voided", "idle") /\ copy[c].stage = "CAPTURE_ALLOWED"
    BY <1>0, <1>7 DEF Void, HandIsEarned
  <2> QED
    BY <2>1, CallOfAdapterKeepsInv DEF Operation, Place, HandIsEarned
<1>8. CASE Fail(c)
  BY <1>0, <1>8, TransitionKeepsInv DEF Fail, HandIsEarned, EntryIsEarned
<1>9. CASE Cancel(c)
  BY <1>0, <1>9, TransitionKeepsInv DEF Cancel, Idle, EntryIsEarned
<1> QED
  BY <1>1, <1>2, <1>3, <1>4, <1>5, <1>6, <1>7, <1>8, <1>9 DEF Forward

(* compensate: what it captures or refunds was seen, or asked for, first. *)
LEMMA CompensatingKeepsInv ==
  ASSUME RInv, NEW c \in Caller, Compensating(c)
  PROVE  RInv'
<1> USE DEF Stage, Compensation
<1>0. /\ copy[c] \in Commitments /\ held[c] \in Ref /\ payment.reference \in Ref
      /\ HandIsEarned(c, pc[c], held[c], payment) /\ EntryIsEarned(stored, payment)
      /\ held = [held EXCEPT ![c] = held[c]]
      /\ failing \subseteq Operation /\ faults \in 0..MaxFaults
  BY DEF RInv, TypeOK, HandsAreEarned, JournalIsEarned
<1>1. CASE Compensate(c)
  <2>1. PICK next \in {"reconciling", "beginning", "refunding"}, hand \in Ref :
          /\ pc' = [pc EXCEPT ![c] = next] /\ held' = [held EXCEPT ![c] = hand]
          /\ next = "reconciling" => /\ copy[c].stage = "CAPTURE_ALLOWED"
                                     /\ payment.state = "CAPTURED" /\ hand = payment.reference
          /\ next = "beginning" => copy[c].stage = "CAPTURED"
          /\ next = "refunding" => copy[c].stage = "COMPENSATION_PENDING"
    <3>1. CASE copy[c].stage = "CAPTURE_ALLOWED"
      BY <1>0, <1>1, <3>1 DEF Compensate, Idle, Goto
    <3>2. CASE copy[c].stage = "CAPTURED"
      BY <1>0, <1>1, <3>2 DEF Compensate, Idle, Goto
    <3>3. CASE copy[c].stage = "COMPENSATION_PENDING"
      BY <1>0, <1>1, <3>3 DEF Compensate, Idle, Goto
    <3> QED
      BY <1>1, <3>1, <3>2, <3>3 DEF Compensate, Idle
  <2>2. HandIsEarned(c, next, hand, payment) /\ next \in Place
    BY <2>1 DEF HandIsEarned, Earned, Place
  <2> QED
    BY <1>0, <1>1, <2>1, <2>2, MovesKeepInv DEF Compensate
<1>2. CASE ReconcileCapture(c)
  <2> DEFINE f == [copy[c] EXCEPT !.capture = held[c]]
  <2>1. f \in Commitments /\ f.stage = copy[c].stage /\ f.capture = held[c]
    BY <1>0 DEF Commitments
  <2>2. /\ Transition(c, "CAPTURED", f, "beginning")
        /\ UNCHANGED <<payment, done, failing, held, faults>>
        /\ copy[c].stage = "CAPTURE_ALLOWED" /\ Earned("CAPTURE", held[c], payment)
    BY <1>0, <1>2 DEF ReconcileCapture, HandIsEarned
  <2> HIDE DEF f
  <2> QED
    BY <1>0, <2>1, <2>2, TransitionKeepsInv DEF EntryIsEarned
<1>3. CASE BeginCompensation(c)
  <2> DEFINE f == [copy[c] EXCEPT !.reason = ReasonOf[c]]
  <2>1. f \in Commitments /\ f.stage = copy[c].stage
    BY <1>0 DEF Commitments
  <2>2. /\ Transition(c, "COMPENSATION_PENDING", f, "refunding")
        /\ UNCHANGED <<payment, done, failing, held, faults>>
        /\ copy[c].stage = "CAPTURED"
    BY <1>0, <1>3 DEF BeginCompensation, HandIsEarned
  <2> HIDE DEF f
  <2> QED
    BY <1>0, <2>1, <2>2, TransitionKeepsInv DEF EntryIsEarned
<1>4. CASE FindRefund(c)
  <2>1. /\ pc' = [pc EXCEPT ![c] = "completing"]
        /\ held' = [held EXCEPT ![c] = payment.reference]
        /\ UNCHANGED <<payment, done, failing, stored, copy, faults>>
    BY <1>4 DEF FindRefund, Goto
  <2>2. HandIsEarned(c, "completing", payment.reference, payment) /\ "completing" \in Place
    BY <1>0, <1>4 DEF FindRefund, HandIsEarned, Earned, Place
  <2> QED
    BY <1>0, <2>1, <2>2, MovesKeepInv
<1>5. CASE StartRefund(c)
  <2>1. /\ pc' = [pc EXCEPT ![c] = "refundCall"]
        /\ held' = [held EXCEPT ![c] = held[c]]
        /\ UNCHANGED <<payment, done, failing, stored, copy, faults>>
    BY <1>0, <1>5 DEF StartRefund, Goto
  <2>2. HandIsEarned(c, "refundCall", held[c], payment) /\ "refundCall" \in Place
    BY <1>0, <1>5 DEF StartRefund, HandIsEarned, Place
  <2> QED
    BY <1>0, <2>1, <2>2, MovesKeepInv
<1>6. CASE Refund(c)
  <2>1. Call(c, "REFUND", "completing", "idle") /\ copy[c].stage = "COMPENSATION_PENDING"
    BY <1>0, <1>6 DEF Refund, HandIsEarned
  <2> QED
    BY <2>1, CallOfAdapterKeepsInv DEF Operation, Place, HandIsEarned
<1>7. CASE CompleteCompensation(c)
  <2> DEFINE f == [copy[c] EXCEPT !.refund = held[c]]
  <2>1. f \in Commitments /\ f.stage = copy[c].stage /\ f.refund = held[c]
    BY <1>0 DEF Commitments
  <2>2. /\ Transition(c, "COMPENSATED", f, "idle")
        /\ UNCHANGED <<payment, done, failing, held, faults>>
        /\ copy[c].stage = "COMPENSATION_PENDING" /\ Earned("REFUND", held[c], payment)
    BY <1>0, <1>7 DEF CompleteCompensation, HandIsEarned
  <2> HIDE DEF f
  <2> QED
    BY <1>0, <2>1, <2>2, TransitionKeepsInv DEF EntryIsEarned
<1> QED
  BY <1>1, <1>2, <1>3, <1>4, <1>5, <1>6, <1>7 DEF Compensating

LEMMA FaultsKeepInv ==
  ASSUME RInv
  PROVE  /\ \A c \in Caller : Crash(c) => RInv'
         /\ \A op \in {"CAPTURE", "REFUND"} : Inject(op) \/ Restore(op) => RInv'
<1>1. ASSUME NEW c \in Caller, Crash(c) PROVE RInv'
  <2>1. /\ pc' = [pc EXCEPT ![c] = "idle"] /\ held' = [held EXCEPT ![c] = None]
        /\ UNCHANGED <<payment, done, failing, stored, copy>>
        /\ faults' \in 0..MaxFaults /\ failing \subseteq Operation
    BY <1>1, ReconciliationAssumption DEF ReconciliationAssumption, Crash, Goto, RInv, TypeOK
  <2>2. HandIsEarned(c, "idle", None, payment) /\ None \in Ref /\ "idle" \in Place
    BY DEF HandIsEarned, Ref, Place
  <2> QED
    BY <2>1, <2>2, MovesKeepInv
<1>2. ASSUME NEW op \in {"CAPTURE", "REFUND"}, Inject(op) \/ Restore(op) PROVE RInv'
  <2>1. /\ UNCHANGED <<payment, done, stored, copy, pc, held>>
        /\ failing' \subseteq Operation /\ faults' \in 0..MaxFaults
    <3>1. CASE Inject(op)
      BY <1>2, <3>1, ReconciliationAssumption
      DEF ReconciliationAssumption, Inject, SetFailure, Operation, RInv, TypeOK
    <3>2. CASE Restore(op)
      BY <1>2, <3>2 DEF Restore, SetFailure, RInv, TypeOK
    <3> QED
      BY <1>2, <3>1, <3>2
  <2>2. TypeOK'
    BY <2>1 DEF RInv, TypeOK
  <2> QED
    BY <2>1, <2>2
    DEF RInv, ResultsAreEarned, HandsAreEarned, HandIsEarned, CompensationIsJournaled,
        JournalIsEarned
<1> QED
  BY <1>1, <1>2

LEMMA JournalNextKeepsInv == RInv /\ [Next]_vars => RInv'
<1>1. ASSUME RInv, Next PROVE RInv'
  BY <1>1, LoadKeepsInv, ForwardKeepsInv, CompensatingKeepsInv, FaultsKeepInv DEF Next
<1>2. ASSUME RInv, UNCHANGED vars PROVE RInv'
  BY <1>2
  DEF vars, RInv, TypeOK, ResultsAreEarned, HandsAreEarned, HandIsEarned,
      CompensationIsJournaled, JournalIsEarned
<1> QED
  BY <1>1, <1>2

LEMMA JournalBehaviour == MCSpec => Spec
<1>1. MCInit => Init
  BY DEF MCInit
<1>2. [MCNext]_<<part, vars, boundaryVars, orderVars>> => [Next]_vars
  BY DEF MCNext, vars
<1> QED
  BY <1>1, <1>2, PTL DEF MCSpec, Spec

(* Whatever callers, crashes, keys and retries interleave: a journaled     *)
(* capture or refund has its payment and names its reference, and nothing  *)
(* is refunded before the journal says so.                                 *)
THEOREM BooksStayTrue == MCSpec => []BooksMatchPayment
<1>1. RInv => NothingIsMissing
  <2> SUFFICES ASSUME RInv
               PROVE  Finding(stored, payment.state) \notin {"CAPTURE_MISSING", "REFUND_MISSING"}
    BY DEF NothingIsMissing
  <2>0. None \notin {"CAPTURE_MISSING", "REFUND_MISSING"}
    BY ReconciliationAssumption DEF ReconciliationAssumption
  <2>1. /\ stored.stage = "CAPTURED" => payment.state = "CAPTURED"
        /\ stored.stage = "COMPENSATED" => payment.state = "REFUNDED"
    BY DEF RInv, JournalIsEarned, EntryIsEarned, Earned, Compensation
  <2>2. CASE stored.stage \in {"CAPTURED", "COMPENSATED"}
    <3>1. payment.state \in ExpectedStates(stored)
      BY <2>1, <2>2 DEF ExpectedStates
    <3> QED
      BY <2>0, <3>1 DEF Finding
  <2>3. CASE stored.stage \notin {"CAPTURED", "COMPENSATED"}
    <3>1. StateFinding(stored, payment.state) \notin {"CAPTURE_MISSING", "REFUND_MISSING"}
      BY <2>3 DEF StateFinding
    <3> QED
      BY <2>0, <3>1 DEF Finding
  <2> QED
    BY <2>2, <2>3
<1>2. RInv => JournalMatchesPayment /\ RefundsAreJournaledFirst
  BY DEF RInv, JournalIsEarned, EntryIsEarned, Earned, Compensation, JournalMatchesPayment,
         RefundsAreJournaledFirst
<1>3. RInv => BooksMatchPayment
  BY <1>1, <1>2 DEF RInv, BooksMatchPayment
<1>4. Spec => []RInv
  BY JournalInitInv, JournalNextKeepsInv, PTL DEF Spec
<1> QED
  BY <1>3, <1>4, JournalBehaviour, PTL
===============================================================================
