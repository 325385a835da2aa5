----------------------------- MODULE StoresProofs -----------------------------
(***************************************************************************)
(* What the audit log and the webhook's event store guarantee for any      *)
(* threads, processes, handlers, events and bodies, and any number of      *)
(* faults: about MCStores, in which each is a part of its own, by way of   *)
(* the specification of each.                                              *)
(***************************************************************************)
EXTENDS MCStores, SequenceTheorems, TLAPS

-------------------------------------------------------------------------------
(* The audit log (Audit). *)

Holding == {"read", "write", "writing", "sync", "return", "raise"}

(* Whoever is past lockFile has the file lock, so there is only one. *)
OneHolder == \A t \in Thread : pc[t] \in Holding => fileLock = t

(* The holder's records are the file's, up to the line it is writing; and  *)
(* what is about to be returned has been synced.                           *)
HolderIsCurrent ==
  \A t \in Thread :
    /\ pc[t] \in {"write", "writing", "sync"} => event[t] # None
    /\ pc[t] = "write"   => fragments = 0 /\ seen[t] = lines
    /\ pc[t] = "writing" => fragments = 1 /\ seen[t] = lines
    /\ pc[t] = "sync" \/ (pc[t] = "return" /\ event[t] # None) =>
         fragments = 0 /\ lines = Append(seen[t], Material(t))
    /\ pc[t] = "return" /\ event[t] # None => synced = Len(lines)

(* Whatever a caller was told is on stable storage. *)
AcknowledgedIsSynced ==
  \A r \in acked : r.sequence <= synced /\ lines[r.sequence] = r

(* A partial line is one being written, or one that a fault left behind. *)
FragmentsAreExplained ==
  fragments # 0 => faults > 0 \/ \E t \in Thread : pc[t] = "writing"

IInv ==
  /\ TypeOK
  /\ OneHolder
  /\ HolderIsCurrent
  /\ OneChain
  /\ AcknowledgedIsSynced
  /\ FragmentsAreExplained
  /\ NoFalseAlarm

(* The hash of a prefix stands for the events of that prefix. *)
LEMMA PrefixHash ==
  ASSUME NEW s \in Seq(Record), NEW n \in 0..Len(s)
  PROVE  HeadHash(SubSeq(s, 1, n)) = [j \in 1..n |-> s[j].event]
<1>1. /\ DOMAIN SubSeq(s, 1, n) = 1..n
      /\ \A j \in 1..n : SubSeq(s, 1, n)[j] = s[j]
  OBVIOUS
<1> QED
  BY <1>1 DEF HeadHash

(* _verify_records, line by line. *)
LEMMA VerifiedLines ==
  ASSUME NEW s \in Seq(Record)
  PROVE  Verified(s) <=> \A i \in 1..Len(s) :
                           /\ s[i].sequence = i
                           /\ s[i].previous = [j \in 1..(i - 1) |-> s[j].event]
<1>1. DOMAIN s = 1..Len(s)
  OBVIOUS
<1>2. \A i \in 1..Len(s) : i - 1 \in 0..Len(s)
  OBVIOUS
<1>3. \A i \in 1..Len(s) : HeadHash(SubSeq(s, 1, i - 1)) = [j \in 1..(i - 1) |-> s[j].event]
  BY <1>2, PrefixHash
<1> QED
  BY <1>1, <1>3 DEF Verified

(* A power cut leaves a chain, if it was one. *)
LEMMA PrefixIsVerified ==
  ASSUME NEW s \in Seq(Record), Verified(s), NEW n \in 0..Len(s)
  PROVE  SubSeq(s, 1, n) \in Seq(Record) /\ Verified(SubSeq(s, 1, n))
<1> DEFINE u == SubSeq(s, 1, n)
<1>1. u \in Seq(Record) /\ Len(u) = n /\ \A j \in 1..n : u[j] = s[j]
  OBVIOUS
<1>2. \A i \in 1..n : /\ u[i].sequence = i
                      /\ u[i].previous = [j \in 1..(i - 1) |-> s[j].event]
  BY <1>1, VerifiedLines
<1>3. \A i \in 1..n : [j \in 1..(i - 1) |-> s[j].event] = [j \in 1..(i - 1) |-> u[j].event]
  BY <1>1
<1> HIDE DEF u
<1>4. Verified(u)
  BY <1>1, <1>2, <1>3, VerifiedLines
<1> QED
  BY <1>1, <1>4 DEF u

(* The line that append writes extends the chain it has read. *)
LEMMA ExtensionIsVerified ==
  ASSUME NEW s \in Seq(Record), Verified(s), NEW e \in Event
  PROVE  LET r == [sequence |-> Len(s) + 1, event |-> e, previous |-> HeadHash(s)]
         IN  /\ r \in Record
             /\ Append(s, r) \in Seq(Record) /\ Verified(Append(s, r))
<1> DEFINE r == [sequence |-> Len(s) + 1, event |-> e, previous |-> HeadHash(s)]
           u == Append(s, r)
<1>1. HeadHash(s) = [j \in 1..Len(s) |-> s[j].event]
  BY DEF HeadHash
<1>2. HeadHash(s) \in Seq(Event)
  <2>1. \A j \in 1..Len(s) : s[j] \in Record
    OBVIOUS
  <2>2. \A j \in 1..Len(s) : s[j].event \in Event
    BY <2>1 DEF Record
  <2> QED
    BY <1>1, <2>2
<1>3. r \in Record
  BY <1>2 DEF Record
<1>4. /\ u \in Seq(Record) /\ Len(u) = Len(s) + 1
      /\ \A j \in 1..Len(s) : u[j] = s[j]
      /\ u[Len(s) + 1] = r
  BY <1>3
<1>5. ASSUME NEW i \in 1..Len(u)
      PROVE  /\ u[i].sequence = i
             /\ u[i].previous = [j \in 1..(i - 1) |-> u[j].event]
  <2>1. [j \in 1..(i - 1) |-> u[j].event] = [j \in 1..(i - 1) |-> s[j].event]
    BY <1>4
  <2>2. CASE i = Len(s) + 1
    <3>1. i - 1 = Len(s) /\ u[i] = r
      BY <1>4, <2>2
    <3>2. r.sequence = Len(s) + 1 /\ r.previous = HeadHash(s)
      OBVIOUS
    <3> HIDE DEF u, r
    <3> QED
      BY <1>1, <2>1, <2>2, <3>1, <3>2
  <2>3. CASE i \in 1..Len(s)
    BY <1>4, <2>1, <2>3, VerifiedLines
  <2>4. i \in 1..(Len(s) + 1) /\ Len(s) \in Nat
    BY <1>4
  <2>5. i \in 1..Len(s) \/ i = Len(s) + 1
    BY <2>4
  <2> QED
    BY <2>2, <2>3, <2>5
<1> HIDE DEF u
<1>6. Verified(u)
  BY <1>4, <1>5, VerifiedLines
<1> QED
  BY <1>3, <1>4, <1>6 DEF u

-------------------------------------------------------------------------------
LEMMA InitInv == Init => IInv
  BY AuditAssumption
  DEF Init, IInv, TypeOK, OneHolder, HolderIsCurrent, OneChain, Verified,
      AcknowledgedIsSynced, FragmentsAreExplained, NoFalseAlarm, Holding

(* Waiting for the locks touches neither file nor records. *)
LEMMA EnterKeepsInv ==
  ASSUME IInv, NEW t \in Thread,
         CallRead(t) \/ LockPath(t) \/ LockFile(t) \/ \E e \in Event : CallAppend(t, e)
  PROVE  IInv'
<1> USE AuditAssumption
<1>1. TypeOK'
  <2>1. CASE CallRead(t)
    BY <2>1 DEF IInv, TypeOK, CallRead, Goto, locks, file
  <2>4. ASSUME NEW e \in Event, CallAppend(t, e) PROVE TypeOK'
    BY <2>4 DEF IInv, TypeOK, CallAppend, Goto, locks, file
  <2>2. CASE LockPath(t)
    BY <2>2 DEF IInv, TypeOK, LockPath, Goto, budget, file
  <2>3. CASE LockFile(t)
    BY <2>3 DEF IInv, TypeOK, LockFile, Goto, budget, file
  <2> QED
    BY <2>1, <2>2, <2>3, <2>4
<1>2. UNCHANGED <<file, acked, faults, seen>>
  BY DEF CallRead, LockPath, LockFile, CallAppend, file
<1>3. OneHolder'
  BY DEF IInv, TypeOK, OneHolder, Holding, CallRead, LockPath, LockFile, CallAppend,
         Goto, budget, locks, file
<1>4. HolderIsCurrent'
  <2> SUFFICES ASSUME NEW u \in Thread,
                      pc'[u] \in {"write", "writing", "sync", "return"}
               PROVE  pc[u] = pc'[u] /\ event[u] = event'[u]
    BY <1>2 DEF IInv, HolderIsCurrent, Material, file
  <2> QED
    BY DEF IInv, TypeOK, CallRead, LockPath, LockFile, CallAppend, Goto
<1>5. FragmentsAreExplained'
  BY <1>2 DEF IInv, TypeOK, FragmentsAreExplained, CallRead, LockPath, LockFile,
              CallAppend, Goto, file
<1>6. NoFalseAlarm'
  BY <1>2 DEF IInv, TypeOK, NoFalseAlarm, CallRead, LockPath, LockFile, CallAppend, Goto
<1>7. OneChain' /\ AcknowledgedIsSynced'
  BY <1>2 DEF IInv, OneChain, AcknowledgedIsSynced, file
<1> QED
  BY <1>1, <1>3, <1>4, <1>5, <1>6, <1>7 DEF IInv

(* A reader under the file lock meets a sound chain, and a partial line    *)
(* only after a fault.                                                     *)
LEMMA ReadKeepsInv ==
  ASSUME IInv, NEW t \in Thread, ReadAndVerify(t)
  PROVE  IInv'
<1> USE AuditAssumption
<1>1. TypeOK'
  BY DEF IInv, TypeOK, ReadAndVerify, Goto, budget, locks, file
<1>2. UNCHANGED <<file, locks, acked, faults, event>>
  BY DEF ReadAndVerify, file
<1>3. \A u \in Thread : pc[u] \in Holding => u = t
  BY DEF IInv, OneHolder, ReadAndVerify, Holding
<1>4. OneHolder'
  BY <1>2 DEF IInv, TypeOK, OneHolder, Holding, ReadAndVerify, Goto, locks
<1>5. HolderIsCurrent'
  <2> SUFFICES ASSUME NEW u \in Thread, pc'[u] \in Holding
               PROVE  HolderIsCurrent!(u)'
    BY <1>1 DEF HolderIsCurrent, Holding
  <2>1. u = t
    BY <1>3 DEF IInv, TypeOK, ReadAndVerify, Goto
  <2> QED
    BY <2>1 DEF IInv, TypeOK, ReadAndVerify, Goto, file
<1>6. FragmentsAreExplained'
  BY <1>2 DEF IInv, TypeOK, FragmentsAreExplained, ReadAndVerify, Goto, file
<1>7. NoFalseAlarm'
  <2>1. fragments # 0 => faults > 0
    BY <1>3 DEF IInv, FragmentsAreExplained, ReadAndVerify, Holding
  <2>2. Verified(lines)
    BY DEF IInv, OneChain
  <2> QED
    BY <1>2, <2>1, <2>2 DEF IInv, TypeOK, NoFalseAlarm, ReadAndVerify, Goto
<1>8. OneChain' /\ AcknowledgedIsSynced'
  BY <1>2 DEF IInv, OneChain, AcknowledgedIsSynced, file
<1> QED
  BY <1>1, <1>4, <1>5, <1>6, <1>7, <1>8 DEF IInv

(* While the holder works, it stays the only one. *)
LEMMA HolderStays ==
  ASSUME IInv, NEW t \in Thread, pc[t] \in Holding, NEW next \in Holding,
         Goto(t, next), UNCHANGED locks
  PROVE  /\ OneHolder'
         /\ \A u \in Thread : pc[u] \in Holding \/ pc'[u] \in Holding => u = t
         /\ pc'[t] = next
         /\ pc' \in [Thread -> {"idle", "lockPath", "lockFile"} \cup Holding]
  BY DEF IInv, TypeOK, OneHolder, Holding, Goto, locks

(* A line is begun where the records read end. *)
LEMMA StartWriteKeepsInv ==
  ASSUME IInv, NEW t \in Thread, StartWrite(t)
  PROVE  IInv'
<1> USE AuditAssumption
<1>1. /\ OneHolder'
      /\ \A u \in Thread : pc[u] \in Holding \/ pc'[u] \in Holding => u = t
      /\ pc'[t] = "writing"
      /\ pc' \in [Thread -> {"idle", "lockPath", "lockFile"} \cup Holding]
  BY HolderStays DEF StartWrite, Holding
<1>2. /\ fragments = 0 /\ fragments' = 1 /\ seen[t] = lines /\ event[t] # None
      /\ UNCHANGED <<lines, synced, locks, event, seen, budget, faults, acked>>
  BY DEF IInv, HolderIsCurrent, StartWrite
<1>3. TypeOK'
  BY <1>1, <1>2 DEF IInv, TypeOK, Holding, locks, budget
<1>4. HolderIsCurrent'
  BY <1>1, <1>2 DEF HolderIsCurrent, Holding
<1>5. FragmentsAreExplained' /\ NoFalseAlarm'
  BY <1>1, <1>2 DEF IInv, FragmentsAreExplained, NoFalseAlarm, Holding
<1>6. OneChain' /\ AcknowledgedIsSynced'
  BY <1>2 DEF IInv, OneChain, AcknowledgedIsSynced
<1> QED
  BY <1>1, <1>3, <1>4, <1>5, <1>6 DEF IInv

(* The finished line extends the chain. *)
LEMMA FinishWriteKeepsInv ==
  ASSUME IInv, NEW t \in Thread, FinishWrite(t)
  PROVE  IInv'
<1> USE AuditAssumption
<1>1. /\ OneHolder'
      /\ \A u \in Thread : pc[u] \in Holding \/ pc'[u] \in Holding => u = t
      /\ pc'[t] = "sync"
      /\ pc' \in [Thread -> {"idle", "lockPath", "lockFile"} \cup Holding]
  BY HolderStays DEF FinishWrite, Holding
<1>2. /\ seen[t] = lines /\ event[t] \in Event
      /\ lines' = Append(lines, Material(t)) /\ fragments' = 0
      /\ UNCHANGED <<synced, locks, event, seen, budget, faults, acked>>
  BY DEF IInv, TypeOK, HolderIsCurrent, FinishWrite
<1>3. /\ Material(t) \in Record /\ Material(t)' = Material(t)
      /\ lines' \in Seq(Record) /\ Verified(lines')
  BY <1>2, ExtensionIsVerified DEF IInv, TypeOK, OneChain, Material
<1>4. /\ Len(lines') = Len(lines) + 1
      /\ \A i \in 1..Len(lines) : lines'[i] = lines[i]
  BY <1>2, <1>3 DEF IInv, TypeOK
<1>5. TypeOK'
  BY <1>1, <1>2, <1>3, <1>4 DEF IInv, TypeOK, Holding, locks, budget
<1>6. HolderIsCurrent'
  BY <1>1, <1>2, <1>3 DEF IInv, HolderIsCurrent, Holding
<1>7. FragmentsAreExplained' /\ NoFalseAlarm'
  BY <1>1, <1>2 DEF IInv, FragmentsAreExplained, NoFalseAlarm, Holding
<1>8. OneChain'
  BY <1>3 DEF OneChain
<1>9. AcknowledgedIsSynced'
  <2> SUFFICES ASSUME NEW r \in acked PROVE r.sequence <= synced /\ lines'[r.sequence] = r
    BY <1>2 DEF AcknowledgedIsSynced
  <2>1. r.sequence \in 1..Len(lines) /\ r.sequence <= synced /\ lines[r.sequence] = r
    BY DEF IInv, TypeOK, AcknowledgedIsSynced, Record
  <2> QED
    BY <2>1, <1>4
<1> QED
  BY <1>1, <1>5, <1>6, <1>7, <1>8, <1>9 DEF IInv

(* fsync puts all lines on stable storage. *)
LEMMA SyncKeepsInv ==
  ASSUME IInv, NEW t \in Thread, Sync(t)
  PROVE  IInv'
<1> USE AuditAssumption
<1>1. /\ OneHolder'
      /\ \A u \in Thread : pc[u] \in Holding \/ pc'[u] \in Holding => u = t
      /\ pc'[t] = "return"
      /\ pc' \in [Thread -> {"idle", "lockPath", "lockFile"} \cup Holding]
  BY HolderStays DEF Sync, Holding
<1>2. /\ synced' = Len(lines)
      /\ UNCHANGED <<lines, fragments, locks, event, seen, budget, faults, acked>>
  BY DEF Sync
<1>3. TypeOK'
  BY <1>1, <1>2 DEF IInv, TypeOK, Holding, locks, budget
<1>4. HolderIsCurrent'
  <2>1. Material(t)' = Material(t)
    BY <1>2 DEF Material
  <2>2. fragments = 0 /\ lines = Append(seen[t], Material(t))
    BY DEF IInv, HolderIsCurrent, Sync
  <2> QED
    BY <1>1, <1>2, <2>1, <2>2 DEF IInv, HolderIsCurrent, Holding
<1>5. FragmentsAreExplained' /\ NoFalseAlarm'
  <2>1. fragments = 0
    BY DEF IInv, HolderIsCurrent, Sync
  <2> QED
    BY <1>1, <1>2, <2>1 DEF IInv, FragmentsAreExplained, NoFalseAlarm, Holding
<1>6. OneChain'
  BY <1>2 DEF IInv, OneChain
<1>7. AcknowledgedIsSynced'
  BY <1>2 DEF IInv, TypeOK, AcknowledgedIsSynced, Record
<1> QED
  BY <1>1, <1>3, <1>4, <1>5, <1>6, <1>7 DEF IInv

(* A failed write leaves the file as it is, and the error is a fault. *)
LEMMA WriteFailsKeepsInv ==
  ASSUME IInv, NEW t \in Thread, WriteFails(t)
  PROVE  IInv'
<1> USE AuditAssumption
<1>1. /\ OneHolder'
      /\ \A u \in Thread : pc[u] \in Holding \/ pc'[u] \in Holding => u = t
      /\ pc'[t] = "raise"
      /\ pc' \in [Thread -> {"idle", "lockPath", "lockFile"} \cup Holding]
  BY HolderStays DEF WriteFails, Holding
<1>2. /\ faults' = faults + 1 /\ faults' \in 0..MaxFaults /\ faults' > 0
      /\ UNCHANGED <<file, locks, event, seen, budget, acked>>
  BY DEF IInv, TypeOK, WriteFails, Fault
<1>3. TypeOK'
  BY <1>1, <1>2 DEF IInv, TypeOK, Holding, locks, budget, file
<1>4. HolderIsCurrent'
  BY <1>1, <1>2 DEF HolderIsCurrent, Holding
<1>5. FragmentsAreExplained' /\ NoFalseAlarm'
  BY <1>2 DEF FragmentsAreExplained, NoFalseAlarm
<1>6. OneChain' /\ AcknowledgedIsSynced'
  BY <1>2 DEF IInv, OneChain, AcknowledgedIsSynced, file
<1> QED
  BY <1>1, <1>3, <1>4, <1>5, <1>6 DEF IInv

(* Whoever leaves gives back what it held, and the others go on. *)
LEMMA LeaveKeepsHolder ==
  ASSUME IInv, NEW t \in Thread, pc[t] \in Holding, Unlock(t), Goto(t, "idle")
  PROVE  /\ \A u \in Thread : pc'[u] \notin Holding
         /\ pc' \in [Thread -> {"idle", "lockPath", "lockFile"}]
         /\ pathLock' \in [Process -> Thread \cup {None}]
         /\ fileLock' \in Thread \cup {None}
<1>1. /\ pc \in [Thread -> {"idle", "lockPath", "lockFile"} \cup Holding]
      /\ \A u \in Thread : pc[u] \in Holding => u = t
  BY DEF IInv, TypeOK, OneHolder, Holding
<1>2. \A u \in Thread : pc'[u] \notin Holding
  BY <1>1 DEF Goto, Holding
<1>3. pc' \in [Thread -> {"idle", "lockPath", "lockFile"} \cup Holding]
  BY <1>1 DEF Goto
<1> QED
  BY <1>2, <1>3 DEF IInv, TypeOK, Unlock

(* What is returned was written and synced by this very call. *)
LEMMA ReturnKeepsInv ==
  ASSUME IInv, NEW t \in Thread, Return(t)
  PROVE  IInv'
<1> USE AuditAssumption
<1>1. /\ \A u \in Thread : pc'[u] \notin Holding
      /\ pc' \in [Thread -> {"idle", "lockPath", "lockFile"}]
      /\ pathLock' \in [Process -> Thread \cup {None}]
      /\ fileLock' \in Thread \cup {None}
  BY LeaveKeepsHolder DEF Return, Holding
<1>2. /\ UNCHANGED <<file, event, seen, budget, faults>>
      /\ acked' = IF event[t] = None THEN acked ELSE acked \cup {Material(t)}
  BY DEF Return
<1>3. event[t] # None =>
        /\ synced = Len(lines) /\ lines = Append(seen[t], Material(t))
        /\ Material(t).sequence = Len(seen[t]) + 1
  BY DEF IInv, HolderIsCurrent, Return, Material
<1>4. event[t] # None =>
        /\ Material(t) \in Record
        /\ Material(t).sequence <= synced /\ lines[Material(t).sequence] = Material(t)
  <2> SUFFICES ASSUME event[t] # None
               PROVE  /\ Material(t) \in Record
                      /\ Material(t).sequence <= synced
                      /\ lines[Material(t).sequence] = Material(t)
    OBVIOUS
  <2>1. /\ Len(lines) = Len(seen[t]) + 1 /\ lines[Len(seen[t]) + 1] = Material(t)
        /\ Len(seen[t]) + 1 \in 1..Len(lines) /\ lines \in Seq(Record)
    BY <1>3 DEF IInv, TypeOK
  <2>2. Material(t) \in Record
    BY <2>1
  <2> QED
    BY <1>3, <2>1, <2>2 DEF IInv, TypeOK
<1>5. TypeOK'
  BY <1>1, <1>2, <1>4 DEF IInv, TypeOK, budget, file
<1>6. OneHolder' /\ HolderIsCurrent' /\ NoFalseAlarm'
  BY <1>1 DEF OneHolder, HolderIsCurrent, NoFalseAlarm, Holding
<1>7. FragmentsAreExplained'
  BY <1>1, <1>2 DEF IInv, TypeOK, OneHolder, FragmentsAreExplained, Holding, file, Return
<1>8. OneChain' /\ AcknowledgedIsSynced'
  BY <1>2, <1>4 DEF IInv, OneChain, AcknowledgedIsSynced, file
<1> QED
  BY <1>5, <1>6, <1>7, <1>8 DEF IInv

(* A call that fails acknowledges nothing. *)
LEMMA RaiseKeepsInv ==
  ASSUME IInv, NEW t \in Thread, Raise(t)
  PROVE  IInv'
<1> USE AuditAssumption
<1>1. /\ \A u \in Thread : pc'[u] \notin Holding
      /\ pc' \in [Thread -> {"idle", "lockPath", "lockFile"}]
      /\ pathLock' \in [Process -> Thread \cup {None}]
      /\ fileLock' \in Thread \cup {None}
  BY LeaveKeepsHolder DEF Raise, Holding
<1>2. UNCHANGED <<file, event, seen, budget, faults, acked>>
  BY DEF Raise
<1>3. TypeOK'
  BY <1>1, <1>2 DEF IInv, TypeOK, budget, file
<1>4. OneHolder' /\ HolderIsCurrent' /\ NoFalseAlarm'
  BY <1>1 DEF OneHolder, HolderIsCurrent, NoFalseAlarm, Holding
<1>5. FragmentsAreExplained'
  BY <1>1, <1>2 DEF IInv, TypeOK, OneHolder, FragmentsAreExplained, Holding, file, Raise
<1>6. OneChain' /\ AcknowledgedIsSynced'
  BY <1>2 DEF IInv, OneChain, AcknowledgedIsSynced, file
<1> QED
  BY <1>3, <1>4, <1>5, <1>6 DEF IInv

(* The threads of other processes keep their places and their locks. *)
LEMMA StopKeepsHolder ==
  ASSUME IInv, NEW dead \in SUBSET Process, Stop(dead)
  PROVE  /\ pathLock' \in [Process -> Thread \cup {None}]
         /\ fileLock' \in Thread \cup {None}
         /\ pc' \in [Thread -> {"idle", "lockPath", "lockFile"} \cup Holding]
         /\ OneHolder'
         /\ \A u \in Thread : pc'[u] # "idle" => pc'[u] = pc[u] /\ ProcessOf[u] \notin dead
<1>1. \A u \in Thread : pc'[u] # "idle" => pc'[u] = pc[u] /\ ProcessOf[u] \notin dead
  BY DEF Stop
<1>2. OneHolder'
  BY <1>1, AuditAssumption DEF IInv, TypeOK, OneHolder, Holding, Stop
<1> QED
  BY <1>1, <1>2 DEF IInv, TypeOK, Stop, Holding

(* A crash leaves the file as it was, perhaps in the middle of a line. *)
LEMMA CrashKeepsInv ==
  ASSUME IInv, NEW p \in Process, Crash(p)
  PROVE  IInv'
<1> USE AuditAssumption
<1>1. /\ pathLock' \in [Process -> Thread \cup {None}]
      /\ fileLock' \in Thread \cup {None}
      /\ pc' \in [Thread -> {"idle", "lockPath", "lockFile"} \cup Holding]
      /\ OneHolder'
      /\ \A u \in Thread : pc'[u] # "idle" => pc'[u] = pc[u]
  BY StopKeepsHolder DEF Crash
<1>2. /\ faults' = faults + 1 /\ faults' \in 0..MaxFaults /\ faults' > 0
      /\ UNCHANGED <<file, event, seen, budget, acked>>
  BY DEF IInv, TypeOK, Crash, Fault
<1>3. TypeOK'
  BY <1>1, <1>2 DEF IInv, TypeOK, Holding, budget, file
<1>4. HolderIsCurrent'
  BY <1>1, <1>2 DEF IInv, HolderIsCurrent, Material, file
<1>5. FragmentsAreExplained' /\ NoFalseAlarm'
  BY <1>2 DEF FragmentsAreExplained, NoFalseAlarm
<1>6. OneChain' /\ AcknowledgedIsSynced'
  BY <1>2 DEF IInv, OneChain, AcknowledgedIsSynced, file
<1> QED
  BY <1>1, <1>3, <1>4, <1>5, <1>6 DEF IInv

(* A power cut leaves a prefix of the chain, and at least what was synced. *)
LEMMA PowerCutKeepsInv ==
  ASSUME IInv, PowerCut
  PROVE  IInv'
<1> USE AuditAssumption
<1>1. /\ pathLock' \in [Process -> Thread \cup {None}]
      /\ fileLock' \in Thread \cup {None}
      /\ pc' \in [Thread -> {"idle", "lockPath", "lockFile"} \cup Holding]
      /\ \A u \in Thread : pc'[u] = "idle"
  BY StopKeepsHolder DEF PowerCut
<1>2. /\ faults' = faults + 1 /\ faults' \in 0..MaxFaults /\ faults' > 0
      /\ UNCHANGED <<event, seen, budget, acked>>
  BY DEF IInv, TypeOK, PowerCut, Fault
<1>3. PICK n \in synced..Len(lines), part_1 \in 0..1 :
        /\ lines' = SubSeq(lines, 1, n) /\ fragments' = part_1
        /\ synced' = n
  BY DEF PowerCut
<1>4. n \in 0..Len(lines)
  BY <1>3 DEF IInv, TypeOK
<1>5. /\ lines' \in Seq(Record) /\ Verified(lines')
      /\ Len(lines') = n /\ \A i \in 1..n : lines'[i] = lines[i]
  BY <1>3, <1>4, PrefixIsVerified DEF IInv, TypeOK, OneChain
<1>6. TypeOK'
  BY <1>1, <1>2, <1>3, <1>4, <1>5 DEF IInv, TypeOK, Holding, budget
<1>7. OneHolder' /\ HolderIsCurrent' /\ FragmentsAreExplained' /\ NoFalseAlarm'
  BY <1>1, <1>2 DEF OneHolder, HolderIsCurrent, FragmentsAreExplained, NoFalseAlarm, Holding
<1>8. OneChain'
  BY <1>5 DEF OneChain
<1>9. AcknowledgedIsSynced'
  <2> SUFFICES ASSUME NEW r \in acked
               PROVE  r.sequence <= n /\ lines'[r.sequence] = r
    BY <1>2, <1>3 DEF AcknowledgedIsSynced
  <2>1. r.sequence \in Nat \ {0} /\ r.sequence <= synced /\ lines[r.sequence] = r
    BY DEF IInv, TypeOK, AcknowledgedIsSynced, Record
  <2> QED
    BY <2>1, <1>3, <1>5 DEF IInv, TypeOK
<1> QED
  BY <1>6, <1>7, <1>8, <1>9 DEF IInv

LEMMA NextKeepsInv == IInv /\ [Next]_vars => IInv'
<1> SUFFICES ASSUME IInv, [Next]_vars PROVE IInv'
  OBVIOUS
<1>1. ASSUME NEW t \in Thread, Call(t) \/ WriteFails(t) \/ CallRead(t)
      PROVE  IInv'
  BY <1>1, EnterKeepsInv, ReadKeepsInv, StartWriteKeepsInv, FinishWriteKeepsInv,
     SyncKeepsInv, WriteFailsKeepsInv, ReturnKeepsInv, RaiseKeepsInv
  DEF Call
<1>2. ASSUME NEW t \in Thread, NEW e \in Event, CallAppend(t, e)
      PROVE  IInv'
  BY <1>2, EnterKeepsInv
<1>3. ASSUME NEW p \in Process, Crash(p)
      PROVE  IInv'
  BY <1>3, CrashKeepsInv
<1>4. CASE PowerCut
  BY <1>4, PowerCutKeepsInv
<1>5. CASE UNCHANGED vars
  BY <1>5 DEF vars, file, locks, budget, IInv, TypeOK, OneHolder, HolderIsCurrent, OneChain,
              AcknowledgedIsSynced, FragmentsAreExplained, NoFalseAlarm, Material
<1> QED
  BY <1>1, <1>2, <1>3, <1>4, <1>5 DEF Next

THEOREM Invariance == Spec => []IInv
  BY InitInv, NextKeepsInv, PTL DEF Spec

(* Every behaviour of the composed model is one of the audit log, which    *)
(* stands still in the webhook's part.                                     *)
LEMMA AuditBehaviour == MCSpec => Spec
<1>1. MCInit => Init
  BY DEF MCInit
<1>2. [MCNext]_<<part, vars, webhookVars>> => [Next]_vars
  BY DEF MCNext, vars
<1> QED
  BY <1>1, <1>2, PTL DEF MCSpec, Spec

(* Appends of any number of threads and processes keep one chain, in which *)
(* an acknowledged record never moves, and nobody is refused without a     *)
(* fault (AppendOnlyAuditLog.append, verify and events).                   *)
THEOREM AuditChainIsSound == MCSpec => []ChainIsSound
<1>1. IInv => ChainIsSound
  <2> SUFFICES ASSUME IInv PROVE AcknowledgedStays
    BY DEF IInv, ChainIsSound
  <2> QED
    BY DEF IInv, TypeOK, AcknowledgedIsSynced, AcknowledgedStays, Record
<1> QED
  BY <1>1, Invariance, AuditBehaviour, PTL

(* Only a writer at work, or a power cut, changes the file; only a writer  *)
(* whose line is complete is acknowledged.                                 *)
LEMMA TornLineStep ==
  ASSUME IInv, [Next]_vars, fragments # 0, \A t \in Thread : pc[t] # "writing"
  PROVE  IsPrefix(lines', lines) /\ acked' = acked
<1>1. lines' = lines /\ acked' = acked => IsPrefix(lines', lines) /\ acked' = acked
  BY DEF IsPrefix, IInv, TypeOK
<1>2. ASSUME NEW t \in Thread, Call(t) \/ WriteFails(t) \/ CallRead(t)
      PROVE  lines' = lines /\ acked' = acked
  <2>1. CASE Return(t)
    BY <2>1 DEF Return, IInv, HolderIsCurrent, file
  <2>2. CASE Sync(t)
    BY <2>2 DEF Sync
  <2>3. ~FinishWrite(t)
    BY DEF FinishWrite
  <2> QED
    BY <1>2, <2>1, <2>2, <2>3
    DEF Call, LockPath, LockFile, ReadAndVerify, StartWrite, Raise, WriteFails, CallRead, file
<1>3. ASSUME NEW t \in Thread, NEW e \in Event, CallAppend(t, e)
      PROVE  lines' = lines /\ acked' = acked
  BY <1>3 DEF CallAppend, file
<1>4. ASSUME NEW p \in Process, Crash(p)
      PROVE  lines' = lines /\ acked' = acked
  BY <1>4 DEF Crash, file
<1>5. CASE PowerCut
  <2>1. PICK n \in synced..Len(lines) : lines' = SubSeq(lines, 1, n)
    BY <1>5 DEF PowerCut
  <2>2. n \in 0..Len(lines) /\ lines \in Seq(Record)
    BY <2>1 DEF IInv, TypeOK
  <2>3. Len(lines') = n /\ SubSeq(lines', 1, n) = lines'
    BY <2>1, <2>2
  <2>4. IsPrefix(lines', lines)
    BY <2>1, <2>2, <2>3 DEF IsPrefix
  <2> QED
    BY <1>5, <2>4 DEF PowerCut
<1>6. UNCHANGED vars => lines' = lines /\ acked' = acked
  BY DEF vars, file
<1> QED
  BY <1>1, <1>2, <1>3, <1>4, <1>5, <1>6 DEF Next

(* Behind a line that a crash or an error tore, nothing is appended or     *)
(* acknowledged (_read_records, called by append under its lock).          *)
THEOREM NothingGrowsBehindATornLine == MCSpec => AppendsFailSafely
<1>1. IInv /\ [Next]_vars =>
        [fragments # 0 /\ (\A t \in Thread : pc[t] # "writing")
           => IsPrefix(lines', lines) /\ acked' = acked]_<<lines, acked>>
  BY TornLineStep
<1> QED
  BY <1>1, Invariance, AuditBehaviour, PTL
  DEF Spec, AppendsFailSafely, NothingBehindATornLine

-------------------------------------------------------------------------------
(* The webhook's documents and index (Webhook). *)

Underway == {"compare", "indexRead", "indexWrite", "audit", "answer"}

(* Where a handler stands says what it has already made durable. *)
HandlersLeaveTraces ==
  \A h \in Handler :
    /\ place[h] # "idle" => handling[h] \in Event /\ receipt[h] \in W!Record
    /\ place[h] \in Underway => documents[handling[h]] # None
    /\ place[h] = "indexWrite" => handling[h] \notin W!ToSet(looked[h])
    /\ place[h] \in {"audit", "answer"} => handling[h] \in W!Indexed
    /\ place[h] = "answer" => handling[h] \in audited
    /\ place[h] # "refused" => tries[h] < MaxTries

(* What is acknowledged can be read. *)
AnsweredAreIndexed == answered \subseteq W!Indexed

WInv ==
  /\ W!TypeOK
  /\ W!IndexIsSound
  /\ HandlersLeaveTraces
  /\ AnsweredAreIndexed

(* An index that is extended by a key it lacks stays injective. *)
LEMMA ExtendedIndex ==
  ASSUME NEW s \in Seq(Event), NEW e \in Event
  PROVE  /\ W!ToSet(Append(s, e)) = W!ToSet(s) \cup {e}
         /\ W!IsInjective(s) /\ e \notin W!ToSet(s) => W!IsInjective(Append(s, e))
         /\ W!Contains(s, e) <=> e \in W!ToSet(s)
         /\ IsPrefix(s, Append(s, e))
         /\ Append(s, e) \in Seq(Event)
<1>1. /\ Append(s, e) \in Seq(Event) /\ Len(Append(s, e)) = Len(s) + 1
      /\ DOMAIN s = 1..Len(s) /\ DOMAIN Append(s, e) = 1..(Len(s) + 1)
      /\ \A i \in 1..Len(s) : Append(s, e)[i] = s[i]
      /\ Append(s, e)[Len(s) + 1] = e
      /\ 1..(Len(s) + 1) = 1..Len(s) \cup {Len(s) + 1}
  OBVIOUS
<1>2. W!ToSet(Append(s, e)) = W!ToSet(s) \cup {e}
  BY <1>1 DEF W!ToSet
<1>3. W!IsInjective(s) /\ e \notin W!ToSet(s) => W!IsInjective(Append(s, e))
  BY <1>1 DEF W!ToSet, W!IsInjective
<1>4. W!Contains(s, e) <=> e \in W!ToSet(s)
  BY <1>1 DEF W!ToSet, W!Contains
<1>5. IsPrefix(s, Append(s, e))
  BY <1>1 DEF IsPrefix
<1> QED
  BY <1>1, <1>2, <1>3, <1>4, <1>5

LEMMA WebhookInitInv == W!Init => WInv
  BY WebhookAssumed
  DEF W!Init, WInv, W!WebhookAssumption, W!TypeOK, W!IndexIsSound, HandlersLeaveTraces,
      AnsweredAreIndexed, Underway, W!Indexed, W!ToSet, W!IsInjective

(* A delivery only fills in the handler's variables. *)
LEMMA DeliverKeepsInv ==
  ASSUME WInv, NEW h \in Handler, NEW e \in Event, NEW b \in Body, W!Deliver(h, e, b)
  PROVE  WInv'
<1>1. [body |-> b, by |-> h] \in W!Record
  BY DEF W!Record
<1>2. W!TypeOK'
  BY <1>1 DEF WInv, W!TypeOK, W!Deliver, W!Receive, W!Goto
<1>3. HandlersLeaveTraces'
  BY <1>1, <1>2 DEF WInv, W!TypeOK, HandlersLeaveTraces, Underway, W!Indexed, W!Deliver, W!Receive, W!Goto
<1>4. W!IndexIsSound' /\ AnsweredAreIndexed'
  BY DEF WInv, W!IndexIsSound, AnsweredAreIndexed, W!Indexed, W!Deliver, W!Receive
<1> QED
  BY <1>2, <1>3, <1>4 DEF WInv

(* A handler at work on its documents leaves the index as it is. *)
LEMMA DocumentKeepsInv ==
  ASSUME WInv, NEW h \in Handler,
         W!LoadEvent(h) \/ W!CreateEvent(h) \/ W!CompareEvent(h)
  PROVE  WInv'
<1> USE WebhookAssumed DEF W!WebhookAssumption
<1>1. W!TypeOK'
  BY DEF WInv, W!TypeOK, HandlersLeaveTraces, W!LoadEvent, W!CreateEvent, W!CompareEvent, W!Goto
<1>2. /\ \A e \in Event : documents[e] # None => documents'[e] # None
      /\ UNCHANGED <<index, handling, receipt, looked, tries, audited, answered>>
  BY DEF WInv, W!TypeOK, HandlersLeaveTraces, W!LoadEvent, W!CreateEvent, W!CompareEvent
<1>3. HandlersLeaveTraces'
  BY <1>1, <1>2 DEF WInv, W!TypeOK, HandlersLeaveTraces, Underway, W!Indexed,
                W!LoadEvent, W!CreateEvent, W!CompareEvent, W!Goto
<1>4. W!IndexIsSound' /\ AnsweredAreIndexed'
  BY <1>2 DEF WInv, W!TypeOK, W!IndexIsSound, AnsweredAreIndexed, W!Indexed, W!ToSet
<1> QED
  BY <1>1, <1>3, <1>4 DEF WInv

(* A key is appended only to the index that was found to lack it. *)
LEMMA IndexKeepsInv ==
  ASSUME WInv, NEW h \in Handler, W!ReadIndex(h) \/ W!WriteIndex(h)
  PROVE  WInv' /\ IsPrefix(index, index')
<1> USE WebhookAssumed DEF W!WebhookAssumption
<1>1. handling[h] \in Event /\ place[h] \in Underway
  BY DEF WInv, HandlersLeaveTraces, Underway, W!ReadIndex, W!WriteIndex
<1>2. /\ W!TypeOK'
      /\ UNCHANGED <<documents, handling, receipt, audited, answered>>
      /\ \A g \in Handler \ {h} :
           place'[g] = place[g] /\ looked'[g] = looked[g] /\ tries'[g] = tries[g]
  <2>1. CASE W!ReadIndex(h)
    BY <2>1 DEF WInv, W!TypeOK, W!ReadIndex, W!Goto
  <2>2. CASE W!WriteIndex(h)
    <3>1. index \in Seq(Event) /\ Append(index, handling[h]) \in Seq(Event)
      BY <1>1, ExtendedIndex DEF WInv, W!TypeOK
    <3>2. /\ tries \in [Handler -> 0..MaxTries] /\ tries[h] < MaxTries
          /\ tries' = tries \/ tries' = [tries EXCEPT ![h] = tries[h] + 1]
      BY <2>2 DEF WInv, W!TypeOK, HandlersLeaveTraces, W!WriteIndex
    <3>3. tries' \in [Handler -> 0..MaxTries]
      BY <3>2
    <3> QED
      BY <2>2, <3>1, <3>3 DEF WInv, W!TypeOK, W!WriteIndex, W!Goto
  <2> QED
    BY <2>1, <2>2
<1>3. \/ index' = index
      \/ index' = Append(index, handling[h]) /\ handling[h] \notin W!Indexed
  <2>1. CASE W!ReadIndex(h)
    BY <2>1 DEF W!ReadIndex
  <2>2. CASE W!WriteIndex(h)
    BY <2>2 DEF WInv, HandlersLeaveTraces, W!Indexed, W!WriteIndex
  <2> QED
    BY <2>1, <2>2
<1>4. /\ IsPrefix(index, index') /\ W!Indexed \subseteq W!Indexed'
      /\ W!Indexed' \subseteq W!Indexed \cup {handling[h]}
      /\ W!IsInjective(index')
  <2>1. IsPrefix(index, index)
    BY DEF WInv, W!TypeOK, IsPrefix
  <2>2. index \in Seq(Event) /\ W!IsInjective(index)
    BY DEF WInv, W!TypeOK, W!IndexIsSound
  <2>3. CASE index' = index
    BY <2>1, <2>2, <2>3 DEF W!Indexed
  <2>4. CASE index' = Append(index, handling[h]) /\ handling[h] \notin W!Indexed
    BY <1>1, <2>2, <2>4, ExtendedIndex DEF W!Indexed
  <2> QED
    BY <1>3, <2>3, <2>4
<1>5. HandlersLeaveTraces'
  <2> SUFFICES ASSUME NEW g \in Handler PROVE HandlersLeaveTraces!(g)'
    BY DEF HandlersLeaveTraces
  <2>1. CASE g # h
    BY <1>2, <1>4, <2>1 DEF WInv, HandlersLeaveTraces, Underway
  <2>2. CASE g = h
    <3>1. CASE W!ReadIndex(h)
      <4>1. /\ looked'[h] = index /\ index' = index /\ tries' = tries
            /\ place'[h] = IF handling[h] \in W!Indexed THEN "audit" ELSE "indexWrite"
        BY <1>1, <3>1, ExtendedIndex DEF WInv, W!TypeOK, W!ReadIndex, W!Goto, W!Indexed
      <4>2. /\ receipt[h] \in W!Record /\ documents[handling[h]] # None
            /\ tries[h] < MaxTries
        BY <1>1, <3>1 DEF WInv, HandlersLeaveTraces, Underway, W!ReadIndex
      <4> QED
        BY <1>1, <1>2, <2>2, <4>1, <4>2 DEF W!Indexed, Underway
    <3>2. CASE W!WriteIndex(h)
      <4>1. /\ receipt[h] \in W!Record /\ documents[handling[h]] # None
            /\ tries[h] \in Nat /\ tries[h] < MaxTries
        BY <1>1, <3>2 DEF WInv, W!TypeOK, HandlersLeaveTraces, Underway, W!WriteIndex
      <4>2. CASE index = looked[h]
        <5>1. /\ place'[h] = "audit" /\ tries' = tries
              /\ index' = Append(index, handling[h])
          BY <3>2, <4>2 DEF WInv, W!TypeOK, W!WriteIndex, W!Goto
        <5>2. handling[h] \in W!Indexed'
          BY <1>1, <5>1, ExtendedIndex DEF WInv, W!TypeOK, W!Indexed
        <5> QED
          BY <1>1, <1>2, <2>2, <4>1, <5>1, <5>2 DEF Underway
      <4>3. CASE index # looked[h]
        <5>1. /\ tries'[h] = tries[h] + 1
              /\ place'[h] = IF tries[h] + 1 = MaxTries THEN "refused" ELSE "indexRead"
          BY <3>2, <4>3 DEF WInv, W!TypeOK, W!WriteIndex, W!Goto
        <5> QED
          BY <1>1, <1>2, <2>2, <4>1, <5>1 DEF Underway, W!WebhookAssumption
      <4> QED
        BY <4>2, <4>3
    <3> QED
      BY <3>1, <3>2
  <2> QED
    BY <2>1, <2>2
<1>6. W!IndexIsSound' /\ AnsweredAreIndexed'
  BY <1>1, <1>2, <1>4
  DEF WInv, W!IndexIsSound, AnsweredAreIndexed, HandlersLeaveTraces, Underway
<1> QED
  BY <1>2, <1>4, <1>5, <1>6 DEF WInv

(* A request that ends leaves its handler as it began. *)
LEMMA EndTypes ==
  ASSUME W!TypeOK, NEW h \in Handler, W!End(h)
  PROVE  /\ place' \in [Handler -> {"idle", "load", "create", "compare", "indexRead",
                                    "indexWrite", "audit", "answer", "refused"}]
         /\ handling' \in [Handler -> Event \cup {None}]
         /\ receipt' \in [Handler -> W!Record \cup {None}]
         /\ looked' \in [Handler -> Seq(Event)]
         /\ tries' \in [Handler -> 0..MaxTries]
         /\ place'[h] = "idle" /\ tries'[h] = 0
         /\ \A g \in Handler \ {h} :
              /\ place'[g] = place[g] /\ handling'[g] = handling[g]
              /\ receipt'[g] = receipt[g] /\ looked'[g] = looked[g] /\ tries'[g] = tries[g]
<1> USE WebhookAssumed DEF W!WebhookAssumption
<1>1. looked' \in [Handler -> Seq(Event)]
  BY DEF W!TypeOK, W!End
<1>2. tries' \in [Handler -> 0..MaxTries]
  BY DEF W!TypeOK, W!End
<1> QED
  BY <1>1, <1>2 DEF W!TypeOK, W!End, W!Goto

(* The audit record and the answer come after the index. *)
LEMMA AnswerKeepsInv ==
  ASSUME WInv, NEW h \in Handler, W!Audit(h) \/ W!Answer(h)
  PROVE  WInv'
<1> USE WebhookAssumed DEF W!WebhookAssumption
<1>1. W!TypeOK'
  <2>1. CASE W!Audit(h)
    <3>1. handling[h] \in Event
      BY <2>1 DEF WInv, HandlersLeaveTraces, W!Audit
    <3>2. audited' \subseteq Event /\ answered' \subseteq audited'
      BY <2>1, <3>1 DEF WInv, W!TypeOK, W!Audit
    <3>3. failures' \in 0..MaxFailures
      BY <2>1 DEF WInv, W!TypeOK, W!Audit
    <3> QED
      BY <2>1, <3>2, <3>3 DEF WInv, W!TypeOK, W!Audit, W!Goto
  <2>2. CASE W!Answer(h)
    <3>1. handling[h] \in audited /\ W!End(h)
      BY <2>2 DEF WInv, HandlersLeaveTraces, W!Answer
    <3>2. answered' = answered \cup {handling[h]}
          /\ UNCHANGED <<documents, index, audited, failures>>
      BY <2>2 DEF W!Answer
    <3> QED
      BY <3>1, <3>2, EndTypes DEF WInv, W!TypeOK
  <2> QED
    BY <2>1, <2>2
<1>2. HandlersLeaveTraces'
  BY <1>1 DEF WInv, W!TypeOK, HandlersLeaveTraces, Underway, W!Indexed, W!Audit, W!Answer, W!End, W!Goto
<1>3. W!IndexIsSound' /\ AnsweredAreIndexed'
  BY DEF WInv, W!IndexIsSound, AnsweredAreIndexed, HandlersLeaveTraces, W!Indexed, W!Audit, W!Answer
<1> QED
  BY <1>1, <1>2, <1>3 DEF WInv

(* A handler that is refused or dies takes nothing back. *)
LEMMA GiveUpKeepsInv ==
  ASSUME WInv, NEW h \in Handler, W!Refuse(h) \/ W!Crash(h)
  PROVE  WInv'
<1> USE WebhookAssumed DEF W!WebhookAssumption
<1>1. W!TypeOK'
  BY EndTypes DEF WInv, W!TypeOK, W!Refuse, W!Crash
<1>2. HandlersLeaveTraces'
  BY <1>1 DEF WInv, W!TypeOK, HandlersLeaveTraces, Underway, W!Indexed, W!Refuse, W!Crash, W!End, W!Goto
<1>3. W!IndexIsSound' /\ AnsweredAreIndexed'
  BY DEF WInv, W!IndexIsSound, AnsweredAreIndexed, W!Indexed, W!Refuse, W!Crash
<1> QED
  BY <1>1, <1>2, <1>3 DEF WInv
LEMMA WebhookNextKeepsInv == WInv /\ [W!Next]_(W!vars) => WInv'
<1> SUFFICES ASSUME WInv, [W!Next]_(W!vars) PROVE WInv'
  OBVIOUS
<1>1. ASSUME NEW h \in Handler, W!Step(h) \/ W!Crash(h) PROVE WInv'
  BY <1>1, DocumentKeepsInv, IndexKeepsInv, AnswerKeepsInv, GiveUpKeepsInv DEF W!Step
<1>2. ASSUME NEW h \in Handler, NEW e \in Event, NEW b \in Body, W!Deliver(h, e, b)
      PROVE  WInv'
  BY <1>2, DeliverKeepsInv
<1>3. CASE UNCHANGED W!vars
  BY <1>3 DEF W!vars, W!handlers, WInv, W!TypeOK, W!IndexIsSound, HandlersLeaveTraces,
              AnsweredAreIndexed, W!Indexed
<1> QED
  BY <1>1, <1>2, <1>3 DEF W!Next

LEMMA WebhookBehaviour == MCSpec => W!Spec
<1>1. MCInit => W!Init
  BY DEF MCInit
<1>2. [MCNext]_<<part, vars, webhookVars>> => [W!Next]_(W!vars)
  BY DEF MCNext, webhookVars, W!vars, W!handlers
<1> QED
  BY <1>1, <1>2, PTL DEF MCSpec, W!Spec

LEMMA WebhookInvariance == MCSpec => []WInv
<1>1. W!Spec => []WInv
  BY WebhookInitInv, WebhookNextKeepsInv, PTL DEF W!Spec
<1> QED
  BY <1>1, WebhookBehaviour, PTL

-------------------------------------------------------------------------------
(* The refinement: the key in the index publishes the document, the answer *)
(* acknowledges it, and everything else is invisible to EventStore.        *)

LEMMA PromiseInit == W!Init => W!Promise!Init
  BY DEF W!Init, W!Promise!Init, W!Indexed, W!ToSet

LEMMA PromiseStep == WInv /\ [W!Next]_(W!vars) => [W!Promise!Next]_(W!Promise!vars)
<1> SUFFICES ASSUME WInv, [W!Next]_(W!vars)
             PROVE  W!Promise!Next \/ UNCHANGED W!Promise!vars
  OBVIOUS
<1> USE WebhookAssumed DEF W!WebhookAssumption
<1> DEFINE readable == [e \in Event |-> IF e \in W!Indexed THEN documents[e] ELSE None]
<1>1. ASSUME NEW h \in Handler, W!WriteIndex(h), index' # index
      PROVE  \E e \in Event, r \in W!Record : W!Promise!Publish(e, r)
  <2>1. /\ handling[h] \in Event /\ handling[h] \notin W!Indexed
        /\ documents[handling[h]] \in W!Record
        /\ index' = Append(index, handling[h])
        /\ UNCHANGED <<documents, answered>>
    BY <1>1 DEF WInv, W!TypeOK, HandlersLeaveTraces, Underway, W!Indexed, W!WriteIndex
  <2>2. W!Indexed' = W!Indexed \cup {handling[h]}
    BY <2>1, ExtendedIndex DEF WInv, W!TypeOK, W!Indexed
  <2>3. readable' = [readable EXCEPT ![handling[h]] = documents[handling[h]]]
    BY <2>1, <2>2
  <2>4. readable[handling[h]] = None
    BY <2>1
  <2> HIDE DEF readable
  <2>5. \E e \in Event, r \in W!Record :
          /\ readable[e] = None
          /\ readable' = [readable EXCEPT ![e] = r]
          /\ UNCHANGED answered
    BY <2>1, <2>3, <2>4
  <2> QED
    BY <2>5 DEF W!Promise!Publish, readable
<1>2. ASSUME NEW h \in Handler, W!Answer(h)
      PROVE  W!Promise!Acknowledge(handling[h]) /\ handling[h] \in Event
  BY <1>2 DEF W!Answer, W!Promise!Acknowledge, WInv, HandlersLeaveTraces, W!Indexed,
              W!IndexIsSound
<1>3. ASSUME index' = index, answered' = answered,
             \A e \in Event : documents[e] # None => documents'[e] = documents[e]
      PROVE  UNCHANGED W!Promise!vars
  BY <1>3 DEF W!Promise!vars, WInv, W!IndexIsSound, W!Indexed
<1>4. ASSUME NEW h \in Handler,
             \/ W!LoadEvent(h) \/ W!CreateEvent(h) \/ W!CompareEvent(h) \/ W!ReadIndex(h)
             \/ W!Audit(h) \/ W!Refuse(h) \/ W!Crash(h)
             \/ W!WriteIndex(h) /\ index' = index
             \/ \E e \in Event, b \in Body : W!Deliver(h, e, b)
      PROVE  UNCHANGED W!Promise!vars
  <2>1. /\ index' = index /\ answered' = answered
        /\ \A e \in Event : documents[e] # None => documents'[e] = documents[e]
    BY <1>4 DEF WInv, W!TypeOK, W!LoadEvent, W!CreateEvent, W!CompareEvent, W!ReadIndex,
                W!Audit, W!Refuse, W!Crash, W!WriteIndex, W!Deliver, W!Receive
  <2> QED
    BY <2>1, <1>3
<1>5. CASE UNCHANGED W!vars
  BY <1>5, <1>3 DEF W!vars
<1>6. ASSUME NEW h \in Handler, W!Step(h)
      PROVE  W!Promise!Next \/ UNCHANGED W!Promise!vars
  <2>1. CASE W!WriteIndex(h) /\ index' # index
    BY <1>1, <2>1 DEF W!Promise!Next
  <2>2. CASE W!Answer(h)
    BY <1>2, <2>2 DEF W!Promise!Next
  <2> QED
    BY <1>4, <1>6, <2>1, <2>2 DEF W!Step
<1> QED
  BY <1>4, <1>5, <1>6 DEF W!Next

(* No reader of the event store meets a key without its document, or one   *)
(* twice; handlers that race for the index lose no key; and documents,     *)
(* index and retries implement EventStore: what is acknowledged is         *)
(* readable, and stays as it was first received (_add_to_index, record).   *)
THEOREM WebhookEventsAreKept == MCSpec => EventsAreKept
<1>1. WInv => W!TypeOK /\ W!IndexIsSound
  BY DEF WInv
<1>2. WInv /\ [W!Next]_(W!vars) => [W!IsPrefix(index, index')]_index
  <2> SUFFICES ASSUME WInv, [W!Next]_(W!vars), index' # index PROVE IsPrefix(index, index')
    BY DEF IsPrefix, W!IsPrefix
  <2>1. PICK h \in Handler : W!WriteIndex(h)
    BY DEF W!Next, W!Step, W!LoadEvent, W!CreateEvent, W!CompareEvent, W!ReadIndex, W!Audit,
           W!Answer, W!Refuse, W!Crash, W!Deliver, W!Receive, W!vars
  <2> QED
    BY <2>1, IndexKeepsInv
<1>3. MCSpec => W!IndexOnlyGrows
  BY <1>2, WebhookInvariance, WebhookBehaviour, PTL DEF W!IndexOnlyGrows, W!Spec
<1>4. MCSpec => W!ImplementsPromise
  BY PromiseInit, PromiseStep, WebhookInvariance, WebhookBehaviour, PTL
  DEF W!ImplementsPromise, W!Promise!Spec, W!Spec
<1> QED
  BY <1>1, <1>3, <1>4, WebhookInvariance, PTL DEF EventsAreKept
===============================================================================
