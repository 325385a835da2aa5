--------------------------------- MODULE Audit ---------------------------------
(***************************************************************************)
(* AppendOnlyAuditLog of audit.py: a file of hash-chained lines that the   *)
(* threads of several processes append to.  A call takes the lock its      *)
(* process keeps for the path, then the file lock, reads and verifies the  *)
(* whole chain, writes one line and syncs it.  A crash or an OSError may   *)
(* leave part of a line behind, a power cut what was not synced.  A hash   *)
(* covers the record and the hash before it: it is modelled by the         *)
(* sequence of events it stands for, so equal hashes mean equal histories. *)
(* The file's own directory entry is taken to be durable.                  *)
(***************************************************************************)
EXTENDS Naturals, Sequences, FiniteSets, SequencesExt

CONSTANTS
  Thread, Process,
  ProcessOf,   \* the process each thread runs in
  Event,       \* events to append, each by one call
  MaxReads,    \* bound: calls of events() and verify()
  MaxFaults,   \* bound: crashes, power cuts and OSErrors
  None

ASSUME AuditAssumption ==
  /\ ProcessOf \in [Thread -> Process]
  /\ MaxReads \in Nat /\ MaxFaults \in Nat
  /\ None \notin Thread \cup Event

VARIABLES
  lines,      \* complete lines of the file
  fragments,  \* partial writes in the file behind the complete lines
  synced,     \* lines on stable storage
  pathLock,   \* _PATH_LOCKS: the holder in each process
  fileLock,   \* the holder of flock
  pc, event, seen,   \* per thread: place, event (None: a reader), records read
  todo, reads, faults,
  acked       \* records returned to a caller

file == <<lines, fragments, synced>>
locks == <<pathLock, fileLock>>
budget == <<todo, reads>>
vars == <<file, locks, pc, event, seen, budget, faults, acked>>

Record == [sequence: Nat \ {0}, event: Event, previous: Seq(Event)]

Init ==
  /\ lines = <<>> /\ fragments = 0 /\ synced = 0
  /\ pathLock = [p \in Process |-> None] /\ fileLock = None
  /\ pc = [t \in Thread |-> "idle"]
  /\ event = [t \in Thread |-> None]
  /\ seen = [t \in Thread |-> <<>>]
  /\ todo = Event /\ reads = 0 /\ faults = 0 /\ acked = {}

Goto(t, place) == pc' = [pc EXCEPT ![t] = place]

Fault == faults < MaxFaults /\ faults' = faults + 1

(* _expected_hash of the last of these records, or GENESIS_HASH. *)
HeadHash(records) == [i \in DOMAIN records |-> records[i].event]

Verified(records) ==
  \A i \in DOMAIN records :
    /\ records[i].sequence = i
    /\ records[i].previous = HeadHash(SubSeq(records, 1, i - 1))

Material(t) == [sequence |-> Len(seen[t]) + 1, event |-> event[t],
                previous |-> HeadHash(seen[t])]

-------------------------------------------------------------------------------
CallAppend(t, e) ==
  /\ pc[t] = "idle" /\ e \in todo
  /\ todo' = todo \ {e}
  /\ event' = [event EXCEPT ![t] = e]
  /\ Goto(t, "lockPath")
  /\ UNCHANGED <<file, locks, seen, reads, faults, acked>>

(* events, verify and the constructor's check: the same up to the read. *)
CallRead(t) ==
  /\ pc[t] = "idle" /\ reads < MaxReads
  /\ reads' = reads + 1
  /\ event' = [event EXCEPT ![t] = None]
  /\ Goto(t, "lockPath")
  /\ UNCHANGED <<file, locks, seen, todo, faults, acked>>

LockPath(t) ==
  /\ pc[t] = "lockPath" /\ pathLock[ProcessOf[t]] = None
  /\ pathLock' = [pathLock EXCEPT ![ProcessOf[t]] = t]
  /\ Goto(t, "lockFile")
  /\ UNCHANGED <<file, fileLock, event, seen, budget, faults, acked>>

(* A bug the properties must notice: only the in-process lock. *)
LockFileNever(t) ==
  /\ pc[t] = "lockFile"
  /\ Goto(t, "read")
  /\ UNCHANGED <<file, locks, event, seen, budget, faults, acked>>

LockFile(t) ==
  /\ pc[t] = "lockFile" /\ fileLock = None
  /\ fileLock' = t
  /\ Goto(t, "read")
  /\ UNCHANGED <<file, pathLock, event, seen, budget, faults, acked>>

(* A bug the properties must notice: a partial last line is skipped. *)
ReadCompleteLines(t) ==
  /\ pc[t] = "read"
  /\ seen' = [seen EXCEPT ![t] = lines]
  /\ Goto(t, IF event[t] = None THEN "return" ELSE "write")
  /\ UNCHANGED <<file, locks, event, budget, faults, acked>>

(* _read_records and _verify_records. *)
ReadAndVerify(t) ==
  /\ pc[t] = "read"
  /\ seen' = [seen EXCEPT ![t] = lines]
  /\ Goto(t, IF fragments # 0 \/ ~Verified(lines) THEN "raise"
             ELSE IF event[t] = None THEN "return" ELSE "write")
  /\ UNCHANGED <<file, locks, event, budget, faults, acked>>

(* write and flush; the line may reach the file in parts. *)
StartWrite(t) ==
  /\ pc[t] = "write"
  /\ fragments' = fragments + 1
  /\ Goto(t, "writing")
  /\ UNCHANGED <<lines, synced, locks, event, seen, budget, faults, acked>>

(* A line that begins behind a fragment is no record. *)
FinishWrite(t) ==
  /\ pc[t] = "writing"
  /\ IF fragments = 1
     THEN lines' = Append(lines, Material(t)) /\ fragments' = 0
     ELSE UNCHANGED <<lines, fragments>>
  /\ Goto(t, "sync")
  /\ UNCHANGED <<synced, locks, event, seen, budget, faults, acked>>

(* A bug the properties must notice: no fsync. *)
FlushOnly(t) ==
  /\ pc[t] = "sync"
  /\ Goto(t, "return")
  /\ UNCHANGED <<file, locks, event, seen, budget, faults, acked>>

Sync(t) ==
  /\ pc[t] = "sync"
  /\ synced' = Len(lines)
  /\ Goto(t, "return")
  /\ UNCHANGED <<lines, fragments, locks, event, seen, budget, faults, acked>>

(* An OSError in open, write, flush or fsync. *)
WriteFails(t) ==
  /\ pc[t] \in {"write", "writing", "sync"} /\ Fault
  /\ Goto(t, "raise")
  /\ UNCHANGED <<file, locks, event, seen, budget, acked>>

Unlock(t) ==
  /\ fileLock' = IF fileLock = t THEN None ELSE fileLock
  /\ pathLock' = [p \in Process |-> IF pathLock[p] = t THEN None ELSE pathLock[p]]

Return(t) ==
  /\ pc[t] = "return"
  /\ Unlock(t) /\ Goto(t, "idle")
  /\ acked' = IF event[t] = None THEN acked ELSE acked \cup {Material(t)}
  /\ UNCHANGED <<file, event, seen, budget, faults>>

(* A bug the properties must notice: the locks are not released in a       *)
(* finally clause.                                                         *)
RaiseHoldingLocks(t) ==
  /\ pc[t] = "raise" /\ Goto(t, "idle")
  /\ UNCHANGED <<file, locks, event, seen, budget, faults, acked>>

(* AuditIntegrityError; the lock's finally clauses run. *)
Raise(t) ==
  /\ pc[t] = "raise"
  /\ Unlock(t) /\ Goto(t, "idle")
  /\ UNCHANGED <<file, event, seen, budget, faults, acked>>

Call(t) ==
  \/ LockPath(t) \/ LockFile(t) \/ ReadAndVerify(t) \/ StartWrite(t)
  \/ FinishWrite(t) \/ Sync(t) \/ Return(t) \/ Raise(t)

(* The operating system frees a dead process's locks. *)
Stop(dead) ==
  /\ pc' = [t \in Thread |-> IF ProcessOf[t] \in dead THEN "idle" ELSE pc[t]]
  /\ pathLock' = [p \in Process |-> IF p \in dead THEN None ELSE pathLock[p]]
  /\ fileLock' = IF fileLock # None /\ ProcessOf[fileLock] \in dead THEN None ELSE fileLock

Crash(p) ==
  /\ \E t \in Thread : ProcessOf[t] = p /\ pc[t] # "idle"
  /\ Fault /\ Stop({p})
  /\ UNCHANGED <<file, event, seen, budget, acked>>

(* What was not synced survives up to any point, perhaps inside a line. *)
PowerCut ==
  /\ synced < Len(lines) \/ fragments # 0
  /\ Fault /\ Stop(Process)
  /\ \E n \in synced..Len(lines), part \in 0..1 :
       /\ n = Len(lines) => part <= fragments
       /\ lines' = SubSeq(lines, 1, n) /\ fragments' = part
       /\ synced' = n
  /\ UNCHANGED <<event, seen, budget, acked>>

Next ==
  \/ \E t \in Thread : Call(t) \/ WriteFails(t) \/ CallRead(t)
  \/ \E t \in Thread, e \in Event : CallAppend(t, e)
  \/ \E p \in Process : Crash(p)
  \/ PowerCut

Spec     == Init /\ [][Next]_vars
FairSpec == Spec /\ \A t \in Thread : WF_vars(Call(t))

-------------------------------------------------------------------------------
TypeOK ==
  /\ lines \in Seq(Record) /\ fragments \in Nat /\ synced \in 0..Len(lines)
  /\ pathLock \in [Process -> Thread \cup {None}]
  /\ fileLock \in Thread \cup {None}
  /\ pc \in [Thread -> {"idle", "lockPath", "lockFile", "read", "write",
                        "writing", "sync", "return", "raise"}]
  /\ event \in [Thread -> Event \cup {None}]
  /\ seen \in [Thread -> Seq(Record)]
  /\ todo \subseteq Event /\ reads \in 0..MaxReads /\ faults \in 0..MaxFaults
  /\ acked \subseteq Record

(* Writers of all threads and processes extend one chain: it never forks,  *)
(* skips or repeats a sequence number, so _verify_records accepts it.      *)
OneChain == Verified(lines)

(* A record that was returned to a caller stays where it was, whatever     *)
(* crashes or loses power later (the fsync before append returns).         *)
AcknowledgedStays ==
  \A r \in acked : r.sequence <= Len(lines) /\ lines[r.sequence] = r

(* A call is refused only after something did fail: no reader meets a line *)
(* that another thread or process is still writing (the locks of verify    *)
(* and events).                                                            *)
NoFalseAlarm == (\E t \in Thread : pc[t] = "raise") => faults > 0

(* Once a partial line is left behind, nothing is appended to the file and *)
(* no event acknowledged until it is gone (the check in _read_records).    *)
NothingBehindATornLine ==
  [][fragments # 0 /\ (\A t \in Thread : pc[t] # "writing")
     => IsPrefix(lines', lines) /\ acked' = acked]_<<lines, acked>>

(* Every call ends, with its event or with an error: a failed or dead      *)
(* caller keeps no lock.                                                   *)
CallsEnd == \A t \in Thread : pc[t] # "idle" ~> pc[t] = "idle"
===============================================================================
