---------------------------- MODULE LedgersProofs ----------------------------
(***************************************************************************)
(* What the ledgers and the limiter of MCLedgers guarantee, for any calls, *)
(* threads, keys, leases, limits and delays: the rows in SQLite            *)
(* (IdempotencyLedger) and the entries of one process (ThreadLedger) are   *)
(* kept to their owners and implement OnceResult, sleepers are woken, and  *)
(* RateLimiter neither admits too many nor refuses without cause.          *)
(***************************************************************************)
EXTENDS MCLedgers, FiniteSetTheorems, SequenceTheorems, WellFoundedInduction, TLAPS

-------------------------------------------------------------------------------
(* The rows in SQLite (IdempotencyLedger). *)

(* Nothing is claimed from the future. *)
ReadingsArePast == \A c \in Call : now[c] <= clock

(* A PENDING row belongs to a call that was granted its lease for exactly  *)
(* this key and request; a COMPLETED row keeps a result its call returned. *)
RowsHaveOwners ==
  \A k \in Key :
    /\ row[k].status = "PENDING" =>
         /\ row[k].owner \in Call
         /\ KeyOf(row[k].owner) = k
         /\ row[k].print = PrintOf(row[k].owner)
         /\ row[k].expires = deadline[row[k].owner]
         /\ pc[row[k].owner] \in Working \cup {"releasing", "crashed"}
    /\ row[k].status = "COMPLETED" =>
         /\ row[k].result \in Call
         /\ KeyOf(row[k].result) = k
         /\ row[k].print = PrintOf(row[k].result)
         /\ pc[row[k].result] = "returned"
    /\ row[k].status # "COMPLETED" => row[k].result = None

(* Overrunning is exactly working past the deadline, and only an overrun   *)
(* costs a working call its row.                                           *)
WorkersHoldRows ==
  \A c \in Call : pc[c] \in Working =>
    /\ c \in overran <=> deadline[c] <= clock
    /\ Owns(c) \/ c \in overran

(* Only a call that has claimed a lease can have outlived it. *)
OverranHaveWorked ==
  \A c \in overran : pc[c] \notin {"new", "claiming", "conflict"}

(* The effect of a call without an excuse is the one its row stands for.   *)
EffectsHoldRows ==
  /\ \A c \in effects : pc[c] \notin {"new", "claiming", "running", "conflict"}
  /\ \A c \in effects :
       Excused(c) \/ Owns(c) \/ (RowOf(c).status = "COMPLETED" /\ RowOf(c).result = c)

OnlyReturnedHaveOutcome ==
  \A c \in Call : outcome[c] = None <=> pc[c] # "returned"

IInv ==
  /\ TypeOK
  /\ ReadingsArePast
  /\ RowsHaveOwners
  /\ WorkersHoldRows
  /\ OverranHaveWorked
  /\ EffectsHoldRows
  /\ OnlyReturnedHaveOutcome

-------------------------------------------------------------------------------
LEMMA InitInv == Init => IInv
  BY NoneAssumption
  DEF Init, IInv, TypeOK, ReadingsArePast, RowsHaveOwners, WorkersHoldRows,
      OverranHaveWorked, EffectsHoldRows, OnlyReturnedHaveOutcome, Absent, Working, Ended, Excused,
      Owns, RowOf, KeyOf

LEMMA ClaimKeepsInv ==
  ASSUME IInv, NEW c \in Call, Insert(c) \/ TakeOver(c)
  PROVE  IInv'
<1> USE LeaseAssumption, NoneAssumption
<1>1. /\ TakeLease(c) /\ pc[c] = "claiming"
      /\ RowOf(c).status # "COMPLETED"
      /\ RowOf(c).status = "PENDING" => RowOf(c).expires <= now[c]
  BY DEF Insert, TakeOver
<1>2. TypeOK'
  BY <1>1 DEF IInv, TypeOK, TakeLease, Pending, KeyOf, PrintOf, Working, Ended
<1>3. ReadingsArePast'
  BY <1>1 DEF IInv, ReadingsArePast, TakeLease
<1>4. RowsHaveOwners'
  BY <1>1 DEF IInv, TypeOK, RowsHaveOwners, TakeLease, Pending, KeyOf, PrintOf,
              RowOf, Working, Ended
<1>5. WorkersHoldRows'
  <2> SUFFICES ASSUME NEW d \in Call, pc'[d] \in Working
               PROVE  /\ d \in overran' <=> deadline'[d] <= clock'
                      /\ Owns(d)' \/ d \in overran'
    BY DEF WorkersHoldRows
  <2>1. d = c => Owns(d)'
    BY <1>1 DEF IInv, TypeOK, TakeLease, Pending, KeyOf, PrintOf, RowOf, Owns
  <2>2. d = c => c \notin overran
    BY <1>1 DEF IInv, TypeOK, OverranHaveWorked
  <2>3. d = c => (d \in overran' <=> deadline'[d] <= clock')
    BY <1>1, <2>2 DEF IInv, TypeOK, TakeLease
  <2>4. CASE d # c
    <3>1. /\ pc[d] \in Working
          /\ deadline'[d] = deadline[d] /\ clock' = clock
          /\ d \in overran' <=> d \in overran
      BY <1>1, <2>4 DEF IInv, TypeOK, TakeLease
    <3>2. Owns(d) => KeyOf(d) # KeyOf(c) \/ d \in overran
      BY <1>1, <2>4, <3>1
      DEF IInv, TypeOK, RowsHaveOwners, WorkersHoldRows, ReadingsArePast, Owns,
          RowOf, KeyOf
    <3>3. Owns(d) /\ KeyOf(d) # KeyOf(c) => Owns(d)'
      BY <1>1 DEF IInv, TypeOK, TakeLease, Owns, RowOf, KeyOf
    <3> QED
      BY <3>1, <3>2, <3>3 DEF IInv, WorkersHoldRows
  <2> QED
    BY <2>1, <2>3, <2>4
<1>6. OverranHaveWorked'
  BY <1>1 DEF IInv, TypeOK, OverranHaveWorked, TakeLease
<1>7. EffectsHoldRows'
  BY <1>1 DEF IInv, TypeOK, RowsHaveOwners, WorkersHoldRows, EffectsHoldRows,
              ReadingsArePast, TakeLease, Pending, KeyOf, PrintOf, RowOf, Owns,
              Excused, Working, Ended
<1>8. OnlyReturnedHaveOutcome'
  BY <1>1 DEF IInv, TypeOK, OnlyReturnedHaveOutcome, TakeLease
<1> QED
  BY <1>2, <1>3, <1>4, <1>5, <1>6, <1>7, <1>8 DEF IInv

(* A clock reading is not from the future. *)
LEMMA ReadKeepsInv ==
  ASSUME IInv, NEW c \in Call, ReadClock(c)
  PROVE  IInv'
<1> USE LeaseAssumption, NoneAssumption
<1>1. TypeOK'
  BY DEF IInv, TypeOK, ReadClock, KeyOf, PrintOf, RowOf, Working, Ended
<1>2. ReadingsArePast'
  BY DEF IInv, TypeOK, ReadingsArePast, ReadClock
<1>3. RowsHaveOwners'
  BY DEF IInv, TypeOK, RowsHaveOwners, WorkersHoldRows, ReadClock,
         KeyOf, PrintOf, RowOf, Owns, Working, Ended
<1>4. WorkersHoldRows'
  BY DEF IInv, TypeOK, RowsHaveOwners, WorkersHoldRows, ReadClock,
         KeyOf, RowOf, Owns, Working, Ended
<1>5. OverranHaveWorked'
  BY DEF IInv, TypeOK, OverranHaveWorked, ReadClock, Working
<1>6. EffectsHoldRows'
  BY DEF IInv, TypeOK, RowsHaveOwners, WorkersHoldRows, EffectsHoldRows,
         ReadClock, KeyOf, RowOf, Owns, Excused, Working, Ended
<1>7. OnlyReturnedHaveOutcome'
  BY DEF IInv, TypeOK, RowsHaveOwners, OnlyReturnedHaveOutcome, ReadClock, RowOf, KeyOf,
         Working, Ended
<1> QED
  BY <1>1, <1>2, <1>3, <1>4, <1>5, <1>6, <1>7 DEF IInv

(* A call that is turned away leaves every row as it is. *)
LEMMA TurnedAwayKeepsInv ==
  ASSUME IInv, NEW c \in Call, Mismatch(c) \/ Replay(c) \/ Wait(c)
  PROVE  IInv'
<1> USE LeaseAssumption, NoneAssumption
<1>1. TypeOK'
  BY DEF IInv, TypeOK, Mismatch, Replay, Wait, KeyOf, PrintOf, RowOf, Working, Ended
<1>2. ReadingsArePast'
  BY DEF IInv, TypeOK, ReadingsArePast, Mismatch, Replay, Wait
<1>3. RowsHaveOwners'
  BY DEF IInv, TypeOK, RowsHaveOwners, WorkersHoldRows, Mismatch, Replay, Wait,
         KeyOf, PrintOf, RowOf, Owns, Working, Ended
<1>4. WorkersHoldRows'
  BY DEF IInv, TypeOK, RowsHaveOwners, WorkersHoldRows, Mismatch, Replay, Wait,
         KeyOf, RowOf, Owns, Working, Ended
<1>5. OverranHaveWorked'
  BY DEF IInv, TypeOK, OverranHaveWorked, Mismatch, Replay, Wait, Working
<1>6. EffectsHoldRows'
  BY DEF IInv, TypeOK, RowsHaveOwners, WorkersHoldRows, EffectsHoldRows,
         Mismatch, Replay, Wait, KeyOf, RowOf, Owns, Excused, Working, Ended
<1>7. OnlyReturnedHaveOutcome'
  BY DEF IInv, TypeOK, RowsHaveOwners, OnlyReturnedHaveOutcome, Mismatch, Replay, Wait, RowOf, KeyOf,
         Working, Ended
<1> QED
  BY <1>1, <1>2, <1>3, <1>4, <1>5, <1>6, <1>7 DEF IInv

(* An effect is new only to a call that works. *)
LEMMA PerformKeepsInv ==
  ASSUME IInv, NEW c \in Call, Perform(c)
  PROVE  IInv'
<1> USE LeaseAssumption, NoneAssumption
<1>1. TypeOK'
  BY DEF IInv, TypeOK, Perform, KeyOf, PrintOf, RowOf, Working, Ended
<1>2. ReadingsArePast'
  BY DEF IInv, TypeOK, ReadingsArePast, Perform
<1>3. RowsHaveOwners'
  BY DEF IInv, TypeOK, RowsHaveOwners, WorkersHoldRows, Perform,
         KeyOf, PrintOf, RowOf, Owns, Working, Ended
<1>4. WorkersHoldRows'
  BY DEF IInv, TypeOK, RowsHaveOwners, WorkersHoldRows, Perform,
         KeyOf, RowOf, Owns, Working, Ended
<1>5. OverranHaveWorked'
  BY DEF IInv, TypeOK, OverranHaveWorked, Perform, Working
<1>6. EffectsHoldRows'
  BY DEF IInv, TypeOK, RowsHaveOwners, WorkersHoldRows, EffectsHoldRows,
         Perform, KeyOf, RowOf, Owns, Excused, Working, Ended
<1>7. OnlyReturnedHaveOutcome'
  BY DEF IInv, TypeOK, RowsHaveOwners, OnlyReturnedHaveOutcome, Perform, RowOf, KeyOf,
         Working, Ended
<1> QED
  BY <1>1, <1>2, <1>3, <1>4, <1>5, <1>6, <1>7 DEF IInv

(* A completed row stands for the call that completed it. *)
LEMMA CompleteKeepsInv ==
  ASSUME IInv, NEW c \in Call, Complete(c)
  PROVE  IInv'
<1> USE LeaseAssumption, NoneAssumption
<1>1. TypeOK'
  BY DEF IInv, TypeOK, Complete, Absent, Completed, KeyOf, PrintOf, RowOf, Working, Ended
<1>2. ReadingsArePast'
  BY DEF IInv, TypeOK, ReadingsArePast, Complete, Absent, Completed
<1>3. RowsHaveOwners'
  BY DEF IInv, TypeOK, RowsHaveOwners, WorkersHoldRows, Complete, Absent, Completed,
         KeyOf, PrintOf, RowOf, Owns, Working, Ended
<1>4. WorkersHoldRows'
  BY DEF IInv, TypeOK, RowsHaveOwners, WorkersHoldRows, Complete, Absent, Completed,
         KeyOf, RowOf, Owns, Working, Ended
<1>5. OverranHaveWorked'
  BY DEF IInv, TypeOK, OverranHaveWorked, Complete, Absent, Completed, Working
<1>6. EffectsHoldRows'
  BY DEF IInv, TypeOK, RowsHaveOwners, WorkersHoldRows, EffectsHoldRows,
         Complete, Absent, Completed, KeyOf, RowOf, Owns, Excused, Working, Ended
<1>7. OnlyReturnedHaveOutcome'
  BY DEF IInv, TypeOK, RowsHaveOwners, OnlyReturnedHaveOutcome, Complete, Absent, Completed, RowOf, KeyOf,
         Working, Ended
<1> QED
  BY <1>1, <1>2, <1>3, <1>4, <1>5, <1>6, <1>7 DEF IInv

(* A call that gives up, or dies, is excused and leaves its row. *)
LEMMA GiveUpKeepsInv ==
  ASSUME IInv, NEW c \in Call, OperationRaises(c) \/ LeaseLost(c) \/ Crash(c)
  PROVE  IInv'
<1> USE LeaseAssumption, NoneAssumption
<1>1. TypeOK'
  BY DEF IInv, TypeOK, OperationRaises, LeaseLost, Crash, KeyOf, PrintOf, RowOf, Working, Ended
<1>2. ReadingsArePast'
  BY DEF IInv, TypeOK, ReadingsArePast, OperationRaises, LeaseLost, Crash
<1>3. RowsHaveOwners'
  BY DEF IInv, TypeOK, RowsHaveOwners, WorkersHoldRows, OperationRaises, LeaseLost, Crash,
         KeyOf, PrintOf, RowOf, Owns, Working, Ended
<1>4. WorkersHoldRows'
  BY DEF IInv, TypeOK, RowsHaveOwners, WorkersHoldRows, OperationRaises, LeaseLost, Crash,
         KeyOf, RowOf, Owns, Working, Ended
<1>5. OverranHaveWorked'
  BY DEF IInv, TypeOK, OverranHaveWorked, OperationRaises, LeaseLost, Crash, Working
<1>6. EffectsHoldRows'
  BY DEF IInv, TypeOK, RowsHaveOwners, WorkersHoldRows, EffectsHoldRows,
         OperationRaises, LeaseLost, Crash, KeyOf, RowOf, Owns, Excused, Working, Ended
<1>7. OnlyReturnedHaveOutcome'
  BY DEF IInv, TypeOK, RowsHaveOwners, OnlyReturnedHaveOutcome, OperationRaises, LeaseLost, Crash, RowOf, KeyOf,
         Working, Ended
<1> QED
  BY <1>1, <1>2, <1>3, <1>4, <1>5, <1>6, <1>7 DEF IInv

(* Only the owner's row is deleted. *)
LEMMA ReleaseKeepsInv ==
  ASSUME IInv, NEW c \in Call, Release(c)
  PROVE  IInv'
<1> USE LeaseAssumption, NoneAssumption
<1>1. TypeOK'
  BY DEF IInv, TypeOK, Release, Absent, KeyOf, PrintOf, RowOf, Working, Ended
<1>2. ReadingsArePast'
  BY DEF IInv, TypeOK, ReadingsArePast, Release, Absent
<1>3. RowsHaveOwners'
  BY DEF IInv, TypeOK, RowsHaveOwners, WorkersHoldRows, Release, Absent,
         KeyOf, PrintOf, RowOf, Owns, Working, Ended
<1>4. WorkersHoldRows'
  BY DEF IInv, TypeOK, RowsHaveOwners, WorkersHoldRows, Release, Absent,
         KeyOf, RowOf, Owns, Working, Ended
<1>5. OverranHaveWorked'
  BY DEF IInv, TypeOK, OverranHaveWorked, Release, Absent, Working
<1>6. EffectsHoldRows'
  BY DEF IInv, TypeOK, RowsHaveOwners, WorkersHoldRows, EffectsHoldRows,
         Release, Absent, KeyOf, RowOf, Owns, Excused, Working, Ended
<1>7. OnlyReturnedHaveOutcome'
  BY DEF IInv, TypeOK, RowsHaveOwners, OnlyReturnedHaveOutcome, Release, Absent, RowOf, KeyOf,
         Working, Ended
<1> QED
  BY <1>1, <1>2, <1>3, <1>4, <1>5, <1>6, <1>7 DEF IInv

(* Time only turns working calls into overrunning ones. *)
LEMMA TickKeepsInv ==
  ASSUME IInv, Tick
  PROVE  IInv'
<1> USE LeaseAssumption, NoneAssumption
<1>1. TypeOK'
  BY DEF IInv, TypeOK, Tick, KeyOf, PrintOf, RowOf, Working, Ended
<1>2. ReadingsArePast'
  BY DEF IInv, TypeOK, ReadingsArePast, Tick
<1>3. RowsHaveOwners'
  BY DEF IInv, TypeOK, RowsHaveOwners, WorkersHoldRows, Tick,
         KeyOf, PrintOf, RowOf, Owns, Working, Ended
<1>4. WorkersHoldRows'
  BY DEF IInv, TypeOK, RowsHaveOwners, WorkersHoldRows, Tick,
         KeyOf, RowOf, Owns, Working, Ended
<1>5. OverranHaveWorked'
  BY DEF IInv, TypeOK, OverranHaveWorked, Tick, Working
<1>6. EffectsHoldRows'
  BY DEF IInv, TypeOK, RowsHaveOwners, WorkersHoldRows, EffectsHoldRows,
         Tick, KeyOf, RowOf, Owns, Excused, Working, Ended
<1>7. OnlyReturnedHaveOutcome'
  BY DEF IInv, TypeOK, RowsHaveOwners, OnlyReturnedHaveOutcome, Tick, RowOf, KeyOf,
         Working, Ended
<1> QED
  BY <1>1, <1>2, <1>3, <1>4, <1>5, <1>6, <1>7 DEF IInv

LEMMA NextKeepsInv == IInv /\ [Next]_vars => IInv'
<1> SUFFICES ASSUME IInv, [Next]_vars PROVE IInv'
  OBVIOUS
<1>1. ASSUME NEW c \in Call, Step(c) \/ OperationRaises(c) \/ Crash(c)
      PROVE  IInv'
  BY <1>1, ReadKeepsInv, ClaimKeepsInv, TurnedAwayKeepsInv, PerformKeepsInv,
     CompleteKeepsInv, GiveUpKeepsInv, ReleaseKeepsInv
  DEF Step
<1>2. CASE Tick
  BY <1>2, TickKeepsInv
<1>3. CASE UNCHANGED vars
  BY <1>3 DEF vars, IInv, TypeOK, ReadingsArePast, RowsHaveOwners, WorkersHoldRows,
              OverranHaveWorked, EffectsHoldRows, OnlyReturnedHaveOutcome, Excused,
              Owns, RowOf, KeyOf, PrintOf
<1> QED
  BY <1>1, <1>2, <1>3 DEF Next

THEOREM Invariance == Spec => []IInv
  BY InitInv, NextKeepsInv, PTL DEF Spec

(* The ledger's rows, clock and call records keep their types. *)
THEOREM TypeCorrect == Spec => []TypeOK
<1>1. IInv => TypeOK
  BY DEF IInv
<1> QED
  BY <1>1, Invariance, PTL

(* Two effects for one key need an excuse: two calls without one would     *)
(* both be what the key's single row stands for.                           *)
THEOREM EffectOnce == Spec => []ExecuteOnce
<1>1. IInv => ExecuteOnce
  <2> SUFFICES ASSUME IInv, NEW c \in effects, NEW d \in effects,
                      c # d, KeyOf(c) = KeyOf(d), ~Excused(c), ~Excused(d)
               PROVE  FALSE
    BY DEF ExecuteOnce
  <2>1. RowOf(c) = RowOf(d)
    BY DEF RowOf
  <2>2. /\ Owns(c) \/ (RowOf(c).status = "COMPLETED" /\ RowOf(c).result = c)
        /\ Owns(d) \/ (RowOf(c).status = "COMPLETED" /\ RowOf(c).result = d)
    BY <2>1 DEF IInv, EffectsHoldRows
  <2> QED
    BY <2>1, <2>2 DEF Owns
<1> QED
  BY <1>1, Invariance, PTL

(* Nobody takes a live lease away from a call that works under it. *)
THEOREM LeaseKept == Spec => []LiveLeaseIsKept
<1>1. IInv => LiveLeaseIsKept
  BY DEF IInv, WorkersHoldRows, LiveLeaseIsKept
<1> QED
  BY <1>1, Invariance, PTL

-------------------------------------------------------------------------------
(* The refinement: completing a row decides its key, replaying it repeats  *)
(* the decision, and nothing else is visible to OnceResult.                *)

LEMMA InitImplements == Init => Promise!Init
  BY DEF Init, Promise!Init, Absent

LEMMA StepImplements == IInv /\ [Next]_vars => [Promise!Next]_(Promise!vars)
<1> SUFFICES ASSUME IInv, [Next]_vars
             PROVE  Promise!Next \/ UNCHANGED Promise!vars
  OBVIOUS
<1> USE NoneAssumption
<1>1. ASSUME NEW c \in Call, Complete(c) PROVE Promise!Decide(c)
  <2>1. /\ row[KeyOf(c)].result = None /\ outcome[c] = None
    BY <1>1 DEF Complete, Owns, RowOf, IInv, RowsHaveOwners,
                OnlyReturnedHaveOutcome, TypeOK, KeyOf
  <2>2. [k \in Key |-> row'[k].result]
          = [[k \in Key |-> row[k].result] EXCEPT ![request[c].key] = c]
    BY <1>1 DEF Complete, Completed, KeyOf, IInv, TypeOK
  <2> QED
    BY <1>1, <2>1, <2>2 DEF Complete, Promise!Decide, KeyOf, IInv, TypeOK
<1>2. ASSUME NEW c \in Call, Replay(c) PROVE Promise!Repeat(c)
  <2>1. PICK d \in Call : /\ RowOf(c).result = d
                          /\ request[d] = request[c]
    BY <1>2 DEF Replay, IInv, RowsHaveOwners, RowOf, KeyOf, PrintOf, TypeOK
  <2>2. outcome[c] = None
    BY <1>2 DEF Replay, IInv, OnlyReturnedHaveOutcome
  <2> QED
    BY <1>2, <2>1, <2>2 DEF Replay, Promise!Repeat, RowOf, KeyOf, IInv, TypeOK
<1>3. ASSUME NEW c \in Call,
             ReadClock(c) \/ Mismatch(c) \/ Wait(c) \/ Perform(c) \/ LeaseLost(c)
               \/ OperationRaises(c) \/ Crash(c)
      PROVE  UNCHANGED Promise!vars
  BY <1>3 DEF ReadClock, Mismatch, Wait, Perform, LeaseLost, OperationRaises, Crash,
              Promise!vars
<1>4. ASSUME NEW c \in Call, Insert(c) \/ TakeOver(c) \/ Release(c)
      PROVE  UNCHANGED Promise!vars
  <2>1. /\ request' = request /\ outcome' = outcome
        /\ \A k \in Key : row'[k].result = row[k].result
    BY <1>4 DEF Insert, TakeOver, TakeLease, Release, Pending, Absent, Owns, RowOf,
                KeyOf, IInv, TypeOK, RowsHaveOwners
  <2> QED
    BY <2>1 DEF Promise!vars
<1>5. CASE Tick
  BY <1>5 DEF Tick, Promise!vars
<1>6. CASE UNCHANGED vars
  BY <1>6 DEF vars, Promise!vars
<1> QED
  BY <1>1, <1>2, <1>3, <1>4, <1>5, <1>6 DEF Next, Step, Promise!Next

(* One result per key, returned only to calls that made the same request. *)
THEOREM Implementation == Spec => ImplementsPromise
  BY InitImplements, StepImplements, Invariance, PTL
  DEF Spec, ImplementsPromise, Promise!Spec

-------------------------------------------------------------------------------
(* The entries of one process (ThreadLedger). *)

(* An entry is as its status says: absent, somebody's work, or a result of *)
(* a call that made the entry's request.                                   *)
EntriesAreSound ==
  \A k \in ThreadKey :
    /\ entry[k].status = "ABSENT" => entry[k] = T!Absent
    /\ entry[k].status = "PENDING" =>
         /\ entry[k].result = None
         /\ \E c \in Call : asked[c].key = k /\ at[c] \in Working
    /\ entry[k].status = "COMPLETED" =>
         /\ entry[k].result \in Call
         /\ asked[entry[k].result] = [key |-> k, print |-> entry[k].print]

(* Who is at work wrote its request into the entry; only who returned has  *)
(* an outcome; what took effect is still at work, was returned, or raised. *)
CallsAreAsTheyStand ==
  \A c \in Call :
    /\ at[c] \in Working => entry[asked[c].key].print = asked[c].print
    /\ at[c] # "returned" => got[c] = None
    /\ c \in done => /\ at[c] \in {"performed", "returned", "raised"}
                     /\ at[c] = "returned" => /\ entry[asked[c].key].status = "COMPLETED"
                                              /\ entry[asked[c].key].result = c

TInv ==
  /\ T!TypeOK
  /\ T!WorkOwnsEntry
  /\ T!NobodyOversleeps
  /\ T!EffectOnce
  /\ EntriesAreSound
  /\ CallsAreAsTheyStand

(* The enclosing calls of a thread. *)
LEMMA FrontIsSequence ==
  ASSUME NEW s \in Seq(Call)
  PROVE  T!Front(s) \in Seq(Call)
<1>1. CASE s = <<>>
  <2>1. T!Front(s) = <<>>
    BY <1>1 DEF T!Front
  <2> QED
    BY <2>1
<1>2. CASE s # <<>>
  <2>1. Len(s) - 1 \in 0..Len(s) /\ Len(s) \in Nat
    BY <1>2
  <2> QED
    BY <2>1, SubSeqProperties DEF T!Front
<1> QED
  BY <1>1, <1>2

LEMMA EntryTypes ==
  ASSUME T!TypeOK, NEW c \in Call
  PROVE  /\ asked[c].key \in ThreadKey /\ asked[c].print \in Fingerprint
         /\ asked[c] = [key |-> asked[c].key, print |-> asked[c].print]
         /\ thread[c] \in Thread
         /\ T!EntryOf(c) = entry[asked[c].key]
         /\ entry[asked[c].key] \in [status: {"ABSENT", "PENDING", "COMPLETED"},
                                     print: Fingerprint \cup {None},
                                     owner: Thread \cup {None}, result: Call \cup {None}]
  BY DEF T!TypeOK, T!EntryOf

LEMMA ThreadsInitInv == T!Init => TInv
<1> SUFFICES ASSUME T!Init PROVE TInv
  OBVIOUS
<1>1. T!TypeOK
  BY DEF T!Init, T!TypeOK, T!Absent
<1> QED
  BY <1>1
  DEF T!Init, TInv, T!WorkOwnsEntry, T!NobodyOversleeps, T!EffectOnce, T!EntryOf, T!Absent,
      EntriesAreSound, CallsAreAsTheyStand, Working

(* Steps of a call that is not at work and does not get to work leave the  *)
(* entries, the effects and the others as they are.                        *)
LEMMA BystandersKeepInv ==
  ASSUME TInv, NEW c \in Call, at[c] \in {"idle", "claiming"},
         NEW how \in {"claiming", "waiting", "conflict", "reentry"},
         at' = [at EXCEPT ![c] = how],
         how = "waiting" => T!EntryOf(c).status = "PENDING" /\ T!EntryOf(c).owner # thread[c],
         stack' \in [Thread -> Seq(Call)],
         UNCHANGED <<entry, asked, thread, got, done>>
  PROVE  TInv'
<1>1. \A d \in Call : at'[d] = IF d = c THEN how ELSE at[d]
  BY DEF TInv, T!TypeOK
<1>2. T!TypeOK'
  BY DEF TInv, T!TypeOK, T!Ended
<1>3. \A d \in Call : at'[d] \in Working <=> at[d] \in Working
  BY <1>1 DEF Working
<1>4. T!WorkOwnsEntry'
  BY <1>3 DEF TInv, T!WorkOwnsEntry, T!EntryOf, Working
<1>5. T!NobodyOversleeps'
  <2>1. ASSUME how = "waiting"
        PROVE  \E d \in Call : asked[d].key = asked[c].key /\ thread[d] # thread[c]
                               /\ at[d] \in Working
    <3>1. PICK d \in Call : asked[d].key = asked[c].key /\ at[d] \in Working
      <4>1. asked[c].key \in ThreadKey /\ entry[asked[c].key].status = "PENDING"
        BY <2>1, EntryTypes DEF TInv, T!EntryOf
      <4> QED
        BY <4>1 DEF TInv, EntriesAreSound
    <3>2. thread[d] = entry[asked[d].key].owner
      BY <3>1 DEF TInv, T!WorkOwnsEntry, T!EntryOf, Working
    <3> QED
      BY <2>1, <3>1, <3>2 DEF T!EntryOf
  <2> QED
    BY <1>1, <1>3, <2>1 DEF TInv, T!NobodyOversleeps, Working
<1>6. T!EffectOnce'
  BY <1>1 DEF TInv, T!EffectOnce
<1>7. EntriesAreSound'
  BY <1>3 DEF TInv, EntriesAreSound
<1>8. CallsAreAsTheyStand'
  BY <1>1, <1>3 DEF TInv, CallsAreAsTheyStand
<1> QED
  BY <1>2, <1>4, <1>5, <1>6, <1>7, <1>8 DEF TInv

LEMMA StartKeepsInv ==
  ASSUME TInv, NEW c \in Call, T!Start(c) \/ T!Wait(c) \/ T!Conflict(c) \/ T!Reentry(c)
  PROVE  TInv'
<1>1. /\ stack \in [Thread -> Seq(Call)] /\ thread[c] \in Thread
      /\ stack[thread[c]] \in Seq(Call)
      /\ Append(stack[thread[c]], c) \in Seq(Call)
      /\ T!Front(stack[thread[c]]) \in Seq(Call)
  BY FrontIsSequence DEF TInv, T!TypeOK
<1>2. CASE T!Start(c)
  BY <1>1, <1>2, BystandersKeepInv DEF T!Start
<1>3. CASE T!Wait(c)
  BY <1>1, <1>3, BystandersKeepInv DEF T!Wait
<1>4. CASE T!Conflict(c)
  BY <1>1, <1>4, BystandersKeepInv DEF T!Conflict, T!Leave
<1>5. CASE T!Reentry(c)
  BY <1>1, <1>5, BystandersKeepInv DEF T!Reentry, T!Leave
<1> QED
  BY <1>2, <1>3, <1>4, <1>5

(* A claim of an absent entry: nobody is at work for the key, or sleeps. *)
LEMMA InsertKeepsInv ==
  ASSUME TInv, NEW c \in Call, T!Insert(c)
  PROVE  TInv'
<1> DEFINE k == asked[c].key
           new == [status |-> "PENDING", print |-> asked[c].print,
                   owner |-> thread[c], result |-> None]
<1>1. /\ at[c] = "claiming" /\ entry[k] = T!Absent
      /\ entry' = [entry EXCEPT ![k] = new] /\ at' = [at EXCEPT ![c] = "running"]
      /\ UNCHANGED <<asked, thread, stack, got, done>>
  BY DEF T!Insert, T!EntryOf
<1>0. k \in ThreadKey /\ thread[c] \in Thread /\ asked[c].print \in Fingerprint
  BY EntryTypes DEF TInv
<1>2. /\ k \in ThreadKey /\ thread[c] \in Thread /\ asked[c].print \in Fingerprint
      /\ new.status = "PENDING" /\ new.owner = thread[c] /\ new.print = asked[c].print
      /\ new.result = None
      /\ entry[k].status = "ABSENT" /\ entry[k].status # "PENDING" /\ entry[k].status # "COMPLETED"
  BY <1>0, <1>1 DEF T!Absent
<1>3. /\ \A d \in Call : at'[d] = IF d = c THEN "running" ELSE at[d]
      /\ \A j \in ThreadKey : entry'[j] = IF j = k THEN new ELSE entry[j]
      /\ \A d \in Call : asked[d].key \in ThreadKey
  BY <1>1, <1>2, EntryTypes DEF TInv, T!TypeOK
<1>4. T!TypeOK'
  BY <1>1, <1>2 DEF TInv, T!TypeOK
<1> HIDE DEF k, new
<1>5. \A d \in Call : asked[d].key = k => at[d] \notin Working
  BY <1>1, <1>2 DEF TInv, T!WorkOwnsEntry, T!EntryOf, Working
<1>6. T!WorkOwnsEntry'
  BY <1>1, <1>2, <1>3, <1>5 DEF TInv, T!WorkOwnsEntry, T!EntryOf, Working, k
<1>7. T!NobodyOversleeps'
  BY <1>1, <1>3 DEF TInv, T!NobodyOversleeps
<1>8. T!EffectOnce'
  BY <1>1, <1>3 DEF TInv, T!EffectOnce
<1>9. EntriesAreSound'
  BY <1>1, <1>2, <1>3 DEF TInv, EntriesAreSound, Working, k
<1>10. CallsAreAsTheyStand'
  BY <1>1, <1>2, <1>3, <1>5 DEF TInv, CallsAreAsTheyStand, Working, k
<1> QED
  BY <1>4, <1>6, <1>7, <1>8, <1>9, <1>10 DEF TInv

(* A replayed result was decided for this very request. *)
LEMMA ReplayKeepsInv ==
  ASSUME TInv, NEW c \in Call, T!Replay(c)
  PROVE  TInv'
<1> DEFINE k == asked[c].key
           r == entry[k].result
<1>1. /\ at[c] = "claiming" /\ entry[k].status = "COMPLETED" /\ entry[k].print = asked[c].print
      /\ got' = [got EXCEPT ![c] = r] /\ at' = [at EXCEPT ![c] = "returned"]
      /\ stack' = [stack EXCEPT ![thread[c]] = T!Front(stack[thread[c]])]
      /\ UNCHANGED <<entry, asked, thread, done>>
  BY DEF T!Replay, T!EntryOf, T!Leave
<1>2. k \in ThreadKey /\ r \in Call
  BY <1>1, EntryTypes DEF TInv, EntriesAreSound
<1>3. T!Front(stack[thread[c]]) \in Seq(Call)
  BY FrontIsSequence DEF TInv, T!TypeOK
<1>4. /\ \A d \in Call : at'[d] = IF d = c THEN "returned" ELSE at[d]
      /\ \A d \in Call \ {c} : got'[d] = got[d]
      /\ \A d \in Call : at'[d] \in Working <=> at[d] \in Working
      /\ c \notin done
  BY <1>1 DEF TInv, T!TypeOK, Working, CallsAreAsTheyStand
<1>5. T!TypeOK'
  BY <1>1, <1>2, <1>3 DEF TInv, T!TypeOK, T!Ended
<1>6. T!WorkOwnsEntry' /\ EntriesAreSound'
  BY <1>1, <1>4 DEF TInv, T!WorkOwnsEntry, T!EntryOf, Working, EntriesAreSound
<1>7. T!NobodyOversleeps'
  BY <1>1, <1>4 DEF TInv, T!NobodyOversleeps, Working
<1>8. T!EffectOnce' /\ CallsAreAsTheyStand'
  BY <1>1, <1>4 DEF TInv, T!EffectOnce, CallsAreAsTheyStand
<1> QED
  BY <1>5, <1>6, <1>7, <1>8 DEF TInv

(* An effect is the first of its key, unless an earlier call raised. *)
LEMMA EffectKeepsInv ==
  ASSUME TInv, NEW c \in Call, T!Perform(c)
  PROVE  TInv'
<1>1. /\ at[c] = "running" /\ at' = [at EXCEPT ![c] = "performed"]
      /\ done' = done \cup {c}
      /\ UNCHANGED <<entry, asked, thread, stack, got>>
  BY DEF T!Perform
<1>2. /\ \A d \in Call : at'[d] = IF d = c THEN "performed" ELSE at[d]
      /\ \A d \in Call : at'[d] \in Working <=> at[d] \in Working
      /\ done \subseteq Call
  BY <1>1 DEF TInv, T!TypeOK, Working
<1>3. T!TypeOK'
  BY <1>1 DEF TInv, T!TypeOK
<1>4. T!WorkOwnsEntry' /\ EntriesAreSound'
  BY <1>1, <1>2 DEF TInv, T!WorkOwnsEntry, T!EntryOf, Working, EntriesAreSound
<1>5. T!NobodyOversleeps'
  BY <1>1, <1>2 DEF TInv, T!NobodyOversleeps, Working
<1>6. T!EffectOnce'
  <2>1. ASSUME NEW d \in done, d # c, asked[d].key = asked[c].key PROVE at[d] = "raised"
    <3>1. entry[asked[c].key].status = "PENDING" /\ at[d] \notin Working
      BY <1>1, <1>2, <2>1 DEF TInv, T!WorkOwnsEntry, T!EntryOf, Working
    <3> QED
      BY <1>2, <2>1, <3>1 DEF TInv, CallsAreAsTheyStand, Working
  <2>2. \A d \in done : d # c /\ asked[d].key = asked[c].key => at'[d] = "raised"
    BY <1>2, <2>1
  <2>3. \A d, e \in done : d # c /\ e # c /\ d # e /\ asked[d].key = asked[e].key
                             => "raised" \in {at'[d], at'[e]}
    BY <1>2 DEF TInv, T!EffectOnce
  <2> QED
    BY <1>1, <2>2, <2>3 DEF T!EffectOnce
<1>7. CallsAreAsTheyStand'
  BY <1>1, <1>2 DEF TInv, CallsAreAsTheyStand
<1> QED
  BY <1>3, <1>4, <1>5, <1>6, <1>7 DEF TInv

(* Work is over: the entry is deleted, or keeps the result, and everybody  *)
(* who slept looks again.                                                  *)
LEMMA WorkEndsKeepsInv ==
  ASSUME TInv, NEW c \in Call, at[c] \in Working,
         NEW how \in {"raised", "returned"}, T!NotifyAll(c, how),
         NEW new, entry' = [entry EXCEPT ![asked[c].key] = new],
         how = "raised" => new = T!Absent /\ got' = got,
         how = "returned" => /\ at[c] = "performed"
                             /\ new = [status |-> "COMPLETED", print |-> asked[c].print,
                                       owner |-> thread[c], result |-> c]
                             /\ got' = [got EXCEPT ![c] = c],
         UNCHANGED <<asked, thread, done>>
  PROVE  TInv'
<1> DEFINE k == asked[c].key
<1>1. k \in ThreadKey /\ asked[c].print \in Fingerprint /\ thread[c] \in Thread
      /\ asked[c] = [key |-> k, print |-> asked[c].print]
  BY EntryTypes DEF TInv
<1>2. /\ \A d \in Call : at'[d] = IF d = c THEN how
                                  ELSE IF at[d] = "waiting" THEN "claiming" ELSE at[d]
      /\ \A d \in Call \ {c} : got'[d] = got[d]
      /\ \A j \in ThreadKey : entry'[j] = IF j = k THEN new ELSE entry[j]
      /\ \A d \in Call : asked[d].key \in ThreadKey
  BY EntryTypes DEF TInv, T!TypeOK, T!NotifyAll
<1>3. /\ \A d \in Call : d # c => (at'[d] \in Working <=> at[d] \in Working)
      /\ at'[c] \notin Working
      /\ \A d \in Call : d # c /\ asked[d].key = k => at[d] \notin Working
  BY <1>2 DEF TInv, T!WorkOwnsEntry, Working
<1>4. T!TypeOK'
  <2>1. at' \in [Call -> {"idle", "claiming", "waiting", "running", "performed"} \cup T!Ended]
    BY DEF TInv, T!TypeOK, T!NotifyAll, T!Ended
  <2>2. stack' \in [Thread -> Seq(Call)]
    <3>1. T!Front(stack[thread[c]]) \in Seq(Call)
      BY <1>1, FrontIsSequence DEF TInv, T!TypeOK
    <3> QED
      BY <3>1 DEF TInv, T!TypeOK, T!NotifyAll
  <2>3. got' \in [Call -> Call \cup {None}]
    BY DEF TInv, T!TypeOK
  <2>4. entry' \in [ThreadKey -> [status: {"ABSENT", "PENDING", "COMPLETED"},
                                  print: Fingerprint \cup {None},
                                  owner: Thread \cup {None}, result: Call \cup {None}]]
    BY <1>1 DEF TInv, T!TypeOK, T!Absent
  <2> QED
    BY <2>1, <2>2, <2>3, <2>4 DEF TInv, T!TypeOK
<1>5. T!WorkOwnsEntry'
  BY <1>1, <1>2, <1>3 DEF TInv, T!WorkOwnsEntry, T!EntryOf, Working
<1>6. T!NobodyOversleeps'
  BY <1>2 DEF T!NobodyOversleeps
<1>7. T!EffectOnce'
  <2>1. \A d \in done : d # c /\ asked[d].key = k => at[d] = "raised" /\ at'[d] = "raised"
    <3>1. entry[k].status = "PENDING" /\ done \subseteq Call
      BY DEF TInv, T!TypeOK, T!WorkOwnsEntry, T!EntryOf, Working
    <3> QED
      BY <1>2, <1>3, <3>1 DEF TInv, CallsAreAsTheyStand, Working
  <2>2. \A d, e \in done : d # c /\ e # c /\ d # e /\ asked[d].key = asked[e].key
                             => "raised" \in {at'[d], at'[e]}
    <3>1. \A d \in done : d # c /\ at[d] = "raised" => at'[d] = "raised"
      BY <1>2 DEF TInv, T!TypeOK
    <3> QED
      BY <3>1 DEF TInv, T!EffectOnce
  <2> QED
    BY <2>1, <2>2 DEF T!EffectOnce
<1>8. EntriesAreSound'
  <2> SUFFICES ASSUME NEW j \in ThreadKey PROVE EntriesAreSound!(j)'
    BY DEF EntriesAreSound
  <2>1. CASE j = k
    BY <1>1, <1>2, <2>1 DEF T!Absent
  <2>2. CASE j # k
    BY <1>2, <1>3, <2>2 DEF TInv, EntriesAreSound
  <2> QED
    BY <2>1, <2>2
<1>9. CallsAreAsTheyStand'
  <2> SUFFICES ASSUME NEW d \in Call PROVE CallsAreAsTheyStand!(d)'
    BY DEF CallsAreAsTheyStand
  <2>1. CASE d = c
    <3>1. at'[c] = how /\ entry'[k] = new /\ asked' = asked /\ done' = done
      BY <1>1, <1>2
    <3>2. CASE how = "raised"
      <4>1. got'[c] = None
        BY <3>2 DEF TInv, CallsAreAsTheyStand, Working
      <4> QED
        BY <1>3, <2>1, <3>1, <3>2, <4>1
    <3>3. CASE how = "returned"
      BY <1>3, <2>1, <3>1, <3>3
    <3> QED
      BY <3>2, <3>3
  <2>2. CASE d # c
    <3>1. /\ entry[k].status = "PENDING"
          /\ d \in done /\ at[d] = "returned" => asked[d].key # k
      BY DEF TInv, T!WorkOwnsEntry, T!EntryOf, Working, CallsAreAsTheyStand
    <3> QED
      BY <1>1, <1>2, <1>3, <2>2, <3>1 DEF TInv, CallsAreAsTheyStand
  <2> QED
    BY <2>1, <2>2
<1> QED
  BY <1>4, <1>5, <1>6, <1>7, <1>8, <1>9 DEF TInv

LEMMA EndKeepsInv ==
  ASSUME TInv, NEW c \in Call, T!Complete(c) \/ T!OperationRaises(c)
  PROVE  TInv'
<1> DEFINE k == asked[c].key
<1>1. /\ k \in ThreadKey /\ thread[c] \in Thread
      /\ entry[k] \in [status: {"ABSENT", "PENDING", "COMPLETED"},
                       print: Fingerprint \cup {None},
                       owner: Thread \cup {None}, result: Call \cup {None}]
      /\ T!EntryOf(c) = entry[k]
  BY EntryTypes DEF TInv
<1>2. at[c] \in Working
  BY DEF T!Complete, T!OperationRaises, Working
<1>3. /\ entry[k].status = "PENDING" /\ entry[k].owner = thread[c]
      /\ entry[k].print = asked[c].print /\ entry[k] # T!Absent
  BY <1>1, <1>2
  DEF TInv, T!WorkOwnsEntry, T!EntryOf, Working, CallsAreAsTheyStand, T!Absent
<1>4. CASE T!OperationRaises(c)
  <2>1. entry' = [entry EXCEPT ![k] = T!Absent] /\ T!NotifyAll(c, "raised")
        /\ UNCHANGED <<asked, thread, got, done>>
    BY <1>1, <1>3, <1>4 DEF T!OperationRaises, TInv, T!TypeOK
  <2> QED
    BY <1>2, <2>1, WorkEndsKeepsInv
<1>5. CASE T!Complete(c)
  <2> DEFINE new == [status |-> "COMPLETED", print |-> asked[c].print,
                     owner |-> thread[c], result |-> c]
  <2>1. entry' = [entry EXCEPT ![k] = new]
    <3>1. new = [[entry[k] EXCEPT !.status = "COMPLETED"] EXCEPT !.result = c]
      <4> DEFINE half == [entry[k] EXCEPT !.status = "COMPLETED"]
      <4>1. /\ half = [status |-> "COMPLETED", print |-> asked[c].print, owner |-> thread[c],
                       result |-> entry[k].result]
            /\ half \in [status: {"ABSENT", "PENDING", "COMPLETED"},
                         print: Fingerprint \cup {None},
                         owner: Thread \cup {None}, result: Call \cup {None}]
        BY <1>1, <1>3
      <4> HIDE DEF half
      <4>2. [half EXCEPT !.result = c] = new
        BY <4>1
      <4> QED
        BY <4>2 DEF half
    <3>2. entry' = [entry EXCEPT ![k].status = "COMPLETED", ![k].result = c]
      BY <1>5 DEF T!Complete
    <3>3. DOMAIN entry = ThreadKey /\ entry = [j \in ThreadKey |-> entry[j]]
      BY DEF TInv, T!TypeOK
    <3>4. entry'[k] = [[entry[k] EXCEPT !.status = "COMPLETED"] EXCEPT !.result = c]
      BY <1>1, <3>2, <3>3
    <3>5. \A j \in ThreadKey : j # k => entry'[j] = entry[j]
      BY <3>2, <3>3
    <3>6. entry' = [j \in ThreadKey |-> entry'[j]]
      BY <3>2, <3>3
    <3>7. [entry EXCEPT ![k] = new] = [j \in ThreadKey |-> IF j = k THEN new ELSE entry[j]]
      BY <3>3
    <3> QED
      BY <3>1, <3>4, <3>5, <3>6, <3>7
  <2>2. /\ at[c] = "performed" /\ T!NotifyAll(c, "returned")
        /\ got' = [got EXCEPT ![c] = c] /\ UNCHANGED <<asked, thread, done>>
    BY <1>5 DEF T!Complete
  <2> QED
    BY <1>2, <2>1, <2>2, WorkEndsKeepsInv
<1> QED
  BY <1>4, <1>5

LEMMA ThreadsNextKeepsInv == TInv /\ [T!Next]_(T!vars) => TInv'
<1>1. ASSUME TInv, T!Next PROVE TInv'
  BY <1>1, StartKeepsInv, InsertKeepsInv, ReplayKeepsInv, EffectKeepsInv, EndKeepsInv
  DEF T!Next, T!Step
<1>2. ASSUME TInv, UNCHANGED T!vars PROVE TInv'
  BY <1>2
  DEF T!vars, TInv, T!TypeOK, T!WorkOwnsEntry, T!NobodyOversleeps, T!EffectOnce, T!EntryOf,
      EntriesAreSound, CallsAreAsTheyStand
<1> QED
  BY <1>1, <1>2

LEMMA ThreadsBehaviour == MCSpec => T!Init /\ [][T!Next]_(T!vars)
<1>1. MCInit => T!Init
  BY DEF MCInit
<1>2. [MCNext]_<<part, vars, threadVars, limiterVars>> => [T!Next]_(T!vars)
  BY DEF MCNext, threadVars, T!vars
<1> QED
  BY <1>1, <1>2, PTL DEF MCSpec

LEMMA ThreadsInvariance == MCSpec => []TInv
  BY ThreadsInitInv, ThreadsNextKeepsInv, ThreadsBehaviour, PTL

(* The promise: what a key keeps is decided by the call that completes it, *)
(* and repeated to those that made the same request.                       *)
LEMMA ThreadsPromiseInit == T!Init => T!Promise!Init
  BY DEF T!Init, T!Promise!Init, T!Absent

LEMMA ThreadsPromiseStep ==
  ASSUME TInv, TInv', [T!Next]_(T!vars)
  PROVE  [T!Promise!Next]_(T!Promise!vars)
<1> DEFINE decided  == [k \in ThreadKey |-> entry[k].result]
           decided1 == [k \in ThreadKey |-> entry'[k].result]
<1>1. ASSUME NEW c \in Call, T!Complete(c)
      PROVE  T!Promise!Decide(c)
  <2>1. asked[c].key \in ThreadKey /\ entry[asked[c].key].status = "PENDING"
    BY <1>1, EntryTypes DEF TInv, T!WorkOwnsEntry, T!EntryOf, T!Complete
  <2>2. decided[asked[c].key] = None /\ got[c] = None
    BY <1>1, <2>1 DEF TInv, EntriesAreSound, CallsAreAsTheyStand, T!Complete
  <2>3. decided1 = [decided EXCEPT ![asked[c].key] = c]
    <3>1. \A k \in ThreadKey : entry'[k].result = IF k = asked[c].key THEN c ELSE entry[k].result
      BY <1>1, <2>1 DEF T!Complete, TInv, T!TypeOK
    <3> QED
      BY <3>1
  <2> QED
    BY <1>1, <2>2, <2>3 DEF T!Promise!Decide, T!Complete
<1>2. ASSUME NEW c \in Call, T!Replay(c)
      PROVE  T!Promise!Repeat(c)
  <2>1. /\ asked[c].key \in ThreadKey /\ at[c] = "claiming"
        /\ entry[asked[c].key].status = "COMPLETED"
        /\ entry[asked[c].key].print = asked[c].print
        /\ got' = [got EXCEPT ![c] = entry[asked[c].key].result]
        /\ UNCHANGED <<entry, asked>>
    BY <1>2, EntryTypes DEF TInv, T!Replay, T!EntryOf
  <2>2. /\ entry[asked[c].key].result \in Call
        /\ asked[entry[asked[c].key].result] = asked[c]
        /\ got[c] = None
    <3>1. got[c] = None
      BY <2>1 DEF TInv, CallsAreAsTheyStand
    <3>2. /\ entry[asked[c].key].result \in Call
          /\ asked[entry[asked[c].key].result]
               = [key |-> asked[c].key, print |-> entry[asked[c].key].print]
      BY <2>1 DEF TInv, EntriesAreSound
    <3>3. asked[c] = [key |-> asked[c].key, print |-> asked[c].print]
      BY EntryTypes DEF TInv
    <3> QED
      BY <2>1, <3>1, <3>2, <3>3
  <2>3. decided[asked[c].key] = entry[asked[c].key].result
    BY <2>1
  <2> QED
    BY <2>1, <2>2, <2>3 DEF T!Promise!Repeat
<1>3. ASSUME NEW c \in Call, \/ T!Start(c) \/ T!Insert(c) \/ T!Conflict(c) \/ T!Reentry(c)
                             \/ T!Wait(c) \/ T!Perform(c) \/ T!OperationRaises(c)
      PROVE  UNCHANGED T!Promise!vars
  <2>1. got' = got /\ asked' = asked /\ asked[c].key \in ThreadKey
    BY <1>3, EntryTypes
    DEF TInv, T!Start, T!Insert, T!Conflict, T!Reentry, T!Wait, T!Perform, T!OperationRaises
  <2>2. CASE entry' = entry
    BY <2>1, <2>2 DEF T!Promise!vars
  <2>3. CASE T!Insert(c) \/ T!OperationRaises(c)
    <3>1. entry[asked[c].key].status \in {"ABSENT", "PENDING"}
      <4>1. CASE T!Insert(c)
        BY <4>1 DEF T!Insert, T!EntryOf, T!Absent
      <4>2. CASE T!OperationRaises(c)
        BY <4>2 DEF T!OperationRaises, TInv, T!WorkOwnsEntry, T!EntryOf
      <4> QED
        BY <2>3, <4>1, <4>2
    <3>2. entry[asked[c].key].result = None
      <4>1. T!Absent.result = None
        BY DEF T!Absent
      <4> QED
        BY <2>1, <3>1, <4>1 DEF TInv, EntriesAreSound
    <3>3. entry'[asked[c].key].result = None
      <4>1. CASE T!Insert(c)
        BY <2>1, <4>1 DEF T!Insert, TInv, T!TypeOK
      <4>2. CASE T!OperationRaises(c)
        BY <2>1, <3>2, <4>2 DEF T!OperationRaises, TInv, T!TypeOK, T!Absent
      <4> QED
        BY <2>3, <4>1, <4>2
    <3>4. \A k \in ThreadKey : k # asked[c].key => entry'[k] = entry[k]
      BY <2>3 DEF T!Insert, T!OperationRaises, TInv, T!TypeOK
    <3>5. \A k \in ThreadKey : entry'[k].result = entry[k].result
      BY <3>2, <3>3, <3>4
    <3>6. decided1 = decided
      BY <3>5
    <3> QED
      BY <2>1, <3>6 DEF T!Promise!vars
  <2> QED
    BY <1>3, <2>2, <2>3 DEF T!Start, T!Conflict, T!Reentry, T!Wait, T!Perform
<1>4. CASE UNCHANGED T!vars
  BY <1>4 DEF T!vars, T!Promise!vars
<1> QED
  BY <1>1, <1>2, <1>3, <1>4 DEF T!Next, T!Step, T!Promise!Next

(* The threads of one process take turns at a key: who is at work owns its *)
(* entry, nobody sleeps without somebody at work, an operation takes       *)
(* effect once unless it raised, and OnceResult is implemented.            *)
THEOREM ThreadsKeepTurns == MCSpec => ThreadsTakeTurns
<1>1. TInv => T!TypeOK /\ T!WorkOwnsEntry /\ T!NobodyOversleeps /\ T!EffectOnce
  BY DEF TInv
<1>2. TInv /\ TInv' /\ [T!Next]_(T!vars) => [T!Promise!Next]_(T!Promise!vars)
  BY ThreadsPromiseStep
<1>3. MCSpec => T!ImplementsPromise
  BY <1>2, ThreadsPromiseInit, ThreadsInvariance, ThreadsBehaviour, PTL
  DEF T!ImplementsPromise, T!Promise!Spec
<1> QED
  BY <1>1, <1>3, ThreadsInvariance, PTL DEF ThreadsTakeTurns

-------------------------------------------------------------------------------
(* The window of attempts (RateLimiter). *)

LimiterTypes ==
  /\ time \in 0..Horizon
  /\ sampled \in [Thread -> 0..Horizon \cup {R!NoTime}]
  /\ attempts \in Seq(Nat) /\ Len(attempts) <= MaxAttempts
  /\ admitted \in Seq([at: Nat, decided: Nat])
  /\ refused \in [at: Nat, known: Int]
  /\ refused.known # R!NoTime => refused.known \in 0..Len(admitted)

(* A thread decides no more than MaxDelay after it sampled the clock, and  *)
(* admissions are decided one after the other.                             *)
DelaysAreBounded ==
  /\ \A t \in Thread : sampled[t] # R!NoTime => sampled[t] <= time /\ time <= sampled[t] + MaxDelay
  /\ \A i \in 1..Len(admitted) :
       /\ admitted[i].at <= admitted[i].decided
       /\ admitted[i].decided <= admitted[i].at + MaxDelay
       /\ admitted[i].decided <= time
  /\ \A i, j \in 1..Len(admitted) : i <= j => admitted[i].decided <= admitted[j].decided

(* The deque holds the last admissions, and all that are recent. *)
DequeIsRecent ==
  /\ Len(attempts) <= Len(admitted)
  /\ \A i \in 1..Len(attempts) :
       attempts[i] = admitted[Len(admitted) - Len(attempts) + i].at
  /\ \A i \in 1..Len(admitted) :
       time < admitted[i].decided + Window - MaxDelay => Len(admitted) - Len(attempts) < i

RInv ==
  /\ LimiterTypes
  /\ DelaysAreBounded
  /\ DequeIsRecent
  /\ R!NeverTooMany
  /\ R!RefusalsAreEarned

LEMMA SameCardinality == \A S : R!Cardinality(S) = Cardinality(S)
  BY Zenon DEF R!Cardinality, Cardinality

LEMMA SizeOfInterval ==
  ASSUME NEW i \in Int, NEW j \in Int
  PROVE  /\ IsFiniteSet(i..j) /\ Cardinality(i..j) = IF i > j THEN 0 ELSE j - i + 1
         /\ \A S \in SUBSET (i..j) : /\ IsFiniteSet(S) /\ Cardinality(S) \in Nat
                                     /\ Cardinality(S) <= Cardinality(i..j)
<1>1. IsFiniteSet(i..j) /\ Cardinality(i..j) = IF i > j THEN 0 ELSE j - i + 1
  BY FS_Interval
<1> QED
  BY <1>1, FS_Subset, FS_CardinalityType

(* A set of natural numbers that is not empty has a least element. *)
LEMMA LeastNatural ==
  ASSUME NEW S \in SUBSET Nat, S # {}
  PROVE  R!Min(S) \in S /\ \A n \in S : R!Min(S) <= n
<1>1. PICK m \in S : \A n \in S : ~(<<n, m>> \in OpToRel(<, Nat))
  BY NatLessThanWellFounded, WFMin
<1>2. \A n \in S : ~(n < m)
  BY <1>1 DEF OpToRel
<1>3. \A n \in S : m <= n
  BY <1>2
<1> QED
  BY <1>3 DEF R!Min

(* Dropping old attempts from the head leaves the rest, in order. *)
LEMMA LiveIsSuffix ==
  ASSUME attempts \in Seq(Nat), NEW cutoff \in Int
  PROVE  LET live    == R!LiveAttempts(cutoff)
             dropped == Len(attempts) - Len(live)
         IN  /\ live \in Seq(Nat) /\ Len(live) \in 0..Len(attempts)
             /\ \A i \in 1..Len(live) : live[i] = attempts[dropped + i]
             /\ \A i \in 1..dropped : attempts[i] <= cutoff
             /\ Len(live) > 0 => live[1] > cutoff
<1> DEFINE young == {i \in DOMAIN attempts : attempts[i] > cutoff}
           live  == R!LiveAttempts(cutoff)
           first == R!Min(young)
<1>1. DOMAIN attempts = 1..Len(attempts) /\ Len(attempts) \in Nat
      /\ \A i \in 1..Len(attempts) : attempts[i] \in Nat
  OBVIOUS
<1>2. CASE young = {}
  <2>1. live = <<>> /\ live \in Seq(Nat) /\ Len(live) = 0
    BY <1>2 DEF R!LiveAttempts
  <2>2. \A i \in 1..Len(attempts) : attempts[i] <= cutoff
    BY <1>1, <1>2
  <2> QED
    BY <1>1, <2>1, <2>2
<1>3. CASE young # {}
  <2>1. first \in young /\ \A i \in young : first <= i
    <3>1. young \in SUBSET Nat
      BY <1>1
    <3> HIDE DEF young
    <3> QED
      BY <1>3, <3>1, LeastNatural
  <2>2. live = SubSeq(attempts, first, Len(attempts))
    BY <1>3 DEF R!LiveAttempts
  <2>3. first \in 1..Len(attempts) /\ attempts[first] > cutoff
    BY <1>1, <2>1
  <2>4. \A i \in 1..(first - 1) : attempts[i] <= cutoff
    <3> SUFFICES ASSUME NEW i \in 1..(first - 1), attempts[i] > cutoff PROVE FALSE
      BY <1>1, <2>3
    <3>1. i \in young /\ i < first
      BY <1>1, <2>3
    <3> HIDE DEF young, first
    <3> QED
      BY <1>1, <2>1, <2>3, <3>1
  <2> HIDE DEF first, young, live
  <2>5. /\ live \in Seq(Nat) /\ Len(live) = Len(attempts) - first + 1
        /\ \A i \in 1..(Len(attempts) - first + 1) : live[i] = attempts[first + i - 1]
    BY <1>1, <2>2, <2>3, SubSeqProperties
  <2>6. /\ Len(attempts) - Len(live) = first - 1 /\ Len(live) \in 0..Len(attempts)
        /\ live[1] = attempts[first]
    <3>1. 1 \in 1..(Len(attempts) - first + 1) /\ first + 1 - 1 = first
      BY <1>1, <2>3
    <3>2. live[1] = attempts[first]
      BY <2>5, <3>1
    <3> QED
      BY <1>1, <2>3, <2>5, <3>2
  <2>7. \A i \in 1..Len(live) : live[i] = attempts[Len(attempts) - Len(live) + i]
    BY <1>1, <2>3, <2>5, <2>6
  <2> QED
    BY <2>3, <2>4, <2>5, <2>6, <2>7 DEF live
<1> QED
  BY <1>2, <1>3

LEMMA LimiterNumbers ==
  ASSUME LimiterTypes
  PROVE  /\ time \in Nat /\ \A t \in Thread : sampled[t] \in Int
         /\ \A i \in 1..Len(admitted) : /\ admitted[i] \in [at: Nat, decided: Nat]
                                         /\ admitted[i].at \in Nat /\ admitted[i].decided \in Nat
         /\ Len(admitted) \in Nat /\ Len(attempts) \in Nat
         /\ DOMAIN admitted = 1..Len(admitted)
<1> USE LimiterAssumed DEF R!LimitsPositive, R!NoTime
<1>1. admitted \in Seq([at: Nat, decided: Nat]) /\ attempts \in Seq(Nat)
  BY DEF LimiterTypes
<1>2. \A i \in 1..Len(admitted) : admitted[i] \in [at: Nat, decided: Nat]
  BY <1>1, ElementOfSeq
<1>3. time \in Nat
  BY DEF LimiterTypes
<1>4. ASSUME NEW t \in Thread PROVE sampled[t] \in Int
  <2>1. sampled[t] \in 0..Horizon \cup {-1}
    BY DEF LimiterTypes
  <2> QED
    BY <2>1
<1>5. ASSUME NEW i \in 1..Len(admitted)
      PROVE  admitted[i].at \in Nat /\ admitted[i].decided \in Nat
  BY <1>2
<1>6. /\ Len(admitted) \in Nat /\ Len(attempts) \in Nat
      /\ DOMAIN admitted = 1..Len(admitted)
  BY <1>1
<1> QED
  BY <1>2, <1>3, <1>4, <1>5, <1>6

LEMMA LimiterInitInv == R!Init => RInv
<1> SUFFICES ASSUME R!Init PROVE RInv
  OBVIOUS
<1> USE LimiterAssumed DEF R!LimitsPositive, R!NoTime
<1>1. /\ attempts = <<>> /\ attempts \in Seq(Nat) /\ Len(attempts) = 0
      /\ admitted = <<>> /\ admitted \in Seq([at: Nat, decided: Nat]) /\ Len(admitted) = 0
      /\ DOMAIN admitted = {}
  BY DEF R!Init
<1>2. LimiterTypes
  BY <1>1 DEF R!Init, LimiterTypes
<1> QED
  BY <1>1, <1>2
  DEF R!Init, RInv, DelaysAreBounded, DequeIsRecent, R!NeverTooMany, R!RefusalsAreEarned

LEMMA LimiterTickKeepsInv == RInv /\ R!Tick => RInv'
<1> SUFFICES ASSUME RInv, R!Tick PROVE RInv'
  OBVIOUS
<1> USE LimiterAssumed DEF R!LimitsPositive, R!NoTime
<1>1. /\ time \in Nat /\ time' = time + 1 /\ time' \in 0..Horizon
      /\ \A t \in Thread : sampled[t] # R!NoTime => time < sampled[t] + MaxDelay
      /\ UNCHANGED <<attempts, sampled, admitted, refused>>
  BY DEF R!Tick, RInv, LimiterTypes
<1>2. /\ \A t \in Thread : sampled[t] \in Int
      /\ \A i \in 1..Len(admitted) : admitted[i].at \in Nat /\ admitted[i].decided \in Nat
      /\ Len(admitted) \in Nat /\ Len(attempts) \in Nat
  BY LimiterNumbers DEF RInv
<1>3. LimiterTypes'
  BY <1>1 DEF RInv, LimiterTypes
<1>4. DelaysAreBounded'
  BY <1>1, <1>2 DEF RInv, DelaysAreBounded
<1>5. DequeIsRecent'
  BY <1>1, <1>2 DEF RInv, DequeIsRecent
<1> QED
  BY <1>1, <1>3, <1>4, <1>5 DEF RInv, R!NeverTooMany, R!RefusalsAreEarned

LEMMA SampleKeepsInv == RInv /\ (\E t \in Thread : R!Sample(t)) => RInv'
<1> SUFFICES ASSUME RInv, NEW t \in Thread, R!Sample(t) PROVE RInv'
  OBVIOUS
<1> USE LimiterAssumed DEF R!LimitsPositive, R!NoTime
<1>1. /\ time \in 0..Horizon /\ sampled' = [sampled EXCEPT ![t] = time]
      /\ UNCHANGED <<time, attempts, admitted, refused>>
      /\ sampled \in [Thread -> 0..Horizon \cup {R!NoTime}]
  BY DEF R!Sample, RInv, LimiterTypes
<1>2. LimiterTypes'
  BY <1>1 DEF RInv, LimiterTypes
<1>3. DelaysAreBounded'
  BY <1>1 DEF RInv, DelaysAreBounded
<1> QED
  BY <1>1, <1>2, <1>3 DEF RInv, DequeIsRecent, R!NeverTooMany, R!RefusalsAreEarned

(* What a decision finds in the deque: the last admissions, with all the   *)
(* recent ones, none of them before an admission that is still live.       *)
LEMMA DecisionFinds ==
  ASSUME RInv, NEW t \in Thread, sampled[t] # R!NoTime
  PROVE  LET live == R!LiveAttempts(sampled[t] - Window)
             n    == Len(admitted) - Len(live)
         IN  /\ live \in Seq(Nat) /\ Len(live) \in 0..MaxAttempts /\ n \in 0..Len(admitted)
             /\ \A i \in 1..Len(live) : live[i] = admitted[n + i].at
             /\ \A i \in 1..Len(admitted) :
                  time < admitted[i].decided + Window - MaxDelay => n < i
             /\ Len(live) > 0 =>
                  \A i \in (n + 1)..Len(admitted) :
                    admitted[i].at > sampled[t] - Window - MaxDelay
<1> USE LimiterAssumed DEF R!LimitsPositive
<1> DEFINE s       == sampled[t]
           live    == R!LiveAttempts(s - Window)
           dropped == Len(attempts) - Len(live)
           n       == Len(admitted) - Len(live)
           old     == Len(admitted) - Len(attempts)
<1>1. /\ s \in Nat /\ s <= time /\ time <= s + MaxDelay /\ time \in Nat
      /\ s - Window \in Int
      /\ MaxDelay \in Nat /\ Window \in Nat /\ MaxAttempts \in Nat
  <2>1. s \in 0..Horizon
    BY DEF RInv, LimiterTypes
  <2> QED
    BY <2>1, LimiterNumbers DEF RInv, DelaysAreBounded
<1>2. /\ live \in Seq(Nat) /\ Len(live) \in 0..Len(attempts)
      /\ \A i \in 1..Len(live) : live[i] = attempts[dropped + i]
      /\ \A i \in 1..dropped : attempts[i] <= s - Window
      /\ Len(live) > 0 => live[1] > s - Window
  <2>1. attempts \in Seq(Nat)
    BY DEF RInv, LimiterTypes
  <2> HIDE DEF s
  <2> QED
    BY <1>1, <2>1, LiveIsSuffix
<1> HIDE DEF live, s
<1>3. /\ Len(admitted) \in Nat /\ Len(attempts) \in Nat
      /\ \A i \in 1..Len(admitted) : admitted[i].at \in Nat /\ admitted[i].decided \in Nat
  BY LimiterNumbers DEF RInv
<1>d. /\ Len(attempts) <= Len(admitted) /\ Len(attempts) <= MaxAttempts
      /\ \A i \in 1..Len(attempts) : attempts[i] = admitted[old + i].at
      /\ \A i \in 1..Len(admitted) : time < admitted[i].decided + Window - MaxDelay => old < i
  BY DEF RInv, LimiterTypes, DequeIsRecent
<1>o. /\ \A i \in 1..Len(admitted) : /\ admitted[i].at <= admitted[i].decided
                                     /\ admitted[i].decided <= admitted[i].at + MaxDelay
      /\ \A i, j \in 1..Len(admitted) : i <= j => admitted[i].decided <= admitted[j].decided
  BY DEF RInv, DelaysAreBounded
<1>4. ASSUME NEW i \in 1..Len(live)
      PROVE  live[i] = admitted[n + i].at
  <2>1. dropped + i \in 1..Len(attempts) /\ old + (dropped + i) = n + i
    BY <1>2, <1>3, <1>d, <1>o
  <2>2. live[i] = attempts[dropped + i]
    BY <1>2
  <2>3. attempts[dropped + i] = admitted[old + (dropped + i)].at
    <3> HIDE DEF dropped, old
    <3> QED
      BY <1>3, <1>d, <1>o, <2>1
  <2> QED
    BY <2>1, <2>2, <2>3
<1>5. ASSUME NEW i \in 1..Len(admitted), time < admitted[i].decided + Window - MaxDelay
      PROVE  n < i
  <2> SUFFICES ASSUME i <= n PROVE FALSE
    BY <1>2, <1>3, <1>d, <1>o
  <2>1. i - old \in 1..dropped /\ i - old \in 1..Len(attempts) /\ old + (i - old) = i
    <3>1. old < i
      BY <1>d, <1>5
    <3> QED
      BY <1>2, <1>3, <1>d, <3>1
  <2>2. attempts[i - old] = admitted[i].at /\ attempts[i - old] <= s - Window
    <3> HIDE DEF dropped, old
    <3> QED
      BY <1>2, <1>3, <1>d, <1>o, <2>1
  <2>3. admitted[i].decided <= s - Window + MaxDelay
    <3>1. /\ admitted[i].at <= s - Window /\ admitted[i].decided <= admitted[i].at + MaxDelay
          /\ admitted[i].at \in Nat /\ admitted[i].decided \in Nat
      BY <1>3, <1>o, <2>2
    <3> QED
      BY <1>1, <3>1
  <2> QED
    BY <1>1, <1>3, <1>d, <1>o, <1>5, <2>3
<1>6. ASSUME Len(live) > 0, NEW i \in (n + 1)..Len(admitted)
      PROVE  admitted[i].at > s - Window - MaxDelay
  <2>1. n + 1 \in 1..Len(admitted) /\ 1 \in 1..Len(live) /\ i \in 1..Len(admitted) /\ n + 1 <= i
    BY <1>2, <1>3, <1>d, <1>o, <1>6
  <2>2. admitted[n + 1].at > s - Window
    BY <1>2, <1>4, <1>6, <2>1
  <2>3. admitted[n + 1].decided <= admitted[i].decided
    BY <1>3, <1>d, <1>o, <2>1
  <2>4. /\ admitted[n + 1].at <= admitted[n + 1].decided
        /\ admitted[i].decided <= admitted[i].at + MaxDelay
        /\ admitted[n + 1].at \in Nat /\ admitted[n + 1].decided \in Nat
        /\ admitted[i].at \in Nat /\ admitted[i].decided \in Nat
    BY <1>3, <1>d, <1>o, <2>1
  <2>5. /\ admitted[n + 1].at <= admitted[n + 1].decided
        /\ admitted[n + 1].decided <= admitted[i].at + MaxDelay
        /\ s - Window \in Int
    BY <1>1, <2>3, <2>4
  <2> DEFINE u == admitted[n + 1].at
             v == admitted[i].at
             w == s - Window
  <2>6. u \in Nat /\ v \in Nat /\ w \in Int /\ u > w
    BY <2>2, <2>4, <2>5
  <2>7. u <= v + MaxDelay
    BY <1>1, <2>4, <2>5
  <2>8. v > w - MaxDelay
    <3> HIDE DEF u, v, w
    <3> QED
      BY <1>1, <2>6, <2>7
  <2> QED
    BY <2>8
<1>7. /\ live \in Seq(Nat) /\ Len(live) \in 0..MaxAttempts /\ n \in 0..Len(admitted)
  BY <1>1, <1>2, <1>3, <1>d, <1>o
<1> QED
  BY <1>4, <1>5, <1>6, <1>7 DEF live, s

(* A refusal: whatever is left in the deque was admitted, and is recent.   *)
LEMMA RefusalKeepsInv ==
  ASSUME RInv, NEW t \in Thread, R!Decide(t),
         Len(R!LiveAttempts(sampled[t] - Window)) >= MaxAttempts
  PROVE  RInv'
<1> USE LimiterAssumed DEF R!LimitsPositive
<1> DEFINE s    == sampled[t]
           live == R!LiveAttempts(s - Window)
           n    == Len(admitted) - Len(live)
<1>1. /\ s # R!NoTime /\ attempts' = live
      /\ refused' = [at |-> s, known |-> Len(admitted)]
      /\ sampled' = [sampled EXCEPT ![t] = R!NoTime]
      /\ UNCHANGED <<time, admitted>>
  BY DEF R!Decide
<1>2. /\ live \in Seq(Nat) /\ Len(live) \in 0..MaxAttempts /\ n \in 0..Len(admitted)
      /\ \A i \in 1..Len(live) : live[i] = admitted[n + i].at
      /\ \A i \in 1..Len(admitted) :
           time < admitted[i].decided + Window - MaxDelay => n < i
      /\ Len(live) > 0 =>
           \A i \in (n + 1)..Len(admitted) : admitted[i].at > s - Window - MaxDelay
  BY <1>1, DecisionFinds
<1>3. s \in 0..Horizon /\ sampled \in [Thread -> 0..Horizon \cup {R!NoTime}]
  BY <1>1 DEF RInv, LimiterTypes
<1>4. Len(live) = MaxAttempts /\ Len(live) > 0 /\ Len(admitted) \in Nat /\ MaxAttempts \in Nat
  BY <1>2, LimiterNumbers DEF RInv
<1> HIDE DEF live, s
<1>5. LimiterTypes'
  <2>1. refused' \in [at: Nat, known: Int] /\ refused'.known \in 0..Len(admitted')
    BY <1>1, <1>3, <1>4
  <2>2. sampled' \in [Thread -> 0..Horizon \cup {R!NoTime}]
    BY <1>1, <1>3
  <2>3. attempts' \in Seq(Nat) /\ Len(attempts') <= MaxAttempts
    BY <1>1, <1>2, <1>4
  <2> QED
    BY <1>1, <2>1, <2>2, <2>3 DEF RInv, LimiterTypes
<1>6. DelaysAreBounded'
  BY <1>1, <1>3 DEF RInv, DelaysAreBounded
<1>7. DequeIsRecent'
  BY <1>1, <1>2 DEF DequeIsRecent
<1>8. R!NeverTooMany'
  BY <1>1 DEF RInv, R!NeverTooMany
<1>9. R!RefusalsAreEarned'
  <2> DEFINE earned == {j \in 1..Len(admitted) : admitted[j].at > s - Window - MaxDelay}
  <2>1. (n + 1)..Len(admitted) \in SUBSET earned
    <3>1. \A i \in (n + 1)..Len(admitted) : i \in 1..Len(admitted)
      BY <1>2, <1>4
    <3> QED
      BY <1>2, <1>4, <3>1
  <2>2. Cardinality((n + 1)..Len(admitted)) = MaxAttempts
    BY <1>2, <1>4, SizeOfInterval
  <2>3. earned \in SUBSET (1..Len(admitted)) /\ IsFiniteSet(earned)
    <3>1. earned \in SUBSET (1..Len(admitted))
      OBVIOUS
    <3>2. 1 \in Int /\ Len(admitted) \in Int
      BY <1>4
    <3> HIDE DEF earned
    <3> QED
      BY <3>1, <3>2, SizeOfInterval
  <2>4. Cardinality(earned) >= MaxAttempts
    <3> HIDE DEF earned
    <3>1. /\ Cardinality((n + 1)..Len(admitted)) <= Cardinality(earned)
          /\ Cardinality(earned) \in Nat
      BY <2>1, <2>3, FS_Subset, FS_CardinalityType
    <3> QED
      BY <1>4, <2>2, <3>1
  <2>5. R!Cardinality(earned) >= MaxAttempts
    BY <2>4, SameCardinality
  <2>6. refused'.at = s /\ refused'.known = Len(admitted)
    BY <1>1
  <2> QED
    BY <1>1, <2>5, <2>6 DEF R!RefusalsAreEarned
<1> QED
  BY <1>5, <1>6, <1>7, <1>8, <1>9 DEF RInv

(* An admission: what it adds to a window still fits the limit, since the  *)
(* deque had the whole window in view.                                     *)
LEMMA AdmissionKeepsInv ==
  ASSUME RInv, NEW t \in Thread, R!Decide(t),
         ~(Len(R!LiveAttempts(sampled[t] - Window)) >= MaxAttempts)
  PROVE  RInv'
<1> USE LimiterAssumed DEF R!LimitsPositive
<1> DEFINE s    == sampled[t]
           live == R!LiveAttempts(s - Window)
           D    == Len(admitted)
           n    == D - Len(live)
<1>1. /\ s # R!NoTime /\ attempts' = Append(live, s)
      /\ admitted' = Append(admitted, [at |-> s, decided |-> time])
      /\ sampled' = [sampled EXCEPT ![t] = R!NoTime]
      /\ UNCHANGED <<time, refused>>
  BY DEF R!Decide
<1>2. /\ live \in Seq(Nat) /\ Len(live) \in 0..MaxAttempts /\ n \in 0..D
      /\ \A i \in 1..Len(live) : live[i] = admitted[n + i].at
      /\ \A i \in 1..D : time < admitted[i].decided + Window - MaxDelay => n < i
  BY <1>1, DecisionFinds
<1>3. /\ s \in Nat /\ s <= time /\ time <= s + MaxDelay /\ time \in Nat /\ D \in Nat
      /\ MaxDelay \in Nat /\ Window \in Nat /\ MaxAttempts \in Nat
      /\ sampled \in [Thread -> 0..Horizon \cup {R!NoTime}]
  <2>1. s \in 0..Horizon /\ sampled \in [Thread -> 0..Horizon \cup {R!NoTime}]
    BY <1>1 DEF RInv, LimiterTypes
  <2>2. s <= time /\ time <= s + MaxDelay
    BY <1>1 DEF RInv, DelaysAreBounded
  <2> QED
    BY <2>1, <2>2, LimiterNumbers DEF RInv
<1>4. Len(live) + 1 <= MaxAttempts
  BY <1>2, <1>3
<1>5. /\ admitted \in Seq([at: Nat, decided: Nat])
      /\ \A i \in 1..D : admitted[i].at \in Nat /\ admitted[i].decided \in Nat
  BY LimiterNumbers DEF RInv, LimiterTypes
<1> HIDE DEF live, s
<1>6. /\ admitted' \in Seq([at: Nat, decided: Nat]) /\ Len(admitted') = D + 1
      /\ \A i \in 1..D : admitted'[i] = admitted[i]
      /\ admitted'[D + 1] = [at |-> s, decided |-> time]
  <2>1. [at |-> s, decided |-> time] \in [at: Nat, decided: Nat]
    BY <1>3
  <2> QED
    BY <1>1, <1>5, <2>1, AppendProperties
<1>7. /\ attempts' \in Seq(Nat) /\ Len(attempts') = Len(live) + 1
      /\ \A i \in 1..Len(live) : attempts'[i] = live[i]
      /\ attempts'[Len(live) + 1] = s
  BY <1>1, <1>2, <1>3, AppendProperties
<1> HIDE DEF D
<1>8. \A i \in 1..(D + 1) : i \in 1..D \/ i = D + 1
  BY <1>3
<1>9. LimiterTypes'
  <2>1. refused'.known # R!NoTime => refused'.known \in 0..(D + 1)
    BY <1>1, <1>3 DEF RInv, LimiterTypes, D
  <2>2. sampled' \in [Thread -> 0..Horizon \cup {R!NoTime}]
    BY <1>1, <1>3
  <2> QED
    BY <1>1, <1>4, <1>6, <1>7, <2>1, <2>2 DEF RInv, LimiterTypes
<1>10. DelaysAreBounded'
  <2>1. ASSUME NEW i \in 1..(D + 1)
        PROVE  /\ admitted'[i].at <= admitted'[i].decided
               /\ admitted'[i].decided <= admitted'[i].at + MaxDelay
               /\ admitted'[i].decided <= time
    <3>1. CASE i \in 1..D
      BY <1>6, <3>1 DEF RInv, DelaysAreBounded, D
    <3>2. CASE i = D + 1
      BY <1>3, <1>6, <3>2
    <3> QED
      BY <1>8, <3>1, <3>2
  <2>2. ASSUME NEW i \in 1..(D + 1), NEW j \in 1..(D + 1), i <= j
        PROVE  admitted'[i].decided <= admitted'[j].decided
    <3>1. CASE j = D + 1
      <4>1. admitted'[j].decided = time
        BY <1>6, <3>1
      <4> QED
        BY <2>1, <4>1
    <3>2. CASE j \in 1..D
      <4>1. i \in 1..D
        BY <1>3, <2>2, <3>2
      <4> QED
        BY <1>6, <2>2, <3>2, <4>1 DEF RInv, DelaysAreBounded, D
    <3> QED
      BY <1>8, <3>1, <3>2
  <2>3. \A u \in Thread : sampled'[u] # R!NoTime => sampled'[u] <= time /\ time <= sampled'[u] + MaxDelay
    BY <1>1, <1>3 DEF RInv, DelaysAreBounded
  <2> QED
    BY <1>1, <1>6, <2>1, <2>2, <2>3 DEF DelaysAreBounded
<1>11. DequeIsRecent'
  <2>1. Len(attempts') <= Len(admitted') /\ Len(admitted') - Len(attempts') = n
    <3>1. Len(admitted') = D + 1 /\ Len(attempts') = Len(live) + 1
      BY <1>6, <1>7
    <3>2. Len(live) \in Nat /\ Len(live) <= D
      BY <1>2, <1>3
    <3> QED
      BY <1>3, <3>1, <3>2
  <2>2. ASSUME NEW i \in 1..(Len(live) + 1)
        PROVE  attempts'[i] = admitted'[n + i].at
    <3>1. CASE i \in 1..Len(live)
      <4>1. n + i \in 1..D
        BY <1>2, <1>3, <3>1
      <4> QED
        BY <1>2, <1>6, <1>7, <3>1, <4>1
    <3>2. CASE i = Len(live) + 1
      <4>1. n + i = D + 1
        BY <1>2, <1>3, <3>2
      <4> QED
        BY <1>6, <1>7, <3>2, <4>1
    <3> QED
      BY <1>2, <3>1, <3>2
  <2>3. ASSUME NEW i \in 1..(D + 1), time < admitted'[i].decided + Window - MaxDelay
        PROVE  n < i
    <3>1. CASE i \in 1..D
      BY <1>2, <1>6, <2>3, <3>1
    <3>2. CASE i = D + 1
      BY <1>2, <1>3, <3>2
    <3> QED
      BY <1>8, <3>1, <3>2
  <2> HIDE DEF n
  <2> QED
    BY <1>1, <1>6, <1>7, <2>1, <2>2, <2>3 DEF DequeIsRecent
<1>12. R!NeverTooMany'
  <2> DEFINE crowd(i) ==
        {j \in i..(D + 1) : admitted'[j].decided < admitted'[i].decided + Window - MaxDelay}
  <2>1. ASSUME NEW i \in 1..(D + 1)
        PROVE  R!Cardinality(crowd(i)) <= MaxAttempts
    <3>1. crowd(i) \in SUBSET (i..(D + 1)) /\ i \in Int /\ D + 1 \in Int
      BY <1>3
    <3>2. CASE n < i
      <4>1. /\ Cardinality(crowd(i)) \in Nat /\ Cardinality(crowd(i)) <= Cardinality(i..(D + 1))
            /\ Cardinality(i..(D + 1)) = IF i > D + 1 THEN 0 ELSE (D + 1) - i + 1
        <5> HIDE DEF crowd
        <5> QED
          BY <3>1, SizeOfInterval
      <4>2. (D + 1) - i + 1 <= Len(live) + 1
        BY <1>2, <1>3, <3>2
      <4>3. Cardinality(crowd(i)) <= MaxAttempts
        <5> HIDE DEF crowd
        <5> QED
          BY <1>2, <1>3, <1>4, <3>1, <4>1, <4>2
      <4> QED
        BY <4>3, SameCardinality
    <3>3. CASE ~(n < i)
      <4>1. i \in 1..D /\ ~(time < admitted[i].decided + Window - MaxDelay)
        BY <1>2, <1>3, <3>3
      <4>2. D + 1 \notin crowd(i)
        BY <1>6, <4>1
      <4>3. crowd(i) = {j \in i..D : admitted[j].decided < admitted[i].decided + Window - MaxDelay}
        <5>1. \A j \in crowd(i) : j \in i..D /\ j \in 1..D
          BY <1>3, <4>1, <4>2
        <5>2. \A j \in i..D : j \in i..(D + 1) /\ j \in 1..D
          BY <1>3, <4>1
        <5> QED
          BY <1>6, <4>1, <5>1, <5>2
      <4> QED
        BY <4>1, <4>3 DEF RInv, R!NeverTooMany, D
    <3> QED
      BY <3>2, <3>3
  <2>2. DOMAIN admitted' = 1..(D + 1)
    BY <1>6
  <2> QED
    BY <1>6, <2>1, <2>2 DEF R!NeverTooMany
<1>13. R!RefusalsAreEarned'
  <2> SUFFICES ASSUME refused.known # R!NoTime
               PROVE  {j \in 1..refused.known :
                         admitted'[j].at > refused.at - Window - MaxDelay}
                        = {j \in 1..refused.known :
                             admitted[j].at > refused.at - Window - MaxDelay}
    BY <1>1 DEF RInv, R!RefusalsAreEarned
  <2>1. refused.known \in 0..D
    BY DEF RInv, LimiterTypes, D
  <2>2. \A j \in 1..refused.known : j \in 1..D
    BY <1>3, <2>1
  <2> QED
    BY <1>6, <2>2
<1> QED
  BY <1>9, <1>10, <1>11, <1>12, <1>13 DEF RInv

LEMMA LimiterNextKeepsInv == RInv /\ [R!Next]_(R!vars) => RInv'
<1> SUFFICES ASSUME RInv, [R!Next]_(R!vars) PROVE RInv'
  OBVIOUS
<1>1. ASSUME NEW t \in Thread, R!Decide(t) PROVE RInv'
  BY <1>1, RefusalKeepsInv, AdmissionKeepsInv
<1>2. CASE UNCHANGED R!vars
  BY <1>2
  DEF R!vars, RInv, LimiterTypes, DelaysAreBounded, DequeIsRecent, R!NeverTooMany,
      R!RefusalsAreEarned
<1> QED
  BY <1>1, <1>2, LimiterTickKeepsInv, SampleKeepsInv DEF R!Next

(* In MCLedgers the limiter takes its own steps or stutters. *)
LEMMA LimiterBehaviour == MCSpec => R!Init /\ [][R!Next]_(R!vars)
<1>1. MCInit => R!Init
  BY DEF MCInit
<1>2. [MCNext]_<<part, vars, threadVars, limiterVars>> => [R!Next]_(R!vars)
  BY DEF MCNext, limiterVars, R!vars
<1> QED
  BY <1>1, <1>2, PTL DEF MCSpec

LEMMA LimiterInvariance == MCSpec => []RInv
  BY LimiterInitInv, LimiterNextKeepsInv, LimiterBehaviour, PTL

(* However the threads are delayed between the clock and the lock, the     *)
(* limiter of api.py admits no more than its limit in a window less the    *)
(* delay, and refuses nobody without as many admissions in a window plus   *)
(* the delay; the deque keeps to the limit and holds admissions only.      *)
THEOREM LimiterStaysExact == MCSpec => []LimiterIsExact
<1>1. RInv => R!TypeOK
  <2> SUFFICES ASSUME RInv PROVE R!TypeOK
    OBVIOUS
  <2>1. /\ Len(admitted) \in Nat /\ Len(attempts) \in Nat
        /\ DOMAIN admitted = 1..Len(admitted) /\ DOMAIN attempts = 1..Len(attempts)
    BY LimiterNumbers DEF RInv, LimiterTypes
  <2>2. ASSUME NEW i \in DOMAIN attempts
        PROVE  \E j \in DOMAIN admitted : attempts[i] = admitted[j].at
    <3>1. /\ Len(admitted) - Len(attempts) + i \in DOMAIN admitted
          /\ attempts[i] = admitted[Len(admitted) - Len(attempts) + i].at
      BY <2>1, <2>2 DEF RInv, DequeIsRecent
    <3> QED
      BY <3>1
  <2> QED
    BY <2>2 DEF RInv, LimiterTypes, R!TypeOK
<1>2. RInv => LimiterIsExact
  BY <1>1 DEF RInv, LimiterIsExact
<1> QED
  BY <1>2, LimiterInvariance, PTL
===============================================================================
