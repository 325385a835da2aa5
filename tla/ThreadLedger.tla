----------------------------- MODULE ThreadLedger -----------------------------
(***************************************************************************)
(* IdempotencyLedger of idempotency.py, the ledger inside one process:     *)
(* threads claim a key under one Condition, run the operation outside it,  *)
(* and complete or delete the entry under it again.  An entry remembers    *)
(* the owner's thread, not the call, so an operation that calls execute    *)
(* again - for a later key as the lifecycle does around each payment call, *)
(* or for its own key - is recognised by its thread.                       *)
(***************************************************************************)
EXTENDS Naturals, Sequences, SequencesExt

CONSTANTS Call, Thread, Key, Fingerprint, None

KeyAssumption  == Key \subseteq Nat   \* nested operations use later keys
NoneAssumption == None \notin Call \cup Fingerprint \cup Thread

VARIABLES
  entry,      \* _entries, by key
  request,    \* the arguments of each call
  thread,     \* get_ident() of each call
  stack,      \* the calls each thread is in, outermost first
  pc,         \* where each call stands
  outcome,    \* the call whose result each returned call got
  effects     \* the calls whose operation took effect

vars == <<entry, request, thread, stack, pc, outcome, effects>>

Absent == [status |-> "ABSENT", print |-> None, owner |-> None, result |-> None]

EntryOf(c) == entry[request[c].key]
OnTop(c)   == stack[thread[c]] # <<>> /\ Last(stack[thread[c]]) = c
Ended      == {"returned", "raised", "conflict", "reentry"}

Init ==
  /\ entry = [k \in Key |-> Absent]
  /\ request \in [Call -> [key: Key, print: Fingerprint]]
  /\ thread \in [Call -> Thread]
  /\ stack = [t \in Thread |-> <<>>]
  /\ pc = [c \in Call |-> "idle"]
  /\ outcome = [c \in Call |-> None]
  /\ effects = {}

(* execute() ends: the thread is back in the enclosing call, if any. *)
Leave(c, how) ==
  /\ pc' = [pc EXCEPT ![c] = how]
  /\ stack' = [stack EXCEPT ![thread[c]] = Front(@)]

(* notify_all: every sleeper of the ledger looks again. *)
NotifyAll(c, how) ==
  /\ pc' = [d \in Call |-> IF d = c THEN how
                           ELSE IF pc[d] = "waiting" THEN "claiming" ELSE pc[d]]
  /\ stack' = [stack EXCEPT ![thread[c]] = Front(@)]

-------------------------------------------------------------------------------
(* The operations of the code nest in one order of scopes, or not at all;  *)
(* reuse of a key that is already on the stack is allowed for.             *)
Start(c) ==
  /\ pc[c] = "idle"
  /\ LET calls == stack[thread[c]] IN
       /\ calls # <<>> => pc[Last(calls)] = "running"
       /\ \A i \in DOMAIN calls : request[calls[i]].key <= request[c].key
  /\ stack' = [stack EXCEPT ![thread[c]] = Append(@, c)]
  /\ pc' = [pc EXCEPT ![c] = "claiming"]
  /\ UNCHANGED <<entry, request, thread, outcome, effects>>

Insert(c) ==
  /\ pc[c] = "claiming"
  /\ EntryOf(c) = Absent
  /\ entry' = [entry EXCEPT ![request[c].key] =
       [status |-> "PENDING", print |-> request[c].print,
        owner |-> thread[c], result |-> None]]
  /\ pc' = [pc EXCEPT ![c] = "running"]
  /\ UNCHANGED <<request, thread, stack, outcome, effects>>

(* IdempotencyConflict. *)
Conflict(c) ==
  /\ pc[c] = "claiming"
  /\ EntryOf(c) # Absent
  /\ EntryOf(c).print # request[c].print
  /\ Leave(c, "conflict")
  /\ UNCHANGED <<entry, request, thread, outcome, effects>>

(* Bugs the properties must notice: a pending entry is returned as a       *)
(* result; a completed one is returned before the request is compared.     *)
ReplayPending(c) ==
  /\ pc[c] = "claiming"
  /\ EntryOf(c).print = request[c].print
  /\ outcome' = [outcome EXCEPT ![c] = EntryOf(c).owner]
  /\ Leave(c, "returned")
  /\ UNCHANGED <<entry, request, thread, effects>>
ReplayUnchecked(c) ==
  /\ pc[c] = "claiming"
  /\ EntryOf(c).status = "COMPLETED"
  /\ outcome' = [outcome EXCEPT ![c] = EntryOf(c).result]
  /\ Leave(c, "returned")
  /\ UNCHANGED <<entry, request, thread, effects>>

Replay(c) ==
  /\ pc[c] = "claiming"
  /\ EntryOf(c).status = "COMPLETED"
  /\ EntryOf(c).print = request[c].print
  /\ outcome' = [outcome EXCEPT ![c] = EntryOf(c).result]
  /\ Leave(c, "returned")
  /\ UNCHANGED <<entry, request, thread, effects>>

(* A bug the properties must notice: a thread runs its own pending key again. *)
ReenterOwn(c) ==
  /\ pc[c] = "claiming"
  /\ EntryOf(c).status = "PENDING"
  /\ EntryOf(c).owner = thread[c]
  /\ pc' = [pc EXCEPT ![c] = "running"]
  /\ UNCHANGED <<entry, request, thread, stack, outcome, effects>>

(* IdempotencyReentry: this thread's own operation is still pending. *)
Reentry(c) ==
  /\ pc[c] = "claiming"
  /\ EntryOf(c).status = "PENDING"
  /\ EntryOf(c).print = request[c].print
  /\ EntryOf(c).owner = thread[c]
  /\ Leave(c, "reentry")
  /\ UNCHANGED <<entry, request, thread, outcome, effects>>

(* A bug the properties must notice: the owner waits for itself. *)
WaitForAnyone(c) ==
  /\ pc[c] = "claiming"
  /\ EntryOf(c).status = "PENDING"
  /\ EntryOf(c).print = request[c].print
  /\ pc' = [pc EXCEPT ![c] = "waiting"]
  /\ UNCHANGED <<entry, request, thread, stack, outcome, effects>>

(* Another thread is at work: sleep on the Condition. *)
Wait(c) ==
  /\ pc[c] = "claiming"
  /\ EntryOf(c).status = "PENDING"
  /\ EntryOf(c).print = request[c].print
  /\ EntryOf(c).owner # thread[c]
  /\ pc' = [pc EXCEPT ![c] = "waiting"]
  /\ UNCHANGED <<entry, request, thread, stack, outcome, effects>>

-------------------------------------------------------------------------------
(* The operation takes effect, once the calls nested in it are over. *)
Perform(c) ==
  /\ pc[c] = "running" /\ OnTop(c)
  /\ effects' = effects \cup {c}
  /\ pc' = [pc EXCEPT ![c] = "performed"]
  /\ UNCHANGED <<entry, request, thread, stack, outcome>>

(* A bug the properties must notice: the sleepers are not told. *)
RaiseSilently(c) ==
  /\ pc[c] \in {"running", "performed"} /\ OnTop(c)
  /\ entry' = [entry EXCEPT ![request[c].key] = Absent]
  /\ Leave(c, "raised")
  /\ UNCHANGED <<request, thread, outcome, effects>>

(* except BaseException: the thread's entry is deleted. *)
OperationRaises(c) ==
  /\ pc[c] \in {"running", "performed"} /\ OnTop(c)
  /\ entry' = [entry EXCEPT ![request[c].key] =
                 IF @ # Absent /\ @.owner = thread[c] THEN Absent ELSE @]
  /\ IF EntryOf(c).owner = thread[c] THEN NotifyAll(c, "raised")
     ELSE Leave(c, "raised")
  /\ UNCHANGED <<request, thread, outcome, effects>>

(* The result goes to whatever entry the key has now. *)
Complete(c) ==
  /\ pc[c] = "performed"
  /\ entry' = [entry EXCEPT ![request[c].key].status = "COMPLETED",
                            ![request[c].key].result = c]
  /\ outcome' = [outcome EXCEPT ![c] = c]
  /\ NotifyAll(c, "returned")
  /\ UNCHANGED <<request, thread, effects>>

Step(c) ==
  \/ Insert(c) \/ Conflict(c) \/ Replay(c) \/ Reentry(c) \/ Wait(c)
  \/ Perform(c) \/ Complete(c)

Next == \E c \in Call : Start(c) \/ Step(c) \/ OperationRaises(c)

(* Threads run; nobody need call, and operations need not raise. *)
Fairness == \A c \in Call : WF_vars(Step(c))

Spec     == Init /\ [][Next]_vars
FairSpec == Spec /\ Fairness

-------------------------------------------------------------------------------
TypeOK ==
  /\ entry \in [Key -> [status: {"ABSENT", "PENDING", "COMPLETED"},
                        print: Fingerprint \cup {None},
                        owner: Thread \cup {None}, result: Call \cup {None}]]
  /\ request \in [Call -> [key: Key, print: Fingerprint]]
  /\ thread \in [Call -> Thread]
  /\ stack \in [Thread -> Seq(Call)]
  /\ pc \in [Call -> {"idle", "claiming", "waiting", "running", "performed"} \cup Ended]
  /\ outcome \in [Call -> Call \cup {None}]
  /\ effects \subseteq Call

(* The entry knows only a thread, yet it is one call's: whoever is running *)
(* or has performed owns the pending entry of its key, and no other call   *)
(* of any thread is at work for that key (the unconditional                *)
(* self._entries[identity] of execute's last block).                       *)
WorkOwnsEntry ==
  \A c \in Call : pc[c] \in {"running", "performed"} =>
    /\ EntryOf(c).status = "PENDING" /\ EntryOf(c).owner = thread[c]
    /\ \A d \in Call \ {c} :
         request[d].key = request[c].key => pc[d] \notin {"running", "performed"}

(* No lost wakeup: a call sleeps only while another thread is at work for  *)
(* its key (Condition.wait against the two notify_all calls).              *)
NobodyOversleeps ==
  \A c \in Call : pc[c] = "waiting" =>
    \E d \in Call : /\ request[d].key = request[c].key
                    /\ thread[d] # thread[c]
                    /\ pc[d] \in {"running", "performed"}

(* Two operations take effect for one key only if one of them raised. *)
EffectOnce ==
  \A c, d \in effects :
    c # d /\ request[c].key = request[d].key => "raised" \in {pc[c], pc[d]}

(* No call that started waits for ever, on another thread or on itself. *)
StartedCallsEnd == \A c \in Call : pc[c] # "idle" ~> pc[c] \in Ended

(* The threads' entries keep the promise of OnceResult. *)
Promise == INSTANCE OnceResult WITH
  decided <- [k \in Key |-> entry[k].result]

ImplementsPromise == Promise!Spec
===============================================================================
