------------------------------- MODULE MCLedgers -------------------------------
(***************************************************************************)
(* What callers of one key share, in one model for TLC: the rows in SQLite *)
(* that processes share (IdempotencyLedger), the entries that the threads  *)
(* of one process share (ThreadLedger), and the window of attempts in      *)
(* front of both (RateLimiter).  They share no state, so a behaviour is    *)
(* about one of them, the part, and the other two stay as they began.      *)
(***************************************************************************)
EXTENDS IdempotencyLedger, Sequences, FiniteSets

CONSTANTS
  ThreadKey,                                     \* of ThreadLedger
  Thread, MaxAttempts, Window, MaxDelay, Horizon

VARIABLES
  part,
  entry, asked, thread, stack, at, got, done,        \* ThreadLedger
  time, attempts, sampled, admitted, refused         \* RateLimiter

T == INSTANCE ThreadLedger WITH
  Key <- ThreadKey, request <- asked, pc <- at, outcome <- got, effects <- done
R == INSTANCE RateLimiter WITH now <- sampled

ASSUME ThreadsAssumed == T!KeyAssumption /\ T!NoneAssumption
ASSUME LimiterAssumed == R!LimitsPositive

threadVars  == <<entry, asked, thread, stack, at, got, done>>
limiterVars == <<time, attempts, sampled, admitted, refused>>

Part == {"rows", "threads", "attempts"}

MCInit ==
  /\ part \in Part
  /\ Init /\ T!Init /\ R!Init
  /\ part # "rows" => request = CHOOSE r \in [Call -> [key: Key, print: Fingerprint]] : TRUE
  /\ part # "threads" =>
       /\ asked = CHOOSE r \in [Call -> [key: ThreadKey, print: Fingerprint]] : TRUE
       /\ thread = CHOOSE f \in [Call -> Thread] : TRUE

MCNext ==
  /\ UNCHANGED part
  /\ \/ part = "rows" /\ Next /\ UNCHANGED <<threadVars, limiterVars>>
     \/ part = "threads" /\ T!Next /\ UNCHANGED <<vars, limiterVars>>
     \/ part = "attempts" /\ R!Next /\ UNCHANGED <<vars, threadVars>>

MCFairness ==
  /\ WF_vars(part = "rows" /\ Tick)
  /\ \A c \in Call : WF_vars(part = "rows" /\ Step(c))
  /\ T!Fairness

MCSpec == MCInit /\ [][MCNext]_<<part, vars, threadVars, limiterVars>> /\ MCFairness

-------------------------------------------------------------------------------
(* Every execute() ends once it began, in SQLite's rows and in the threads'*)
(* entries, whatever was abandoned and whoever waits for whom.             *)
CallsEnd == (part = "rows" => EveryCallEnds) /\ T!StartedCallsEnd

(* An operation inside a process takes effect once unless one of its calls *)
(* raised; whoever is at work owns the entry although it names only a      *)
(* thread; nobody sleeps without somebody at work; and a key has one       *)
(* result, given to the same request only, as OnceResult promises          *)
(* (execute() of idempotency.py and its Condition).                        *)
ThreadsTakeTurns ==
  /\ [](T!TypeOK /\ T!WorkOwnsEntry /\ T!NobodyOversleeps /\ T!EffectOnce)
  /\ T!ImplementsPromise

(* However the threads are delayed between the clock and the lock, allow() *)
(* admits no more than the limit in a window less the delay, and refuses   *)
(* nobody without as many admissions in a window plus the delay.           *)
LimiterIsExact == R!TypeOK /\ R!NeverTooMany /\ R!RefusalsAreEarned
===============================================================================
