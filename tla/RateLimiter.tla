---------------------------- MODULE RateLimiter ----------------------------
(***************************************************************************)
(* src/src/ecocommit/api.py: SlidingWindowRateLimiter.  A thread reads the *)
(* clock before it takes the lock, so the times enter the deque out of     *)
(* order; only its head is looked at when old attempts are dropped.        *)
(*                                                                         *)
(* Time is a count of ticks, up to Horizon.  MaxDelay bounds how long a    *)
(* thread is held up between the clock and the lock; without such a bound  *)
(* no statement about real time can be made of this code.                  *)
(***************************************************************************)
EXTENDS Integers, Sequences, FiniteSets, FiniteSetsExt

CONSTANTS Thread, MaxAttempts, Window, MaxDelay, Horizon

LimitsPositive ==
  /\ MaxAttempts \in Nat \ {0} /\ Window \in Nat \ {0}
  /\ MaxDelay \in 0..Window /\ Horizon \in Nat

NoTime == -1

VARIABLES
  time,       \* the monotonic clock
  attempts,   \* the deque of sampled times
  now,        \* Thread -> the time it sampled, NoTime outside allow()
  admitted,   \* every admission: when it was sampled and when decided
  refused     \* the last refusal: its sampled time and the admissions so far

vars == <<time, attempts, now, admitted, refused>>

Init ==
  /\ time = 0 /\ attempts = <<>> /\ now = [t \in Thread |-> NoTime]
  /\ admitted = <<>> /\ refused = [at |-> 0, known |-> NoTime]

Tick ==
  /\ time < Horizon
  /\ \A t \in Thread : now[t] # NoTime => time < now[t] + MaxDelay
  /\ time' = time + 1
  /\ UNCHANGED <<attempts, now, admitted, refused>>

Sample(t) ==
  /\ now[t] = NoTime
  /\ now' = [now EXCEPT ![t] = time]
  /\ UNCHANGED <<time, attempts, admitted, refused>>

(* A bug the properties must notice: a cutoff that is one window ahead.    *)
LiveAttemptsEarly(cutoff) ==
  LET live == {i \in DOMAIN attempts : attempts[i] > cutoff + 1}
  IN  IF live = {} THEN <<>> ELSE SubSeq(attempts, Min(live), Len(attempts))

(* The loop that drops old attempts from the head. *)
LiveAttempts(cutoff) ==
  LET live == {i \in DOMAIN attempts : attempts[i] > cutoff}
  IN  IF live = {} THEN <<>> ELSE SubSeq(attempts, Min(live), Len(attempts))

(* A bug the properties must notice: one attempt too many is kept. *)
DecideFull(t) ==
  /\ now[t] # NoTime
  /\ LET live == LiveAttempts(now[t] - Window)
     IN  IF Len(live) > MaxAttempts
         THEN /\ attempts' = live
              /\ refused' = [at |-> now[t], known |-> Len(admitted)]
              /\ UNCHANGED admitted
         ELSE /\ attempts' = Append(live, now[t])
              /\ admitted' = Append(admitted, [at |-> now[t], decided |-> time])
              /\ UNCHANGED refused
  /\ now' = [now EXCEPT ![t] = NoTime]
  /\ UNCHANGED time

Decide(t) ==
  /\ now[t] # NoTime
  /\ LET live == LiveAttempts(now[t] - Window)
     IN  IF Len(live) >= MaxAttempts
         THEN /\ attempts' = live
              /\ refused' = [at |-> now[t], known |-> Len(admitted)]
              /\ UNCHANGED admitted
         ELSE /\ attempts' = Append(live, now[t])
              /\ admitted' = Append(admitted, [at |-> now[t], decided |-> time])
              /\ UNCHANGED refused
  /\ now' = [now EXCEPT ![t] = NoTime]
  /\ UNCHANGED time

Next == Tick \/ \E t \in Thread : Sample(t) \/ Decide(t)

Spec == Init /\ [][Next]_vars

-------------------------------------------------------------------------------
(* The deque holds no more than the limit, and only admissions' times.     *)
TypeOK ==
  /\ time \in 0..Horizon
  /\ Len(attempts) <= MaxAttempts
  /\ \A i \in DOMAIN attempts : \E j \in DOMAIN admitted : attempts[i] = admitted[j].at
  /\ now \in [Thread -> 0..Horizon \cup {NoTime}]

(* However the threads are delayed, no more than MaxAttempts executions    *)
(* are let through within a window, less the delay.                        *)
NeverTooMany ==
  \A i \in DOMAIN admitted :
    Cardinality({j \in i..Len(admitted) :
                   admitted[j].decided < admitted[i].decided + Window - MaxDelay}) <= MaxAttempts

(* Nobody is shut out: a refusal is earned by MaxAttempts admissions that  *)
(* were sampled within the window and the delay, however badly ordered.    *)
RefusalsAreEarned ==
  refused.known # NoTime =>
    Cardinality({j \in 1..refused.known :
                   admitted[j].at > refused.at - Window - MaxDelay}) >= MaxAttempts
=============================================================================
