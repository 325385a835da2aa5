------------------------------ MODULE Commitment ------------------------------
(***************************************************************************)
(* ProgressiveCommitmentEngine and SQLiteCommitmentStateStore of           *)
(* commitment.py: the stages of one transaction's commitment, the history  *)
(* each transition appends to, and the optimistic write that makes a       *)
(* transition durable.                                                     *)
(*                                                                         *)
(* Several callers, in one process or many, hold copies of the state and   *)
(* call the engine with a copy that may be old.  compare_and_set reads the *)
(* document, compares it with the caller's copy and then writes under the  *)
(* version it read (SQLiteJSONStateStore of durable.py): two transactions, *)
(* hence two actions.  A call that the engine rejects, and a replay of a   *)
(* recorded event, change nothing and so are not actions.                  *)
(***************************************************************************)
EXTENDS Naturals, Sequences

CONSTANTS
  Caller,       \* holders of a CommitmentState
  EventId,      \* event ids callers choose
  Reference,    \* payment, certificate, reason ... references
  Time,         \* readings callers pass as `at`
  CertExpires,  \* expires_at of the capture certificate
  None

ASSUME TimeAssumption == Time \subseteq Nat /\ CertExpires \in Nat

VARIABLES
  document,   \* the stored version and CommitmentState (None before create)
  held,       \* each caller's copy of the state, or None
  writing     \* each caller's write between its two transactions, or None

vars == <<document, held, writing>>

Stage == {"PROPOSED", "AUTHORIZED", "RESERVED", "CAPTURE_ALLOWED", "CAPTURED",
          "COMPENSATION_PENDING", "COMPENSATED", "CANCELLED", "FAILED"}
Event == {"AUTHORIZE", "RESERVE", "ALLOW_CAPTURE", "CAPTURE", "CANCEL",
          "BEGIN_COMPENSATION", "COMPLETE_COMPENSATION", "FAIL"}

(* The stages before the irreversible boundary, which cancel and fail leave. *)
Reversible == {"PROPOSED", "AUTHORIZED", "RESERVED", "CAPTURE_ALLOWED"}

(* A bug the properties must notice: fail() also accepts a captured commitment. *)
SourcesFailAlways == [e \in Event |->
  CASE e = "AUTHORIZE"             -> {"PROPOSED"}
    [] e = "RESERVE"               -> {"AUTHORIZED"}
    [] e = "ALLOW_CAPTURE"         -> {"RESERVED"}
    [] e = "CAPTURE"               -> {"CAPTURE_ALLOWED"}
    [] e = "BEGIN_COMPENSATION"    -> {"CAPTURED"}
    [] e = "COMPLETE_COMPENSATION" -> {"COMPENSATION_PENDING"}
    [] e = "CANCEL"                -> Reversible
    [] e = "FAIL"                  -> Reversible \cup {"CAPTURED"}]

(* The stages a transition of the event may start from, and the one it ends in. *)
Sources == [e \in Event |->
  CASE e = "AUTHORIZE"             -> {"PROPOSED"}
    [] e = "RESERVE"               -> {"AUTHORIZED"}
    [] e = "ALLOW_CAPTURE"         -> {"RESERVED"}
    [] e = "CAPTURE"               -> {"CAPTURE_ALLOWED"}
    [] e = "BEGIN_COMPENSATION"    -> {"CAPTURED"}
    [] e = "COMPLETE_COMPENSATION" -> {"COMPENSATION_PENDING"}
    [] OTHER                       -> Reversible]
Target == [e \in Event |->
  CASE e = "AUTHORIZE"             -> "AUTHORIZED"
    [] e = "RESERVE"               -> "RESERVED"
    [] e = "ALLOW_CAPTURE"         -> "CAPTURE_ALLOWED"
    [] e = "CAPTURE"               -> "CAPTURED"
    [] e = "BEGIN_COMPENSATION"    -> "COMPENSATION_PENDING"
    [] e = "COMPLETE_COMPENSATION" -> "COMPENSATED"
    [] e = "CANCEL"                -> "CANCELLED"
    [] e = "FAIL"                  -> "FAILED"]

(* The events whose reference the state also keeps in a field of its own:  *)
(* authorization, reservation, certificate, payment and compensation.      *)
Kept == {"AUTHORIZE", "RESERVE", "ALLOW_CAPTURE", "CAPTURE", "COMPLETE_COMPENSATION"}

Record == [id: EventId, event: Event, from: Stage, to: Stage, at: Time, ref: Reference]
State  == [stage: Stage, proposedAt: Time, refs: [Kept -> Reference \cup {None}],
           transitions: Seq(Record)]

ASSUME NoneAssumption == None \notin Reference /\ None \notin State

Proposed(at) == [stage |-> "PROPOSED", proposedAt |-> at,
                 refs |-> [e \in Kept |-> None], transitions |-> <<>>]

LastTime(s) == IF s.transitions = <<>> THEN s.proposedAt
               ELSE s.transitions[Len(s.transitions)].at

Recorded(s, id) == \E i \in 1 .. Len(s.transitions) : s.transitions[i].id = id

(* certificate verification; what does not depend on time is fixed when    *)
(* the certificate is issued for this transaction                          *)
Verifies(at) == at < CertExpires

(* A bug the properties must notice: event ids are not compared. *)
AllowedReused(s, e, id, at) ==
  /\ s.stage \in Sources[e]
  /\ at >= LastTime(s)
  /\ e = "ALLOW_CAPTURE" => Verifies(at)

(* What every engine operation requires of the caller's copy. *)
Allowed(s, e, id, at) ==
  /\ s.stage \in Sources[e]
  /\ ~Recorded(s, id)
  /\ at >= LastTime(s)
  /\ e = "ALLOW_CAPTURE" => Verifies(at)

(* A bug the properties must notice: the time is kept as the reference. *)
TransitionedMisplaced(s, e, id, ref, at) ==
  [s EXCEPT !.stage = Target[e],
            !.refs = [k \in Kept |-> IF k = e THEN at ELSE @[k]],
            !.transitions = Append(@, [id |-> id, event |-> e, from |-> s.stage,
                                       to |-> Target[e], at |-> at, ref |-> ref])]

Transitioned(s, e, id, ref, at) ==
  [s EXCEPT !.stage = Target[e],
            !.refs = [k \in Kept |-> IF k = e THEN ref ELSE @[k]],
            !.transitions = Append(@, [id |-> id, event |-> e, from |-> s.stage,
                                       to |-> Target[e], at |-> at, ref |-> ref])]

-------------------------------------------------------------------------------
Init ==
  /\ document = [version |-> 0, state |-> None]
  /\ held = [c \in Caller |-> None]
  /\ writing = [c \in Caller |-> None]

(* resume_or_propose finds a stored commitment. *)
Resume(c) ==
  /\ writing[c] = None
  /\ document.state # None
  /\ held' = [held EXCEPT ![c] = document.state]
  /\ UNCHANGED <<document, writing>>

(* A bug the properties must notice: the caller's copy runs ahead of the write. *)
CompareEagerly(c, updated) ==
  /\ writing[c] = None
  /\ document.state = held[c]
  /\ writing' = [writing EXCEPT ![c] = [state |-> updated, version |-> document.version]]
  /\ held' = [held EXCEPT ![c] = updated]
  /\ UNCHANGED document

(* The first half of compare_and_set: the document is what the caller has. *)
Compare(c, updated) ==
  /\ writing[c] = None
  /\ document.state = held[c]
  /\ writing' = [writing EXCEPT ![c] = [state |-> updated, version |-> document.version]]
  /\ UNCHANGED <<document, held>>

Propose(c, at) ==
  /\ held[c] = None
  /\ Compare(c, Proposed(at))

Transition(c, e, id, ref, at) ==
  /\ held[c] # None
  /\ Allowed(held[c], e, id, at)
  /\ Compare(c, Transitioned(held[c], e, id, ref, at))

(* A bug the properties must notice: UPDATE without the version. *)
SwapBlindly(c) ==
  /\ writing[c] # None
  /\ document' = [version |-> document.version + 1, state |-> writing[c].state]
  /\ held' = [held EXCEPT ![c] = writing[c].state]
  /\ writing' = [writing EXCEPT ![c] = None]

(* The second half: create, or UPDATE ... WHERE version = ?  *)
Swap(c) ==
  /\ writing[c] # None
  /\ writing[c].version = document.version
  /\ document' = [version |-> document.version + 1, state |-> writing[c].state]
  /\ held' = [held EXCEPT ![c] = writing[c].state]
  /\ writing' = [writing EXCEPT ![c] = None]

(* "commitment state changed concurrently" *)
Conflict(c) ==
  /\ writing[c] # None
  /\ writing[c].version # document.version
  /\ writing' = [writing EXCEPT ![c] = None]
  /\ UNCHANGED <<document, held>>

(* The caller's process stops; it starts again with nothing in memory. *)
Restart(c) ==
  /\ held[c] # None \/ writing[c] # None
  /\ held' = [held EXCEPT ![c] = None]
  /\ writing' = [writing EXCEPT ![c] = None]
  /\ UNCHANGED document

Next ==
  \E c \in Caller :
    \/ Resume(c) \/ Swap(c) \/ Conflict(c) \/ Restart(c)
    \/ \E at \in Time :
         \/ Propose(c, at)
         \/ \E e \in Event, id \in EventId, ref \in Reference : Transition(c, e, id, ref, at)

Spec == Init /\ [][Next]_vars

-------------------------------------------------------------------------------
TypeOK ==
  /\ document \in [version: Nat, state: State \cup {None}]
  /\ held \in [Caller -> State \cup {None}]
  /\ writing \in [Caller -> [state: State, version: Nat] \cup {None}]

(* coherent_history and _transition_is_legal: what the CommitmentState     *)
(* validator demands of every state that is built or loaded.               *)
CoherentHistory(s) ==
  LET h == s.transitions IN
  /\ \A i, j \in 1 .. Len(h) : h[i].id = h[j].id => i = j
  /\ s.stage = IF h = <<>> THEN "PROPOSED" ELSE h[Len(h)].to
  /\ \A i \in 1 .. Len(h) :
       /\ h[i].from = IF i = 1 THEN "PROPOSED" ELSE h[i - 1].to
       /\ h[i].from \in Sources[h[i].event]
       /\ h[i].to = Target[h[i].event]
       /\ h[i].at >= IF i = 1 THEN s.proposedAt ELSE h[i - 1].at
  /\ \A e \in Kept :
       LET matching == {i \in 1 .. Len(h) : h[i].event = e} IN
       /\ matching = {} => s.refs[e] = None
       /\ \A i \in matching :
            (\A j \in matching : j <= i) => s.refs[e] = h[i].ref

(* The engine's checks are enough: the validator that _transition calls,   *)
(* and that get calls on every load, never rejects what the engine built.  *)
ValidatorAccepts ==
  /\ document.state # None => CoherentHistory(document.state)
  /\ \A c \in Caller :
       /\ held[c] # None => CoherentHistory(held[c])
       /\ writing[c] # None => CoherentHistory(writing[c].state)

Extends(t, s) ==
  /\ t.proposedAt = s.proposedAt
  /\ Len(s.transitions) <= Len(t.transitions)
  /\ \A i \in 1 .. Len(s.transitions) : t.transitions[i] = s.transitions[i]

(* Stale callers cannot fork a commitment: every copy in memory is an      *)
(* earlier or the current version of the stored history.                   *)
CopiesArePrefixes ==
  \A c \in Caller : held[c] # None =>
    document.state # None /\ Extends(document.state, held[c])

(* No lost update: a write never drops or rewrites a recorded transition,  *)
(* whatever other callers did between its two transactions.                *)
HistoryOnlyGrows ==
  [][document.state # None =>
       document'.state # None /\ Extends(document'.state, document.state)]_vars

Captured(s) == \E i \in 1 .. Len(s.transitions) : s.transitions[i].event = "CAPTURE"

(* "captured funds cannot transition to FAILED; compensation must remain   *)
(* actionable": once a capture is recorded, every later stored stage is on *)
(* the way to COMPENSATED, and the capture was allowed by a certificate    *)
(* that had not expired when it was verified.                              *)
CaptureStaysActionable ==
  LET s == document.state IN
  s # None /\ Captured(s) =>
    /\ s.stage \in {"CAPTURED", "COMPENSATION_PENDING", "COMPENSATED"}
    /\ \E i \in 1 .. Len(s.transitions) :
         s.transitions[i].event = "ALLOW_CAPTURE" /\ Verifies(s.transitions[i].at)
===============================================================================
