--------------------------- MODULE CommitmentProofs ---------------------------
(* What Commitment guarantees for any callers, ids, references and times. *)
EXTENDS Commitment, TLAPS

(* A write in flight was computed from the version it read: unless another *)
(* write has landed since, it extends the stored history.                  *)
WritesExtend ==
  \A c \in Caller : writing[c] # None =>
    /\ writing[c].version <= document.version
    /\ writing[c].version = document.version /\ document.state # None =>
         Extends(writing[c].state, document.state)

(* Past the boundary a capture is recorded, and only there; from            *)
(* CAPTURE_ALLOWED on, a verified certificate is recorded.                  *)
Boundary(s) ==
  LET past == {"CAPTURED", "COMPENSATION_PENDING", "COMPENSATED"} IN
  /\ Captured(s) <=> s.stage \in past
  /\ s.stage \in past \cup {"CAPTURE_ALLOWED"} =>
       \E i \in 1 .. Len(s.transitions) :
         s.transitions[i].event = "ALLOW_CAPTURE" /\ Verifies(s.transitions[i].at)

Sound(s) == CoherentHistory(s) /\ Boundary(s)

EverythingIsSound ==
  /\ document.state # None => Sound(document.state)
  /\ \A c \in Caller :
       /\ held[c] # None => Sound(held[c])
       /\ writing[c] # None => Sound(writing[c].state)

IInv == TypeOK /\ WritesExtend /\ CopiesArePrefixes /\ EverythingIsSound

-------------------------------------------------------------------------------
(* t is s after a transition: one more record, one more kept reference. *)
Appended(t, s, e, id, ref, at) ==
  /\ t \in State
  /\ t.proposedAt = s.proposedAt
  /\ t.stage = Target[e]
  /\ t.refs = [k \in Kept |-> IF k = e THEN ref ELSE s.refs[k]]
  /\ Len(s.transitions) \in Nat
  /\ Len(t.transitions) = Len(s.transitions) + 1
  /\ \A i \in 1 .. Len(s.transitions) : t.transitions[i] = s.transitions[i]
  /\ t.transitions[Len(s.transitions) + 1] =
       [id |-> id, event |-> e, from |-> s.stage, to |-> Target[e], at |-> at, ref |-> ref]

LEMMA TransitionAppends ==
  ASSUME NEW s \in State, NEW e \in Event, NEW id \in EventId, NEW ref \in Reference,
         NEW at \in Time
  PROVE  Appended(Transitioned(s, e, id, ref, at), s, e, id, ref, at)
<1> DEFINE r == [id |-> id, event |-> e, from |-> s.stage, to |-> Target[e],
                 at |-> at, ref |-> ref]
           h == Append(s.transitions, r)
           kept == [k \in Kept |-> IF k = e THEN ref ELSE s.refs[k]]
           t == Transitioned(s, e, id, ref, at)
<1>1. Target[e] \in Stage
  BY DEF Target, Event, Stage
<1>2. s.transitions \in Seq(Record) /\ s.stage \in Stage
  BY DEF State
<1>3. r \in Record
  BY <1>1, <1>2 DEF Record
<1>4. kept \in [Kept -> Reference \cup {None}]
  BY DEF State
<1>5. /\ h \in Seq(Record)
      /\ Len(s.transitions) \in Nat
      /\ Len(h) = Len(s.transitions) + 1
      /\ \A i \in 1 .. Len(s.transitions) : h[i] = s.transitions[i]
      /\ h[Len(s.transitions) + 1] = r
  <2> HIDE DEF r
  <2> QED
    BY <1>2, <1>3
<1>6. t = [s EXCEPT !.stage = Target[e], !.refs = kept, !.transitions = h]
  BY DEF Transitioned
<1> HIDE DEF h, kept, t
<1>7. /\ t \in State
      /\ t.proposedAt = s.proposedAt /\ t.stage = Target[e]
      /\ t.refs = kept /\ t.transitions = h
  BY <1>1, <1>4, <1>5, <1>6 DEF State
<1>8. Appended(t, s, e, id, ref, at)
  BY <1>5, <1>7 DEF kept, Appended
<1> QED
  BY <1>8 DEF t

LEMMA InitialState == \A at \in Time : Proposed(at) \in State
  BY DEF Proposed, State, Stage

LEMMA ExtendsTransitive ==
  ASSUME NEW s \in State, NEW t \in State, NEW u \in State, Extends(u, t), Extends(t, s)
  PROVE  Extends(u, s)
<1>1. /\ Len(s.transitions) \in Nat /\ Len(t.transitions) \in Nat
      /\ Len(u.transitions) \in Nat
  BY DEF State
<1> QED
  BY <1>1 DEF Extends

LEMMA ExtendsItself == \A s \in State : Extends(s, s)
  BY DEF Extends, State

LEMMA AppendedExtends ==
  ASSUME NEW s, NEW t, NEW e, NEW id, NEW ref, NEW at, Appended(t, s, e, id, ref, at)
  PROVE  Extends(t, s)
  BY DEF Extends, Appended

-------------------------------------------------------------------------------
LEMMA ProposedIsSound == \A at \in Time : Sound(Proposed(at))
  BY DEF Proposed, Sound, CoherentHistory, Boundary, Captured

(* The engine's checks are what the validator and the boundary need. *)
LEMMA AllowedKeepsSound ==
  ASSUME NEW s \in State, NEW e \in Event, NEW id \in EventId, NEW ref \in Reference,
         NEW at \in Time, NEW t, Sound(s), Allowed(s, e, id, at),
         Appended(t, s, e, id, ref, at)
  PROVE  Sound(t)
<1> DEFINE n == Len(s.transitions)
           h == s.transitions
           g == t.transitions
<1>1. /\ n \in Nat /\ Len(g) = n + 1
      /\ \A i \in 1 .. n : g[i] = h[i]
      /\ g[n + 1].id = id /\ g[n + 1].event = e /\ g[n + 1].from = s.stage
      /\ g[n + 1].to = Target[e] /\ g[n + 1].at = at /\ g[n + 1].ref = ref
      /\ t.stage = Target[e] /\ t.proposedAt = s.proposedAt
      /\ t.refs = [k \in Kept |-> IF k = e THEN ref ELSE s.refs[k]]
  BY DEF Appended
<1>2. /\ s.stage \in Sources[e] /\ \A i \in 1 .. n : h[i].id # id
      /\ at >= IF n = 0 THEN s.proposedAt ELSE h[n].at
      /\ e = "ALLOW_CAPTURE" => Verifies(at)
  BY DEF Allowed, Recorded, LastTime, State
<1>3. /\ \A i, j \in 1 .. n : h[i].id = h[j].id => i = j
      /\ s.stage = IF n = 0 THEN "PROPOSED" ELSE h[n].to
      /\ \A i \in 1 .. n :
           /\ h[i].from = IF i = 1 THEN "PROPOSED" ELSE h[i - 1].to
           /\ h[i].from \in Sources[h[i].event]
           /\ h[i].to = Target[h[i].event]
           /\ h[i].at >= IF i = 1 THEN s.proposedAt ELSE h[i - 1].at
      /\ \A k \in Kept :
           /\ (\A i \in 1 .. n : h[i].event # k) => s.refs[k] = None
           /\ \A i \in 1 .. n :
                h[i].event = k /\ (\A j \in 1 .. n : h[j].event = k => j <= i)
                  => s.refs[k] = h[i].ref
  BY DEF Sound, CoherentHistory, State
<1>4. CoherentHistory(t)
  <2> HIDE DEF n, h, g
  <2>1. \A i, j \in 1 .. n + 1 : g[i].id = g[j].id => i = j
    BY <1>1, <1>2, <1>3
  <2>2. t.stage = g[n + 1].to
    BY <1>1
  <2>3. \A i \in 1 .. n + 1 :
          /\ g[i].from = IF i = 1 THEN "PROPOSED" ELSE g[i - 1].to
          /\ g[i].from \in Sources[g[i].event]
          /\ g[i].to = Target[g[i].event]
          /\ g[i].at >= IF i = 1 THEN t.proposedAt ELSE g[i - 1].at
    <3> TAKE i \in 1 .. n + 1
    <3>1. CASE i \in 1 .. n
      <4>1. g[i] = h[i] /\ (i # 1 => i - 1 \in 1 .. n)
        BY <1>1, <3>1
      <4>2. i # 1 => g[i - 1] = h[i - 1]
        BY <1>1, <4>1
      <4> QED
        BY <1>1, <1>3, <3>1, <4>1, <4>2
    <3>2. CASE i = n + 1
      <4>1. n = 0 <=> i = 1
        BY <1>1, <3>2
      <4>2. n # 0 => i - 1 = n /\ n \in 1 .. n
        BY <1>1, <3>2
      <4>3. n # 0 => g[i - 1] = h[n]
        BY <1>1, <4>2
      <4> QED
        BY <1>1, <1>2, <1>3, <3>2, <4>1, <4>3
    <3> QED
      BY <1>1, <3>1, <3>2
  <2>4. \A k \in Kept :
          /\ (\A i \in 1 .. n + 1 : g[i].event # k) => t.refs[k] = None
          /\ \A i \in 1 .. n + 1 :
               g[i].event = k /\ (\A j \in 1 .. n + 1 : g[j].event = k => j <= i)
                 => t.refs[k] = g[i].ref
    <3> TAKE k \in Kept
    <3>1. t.refs[k] = IF k = e THEN ref ELSE s.refs[k]
      BY <1>1
    <3>2. CASE k = e
      <4>1. n + 1 \in 1 .. n + 1 /\ g[n + 1].event = k /\ g[n + 1].ref = t.refs[k]
        BY <1>1, <3>1, <3>2
      <4>2. \A i \in 1 .. n + 1 : n + 1 <= i => i = n + 1
        BY <1>1
      <4> QED
        BY <4>1, <4>2
    <3>3. CASE k # e
      <4>1. /\ t.refs[k] = s.refs[k] /\ g[n + 1].event # k
            /\ \A i \in 1 .. n + 1 : i = n + 1 \/ i \in 1 .. n
            /\ \A i \in 1 .. n : i \in 1 .. n + 1 /\ g[i] = h[i]
        BY <1>1, <3>1, <3>3
      <4>2. (\A i \in 1 .. n + 1 : g[i].event # k) => t.refs[k] = None
        BY <1>3, <4>1
      <4>3. ASSUME NEW i \in 1 .. n + 1, g[i].event = k,
                   \A j \in 1 .. n + 1 : g[j].event = k => j <= i
            PROVE  t.refs[k] = g[i].ref
        <5>1. i \in 1 .. n /\ h[i].event = k /\ g[i] = h[i]
          BY <4>1, <4>3
        <5>2. \A j \in 1 .. n : h[j].event = k => j <= i
          BY <4>1, <4>3
        <5> QED
          BY <1>3, <4>1, <5>1, <5>2
      <4> QED
        BY <4>2, <4>3
    <3> QED
      BY <3>2, <3>3
  <2>5. g # <<>> /\ Len(g) = n + 1
    BY <1>1 DEF n
  <2>6. t.transitions = g
    BY DEF g
  <2> QED
    BY <2>1, <2>2, <2>3, <2>4, <2>5, <2>6 DEF CoherentHistory
<1>5. Boundary(t)
  <2>1. Captured(t) <=> Captured(s) \/ e = "CAPTURE"
    BY <1>1 DEF Captured
  <2>2. \A i \in 1 .. n : h[i].event = "ALLOW_CAPTURE" /\ Verifies(h[i].at) =>
          g[i].event = "ALLOW_CAPTURE" /\ Verifies(g[i].at) /\ i \in 1 .. Len(g)
    BY <1>1
  <2>3. e = "ALLOW_CAPTURE" =>
          g[n + 1].event = "ALLOW_CAPTURE" /\ Verifies(g[n + 1].at) /\ n + 1 \in 1 .. Len(g)
    BY <1>1, <1>2
  <2> HIDE DEF n, h, g
  <2>4. Captured(s) <=> s.stage \in {"CAPTURED", "COMPENSATION_PENDING", "COMPENSATED"}
    BY DEF Sound, Boundary
  <2>5. Captured(t) <=> t.stage \in {"CAPTURED", "COMPENSATION_PENDING", "COMPENSATED"}
    BY <1>1, <1>2, <2>1, <2>4 DEF Sources, Target, Event, Reversible
  <2>6. t.stage \in {"CAPTURE_ALLOWED", "CAPTURED", "COMPENSATION_PENDING", "COMPENSATED"}
          => \E i \in 1 .. Len(g) : g[i].event = "ALLOW_CAPTURE" /\ Verifies(g[i].at)
    <3>1. CASE e = "ALLOW_CAPTURE"
      BY <2>3, <3>1
    <3>2. CASE e \in {"CAPTURE", "BEGIN_COMPENSATION", "COMPLETE_COMPENSATION"}
      <4>1. s.stage \in {"CAPTURE_ALLOWED", "CAPTURED", "COMPENSATION_PENDING"}
        BY <1>2, <3>2 DEF Sources, Event
      <4>2. \E i \in 1 .. n : h[i].event = "ALLOW_CAPTURE" /\ Verifies(h[i].at)
        BY <4>1 DEF Sound, Boundary, n, h
      <4> QED
        BY <4>2, <2>2
    <3>3. CASE e \in {"AUTHORIZE", "RESERVE", "CANCEL", "FAIL"}
      BY <1>1, <3>3 DEF Target, Event
    <3> QED
      BY <3>1, <3>2, <3>3 DEF Event
  <2> QED
    BY <2>5, <2>6 DEF Boundary, g
<1> QED
  BY <1>4, <1>5 DEF Sound

LEMMA InitInv == Init => IInv
  BY DEF Init, IInv, TypeOK, WritesExtend, CopiesArePrefixes, EverythingIsSound

(* A write whose version is current replaces the history by a longer one. *)
LEMMA SwapExtends ==
  ASSUME IInv, NEW c \in Caller, Swap(c)
  PROVE  /\ document'.state \in State
         /\ document.state # None => Extends(document'.state, document.state)
  BY DEF IInv, TypeOK, WritesExtend, Swap

LEMMA SwapKeepsInv ==
  ASSUME IInv, NEW c \in Caller, Swap(c)
  PROVE  IInv'
<1> USE NoneAssumption
<1>1. TypeOK'
  BY DEF IInv, TypeOK, Swap
<1>2. WritesExtend'
  BY DEF IInv, TypeOK, WritesExtend, Swap
<1>3. CopiesArePrefixes'
  <2> SUFFICES ASSUME NEW d \in Caller, held'[d] # None
               PROVE  document'.state # None /\ Extends(document'.state, held'[d])
    BY DEF CopiesArePrefixes
  <2>1. CASE d = c
    BY <2>1, ExtendsItself, SwapExtends DEF IInv, TypeOK, Swap
  <2>2. CASE d # c
    <3>1. held[d] # None /\ held'[d] = held[d] /\ held[d] \in State
      BY <2>2 DEF IInv, TypeOK, Swap
    <3>2. document.state \in State /\ Extends(document.state, held[d])
      BY <3>1 DEF IInv, TypeOK, CopiesArePrefixes
    <3> QED
      BY <3>1, <3>2, SwapExtends, ExtendsTransitive
  <2> QED
    BY <2>1, <2>2
<1>4. EverythingIsSound'
  BY DEF IInv, TypeOK, EverythingIsSound, Swap
<1> QED
  BY <1>1, <1>2, <1>3, <1>4 DEF IInv

(* A write begins with a state that extends what was read and is sound. *)
LEMMA CompareKeepsInv ==
  ASSUME IInv, NEW c \in Caller, NEW t \in State, Compare(c, t), Sound(t),
         document.state # None => Extends(t, document.state)
  PROVE  IInv'
<1>1. TypeOK'
  BY DEF IInv, TypeOK, Compare
<1>2. WritesExtend'
  BY DEF IInv, TypeOK, WritesExtend, Compare
<1>3. CopiesArePrefixes'
  BY DEF IInv, CopiesArePrefixes, Compare
<1>4. EverythingIsSound'
  BY DEF IInv, TypeOK, EverythingIsSound, Compare
<1> QED
  BY <1>1, <1>2, <1>3, <1>4 DEF IInv

LEMMA NextKeepsInv == IInv /\ [Next]_vars => IInv'
<1> SUFFICES ASSUME IInv, [Next]_vars PROVE IInv'
  OBVIOUS
<1> USE NoneAssumption
<1>1. ASSUME NEW c \in Caller, Resume(c) PROVE IInv'
  <2>1. TypeOK'
    BY <1>1 DEF IInv, TypeOK, Resume
  <2>2. WritesExtend'
    BY <1>1 DEF IInv, WritesExtend, Resume
  <2>3. CopiesArePrefixes'
    BY <1>1, ExtendsItself DEF IInv, TypeOK, CopiesArePrefixes, Resume
  <2>4. EverythingIsSound'
    BY <1>1 DEF IInv, TypeOK, EverythingIsSound, Resume
  <2> QED
    BY <2>1, <2>2, <2>3, <2>4 DEF IInv
<1>2. ASSUME NEW c \in Caller, NEW at \in Time, Propose(c, at) PROVE IInv'
  <2>1. /\ Proposed(at) \in State /\ Sound(Proposed(at))
        /\ Compare(c, Proposed(at)) /\ document.state = None
    BY <1>2, InitialState, ProposedIsSound DEF Propose, Compare
  <2> QED
    BY <2>1, CompareKeepsInv
<1>3. ASSUME NEW c \in Caller, NEW e \in Event, NEW id \in EventId,
             NEW ref \in Reference, NEW at \in Time, Transition(c, e, id, ref, at)
      PROVE  IInv'
  <2> DEFINE t == Transitioned(held[c], e, id, ref, at)
  <2>1. /\ held[c] \in State /\ Sound(held[c]) /\ Allowed(held[c], e, id, at)
        /\ Compare(c, t) /\ document.state = held[c]
    BY <1>3 DEF Transition, Compare, IInv, TypeOK, EverythingIsSound
  <2>2. Appended(t, held[c], e, id, ref, at)
    BY <2>1, TransitionAppends
  <2> HIDE DEF t
  <2>3. t \in State
    BY <2>2 DEF Appended
  <2>4. Extends(t, held[c])
    BY <2>2, AppendedExtends
  <2>5. Sound(t)
    BY <2>1, <2>2, AllowedKeepsSound
  <2> QED
    BY <2>1, <2>3, <2>4, <2>5, CompareKeepsInv
<1>4. ASSUME NEW c \in Caller, Conflict(c) \/ Restart(c) PROVE IInv'
  <2>1. TypeOK'
    BY <1>4 DEF IInv, TypeOK, Conflict, Restart
  <2>2. WritesExtend'
    BY <1>4 DEF IInv, TypeOK, WritesExtend, Conflict, Restart
  <2>3. CopiesArePrefixes'
    BY <1>4 DEF IInv, TypeOK, CopiesArePrefixes, Conflict, Restart
  <2>4. EverythingIsSound'
    BY <1>4 DEF IInv, TypeOK, EverythingIsSound, Conflict, Restart
  <2> QED
    BY <2>1, <2>2, <2>3, <2>4 DEF IInv
<1>5. CASE UNCHANGED vars
  BY <1>5 DEF vars, IInv, TypeOK, WritesExtend, CopiesArePrefixes, EverythingIsSound
<1> QED
  BY <1>1, <1>2, <1>3, <1>4, <1>5, SwapKeepsInv DEF Next

THEOREM Invariance == Spec => []IInv
  BY InitInv, NextKeepsInv, PTL DEF Spec

(* The document, the copies and the writes in flight keep their types. *)
THEOREM TypeCorrect == Spec => []TypeOK
<1>1. IInv => TypeOK
  BY DEF IInv
<1> QED
  BY <1>1, Invariance, PTL

(* The validator never rejects a state the engine built. *)
THEOREM ValidatorNeverRejects == Spec => []ValidatorAccepts
<1>1. IInv => ValidatorAccepts
  BY DEF IInv, EverythingIsSound, Sound, ValidatorAccepts
<1> QED
  BY <1>1, Invariance, PTL

(* A stale caller holds an earlier version, never a fork. *)
THEOREM NoFork == Spec => []CopiesArePrefixes
<1>1. IInv => CopiesArePrefixes
  BY DEF IInv
<1> QED
  BY <1>1, Invariance, PTL

(* After a capture only compensation is left, and a verified certificate   *)
(* allowed the capture.                                                    *)
THEOREM CapturedFundsStayActionable == Spec => []CaptureStaysActionable
<1>1. IInv => CaptureStaysActionable
  BY DEF IInv, EverythingIsSound, Sound, Boundary, CaptureStaysActionable
<1> QED
  BY <1>1, Invariance, PTL

(* No write drops or rewrites what was recorded. *)
THEOREM NoLostUpdate == Spec => HistoryOnlyGrows
<1> DEFINE Grows == document.state # None =>
                      document'.state # None /\ Extends(document'.state, document.state)
<1>1. ASSUME IInv, [Next]_vars PROVE [Grows]_vars
  <2>1. ASSUME NEW c \in Caller, Swap(c) PROVE Grows
    BY <1>1, <2>1, SwapExtends, NoneAssumption
  <2>2. CASE document' = document
    BY <1>1, <2>2, ExtendsItself DEF IInv, TypeOK
  <2> QED
    BY <1>1, <2>1, <2>2 DEF Next, Resume, Propose, Transition, Compare, Conflict, Restart
<1>2. IInv /\ [Next]_vars => [Grows]_vars
  BY <1>1
<1> QED
  BY <1>2, Invariance, PTL DEF Spec, HistoryOnlyGrows
===============================================================================
