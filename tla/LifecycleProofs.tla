---------------------------- MODULE LifecycleProofs ----------------------------
(* What Lifecycle guarantees for any number of workers and faults, any      *)
(* expiry and any length of time.                                           *)
EXTENDS Lifecycle, TLAPS

Moved == {"captured", "refunded"}

(* What a worker may rely on at a place, though others run in between: the *)
(* payment record it has seen is only overtaken, never undone.             *)
Unbound ==
  {"idle", "begin", "boundCheck", "refused", "reserveClaim", "reserveRead", "reserveGet",
   "reserveWrite", "failing", "unwinding"}
Capturing ==
  {"decide", "captureClaim", "captureCheck", "captureGet", "capturePost",
   "captureAmbiguous", "captureWrite", "captureDone", "recordCapture"}
Refunding ==
  {"refundSnapshot", "refundClaim", "refundRead", "refundPoll", "refundPollWrite",
   "refundGet", "refundPost", "refundWrite", "refundDone", "completeCompensation"}
Ending    == {"finish", "executionDone"}
Secured   == {"captureDone", "recordCapture", "compensate"} \cup Refunding \cup Ending
Returned  == {"refundDone", "completeCompensation"} \cup Ending

Facts(w, p, pay, stage) ==
  /\ p \notin Unbound => pay # "NONE"
  /\ p \in Secured => pay \in Captured
  /\ p \in Returned => pay = "REFUNDED"
  /\ p \in Capturing => Reached(stage, "CAPTURE_ALLOWED")
  /\ p = "compensate" => Reached(stage, "CAPTURED")
  /\ p \in {"captureGet", "capturePost"} => CertificateValid(w)
  /\ p = "captureWrite" => provider \in Moved
  /\ p \in Refunding => stage = "COMPENSATION_PENDING"
  /\ p \in Ending => stage = "COMPENSATED"
  /\ p = "refundPollWrite" => refund = "processed"
  /\ p = "refundWrite" => /\ reply[w] \in {"pending", "processed"} /\ refund # "none"
                          /\ reply[w] = "processed" => refund = "processed"

Placed(w) ==
  /\ Facts(w, pc[w], payment, held[w].stage)
  /\ StageRank[held[w].stage] <= StageRank[commitment.stage]

(* The provider captures, or may still, only behind the recorded boundary, *)
(* and refunds only what it captured.                                      *)
ProviderFollowsBoundary ==
  /\ provider \in Moved \/ "capture" \in late => Reached(commitment.stage, "CAPTURE_ALLOWED")
  /\ refund = "processed" <=> provider = "refunded"
  /\ refund = "pending" => provider = "captured"

Shared ==
  /\ LocalFollowsProvider
  /\ JournalFollowsPayment
  /\ CachedResultsAreTrue
  /\ ProviderFollowsBoundary

IInv == TypeOK /\ Shared /\ \A w \in Worker : Placed(w)

-------------------------------------------------------------------------------
(* What a step of one worker does to the others. *)

Forward ==
  /\ PaymentRank[payment'] >= PaymentRank[payment]
  /\ StageRank[commitment'.stage] >= StageRank[commitment.stage]
  /\ provider \in Moved => provider' \in Moved
  /\ refund # "none" => refund' # "none"
  /\ refund = "processed" => refund' = "processed"

Alone(w) ==
  \A v \in Worker \ {w} :
    pc'[v] = pc[v] /\ now'[v] = now[v] /\ held'[v] = held[v] /\ reply'[v] = reply[v]

Untouched == provider \notin Moved /\ "capture" \notin late

Certified ==
  provider = "authorized" /\ provider' = "captured" =>
    /\ Reached(commitment.stage, "CAPTURE_ALLOWED")
    /\ \/ "capture" \in late
       \/ \E w \in Worker : At(w, "capturePost") /\ CertificateValid(w)

Refusal(w) == pc'[w] = "refused" /\ pc[w] # "refused" => Untouched

Good(w) ==
  /\ TypeOK' /\ Shared' /\ Placed(w)'
  /\ Forward /\ Alone(w) /\ Certified /\ Refusal(w)

(* A worker may enter place p. *)
Enters(w, p, pay, stage) ==
  /\ p \in Place
  /\ Facts(w, p, pay, stage)
  /\ p = "refused" => Untouched

-------------------------------------------------------------------------------
(* The two orders, spelled out for the provers. *)
LEMMA Ranks ==
  /\ Payment = {"NONE", "RESERVED", "CAPTURED", "REFUND_PENDING", "REFUNDED"}
  /\ PaymentRank["NONE"] = 0 /\ PaymentRank["RESERVED"] = 1 /\ PaymentRank["CAPTURED"] = 2
  /\ PaymentRank["REFUND_PENDING"] = 3 /\ PaymentRank["REFUNDED"] = 4
  /\ Stage = {"ABSENT", "PROPOSED", "AUTHORIZED", "RESERVED", "CAPTURE_ALLOWED",
              "CAPTURED", "COMPENSATION_PENDING", "COMPENSATED"}
  /\ StageRank["ABSENT"] = 0 /\ StageRank["PROPOSED"] = 1 /\ StageRank["AUTHORIZED"] = 2
  /\ StageRank["RESERVED"] = 3 /\ StageRank["CAPTURE_ALLOWED"] = 4
  /\ StageRank["CAPTURED"] = 5 /\ StageRank["COMPENSATION_PENDING"] = 6
  /\ StageRank["COMPENSATED"] = 7
<1>1. Payment = {"NONE", "RESERVED", "CAPTURED", "REFUND_PENDING", "REFUNDED"}
  BY DEF Payment, PaymentRank
<1>2. /\ PaymentRank["NONE"] = 0 /\ PaymentRank["RESERVED"] = 1 /\ PaymentRank["CAPTURED"] = 2
      /\ PaymentRank["REFUND_PENDING"] = 3 /\ PaymentRank["REFUNDED"] = 4
  BY DEF PaymentRank
<1>3. Stage = {"ABSENT", "PROPOSED", "AUTHORIZED", "RESERVED", "CAPTURE_ALLOWED",
               "CAPTURED", "COMPENSATION_PENDING", "COMPENSATED"}
  BY DEF Stage, StageRank
<1>4. /\ StageRank["ABSENT"] = 0 /\ StageRank["PROPOSED"] = 1 /\ StageRank["AUTHORIZED"] = 2
      /\ StageRank["RESERVED"] = 3 /\ StageRank["CAPTURE_ALLOWED"] = 4
      /\ StageRank["CAPTURED"] = 5 /\ StageRank["COMPENSATION_PENDING"] = 6
      /\ StageRank["COMPENSATED"] = 7
  BY DEF StageRank
<1> QED
  BY <1>1, <1>2, <1>3, <1>4

(* What a rank says. *)
LEMMA RankMeaning ==
  /\ \A p \in Payment :
       /\ PaymentRank[p] \in 0 .. 4
       /\ p # "NONE" <=> PaymentRank[p] >= 1
       /\ p \in Captured <=> PaymentRank[p] >= 2
       /\ p = "REFUNDED" <=> PaymentRank[p] >= 4
  /\ \A s \in Stage :
       /\ StageRank[s] \in 0 .. 7
       /\ s # "ABSENT" <=> StageRank[s] >= 1
       /\ s = "COMPENSATED" <=> StageRank[s] >= 7
       /\ Reached(s, "CAPTURE_ALLOWED") <=> StageRank[s] >= 4
       /\ Reached(s, "CAPTURED") <=> StageRank[s] >= 5
<1>1. \A p \in Payment :
        /\ PaymentRank[p] \in 0 .. 4
        /\ p # "NONE" <=> PaymentRank[p] >= 1
        /\ p \in Captured <=> PaymentRank[p] >= 2
        /\ p = "REFUNDED" <=> PaymentRank[p] >= 4
  BY Ranks DEF Captured
<1>2. \A s \in Stage :
        /\ StageRank[s] \in 0 .. 7
        /\ s # "ABSENT" <=> StageRank[s] >= 1
        /\ s = "COMPENSATED" <=> StageRank[s] >= 7
        /\ Reached(s, "CAPTURE_ALLOWED") <=> StageRank[s] >= 4
        /\ Reached(s, "CAPTURED") <=> StageRank[s] >= 5
  BY Ranks DEF Reached
<1> QED
  BY <1>1, <1>2

(* The lifecycle has a next stage until it is compensated. *)
LEMMA NextStage ==
  ASSUME NEW s \in Stage, s # "COMPENSATED"
  PROVE  After(s) \in Stage /\ StageRank[After(s)] = StageRank[s] + 1
<1>1. \E t \in Stage : StageRank[t] = StageRank[s] + 1
  BY Ranks
<1> QED
  BY <1>1 DEF After

-------------------------------------------------------------------------------
(* What a worker relies on, others' steps leave true. *)
LEMMA OthersStayPlaced ==
  ASSUME IInv, TypeOK', Forward, NEW v \in Worker,
         pc'[v] = pc[v], now'[v] = now[v], held'[v] = held[v], reply'[v] = reply[v]
  PROVE  Placed(v)'
<1>1. /\ payment \in Payment /\ payment' \in Payment
      /\ commitment.stage \in Stage /\ commitment'.stage \in Stage
      /\ held[v].stage \in Stage
  BY DEF IInv, TypeOK, Commitment
<1>2. /\ payment # "NONE" => payment' # "NONE"
      /\ payment \in Captured => payment' \in Captured
      /\ payment = "REFUNDED" => payment' = "REFUNDED"
  BY <1>1, RankMeaning DEF Forward
<1>3. StageRank[held[v].stage] <= StageRank[commitment'.stage]
  BY <1>1, RankMeaning DEF Forward, IInv, Placed
<1>4. CertificateValid(v) => CertificateValid(v)'
  BY DEF CertificateValid
<1>5. Facts(v, pc[v], payment, held[v].stage)
  BY DEF IInv, Placed
<1>6. Facts(v, pc[v], payment, held[v].stage)'
  BY <1>2, <1>4, <1>5 DEF Facts, Forward
<1> QED
  BY <1>3, <1>6 DEF Placed

(* A good step of one worker keeps the invariant. *)
LEMMA GoodKeepsInv ==
  ASSUME IInv, NEW w \in Worker, Good(w)
  PROVE  IInv'
<1>1. \A v \in Worker : Placed(v)'
  BY OthersStayPlaced DEF Good, Alone
<1> QED
  BY <1>1 DEF Good, IInv

-------------------------------------------------------------------------------
(* One lemma for each way a worker steps. *)

(* A worker that gives up, or rests, relies on nothing. *)
LEMMA NothingNeeded ==
  ASSUME NEW w, NEW p \in {"idle", "failing", "unwinding"}, NEW pay, NEW stage
  PROVE  Enters(w, p, pay, stage)
BY DEF Enters, Facts, Place, Unbound, Secured, Returned, Capturing, Refunding, Ending

Row == [status: {"ABSENT", "PENDING", "COMPLETED"}, owner: Worker \cup {Gone}, lapsed: BOOLEAN]

(* A step that only moves on is good if its worker may enter the next place. *)
LEMMA LookIsGood ==
  ASSUME IInv, NEW w \in Worker, NEW here, NEW next, Look(w, here, next),
         Enters(w, next, payment, held[w].stage)
  PROVE  Good(w)
<1>1. /\ UNCHANGED <<clock, provider, refund, late, faults, payment, commitment, row,
                     now, held, reply>>
      /\ pc' = [pc EXCEPT ![w] = next] /\ next \in Place
  BY DEF Look, Goto, world, stored, Enters
<1>2. TypeOK' /\ pc'[w] = next
  BY <1>1 DEF IInv, TypeOK
<1>3. Shared'
  BY <1>1 DEF IInv, Shared, LocalFollowsProvider, JournalFollowsPayment,
              CachedResultsAreTrue, ProviderFollowsBoundary
<1>4. Placed(w)'
  BY <1>1, <1>2 DEF Placed, IInv, Facts, CertificateValid, Enters
<1>5. Forward
  BY <1>1, RankMeaning DEF Forward, IInv, TypeOK, Commitment
<1>6. Alone(w) /\ Certified /\ Refusal(w)
  BY <1>1, <1>2 DEF Alone, Certified, Refusal, IInv, TypeOK, Enters
<1> QED
  BY <1>2, <1>3, <1>4, <1>5, <1>6 DEF Good

(* A claim changes no COMPLETED row, and a replayed result is one to rely on. *)
LEMMA ClaimIsGood ==
  ASSUME IInv, NEW w \in Worker, NEW r \in Operation, NEW here, NEW enter, NEW replayed,
         Claim(w, r, here, enter, replayed),
         Enters(w, enter, payment, held[w].stage),
         row[r].status = "COMPLETED" => Enters(w, replayed, payment, held[w].stage)
  PROVE  Good(w)
<1>1. PICK next \in {enter, replayed} :
        /\ pc' = [pc EXCEPT ![w] = next]
        /\ Enters(w, next, payment, held[w].stage)
        /\ \/ row' = [row EXCEPT ![r] = [status |-> "PENDING", owner |-> w, lapsed |-> FALSE]]
           \/ row' = row
  BY DEF Claim, Goto
<1>2. UNCHANGED <<clock, provider, refund, late, faults, payment, commitment, now, held, reply>>
  BY DEF Claim, world
<1>3. TypeOK' /\ pc'[w] = next
  <2>1. [status |-> "PENDING", owner |-> w, lapsed |-> FALSE] \in Row
    BY DEF Row
  <2>2. row' \in [Operation -> Row]
    BY <1>1, <2>1 DEF IInv, TypeOK, Row
  <2>3. next \in Place
    BY <1>1 DEF Enters
  <2> QED
    BY <1>1, <1>2, <2>2, <2>3 DEF IInv, TypeOK, Row
<1>4. Shared'
  <2>1. \A q \in Operation : row'[q].status = "COMPLETED" => row[q].status = "COMPLETED"
    BY <1>1 DEF IInv, TypeOK
  <2> QED
    BY <1>2, <2>1 DEF IInv, Shared, LocalFollowsProvider, JournalFollowsPayment,
                      CachedResultsAreTrue, ProviderFollowsBoundary, Operation
<1>5. Placed(w)'
  BY <1>1, <1>2, <1>3 DEF Placed, IInv, Facts, CertificateValid, Enters
<1>6. Forward
  BY <1>2, RankMeaning DEF Forward, IInv, TypeOK, Commitment
<1>7. Alone(w) /\ Certified /\ Refusal(w)
  BY <1>1, <1>2, <1>3 DEF Alone, Certified, Refusal, IInv, TypeOK, Enters
<1> QED
  BY <1>3, <1>4, <1>5, <1>6, <1>7 DEF Good

(* What a COMPLETED row of an operation says. *)
Holds(r) ==
  /\ r = "RESERVE" => payment # "NONE"
  /\ r = "CAPTURE" => payment \in Captured
  /\ r = "REFUND" => payment = "REFUNDED"
  /\ r = "EXECUTION" => payment = "REFUNDED" /\ commitment.stage = "COMPENSATED"

(* A row is completed only with what the stores hold. *)
LEMMA CompleteRowIsGood ==
  ASSUME IInv, NEW w \in Worker, NEW r \in Operation, NEW here, NEW next,
         CompleteRow(w, r, here, next), Holds(r), next # "refused",
         \/ UNCHANGED <<now, held, reply>> /\ Enters(w, next, payment, held[w].stage)
         \/ Forget(w) /\ next = "idle"
  PROVE  Good(w)
<1>1. PICK q \in {next, "failing"} :
        /\ pc' = [pc EXCEPT ![w] = q]
        /\ \/ row' = [row EXCEPT ![r] = [NoRow EXCEPT !.status = "COMPLETED"]]
           \/ row' = row
  BY DEF CompleteRow, Goto
<1>2. UNCHANGED <<clock, provider, refund, late, faults, payment, commitment>>
  BY DEF CompleteRow, world
<1>3. \A s \in Operation :
        row'[s].status = "COMPLETED" => row[s].status = "COMPLETED" \/ s = r
  BY <1>1 DEF IInv, TypeOK
<1>4. Shared'
  BY <1>2, <1>3 DEF IInv, Shared, LocalFollowsProvider, JournalFollowsPayment,
                    CachedResultsAreTrue, ProviderFollowsBoundary, Operation, Holds
<1>5. row' \in [Operation -> Row]
  <2>1. [NoRow EXCEPT !.status = "COMPLETED"] \in Row
    BY DEF NoRow, Row
  <2> QED
    BY <1>1, <2>1 DEF IInv, TypeOK, Row
<1>6. Absent \in Commitment /\ 0 \in 0 .. MaxTime /\ StageRank[Absent.stage] = 0
  BY Ranks, TimeAssumption DEF Absent, Commitment
<1>7. q \in Place /\ q # "refused"
  <2>1. next \in Place
    BY NothingNeeded DEF Enters
  <2> QED
    BY <2>1, NothingNeeded DEF Enters
<1>8. TypeOK' /\ pc'[w] = q
  BY <1>1, <1>2, <1>5, <1>6, <1>7 DEF IInv, TypeOK, Forget, Row
<1>9. Placed(w)'
  <2>1. CASE UNCHANGED <<now, held, reply>> /\ Enters(w, next, payment, held[w].stage)
    <3>1. Facts(w, q, payment, held[w].stage)
      BY <2>1, NothingNeeded DEF Enters
    <3> QED
      BY <1>1, <1>2, <1>8, <2>1, <3>1 DEF Placed, IInv, Facts, CertificateValid
  <2>2. CASE Forget(w) /\ next = "idle"
    <3>1. Facts(w, q, payment, held[w].stage)' /\ q = pc'[w]
      BY <1>8, <2>2, NothingNeeded DEF Facts, Unbound, Secured, Returned, Capturing, Refunding, Ending
    <3>2. held'[w] = Absent /\ commitment'.stage \in Stage
      BY <1>2, <2>2 DEF Forget, IInv, TypeOK, Commitment
    <3> QED
      BY <1>6, <3>1, <3>2, RankMeaning DEF Placed
  <2> QED
    BY <2>1, <2>2
<1>10. Forward
  BY <1>2, RankMeaning DEF Forward, IInv, TypeOK, Commitment
<1>11. Alone(w) /\ Certified /\ Refusal(w)
  BY <1>1, <1>2, <1>7, <1>8 DEF Alone, Certified, Refusal, IInv, TypeOK, Forget
<1> QED
  BY <1>4, <1>8, <1>9, <1>10, <1>11 DEF Good

(* A compare_and_set of the payment record overtakes what it expected. *)
LEMMA StoreIsGood ==
  ASSUME IInv, NEW w \in Worker, NEW here, NEW next,
         NEW expected \in Payment, NEW updated \in Payment,
         Store(w, here, expected, updated, next),
         PaymentRank[expected] <= PaymentRank[updated],
         Enters(w, next, updated, held[w].stage), next # "refused",
         updated \in Captured => provider \in Moved,
         updated = "REFUND_PENDING" => refund # "none",
         updated = "REFUNDED" => provider = "refunded"
  PROVE  Good(w)
<1>1. PICK q \in {next, "failing"} :
        /\ pc' = [pc EXCEPT ![w] = q]
        /\ \/ q = next /\ payment = expected /\ payment' = updated
           \/ q = "failing" /\ payment' = payment
  BY DEF Store, Goto
<1>2. UNCHANGED <<clock, provider, refund, late, faults, commitment, row, now, held, reply>>
  BY DEF Store, world
<1>3. Enters(w, q, payment', held[w].stage) /\ q # "refused"
  BY <1>1, NothingNeeded
<1>4. TypeOK' /\ pc'[w] = q
  BY <1>1, <1>2, <1>3 DEF IInv, TypeOK, Enters
<1>5. payment \in Payment /\ payment' \in Payment /\ commitment.stage \in Stage
  BY <1>4 DEF IInv, TypeOK, Commitment
<1>6. Forward
  BY <1>1, <1>2, <1>5, RankMeaning DEF Forward
<1>7. Shared'
  <2>1. LocalFollowsProvider'
    BY <1>1, <1>2 DEF IInv, Shared, LocalFollowsProvider, Moved
  <2>2. /\ payment # "NONE" => payment' # "NONE"
        /\ payment \in Captured => payment' \in Captured
        /\ payment = "REFUNDED" => payment' = "REFUNDED"
    BY <1>5, <1>6, RankMeaning DEF Forward
  <2> QED
    BY <1>2, <2>1, <2>2 DEF IInv, Shared, JournalFollowsPayment, CachedResultsAreTrue,
                            ProviderFollowsBoundary
<1>8. Placed(w)'
  BY <1>2, <1>3, <1>4 DEF Placed, IInv, Facts, CertificateValid, Enters
<1>9. Alone(w) /\ Certified /\ Refusal(w)
  BY <1>1, <1>2, <1>3, <1>4 DEF Alone, Certified, Refusal, IInv, TypeOK
<1> QED
  BY <1>4, <1>6, <1>7, <1>8, <1>9 DEF Good

(* The worker records t, a later stage than any that is stored. *)
LEMMA RecordIsGood ==
  ASSUME IInv, NEW w \in Worker, NEW next, NEW t \in Commitment,
         commitment' = t, held' = [held EXCEPT ![w] = t],
         pc' = [pc EXCEPT ![w] = next],
         UNCHANGED <<world, payment, row, now, reply>>,
         StageRank[t.stage] > StageRank[commitment.stage],
         payment # "NONE",
         Reached(t.stage, "CAPTURED") => payment \in Captured,
         t.stage = "COMPENSATED" => payment = "REFUNDED",
         Enters(w, next, payment, t.stage),
         next \notin {"refused", "captureGet", "capturePost"}
  PROVE  Good(w)
<1>1. UNCHANGED <<clock, provider, refund, late, faults, payment, row, now, reply>>
  BY DEF world
<1>2. TypeOK' /\ pc'[w] = next /\ held'[w] = t
  BY <1>1 DEF IInv, TypeOK, Enters
<1>3. payment \in Payment /\ commitment.stage \in Stage /\ t.stage \in Stage
  BY DEF IInv, TypeOK, Commitment
<1>4. Forward
  BY <1>1, <1>3, RankMeaning DEF Forward
<1>5. /\ Reached(commitment.stage, "CAPTURE_ALLOWED") => Reached(t.stage, "CAPTURE_ALLOWED")
      /\ commitment.stage = "COMPENSATED" => t.stage = "COMPENSATED"
  BY <1>3, RankMeaning
<1>6. Shared'
  BY <1>1, <1>5 DEF IInv, Shared, LocalFollowsProvider, JournalFollowsPayment,
                    CachedResultsAreTrue, ProviderFollowsBoundary
<1>7. Placed(w)'
  <2>1. Facts(w, next, payment, t.stage)'
    BY <1>1 DEF Enters, Facts
  <2> QED
    BY <1>1, <1>2, <1>3, <2>1, RankMeaning DEF Placed
<1>8. Alone(w) /\ Certified /\ Refusal(w)
  BY <1>1, <1>2 DEF Alone, Certified, Refusal, IInv, TypeOK
<1> QED
  BY <1>2, <1>4, <1>6, <1>7, <1>8 DEF Good

(* A transition of the engine is recorded, or its worker gives up. *)
LEMMA AdvanceIsGood ==
  ASSUME IInv, NEW w \in Worker, NEW next, Advance(w, next),
         held[w].stage # "COMPENSATED",
         payment # "NONE",
         Reached(After(held[w].stage), "CAPTURED") => payment \in Captured,
         After(held[w].stage) = "COMPENSATED" => payment = "REFUNDED",
         Enters(w, next, payment, After(held[w].stage)),
         next \notin {"refused", "captureGet", "capturePost"}
  PROVE  Good(w)
<1> DEFINE t == [held[w] EXCEPT !.stage = After(held[w].stage), !.last = now[w]]
<1>1. held[w] \in Commitment /\ held[w].stage \in Stage /\ now[w] \in 0 .. MaxTime
  BY DEF IInv, TypeOK, Commitment
<1>2. /\ After(held[w].stage) \in Stage
      /\ StageRank[After(held[w].stage)] = StageRank[held[w].stage] + 1
  BY <1>1, NextStage
<1>3. t \in Commitment /\ t.stage = After(held[w].stage)
  BY <1>1, <1>2 DEF Commitment
<1>4. \/ /\ commitment = held[w] /\ commitment' = t /\ held' = [held EXCEPT ![w] = t]
         /\ pc' = [pc EXCEPT ![w] = next]
      \/ pc' = [pc EXCEPT ![w] = "failing"] /\ UNCHANGED <<commitment, held>>
  BY DEF Advance, Goto
<1>5. UNCHANGED <<world, payment, row, now, reply>>
  BY DEF Advance
<1>6. CASE /\ commitment = held[w] /\ commitment' = t /\ held' = [held EXCEPT ![w] = t]
           /\ pc' = [pc EXCEPT ![w] = next]
  <2>1. StageRank[t.stage] > StageRank[commitment.stage]
    BY <1>1, <1>2, <1>3, <1>6, RankMeaning
  <2> HIDE DEF t
  <2> QED
    BY <1>3, <1>5, <1>6, <2>1, RecordIsGood
<1>7. CASE pc' = [pc EXCEPT ![w] = "failing"] /\ UNCHANGED <<commitment, held>>
  <2>1. Look(w, pc[w], "failing")
    BY <1>5, <1>7 DEF Look, At, Goto, stored
  <2> QED
    BY <2>1, NothingNeeded, LookIsGood
<1> QED
  BY <1>4, <1>6, <1>7

(* Unwinding, or dying, only takes rows away. *)
LEMMA ForgetIsGood ==
  ASSUME IInv, NEW w \in Worker, NEW next \in {"idle", "unwinding"},
         pc' = [pc EXCEPT ![w] = next], Forget(w),
         row' \in [Operation -> Row],
         \A r \in Operation : row'[r].status = "COMPLETED" => row[r].status = "COMPLETED",
         UNCHANGED <<clock, provider, refund, late, payment, commitment>>,
         faults' \in 0 .. Faults
  PROVE  Good(w)
<1>1. Absent \in Commitment /\ 0 \in 0 .. MaxTime /\ StageRank[Absent.stage] = 0
  BY Ranks, TimeAssumption DEF Absent, Commitment
<1>2. TypeOK' /\ pc'[w] = next /\ held'[w] = Absent
  BY <1>1 DEF IInv, TypeOK, Forget, Row, Place
<1>3. Shared'
  BY DEF IInv, Shared, LocalFollowsProvider, JournalFollowsPayment,
         CachedResultsAreTrue, ProviderFollowsBoundary, Operation
<1>4. payment \in Payment /\ commitment.stage \in Stage
  BY DEF IInv, TypeOK, Commitment
<1>5. Placed(w)'
  <2>1. Facts(w, next, payment, held[w].stage)'
    BY DEF Facts, Unbound, Secured, Returned, Capturing, Refunding, Ending
  <2> QED
    BY <1>1, <1>2, <1>4, <2>1, RankMeaning DEF Placed
<1>6. Forward
  BY <1>4, RankMeaning DEF Forward
<1>7. Alone(w) /\ Certified /\ Refusal(w)
  BY <1>2 DEF Alone, Certified, Refusal, IInv, TypeOK, Forget
<1> QED
  BY <1>2, <1>3, <1>5, <1>6, <1>7 DEF Good

-------------------------------------------------------------------------------
(* The steps of a worker. *)

(* The head of execute: a refusal is decided before anything is bound. *)
LEMMA HeadIsGood ==
  ASSUME IInv, NEW w \in Worker,
         Execute(w) \/ Begin(w) \/ BoundCheck(w) \/ Refused(w)
  PROVE  Good(w)
<1>1. payment \in Payment /\ commitment.stage \in Stage
  BY DEF IInv, TypeOK, Commitment
<1>2. \A p \in {"begin", "boundCheck", "reserveClaim"} :
        Enters(w, p, payment, held[w].stage)
  BY DEF Enters, Facts, Place, Unbound, Secured, Returned, Capturing, Refunding, Ending
<1>3. ~Reached(commitment.stage, "CAPTURE_ALLOWED") =>
        Enters(w, "refused", payment, held[w].stage)
  BY DEF IInv, Shared, ProviderFollowsBoundary, Untouched,
         Enters, Facts, Place, Unbound, Secured, Returned, Capturing, Refunding, Ending
<1>4. CASE Execute(w)
  BY <1>2, <1>4, NothingNeeded, ClaimIsGood DEF Execute, Operation
<1>5. CASE Begin(w)
  <2>1. payment = "NONE" => ~Reached(commitment.stage, "CAPTURE_ALLOWED")
    BY <1>1, RankMeaning DEF IInv, Shared, JournalFollowsPayment
  <2>2. PICK next \in {"reserveClaim", "boundCheck", "refused"} :
          /\ pc' = [pc EXCEPT ![w] = next]
          /\ next = "refused" => payment = "NONE"
    <3>1. clock \in Nat /\ HandoffExpiry \in Nat
      BY TimeAssumption DEF IInv, TypeOK
    <3>2. payment \in Captured \cup {"RESERVED", "NONE"}
      BY <1>1, Ranks DEF Captured
    <3>3. CASE clock <= HandoffExpiry \/ payment \in Captured
      <4>1. pc' = [pc EXCEPT ![w] = "reserveClaim"]
        <5>1. payment \in Captured => payment # "NONE" /\ payment # "RESERVED"
          BY DEF Captured
        <5>2. /\ clock <= HandoffExpiry \/ payment \in Captured
              /\ ~(clock > HandoffExpiry /\ payment = "RESERVED")
              /\ ~(clock > HandoffExpiry /\ payment = "NONE")
          BY <3>1, <3>3, <5>1
        <5> QED
          BY <1>5, <5>2 DEF Begin, Goto
      <4> QED
        BY <4>1
    <3>4. CASE clock > HandoffExpiry /\ payment = "RESERVED"
      <4>1. pc' = [pc EXCEPT ![w] = "boundCheck"]
        BY <1>5, <3>1, <3>4 DEF Begin, Goto, Captured
      <4> QED
        BY <4>1
    <3>5. CASE clock > HandoffExpiry /\ payment = "NONE"
      <4>1. pc' = [pc EXCEPT ![w] = "refused"]
        BY <1>5, <3>1, <3>5 DEF Begin, Goto, Captured
      <4> QED
        BY <3>5, <4>1
    <3> QED
      BY <3>1, <3>2, <3>3, <3>4, <3>5
  <2>3. Enters(w, next, payment, held[w].stage)
    BY <1>2, <1>3, <2>1, <2>2
  <2>4. /\ UNCHANGED <<clock, provider, refund, late, faults, payment, commitment, row,
                       held, reply>>
        /\ now' = [now EXCEPT ![w] = clock]
    BY <1>5 DEF Begin, world, stored
  <2>5. TypeOK' /\ pc'[w] = next
    BY <2>2, <2>3, <2>4 DEF IInv, TypeOK, Enters
  <2>6. Shared'
    BY <2>4 DEF IInv, Shared, LocalFollowsProvider, JournalFollowsPayment,
                CachedResultsAreTrue, ProviderFollowsBoundary
  <2>7. Placed(w)'
    BY <2>2, <2>3, <2>4, <2>5 DEF Placed, IInv, Facts, Enters
  <2>8. Forward
    BY <1>1, <2>4, RankMeaning DEF Forward
  <2>9. Alone(w) /\ Certified /\ Refusal(w)
    BY <2>2, <2>3, <2>4, <2>5 DEF Alone, Certified, Refusal, IInv, TypeOK, Enters
  <2> QED
    BY <2>5, <2>6, <2>7, <2>8, <2>9 DEF Good
<1>6. CASE BoundCheck(w)
  BY <1>2, <1>3, <1>6, LookIsGood DEF BoundCheck
<1>7. CASE Refused(w)
  BY <1>7, NothingNeeded, LookIsGood DEF Refused
<1> QED
  BY <1>4, <1>5, <1>6, <1>7

(* reserve binds the payment before anyone relies on it. *)
LEMMA ReserveIsGood ==
  ASSUME IInv, NEW w \in Worker,
         \/ ReserveClaim(w) \/ ReserveRead(w) \/ ReserveGet(w) \/ ReserveWrite(w)
         \/ ReserveDone(w)
  PROVE  Good(w)
<1>1. /\ \A p \in {"reserveRead", "reserveGet", "reserveWrite"} :
           \A pay \in Payment : Enters(w, p, pay, held[w].stage)
      /\ \A p \in {"reserveDone", "resume"} :
           \A pay \in Payment : pay # "NONE" => Enters(w, p, pay, held[w].stage)
  BY DEF Enters, Facts, Place, Unbound, Secured, Returned, Capturing, Refunding, Ending
<1>2. payment \in Payment
  BY DEF IInv, TypeOK
<1>3. pc[w] \in {"reserveDone", "resume"} => payment # "NONE"
  BY DEF IInv, Placed, Facts, Unbound
<1>4. CASE ReserveClaim(w)
  <2>1. row["RESERVE"].status = "COMPLETED" => payment # "NONE"
    BY DEF IInv, Shared, CachedResultsAreTrue
  <2> QED
    BY <1>1, <1>2, <1>4, <2>1, ClaimIsGood DEF ReserveClaim, Operation
<1>5. CASE ReserveRead(w)
  BY <1>1, <1>2, <1>5, LookIsGood DEF ReserveRead
<1>6. CASE ReserveGet(w)
  BY <1>1, <1>2, <1>6, NothingNeeded, LookIsGood DEF ReserveGet
<1>7. CASE ReserveWrite(w)
  <2>1. /\ "NONE" \in Payment /\ "RESERVED" \in Payment /\ "RESERVED" \notin Captured
        /\ PaymentRank["NONE"] <= PaymentRank["RESERVED"]
    BY Ranks DEF Captured
  <2>2. Enters(w, "reserveDone", "RESERVED", held[w].stage)
    BY <1>1, <2>1
  <2>3. Store(w, "reserveWrite", "NONE", "RESERVED", "reserveDone")
    BY <1>7 DEF ReserveWrite
  <2> QED
    BY <2>1, <2>2, <2>3, StoreIsGood
<1>8. CASE ReserveDone(w)
  <2>1. CompleteRow(w, "RESERVE", "reserveDone", "resume") /\ UNCHANGED <<now, held, reply>>
    BY <1>8 DEF ReserveDone
  <2>2. payment # "NONE"
    BY <1>3, <2>1 DEF CompleteRow, At
  <2>3. Holds("RESERVE")
    BY <2>2 DEF Holds
  <2> QED
    BY <1>1, <1>2, <2>1, <2>2, <2>3, CompleteRowIsGood DEF Operation
<1> QED
  BY <1>4, <1>5, <1>6, <1>7, <1>8

(* The commitment is proposed and advanced only over a bound payment. *)
LEMMA JournalIsGood ==
  ASSUME IInv, NEW w \in Worker,
         Resume(w) \/ Propose(w) \/ Journal(w) \/ Decide(w)
  PROVE  Good(w)
<1>1. /\ \A p \in {"propose", "journal"} : \A stage \in Stage :
           payment # "NONE" => Enters(w, p, payment, stage)
      /\ \A stage \in Stage : payment # "NONE" /\ Reached(stage, "CAPTURE_ALLOWED") =>
           Enters(w, "decide", payment, stage)
  BY DEF Enters, Facts, Place, Unbound, Secured, Returned, Capturing, Refunding, Ending
<1>2. pc[w] \in {"resume", "propose", "journal", "decide"} => payment # "NONE"
  BY DEF IInv, Placed, Facts, Unbound
<1>3. /\ payment \in Payment /\ commitment \in Commitment /\ commitment.stage \in Stage
      /\ held[w].stage \in Stage /\ now[w] \in 0 .. MaxTime
  BY DEF IInv, TypeOK, Commitment
<1>4. CASE Resume(w)
  <2>1. PICK next \in {"propose", "journal"} : pc' = [pc EXCEPT ![w] = next]
    BY <1>4 DEF Resume, Goto
  <2>2. /\ UNCHANGED <<clock, provider, refund, late, faults, payment, commitment, row,
                       now, reply>>
        /\ held' = [held EXCEPT ![w] = commitment] /\ payment # "NONE"
    BY <1>2, <1>4 DEF Resume, At, world, stored
  <2>3. Enters(w, next, payment, commitment.stage)
    BY <1>1, <1>3, <2>2
  <2>4. TypeOK' /\ pc'[w] = next /\ held'[w] = commitment
    BY <2>1, <2>2, <2>3 DEF IInv, TypeOK, Enters
  <2>5. Shared'
    BY <2>2 DEF IInv, Shared, LocalFollowsProvider, JournalFollowsPayment,
                CachedResultsAreTrue, ProviderFollowsBoundary
  <2>6. Placed(w)'
    <3>1. Facts(w, next, payment, commitment.stage)'
      BY <2>1, <2>2, <2>3 DEF Facts, Enters, Capturing
    <3> QED
      BY <1>3, <2>2, <2>4, <3>1, RankMeaning DEF Placed
  <2>7. Forward
    BY <1>3, <2>2, RankMeaning DEF Forward
  <2>8. Alone(w) /\ Certified /\ Refusal(w)
    BY <2>1, <2>2, <2>4 DEF Alone, Certified, Refusal, IInv, TypeOK
  <2> QED
    BY <2>4, <2>5, <2>6, <2>7, <2>8 DEF Good
<1>5. CASE Propose(w)
  <2> DEFINE t == [stage |-> "PROPOSED", proposedAt |-> now[w], last |-> now[w]]
  <2>1. t \in Commitment /\ t.stage = "PROPOSED" /\ "PROPOSED" \in Stage
    BY <1>3, Ranks DEF Commitment
  <2>2. payment # "NONE"
    BY <1>2, <1>5 DEF Propose, At
  <2>3. Enters(w, "journal", payment, "PROPOSED")
    BY <1>1, <2>1, <2>2
  <2>4. ~Reached("PROPOSED", "CAPTURED")
    BY Ranks DEF Reached
  <2>5. CASE commitment = Absent
    <3>1. /\ commitment' = t /\ held' = [held EXCEPT ![w] = t]
          /\ pc' = [pc EXCEPT ![w] = "journal"]
          /\ UNCHANGED <<world, payment, row, now, reply>>
      BY <1>5, <2>5 DEF Propose, Goto
    <3>2. StageRank[t.stage] > StageRank[commitment.stage]
      BY <2>1, <2>5, Ranks DEF Absent
    <3> HIDE DEF t
    <3> QED
      BY <2>1, <2>2, <2>3, <2>4, <3>1, <3>2, RecordIsGood
  <2>6. CASE commitment # Absent
    <3>1. Look(w, "propose", "failing")
      BY <1>5, <2>6 DEF Propose, Look, stored, Goto
    <3> QED
      BY <3>1, NothingNeeded, LookIsGood
  <2> QED
    BY <2>5, <2>6
<1>6. CASE Journal(w)
  <2>1. payment # "NONE"
    BY <1>2, <1>6 DEF Journal, At
  <2>2. CASE Reached(held[w].stage, "CAPTURE_ALLOWED")
    BY <1>1, <1>3, <1>6, <2>1, <2>2, LookIsGood DEF Journal
  <2>3. CASE ~Reached(held[w].stage, "CAPTURE_ALLOWED")
    <3>1. held[w].stage # "COMPENSATED"
      BY <1>3, <2>3, RankMeaning
    <3>2. /\ After(held[w].stage) \in Stage
          /\ StageRank[After(held[w].stage)] = StageRank[held[w].stage] + 1
      BY <1>3, <3>1, NextStage
    <3>3. ~Reached(After(held[w].stage), "CAPTURED") /\ After(held[w].stage) # "COMPENSATED"
      BY <1>3, <2>3, <3>2, RankMeaning
    <3>4. Advance(w, "journal")
      BY <1>6, <2>3 DEF Journal
    <3> QED
      BY <1>1, <2>1, <3>1, <3>2, <3>3, <3>4, AdvanceIsGood
  <2> QED
    BY <2>2, <2>3
<1>7. CASE Decide(w)
  <2>1. payment # "NONE"
    BY <1>2, <1>7 DEF Decide, Look, At
  <2>2. Reached(held[w].stage, "CAPTURE_ALLOWED")
    BY <1>7 DEF Decide, Look, At, IInv, Placed, Facts, Capturing
  <2>3. payment \in Captured => Enters(w, "recordCapture", payment, held[w].stage)
    BY <2>1, <2>2 DEF Enters, Facts, Place, Unbound, Secured, Returned, Capturing, Refunding, Ending
  <2>4. Enters(w, "captureClaim", payment, held[w].stage)
    BY <2>1, <2>2
       DEF Enters, Facts, Place, Unbound, Secured, Returned, Capturing, Refunding, Ending
  <2>5. PICK next \in {"recordCapture", "captureClaim", "failing"} :
          /\ Look(w, "decide", next)
          /\ next = "recordCapture" => payment \in Captured
    BY <1>7 DEF Decide
  <2> QED
    BY <2>3, <2>4, <2>5, NothingNeeded, LookIsGood
<1> QED
  BY <1>4, <1>5, <1>6, <1>7

(* The provider captures for a certified worker, and the record follows. *)
LEMMA CaptureIsGood ==
  ASSUME IInv, NEW w \in Worker,
         \/ CaptureClaim(w) \/ CaptureCheck(w) \/ CaptureGet(w) \/ CapturePost(w)
         \/ CaptureAmbiguous(w) \/ CaptureWrite(w) \/ CaptureDone(w) \/ RecordCapture(w)
  PROVE  Good(w)
<1>1. /\ payment \in Payment /\ commitment.stage \in Stage /\ held[w].stage \in Stage
      /\ Facts(w, pc[w], payment, held[w].stage)
  BY DEF IInv, TypeOK, Commitment, Placed
<1>2. /\ pc[w] \in Capturing => payment # "NONE"
      /\ pc[w] \in Capturing => Reached(held[w].stage, "CAPTURE_ALLOWED")
      /\ pc[w] \in {"captureDone", "recordCapture"} => payment \in Captured
  BY <1>1 DEF Facts, Unbound, Capturing, Secured
<1>3. /\ payment # "NONE" /\ Reached(held[w].stage, "CAPTURE_ALLOWED") =>
           /\ Enters(w, "captureCheck", payment, held[w].stage)
           /\ CertificateValid(w) => /\ Enters(w, "captureGet", payment, held[w].stage)
                                     /\ Enters(w, "capturePost", payment, held[w].stage)
           /\ Enters(w, "captureAmbiguous", payment, held[w].stage)
           /\ provider \in Moved => Enters(w, "captureWrite", payment, held[w].stage)
           /\ payment \in Captured => /\ Enters(w, "captureDone", payment, held[w].stage)
                                      /\ Enters(w, "recordCapture", payment, held[w].stage)
      /\ \A stage \in Stage : payment \in Captured /\ Reached(stage, "CAPTURED") =>
           Enters(w, "compensate", payment, stage)
  BY DEF Enters, Facts, Place, Unbound, Secured, Returned, Capturing, Refunding, Ending, Captured
<1>4. CASE CaptureClaim(w)
  <2>1. payment # "NONE" /\ Reached(held[w].stage, "CAPTURE_ALLOWED")
    BY <1>2, <1>4 DEF CaptureClaim, Claim, At, Capturing
  <2>2. row["CAPTURE"].status = "COMPLETED" => payment \in Captured
    BY DEF IInv, Shared, CachedResultsAreTrue
  <2> QED
    BY <1>1, <1>3, <1>4, <2>1, <2>2, ClaimIsGood DEF CaptureClaim, Operation
<1>5. CASE CaptureCheck(w)
  <2>1. payment # "NONE" /\ Reached(held[w].stage, "CAPTURE_ALLOWED")
    BY <1>2, <1>5 DEF CaptureCheck, Look, At, Capturing
  <2>2. PICK next \in {"failing", "captureDone", "captureGet"} :
          /\ Look(w, "captureCheck", next)
          /\ next = "captureDone" => payment \in Captured
          /\ next = "captureGet" => CertificateValid(w)
    BY <1>5 DEF CaptureCheck
  <2> QED
    BY <1>3, <2>1, <2>2, NothingNeeded, LookIsGood
<1>6. CASE CaptureGet(w)
  <2>1. payment # "NONE" /\ Reached(held[w].stage, "CAPTURE_ALLOWED") /\ CertificateValid(w)
    BY <1>1, <1>2, <1>6 DEF CaptureGet, Look, At, Capturing, Facts
  <2> QED
    BY <1>3, <1>6, <2>1, NothingNeeded, LookIsGood DEF CaptureGet
<1>7. CASE CapturePost(w)
  <2>1. /\ payment # "NONE" /\ Reached(held[w].stage, "CAPTURE_ALLOWED") /\ CertificateValid(w)
        /\ At(w, "capturePost")
    BY <1>1, <1>2, <1>7 DEF CapturePost, At, Capturing, Facts
  <2>2. CASE provider # "authorized"
    <3>1. Look(w, "capturePost", "captureAmbiguous")
      BY <1>7, <2>2 DEF CapturePost, Look, Goto, world, stored
    <3> QED
      BY <1>3, <2>1, <3>1, LookIsGood
  <2>3. CASE provider = "authorized"
    <3>1. /\ UNCHANGED <<clock, refund, late, faults, payment, commitment, row, now, held, reply>>
          /\ provider' = "captured" /\ pc' = [pc EXCEPT ![w] = "captureWrite"]
      BY <1>7, <2>3 DEF CapturePost, Goto, stored
    <3>2. TypeOK' /\ pc'[w] = "captureWrite"
      BY <1>3, <2>1, <3>1 DEF IInv, TypeOK, Place
    <3>3. Reached(commitment.stage, "CAPTURE_ALLOWED")
      BY <1>1, <2>1, RankMeaning DEF IInv, Placed
    <3>4. Shared'
      BY <2>3, <3>1, <3>3 DEF IInv, Shared, LocalFollowsProvider, JournalFollowsPayment,
                              CachedResultsAreTrue, ProviderFollowsBoundary, Captured
    <3>5. Facts(w, "captureWrite", payment, held[w].stage)'
      BY <2>1, <3>1 DEF Facts, Unbound, Secured, Returned, Capturing, Refunding, Ending, Moved
    <3>6. Placed(w)'
      BY <3>1, <3>2, <3>5 DEF Placed, IInv
    <3>7. Forward
      BY <1>1, <2>3, <3>1, RankMeaning DEF Forward, Moved
    <3>8. Alone(w) /\ Certified /\ Refusal(w)
      BY <2>1, <3>1, <3>2, <3>3 DEF Alone, Certified, Refusal, IInv, TypeOK
    <3> QED
      BY <3>2, <3>4, <3>6, <3>7, <3>8 DEF Good
  <2> QED
    BY <2>2, <2>3
<1>8. CASE CaptureAmbiguous(w)
  <2>1. payment # "NONE" /\ Reached(held[w].stage, "CAPTURE_ALLOWED")
    BY <1>2, <1>8 DEF CaptureAmbiguous, Look, At, Capturing
  <2> QED
    BY <1>3, <1>8, <2>1, NothingNeeded, LookIsGood DEF CaptureAmbiguous, Moved
<1>9. CASE CaptureWrite(w)
  <2>1. /\ Store(w, "captureWrite", "RESERVED", "CAPTURED", "captureDone")
        /\ provider \in Moved /\ Reached(held[w].stage, "CAPTURE_ALLOWED")
    BY <1>1, <1>9 DEF CaptureWrite, Store, At, Facts, Capturing
  <2>2. Enters(w, "captureDone", "CAPTURED", held[w].stage)
    BY <2>1 DEF Enters, Facts, Place, Unbound, Secured, Returned, Capturing, Refunding, Ending, Captured
  <2>3. /\ "RESERVED" \in Payment /\ "CAPTURED" \in Payment
        /\ PaymentRank["RESERVED"] <= PaymentRank["CAPTURED"]
    BY Ranks
  <2> QED
    BY <2>1, <2>2, <2>3, StoreIsGood
<1>10. CASE CaptureDone(w)
  <2>1. CompleteRow(w, "CAPTURE", "captureDone", "recordCapture") /\ UNCHANGED <<now, held, reply>>
    BY <1>10 DEF CaptureDone
  <2>2. /\ payment \in Captured /\ payment # "NONE"
        /\ Reached(held[w].stage, "CAPTURE_ALLOWED")
    BY <1>2, <2>1 DEF CompleteRow, At, Capturing
  <2> QED
    BY <1>1, <1>3, <2>1, <2>2, CompleteRowIsGood DEF Operation, Holds
<1>11. CASE RecordCapture(w)
  <2>1. /\ payment \in Captured /\ payment # "NONE"
        /\ Reached(held[w].stage, "CAPTURE_ALLOWED")
    BY <1>2, <1>11 DEF RecordCapture, At, Captured, Capturing
  <2>2. CASE Reached(held[w].stage, "CAPTURED")
    BY <1>1, <1>3, <1>11, <2>1, <2>2, LookIsGood DEF RecordCapture
  <2>3. CASE ~Reached(held[w].stage, "CAPTURED")
    <3>1. held[w].stage # "COMPENSATED"
      BY <1>1, <2>3, RankMeaning
    <3>2. /\ After(held[w].stage) \in Stage
          /\ StageRank[After(held[w].stage)] = StageRank[held[w].stage] + 1
      BY <1>1, <3>1, NextStage
    <3>3. /\ After(held[w].stage) # "COMPENSATED"
          /\ Reached(After(held[w].stage), "CAPTURED")
      BY <1>1, <2>1, <2>3, <3>2, RankMeaning
    <3>4. Advance(w, "compensate")
      BY <1>11, <2>3 DEF RecordCapture
    <3> QED
      BY <1>3, <2>1, <3>1, <3>2, <3>3, <3>4, AdvanceIsGood
  <2> QED
    BY <2>2, <2>3
<1> QED
  BY <1>4, <1>5, <1>6, <1>7, <1>8, <1>9, <1>10, <1>11

(* The provider makes a refund only of captured money, and its answer is    *)
(* what it has.                                                             *)
LEMMA RefundsIsSound ==
  ASSUME IInv, Refunds, UNCHANGED <<payment, commitment, row>>,
         late' \subseteq late
  PROVE  /\ provider' \in {"authorized", "captured", "refunded", "released"}
         /\ refund' \in {"none", "pending", "processed"}
         /\ Shared'
         /\ provider \in Moved => provider' \in Moved /\ refund' # "none"
         /\ provider' = "captured" => provider = "captured"
         /\ refund # "none" => refund' # "none"
         /\ refund = "processed" => refund' = "processed"
<1>1. \/ /\ provider = "captured" /\ refund = "none"
         /\ \/ refund' = "pending" /\ provider' = "captured"
            \/ refund' = "processed" /\ provider' = "refunded"
      \/ provider' = provider /\ refund' = refund /\ ~(refund = "none" /\ provider = "captured")
  BY DEF Refunds
<1>2. /\ provider \in {"authorized", "captured", "refunded", "released"}
      /\ refund \in {"none", "pending", "processed"}
  BY DEF IInv, TypeOK
<1>3. Shared'
  BY <1>1 DEF IInv, Shared, LocalFollowsProvider, JournalFollowsPayment,
              CachedResultsAreTrue, ProviderFollowsBoundary, Moved, Captured
<1> QED
  BY <1>1, <1>2, <1>3 DEF IInv, Shared, ProviderFollowsBoundary, Moved

(* The record says REFUNDED, and the commitment COMPENSATED, after the provider. *)
LEMMA RefundIsGood ==
  ASSUME IInv, NEW w \in Worker,
         \/ Compensate(w) \/ RefundSnapshot(w) \/ RefundClaim(w) \/ RefundRead(w)
         \/ RefundPoll(w) \/ RefundPollWrite(w) \/ RefundGet(w) \/ RefundPost(w)
         \/ RefundWrite(w) \/ RefundDone(w) \/ CompleteCompensation(w)
  PROVE  Good(w)
<1>1. /\ payment \in Payment /\ commitment.stage \in Stage /\ held[w].stage \in Stage
      /\ Facts(w, pc[w], payment, held[w].stage)
  BY DEF IInv, TypeOK, Commitment, Placed
<1>2. /\ pc[w] = "compensate" => payment \in Captured /\ Reached(held[w].stage, "CAPTURED")
      /\ pc[w] \in Refunding => payment \in Captured /\ held[w].stage = "COMPENSATION_PENDING"
      /\ pc[w] \in {"refundDone", "completeCompensation"} => payment = "REFUNDED"
  BY <1>1 DEF Facts, Secured, Returned
<1>3. /\ \A pay \in Captured : \A p \in Refunding :
           p \notin {"refundPollWrite", "refundWrite"} \cup Returned =>
             Enters(w, p, pay, "COMPENSATION_PENDING")
      /\ \A p \in {"refundDone", "completeCompensation"} :
           Enters(w, p, "REFUNDED", "COMPENSATION_PENDING")
      /\ \A pay \in Captured :
           refund = "processed" => Enters(w, "refundPollWrite", pay, "COMPENSATION_PENDING")
      /\ Enters(w, "finish", "REFUNDED", "COMPENSATED")
  BY DEF Enters, Facts, Place, Unbound, Secured, Returned, Capturing, Refunding, Ending, Captured
<1>4. /\ Captured \subseteq Payment /\ "REFUNDED" \in Captured
      /\ "CAPTURED" \in Captured /\ "REFUND_PENDING" \in Captured
      /\ PaymentRank["CAPTURED"] <= PaymentRank["REFUND_PENDING"]
      /\ PaymentRank["CAPTURED"] <= PaymentRank["REFUNDED"]
      /\ PaymentRank["REFUND_PENDING"] <= PaymentRank["REFUNDED"]
  BY Ranks DEF Captured
<1>5. CASE Compensate(w)
  <2>1. payment \in Captured /\ payment # "NONE" /\ Reached(held[w].stage, "CAPTURED")
    BY <1>2, <1>5 DEF Compensate, At, Captured
  <2>2. held[w].stage \in {"CAPTURED", "COMPENSATION_PENDING", "COMPENSATED"}
    BY <1>1, <2>1, Ranks DEF Reached
  <2>3. CASE held[w].stage = "CAPTURED"
    <3>1. Advance(w, "refundSnapshot")
      BY <1>5, <2>3 DEF Compensate
    <3>2. After(held[w].stage) = "COMPENSATION_PENDING"
      BY <1>1, <2>3, NextStage, Ranks
    <3>3. Enters(w, "refundSnapshot", payment, "COMPENSATION_PENDING")
      BY <1>3, <2>1 DEF Refunding, Returned, Ending
    <3> QED
      BY <2>1, <2>3, <3>1, <3>2, <3>3, AdvanceIsGood
  <2>4. CASE held[w].stage = "COMPENSATION_PENDING"
    <3>1. Look(w, "compensate", "refundSnapshot")
      BY <1>5, <2>4 DEF Compensate
    <3>2. Enters(w, "refundSnapshot", payment, "COMPENSATION_PENDING")
      BY <1>3, <2>1 DEF Refunding, Returned, Ending
    <3> QED
      BY <2>4, <3>1, <3>2, LookIsGood
  <2>5. CASE held[w].stage = "COMPENSATED"
    <3>1. Look(w, "compensate", "finish")
      BY <1>5, <2>5 DEF Compensate
    <3>2. payment = "REFUNDED"
      BY <1>1, <2>5, RankMeaning DEF IInv, Placed, Shared, JournalFollowsPayment
    <3> QED
      BY <1>3, <2>5, <3>1, <3>2, LookIsGood
  <2> QED
    BY <2>2, <2>3, <2>4, <2>5
<1>6. CASE pc[w] \in Refunding
  <2>1. payment \in Captured /\ held[w].stage = "COMPENSATION_PENDING" /\ payment # "NONE"
    BY <1>2, <1>6 DEF Captured
  <2>2. \A p \in {"refundSnapshot", "refundClaim", "refundRead", "refundPoll", "refundGet",
                  "refundPost"} : Enters(w, p, payment, held[w].stage)
    BY <1>3, <2>1 DEF Refunding, Returned, Ending
  <2>3. /\ payment = "REFUNDED" => /\ Enters(w, "refundDone", payment, held[w].stage)
                                   /\ Enters(w, "completeCompensation", payment, held[w].stage)
        /\ Enters(w, "refundDone", "REFUNDED", held[w].stage)
        /\ refund = "processed" => Enters(w, "refundPollWrite", payment, held[w].stage)
    BY <1>3, <2>1
  <2>4. CASE RefundSnapshot(w)
    BY <2>2, <2>3, <2>4, LookIsGood DEF RefundSnapshot
  <2>5. CASE RefundClaim(w)
    <3>1. row["REFUND"].status = "COMPLETED" => payment = "REFUNDED"
      BY DEF IInv, Shared, CachedResultsAreTrue
    <3> QED
      BY <2>2, <2>3, <2>5, <3>1, ClaimIsGood DEF RefundClaim, Operation
  <2>6. CASE RefundRead(w)
    <3>1. PICK next \in {"refundDone", "refundPoll", "refundGet", "failing"} :
            /\ Look(w, "refundRead", next)
            /\ next = "refundDone" => payment = "REFUNDED"
      BY <2>6 DEF RefundRead
    <3> QED
      BY <2>2, <2>3, <3>1, NothingNeeded, LookIsGood
  <2>7. CASE RefundPoll(w)
    BY <2>3, <2>7, NothingNeeded, LookIsGood DEF RefundPoll
  <2>8. CASE RefundPollWrite(w)
    <3>1. /\ Store(w, "refundPollWrite", "REFUND_PENDING", "REFUNDED", "refundDone")
          /\ refund = "processed"
      BY <1>1, <2>8 DEF RefundPollWrite, Store, At, Facts
    <3>2. provider = "refunded"
      BY <3>1 DEF IInv, Shared, ProviderFollowsBoundary
    <3> QED
      BY <1>4, <2>3, <3>1, <3>2, StoreIsGood DEF Moved
  <2>9. CASE RefundGet(w)
    BY <2>2, <2>9, NothingNeeded, LookIsGood DEF RefundGet
  <2>10. CASE RefundPost(w)
    <3>1. /\ Refunds /\ reply' = [reply EXCEPT ![w] = refund']
          /\ pc' = [pc EXCEPT ![w] = "refundWrite"]
          /\ UNCHANGED <<clock, late, faults, payment, commitment, row, now, held>>
      BY <2>10 DEF RefundPost, Goto, stored
    <3>2. /\ provider' \in {"authorized", "captured", "refunded", "released"}
          /\ refund' \in {"none", "pending", "processed"}
          /\ Shared'
          /\ provider \in Moved => provider' \in Moved /\ refund' # "none"
          /\ provider' = "captured" => provider = "captured"
          /\ refund # "none" => refund' # "none"
          /\ refund = "processed" => refund' = "processed"
      BY <3>1, RefundsIsSound
    <3>3. provider \in Moved
      BY <2>1 DEF IInv, Shared, LocalFollowsProvider, Moved
    <3>4. TypeOK' /\ pc'[w] = "refundWrite" /\ reply'[w] = refund'
      BY <3>1, <3>2 DEF IInv, TypeOK, Place
    <3>5. Placed(w)'
      <4>1. Facts(w, "refundWrite", payment, held[w].stage)'
        BY <2>1, <3>1, <3>2, <3>3, <3>4
           DEF Facts, Unbound, Secured, Returned, Capturing, Refunding, Ending
      <4> QED
        BY <3>1, <3>4, <4>1 DEF Placed, IInv
    <3>6. Forward
      BY <1>1, <3>1, <3>2, RankMeaning DEF Forward
    <3>7. Alone(w) /\ Certified /\ Refusal(w)
      BY <3>1, <3>2, <3>4 DEF Alone, Certified, Refusal, IInv, TypeOK
    <3> QED
      BY <3>2, <3>4, <3>5, <3>6, <3>7 DEF Good
  <2>11. CASE RefundWrite(w)
    <3>1. At(w, "refundWrite")
      BY <2>11 DEF RefundWrite, Store
    <3>2. refund # "none" /\ (reply[w] = "processed" => refund = "processed")
      BY <1>1, <3>1 DEF At, Facts
    <3>3. CASE reply[w] = "processed"
      <4>1. Store(w, "refundWrite", "CAPTURED", "REFUNDED", "refundDone")
        BY <2>11, <3>3 DEF RefundWrite
      <4>2. provider = "refunded"
        BY <3>2, <3>3 DEF IInv, Shared, ProviderFollowsBoundary
      <4> QED
        BY <1>4, <2>3, <4>1, <4>2, StoreIsGood DEF Moved
    <3>4. CASE reply[w] # "processed"
      <4>1. Store(w, "refundWrite", "CAPTURED", "REFUND_PENDING", "failing")
        BY <2>11, <3>4 DEF RefundWrite
      <4>2. provider \in Moved
        BY <2>1 DEF IInv, Shared, LocalFollowsProvider, Moved
      <4> QED
        BY <1>4, <3>2, <4>1, <4>2, NothingNeeded, StoreIsGood
    <3> QED
      BY <3>3, <3>4
  <2>12. CASE RefundDone(w)
    <3>1. /\ CompleteRow(w, "REFUND", "refundDone", "completeCompensation")
          /\ UNCHANGED <<now, held, reply>> /\ payment = "REFUNDED"
      BY <1>2, <2>12 DEF RefundDone, CompleteRow, At
    <3> QED
      BY <2>3, <3>1, CompleteRowIsGood DEF Operation, Holds
  <2>13. CASE CompleteCompensation(w)
    <3>1. Advance(w, "finish") /\ payment = "REFUNDED"
      BY <1>2, <2>13 DEF CompleteCompensation, At
    <3>2. After(held[w].stage) = "COMPENSATED"
      BY <1>1, <2>1, NextStage, Ranks
    <3> QED
      BY <1>3, <2>1, <3>1, <3>2, AdvanceIsGood
  <2> QED
    BY <1>5, <2>4, <2>5, <2>6, <2>7, <2>8, <2>9, <2>10, <2>11, <2>12, <2>13
<1> QED
  <2>1. ~Compensate(w) => pc[w] \in Refunding
    BY DEF RefundSnapshot, RefundClaim, RefundRead, RefundPoll, RefundPollWrite, RefundGet,
           RefundPost, RefundWrite, RefundDone, CompleteCompensation, Look, Claim, Store,
           CompleteRow, At, Refunding
  <2> QED
    BY <1>5, <1>6, <2>1

(* Only a finished lifecycle completes the execution's row. *)
LEMMA EndIsGood ==
  ASSUME IInv, NEW w \in Worker,
         Finish(w) \/ ExecutionDone(w) \/ Fail(w) \/ Unwind(w)
  PROVE  Good(w)
<1>1. CASE Finish(w)
  <2>1. held[w].stage = "COMPENSATED" /\ payment = "REFUNDED" =>
          Enters(w, "executionDone", payment, held[w].stage)
    BY DEF Enters, Facts, Place, Unbound, Secured, Returned, Capturing, Refunding, Ending, Captured
  <2> QED
    BY <1>1, <2>1, NothingNeeded, LookIsGood DEF Finish
<1>2. CASE ExecutionDone(w)
  <2>1. CompleteRow(w, "EXECUTION", "executionDone", "idle") /\ Forget(w)
    BY <1>2 DEF ExecutionDone
  <2>2. payment = "REFUNDED" /\ held[w].stage = "COMPENSATED"
    BY <2>1 DEF CompleteRow, At, IInv, Placed, Facts, Ending, Returned
  <2>3. commitment.stage = "COMPENSATED"
    <3>1. commitment.stage \in Stage /\ held[w].stage \in Stage
      BY DEF IInv, TypeOK, Commitment
    <3> QED
      BY <2>2, <3>1, RankMeaning DEF IInv, Placed
  <2> QED
    BY <2>1, <2>2, <2>3, CompleteRowIsGood DEF Operation, Holds
<1>3. CASE Fail(w) \/ Unwind(w)
  <2>1. PICK rows \in {Inner, {"EXECUTION"}}, next \in {"idle", "unwinding"} :
          /\ row' = [r \in Operation |-> IF r \in rows /\ Owns(w, r) THEN NoRow ELSE row[r]]
          /\ pc' = [pc EXCEPT ![w] = next]
    BY <1>3 DEF Fail, Unwind, Delete, Goto
  <2>2. /\ Forget(w)
        /\ UNCHANGED <<clock, provider, refund, late, faults, payment, commitment>>
    BY <1>3 DEF Fail, Unwind, Delete, world
  <2>3. NoRow \in Row /\ NoRow.status # "COMPLETED"
    BY DEF NoRow, Row
  <2>4. row' \in [Operation -> Row] /\ faults' \in 0 .. Faults
    BY <2>1, <2>2, <2>3 DEF IInv, TypeOK, Row
  <2>5. \A r \in Operation : row'[r].status = "COMPLETED" => row[r].status = "COMPLETED"
    BY <2>1, <2>3
  <2> QED
    BY <2>1, <2>2, <2>4, <2>5, ForgetIsGood
<1> QED
  BY <1>1, <1>2, <1>3

(* Every step of a worker is good. *)
LEMMA StepIsGood ==
  ASSUME IInv, NEW w \in Worker, Step(w)
  PROVE  Good(w)
BY HeadIsGood, ReserveIsGood, JournalIsGood, CaptureIsGood, RefundIsGood, EndIsGood DEF Step

(* So is every fault that may strike it. *)
LEMMA FaultIsGood ==
  ASSUME IInv, NEW w \in Worker,
         Crash(w) \/ LoseGet(w) \/ LoseCapture(w) \/ LoseRefund(w)
  PROVE  Good(w)
<1>1. /\ payment \in Payment /\ commitment.stage \in Stage /\ held[w].stage \in Stage
      /\ Facts(w, pc[w], payment, held[w].stage)
  BY DEF IInv, TypeOK, Commitment, Placed
<1>2. faults' \in 0 .. Faults
  <2>1. Fault /\ faults \in 0 .. Faults
    BY DEF Crash, LoseGet, LoseCapture, LoseRefund, IInv, TypeOK
  <2> QED
    BY <2>1, FaultAssumption DEF Fault
<1>3. CASE Crash(w)
  <2>1. /\ row' = [r \in Operation |->
                     IF Owns(w, r) THEN [row[r] EXCEPT !.owner = Gone] ELSE row[r]]
        /\ pc' = [pc EXCEPT ![w] = "idle"] /\ Forget(w)
        /\ UNCHANGED <<clock, provider, refund, late, payment, commitment>>
    BY <1>3 DEF Crash, Goto
  <2>2. \A r \in Operation : row[r] \in Row
    BY DEF IInv, TypeOK, Row
  <2>3. \A r \in Operation : row'[r] \in Row /\ row'[r].status = row[r].status
    BY <2>1, <2>2 DEF Row
  <2>4. row' \in [Operation -> Row]
    BY <2>1, <2>3
  <2> QED
    BY <1>2, <2>1, <2>3, <2>4, ForgetIsGood
<1>4. CASE LoseGet(w) \/ LoseCapture(w) \/ LoseRefund(w)
  <2>1. PICK next \in {"failing", "captureAmbiguous"} :
          /\ pc' = [pc EXCEPT ![w] = next]
          /\ next = "captureAmbiguous" => LoseCapture(w)
    BY <1>4 DEF LoseGet, LoseCapture, LoseRefund, Goto
  <2>2. UNCHANGED <<clock, payment, commitment, row, now, held, reply>>
    BY <1>4 DEF LoseGet, LoseCapture, LoseRefund, stored
  <2>3. LoseCapture(w) => /\ payment # "NONE" /\ CertificateValid(w) /\ At(w, "capturePost")
                          /\ Reached(held[w].stage, "CAPTURE_ALLOWED")
                          /\ Reached(commitment.stage, "CAPTURE_ALLOWED")
    BY <1>1, RankMeaning DEF LoseCapture, At, Facts, Unbound, Capturing, IInv, Placed
  <2>4. LoseCapture(w) =>
          /\ refund' = refund /\ late' \subseteq late \cup {"capture"} /\ late \subseteq late'
          /\ provider' = provider \/ (provider = "authorized" /\ provider' = "captured")
    BY DEF LoseCapture, Captures
  <2>5. LoseGet(w) => UNCHANGED <<provider, refund, late>>
    BY DEF LoseGet
  <2>6. LoseRefund(w) =>
          \/ Refunds /\ late' = late
          \/ UNCHANGED <<provider, refund>> /\ late' = late \cup {"refund"}
    BY DEF LoseRefund
  <2>7. /\ provider' \in {"authorized", "captured", "refunded", "released"}
        /\ refund' \in {"none", "pending", "processed"}
        /\ late' \subseteq {"capture", "refund"}
        /\ Shared'
        /\ provider \in Moved => provider' \in Moved
        /\ refund # "none" => refund' # "none"
        /\ refund = "processed" => refund' = "processed"
        /\ Certified
    <3>1. CASE LoseRefund(w) /\ Refunds /\ late' = late
      <4>1. /\ provider' \in {"authorized", "captured", "refunded", "released"}
            /\ refund' \in {"none", "pending", "processed"}
            /\ Shared'
            /\ provider \in Moved => provider' \in Moved /\ refund' # "none"
            /\ provider' = "captured" => provider = "captured"
            /\ refund # "none" => refund' # "none"
            /\ refund = "processed" => refund' = "processed"
        BY <2>2, <3>1, RefundsIsSound
      <4> QED
        BY <3>1, <4>1 DEF IInv, TypeOK, Certified
    <3>2. CASE LoseCapture(w)
      BY <2>2, <2>3, <2>4, <3>2
         DEF IInv, TypeOK, Shared, LocalFollowsProvider, JournalFollowsPayment,
             CachedResultsAreTrue, ProviderFollowsBoundary, Moved, Certified
    <3>3. CASE UNCHANGED <<provider, refund>> /\ late' \subseteq late \cup {"refund"}
      BY <2>2, <3>3
         DEF IInv, TypeOK, Shared, LocalFollowsProvider, JournalFollowsPayment,
             CachedResultsAreTrue, ProviderFollowsBoundary, Moved, Certified
    <3> QED
      BY <1>4, <2>5, <2>6, <3>1, <3>2, <3>3
  <2>8. TypeOK' /\ pc'[w] = next
    BY <1>2, <2>1, <2>2, <2>7 DEF IInv, TypeOK, Place
  <2>9. Placed(w)'
    <3>1. Facts(w, next, payment, held[w].stage)'
      BY <2>1, <2>2, <2>3 DEF Facts, Unbound, Secured, Returned, Capturing, Refunding, Ending
    <3> QED
      BY <2>2, <2>8, <3>1 DEF Placed, IInv
  <2>10. Forward
    BY <1>1, <2>2, <2>7, RankMeaning DEF Forward
  <2>11. Alone(w) /\ Refusal(w)
    BY <2>1, <2>2, <2>8 DEF Alone, Refusal, IInv, TypeOK
  <2> QED
    BY <2>7, <2>8, <2>9, <2>10, <2>11 DEF Good
<1> QED
  BY <1>3, <1>4

-------------------------------------------------------------------------------
(* The steps of nobody: a late arrival, the provider's own, a lease, time. *)

World ==
  TypeOK' /\ Shared' /\ Forward /\ Certified /\ UNCHANGED <<pc, now, held, reply>>

(* A step of nobody leaves every worker's facts alone. *)
LEMMA WorldKeepsInv ==
  ASSUME IInv, World
  PROVE  IInv'
BY OthersStayPlaced DEF World, IInv

(* Late arrivals, the provider's own steps, lapsing leases and time are such steps. *)
LEMMA WorldSteps ==
  ASSUME IInv, Arrive \/ RefundSettles \/ HoldReleased \/ LeaseLapses \/ Tick \/ UNCHANGED vars
  PROVE  World
<1>1. payment \in Payment /\ commitment.stage \in Stage
  BY DEF IInv, TypeOK, Commitment
<1>2. UNCHANGED <<payment, commitment, pc, now, held, reply>>
  BY DEF Arrive, RefundSettles, HoldReleased, LeaseLapses, Tick, vars, stored, local
<1>3. CASE LeaseLapses \/ Tick \/ UNCHANGED vars
  <2>1. UNCHANGED <<provider, refund, late, faults>>
    BY <1>3 DEF LeaseLapses, Tick, vars, world
  <2>2. clock' \in 0 .. MaxTime
    BY <1>3, TimeAssumption DEF LeaseLapses, Tick, vars, world, IInv, TypeOK
  <2>3. /\ row' \in [Operation -> Row]
        /\ \A r \in Operation : row'[r].status = row[r].status
    <3>1. \A r \in Operation : row[r] \in Row
      BY DEF IInv, TypeOK, Row
    <3>2. \A r \in Operation : [row[r] EXCEPT !.lapsed = TRUE] \in Row
                               /\ [row[r] EXCEPT !.lapsed = TRUE].status = row[r].status
      BY <3>1 DEF Row
    <3>3. row' = row \/ \E r \in Operation : row' = [row EXCEPT ![r].lapsed = TRUE]
      BY <1>3 DEF LeaseLapses, Tick, vars, stored
    <3>4. row \in [Operation -> Row]
      BY DEF IInv, TypeOK, Row
    <3> QED
      BY <3>2, <3>3, <3>4
  <2>4. TypeOK'
    BY <1>2, <2>1, <2>2, <2>3 DEF IInv, TypeOK, Row
  <2>5. Shared'
    BY <1>2, <2>1, <2>3
       DEF IInv, Shared, LocalFollowsProvider, JournalFollowsPayment, CachedResultsAreTrue,
           ProviderFollowsBoundary, Operation
  <2>6. Forward /\ Certified
    BY <1>1, <1>2, <2>1, RankMeaning DEF Forward, Certified
  <2> QED
    BY <1>2, <2>4, <2>5, <2>6 DEF World
<1>4. CASE Arrive \/ RefundSettles \/ HoldReleased
  <2>1. UNCHANGED <<clock, faults, row>> /\ late' \subseteq late
    BY <1>4 DEF Arrive, RefundSettles, HoldReleased, stored
  <2>2. /\ provider' \in {"authorized", "captured", "refunded", "released"}
        /\ refund' \in {"none", "pending", "processed"}
        /\ Shared'
        /\ provider \in Moved => provider' \in Moved
        /\ refund # "none" => refund' # "none"
        /\ refund = "processed" => refund' = "processed"
        /\ Certified
    <3>1. CASE Refunds
      <4>1. /\ provider' \in {"authorized", "captured", "refunded", "released"}
            /\ refund' \in {"none", "pending", "processed"}
            /\ Shared'
            /\ provider \in Moved => provider' \in Moved /\ refund' # "none"
            /\ provider' = "captured" => provider = "captured"
            /\ refund # "none" => refund' # "none"
            /\ refund = "processed" => refund' = "processed"
        BY <1>2, <2>1, <3>1, RefundsIsSound
      <4> QED
        BY <4>1 DEF Certified
    <3>2. CASE Captures /\ "capture" \in late /\ UNCHANGED refund
      BY <1>2, <2>1, <3>2
         DEF Captures, IInv, TypeOK, Shared, LocalFollowsProvider, JournalFollowsPayment,
             CachedResultsAreTrue, ProviderFollowsBoundary, Moved, Certified
    <3>3. CASE RefundSettles
      BY <1>2, <2>1, <3>3
         DEF RefundSettles, IInv, TypeOK, Shared, LocalFollowsProvider, JournalFollowsPayment,
             CachedResultsAreTrue, ProviderFollowsBoundary, Moved, Certified
    <3>4. CASE HoldReleased
      BY <1>2, <2>1, <3>4
         DEF HoldReleased, IInv, TypeOK, Shared, LocalFollowsProvider, JournalFollowsPayment,
             CachedResultsAreTrue, ProviderFollowsBoundary, Moved, Certified
    <3> QED
      BY <1>4, <3>1, <3>2, <3>3, <3>4 DEF Arrive
  <2>3. TypeOK'
    BY <1>2, <2>1, <2>2 DEF IInv, TypeOK
  <2>4. Forward
    BY <1>1, <1>2, <2>2, RankMeaning DEF Forward
  <2> QED
    BY <1>2, <2>2, <2>3, <2>4 DEF World
<1> QED
  BY <1>3, <1>4

-------------------------------------------------------------------------------
(* The invariant holds initially. *)
LEMMA InitInv == Init => IInv
<1> SUFFICES ASSUME Init PROVE IInv
  OBVIOUS
<1>1. Absent \in Commitment /\ Absent.stage = "ABSENT" /\ NoRow \in Row /\ "NONE" \in Payment
  BY Ranks, TimeAssumption DEF Absent, Commitment, NoRow, Row
<1>2. 0 \in 0 .. MaxTime /\ Faults \in 0 .. Faults
  BY TimeAssumption, FaultAssumption
<1>3. TypeOK
  BY <1>1, <1>2 DEF Init, TypeOK, Row, Place
<1>4. ~Reached("ABSENT", "CAPTURED") /\ ~Reached("ABSENT", "CAPTURE_ALLOWED")
  BY Ranks DEF Reached
<1>5. Shared
  BY <1>1, <1>4
     DEF Init, Shared, LocalFollowsProvider, JournalFollowsPayment, CachedResultsAreTrue,
         ProviderFollowsBoundary, Moved, Captured, NoRow, Operation
<1>6. \A w \in Worker : Placed(w)
  <2> TAKE w \in Worker
  <2>1. pc[w] = "idle" /\ held[w].stage = "ABSENT" /\ commitment.stage = "ABSENT"
    BY <1>1 DEF Init
  <2>2. Facts(w, pc[w], payment, held[w].stage)
    BY <2>1, NothingNeeded DEF Enters
  <2> QED
    BY <2>1, <2>2, Ranks DEF Placed
<1> QED
  BY <1>3, <1>5, <1>6 DEF IInv

(* Every step is one or the other. *)
LEMMA NextIsGood ==
  ASSUME IInv, [Next]_vars
  PROVE  World \/ \E w \in Worker : Good(w)
BY StepIsGood, FaultIsGood, WorldSteps DEF Next

(* Every step keeps the invariant. *)
LEMMA NextKeepsInv == IInv /\ [Next]_vars => IInv'
BY NextIsGood, GoodKeepsInv, WorldKeepsInv

(* IInv is inductive. *)
THEOREM Invariance == Spec => []IInv
<1> QED
  BY InitInv, NextKeepsInv, PTL DEF Spec

(* Every variable keeps its type: the workers of execute and the shared    *)
(* SQLite stores only ever hold the records the code writes.               *)
THEOREM TypeCorrect == Spec => []TypeOK
<1>1. IInv => TypeOK
  BY DEF IInv
<1> QED
  BY <1>1, Invariance, PTL

(* The payment record never runs ahead of the provider, for any number of  *)
(* overlapping callers, crashes and lost calls.                            *)
THEOREM RecordFollowsProvider == Spec => []LocalFollowsProvider
<1>1. IInv => LocalFollowsProvider
  BY DEF IInv, Shared
<1> QED
  BY <1>1, Invariance, PTL

(* The commitment never runs ahead of the payment record, although the two *)
(* are separate documents.                                                 *)
THEOREM CommitmentFollowsRecord == Spec => []JournalFollowsPayment
<1>1. IInv => JournalFollowsPayment
  BY DEF IInv, Shared
<1> QED
  BY <1>1, Invariance, PTL

(* A result the ledger replays is still true of the stores.                *)
THEOREM ReplayedResultsAreTrue == Spec => []CachedResultsAreTrue
<1>1. IInv => CachedResultsAreTrue
  BY DEF IInv, Shared
<1> QED
  BY <1>1, Invariance, PTL

(* No step, of however slow a worker, moves the payment record or the      *)
(* commitment back.                                                        *)
THEOREM NoStepBack == Spec => NothingMovesBack
<1>1. IInv /\ [Next]_vars =>
        [/\ PaymentRank[payment'] >= PaymentRank[payment]
         /\ StageRank[commitment'.stage] >= StageRank[commitment.stage]]_vars
  BY NextIsGood DEF World, Good, Forward
<1> QED
  BY <1>1, Invariance, PTL DEF Spec, NothingMovesBack

(* The provider captures only behind the recorded boundary, and on the     *)
(* request of an execution within its certificate, or on one that arrives  *)
(* late.                                                                   *)
THEOREM MoneyMovesBehindTheBoundary == Spec => CaptureIsCertified
<1>1. IInv /\ [Next]_vars => Certified
  BY NextIsGood DEF World, Good
<1>2. IInv /\ [Next]_vars =>
        [provider = "authorized" /\ provider' = "captured" =>
           /\ Reached(commitment.stage, "CAPTURE_ALLOWED")
           /\ \/ "capture" \in late
              \/ \E w \in Worker : At(w, "capturePost") /\ CertificateValid(w)]_vars
  BY <1>1 DEF Certified
<1> QED
  BY <1>2, Invariance, PTL DEF Spec, CaptureIsCertified

(* An expired operation is refused only while the money has not moved and  *)
(* no capture is under way.                                                *)
THEOREM RefusalIsHonest == Spec => RefusalMeansNoCapture
<1>1. ASSUME IInv, [Next]_vars, NEW v \in Worker, pc'[v] = "refused", pc[v] # "refused"
      PROVE  provider \in {"authorized", "released"} /\ "capture" \notin late
  <2>1. ~World
    BY <1>1 DEF World
  <2>2. PICK w \in Worker : Good(w)
    BY <1>1, <2>1, NextIsGood
  <2>3. v = w
    BY <1>1, <2>2 DEF Good, Alone
  <2> QED
    BY <1>1, <2>2, <2>3 DEF Good, Refusal, Untouched, Moved, IInv, TypeOK
<1>2. IInv /\ [Next]_vars =>
        [\A w \in Worker :
           pc'[w] = "refused" /\ pc[w] # "refused" =>
             provider \in {"authorized", "released"} /\ "capture" \notin late]_vars
  BY <1>1
<1> QED
  BY <1>2, Invariance, PTL DEF Spec, RefusalMeansNoCapture
===============================================================================
