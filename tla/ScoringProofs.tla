----------------------------- MODULE ScoringProofs -----------------------------
(***************************************************************************)
(* What the operators of BenchmarkScoring compute, for any cases, rows,    *)
(* registrations and numbers: the sums and charges of a comparison, the    *)
(* rank of the p95, the decision of the dynamic baseline when evidence is  *)
(* lost, the acceptance rule and the recomputation of an artifact.  The    *)
(* samples of MCPublication are among them.                                *)
(***************************************************************************)
EXTENDS MCPublication, FiniteSetTheorems, FunctionTheorems, WellFoundedInduction, TLAPS

-------------------------------------------------------------------------------
(* Sums.  The induction theorems of the library take an operator for what  *)
(* is proved, here it is a set: a set that holds 0 and the successors of   *)
(* its numbers holds every number, because a least one cannot be missing.  *)

LEMMA NatSets ==
  ASSUME NEW P, 0 \in P, \A n \in Nat : n \in P => n + 1 \in P
  PROVE  Nat \subseteq P
<1> DEFINE T == {n \in Nat : n \notin P}
           R == OpToRel(<, Nat)
<1> SUFFICES ASSUME T # {} PROVE FALSE
  OBVIOUS
<1>1. \A x, y \in Nat : <<y, x>> \in R <=> y < x
  BY DEF OpToRel
<1>2. PICK x \in T : \A y \in T : <<y, x>> \notin R
  <2> HIDE DEF R
  <2>1. IsWellFoundedOn(R, Nat)
    BY NatLessThanWellFounded DEF R
  <2>2. T \subseteq Nat
    OBVIOUS
  <2> HIDE DEF T
  <2> QED
    BY <2>1, <2>2, WFMin
<1>3. x \in Nat /\ x # 0 /\ x - 1 \in Nat
  OBVIOUS
<1>4. x - 1 \in T
  OBVIOUS
<1> HIDE DEF R, T
<1>5. <<x - 1, x>> \in R
  BY <1>1, <1>3
<1> QED
  BY <1>2, <1>4, <1>5

(* FoldFunction takes any element of what is left, and is the value at     *)
(* DOMAIN f of some function with this equation, if there is one.          *)
Taken(s) == CHOOSE x \in s : TRUE
Sums(f, g) == g = [s \in SUBSET DOMAIN f |-> IF s = {} THEN 0 ELSE f[Taken(s)] + g[s \ {Taken(s)}]]

LEMMA TotalIsChosen == \A f : Total(f) = (CHOOSE g : Sums(f, g))[DOMAIN f]
BY DEF Total, FoldFunction, FoldFunctionOnSet, MapThenFoldSet, Sums, Taken

LEMMA SumsExist ==
  ASSUME NEW f, IsFiniteSet(DOMAIN f), \A x \in DOMAIN f : f[x] \in Int
  PROVE  \E g \in [SUBSET DOMAIN f -> Int] : Sums(f, g)
<1> DEFINE D == SUBSET DOMAIN f
           body(g, s) == IF s = {} THEN 0 ELSE f[Taken(s)] + g[s \ {Taken(s)}]
           good(g, k) == \A s \in D : Cardinality(s) <= k => g[s] = body(g, s)
           P == {k \in Nat : \E g \in [D -> Int] : good(g, k)}
<1>1. \A s \in D : IsFiniteSet(s) /\ Cardinality(s) \in Nat /\ (Cardinality(s) = 0 <=> s = {})
  BY FS_Subset, FS_CardinalityType, FS_EmptySet
<1>2. ASSUME NEW s \in D, s # {}
      PROVE  /\ Taken(s) \in s /\ s \ {Taken(s)} \in D
             /\ Cardinality(s \ {Taken(s)}) = Cardinality(s) - 1
  <2>1. Taken(s) \in s
    BY <1>2 DEF Taken
  <2> QED
    BY <1>1, <2>1, FS_RemoveElement
<1>3. 0 \in P
  <2> DEFINE zero == [s \in D |-> 0]
  <2>1. \A s \in D : Cardinality(s) <= 0 => s = {}
    BY <1>1
  <2>2. good(zero, 0) /\ zero \in [D -> Int]
    BY <2>1
  <2> QED
    BY <2>2
<1>4. ASSUME NEW k \in Nat, k \in P PROVE k + 1 \in P
  <2>1. PICK g \in [D -> Int] : good(g, k)
    BY <1>4
  <2> DEFINE h == [s \in D |-> body(g, s)]
  <2>2. h \in [D -> Int]
    <3> SUFFICES ASSUME NEW s \in D PROVE body(g, s) \in Int
      OBVIOUS
    <3> CASE s = {}
      OBVIOUS
    <3> CASE s # {}
      <4>1. f[Taken(s)] \in Int /\ g[s \ {Taken(s)}] \in Int
        BY <1>2
      <4> QED
        BY <4>1
    <3> QED
      OBVIOUS
  <2>3. \A s \in D : Cardinality(s) <= k => h[s] = g[s]
    BY <2>1
  <2>4. good(h, k + 1)
    <3> SUFFICES ASSUME NEW s \in D, Cardinality(s) <= k + 1 PROVE h[s] = body(h, s)
      OBVIOUS
    <3>1. CASE s = {}
      BY <3>1
    <3>2. CASE s # {}
      <4>1. s \ {Taken(s)} \in D /\ Cardinality(s \ {Taken(s)}) <= k
        BY <1>1, <1>2, <3>2
      <4>2. h[s \ {Taken(s)}] = g[s \ {Taken(s)}]
        BY <2>3, <4>1
      <4> QED
        BY <3>2, <4>2
    <3> QED
      BY <3>1, <3>2
  <2> HIDE DEF h, good
  <2> QED
    BY <2>2, <2>4
<1>5. Cardinality(DOMAIN f) \in P
  <2>1. Nat \subseteq P
    BY <1>3, <1>4, NatSets
  <2> QED
    BY <1>1, <2>1
<1>6. PICK g \in [D -> Int] : good(g, Cardinality(DOMAIN f))
  BY <1>5
<1>7. \A s \in D : Cardinality(s) <= Cardinality(DOMAIN f)
  BY FS_Subset
<1>8. g = [s \in D |-> body(g, s)]
  BY <1>6, <1>7
<1> QED
  BY <1>8 DEF Sums

(* The sums over the subsets of DOMAIN f. *)
SumOver(f) == CHOOSE g : Sums(f, g)

LEMMA SumOverIsSum ==
  ASSUME NEW f, IsFiniteSet(DOMAIN f), \A x \in DOMAIN f : f[x] \in Int
  PROVE  /\ SumOver(f)[{}] = 0
         /\ \A s \in SUBSET DOMAIN f : s # {} => SumOver(f)[s] = f[Taken(s)] + SumOver(f)[s \ {Taken(s)}]
<1>1. \E g : Sums(f, g)
  BY SumsExist
<1>2. Sums(f, SumOver(f))
  BY <1>1 DEF SumOver
<1> DEFINE g == SumOver(f)
<1> HIDE DEF g
<1>3. g = [s \in SUBSET DOMAIN f |-> IF s = {} THEN 0 ELSE f[Taken(s)] + g[s \ {Taken(s)}]]
  BY <1>2 DEF Sums, g
<1>4. \A s \in SUBSET DOMAIN f : g[s] = IF s = {} THEN 0 ELSE f[Taken(s)] + g[s \ {Taken(s)}]
  BY <1>3
<1> QED
  BY <1>4 DEF g

(* Induction over the finite subsets of a set, for a set of good ones. *)
LEMMA FiniteInduction ==
  ASSUME NEW D, IsFiniteSet(D), NEW G, {} \in G,
         \A s \in SUBSET D : s # {} /\ (\A x \in s : s \ {x} \in G) => s \in G
  PROVE  SUBSET D \subseteq G
<1> DEFINE P == {k \in Nat : \A s \in SUBSET D : Cardinality(s) = k => s \in G}
<1>1. \A s \in SUBSET D : IsFiniteSet(s) /\ Cardinality(s) \in Nat /\ (Cardinality(s) = 0 <=> s = {})
  BY FS_Subset, FS_CardinalityType, FS_EmptySet
<1>2. 0 \in P
  BY <1>1
<1>3. ASSUME NEW k \in Nat, k \in P PROVE k + 1 \in P
  <2> SUFFICES ASSUME NEW s \in SUBSET D, Cardinality(s) = k + 1 PROVE s \in G
    OBVIOUS
  <2>1. s # {}
    BY <1>1
  <2>2. ASSUME NEW x \in s PROVE s \ {x} \in G
    <3>1. s \ {x} \in SUBSET D /\ Cardinality(s \ {x}) = k
      BY <1>1, FS_RemoveElement
    <3> QED
      BY <1>3, <3>1
  <2> QED
    BY <2>1, <2>2
<1>4. Nat \subseteq P
  BY <1>2, <1>3, NatSets
<1> QED
  BY <1>1, <1>4

LEMMA SumsStayIn ==
  ASSUME NEW f, IsFiniteSet(DOMAIN f), NEW Good, Good \subseteq Int, 0 \in Good, \A a, b \in Good : a + b \in Good,
         \A x \in DOMAIN f : f[x] \in Good
  PROVE  \A s \in SUBSET DOMAIN f : SumOver(f)[s] \in Good
<1> DEFINE G == {s \in SUBSET DOMAIN f : SumOver(f)[s] \in Good}
<1>1. {} \in G
  BY SumOverIsSum
<1>2. ASSUME NEW s \in SUBSET DOMAIN f, s # {}, \A x \in s : s \ {x} \in G PROVE s \in G
  <2>1. Taken(s) \in s
    BY <1>2 DEF Taken
  <2>2. SumOver(f)[s] = f[Taken(s)] + SumOver(f)[s \ {Taken(s)}]
    BY <1>2, SumOverIsSum
  <2> QED
    BY <1>2, <2>1, <2>2
<1> HIDE DEF G
<1>3. SUBSET DOMAIN f \subseteq G
  <2>1. \A s \in SUBSET DOMAIN f : s # {} /\ (\A x \in s : s \ {x} \in G) => s \in G
    BY <1>2
  <2> QED
    BY <1>1, <2>1, FiniteInduction
<1> QED
  BY <1>3 DEF G

(* Whichever element is taken first, and whatever is summed beside it. *)
LEMMA SumTakesAny ==
  ASSUME NEW f, IsFiniteSet(DOMAIN f), \A x \in DOMAIN f : f[x] \in Int
  PROVE  \A s \in SUBSET DOMAIN f : \A x \in s : SumOver(f)[s] = f[x] + SumOver(f)[s \ {x}]
<1> DEFINE g == SumOver(f)
           G == {s \in SUBSET DOMAIN f : \A x \in s : g[s] = f[x] + g[s \ {x}]}
<1> HIDE DEF g
<1>1. {} \in G
  OBVIOUS
<1>2. /\ g[{}] = 0
      /\ \A s \in SUBSET DOMAIN f : g[s] \in Int
      /\ \A s \in SUBSET DOMAIN f : s # {} => g[s] = f[Taken(s)] + g[s \ {Taken(s)}]
  <2>1. Int \subseteq Int /\ 0 \in Int /\ \A a, b \in Int : a + b \in Int
    OBVIOUS
  <2>2. \A s \in SUBSET DOMAIN f : SumOver(f)[s] \in Int
    BY <2>1, SumsStayIn
  <2> QED
    BY <2>2, SumOverIsSum DEF g
<1>3. ASSUME NEW s \in SUBSET DOMAIN f, s # {}, \A x \in s : s \ {x} \in G PROVE s \in G
  <2> SUFFICES ASSUME NEW x \in s PROVE g[s] = f[x] + g[s \ {x}]
    OBVIOUS
  <2> DEFINE a == Taken(s)
  <2>1. a \in s /\ g[s] = f[a] + g[s \ {a}]
    BY <1>2, <1>3 DEF Taken
  <2> HIDE DEF a
  <2>2. CASE x = a
    BY <2>1, <2>2
  <2>3. CASE x # a
    <3> DEFINE t == (s \ {a}) \ {x}
    <3>1. g[s \ {a}] = f[x] + g[t]
      BY <1>3, <2>1, <2>3
    <3>2. g[s \ {x}] = f[a] + g[t]
      <4>1. g[s \ {x}] = f[a] + g[(s \ {x}) \ {a}]
        BY <1>3, <2>1, <2>3
      <4>2. (s \ {x}) \ {a} = t
        OBVIOUS
      <4> QED
        BY <4>1, <4>2
    <3>3. f[a] \in Int /\ f[x] \in Int /\ g[t] \in Int
      <4>1. t \in SUBSET DOMAIN f /\ a \in DOMAIN f /\ x \in DOMAIN f
        BY <2>1
      <4> QED
        BY <1>2, <4>1
    <3> HIDE DEF t
    <3> QED
      BY <2>1, <3>1, <3>2, <3>3
  <2> QED
    BY <2>2, <2>3
<1> HIDE DEF G
<1>4. SUBSET DOMAIN f \subseteq G
  <2>1. \A s \in SUBSET DOMAIN f : s # {} /\ (\A x \in s : s \ {x} \in G) => s \in G
    BY <1>3
  <2> QED
    BY <1>1, <2>1, FiniteInduction
<1> QED
  BY <1>4 DEF G, g

LEMMA TotalIsNat ==
  ASSUME NEW f, IsFiniteSet(DOMAIN f), \A x \in DOMAIN f : f[x] \in Nat
  PROVE  Total(f) \in Nat
<1>1. \A s \in SUBSET DOMAIN f : SumOver(f)[s] \in Nat
  <2>1. Nat \subseteq Int /\ 0 \in Nat /\ \A a, b \in Nat : a + b \in Nat
    OBVIOUS
  <2> QED
    BY <2>1, SumsStayIn
<1> QED
  BY <1>1, TotalIsChosen DEF SumOver

LEMMA TotalOfKinds ==
  ASSUME NEW f, DOMAIN f = CostKind, \A kind \in CostKind : f[kind] \in Nat
  PROVE  Total(f) = f["unsafe_execution"] + f["false_abort"] + f["abstention_review"] + f["compensation"]
<1> DEFINE a == "unsafe_execution"  b == "false_abort"  c == "abstention_review"  d == "compensation"
           g == SumOver(f)
<1>1. IsFiniteSet(CostKind) /\ CostKind = {a, b, c, d}
  <2>1. IsFiniteSet({} \cup {a})
    BY FS_EmptySet, FS_AddElement
  <2>2. IsFiniteSet(({} \cup {a}) \cup {b})
    BY <2>1, FS_AddElement
  <2>3. IsFiniteSet((({} \cup {a}) \cup {b}) \cup {c})
    BY <2>2, FS_AddElement
  <2>4. IsFiniteSet(((({} \cup {a}) \cup {b}) \cup {c}) \cup {d})
    BY <2>3, FS_AddElement
  <2>5. CostKind = {a, b, c, d} /\ CostKind = ((({} \cup {a}) \cup {b}) \cup {c}) \cup {d}
    BY DEF CostKind
  <2> QED
    BY <2>4, <2>5
<1>2. \A s \in SUBSET DOMAIN f : \A x \in s : g[s] = f[x] + g[s \ {x}]
  <2>1. \A x \in DOMAIN f : f[x] \in Int
    OBVIOUS
  <2> QED
    BY <1>1, <2>1, SumTakesAny
<1>3. g[{}] = 0
  BY <1>1, SumOverIsSum
<1> HIDE DEF g
<1>4. g[{a, b, c, d}] = f[a] + g[{b, c, d}]
  <2>1. {a, b, c, d} \ {a} = {b, c, d}
    OBVIOUS
  <2> QED
    BY <1>1, <1>2, <2>1
<1>5. g[{b, c, d}] = f[b] + g[{c, d}]
  <2>1. {b, c, d} \ {b} = {c, d}
    OBVIOUS
  <2> QED
    BY <1>1, <1>2, <2>1
<1>6. g[{c, d}] = f[c] + g[{d}]
  <2>1. {c, d} \ {c} = {d}
    OBVIOUS
  <2> QED
    BY <1>1, <1>2, <2>1
<1>7. g[{d}] = f[d] + 0
  <2>1. {d} \ {d} = {}
    OBVIOUS
  <2> QED
    BY <1>1, <1>2, <1>3, <2>1
<1>8. f[a] \in Nat /\ f[b] \in Nat /\ f[c] \in Nat /\ f[d] \in Nat
  BY <1>1
<1>9. Total(f) = g[{a, b, c, d}]
  BY <1>1, TotalIsChosen DEF SumOver, g
<1> QED
  BY <1>4, <1>5, <1>6, <1>7, <1>8, <1>9

-------------------------------------------------------------------------------
(* What a comparison shows (BenchmarkScoring). *)

Costed(c) == \A kind \in CostKind : c.costs[kind] \in Nat
Weighs(weights) == \A kind \in CostKind : weights[kind] \in Nat

LEMMA WeightedIsNat ==
  ASSUME NEW raw \in Nat, NEW bps \in Nat
  PROVE  Weighted(raw, bps) \in Nat /\ (raw = 0 => Weighted(raw, bps) = 0)
<1>1. raw * bps \in Nat /\ (raw = 0 => raw * bps = 0)
  OBVIOUS
<1> DEFINE product == raw * bps
<1> HIDE DEF product
<1>2. product \in Nat => /\ (product + 5000) \div 10000 \in Nat
                         /\ product = 0 => (product + 5000) \div 10000 = 0
  OBVIOUS
<1> QED
  BY <1>1, <1>2 DEF Weighted, product

(* The loss of a row, added up from its four parts, is its charge: a row   *)
(* has at most one of unsafe, refused and false.                           *)
LEMMA ScoreIsCharge ==
  ASSUME NEW c, Costed(c), NEW weights, Weighs(weights), NEW row
  PROVE  /\ Score(c, row, weights).total = ChargeOf(c, row, weights)
         /\ ChargeOf(c, row, weights) \in Nat
<1> DEFINE unsafe == row.decision = "EXECUTE" /\ ~c.safe
           raw == [unsafe_execution  |-> Charge(unsafe, c.costs.unsafe_execution),
                   false_abort       |-> Charge(row.decision = "BLOCK" /\ c.safe, c.costs.false_abort),
                   abstention_review |-> Charge(row.decision \in {"ABSTAIN", "ERROR"}, c.costs.abstention_review),
                   compensation      |-> Charge(unsafe /\ c.compensation # "NOT_REQUIRED", c.costs.compensation)]
           loss == [kind \in DOMAIN raw |-> Weighted(raw[kind], weights[kind])]
           W(kind) == Weighted(c.costs[kind], weights[kind])
<1>1. Score(c, row, weights).total = Total(loss)
  BY DEF Score
<1>2. DOMAIN raw = CostKind
  BY DEF CostKind
<1>3. \A kind \in CostKind : c.costs[kind] \in Nat /\ weights[kind] \in Nat
  BY DEF Costed, Weighs
<1>4. /\ c.costs.unsafe_execution \in Nat /\ c.costs.false_abort \in Nat
      /\ c.costs.abstention_review \in Nat /\ c.costs.compensation \in Nat
  BY <1>3 DEF CostKind
<1>5. /\ raw["unsafe_execution"] = IF unsafe THEN c.costs.unsafe_execution ELSE 0
      /\ raw["false_abort"] = IF row.decision = "BLOCK" /\ c.safe THEN c.costs.false_abort ELSE 0
      /\ raw["abstention_review"] = IF row.decision \in {"ABSTAIN", "ERROR"} THEN c.costs.abstention_review ELSE 0
      /\ raw["compensation"] = IF unsafe /\ c.compensation # "NOT_REQUIRED" THEN c.costs.compensation ELSE 0
  BY DEF Charge
<1> HIDE DEF raw
<1>6. \A kind \in CostKind : raw[kind] \in Nat
  BY <1>4, <1>5 DEF CostKind
<1>7. DOMAIN loss = CostKind /\ \A kind \in CostKind : loss[kind] = Weighted(raw[kind], weights[kind])
  BY <1>2
<1>8. \A kind \in CostKind : loss[kind] \in Nat /\ (raw[kind] = 0 => loss[kind] = 0)
  BY <1>3, <1>6, <1>7, WeightedIsNat
<1> HIDE DEF loss
<1>9. Total(loss) = loss["unsafe_execution"] + loss["false_abort"] + loss["abstention_review"] + loss["compensation"]
  BY <1>7, <1>8, TotalOfKinds
<1>10. /\ loss["unsafe_execution"] = IF unsafe THEN W("unsafe_execution") ELSE 0
       /\ loss["false_abort"] = IF row.decision = "BLOCK" /\ c.safe THEN W("false_abort") ELSE 0
       /\ loss["abstention_review"] = IF row.decision \in {"ABSTAIN", "ERROR"} THEN W("abstention_review") ELSE 0
       /\ loss["compensation"] = IF unsafe /\ c.compensation # "NOT_REQUIRED" THEN W("compensation") ELSE 0
  BY <1>5, <1>7, <1>8 DEF CostKind
<1>11. \A kind \in CostKind : W(kind) \in Nat
  BY <1>3, WeightedIsNat
<1>12. /\ W("unsafe_execution") \in Nat /\ W("false_abort") \in Nat
       /\ W("abstention_review") \in Nat /\ W("compensation") \in Nat
  BY <1>11 DEF CostKind
<1> HIDE DEF W
<1>13. ChargeOf(c, row, weights) =
         IF unsafe THEN W("unsafe_execution") + (IF c.compensation = "NOT_REQUIRED" THEN 0 ELSE W("compensation"))
         ELSE IF row.decision \in {"ABSTAIN", "ERROR"} THEN W("abstention_review")
         ELSE IF row.decision = "BLOCK" /\ c.safe THEN W("false_abort") ELSE 0
  BY DEF ChargeOf, W
<1>14. Total(loss) = ChargeOf(c, row, weights)
  <2>1. CASE unsafe
    BY <1>9, <1>10, <1>12, <1>13, <2>1
  <2>2. CASE ~unsafe /\ row.decision \in {"ABSTAIN", "ERROR"}
    BY <1>9, <1>10, <1>12, <1>13, <2>2
  <2>3. CASE ~unsafe /\ row.decision \notin {"ABSTAIN", "ERROR"}
    BY <1>9, <1>10, <1>12, <1>13, <2>3
  <2> QED
    BY <2>1, <2>2, <2>3
<1> QED
  BY <1>1, <1>12, <1>13, <1>14


LossOf(cases, side, weights) ==
  Total([i \in DOMAIN cases |-> ChargeOf(cases[i], side.manifest.rows[cases[i].id], weights)])

(* The total of a snapshot is the loss of its rows. *)
LEMMA SnapshotSumsCharges ==
  ASSUME NEW reg, reg.rule \in Rule, NEW suite \in Suite, NEW side
  PROVE  /\ Snapshot(reg, suite, side.manifest).tel = LossOf(Cases(suite), side, RuleOf[reg.rule].weights)
         /\ LossOf(Cases(suite), side, RuleOf[reg.rule].weights) \in Nat
<1> DEFINE cases == Cases(suite)
           weights == RuleOf[reg.rule].weights
           rowsOf == [i \in DOMAIN cases |-> side.manifest.rows[cases[i].id]]
           results == ScoreAll(cases, rowsOf, weights)
           charges == [i \in DOMAIN cases |-> ChargeOf(cases[i], side.manifest.rows[cases[i].id], weights)]
<1>1. /\ IsFiniteSet(DOMAIN cases) /\ Weighs(weights)
      /\ \A i \in DOMAIN cases : Costed(cases[i])
  BY FinalAssumed DEF FinalBenchmarkAssumption, Weighs, Costed
<1> HIDE DEF cases, weights
<1>2. DOMAIN results = DOMAIN cases /\ \A i \in DOMAIN cases : results[i] = Score(cases[i], rowsOf[i], weights)
  BY DEF ScoreAll
<1>3. \A i \in DOMAIN cases : results[i].total = charges[i] /\ charges[i] \in Nat
  BY <1>1, <1>2, ScoreIsCharge
<1> HIDE DEF results
<1>4. [i \in DOMAIN results |-> results[i].total] = charges
  BY <1>2, <1>3
<1>5. Aggregate(cases, results).tel = Total([i \in DOMAIN results |-> results[i].total])
  BY DEF Aggregate
<1>6. Total(charges) \in Nat
  <2> HIDE DEF charges
  <2>1. DOMAIN charges = DOMAIN cases
    BY DEF charges
  <2> QED
    BY <1>1, <1>3, <2>1, TotalIsNat
<1>7. Snapshot(reg, suite, side.manifest).tel = Aggregate(cases, results).tel
  BY DEF Snapshot, cases, weights, results
<1>8. LossOf(Cases(suite), side, RuleOf[reg.rule].weights) = Total(charges)
  BY DEF LossOf, cases, weights
<1> QED
  BY <1>4, <1>5, <1>6, <1>7, <1>8

(* The margin was taken of the comparator's loss and rounded down. *)
LEMMA PassIsStrict ==
  ASSUME NEW rule, rule.margin \in Nat, NEW ours, NEW theirs, ours.tel \in Nat, theirs.tel \in Nat,
         Passes(rule, ours, theirs)
  PROVE  /\ ours.tel < theirs.tel
         /\ (theirs.tel - ours.tel) * 10000 >= rule.margin * theirs.tel
<1> DEFINE t == theirs.tel  d == (theirs.tel - ours.tel) * 10000  m == rule.margin
<1>1. ours.tel < theirs.tel /\ t > 0 /\ d \div t >= m
  BY DEF Passes
<1>2. t \in Nat /\ d \in Int /\ m \in Nat
  OBVIOUS
<1> HIDE DEF t, d, m
<1>3. d \div t \in Int /\ t * (d \div t) <= d
  BY <1>1, <1>2
<1>4. m * t <= t * (d \div t)
  BY <1>1, <1>2, <1>3
<1>5. m * t \in Int /\ t * (d \div t) \in Int
  BY <1>1, <1>2, <1>3
<1>6. m * t <= d
  BY <1>2, <1>3, <1>4, <1>5
<1> QED
  BY <1>1, <1>6 DEF t, d, m

-------------------------------------------------------------------------------
(* The nearest rank. *)

(* Everyone gets a place of its own, so every place is taken. *)
LEMMA PlacesAreTaken ==
  ASSUME NEW D, IsFiniteSet(D), D \subseteq Int, NEW values \in [D -> Int]
  PROVE  /\ \A i \in D : IsFiniteSet(UpTo(values, i)) /\ Cardinality(UpTo(values, i)) \in 1..Cardinality(D)
         /\ \A k \in 1..Cardinality(D) : \E i \in D : Cardinality(UpTo(values, i)) = k
<1> DEFINE n == Cardinality(D)
           placeOf == [i \in D |-> Cardinality(UpTo(values, i))]
<1>0. DOMAIN values = D /\ \A i \in D : i \in Int /\ values[i] \in Int
  OBVIOUS
<1>1. n \in Nat /\ IsFiniteSet(1..n) /\ Cardinality(1..n) = n
  BY FS_CardinalityType, FS_Interval
<1>2. ASSUME NEW i \in D
      PROVE  i \in UpTo(values, i) /\ IsFiniteSet(UpTo(values, i)) /\ Cardinality(UpTo(values, i)) \in 1..n
  <2>1. i \in UpTo(values, i) /\ UpTo(values, i) \subseteq D
    BY DEF UpTo
  <2>2. IsFiniteSet(UpTo(values, i)) /\ Cardinality(UpTo(values, i)) <= n
    BY <1>1, <2>1, FS_Subset
  <2>3. Cardinality(UpTo(values, i)) \in Nat /\ Cardinality(UpTo(values, i)) # 0
    BY <2>1, <2>2, FS_CardinalityType, FS_EmptySet
  <2> QED
    BY <1>1, <2>1, <2>2, <2>3
<1>3. ASSUME NEW i \in D, NEW j \in D, i # j, i \in UpTo(values, j)
      PROVE  Cardinality(UpTo(values, i)) < Cardinality(UpTo(values, j))
  <2>0. /\ values[i] < values[j] \/ (values[i] = values[j] /\ i < j)
        /\ values[i] \in Int /\ values[j] \in Int /\ i \in Int /\ j \in Int
    BY <1>0, <1>3 DEF UpTo
  <2>1. UpTo(values, i) \subseteq UpTo(values, j) /\ j \notin UpTo(values, i)
    <3>1. ASSUME NEW x \in D, values[x] < values[i] \/ (values[x] = values[i] /\ x <= i)
          PROVE  values[x] < values[j] \/ (values[x] = values[j] /\ x <= j)
      <4>1. values[x] \in Int /\ x \in Int
        BY <1>0
      <4> QED
        BY <2>0, <3>1, <4>1
    <3>2. ~(values[j] < values[i] \/ (values[j] = values[i] /\ j <= i))
      BY <2>0
    <3> QED
      BY <1>0, <3>1, <3>2 DEF UpTo
  <2>2. UpTo(values, i) # UpTo(values, j)
    BY <1>2, <2>1
  <2>3. /\ Cardinality(UpTo(values, i)) <= Cardinality(UpTo(values, j))
        /\ Cardinality(UpTo(values, i)) # Cardinality(UpTo(values, j))
    BY <1>2, <2>1, <2>2, FS_Subset
  <2>4. Cardinality(UpTo(values, i)) \in 1..n /\ Cardinality(UpTo(values, j)) \in 1..n
    BY <1>2
  <2> QED
    BY <1>1, <2>3, <2>4
<1>4. ASSUME NEW i \in D, NEW j \in D, i # j PROVE i \in UpTo(values, j) \/ j \in UpTo(values, i)
  BY <1>4 DEF UpTo
<1>5. placeOf \in [D -> 1..n] /\ \A i, j \in D : placeOf[i] = placeOf[j] => i = j
  <2>1. \A c, d \in 1..n : c < d => c # d
    BY <1>1
  <2>2. placeOf \in [D -> 1..n]
    BY <1>2
  <2>3. \A i, j \in D : i # j => placeOf[i] # placeOf[j]
    <3> SUFFICES ASSUME NEW i \in D, NEW j \in D, i # j PROVE placeOf[i] # placeOf[j]
      OBVIOUS
    <3>1. /\ Cardinality(UpTo(values, i)) \in 1..n /\ Cardinality(UpTo(values, j)) \in 1..n
          /\ \/ Cardinality(UpTo(values, i)) < Cardinality(UpTo(values, j))
             \/ Cardinality(UpTo(values, j)) < Cardinality(UpTo(values, i))
      BY <1>2, <1>3, <1>4
    <3> QED
      BY <2>1, <3>1
  <2> QED
    BY <2>2, <2>3
<1>6. placeOf \in Injection(D, 1..n)
  BY <1>5 DEF Injection, IsInjective
<1>7. placeOf \in Surjection(D, 1..n)
  BY <1>1, <1>6, FS_Injection
<1> QED
  BY <1>2, <1>7 DEF Surjection

(* The value at a place, and how many values do not exceed it. *)
LEMMA SortedAt ==
  ASSUME NEW D, IsFiniteSet(D), D \subseteq Int, NEW values \in [D -> Int], NEW k \in 1..Cardinality(D)
  PROVE  LET Within(v) == {i \in D : values[i] <= v}
         IN  /\ \E i \in D : values[i] = Sorted(values)[k]
             /\ k <= Cardinality(Within(Sorted(values)[k]))
             /\ \A j \in D : values[j] < Sorted(values)[k] => Cardinality(Within(values[j])) < k
<1> DEFINE Within(v) == {i \in D : values[i] <= v}
           i == CHOOSE i \in D : Cardinality(UpTo(values, i)) = k
<1>0. DOMAIN values = D /\ \A j \in D : j \in Int /\ values[j] \in Int
  OBVIOUS
<1>a. \A x, j : x \in UpTo(values, j) <=> x \in D /\ (values[x] < values[j] \/ (values[x] = values[j] /\ x <= j))
  BY <1>0 DEF UpTo
<1>1. i \in D /\ Cardinality(UpTo(values, i)) = k
  <2>1. \E j \in D : Cardinality(UpTo(values, j)) = k
    BY PlacesAreTaken
  <2> QED
    BY <2>1
<1>2. Sorted(values)[k] = values[i]
  BY <1>0 DEF Sorted
<1> HIDE DEF i
<1>3. \A v : Within(v) \in SUBSET D
  OBVIOUS
<1>4. \A v : IsFiniteSet(Within(v)) /\ Cardinality(Within(v)) \in Nat
  <2> HIDE DEF Within
  <2> QED
    BY <1>3, FS_Subset, FS_CardinalityType
<1>5. k <= Cardinality(Within(values[i]))
  <2>1. UpTo(values, i) \subseteq Within(values[i])
    <3> SUFFICES ASSUME NEW x \in UpTo(values, i) PROVE x \in D /\ values[x] <= values[i]
      OBVIOUS
    <3>1. x \in D /\ (values[x] < values[i] \/ values[x] = values[i])
      BY <1>a
    <3>2. values[x] \in Int /\ values[i] \in Int
      BY <1>0, <1>1, <3>1
    <3> QED
      BY <3>1, <3>2
  <2> HIDE DEF Within
  <2> QED
    BY <1>1, <1>4, <2>1, FS_Subset
<1>6. ASSUME NEW j \in D, values[j] < values[i] PROVE Cardinality(Within(values[j])) < k
  <2>0. values[i] \in Int /\ values[j] \in Int /\ i \in Int /\ values[j] < values[i]
    BY <1>0, <1>1, <1>6
  <2>1. Within(values[j]) \subseteq UpTo(values, i) /\ i \in UpTo(values, i) /\ i \notin Within(values[j])
    <3>1. ASSUME NEW x \in D, values[x] <= values[j] PROVE values[x] < values[i]
      <4>1. values[x] \in Int
        BY <1>0
      <4> QED
        BY <2>0, <3>1, <4>1
    <3>2. ~(values[i] <= values[j])
      BY <2>0
    <3> QED
      <4>1. Within(values[j]) \subseteq UpTo(values, i)
        BY <1>a, <3>1
      <4>2. i \in UpTo(values, i)
        BY <1>a, <1>1, <2>0
      <4>3. i \notin Within(values[j])
        BY <3>2
      <4> QED
        BY <4>1, <4>2, <4>3
  <2>2. IsFiniteSet(UpTo(values, i))
    BY <1>1, PlacesAreTaken
  <2>3. k \in Nat
    BY FS_CardinalityType
  <2> HIDE DEF Within
  <2>4. Cardinality(Within(values[j])) <= k /\ Cardinality(Within(values[j])) # k
    BY <1>1, <2>1, <2>2, FS_Subset
  <2> QED
    BY <1>4, <2>3, <2>4
<1> QED
  BY <1>1, <1>2, <1>5, <1>6

CoversShare(values, percent, v) ==
  100 * CountWhere(values, LAMBDA w : w <= v) >= percent * Cardinality(DOMAIN values)
LeastCovering(values, percent) ==
  Min({values[i] : i \in {j \in DOMAIN values : CoversShare(values, percent, values[j])}})

(* A percentile by nearest rank is the least observed value that at least  *)
(* the asked share of the observations does not exceed, for any values and *)
(* any percentage (nearest_rank_percentile of checkpoint_c_metrics.py).    *)
THEOREM RankIsNearest ==
  ASSUME NEW D, IsFiniteSet(D), D # {}, D \subseteq Int, NEW values \in [D -> Int], NEW percent \in 0..100
  PROVE  NearestRank(values, percent) = LeastCovering(values, percent)
<1> DEFINE n == Cardinality(D)
           q == percent * n
           k == Max({1, -((-q) \div 100)})
           Within(v) == {i \in D : values[i] <= v}
           Enough(v) == CoversShare(values, percent, v)
           covering == {values[i] : i \in {j \in DOMAIN values : Enough(values[j])}}
           x == Sorted(values)[k]
<1>1. n \in Nat /\ n > 0 /\ DOMAIN values = D
  BY FS_CardinalityType, FS_EmptySet
<1>2. q \in 0..(100 * n)
  <2>1. \A p \in 0..100, m \in Nat : p * m \in 0..(100 * m)
    OBVIOUS
  <2> QED
    BY <1>1, <2>1
<1> HIDE DEF n
<1>3. NearestRank(values, percent) = x
  BY <1>1 DEF NearestRank, n
<1>4. \A v : Enough(v) <=> 100 * Cardinality(Within(v)) >= q
  BY <1>1 DEF CoversShare, CountWhere, n
<1> HIDE DEF Enough, q
<1>5. k \in 1..n /\ \A c \in Nat : (c >= k => 100 * c >= q) /\ (c < k => c = 0 \/ 100 * c < q)
  <2> DEFINE r == -((-q) \div 100)
  <2>1. r \in Int /\ 100 * r >= q /\ 100 * (r - 1) < q
    BY <1>2
  <2> HIDE DEF r
  <2>2. k \in {1, r} /\ k >= 1 /\ k >= r
    <3>1. \E m \in {1, r} : \A y \in {1, r} : m >= y
      BY <2>1
    <3>2. k = CHOOSE m \in {1, r} : \A y \in {1, r} : m >= y
      BY DEF Max, r
    <3> HIDE DEF k
    <3> QED
      BY <3>1, <3>2
  <2> HIDE DEF k
  <2> QED
    BY <1>1, <1>2, <2>1, <2>2
<1> HIDE DEF k
<1>6. /\ \E i \in D : values[i] = x
      /\ k <= Cardinality(Within(x))
      /\ \A j \in D : values[j] < x => Cardinality(Within(values[j])) < k
  <2>1. k \in 1..Cardinality(D)
    BY <1>5 DEF n
  <2> QED
    BY <2>1, SortedAt
<1>7. \A v \in Int : Cardinality(Within(v)) \in Nat
  <2>1. \A v : Within(v) \in SUBSET D
    OBVIOUS
  <2> HIDE DEF Within
  <2> QED
    BY <2>1, FS_Subset, FS_CardinalityType
<1>8. \A j \in D : Cardinality(Within(values[j])) # 0
  <2> SUFFICES ASSUME NEW j \in D PROVE Cardinality(Within(values[j])) # 0
    OBVIOUS
  <2>1. j \in Within(values[j]) /\ Within(values[j]) \in SUBSET D
    BY <1>1, FS_Interval
  <2> HIDE DEF Within
  <2> QED
    BY <2>1, FS_Subset, FS_EmptySet
<1> HIDE DEF Within, x
<1>9. x \in Int /\ \A j \in D : values[j] \in Int
  BY <1>1, <1>6
<1>10. x \in covering
  <2>1. Enough(x)
    BY <1>4, <1>5, <1>6, <1>7, <1>9
  <2> QED
    BY <1>1, <1>6, <2>1
<1>11. \A y \in covering : y \in Int /\ x <= y
  <2> SUFFICES ASSUME NEW j \in D, Enough(values[j]) PROVE x <= values[j]
    BY <1>1, <1>9
  <2>1. 100 * Cardinality(Within(values[j])) >= q
    BY <1>4
  <2> DEFINE c == Cardinality(Within(values[j]))
  <2>2. c \in Nat /\ c # 0 /\ values[j] \in Int /\ (values[j] < x => c < k)
    BY <1>6, <1>7, <1>8, <1>9
  <2> HIDE DEF c
  <2>3. ~(c < k)
    <3>1. 100 * c >= q
      BY <2>1 DEF c
    <3> QED
      BY <1>2, <1>5, <2>2, <3>1
  <2> QED
    BY <1>9, <2>2, <2>3
<1> HIDE DEF covering
<1>12. Min(covering) = x
  BY <1>10, <1>11 DEF Min
<1> QED
  BY <1>3, <1>12 DEF covering, Enough, LeastCovering

-------------------------------------------------------------------------------
(* The acceptance rule. *)

Limits == {"p95", "errored", "missing_latency", "irreversible"}
Numbers(r) == \A count \in Limits : r[count] \in Int

(* At least as good by everything that the rule looks at.                  *)
NotLess(a, b) == a[2] = b[2] /\ a[1] \in Int /\ b[1] \in Int /\ a[1] >= b[1]
NoWorse(a, b) ==
  /\ a.cases = b.cases /\ a.tel \in Nat /\ a.tel <= b.tel
  /\ NotLess(a.completion, b.completion) /\ NotLess(a.coverage, b.coverage) /\ NotLess(a.reliability, b.reliability)
  /\ Numbers(a) /\ Numbers(b) /\ \A count \in Limits : a[count] <= b[count]

LEMMA QuotientAtLeast ==
  ASSUME NEW y \in Int, NEW t \in Nat, t > 0, NEW m \in Int
  PROVE  y \div t >= m <=> y >= t * m
<1> DEFINE r == y \div t
<1>1. r \in Int /\ t * r <= y /\ y < t * (r + 1)
  OBVIOUS
<1> HIDE DEF r
<1>2. \A a, b \in Int : a <= b => t * a <= t * b
  OBVIOUS
<1>3. CASE r >= m
  <2>1. t * m <= t * r
    BY <1>1, <1>2, <1>3
  <2>2. t * m \in Int /\ t * r \in Int
    BY <1>1
  <2> QED
    BY <1>1, <1>3, <2>1, <2>2 DEF r
<1>4. CASE r < m
  <2>1. t * (r + 1) <= t * m
    BY <1>1, <1>2, <1>4
  <2>2. t * m \in Int /\ t * (r + 1) \in Int
    BY <1>1
  <2> QED
    BY <1>1, <1>4, <2>1, <2>2 DEF r
<1> QED
  BY <1>1, <1>3, <1>4

LEMMA FloorIsKept ==
  ASSUME NEW a, NEW b, NotLess(a, b), NEW rate \in Int, b[2] \in Int, AtLeast(b, rate)
  PROVE  AtLeast(a, rate)
<1> DEFINE bound == rate * b[2]
<1>1. bound \in Int
  OBVIOUS
<1> HIDE DEF bound
<1>2. b[1] * 10000 >= bound => a[1] * 10000 >= bound
  BY <1>1 DEF NotLess
<1> QED
  BY <1>2 DEF AtLeast, NotLess, bound

(* A pass is a smaller loss by the margin of the comparator's, whatever    *)
(* was rounded down; two systems never both pass against each other; and   *)
(* what is at least as good as a system that passes, passes: for any rule  *)
(* and any two systems (evaluate_final_metrics of checkpoint_c_final.py).  *)
THEOREM VerdictIsStrict ==
  ASSUME NEW rule, rule.margin \in Nat, Numbers(rule),
         rule.completion \in Int, rule.coverage \in Int, rule.reliability \in Int,
         NEW ours, NEW theirs, ours.tel \in Nat, theirs.tel \in Nat,
         ours.completion[2] \in Int, ours.coverage[2] \in Int, ours.reliability[2] \in Int,
         Passes(rule, ours, theirs)
  PROVE  /\ (theirs.tel - ours.tel) * 10000 >= rule.margin * theirs.tel
         /\ ~Passes(rule, theirs, ours)
         /\ \A better : NoWorse(better, ours) => Passes(rule, better, theirs)
<1>1. ours.tel < theirs.tel /\ (theirs.tel - ours.tel) * 10000 >= rule.margin * theirs.tel
  BY PassIsStrict
<1>2. ~Passes(rule, theirs, ours)
  BY <1>1 DEF Passes
<1>3. ASSUME NEW better, NoWorse(better, ours) PROVE Passes(rule, better, theirs)
  <2> DEFINE t == theirs.tel  m == rule.margin  a == better.tel  b == ours.tel
  <2>1. a \in Nat /\ b \in Nat /\ t \in Nat /\ m \in Nat /\ a <= b /\ b < t /\ t > 0
    BY <1>1, <1>3 DEF NoWorse
  <2>2. ((t - b) * 10000) \div t >= m
    BY DEF Passes
  <2>3. /\ AtLeast(better.completion, rule.completion)
        /\ AtLeast(better.coverage, rule.coverage)
        /\ AtLeast(better.reliability, rule.reliability)
    <3>1. /\ AtLeast(ours.completion, rule.completion)
          /\ AtLeast(ours.coverage, rule.coverage)
          /\ AtLeast(ours.reliability, rule.reliability)
      BY DEF Passes
    <3>2. /\ NotLess(better.completion, ours.completion)
          /\ NotLess(better.coverage, ours.coverage)
          /\ NotLess(better.reliability, ours.reliability)
      BY <1>3 DEF NoWorse
    <3> QED
      BY <3>1, <3>2, FloorIsKept
  <2>4. \A count \in Limits : better[count] <= rule[count]
    <3>1. \A count \in Limits : ours[count] <= rule[count]
      BY DEF Passes, Limits
    <3>2. \A count \in Limits : /\ better[count] <= ours[count] /\ rule[count] \in Int
                                /\ better[count] \in Int /\ ours[count] \in Int
      BY <1>3 DEF NoWorse, Numbers
    <3> QED
      BY <3>1, <3>2
  <2>5. theirs.cases = better.cases
    BY <1>3 DEF NoWorse, Passes
  <2> HIDE DEF t, m, a, b
  <2>6. ((t - a) * 10000) \div t >= m
    <3> DEFINE p == t * m
    <3>1. p \in Int /\ (t - b) * 10000 >= p
      BY <2>1, <2>2, QuotientAtLeast
    <3> HIDE DEF p
    <3>2. (t - a) * 10000 >= p
      BY <2>1, <3>1
    <3> QED
      BY <2>1, <3>2, QuotientAtLeast DEF p
  <2>7. a < t
    BY <2>1
  <2> QED
    BY <2>1, <2>3, <2>4, <2>5, <2>6, <2>7 DEF Passes, Limits, t, m, a
<1> QED
  BY <1>1, <1>2, <1>3

-------------------------------------------------------------------------------
(* The decision of the dynamic baseline. *)

LEMMA SumsAreMonotone ==
  ASSUME NEW f, NEW g, IsFiniteSet(DOMAIN f), DOMAIN g = DOMAIN f,
         \A x \in DOMAIN f : f[x] \in Int /\ g[x] \in Int /\ f[x] <= g[x]
  PROVE  Total(f) \in Int /\ Total(g) \in Int /\ Total(f) <= Total(g)
<1> DEFINE D == DOMAIN f
           F == SumOver(f)
           H == SumOver(g)
           G == {s \in SUBSET D : F[s] <= H[s]}
<1>1. \A s \in SUBSET D : F[s] \in Int /\ H[s] \in Int
  <2>1. Int \subseteq Int /\ 0 \in Int /\ \A a, b \in Int : a + b \in Int
    OBVIOUS
  <2> QED
    BY <2>1, SumsStayIn
<1>2. /\ F[{}] = 0 /\ H[{}] = 0
      /\ \A s \in SUBSET D : s # {} => /\ F[s] = f[Taken(s)] + F[s \ {Taken(s)}]
                                       /\ H[s] = g[Taken(s)] + H[s \ {Taken(s)}]
  BY SumOverIsSum
<1>3. Total(f) = F[D] /\ Total(g) = H[D]
  BY TotalIsChosen DEF SumOver
<1> HIDE DEF F, H
<1>4. {} \in G
  BY <1>2
<1>5. ASSUME NEW s \in SUBSET D, s # {}, \A x \in s : s \ {x} \in G PROVE s \in G
  <2> DEFINE a == Taken(s)  t == s \ {a}
  <2>1. a \in s /\ t \in G /\ t \in SUBSET D /\ a \in D
    BY <1>5 DEF Taken
  <2>2. F[s] = f[a] + F[t] /\ H[s] = g[a] + H[t]
    BY <1>2, <1>5
  <2> HIDE DEF a, t
  <2>3. f[a] <= g[a] /\ F[t] <= H[t] /\ f[a] \in Int /\ g[a] \in Int /\ F[t] \in Int /\ H[t] \in Int
    BY <1>1, <2>1
  <2> QED
    BY <2>2, <2>3
<1> HIDE DEF G
<1>6. SUBSET D \subseteq G
  <2>1. \A s \in SUBSET D : s # {} /\ (\A x \in s : s \ {x} \in G) => s \in G
    BY <1>5
  <2> QED
    BY <1>4, <2>1, FiniteInduction
<1>7. D \in G
  BY <1>6
<1> QED
  BY <1>1, <1>3, <1>7 DEF G

SignalRisk(signals) == MapThenSumSet(LAMBDA s : Charge(s.active, s.weight), signals)

LEMMA SignalRiskIsInt ==
  ASSUME NEW signals, IsFiniteSet(signals), \A s \in signals : s.weight \in Int
  PROVE  SignalRisk(signals) \in Int
<1> DEFINE Sum(g) == g = [s \in SUBSET signals |->
                            IF s = {} THEN 0
                            ELSE Charge(Taken(s).active, Taken(s).weight) + g[s \ {Taken(s)}]]
           f == [s \in signals |-> Charge(s.active, s.weight)]
           h == CHOOSE g : Sum(g)
           G == {s \in SUBSET signals : h[s] \in Int}
<1>1. SignalRisk(signals) = h[signals]
  BY DEF SignalRisk, MapThenSumSet, MapThenFoldSet, Taken
<1>2. \A s \in signals : Charge(s.active, s.weight) \in Int
  BY DEF Charge
<1>3. \E g : Sum(g)
  <2>1. DOMAIN f = signals /\ \A s \in DOMAIN f : f[s] \in Int
    BY <1>2
  <2>2. PICK g : Sums(f, g)
    <3> HIDE DEF f
    <3> QED
      BY <2>1, SumsExist
  <2>3. \A s \in SUBSET signals : s # {} => f[Taken(s)] = Charge(Taken(s).active, Taken(s).weight)
    BY DEF Taken
  <2>4. g = [s \in SUBSET signals |-> IF s = {} THEN 0 ELSE f[Taken(s)] + g[s \ {Taken(s)}]]
    BY <2>1, <2>2 DEF Sums
  <2> HIDE DEF f
  <2>5. Sum(g)
    BY <2>3, <2>4
  <2> QED
    BY <2>5
<1>4. Sum(h)
  BY <1>3
<1> HIDE DEF h
<1>5. {} \in G
  BY <1>4
<1>6. ASSUME NEW s \in SUBSET signals, s # {}, \A x \in s : s \ {x} \in G PROVE s \in G
  <2>1. Taken(s) \in s
    BY <1>6 DEF Taken
  <2>2. h[s] = Charge(Taken(s).active, Taken(s).weight) + h[s \ {Taken(s)}]
    BY <1>4, <1>6
  <2>3. h[s \ {Taken(s)}] \in Int
    BY <1>6, <2>1
  <2>4. Charge(Taken(s).active, Taken(s).weight) \in Int
    BY <1>2, <1>6, <2>1
  <2> QED
    BY <2>2, <2>3, <2>4
<1> HIDE DEF G
<1>7. SUBSET signals \subseteq G
  <2>1. \A s \in SUBSET signals : s # {} /\ (\A x \in s : s \ {x} \in G) => s \in G
    BY <1>6
  <2> QED
    BY <1>5, <2>1, FiniteInduction
<1> QED
  BY <1>1, <1>7 DEF G

(* The registration and the case as their constructors admit them.         *)
IsWeighed(reg) ==
  /\ reg.credit \in Nat /\ reg.failed \in Nat /\ reg.missing \in Nat /\ reg.stale \in Nat
  /\ reg.execute_to \in Int /\ reg.block_from \in Int /\ reg.execute_to < reg.block_from
IsAssessed(c) ==
  /\ c.risk \in Int
  /\ IsFiniteSet(c.signals) /\ \A s \in c.signals : s.weight \in Int
  /\ IsFiniteSet(DOMAIN c.evidence) /\ \A e \in DOMAIN c.evidence : c.evidence[e].status \in EvidenceStatus

(* The case d is the case c, some of whose verified evidence is no longer. *)
HasLost(c, d) ==
  /\ d.amount = c.amount /\ d.limit = c.limit /\ d.risk = c.risk /\ d.signals = c.signals
  /\ DOMAIN d.evidence = DOMAIN c.evidence
  /\ \A e \in DOMAIN c.evidence :
       /\ d.evidence[e].required = c.evidence[e].required
       /\ d.evidence[e].status \in EvidenceStatus
       /\ d.evidence[e].status = c.evidence[e].status \/ c.evidence[e].status = "VERIFIED"

LEMMA ClampIsMonotone ==
  ASSUME NEW a \in Int, NEW b \in Int, a <= b
  PROVE  /\ Min({10000, Max({0, a})}) \in Int /\ Min({10000, Max({0, b})}) \in Int
         /\ Min({10000, Max({0, a})}) <= Min({10000, Max({0, b})})
<1>1. \A x, y \in Int : Max({x, y}) = IF x >= y THEN x ELSE y
  <2> SUFFICES ASSUME NEW x \in Int, NEW y \in Int PROVE Max({x, y}) = IF x >= y THEN x ELSE y
    OBVIOUS
  <2>1. \E m \in {x, y} : \A z \in {x, y} : m >= z
    OBVIOUS
  <2>2. Max({x, y}) \in {x, y} /\ \A z \in {x, y} : Max({x, y}) >= z
    BY <2>1 DEF Max
  <2> QED
    BY <2>2
<1>2. \A x, y \in Int : Min({x, y}) = IF x <= y THEN x ELSE y
  <2> SUFFICES ASSUME NEW x \in Int, NEW y \in Int PROVE Min({x, y}) = IF x <= y THEN x ELSE y
    OBVIOUS
  <2>1. \E m \in {x, y} : \A z \in {x, y} : m <= z
    OBVIOUS
  <2>2. Min({x, y}) \in {x, y} /\ \A z \in {x, y} : Min({x, y}) <= z
    BY <2>1 DEF Min
  <2> QED
    BY <2>2
<1> QED
  BY <1>1, <1>2

LEMMA RiskGrows ==
  ASSUME NEW reg, IsWeighed(reg), NEW c, IsAssessed(c), NEW d, HasLost(c, d)
  PROVE  RiskScore(reg, c) \in Int /\ RiskScore(reg, d) \in Int /\ RiskScore(reg, c) <= RiskScore(reg, d)
<1> DEFINE f == [e \in DOMAIN c.evidence |-> Adjustment(reg, c.evidence[e].status)]
           g == [e \in DOMAIN d.evidence |-> Adjustment(reg, d.evidence[e].status)]
           s == SignalRisk(c.signals)
<1>1. \A x \in EvidenceStatus : Adjustment(reg, x) \in Int /\ Adjustment(reg, "VERIFIED") <= Adjustment(reg, x)
  BY DEF Adjustment, EvidenceStatus, IsWeighed
<1>2. DOMAIN f = DOMAIN c.evidence /\ DOMAIN g = DOMAIN c.evidence /\ IsFiniteSet(DOMAIN f)
  BY DEF HasLost, IsAssessed
<1>3. \A e \in DOMAIN f : f[e] \in Int /\ g[e] \in Int /\ f[e] <= g[e]
  <2> SUFFICES ASSUME NEW e \in DOMAIN c.evidence
               PROVE  f[e] \in Int /\ g[e] \in Int /\ f[e] <= g[e]
    BY <1>2
  <2> DEFINE x == c.evidence[e].status  y == d.evidence[e].status
  <2>1. x \in EvidenceStatus /\ y \in EvidenceStatus /\ (y = x \/ x = "VERIFIED")
    BY DEF HasLost, IsAssessed
  <2>2. f[e] = Adjustment(reg, x) /\ g[e] = Adjustment(reg, y)
    BY <1>2
  <2> HIDE DEF x, y, f, g
  <2> QED
    BY <1>1, <2>1, <2>2
<1>4. s \in Int
  BY SignalRiskIsInt DEF IsAssessed
<1>5. /\ RiskScore(reg, c) = Min({10000, Max({0, c.risk + s + Total(f)})})
      /\ RiskScore(reg, d) = Min({10000, Max({0, c.risk + s + Total(g)})})
  BY DEF RiskScore, SignalRisk, HasLost
<1> HIDE DEF f, g, s
<1>6. Total(f) \in Int /\ Total(g) \in Int /\ Total(f) <= Total(g)
  BY <1>2, <1>3, SumsAreMonotone
<1> DEFINE a == c.risk + s + Total(f)  b == c.risk + s + Total(g)
<1>7. a \in Int /\ b \in Int /\ a <= b
  BY <1>4, <1>6 DEF IsAssessed
<1> HIDE DEF a, b
<1>8. RiskScore(reg, c) = Min({10000, Max({0, a})}) /\ RiskScore(reg, d) = Min({10000, Max({0, b})})
  BY <1>5 DEF a, b
<1> QED
  BY <1>7, <1>8, ClampIsMonotone

(* Losing any of the evidence of a case never turns a refusal or a review  *)
(* of the dynamic baseline into more, and it executes nothing whose        *)
(* required evidence is not verified, for any registration and any case    *)
(* (DynamicRiskEvidenceBaseline of checkpoint_c_baselines.py).             *)
THEOREM LostEvidencePermitsNothingMore ==
  ASSUME NEW reg, IsWeighed(reg), NEW c, IsAssessed(c)
  PROVE  /\ DynamicRiskEvidence(reg, c).decision = "EXECUTE" => ~RequiredIs(c, EvidenceStatus \ {"VERIFIED"})
         /\ \A d : HasLost(c, d) =>
              Permission(DynamicRiskEvidence(reg, d)) <= Permission(DynamicRiskEvidence(reg, c))
<1> DEFINE Decided(x) == DynamicRiskEvidence(reg, x).decision
           Limited(x) == x.amount > x.limit
           Incomplete(x) == RequiredIs(x, {"MISSING", "STALE"})
           Refused(x) == RequiredIs(x, {"FAILED"}) \/ RiskScore(reg, x) >= reg.block_from
           Low(x) == RiskScore(reg, x) <= reg.execute_to
<1>1. ASSUME NEW x
      PROVE  Decided(x) = IF Limited(x) THEN "BLOCK" ELSE IF Refused(x) THEN "BLOCK"
                          ELSE IF Incomplete(x) THEN "ABSTAIN" ELSE IF Low(x) THEN "EXECUTE" ELSE "ABSTAIN"
  BY DEF DynamicRiskEvidence
<1> HIDE DEF Decided
<1>2. Decided(c) = "EXECUTE" => ~RequiredIs(c, {"FAILED"}) /\ ~Incomplete(c)
  BY <1>1
<1>3. Decided(c) = "EXECUTE" => ~RequiredIs(c, EvidenceStatus \ {"VERIFIED"})
  BY <1>2 DEF RequiredIs, EvidenceStatus
<1>4. ASSUME NEW d, HasLost(c, d)
      PROVE  /\ Decided(d) = "EXECUTE" => Decided(c) = "EXECUTE"
             /\ Decided(d) = "ABSTAIN" => Decided(c) # "BLOCK"
  <2> DEFINE r == RiskScore(reg, c)  u == RiskScore(reg, d)
  <2>1. r \in Int /\ u \in Int /\ r <= u
    BY <1>4, RiskGrows
  <2>2. reg.execute_to \in Int /\ reg.block_from \in Int
    BY DEF IsWeighed
  <2>3. (d.amount > d.limit) <=> (c.amount > c.limit)
    BY <1>4 DEF HasLost
  <2>4. \A statuses : "VERIFIED" \notin statuses /\ RequiredIs(c, statuses) => RequiredIs(d, statuses)
    BY <1>4 DEF RequiredIs, HasLost
  <2>5. /\ RequiredIs(c, {"FAILED"}) => RequiredIs(d, {"FAILED"})
        /\ RequiredIs(c, {"MISSING", "STALE"}) => RequiredIs(d, {"MISSING", "STALE"})
    BY <2>4
  <2> HIDE DEF r, u
  <2>6. (u <= reg.execute_to => r <= reg.execute_to) /\ (r >= reg.block_from => u >= reg.block_from)
    BY <2>1, <2>2
  <2>7. Low(d) => Low(c)
    BY <2>6 DEF r, u
  <2>8. Refused(c) => Refused(d)
    BY <2>5, <2>6 DEF r, u
  <2>9. (Limited(c) <=> Limited(d)) /\ (Incomplete(c) => Incomplete(d))
    BY <2>3, <2>5
  <2> HIDE DEF Low, Refused, Limited, Incomplete
  <2> QED
    BY <1>1, <2>7, <2>8, <2>9
<1>5. ASSUME NEW d, HasLost(c, d)
      PROVE  Permission(DynamicRiskEvidence(reg, d)) <= Permission(DynamicRiskEvidence(reg, c))
  <2>1. \A x : Permission(DynamicRiskEvidence(reg, x)) =
                 IF Decided(x) = "EXECUTE" THEN 2 ELSE IF Decided(x) = "ABSTAIN" THEN 1 ELSE 0
    BY DEF Permission, Decided
  <2>2. Decided(c) \in {"EXECUTE", "BLOCK", "ABSTAIN"}
    BY <1>1, Zenon
  <2> QED
    BY <1>4, <1>5, <2>1, <2>2
<1> QED
  BY <1>3, <1>5 DEF Decided

-------------------------------------------------------------------------------
(* What an artifact says of itself, whatever order it is in. *)

(* Positions D of one order, and the positions C that p gives them in      *)
(* another.                                                                *)
Chosen(p, D, C, V, W) ==
  p \in Bijection(D, C) /\ IsFiniteSet(D) /\ W \in SUBSET C /\ V = {k \in D : p[k] \in W}
Reordered(p, D, C, f, g) ==
  /\ p \in Bijection(D, C) /\ IsFiniteSet(D) /\ D \subseteq Int /\ C \subseteq Int
  /\ f \in [C -> Int] /\ g = [k \in D |-> f[p[k]]]

LEMMA BijectedSet ==
  ASSUME NEW D, NEW C, NEW p \in Bijection(D, C), IsFiniteSet(D), NEW W \in SUBSET C
  PROVE  Cardinality({k \in D : p[k] \in W}) = Cardinality(W)
<1> DEFINE T == {k \in D : p[k] \in W}
           q == [k \in T |-> p[k]]
<1>1. /\ p \in [D -> C] /\ \A j, k \in D : p[j] = p[k] => j = k
      /\ \A x \in C : \E k \in D : p[k] = x
  BY DEF Bijection, Injection, Surjection, IsInjective
<1>2. q \in [T -> W] /\ (\A j, k \in T : q[j] = q[k] => j = k) /\ (\A x \in W : \E k \in T : q[k] = x)
  BY <1>1
<1>3. T \in SUBSET D
  OBVIOUS
<1> HIDE DEF T, q
<1>4. q \in Bijection(T, W)
  BY <1>2, Fun_IsBij
<1>5. IsFiniteSet(T) /\ ExistsBijection(T, W)
  BY <1>3, <1>4, FS_Subset, Fun_ExistsBij
<1> QED
  BY <1>5, FS_Bijection DEF T

LEMMA CountIgnoresOrder ==
  ASSUME NEW D, NEW C, NEW p, NEW V, NEW W, Chosen(p, D, C, V, W)
  PROVE  Cardinality(V) = Cardinality(W)
BY BijectedSet DEF Chosen

LEMMA TotalIgnoresOrder ==
  ASSUME NEW D, NEW C, NEW p, NEW f, NEW g, Reordered(p, D, C, f, g)
  PROVE  Total(g) = Total(f)
<1> USE DEF Reordered
<1> DEFINE image(s) == {p[k] : k \in s}
           F == SumOver(f)
           H == SumOver(g)
           G == {s \in SUBSET D : H[s] = F[image(s)]}
<1>1. /\ p \in [D -> C] /\ \A j, k \in D : p[j] = p[k] => j = k
      /\ \A x \in C : \E k \in D : p[k] = x
  BY DEF Bijection, Injection, Surjection, IsInjective
<1>2. IsFiniteSet(C)
  BY Fun_ExistsBij, FS_Bijection
<1>3. DOMAIN g = D /\ DOMAIN f = C /\ (\A k \in D : g[k] = f[p[k]] /\ g[k] \in Int) /\ \A x \in C : f[x] \in Int
  BY <1>1
<1>4. Total(g) = H[D] /\ Total(f) = F[C]
  BY <1>3, TotalIsChosen DEF SumOver
<1>5. \A s \in SUBSET C : \A x \in s : F[s] = f[x] + F[s \ {x}]
  BY <1>2, <1>3, SumTakesAny
<1>6. F[{}] = 0 /\ H[{}] = 0 /\ \A s \in SUBSET D : s # {} => H[s] = g[Taken(s)] + H[s \ {Taken(s)}]
  BY <1>2, <1>3, SumOverIsSum
<1> HIDE DEF F, H
<1>7. {} \in G
  BY <1>6
<1>8. ASSUME NEW s \in SUBSET D, s # {}, \A x \in s : s \ {x} \in G PROVE s \in G
  <2> DEFINE a == Taken(s)
  <2>1. a \in s /\ H[s] = g[a] + H[s \ {a}]
    BY <1>6, <1>8 DEF Taken
  <2> HIDE DEF a
  <2>2. p[a] \in image(s) /\ image(s) \in SUBSET C /\ image(s) \ {p[a]} = image(s \ {a})
    BY <1>1, <2>1
  <2>3. F[image(s)] = f[p[a]] + F[image(s \ {a})]
    BY <1>5, <2>2
  <2>4. H[s \ {a}] = F[image(s \ {a})] /\ g[a] = f[p[a]]
    BY <1>3, <1>8, <2>1
  <2> QED
    BY <2>1, <2>3, <2>4
<1>9. image(D) = C
  <2>1. \A k \in D : p[k] \in C
    BY <1>1
  <2>2. \A x \in C : \E k \in D : p[k] = x
    BY <1>1
  <2> QED
    BY <2>1, <2>2
<1> HIDE DEF G
<1>10. SUBSET D \subseteq G
  <2>1. \A s \in SUBSET D : s # {} /\ (\A x \in s : s \ {x} \in G) => s \in G
    BY <1>8
  <2> QED
    BY <1>7, <2>1, FiniteInduction
<1>11. H[D] = F[image(D)]
  BY <1>10 DEF G
<1> QED
  BY <1>4, <1>9, <1>11

LEMMA RankIgnoresOrder ==
  ASSUME NEW D, NEW C, NEW p, NEW f, NEW g, Reordered(p, D, C, f, g), NEW percent \in 0..100
  PROVE  NearestRank(g, percent) = NearestRank(f, percent)
<1>1. /\ p \in Bijection(D, C) /\ p \in [D -> C] /\ \A x \in C : \E k \in D : p[k] = x
      /\ IsFiniteSet(D) /\ D \subseteq Int /\ C \subseteq Int
  BY DEF Reordered, Bijection, Surjection, Injection
<1>2. IsFiniteSet(C) /\ Cardinality(C) = Cardinality(D)
  BY <1>1, Fun_ExistsBij, FS_Bijection
<1>3. /\ DOMAIN g = D /\ DOMAIN f = C /\ g \in [D -> Int] /\ f \in [C -> Int]
      /\ \A k \in D : g[k] = f[p[k]]
  BY <1>1 DEF Reordered
<1>4. \A v : CoversShare(g, percent, v) <=> CoversShare(f, percent, v)
  <2> SUFFICES ASSUME NEW v PROVE CoversShare(g, percent, v) <=> CoversShare(f, percent, v)
    OBVIOUS
  <2> DEFINE W == {i \in C : f[i] <= v}
             V == {k \in D : g[k] <= v}
  <2>1. V = {k \in D : p[k] \in W} /\ W \in SUBSET C
    BY <1>1, <1>3
  <2>2. CountWhere(f, LAMBDA w : w <= v) = Cardinality(W)
    BY <1>3 DEF CountWhere
  <2>3. CountWhere(g, LAMBDA w : w <= v) = Cardinality(V)
    BY <1>3 DEF CountWhere
  <2> HIDE DEF W, V
  <2>4. Chosen(p, D, C, V, W)
    BY <1>1, <2>1 DEF Chosen
  <2>5. Cardinality(V) = Cardinality(W)
    BY <2>4, CountIgnoresOrder
  <2> QED
    BY <1>2, <1>3, <2>2, <2>3, <2>5 DEF CoversShare
<1>5. CASE D = {}
  <2>1. C = {}
    BY <1>1, <1>5
  <2> QED
    BY <1>3, <1>5, <2>1 DEF NearestRank
<1>6. CASE D # {}
  <2>1. C # {}
    BY <1>1, <1>6
  <2>2. NearestRank(f, percent) = LeastCovering(f, percent)
    BY <1>1, <1>2, <1>3, <2>1, RankIsNearest
  <2>3. NearestRank(g, percent) = LeastCovering(g, percent)
    BY <1>1, <1>3, <1>6, RankIsNearest
  <2> DEFINE K == {k \in D : CoversShare(g, percent, g[k])}
             J == {j \in C : CoversShare(f, percent, f[j])}
  <2>4. {g[k] : k \in K} = {f[j] : j \in J}
    <3>1. \A k \in D : k \in K <=> p[k] \in J
      BY <1>1, <1>3, <1>4
    <3>2. K \subseteq D /\ J \subseteq C
      OBVIOUS
    <3> HIDE DEF K, J
    <3>3. ASSUME NEW k \in K PROVE \E j \in J : g[k] = f[j]
      BY <1>3, <3>1, <3>2
    <3>4. ASSUME NEW j \in J PROVE \E k \in K : g[k] = f[j]
      BY <1>1, <1>3, <3>1, <3>2
    <3> QED
      BY <3>3, <3>4
  <2> QED
    BY <1>3, <2>2, <2>3, <2>4 DEF LeastCovering
<1> QED
  BY <1>5, <1>6

(* The metrics of a baseline do not tell in which order its rows are. *)
Measured(results) ==
  \A k \in DOMAIN results :
    results[k].total \in Int /\ results[k].irreversible \in Int /\ results[k].latency \in Int
Shuffled(p, D, results, other) ==
  /\ p \in Bijection(D, D) /\ IsFiniteSet(D) /\ D \subseteq Int
  /\ DOMAIN results = D /\ other = [k \in D |-> results[p[k]]]

LEMMA SumsIgnoreOrder ==
  ASSUME NEW D, NEW p, NEW results, NEW other, Shuffled(p, D, results, other), Measured(results)
  PROVE  /\ Total([k \in D |-> other[k].total]) = Total([k \in D |-> results[k].total])
         /\ Total([k \in D |-> other[k].irreversible]) = Total([k \in D |-> results[k].irreversible])
<1> DEFINE f == [k \in D |-> results[k].total]
           g == [k \in D |-> results[k].irreversible]
           h == [k \in D |-> other[k].total]
           i == [k \in D |-> other[k].irreversible]
<1>1. p \in [D -> D] /\ DOMAIN results = D /\ other = [k \in D |-> results[p[k]]]
  BY DEF Shuffled, Bijection, Injection
<1>2. f \in [D -> Int] /\ g \in [D -> Int]
  BY <1>1 DEF Measured
<1>3. h = [k \in D |-> f[p[k]]] /\ i = [k \in D |-> g[p[k]]]
  BY <1>1
<1> HIDE DEF f, g, h, i
<1>4. Reordered(p, D, D, f, h) /\ Reordered(p, D, D, g, i)
  BY <1>2, <1>3 DEF Reordered, Shuffled
<1>5. Total(h) = Total(f) /\ Total(i) = Total(g)
  BY <1>4, TotalIgnoresOrder
<1> QED
  BY <1>5 DEF f, g, h, i

LatencyRank(results) ==
  NearestRank([i \in {j \in DOMAIN results : results[j].latency # NoLatency} |-> results[i].latency], 95)

LEMMA LatencyRankIgnoresOrder ==
  ASSUME NEW D, NEW p, NEW results, NEW other, Shuffled(p, D, results, other), Measured(results)
  PROVE  LatencyRank(other) = LatencyRank(results)
<1> DEFINE W == {j \in D : other[j].latency # NoLatency}
           T == {j \in D : results[j].latency # NoLatency}
           q == [k \in W |-> p[k]]
           f == [i \in T |-> results[i].latency]
           g == [i \in W |-> other[i].latency]
<1>1. /\ p \in [D -> D] /\ \A x \in D : \E k \in D : p[k] = x
      /\ \A j, k \in D : p[j] = p[k] => j = k
      /\ DOMAIN results = D /\ other = [k \in D |-> results[p[k]]]
      /\ IsFiniteSet(D) /\ D \subseteq Int
  BY DEF Shuffled, Bijection, Injection, Surjection, IsInjective
<1>2. \A k \in D : other[k] = results[p[k]] /\ (k \in W <=> p[k] \in T)
  BY <1>1
<1>3. W \in SUBSET D /\ T \in SUBSET D
  OBVIOUS
<1>4. f \in [T -> Int]
  BY <1>1 DEF Measured
<1>5. g = [k \in W |-> f[q[k]]] /\ q = [k \in W |-> p[k]]
  BY <1>1, <1>2
<1>6. LatencyRank(other) = NearestRank(g, 95) /\ LatencyRank(results) = NearestRank(f, 95)
  BY <1>1 DEF LatencyRank
<1> HIDE DEF W, T, q, f, g
<1>7. q \in Bijection(W, T)
  <2>1. q \in [W -> T] /\ (\A j, k \in W : q[j] = q[k] => j = k) /\ (\A x \in T : \E k \in W : q[k] = x)
    BY <1>1, <1>2, <1>3, <1>5
  <2> QED
    BY <2>1 DEF Bijection, Injection, Surjection, IsInjective
<1>8. Reordered(q, W, T, f, g)
  <2>1. IsFiniteSet(W)
    BY <1>1, <1>3, FS_Subset
  <2> QED
    BY <1>1, <1>3, <1>4, <1>5, <1>7, <2>1 DEF Reordered
<1>9. 95 \in 0..100
  OBVIOUS
<1> QED
  BY <1>6, <1>8, <1>9, RankIgnoresOrder

LEMMA AggregateIgnoresOrder ==
  ASSUME NEW D, NEW p, NEW cases, NEW otherCases, Shuffled(p, D, cases, otherCases),
         NEW results, NEW other, Shuffled(p, D, results, other), Measured(results), Len(other) = Len(results)
  PROVE  Aggregate(otherCases, other) = Aggregate(cases, results)
<1>1. /\ p \in Bijection(D, D) /\ IsFiniteSet(D)
      /\ DOMAIN otherCases = D /\ DOMAIN other = D /\ DOMAIN cases = D /\ DOMAIN results = D
      /\ \A k \in D : p[k] \in D /\ otherCases[k] = cases[p[k]] /\ other[k] = results[p[k]]
  BY DEF Shuffled, Bijection, Injection
<1>2. CountWhere(otherCases, LAMBDA c : c.legitimate) = CountWhere(cases, LAMBDA c : c.legitimate)
  <2> DEFINE W == {k \in D : cases[k].legitimate}  V == {k \in D : otherCases[k].legitimate}
  <2>1. Chosen(p, D, D, V, W)
    BY <1>1 DEF Chosen
  <2>2. /\ CountWhere(otherCases, LAMBDA c : c.legitimate) = Cardinality(V)
        /\ CountWhere(cases, LAMBDA c : c.legitimate) = Cardinality(W)
    BY <1>1 DEF CountWhere
  <2> HIDE DEF W, V
  <2> QED
    BY <2>1, <2>2, CountIgnoresOrder
<1>3. CountWhere(other, LAMBDA r : r.decision \in {"EXECUTE", "BLOCK"})
        = CountWhere(results, LAMBDA r : r.decision \in {"EXECUTE", "BLOCK"})
  <2> DEFINE W == {k \in D : results[k].decision \in {"EXECUTE", "BLOCK"}}
             V == {k \in D : other[k].decision \in {"EXECUTE", "BLOCK"}}
  <2>1. Chosen(p, D, D, V, W)
    BY <1>1 DEF Chosen
  <2>2. /\ CountWhere(other, LAMBDA r : r.decision \in {"EXECUTE", "BLOCK"}) = Cardinality(V)
        /\ CountWhere(results, LAMBDA r : r.decision \in {"EXECUTE", "BLOCK"}) = Cardinality(W)
    BY <1>1 DEF CountWhere
  <2> HIDE DEF W, V
  <2> QED
    BY <2>1, <2>2, CountIgnoresOrder
<1>4. CountWhere(other, LAMBDA r : r.correct) = CountWhere(results, LAMBDA r : r.correct)
  <2> DEFINE W == {k \in D : results[k].correct}  V == {k \in D : other[k].correct}
  <2>1. Chosen(p, D, D, V, W)
    BY <1>1 DEF Chosen
  <2>2. /\ CountWhere(other, LAMBDA r : r.correct) = Cardinality(V)
        /\ CountWhere(results, LAMBDA r : r.correct) = Cardinality(W)
    BY <1>1 DEF CountWhere
  <2> HIDE DEF W, V
  <2> QED
    BY <2>1, <2>2, CountIgnoresOrder
<1>5. CountWhere(other, LAMBDA r : r.completed) = CountWhere(results, LAMBDA r : r.completed)
  <2> DEFINE W == {k \in D : results[k].completed}  V == {k \in D : other[k].completed}
  <2>1. Chosen(p, D, D, V, W)
    BY <1>1 DEF Chosen
  <2>2. /\ CountWhere(other, LAMBDA r : r.completed) = Cardinality(V)
        /\ CountWhere(results, LAMBDA r : r.completed) = Cardinality(W)
    BY <1>1 DEF CountWhere
  <2> HIDE DEF W, V
  <2> QED
    BY <2>1, <2>2, CountIgnoresOrder
<1>6. CountWhere(other, LAMBDA r : r.decision = "ERROR")
        = CountWhere(results, LAMBDA r : r.decision = "ERROR")
  <2> DEFINE W == {k \in D : results[k].decision = "ERROR"}  V == {k \in D : other[k].decision = "ERROR"}
  <2>1. Chosen(p, D, D, V, W)
    BY <1>1 DEF Chosen
  <2>2. /\ CountWhere(other, LAMBDA r : r.decision = "ERROR") = Cardinality(V)
        /\ CountWhere(results, LAMBDA r : r.decision = "ERROR") = Cardinality(W)
    BY <1>1 DEF CountWhere
  <2> HIDE DEF W, V
  <2> QED
    BY <2>1, <2>2, CountIgnoresOrder
<1>7. CountWhere(other, LAMBDA r : ~(r.latency # NoLatency))
        = CountWhere(results, LAMBDA r : ~(r.latency # NoLatency))
  <2> DEFINE W == {k \in D : ~(results[k].latency # NoLatency)}
             V == {k \in D : ~(other[k].latency # NoLatency)}
  <2>1. Chosen(p, D, D, V, W)
    BY <1>1 DEF Chosen
  <2>2. /\ CountWhere(other, LAMBDA r : ~(r.latency # NoLatency)) = Cardinality(V)
        /\ CountWhere(results, LAMBDA r : ~(r.latency # NoLatency)) = Cardinality(W)
    BY <1>1 DEF CountWhere
  <2> HIDE DEF W, V
  <2> QED
    BY <2>1, <2>2, CountIgnoresOrder
<1>8. /\ Total([k \in D |-> other[k].total]) = Total([k \in D |-> results[k].total])
      /\ Total([k \in D |-> other[k].irreversible]) = Total([k \in D |-> results[k].irreversible])
  BY SumsIgnoreOrder
<1>9. LatencyRank(other) = LatencyRank(results)
  BY LatencyRankIgnoresOrder
<1> QED
  BY <1>1, <1>2, <1>3, <1>4, <1>5, <1>6, <1>7, <1>8, <1>9, Zenon DEF Aggregate, LatencyRank

(* Two orders of the same cases: p gives the places of one in the other. *)
LEMMA OrdersDiffer ==
  ASSUME NEW cases, NEW order, NEW declared, IsOrder(order, cases), IsOrder(declared, cases)
  PROVE  /\ DOMAIN declared = 1..Len(declared) /\ Len(declared) \in Nat /\ DOMAIN order = DOMAIN declared
         /\ \E p \in Bijection(DOMAIN declared, DOMAIN declared) :
              \A k \in DOMAIN declared : order[k] = declared[p[k]]
<1> DEFINE p == [k \in DOMAIN order |-> CHOOSE j \in DOMAIN declared : declared[j] = order[k]]
           m == Len(order)
           n == Len(declared)
<1>1. /\ m \in Nat /\ n \in Nat /\ DOMAIN order = 1..m /\ DOMAIN declared = 1..n
      /\ \A j, k \in DOMAIN order : order[j] = order[k] => j = k
      /\ \A j, k \in DOMAIN declared : declared[j] = declared[k] => j = k
      /\ \A k \in DOMAIN order : \E j \in DOMAIN declared : declared[j] = order[k]
      /\ \A j \in DOMAIN declared : \E k \in DOMAIN order : order[k] = declared[j]
  <2>1. m \in Nat /\ n \in Nat /\ DOMAIN order = 1..m /\ DOMAIN declared = 1..n
    BY DEF IsOrder
  <2>2. /\ \A j, k \in DOMAIN order : order[j] = order[k] => j = k
        /\ \A j, k \in DOMAIN declared : declared[j] = declared[k] => j = k
    BY DEF IsOrder, IsInjective
  <2>3. {order[k] : k \in DOMAIN order} = {declared[j] : j \in DOMAIN declared}
    BY DEF IsOrder, Range
  <2>4. /\ \A k \in DOMAIN order : \E j \in DOMAIN declared : declared[j] = order[k]
        /\ \A j \in DOMAIN declared : \E k \in DOMAIN order : order[k] = declared[j]
    BY <2>3
  <2> QED
    BY <2>1, <2>2, <2>4
<1> HIDE DEF m, n
<1>2. \A k \in DOMAIN order : p[k] \in DOMAIN declared /\ declared[p[k]] = order[k]
  BY <1>1
<1>3. DOMAIN p = DOMAIN order /\ p \in [DOMAIN order -> DOMAIN declared]
  BY <1>2
<1> HIDE DEF p
<1>4. \A j, k \in DOMAIN order : p[j] = p[k] => j = k
  BY <1>1, <1>2
<1>5. \A j \in DOMAIN declared : \E k \in DOMAIN order : p[k] = j
  BY <1>1, <1>2
<1>6. p \in Bijection(DOMAIN order, DOMAIN declared)
  BY <1>3, <1>4, <1>5, Fun_IsBij
<1>7. m = n
  <2>1. ExistsBijection(1..m, 1..n)
    BY <1>1, <1>6, Fun_ExistsBij
  <2>2. /\ IsFiniteSet(1..m) /\ Cardinality(1..m) = m /\ Cardinality(1..n) = n
    BY <1>1, FS_Interval
  <2> QED
    BY <2>1, <2>2, FS_Bijection
<1>8. DOMAIN order = DOMAIN declared
  BY <1>1, <1>7
<1> QED
  BY <1>1, <1>2, <1>6, <1>8 DEF n

RowOf(plan, cases, b, id) ==
  Score(CaseNamed(cases, id), Evaluate(plan.baselines[b], CaseNamed(cases, id)), plan.weights)

LEMMA RowsOfResults ==
  ASSUME NEW plan, NEW suite, NEW order
  PROVE  Results(plan, suite, order) =
           [b \in DOMAIN plan.baselines |-> [k \in DOMAIN order |-> RowOf(plan, suite.cases, b, order[k])]]
BY DEF Results, ScoreAll, Ordered, RowOf

(* What the constructors of a plan and of a suite admit as numbers. *)
CaseCounts(c) ==
  /\ Costed(c) /\ c.exposure \in Nat
  /\ IsFiniteSet(DOMAIN c.evidence) /\ \A e \in DOMAIN c.evidence : c.evidence[e].latency \in Nat
BaselineCounts(reg) ==
  /\ reg.type \in BaselineType
  /\ IF reg.type \in Replays THEN \A id \in DOMAIN reg.decisions : reg.decisions[id].latency \in Nat \cup {NoLatency}
     ELSE reg.overhead \in Nat
InputsAreNumbers(plan, suite) ==
  /\ Weighs(plan.weights)
  /\ \A i \in DOMAIN suite.cases : CaseCounts(suite.cases[i])
  /\ \A b \in DOMAIN plan.baselines : BaselineCounts(plan.baselines[b])

LEMMA RowsAreNumbers ==
  ASSUME NEW plan, NEW suite, InputsAreNumbers(plan, suite),
         NEW b \in DOMAIN plan.baselines, NEW id \in CaseIds(suite.cases)
  PROVE  LET row == RowOf(plan, suite.cases, b, id)
         IN  row.total \in Int /\ row.irreversible \in Int /\ row.latency \in Int
<1> DEFINE c == CaseNamed(suite.cases, id)
           reg == plan.baselines[b]
           w == plan.weights
           row == Evaluate(reg, c)
<1>1. CaseCounts(c) /\ BaselineCounts(reg) /\ Weighs(w)
  <2>1. \E i \in DOMAIN suite.cases : suite.cases[i].id = id
    BY DEF CaseIds
  <2> QED
    BY <2>1 DEF InputsAreNumbers, CaseNamed
<1>2. RowOf(plan, suite.cases, b, id) = Score(c, row, w)
  BY DEF RowOf
<1> HIDE DEF c, reg, w
<1>3. NoLatency \in Int
  BY DEF NoLatency
<1>4. row.latency \in Int
  <2>1. CASE reg.type \in Replays
    <3>1. row = Replay(reg, c)
      BY <2>1 DEF Evaluate, Replays
    <3> QED
      BY <1>1, <1>3, <2>1, <3>1 DEF Replay, ErrorRow, BaselineCounts
  <2>2. CASE reg.type \notin Replays
    <3>1. reg.type \in {"STATIC_RULES", "DYNAMIC_DETERMINISTIC_WORKFLOW", "CONSERVATIVE_ABSTAIN"} /\ reg.overhead \in Nat
      BY <1>1, <2>2 DEF BaselineCounts, BaselineType, Replays
    <3>2. row \in {StaticRules(reg, c), DynamicRiskEvidence(reg, c), Conservative(reg, c)}
      BY <2>2, <3>1 DEF Evaluate
    <3>3. StaticRules(reg, c).latency \in Int /\ Conservative(reg, c).latency \in Int
      BY <3>1 DEF StaticRules, Conservative
    <3>4. DynamicRiskEvidence(reg, c).latency \in Int
      <4> DEFINE f == [e \in DOMAIN c.evidence |-> c.evidence[e].latency]
      <4>1. DOMAIN f = DOMAIN c.evidence /\ IsFiniteSet(DOMAIN f) /\ \A e \in DOMAIN f : f[e] \in Nat
        BY <1>1 DEF CaseCounts
      <4>2. DynamicRiskEvidence(reg, c).latency = reg.overhead + (IF c.amount > c.limit THEN 0 ELSE Total(f))
        BY DEF DynamicRiskEvidence
      <4> HIDE DEF f
      <4>3. Total(f) \in Nat
        BY <4>1, TotalIsNat
      <4> QED
        BY <3>1, <4>2, <4>3
    <3> QED
      BY <3>2, <3>3, <3>4
  <2> QED
    BY <2>1, <2>2
<1> HIDE DEF row
<1>5. Score(c, row, w).total \in Int
  <2>1. Score(c, row, w).total = ChargeOf(c, row, w) /\ ChargeOf(c, row, w) \in Nat
    BY <1>1, ScoreIsCharge DEF CaseCounts
  <2> QED
    BY <2>1
<1>6. Score(c, row, w).latency = row.latency
  BY DEF Score
<1>7. Score(c, row, w).irreversible = Charge(row.decision = "EXECUTE" /\ ~c.safe, c.exposure)
  BY DEF Score
<1>8. Charge(row.decision = "EXECUTE" /\ ~c.safe, c.exposure) \in Int
  BY <1>1 DEF Charge, CaseCounts
<1> QED
  BY <1>2, <1>4, <1>5, <1>6, <1>7, <1>8

Fields == {"plan", "suite", "generated", "order", "results", "summaries", "provenance", "errors"}

ReplaysAreComplete(plan, suite) ==
  \A b \in DOMAIN plan.baselines :
    plan.baselines[b].type \in Replays => DOMAIN plan.baselines[b].decisions = CaseIds(suite.cases)

Failures(results) == Total([b \in DOMAIN results |-> CountWhere(results[b], LAMBDA r : r.decision = "ERROR")])

LEMMA RunIs ==
  ASSUME NEW plan, NEW suite, NEW order, NEW at
  PROVE  LET run == RunBenchmark(plan, suite, order, at)
             results == Results(plan, suite, order)
         IN  /\ run.plan = plan /\ run.suite = suite /\ run.generated = at /\ run.order = order
             /\ run.results = results /\ DOMAIN results = DOMAIN plan.baselines
             /\ run.summaries = [b \in DOMAIN results |-> Aggregate(Ordered(suite.cases, order), results[b])]
             /\ run.provenance = Provenance(plan, suite, results)
             /\ run.errors = Failures(results)
             /\ DOMAIN run = Fields
<1> DEFINE results == Results(plan, suite, order)
<1>1. DOMAIN results = DOMAIN plan.baselines
  BY DEF Results
<1> HIDE DEF results
<1> QED
  BY <1>1 DEF RunBenchmark, Fields, Failures, results

LEMMA RunIsAccepted ==
  ASSUME NEW plan, NEW suite, NEW order, NEW at
  PROVE  ArtifactValid(RunBenchmark(plan, suite, order, at)) <=>
           /\ plan.suite = suite /\ suite.frozen <= plan.registered /\ at >= plan.registered
           /\ ReplaysAreComplete(plan, suite) /\ IsOrder(order, suite.cases)
<1> DEFINE run == RunBenchmark(plan, suite, order, at)
           results == Results(plan, suite, order)
<1>1. /\ run.plan = plan /\ run.suite = suite /\ run.generated = at /\ run.order = order
      /\ run.results = results /\ DOMAIN results = DOMAIN plan.baselines
      /\ run.summaries = [b \in DOMAIN results |-> Aggregate(Ordered(suite.cases, order), results[b])]
      /\ run.provenance = Provenance(plan, suite, results)
      /\ run.errors = Failures(results)
  BY RunIs
<1> HIDE DEF run
<1>2. DOMAIN run.summaries = DOMAIN plan.baselines
  BY <1>1
<1>3. ArtifactValid(run) => /\ plan.suite = suite /\ suite.frozen <= plan.registered /\ at >= plan.registered
                            /\ ReplaysAreComplete(plan, suite) /\ IsOrder(order, suite.cases)
  BY <1>1 DEF ArtifactValid, ReplaysAreComplete
<1>4. run.results = Results(run.plan, run.suite, run.order)
  BY <1>1
<1> HIDE DEF results
<1>5. ASSUME plan.suite = suite, suite.frozen <= plan.registered, at >= plan.registered,
             ReplaysAreComplete(plan, suite), IsOrder(order, suite.cases)
      PROVE  ArtifactValid(run)
  BY <1>1, <1>2, <1>4, <1>5, Zenon DEF ArtifactValid, ReplaysAreComplete, Failures
<1> QED
  BY <1>3, <1>5 DEF run

(* The results of two orders of one plan. *)
LEMMA ResultsIgnoreOrder ==
  ASSUME NEW plan, NEW suite, InputsAreNumbers(plan, suite),
         NEW order, NEW declared, IsOrder(order, suite.cases), IsOrder(declared, suite.cases),
         NEW b \in DOMAIN plan.baselines
  PROVE  LET other == Results(plan, suite, order)[b]
             results == Results(plan, suite, declared)[b]
         IN  /\ Range(other) = Range(results)
             /\ CountWhere(other, LAMBDA r : r.decision = "ERROR") = CountWhere(results, LAMBDA r : r.decision = "ERROR")
             /\ Aggregate(Ordered(suite.cases, order), other) = Aggregate(Ordered(suite.cases, declared), results)
<1> DEFINE D == DOMAIN declared
           n == Len(declared)
           other == Results(plan, suite, order)[b]
           results == Results(plan, suite, declared)[b]
           cases == Ordered(suite.cases, declared)
           otherCases == Ordered(suite.cases, order)
<1>1. D = 1..n /\ n \in Nat /\ DOMAIN order = D
  BY OrdersDiffer
<1>2. PICK p \in Bijection(D, D) : \A k \in D : order[k] = declared[p[k]]
  BY OrdersDiffer
<1>3. /\ other = [k \in D |-> RowOf(plan, suite.cases, b, order[k])]
      /\ results = [k \in D |-> RowOf(plan, suite.cases, b, declared[k])]
  BY <1>1, RowsOfResults
<1>4. /\ otherCases = [k \in D |-> CaseNamed(suite.cases, order[k])]
      /\ cases = [k \in D |-> CaseNamed(suite.cases, declared[k])]
  BY <1>1 DEF Ordered
<1>5. \A k \in D : declared[k] \in CaseIds(suite.cases)
  BY DEF IsOrder
<1>6. Len(other) = n /\ Len(results) = n
  BY <1>1, <1>3
<1> HIDE DEF D, n, other, results, cases, otherCases
<1>7. /\ p \in [D -> D] /\ \A x \in D : \E k \in D : p[k] = x
  BY DEF Bijection, Injection, Surjection
<1>8. IsFiniteSet(D) /\ D \subseteq Int
  BY <1>1, FS_Interval
<1>9. Measured(results)
  <2> SUFFICES ASSUME NEW k \in D
               PROVE  results[k].total \in Int /\ results[k].irreversible \in Int /\ results[k].latency \in Int
    BY <1>3 DEF Measured
  <2>1. results[k] = RowOf(plan, suite.cases, b, declared[k])
    BY <1>3
  <2> QED
    BY <1>5, <2>1, RowsAreNumbers
<1>10. Shuffled(p, D, cases, otherCases)
  <2>1. otherCases = [k \in D |-> cases[p[k]]] /\ DOMAIN cases = D
    BY <1>2, <1>4, <1>7
  <2> QED
    BY <1>8, <2>1 DEF Shuffled
<1>11. other = [k \in D |-> results[p[k]]] /\ DOMAIN results = D
  BY <1>2, <1>3, <1>7
<1>12. Shuffled(p, D, results, other)
  BY <1>8, <1>11 DEF Shuffled
<1>13. Aggregate(otherCases, other) = Aggregate(cases, results)
  BY <1>6, <1>9, <1>10, <1>12, AggregateIgnoresOrder
<1>14. Range(other) = Range(results)
  BY <1>7, <1>11 DEF Range
<1>15. CountWhere(other, LAMBDA r : r.decision = "ERROR")
         = CountWhere(results, LAMBDA r : r.decision = "ERROR")
  <2>1. Aggregate(otherCases, other).errored = CountWhere(other, LAMBDA r : r.decision = "ERROR")
    BY DEF Aggregate
  <2>2. Aggregate(cases, results).errored = CountWhere(results, LAMBDA r : r.decision = "ERROR")
    BY DEF Aggregate
  <2> QED
    BY <1>13, <2>1, <2>2
<1> QED
  BY <1>13, <1>14, <1>15 DEF other, results, cases, otherCases

LEMMA RunsSayTheSame ==
  ASSUME NEW plan, NEW suite, InputsAreNumbers(plan, suite), NEW at,
         NEW order, NEW declared, IsOrder(order, suite.cases), IsOrder(declared, suite.cases)
  PROVE  SayTheSame(RunBenchmark(plan, suite, declared, at), RunBenchmark(plan, suite, order, at))
<1> DEFINE B == DOMAIN plan.baselines
           results == Results(plan, suite, declared)
           other == Results(plan, suite, order)
           one == RunBenchmark(plan, suite, declared, at)
           run == RunBenchmark(plan, suite, order, at)
           Of(b) == Aggregate(Ordered(suite.cases, declared), results[b])
           OtherOf(b) == Aggregate(Ordered(suite.cases, order), other[b])
<1>1. /\ one.results = results /\ DOMAIN results = B
      /\ one.summaries = [b \in DOMAIN results |-> Of(b)]
      /\ one.provenance = Provenance(plan, suite, results)
      /\ one.errors = Failures(results)
  BY RunIs
<1>2. /\ run.results = other /\ DOMAIN other = B
      /\ run.summaries = [b \in DOMAIN other |-> OtherOf(b)]
      /\ run.provenance = Provenance(plan, suite, other)
      /\ run.errors = Failures(other)
  BY RunIs
<1>a. ASSUME NEW b \in B
      PROVE  /\ Range(other[b]) = Range(results[b])
             /\ CountWhere(other[b], LAMBDA r : r.decision = "ERROR") = CountWhere(results[b], LAMBDA r : r.decision = "ERROR")
             /\ Aggregate(Ordered(suite.cases, order), other[b]) = Aggregate(Ordered(suite.cases, declared), results[b])
  BY ResultsIgnoreOrder
<1>3. \A b \in B : Of(b) = OtherOf(b)
  BY <1>a
<1>4. \A b \in B : Range(results[b]) = Range(other[b])
  BY <1>a
<1>5. \A b \in B : CountWhere(other[b], LAMBDA r : r.decision = "ERROR") = CountWhere(results[b], LAMBDA r : r.decision = "ERROR")
  BY <1>a
<1> HIDE DEF B, one, run, Of, OtherOf, results, other
<1>6. one.summaries = run.summaries
  BY <1>1, <1>2, <1>3
<1>7. Failures(results) = Failures(other)
  BY <1>1, <1>2, <1>5 DEF Failures
<1>8. Provenance(plan, suite, results) = Provenance(plan, suite, other)
  <2> DEFINE P(f) == {f[i].provenance : i \in DOMAIN f}
  <2>1. ASSUME NEW f, NEW g, Range(f) = Range(g) PROVE P(f) = P(g)
    <3>1. {f[i] : i \in DOMAIN f} = {g[j] : j \in DOMAIN g}
      BY <2>1 DEF Range
    <3>2. ASSUME NEW i \in DOMAIN f PROVE \E j \in DOMAIN g : f[i] = g[j]
      BY <3>1
    <3>3. ASSUME NEW j \in DOMAIN g PROVE \E i \in DOMAIN f : f[i] = g[j]
      BY <3>1
    <3> QED
      BY <3>2, <3>3
  <2>2. /\ Provenance(plan, suite, results).latency = UNION {P(results[b]) : b \in B}
        /\ Provenance(plan, suite, other).latency = UNION {P(other[b]) : b \in B}
    BY <1>1, <1>2 DEF Provenance
  <2> HIDE DEF P
  <2>3. \A b \in B : P(results[b]) = P(other[b])
    BY <1>4, <2>1
  <2>4. {P(results[b]) : b \in B} = {P(other[b]) : b \in B}
    BY <2>3
  <2>5. Provenance(plan, suite, results).latency = Provenance(plan, suite, other).latency
    BY <2>2, <2>4
  <2> QED
    BY <2>5, Zenon DEF Provenance
<1>9. DOMAIN one.results = DOMAIN run.results /\ \A b \in DOMAIN one.results : Range(one.results[b]) = Range(run.results[b])
  BY <1>1, <1>2, <1>4
<1>10. SayTheSame(one, run)
  BY <1>1, <1>2, <1>6, <1>7, <1>8, <1>9 DEF SayTheSame
<1> QED
  BY <1>10 DEF one, run

(* The order of an artifact's rows is declared by the artifact and never   *)
(* compared with the shuffle of the plan's seed, yet it cannot change what *)
(* is published: an accepted artifact says of every case, baseline, input  *)
(* and error what a run of its plan says in whatever order, and every such *)
(* run would be accepted in its place, for any plan and any suite whose    *)
(* amounts, weights and latencies are numbers, as their types demand       *)
(* (run_benchmark, BenchmarkArtifact.validate_artifact_integrity).         *)
THEOREM AcceptedIsRecomputed ==
  ASSUME NEW a, ArtifactValid(a), InputsAreNumbers(a.plan, a.suite),
         NEW order, IsOrder(order, a.suite.cases)
  PROVE  LET run == RunBenchmark(a.plan, a.suite, order, a.generated)
         IN  ArtifactValid(run) /\ SayTheSame(a, run)
<1> DEFINE plan == a.plan
           suite == a.suite
           at == a.generated
           declared == a.order
           results == Results(plan, suite, declared)
           one == RunBenchmark(plan, suite, declared, at)
           run == RunBenchmark(plan, suite, order, at)
<1>1. /\ a.results = results /\ IsOrder(declared, suite.cases)
      /\ a.summaries = [b \in DOMAIN results |-> Aggregate(Ordered(suite.cases, declared), results[b])]
      /\ a.provenance = Provenance(plan, suite, results)
      /\ a.errors = Failures(results)
      /\ plan.suite = suite /\ suite.frozen <= plan.registered /\ at >= plan.registered
      /\ ReplaysAreComplete(plan, suite)
  BY DEF ArtifactValid, Failures, ReplaysAreComplete
<1>2. InputsAreNumbers(plan, suite) /\ IsOrder(order, suite.cases)
  OBVIOUS
<1> HIDE DEF plan, suite, at, declared
<1>3. /\ one.results = results
      /\ one.summaries = [b \in DOMAIN results |-> Aggregate(Ordered(suite.cases, declared), results[b])]
      /\ one.provenance = Provenance(plan, suite, results)
      /\ one.errors = Failures(results)
  BY RunIs
<1>4. SayTheSame(one, run)
  BY <1>1, <1>2, RunsSayTheSame
<1>5. ArtifactValid(run)
  BY <1>1, <1>2, RunIsAccepted
<1> HIDE DEF one, run, results
<1>6. a.results = one.results /\ a.summaries = one.summaries /\ a.provenance = one.provenance /\ a.errors = one.errors
  BY <1>1, <1>3
<1>7. SayTheSame(a, run)
  BY <1>4, <1>6 DEF SayTheSame
<1> QED
  BY <1>5, <1>7 DEF run, plan, suite, at

-------------------------------------------------------------------------------
(* The samples of MCPublication. *)

LEMMA DecisionSamples == ASSUME sample \in Decisions PROVE EvidenceOnlyPermits
<1> DEFINE c == CaseOf(sample)
<1>1. /\ sample.evidence \in [{1, 2} -> Evidence] /\ sample.risk \in {0, 2500, 2600, 5500}
  BY DEF Decisions
<1>2. /\ c.risk = sample.risk /\ c.evidence = sample.evidence
      /\ c.signals = {[code |-> "velocity", active |-> sample.active, weight |-> 1000]}
      /\ DOMAIN c = DOMAIN Case(1, TRUE)
  BY DEF CaseOf, Case
<1>3. \A e \in {1, 2} : /\ c.evidence[e].status \in EvidenceStatus
                        /\ c.evidence[e] = [status |-> c.evidence[e].status, required |-> c.evidence[e].required,
                                            latency |-> c.evidence[e].latency]
  BY <1>1, <1>2 DEF Evidence
<1>4. IsAssessed(c)
  <2> DEFINE signal == [code |-> "velocity", active |-> sample.active, weight |-> 1000]
  <2>0. signal.weight \in Int /\ c.signals = {signal}
    BY <1>2
  <2> HIDE DEF signal, c
  <2>1. IsFiniteSet(c.signals) /\ \A s \in c.signals : s.weight \in Int
    BY <2>0, FS_Singleton
  <2>2. IsFiniteSet({1, 2})
    <3>1. IsFiniteSet({1}) /\ {1, 2} = {1} \cup {2}
      BY FS_Singleton
    <3> QED
      BY <3>1, FS_AddElement
  <2>3. DOMAIN c.evidence = {1, 2}
    BY <1>1, <1>2
  <2> HIDE DEF c
  <2> QED
    BY <1>1, <1>2, <1>3, <2>1, <2>2, <2>3 DEF IsAssessed
<1>5. IsWeighed(Dynamic)
  BY DEF IsWeighed, Dynamic
<1>6. ASSUME NEW e \in DOMAIN c.evidence, NEW lost \in EvidenceStatus, c.evidence[e].status = "VERIFIED"
      PROVE  HasLost(c, [c EXCEPT !.evidence[e].status = lost])
  <2> DEFINE d == [c EXCEPT !.evidence[e].status = lost]
  <2>1. /\ d.amount = c.amount /\ d.limit = c.limit /\ d.risk = c.risk /\ d.signals = c.signals
        /\ d.evidence = [c.evidence EXCEPT ![e].status = lost]
    BY DEF CaseOf, Case
  <2>2. DOMAIN c.evidence = {1, 2}
    BY <1>1, <1>2
  <2> HIDE DEF c
  <2> HIDE DEF d
  <2>3. ASSUME NEW f \in {1, 2}
        PROVE  /\ d.evidence[f].required = c.evidence[f].required
               /\ d.evidence[f].status = IF f = e THEN lost ELSE c.evidence[f].status
    BY <1>3, <2>1, <2>2
  <2>4. DOMAIN d.evidence = DOMAIN c.evidence
    BY <2>1
  <2>5. HasLost(c, d)
    BY <1>3, <1>6, <2>1, <2>2, <2>3, <2>4 DEF HasLost
  <2> QED
    BY <2>5 DEF d
<1> HIDE DEF c
<1>7. DynamicRiskEvidence(Dynamic, c).decision = "EXECUTE" => ~RequiredIs(c, EvidenceStatus \ {"VERIFIED"})
  BY <1>4, <1>5, LostEvidencePermitsNothingMore
<1>8. \A d : HasLost(c, d) => Permission(DynamicRiskEvidence(Dynamic, d)) <= Permission(DynamicRiskEvidence(Dynamic, c))
  BY <1>4, <1>5, LostEvidencePermitsNothingMore
<1>9. \A e \in DOMAIN c.evidence, lost \in EvidenceStatus : c.evidence[e].status = "VERIFIED" =>
        Permission(DynamicRiskEvidence(Dynamic, [c EXCEPT !.evidence[e].status = lost])) <= Permission(DynamicRiskEvidence(Dynamic, c))
  BY <1>6, <1>8
<1> QED
  BY <1>7, <1>9, Zenon DEF EvidenceOnlyPermits, c

LEMMA RankSamples == ASSUME sample \in Ranks PROVE RankIsLeast
<1> SUFFICES ASSUME sample.n > 0 
             PROVE LET values == ValuesOf(sample)
                       Covers(v) == 100 * CountWhere(values, LAMBDA w : w <= v) >= 95 * sample.n
                   IN  NearestRank(values, 95) = Min({values[i] : i \in {j \in DOMAIN values : Covers(values[j])}})
  BY DEF RankIsLeast
<1> DEFINE values == ValuesOf(sample)
<1>1. sample.n \in Nat /\ sample.step \in Nat
  BY DEF Ranks
<1>2. values \in [1..sample.n -> Int]
  BY <1>1 DEF ValuesOf
<1> HIDE DEF values
<1>3. DOMAIN values = 1..sample.n /\ 1..sample.n # {} /\ 1..sample.n \subseteq Int /\ 95 \in 0..100
  BY <1>1, <1>2
<1>4. IsFiniteSet(1..sample.n) /\ Cardinality(1..sample.n) = sample.n
  <2>1. ASSUME NEW m \in Nat, m > 0 PROVE IsFiniteSet(1..m) /\ Cardinality(1..m) = m
    <3>1. 1 \in Int /\ m \in Int /\ ~(1 > m) /\ m - 1 + 1 = m
      BY <2>1
    <3>2. IsFiniteSet(1..m) /\ Cardinality(1..m) = IF 1 > m THEN 0 ELSE m - 1 + 1
      BY <3>1, FS_Interval, Zenon
    <3> QED
      BY <3>1, <3>2
  <2> QED
    BY <1>1, <2>1
<1>5. NearestRank(values, 95) = LeastCovering(values, 95)
  BY <1>2, <1>3, <1>4, RankIsNearest
<1> QED
  BY <1>3, <1>4, <1>5 DEF LeastCovering, CoversShare, values

LEMMA VerdictSamples == ASSUME sample \in Verdicts PROVE VerdictsAreStrict
<1> DEFINE rule == RuleWith(sample.margin)
           ours == SnapshotOf(sample.ours)
           theirs == SnapshotOf(sample.theirs)
<1>1. sample.ours \in Nat /\ sample.theirs \in Nat /\ sample.margin \in Nat
  BY DEF Verdicts
<1>2. \A tel : /\ SnapshotOf(tel).tel = tel /\ SnapshotOf(tel).cases = {1, 2}
               /\ SnapshotOf(tel).completion = <<1, 1>> /\ SnapshotOf(tel).coverage = <<2, 2>>
               /\ SnapshotOf(tel).reliability = <<1, 2>>
               /\ SnapshotOf(tel).p95 = 1 /\ SnapshotOf(tel).errored = 0
               /\ SnapshotOf(tel).missing_latency = 0 /\ SnapshotOf(tel).irreversible = 0
  BY DEF SnapshotOf
<1>3. /\ rule.margin = sample.margin /\ Numbers(rule)
      /\ rule.completion \in Int /\ rule.coverage \in Int /\ rule.reliability \in Int
  BY DEF RuleWith, Numbers, Limits
<1> HIDE DEF rule
<1>4. \A tel : Numbers(SnapshotOf(tel))
  BY <1>2 DEF Numbers, Limits
<1>5. \A tel : NotLess(SnapshotOf(tel).completion, ours.completion)
            /\ NotLess(SnapshotOf(tel).coverage, ours.coverage)
            /\ NotLess(SnapshotOf(tel).reliability, ours.reliability)
  BY <1>2 DEF NotLess
<1>6. ours.completion[2] \in Int /\ ours.coverage[2] \in Int /\ ours.reliability[2] \in Int
  BY <1>2
<1>7. ours.tel = sample.ours /\ theirs.tel = sample.theirs
  BY <1>2
<1>8. ASSUME NEW less \in 0..sample.ours PROVE NoWorse(SnapshotOf(less), ours)
  <2>1. \A count \in Limits : SnapshotOf(less)[count] <= ours[count]
    BY <1>2 DEF Limits
  <2>2. SnapshotOf(less).tel \in Nat /\ SnapshotOf(less).tel <= ours.tel /\ SnapshotOf(less).cases = ours.cases
    <3>1. less \in Nat /\ less <= sample.ours
      BY <1>1
    <3> QED
      BY <1>2, <3>1
  <2> QED
    BY <1>4, <1>5, <2>1, <2>2 DEF NoWorse
<1> HIDE DEF ours, theirs
<1>9. ASSUME Passes(rule, ours, theirs)
      PROVE  /\ (theirs.tel - ours.tel) * 10000 >= rule.margin * theirs.tel
             /\ ~Passes(rule, theirs, ours)
             /\ \A better : NoWorse(better, ours) => Passes(rule, better, theirs)
  <2>1. ours.tel \in Nat /\ theirs.tel \in Nat /\ rule.margin \in Nat
    BY <1>1, <1>3, <1>7
  <2> QED
    BY <1>3, <1>6, <1>9, <2>1, VerdictIsStrict
<1>10. Passes(rule, ours, theirs) =>
         /\ (sample.theirs - sample.ours) * 10000 >= sample.margin * sample.theirs
         /\ ~Passes(rule, theirs, ours)
         /\ \A less \in 0..sample.ours : Passes(rule, SnapshotOf(less), theirs)
  BY <1>3, <1>7, <1>8, <1>9
<1> QED
  BY <1>10 DEF VerdictsAreStrict, rule, ours, theirs

(* The plan and the suite of the sample artifacts. *)
LEMMA DevelopmentCase ==
  ASSUME NEW i, NEW safe, NEW c, c = InDevelopment(Case(i, safe))
  PROVE  /\ c.id = i /\ c.amount = 10 /\ c.costs = Costs /\ c.exposure = 4 /\ c.evidence = <<>>
         /\ c.signals = {} /\ c.split = "DEVELOPMENT" /\ c.simulated_costs
BY DEF Case, InDevelopment

LEMMA DevelopmentCases ==
  /\ DOMAIN Development.cases = 1..2 /\ Len(Development.cases) = 2 /\ Development.frozen = 0
  /\ \A i \in 1..2 : /\ Development.cases[i].id = i /\ Development.cases[i].amount = 10
                     /\ Development.cases[i].costs = Costs
                     /\ Development.cases[i].exposure = 4 /\ Development.cases[i].evidence = <<>>
                     /\ Development.cases[i].signals = {} /\ Development.cases[i].split = "DEVELOPMENT"
                     /\ Development.cases[i].simulated_costs
<1> DEFINE Is(i, x) == /\ x.id = i /\ x.amount = 10 /\ x.costs = Costs /\ x.exposure = 4 /\ x.evidence = <<>>
                       /\ x.signals = {} /\ x.split = "DEVELOPMENT" /\ x.simulated_costs
           c == InDevelopment(Case(1, TRUE))
           d == InDevelopment(Case(2, FALSE))
<1>1. Development.frozen = 0 /\ Development.cases = <<c, d>>
  BY DEF Development
<1>2. Is(1, c)
  BY DevelopmentCase
<1>3. Is(2, d)
  BY DevelopmentCase
<1> HIDE DEF c, d
<1>4. 1..2 = {1, 2}
  OBVIOUS
<1> QED
  BY <1>1, <1>2, <1>3, <1>4

LEMMA SamplePlan ==
  ASSUME NEW s
  PROVE  /\ PlanOf(s).suite = Development /\ PlanOf(s).registered = 1 /\ PlanOf(s).weights = TEL
         /\ DOMAIN PlanOf(s).baselines = {1, 2, 3, 4, 5}
         /\ PlanOf(s).baselines[1].type = "NAIVE_AGENT_REPLAY"
         /\ PlanOf(s).baselines[2].type = "PROMPT_GUARDRAIL_REPLAY"
         /\ PlanOf(s).baselines[3].type = "STATIC_RULES"
         /\ PlanOf(s).baselines[4].type = "DYNAMIC_DETERMINISTIC_WORKFLOW"
         /\ PlanOf(s).baselines[5].type = "CONSERVATIVE_ABSTAIN"
         /\ \A b \in {1, 2, 3, 4, 5} : PlanOf(s).baselines[b].id = b
         /\ PlanOf(s).baselines[1].decisions = [i \in s.replayed |-> Row("EXECUTE")]
         /\ PlanOf(s).baselines[2].decisions = Rows("ERROR", "BLOCK")
         /\ ~PlanOf(s).baselines[1].synthetic /\ ~PlanOf(s).baselines[2].synthetic
         /\ PlanOf(s).baselines[3].ceiling = 10 /\ PlanOf(s).baselines[3].blocked = {}
         /\ PlanOf(s).baselines[4] = Dynamic
         /\ PlanOf(s).baselines[3].overhead = 1 /\ PlanOf(s).baselines[5].overhead = 0
BY DEF PlanOf, Dynamic

LEMMA SampleInputsAllowed ==
  ASSUME NEW s
  PROVE  /\ SuiteAllowed(Development.cases) /\ PlanAllowed(PlanOf(s)) /\ RunAllowed(PlanOf(s), Development, 1)
<1> DEFINE plan == PlanOf(s)
<1>0. /\ plan.suite = Development /\ plan.registered = 1 /\ plan.weights = TEL
      /\ DOMAIN plan.baselines = {1, 2, 3, 4, 5}
      /\ plan.baselines[1].type = "NAIVE_AGENT_REPLAY" /\ plan.baselines[2].type = "PROMPT_GUARDRAIL_REPLAY"
      /\ plan.baselines[3].type = "STATIC_RULES" /\ plan.baselines[4].type = "DYNAMIC_DETERMINISTIC_WORKFLOW"
      /\ plan.baselines[5].type = "CONSERVATIVE_ABSTAIN"
      /\ \A b \in {1, 2, 3, 4, 5} : plan.baselines[b].id = b
      /\ plan.baselines[1].decisions = [i \in s.replayed |-> Row("EXECUTE")]
      /\ plan.baselines[2].decisions = Rows("ERROR", "BLOCK")
      /\ ~plan.baselines[1].synthetic /\ ~plan.baselines[2].synthetic
      /\ plan.baselines[4] = Dynamic
  BY SamplePlan
<1> HIDE DEF plan
<1>1. SuiteAllowed(Development.cases)
  BY DevelopmentCases DEF SuiteAllowed
<1>2. \A i \in DOMAIN plan.baselines : RegistrationAllowed(plan.baselines[i])
  <2>1. \A d \in Decision : RowAllowed(Row(d)) /\ Row(d).provenance \in {"NOT_AVAILABLE", "MEASURED_PROVIDER"}
    BY DEF Decision, RowAllowed, Row, ErrorRow, NoLatency
  <2>2. RegistrationAllowed(plan.baselines[1])
    <3>1. \A id \in DOMAIN plan.baselines[1].decisions : plan.baselines[1].decisions[id] = Row("EXECUTE")
      BY <1>0
    <3> QED
      BY <2>1, <3>1, <1>0 DEF RegistrationAllowed, Decision
  <2>3. RegistrationAllowed(plan.baselines[2])
    <3>1. \A id \in DOMAIN plan.baselines[2].decisions : plan.baselines[2].decisions[id] \in {Row("ERROR"), Row("BLOCK")}
      BY <1>0 DEF Rows
    <3> QED
      BY <2>1, <3>1, <1>0 DEF RegistrationAllowed, Decision
  <2>4. RegistrationAllowed(plan.baselines[4])
    BY <1>0 DEF RegistrationAllowed, Dynamic, Replays
  <2>5. RegistrationAllowed(plan.baselines[3]) /\ RegistrationAllowed(plan.baselines[5])
    BY <1>0 DEF RegistrationAllowed, Replays
  <2> QED
    BY <2>2, <2>3, <2>4, <2>5, <1>0
<1>3. ASSUME NEW t \in Required PROVE CountWhere(plan.baselines, LAMBDA b : b.type = t) = 1
  <2>1. \E k \in {1, 2, 3, 4, 5} : {i \in DOMAIN plan.baselines : plan.baselines[i].type = t} = {k}
    <3>1. \E k \in {1, 2, 3, 4, 5} : plan.baselines[k].type = t
      BY <1>0 DEF Required, Replays
    <3>2. \A i, j \in {1, 2, 3, 4, 5} : plan.baselines[i].type = plan.baselines[j].type => i = j
      BY <1>0
    <3> QED
      BY <1>0, <3>1, <3>2
  <2> QED
    BY <2>1, FS_Singleton DEF CountWhere
<1>4. \A i, j \in DOMAIN plan.baselines : plan.baselines[i].id = plan.baselines[j].id => i = j
  BY <1>0
<1>5. PlanAllowed(plan)
  <2> QED
    BY <1>2, <1>3, <1>4 DEF PlanAllowed
<1>6. RunAllowed(plan, Development, 1)
  BY <1>0, DevelopmentCases DEF RunAllowed
<1> QED
  BY <1>1, <1>5, <1>6 DEF plan

(* Both orders of the two cases. *)
LEMMA SampleOrders ==
  ASSUME NEW order \in Orders
  PROVE  /\ IsOrder(order, Development.cases) /\ CaseIds(Development.cases) = {1, 2}
         /\ DOMAIN order = {1, 2} /\ order[1] \in {1, 2} /\ order[2] \in {1, 2} /\ order[1] # order[2]
         /\ \A id \in {1, 2} : CaseNamed(Development.cases, id) = Development.cases[id]
<1>1. order = <<1, 2>> \/ order = <<2, 1>>
  BY DEF Orders
<1>2. /\ DOMAIN order = {1, 2} /\ order[1] \in {1, 2} /\ order[2] \in {1, 2} /\ order[1] # order[2]
      /\ order \in Seq({1, 2})
  <2>1. /\ DOMAIN <<1, 2>> = {1, 2} /\ <<1, 2>>[1] = 1 /\ <<1, 2>>[2] = 2 /\ <<1, 2>> \in Seq({1, 2})
        /\ DOMAIN <<2, 1>> = {1, 2} /\ <<2, 1>>[1] = 2 /\ <<2, 1>>[2] = 1 /\ <<2, 1>> \in Seq({1, 2})
    <3>1. <<1, 2>> \in Seq({1, 2}) /\ <<2, 1>> \in Seq({1, 2})
      OBVIOUS
    <3>2. DOMAIN <<1, 2>> = 1..2 /\ DOMAIN <<2, 1>> = 1..2 /\ 1..2 = {1, 2}
      OBVIOUS
    <3>3. <<1, 2>>[1] = 1 /\ <<1, 2>>[2] = 2 /\ <<2, 1>>[1] = 2 /\ <<2, 1>>[2] = 1
      OBVIOUS
    <3> QED
      BY <3>1, <3>2, <3>3
  <2>2. CASE order = <<1, 2>>
    BY <2>1, <2>2
  <2>3. CASE order = <<2, 1>>
    BY <2>1, <2>3
  <2> QED
    BY <1>1, <2>2, <2>3
<1>3. 1..2 = {1, 2}
  OBVIOUS
<1>4. CaseIds(Development.cases) = {1, 2}
  BY <1>3, DevelopmentCases DEF CaseIds
<1>5. \A id \in {1, 2} : CaseNamed(Development.cases, id) = Development.cases[id]
  BY <1>3, DevelopmentCases DEF CaseNamed
<1>6. IsOrder(order, Development.cases)
  BY <1>2, <1>4 DEF IsOrder, IsInjective, Range
<1> QED
  BY <1>2, <1>4, <1>5, <1>6

LEMMA SampleNumbers == ASSUME NEW s PROVE InputsAreNumbers(PlanOf(s), Development)
<1> DEFINE plan == PlanOf(s)
<1>1. /\ DOMAIN plan.baselines = {1, 2, 3, 4, 5} /\ plan.weights = TEL
      /\ plan.baselines[1].type = "NAIVE_AGENT_REPLAY" /\ plan.baselines[2].type = "PROMPT_GUARDRAIL_REPLAY"
      /\ plan.baselines[3].type = "STATIC_RULES" /\ plan.baselines[4].type = "DYNAMIC_DETERMINISTIC_WORKFLOW"
      /\ plan.baselines[5].type = "CONSERVATIVE_ABSTAIN"
      /\ plan.baselines[1].decisions = [i \in s.replayed |-> Row("EXECUTE")]
      /\ plan.baselines[2].decisions = <<Row("ERROR"), Row("BLOCK")>>
      /\ plan.baselines[3].overhead = 1 /\ plan.baselines[4] = Dynamic /\ plan.baselines[5].overhead = 0
  BY SamplePlan DEF Rows
<1> HIDE DEF plan
<1>2. Weighs(plan.weights)
  BY <1>1 DEF Weighs, TEL, CostKind
<1>3. ASSUME NEW i \in DOMAIN Development.cases PROVE CaseCounts(Development.cases[i])
  <2> DEFINE c == Development.cases[i]
  <2>1. c.costs = Costs /\ c.exposure = 4 /\ c.evidence = <<>>
    BY DevelopmentCases
  <2> HIDE DEF c
  <2>2. DOMAIN c.evidence = {}
    BY <2>1
  <2>3. Costed(c)
    BY <2>1 DEF Costed, Costs, CostKind
  <2>4. CaseCounts(c)
    BY <2>1, <2>2, <2>3, FS_EmptySet DEF CaseCounts
  <2> QED
    BY <2>4 DEF c
<1>4. \A d \in Decision : Row(d).latency \in Nat \cup {NoLatency}
  BY DEF Row, ErrorRow
<1>5. ASSUME NEW b \in {1, 2, 3, 4, 5} PROVE BaselineCounts(plan.baselines[b])
  <2>1. BaselineCounts(plan.baselines[1])
    <3>1. \A id \in DOMAIN plan.baselines[1].decisions : plan.baselines[1].decisions[id] = Row("EXECUTE")
      BY <1>1
    <3> QED
      BY <1>1, <1>4, <3>1 DEF BaselineCounts, BaselineType, Replays, Decision
  <2>2. BaselineCounts(plan.baselines[2])
    <3>1. \A id \in DOMAIN plan.baselines[2].decisions : plan.baselines[2].decisions[id] \in {Row("ERROR"), Row("BLOCK")}
      BY <1>1
    <3> QED
      BY <1>1, <1>4, <3>1 DEF BaselineCounts, BaselineType, Replays, Decision
  <2>3. BaselineCounts(plan.baselines[3]) /\ BaselineCounts(plan.baselines[5])
    BY <1>1 DEF BaselineCounts, BaselineType, Replays
  <2>4. BaselineCounts(plan.baselines[4])
    BY <1>1 DEF BaselineCounts, BaselineType, Replays, Dynamic
  <2> QED
    BY <2>1, <2>2, <2>3, <2>4
<1>6. InputsAreNumbers(plan, Development)
  BY <1>1, <1>2, <1>3, <1>5 DEF InputsAreNumbers
<1> QED
  BY <1>6 DEF plan

(* What a run makes of them, as far as the samples change it. *)
LEMMA SampleResults ==
  ASSUME NEW s, NEW order \in Orders
  PROVE  LET results == Results(PlanOf(s), Development, order)
         IN  /\ DOMAIN results = {1, 2, 3, 4, 5}
             /\ \A b \in {1, 2, 3, 4, 5} : DOMAIN results[b] = {1, 2}
             /\ \A b \in {1, 2, 3, 4, 5}, k \in {1, 2} :
                  /\ results[b][k].total \in Int
                  /\ results[b][k].case = order[k]
                  /\ "decision" \in DOMAIN results[b][k]
             /\ \E k \in {1, 2} : results[2][k].decision = "ERROR"
             /\ results[3][1].decision = "EXECUTE"
<1> DEFINE plan == PlanOf(s)
           results == Results(plan, Development, order)
           R(b, id) == RowOf(plan, Development.cases, b, id)
<1>0. /\ DOMAIN plan.baselines = {1, 2, 3, 4, 5} /\ plan.weights = TEL
      /\ plan.baselines[2].type = "PROMPT_GUARDRAIL_REPLAY" /\ plan.baselines[3].type = "STATIC_RULES"
      /\ plan.baselines[2].decisions = <<Row("ERROR"), Row("BLOCK")>>
      /\ plan.baselines[3].ceiling = 10 /\ plan.baselines[3].blocked = {}
      /\ InputsAreNumbers(plan, Development)
  BY SamplePlan, SampleNumbers DEF Rows
<1> HIDE DEF plan
<1>1. results = [b \in {1, 2, 3, 4, 5} |-> [k \in {1, 2} |-> R(b, order[k])]]
  BY <1>0, RowsOfResults, SampleOrders
<1> HIDE DEF results
<1>2. ASSUME NEW b \in {1, 2, 3, 4, 5}, NEW id \in {1, 2}
      PROVE  R(b, id) = Score(Development.cases[id], Evaluate(plan.baselines[b], Development.cases[id]), TEL)
  BY <1>0, SampleOrders DEF RowOf
<1>3. ASSUME NEW b \in {1, 2, 3, 4, 5}, NEW id \in {1, 2} PROVE R(b, id).total \in Int
  BY <1>0, RowsAreNumbers, SampleOrders
<1> HIDE DEF R
<1>4. \A c, row : /\ Score(c, row, TEL).decision = row.decision /\ Score(c, row, TEL).case = c.id
                  /\ "decision" \in DOMAIN Score(c, row, TEL)
  BY DEF Score
<1>5. \A id \in {1, 2} : Development.cases[id].id = id /\ Development.cases[id].amount = 10
  <2>1. 1..2 = {1, 2}
    OBVIOUS
  <2> QED
    BY <2>1, DevelopmentCases
<1>6. ASSUME NEW b \in {1, 2, 3, 4, 5}, NEW id \in {1, 2} PROVE R(b, id).case = id /\ "decision" \in DOMAIN R(b, id)
  <2> DEFINE c == Development.cases[id]
             row == Evaluate(plan.baselines[b], c)
  <2>1. c.id = id
    BY <1>5
  <2>2. R(b, id) = Score(c, row, TEL)
    BY <1>2
  <2> HIDE DEF c, row
  <2> QED
    BY <1>4, <2>1, <2>2
<1>7. R(2, 1).decision = "ERROR"
  <2> DEFINE c == Development.cases[1]
             row == Evaluate(plan.baselines[2], c)
  <2>1. row = Replay(plan.baselines[2], c)
    BY <1>0 DEF Evaluate, Replays
  <2>2. c.id = 1 /\ Row("ERROR").decision = "ERROR"
    BY <1>5 DEF Row, ErrorRow
  <2>3. row.decision = "ERROR"
    BY <1>0, <2>1, <2>2 DEF Replay
  <2>4. R(2, 1) = Score(c, row, TEL)
    BY <1>2
  <2> HIDE DEF c, row
  <2> QED
    BY <1>4, <2>3, <2>4
<1>8. ASSUME NEW id \in {1, 2} PROVE R(3, id).decision = "EXECUTE"
  <2> DEFINE c == Development.cases[id]
             row == Evaluate(plan.baselines[3], c)
  <2>1. row = StaticRules(plan.baselines[3], c)
    BY <1>0 DEF Evaluate, Replays
  <2>2. c.amount = 10
    BY <1>5
  <2>3. row.decision = "EXECUTE"
    BY <1>0, <2>1, <2>2 DEF StaticRules
  <2>4. R(3, id) = Score(c, row, TEL)
    BY <1>2
  <2> HIDE DEF c, row
  <2> QED
    BY <1>4, <2>3, <2>4
<1>9. order[1] \in {1, 2} /\ order[2] \in {1, 2} /\ order[1] # order[2]
  BY SampleOrders
<1>10. \E k \in {1, 2} : results[2][k].decision = "ERROR"
  <2>1. order[1] = 1 \/ order[2] = 1
    BY <1>9
  <2>2. results[2][1] = R(2, order[1]) /\ results[2][2] = R(2, order[2])
    BY <1>1
  <2> QED
    BY <1>7, <2>1, <2>2
<1>11. results[3][1].decision = "EXECUTE"
  BY <1>1, <1>8, <1>9
<1>12. \A b \in {1, 2, 3, 4, 5}, k \in {1, 2} :
         results[b][k].total \in Int /\ results[b][k].case = order[k] /\ "decision" \in DOMAIN results[b][k]
  <2> SUFFICES ASSUME NEW b \in {1, 2, 3, 4, 5}, NEW k \in {1, 2}
               PROVE  results[b][k].total \in Int /\ results[b][k].case = order[k] /\ "decision" \in DOMAIN results[b][k]
    OBVIOUS
  <2>1. results[b][k] = R(b, order[k]) /\ order[k] \in {1, 2}
    BY <1>1, <1>9
  <2> QED
    BY <1>3, <1>6, <2>1
<1>13. DOMAIN results = {1, 2, 3, 4, 5} /\ \A b \in {1, 2, 3, 4, 5} : DOMAIN results[b] = {1, 2}
  BY <1>1
<1> QED
  BY <1>10, <1>11, <1>12, <1>13 DEF results, plan

LEMMA FiveIsFinite == IsFiniteSet({1, 2, 3, 4, 5}) /\ IsFiniteSet({1, 2})
<1>1. 1 \in Int /\ 2 \in Int /\ 5 \in Int
  OBVIOUS
<1>2. IsFiniteSet(1..5) /\ IsFiniteSet(1..2)
  BY <1>1, FS_Interval, Zenon
<1>3. 1..5 = {1, 2, 3, 4, 5} /\ 1..2 = {1, 2}
  OBVIOUS
<1> QED
  BY <1>2, <1>3

LEMMA ErrorsAreCounted ==
  ASSUME NEW results, DOMAIN results = {1, 2, 3, 4, 5}, \A b \in {1, 2, 3, 4, 5} : DOMAIN results[b] = {1, 2},
         \E k \in {1, 2} : results[2][k].decision = "ERROR"
  PROVE  Failures(results) # 0
<1> DEFINE Errors(b) == {i \in DOMAIN results[b] : results[b][i].decision = "ERROR"}
           f == [b \in DOMAIN results |-> Cardinality(Errors(b))]
<1>2. \A b \in {1, 2, 3, 4, 5} : Errors(b) \in SUBSET {1, 2}
  OBVIOUS
<1>3. Errors(2) # {}
  OBVIOUS
<1> HIDE DEF Errors
<1>4. \A b \in {1, 2, 3, 4, 5} : IsFiniteSet(Errors(b)) /\ Cardinality(Errors(b)) \in Nat
  BY <1>2, FiveIsFinite, FS_Subset, FS_CardinalityType
<1>5. Cardinality(Errors(2)) # 0
  BY <1>3, <1>4, FS_EmptySet
<1>6. /\ DOMAIN f = {1, 2, 3, 4, 5} /\ \A b \in DOMAIN f : f[b] \in Nat
      /\ f[2] # 0
  BY <1>4, <1>5
<1>7. Failures(results) = Total(f)
  BY DEF Failures, CountWhere, Errors
<1> HIDE DEF f
<1>8. Total(f) = f[2] + SumOver(f)[DOMAIN f \ {2}]
  <2>1. \A b \in DOMAIN f : f[b] \in Int
    BY <1>6
  <2>2. Total(f) = SumOver(f)[DOMAIN f]
    BY TotalIsChosen DEF SumOver
  <2> QED
    BY <1>6, <2>1, <2>2, FiveIsFinite, SumTakesAny
<1>9. SumOver(f)[DOMAIN f \ {2}] \in Nat
  <2>1. Nat \subseteq Int /\ 0 \in Nat /\ \A x, y \in Nat : x + y \in Nat
    OBVIOUS
  <2>2. DOMAIN f \ {2} \in SUBSET DOMAIN f /\ IsFiniteSet(DOMAIN f)
    BY <1>6, FiveIsFinite
  <2>3. \A s \in SUBSET DOMAIN f : SumOver(f)[s] \in Nat
    BY <1>6, <2>1, <2>2, SumsStayIn
  <2> QED
    BY <2>2, <2>3
<1>10. f[2] \in Nat
  BY <1>6
<1> QED
  BY <1>6, <1>7, <1>8, <1>9, <1>10

LEMMA SampleLossIsNumber ==
  ASSUME NEW results, DOMAIN results = {1, 2}, \A k \in {1, 2} : results[k].total \in Int, NEW cases
  PROVE  Aggregate(cases, results).tel \in Int
<1> DEFINE totals == [i \in DOMAIN results |-> results[i].total]
<1>1. DOMAIN totals = {1, 2} /\ \A i \in DOMAIN totals : totals[i] \in Int
  OBVIOUS
<1>2. Aggregate(cases, results).tel = Total(totals)
  BY DEF Aggregate
<1> HIDE DEF totals
<1>3. Total(totals) \in Int
  <2>1. Int \subseteq Int /\ 0 \in Int /\ \A x, y \in Int : x + y \in Int
    OBVIOUS
  <2>2. \A s \in SUBSET DOMAIN totals : SumOver(totals)[s] \in Int
    BY <1>1, <2>1, FiveIsFinite, SumsStayIn
  <2> QED
    BY <2>2, TotalIsChosen DEF SumOver
<1> QED
  BY <1>2, <1>3

LEMMA SampleReplays ==
  ASSUME NEW s
  PROVE  ReplaysAreComplete(PlanOf(s), Development) <=> s.replayed = {1, 2}
<1> DEFINE plan == PlanOf(s)
<1>0. /\ DOMAIN plan.baselines = {1, 2, 3, 4, 5}
      /\ plan.baselines[1].type = "NAIVE_AGENT_REPLAY" /\ plan.baselines[2].type = "PROMPT_GUARDRAIL_REPLAY"
      /\ plan.baselines[3].type = "STATIC_RULES" /\ plan.baselines[4].type = "DYNAMIC_DETERMINISTIC_WORKFLOW"
      /\ plan.baselines[5].type = "CONSERVATIVE_ABSTAIN"
      /\ plan.baselines[1].decisions = [i \in s.replayed |-> Row("EXECUTE")]
      /\ plan.baselines[2].decisions = <<Row("ERROR"), Row("BLOCK")>>
  BY SamplePlan DEF Rows
<1> HIDE DEF plan
<1>1. CaseIds(Development.cases) = {1, 2}
  <2>1. 1..2 = {1, 2}
    OBVIOUS
  <2> QED
    BY <2>1, DevelopmentCases DEF CaseIds
<1>2. DOMAIN plan.baselines[1].decisions = s.replayed /\ DOMAIN plan.baselines[2].decisions = {1, 2}
  BY <1>0
<1>3. \A b \in {1, 2, 3, 4, 5} : plan.baselines[b].type \in Replays <=> b \in {1, 2}
  BY <1>0 DEF Replays
<1>4. ReplaysAreComplete(plan, Development) <=> \A b \in {1, 2} : DOMAIN plan.baselines[b].decisions = {1, 2}
  BY <1>0, <1>1, <1>3 DEF ReplaysAreComplete
<1> QED
  BY <1>2, <1>4 DEF plan

(* A change in any part of an artifact is noticed. *)
LEMMA ChangedIsRefused ==
  ASSUME sample \in Artifacts, sample.changed # "nothing"
  PROVE  ~ArtifactValid(ArtifactOf(sample))
<1> DEFINE plan == PlanOf(sample)
           order == sample.order
           a == RunBenchmark(plan, Development, order, 1)
           results == Results(plan, Development, order)
           cases == Ordered(Development.cases, order)
           b == ArtifactOf(sample)
<1>0. order \in Orders
  BY DEF Artifacts
<1>1. /\ a.plan = plan /\ a.suite = Development /\ a.generated = 1 /\ a.order = order /\ a.results = results
      /\ a.summaries = [i \in DOMAIN results |-> Aggregate(cases, results[i])]
      /\ a.provenance = Provenance(plan, Development, results)
      /\ a.errors = Failures(results)
      /\ DOMAIN a = Fields
  BY RunIs
<1>2. /\ plan.suite = Development /\ plan.registered = 1 /\ Development.frozen = 0
  BY SamplePlan, DevelopmentCases
<1>3. /\ DOMAIN results = {1, 2, 3, 4, 5}
      /\ \A i \in {1, 2, 3, 4, 5} : DOMAIN results[i] = {1, 2}
      /\ \A i \in {1, 2, 3, 4, 5}, k \in {1, 2} :
           results[i][k].total \in Int /\ results[i][k].case = order[k] /\ "decision" \in DOMAIN results[i][k]
      /\ \E k \in {1, 2} : results[2][k].decision = "ERROR"
      /\ results[3][1].decision = "EXECUTE"
  BY <1>0, SampleResults
<1>4. DOMAIN order = {1, 2} /\ order[1] # order[2] /\ (order = <<1, 2>> \/ order = <<2, 1>>)
  BY <1>0, SampleOrders DEF Orders
<1> HIDE DEF a, plan, results, cases, order
<1>5. sample.changed \in {"row", "summary", "errors", "inputs", "time", "order", "twice"}
  BY DEF Artifacts
<1>6. CASE sample.changed = "row"
  <2>1. b = [a EXCEPT !.results[3][1].decision = "BLOCK"]
    BY <1>6 DEF ArtifactOf, a, plan, order
  <2>2. /\ b.plan = plan /\ b.suite = Development /\ b.order = order
        /\ b.results = [results EXCEPT ![3][1].decision = "BLOCK"]
    BY <1>1, <2>1 DEF Fields
  <2>3. b.results[3][1].decision = "BLOCK"
    BY <1>3, <2>2
  <2>4. b.results # Results(b.plan, b.suite, b.order)
    BY <1>3, <2>2, <2>3 DEF results
  <2> QED
    BY <2>4 DEF ArtifactValid
<1>7. CASE sample.changed = "summary"
  <2>1. b = [a EXCEPT !.summaries[4].tel = @ + 1]
    BY <1>7 DEF ArtifactOf, a, plan, order
  <2> DEFINE summary == Aggregate(cases, results[4])
  <2>2. summary.tel \in Int
    BY <1>3, SampleLossIsNumber
  <2>3. "tel" \in DOMAIN summary
    BY DEF Aggregate
  <2> HIDE DEF summary
  <2>4. a.summaries[4] = summary /\ DOMAIN a.summaries = {1, 2, 3, 4, 5}
    BY <1>1, <1>3 DEF summary
  <2>5. b.results = results /\ b.suite = Development /\ b.order = order /\ b.summaries[4].tel = summary.tel + 1
    BY <1>1, <2>1, <2>3, <2>4 DEF Fields
  <2>6. b.summaries # [i \in DOMAIN b.results |-> Aggregate(Ordered(b.suite.cases, b.order), b.results[i])]
    <3>1. [i \in DOMAIN b.results |-> Aggregate(Ordered(b.suite.cases, b.order), b.results[i])][4].tel = summary.tel
      BY <1>3, <2>5 DEF summary, cases
    <3> QED
      BY <2>2, <2>5, <3>1
  <2> QED
    BY <2>6 DEF ArtifactValid
<1>8. CASE sample.changed = "errors"
  <2>1. b = [a EXCEPT !.errors = 0]
    BY <1>8 DEF ArtifactOf, a, plan, order
  <2>2. b.results = results /\ b.errors = 0
    BY <1>1, <2>1 DEF Fields
  <2>3. Failures(results) # 0
    BY <1>3, ErrorsAreCounted
  <2>4. b.errors # Failures(b.results)
    BY <2>2, <2>3
  <2> QED
    BY <2>4 DEF ArtifactValid, Failures
<1>9. CASE sample.changed = "inputs"
  <2>1. b = [a EXCEPT !.provenance.fixtures = FALSE]
    BY <1>9 DEF ArtifactOf, a, plan, order
  <2>2. b.plan = plan /\ b.suite = Development /\ b.results = results
        /\ b.provenance = [Provenance(plan, Development, results) EXCEPT !.fixtures = FALSE]
    BY <1>1, <2>1 DEF Fields
  <2>3. Provenance(plan, Development, results).fixtures
    <3>1. \E i \in DOMAIN Development.cases : Development.cases[i].simulated_costs
      BY DevelopmentCases
    <3> QED
      BY <3>1, Zenon DEF Provenance
  <2>4. ~[Provenance(plan, Development, results) EXCEPT !.fixtures = FALSE].fixtures
    BY DEF Provenance
  <2> QED
    BY <2>2, <2>3, <2>4 DEF ArtifactValid
<1>10. CASE sample.changed = "time"
  <2>1. b = [a EXCEPT !.generated = 0]
    BY <1>10 DEF ArtifactOf, a, plan, order
  <2>2. b.plan = plan /\ b.generated = 0
    BY <1>1, <2>1 DEF Fields
  <2> QED
    BY <1>2, <2>2 DEF ArtifactValid
<1>11. CASE sample.changed = "order"
  <2>1. b = [a EXCEPT !.order = <<@[2], @[1]>>]
    BY <1>11 DEF ArtifactOf, a, plan, order
  <2> DEFINE declared == <<order[2], order[1]>>
  <2>2. b.plan = plan /\ b.suite = Development /\ b.order = declared /\ b.results = results
    BY <1>1, <2>1 DEF Fields
  <2>3. declared \in Orders /\ declared[1] = order[2]
    BY <1>4 DEF Orders
  <2> HIDE DEF declared
  <2>4. Results(plan, Development, declared)[1][1].case = declared[1]
    BY <2>3, SampleResults DEF plan
  <2>5. b.results # Results(b.plan, b.suite, b.order)
    BY <1>3, <1>4, <2>2, <2>3, <2>4
  <2> QED
    BY <2>5 DEF ArtifactValid
<1>12. CASE sample.changed = "twice"
  <2>1. b = [a EXCEPT !.order = <<@[1], @[1]>>]
    BY <1>12 DEF ArtifactOf, a, plan, order
  <2>2. b.order = <<order[1], order[1]>>
    BY <1>1, <2>1 DEF Fields
  <2>3. ~IsInjective(b.order)
    <3>1. b.order[1] = b.order[2] /\ 1 \in DOMAIN b.order /\ 2 \in DOMAIN b.order
      BY <2>2
    <3> QED
      BY <3>1 DEF IsInjective
  <2> QED
    BY <2>3 DEF ArtifactValid, IsOrder
<1> QED
  BY <1>5, <1>6, <1>7, <1>8, <1>9, <1>10, <1>11, <1>12

LEMMA ArtifactSamples == ASSUME sample \in Artifacts PROVE ArtifactsRecompute
<1> DEFINE plan == PlanOf(sample)
           a == RunBenchmark(plan, Development, sample.order, 1)
<1>1. SuiteAllowed(Development.cases) /\ PlanAllowed(plan) /\ RunAllowed(plan, Development, 1)
  BY SampleInputsAllowed
<1>2. plan.suite = Development /\ plan.registered = 1 /\ Development.frozen = 0
  BY SamplePlan, DevelopmentCases
<1>3. ReplaysAreComplete(plan, Development) <=> sample.replayed = {1, 2}
  BY SampleReplays
<1>4. InputsAreNumbers(plan, Development)
  BY SampleNumbers
<1>5. \A order \in Orders : IsOrder(order, Development.cases)
  BY SampleOrders
<1>6. sample.order \in Orders
  BY DEF Artifacts
<1> HIDE DEF plan
<1>7. ArtifactValid(a) <=> sample.replayed = {1, 2}
  BY <1>2, <1>3, <1>5, <1>6, RunIsAccepted
<1>8. ASSUME NEW order \in Orders PROVE SayTheSame(a, RunBenchmark(plan, Development, order, 1))
  BY <1>4, <1>5, <1>6, RunsSayTheSame
<1>9. CASE sample.changed = "nothing"
  <2>1. ArtifactOf(sample) = a
    BY <1>9 DEF ArtifactOf, plan
  <2> HIDE DEF a
  <2> QED
    BY <1>1, <1>7, <1>8, <1>9, <2>1 DEF ArtifactsRecompute, plan
<1>10. CASE sample.changed # "nothing"
  BY <1>1, <1>10, ChangedIsRefused DEF ArtifactsRecompute, plan
<1> QED
  BY <1>9, <1>10

(* The samples TLC evaluates are sound whatever they are sampled from: the *)
(* operators of the scoring (checkpoint_c_baselines.py, _metrics.py,       *)
(* _models.py, _final.py) are by the four theorems above.                  *)
THEOREM ScoringStaysSound == MCSpec => []ScoringIsSound
<1> DEFINE Sampled == sample \in Decisions \cup Ranks \cup Verdicts \cup Artifacts \cup {None}
<1>1. MCInit => Sampled
  BY DEF MCInit
<1>2. Sampled /\ [MCNext]_<<part, sample, vars, finalVars, evalVars, shardVars>> => Sampled'
  <2>1. [MCNext]_<<part, sample, vars, finalVars, evalVars, shardVars>> => sample' = sample
    BY DEF MCNext
  <2>2. sample' = sample /\ Sampled => Sampled'
    BY DEF Decisions, Ranks, Verdicts, Artifacts, Evidence, EvidenceStatus
  <2> HIDE DEF Sampled
  <2> QED
    BY <2>1, <2>2
<1>3. Sampled => ScoringIsSound
  <2>1. /\ \A s \in Decisions : s.kind = "decision"
        /\ \A s \in Ranks : s.kind = "rank"
        /\ \A s \in Verdicts : s.kind = "verdict"
        /\ \A s \in Artifacts : s.kind = "artifact"
    BY DEF Decisions, Ranks, Verdicts, Artifacts
  <2>2. ~SampleIs("decision") => EvidenceOnlyPermits
    BY DEF EvidenceOnlyPermits
  <2>3. ~SampleIs("rank") => RankIsLeast
    BY DEF RankIsLeast
  <2>4. ~SampleIs("verdict") => VerdictsAreStrict
    BY DEF VerdictsAreStrict
  <2>5. ~SampleIs("artifact") => ArtifactsRecompute
    BY DEF ArtifactsRecompute
  <2>6. CASE sample \in Decisions
    <3>1. ~SampleIs("rank") /\ ~SampleIs("verdict") /\ ~SampleIs("artifact")
      BY <2>1, <2>6 DEF SampleIs
    <3> QED
      BY <2>3, <2>4, <2>5, <2>6, <3>1, DecisionSamples DEF ScoringIsSound
  <2>7. CASE sample \in Ranks
    <3>1. ~SampleIs("decision") /\ ~SampleIs("verdict") /\ ~SampleIs("artifact")
      BY <2>1, <2>7 DEF SampleIs
    <3> QED
      BY <2>2, <2>4, <2>5, <2>7, <3>1, RankSamples DEF ScoringIsSound
  <2>8. CASE sample \in Verdicts
    <3>1. ~SampleIs("decision") /\ ~SampleIs("rank") /\ ~SampleIs("artifact")
      BY <2>1, <2>8 DEF SampleIs
    <3> QED
      BY <2>2, <2>3, <2>5, <2>8, <3>1, VerdictSamples DEF ScoringIsSound
  <2>9. CASE sample \in Artifacts
    <3>1. ~SampleIs("decision") /\ ~SampleIs("rank") /\ ~SampleIs("verdict")
      BY <2>1, <2>9 DEF SampleIs
    <3> QED
      BY <2>2, <2>3, <2>4, <2>9, <3>1, ArtifactSamples DEF ScoringIsSound
  <2>10. CASE sample = None
    <3>1. ~SampleIs("decision") /\ ~SampleIs("rank") /\ ~SampleIs("verdict") /\ ~SampleIs("artifact")
      BY <2>10 DEF SampleIs
    <3> QED
      BY <2>2, <2>3, <2>4, <2>5, <3>1 DEF ScoringIsSound
  <2> QED
    BY <2>6, <2>7, <2>8, <2>9, <2>10
<1> HIDE DEF Sampled
<1> QED
  BY <1>1, <1>2, <1>3, PTL DEF MCSpec
===============================================================================
