--------------------------- MODULE PaperTrade_proofs ---------------------------
(***************************************************************************)
(* A proposal on its way through the rules, its simulated position and the *)
(* journal, for any payloads, quotes, portfolios and prices.               *)
(***************************************************************************)
EXTENDS PaperTrade, FiniteSetTheorems, SequenceTheorems, TLAPS

-----------------------------------------------------------------------------
(* The lists of checks. *)

(* The library finds the first index as a minimum: there is one. *)
LEMMA Least ==
  ASSUME NEW n \in Nat, NEW I \in SUBSET (1..n), I # {}
  PROVE  \E i \in I : \A j \in I : i <= j
<1> DEFINE B == {1..i : i \in I}
<1>1. IsWellFoundedOn(StrictSubsetOrdering(1..n), SUBSET (1..n))
  <2>1. IsFiniteSet(1..n)
    BY FS_Interval
  <2> QED  BY <2>1, FS_StrictSubsetOrderingWellFounded, FS_FiniteSubsetsOfFinite
<1>2. B \subseteq SUBSET (1..n) /\ B # {}
  <2>1. \A i \in I : 1..i \subseteq 1..n
    OBVIOUS
  <2> QED  BY <2>1
<1>3. PICK T \in B : \A U \in B : <<U, T>> \notin StrictSubsetOrdering(1..n)
  <2> HIDE DEF B
  <2> QED  BY <1>1, <1>2, WFMin
<1>4. PICK i \in I : T = 1..i
  BY <1>3
<1>5. ASSUME NEW j \in I, ~(i <= j) PROVE FALSE
  <2>1. 1..j \in B /\ 1..j \subseteq 1..n /\ 1..i \subseteq 1..n
    OBVIOUS
  <2>2. 1..j \subseteq 1..i /\ 1..j # 1..i
    <3>1. i \in 1..i /\ i \notin 1..j
      BY <1>5
    <3> QED  BY <1>5, <3>1
  <2>3. <<1..j, 1..i>> \in StrictSubsetOrdering(1..n)
    BY <2>1, <2>2 DEF StrictSubsetOrdering
  <2> QED  BY <1>3, <1>4, <2>1, <2>3
<1> QED  BY <1>5

(* FirstFailure answers "OK" exactly when no check fails. *)
LEMMA FirstFailureOK ==
  ASSUME NEW checks, Len(checks) \in Nat, \A i \in 1..Len(checks) : checks[i].reason # "OK"
  PROVE  FirstFailure(checks) = "OK" <=> \A i \in 1..Len(checks) : ~checks[i].fails
<1> DEFINE I == {i \in 1..Len(checks) : checks[i].fails}
<1>1. FirstFailure(checks) = LET i == IF I # {} THEN Min(I) ELSE 0
                             IN  IF i = 0 THEN "OK" ELSE checks[i].reason
  BY DEF FirstFailure, SelectInSeq
<1>2. CASE I = {}
  BY <1>1, <1>2
<1>3. CASE I # {}
  <2>1. Min(I) \in I
    <3>1. \E i \in I : \A j \in I : i <= j
      <4>1. I \in SUBSET (1..Len(checks))
        OBVIOUS
      <4> HIDE DEF I
      <4> QED  BY <1>3, <4>1, Least
    <3> HIDE DEF I
    <3> QED  BY <3>1 DEF Min
  <2>2. FirstFailure(checks) = checks[Min(I)].reason
    <3>1. Min(I) # 0
      BY <2>1
    <3> HIDE DEF I
    <3> QED  BY <1>1, <1>3, <3>1
  <2>3. checks[Min(I)].reason # "OK"
    BY <2>1
  <2> QED  BY <1>3, <2>2, <2>3
<1> QED  BY <1>2, <1>3

(* The same for a list made of three. *)
LEMMA ThreeListsOK ==
  ASSUME NEW S, NEW a \in Seq(S), NEW b \in Seq(S), NEW c \in Seq(S),
         \A check \in S : check.reason # "OK"
  PROVE  FirstFailure(a \o (b \o c)) = "OK"
           <=> /\ \A i \in 1..Len(a) : ~a[i].fails
               /\ \A i \in 1..Len(b) : ~b[i].fails
               /\ \A i \in 1..Len(c) : ~c[i].fails
<1> DEFINE bc == b \o c
           all == a \o bc
<1>1. /\ bc \in Seq(S) /\ Len(bc) = Len(b) + Len(c)
      /\ \A i \in 1..Len(bc) : bc[i] = IF i <= Len(b) THEN b[i] ELSE c[i - Len(b)]
  BY ConcatProperties
<1> HIDE DEF bc
<1>2. /\ all \in Seq(S) /\ Len(all) = Len(a) + Len(bc)
      /\ \A i \in 1..Len(all) : all[i] = IF i <= Len(a) THEN a[i] ELSE bc[i - Len(a)]
  <2>1. bc \in Seq(S)
    BY <1>1
  <2> QED  BY <2>1, ConcatProperties
<1> HIDE DEF all
<1>3. Len(a) \in Nat /\ Len(b) \in Nat /\ Len(c) \in Nat
  OBVIOUS
<1>4. FirstFailure(all) = "OK" <=> \A i \in 1..Len(all) : ~all[i].fails
  <2>1. \A i \in 1..Len(all) : all[i] \in S
    BY <1>2
  <2>2. Len(all) \in Nat
    BY <1>2
  <2>3. \A i \in 1..Len(all) : all[i].reason # "OK"
    BY <2>1
  <2> QED  BY <2>2, <2>3, FirstFailureOK
<1>5. (\A i \in 1..Len(all) : ~all[i].fails)
        <=> (\A i \in 1..Len(a) : ~a[i].fails) /\ (\A i \in 1..Len(bc) : ~bc[i].fails)
  <2>1. /\ \A i \in 1..Len(a) : i \in 1..Len(all) /\ all[i] = a[i]
        /\ \A i \in 1..Len(bc) : Len(a) + i \in 1..Len(all) /\ all[Len(a) + i] = bc[i]
        /\ \A i \in 1..Len(all) :
             i \in 1..Len(a) \/ (i - Len(a) \in 1..Len(bc) /\ all[i] = bc[i - Len(a)])
    <3>1. Len(bc) \in Nat /\ Len(all) = Len(a) + Len(bc)
      BY <1>1, <1>2, <1>3
    <3>2. ASSUME NEW i \in 1..Len(a) PROVE i \in 1..Len(all) /\ all[i] = a[i]
      <4>1. i \in 1..Len(all) /\ i <= Len(a)
        BY <1>3, <3>1
      <4> QED  BY <1>2, <4>1
    <3>3. ASSUME NEW i \in 1..Len(bc)
          PROVE  Len(a) + i \in 1..Len(all) /\ all[Len(a) + i] = bc[i]
      <4>1. Len(a) + i \in 1..Len(all) /\ ~(Len(a) + i <= Len(a)) /\ (Len(a) + i) - Len(a) = i
        BY <1>3, <3>1
      <4> QED  BY <1>2, <4>1
    <3>4. \A i \in 1..Len(all) :
            i \in 1..Len(a) \/ (i - Len(a) \in 1..Len(bc) /\ all[i] = bc[i - Len(a)])
      BY <1>2, <1>3, <3>1
    <3> QED  BY <3>2, <3>3, <3>4
  <2> QED  BY <2>1
<1>6. (\A i \in 1..Len(bc) : ~bc[i].fails)
        <=> (\A i \in 1..Len(b) : ~b[i].fails) /\ (\A i \in 1..Len(c) : ~c[i].fails)
  <2>1. /\ \A i \in 1..Len(b) : i \in 1..Len(bc) /\ bc[i] = b[i]
        /\ \A i \in 1..Len(c) : Len(b) + i \in 1..Len(bc) /\ bc[Len(b) + i] = c[i]
        /\ \A i \in 1..Len(bc) :
             i \in 1..Len(b) \/ (i - Len(b) \in 1..Len(c) /\ bc[i] = c[i - Len(b)])
    <3>1. ASSUME NEW i \in 1..Len(b) PROVE i \in 1..Len(bc) /\ bc[i] = b[i]
      <4>1. i \in 1..Len(bc) /\ i <= Len(b)
        BY <1>1, <1>3
      <4> QED  BY <1>1, <4>1
    <3>2. ASSUME NEW i \in 1..Len(c)
          PROVE  Len(b) + i \in 1..Len(bc) /\ bc[Len(b) + i] = c[i]
      <4>1. Len(b) + i \in 1..Len(bc) /\ ~(Len(b) + i <= Len(b)) /\ (Len(b) + i) - Len(b) = i
        BY <1>1, <1>3
      <4> QED  BY <1>1, <4>1
    <3>3. \A i \in 1..Len(bc) :
            i \in 1..Len(b) \/ (i - Len(b) \in 1..Len(c) /\ bc[i] = c[i - Len(b)])
      BY <1>1, <1>3
    <3> QED  BY <3>1, <3>2, <3>3
  <2> QED  BY <2>1
<1> QED  BY <1>4, <1>5, <1>6 DEF all, bc

(* What an answer of "OK" says of the risk of a proposal. *)
LEMMA PreExecutionOK ==
  ASSUME NEW p, NEW portfolio, NEW reserved, NEW now,
         PreExecutionReason(p, portfolio, reserved, now) = "OK"
  PROVE  /\ ~RiskMismatch(p, portfolio.equity)
         /\ ~(p.riskUsd <= 0 \/ portfolio.equity <= 0)
<1> DEFINE a == <<Check(p.expires <= now, "PROPOSAL_EXPIRED"),
                  Check(p.freshness < 0, "STALE_MARKET_DATA")>>
           b == ConsistencyChecks(p, portfolio.equity)
           c == <<Check(portfolio.positions >= MaxPositions, "MAX_OPEN_POSITIONS_REACHED"),
                  Check(portfolio.drawdown >= MaxDrawdown, "MAX_DAILY_DRAWDOWN_REACHED"),
                  Check(portfolio.openRisk + reserved + p.risk > MaxRisk,
                        "TOTAL_OPEN_RISK_EXCEEDED")>>
           S == {a[i] : i \in 1..2} \union {b[i] : i \in 1..6} \union {c[i] : i \in 1..3}
<1>1. \A check \in S : check.reason # "OK"
  BY DEF ConsistencyChecks, Check
<1>2. a \in Seq(S) /\ b \in Seq(S) /\ c \in Seq(S) /\ Len(b) = 6
  BY DEF ConsistencyChecks
<1>3. /\ b[5].fails <=> (p.riskUsd <= 0 \/ portfolio.equity <= 0)
      /\ b[6].fails <=> RiskMismatch(p, portfolio.equity)
  BY DEF ConsistencyChecks, Check
<1>4. FirstFailure(a \o (b \o c)) = "OK"
  BY DEF PreExecutionReason, EvaluateChecks
<1> HIDE DEF a, b, c, S
<1>5. \A i \in 1..6 : ~b[i].fails
  BY <1>1, <1>2, <1>4, ThreeListsOK
<1> QED  BY <1>3, <1>5

-----------------------------------------------------------------------------
(* The inputs.  Sizes are whole numbers of eighths, so that a leg of a      *)
(* quarter and half of what it fills are whole, as halves are in the code. *)

Leg == [price : Int, fraction : Int, allocation : Int, validUntil : Int]
Eighths == {8 * n : n \in Int}
Statuses == {"GENERATED", "PENDING_APPROVAL", "APPROVED_PENDING_EXECUTION_CHECK",
             "REJECTED_PRE_EXECUTION", "EXECUTED"}
Proposals ==
  [side : {"LONG", "SHORT"}, zoneMin : Int, zoneMax : Int, legs : Seq(Leg), stop : Int,
   tp1 : Int, tp2 : Int, risk : Int, riskUsd : Int, size : Eighths, confidence : Int,
   freshness : Int, created : Int, expires : Int, status : Statuses]

PayloadsTyped == Payloads \subseteq Proposals

QuotesTyped ==
  Quotes \subseteq [last : Nat \ {0}, high : Int, low : Int, change : Int, spread : Int,
                    volume : Int, trades : Int, trading : BOOLEAN]

PortfoliosTyped == \A portfolio \in Portfolios : portfolio.equity \in Int

InputsTyped == PayloadsTyped /\ QuotesTyped /\ PortfoliosTyped /\ Prices \subseteq Int

(* Only the status of a stored proposal changes. *)
LEMMA StatusOnly ==
  ASSUME NEW p \in Proposals, NEW s \in Statuses
  PROVE  LET q == [p EXCEPT !.status = s] IN
         /\ q \in Proposals /\ q.status = s
         /\ q.side = p.side /\ q.zoneMin = p.zoneMin /\ q.zoneMax = p.zoneMax
         /\ q.legs = p.legs /\ q.stop = p.stop /\ q.tp1 = p.tp1 /\ q.tp2 = p.tp2
         /\ q.risk = p.risk /\ q.riskUsd = p.riskUsd /\ q.size = p.size
         /\ q.confidence = p.confidence /\ q.freshness = p.freshness
         /\ q.created = p.created /\ q.expires = p.expires
<1> DEFINE q == [p EXCEPT !.status = s]
<1>1. q \in Proposals
  BY DEF Proposals
<1> QED  BY <1>1 DEF Proposals

LEMMA GreaterOfTwo ==
  ASSUME NEW a \in Int, NEW b \in Int
  PROVE  Max({a, b}) = IF a >= b THEN a ELSE b
<1> DEFINE m == IF a >= b THEN a ELSE b
<1>1. m \in {a, b} /\ \A y \in {a, b} : m >= y
  OBVIOUS
<1>2. \A x \in {a, b} : (\A y \in {a, b} : x >= y) => x = m
  OBVIOUS
<1> QED  BY <1>1, <1>2 DEF Max

LEMMA LesserOfTwo ==
  ASSUME NEW a \in Int, NEW b \in Int
  PROVE  Min({a, b}) = IF a <= b THEN a ELSE b
<1> DEFINE m == IF a <= b THEN a ELSE b
<1>1. m \in {a, b} /\ \A y \in {a, b} : m <= y
  OBVIOUS
<1>2. \A x \in {a, b} : (\A y \in {a, b} : x <= y) => x = m
  OBVIOUS
<1> QED  BY <1>1, <1>2 DEF Min

LEMMA GreatestOfThree ==
  ASSUME NEW a \in Int, NEW b \in Int, NEW c \in Int
  PROVE  LET m == Max({a, b, c}) IN m \in {a, b, c} /\ m >= a /\ m >= b /\ m >= c
<1> DEFINE bc == IF b >= c THEN b ELSE c
           m == IF a >= bc THEN a ELSE bc
<1>1. m \in {a, b, c} /\ \A y \in {a, b, c} : m >= y
  OBVIOUS
<1> HIDE DEF m
<1>2. Max({a, b, c}) \in {a, b, c} /\ \A y \in {a, b, c} : Max({a, b, c}) >= y
  BY <1>1 DEF Max
<1> QED  BY <1>2

-----------------------------------------------------------------------------
(* Folds over the one or two legs of a proposal: the library takes them in *)
(* the order of CHOOSE.                                                    *)

Picked(T) == CHOOSE i \in T : TRUE

LEMMA PickedRest ==
  ASSUME NEW T \in SUBSET {1, 2}, T # {}
  PROVE  LET R == T \ {Picked(T)} IN
         Picked(T) \in T /\ (R = {} \/ R \ {Picked(R)} = {})
<1>1. ASSUME NEW U, U # {} PROVE Picked(U) \in U
  BY <1>1 DEF Picked
<1> QED  BY <1>1

(* The position behind Filled. *)
FillBody(p, g, D) ==
  [T \in D |->
     IF T = {} THEN OpenPosition(p)
     ELSE ApplyFill(g[T \ {Picked(T)}], (p.size * p.legs[Picked(T)].fraction) \div 4)]
FillFold(p) == CHOOSE g : g = FillBody(p, g, SUBSET DOMAIN p.legs)

LEMMA FillIsFold == \A p : Filled(p) = FillFold(p)[DOMAIN p.legs]
BY DEF Filled, FoldSeq, FoldFunction, FoldFunctionOnSet, MapThenFoldSet,
       FillFold, FillBody, Picked

LEMMA FillEquation ==
  ASSUME NEW p, DOMAIN p.legs \subseteq {1, 2}
  PROVE  FillFold(p) = FillBody(p, FillFold(p), SUBSET DOMAIN p.legs)
<1> DEFINE D == DOMAIN p.legs
           g0 == [T \in SUBSET D |-> OpenPosition(p)]
           g1 == FillBody(p, g0, SUBSET D)
           g2 == FillBody(p, g1, SUBSET D)
           g3 == FillBody(p, g2, SUBSET D)
<1>1. g0[{}] = OpenPosition(p) /\ g1[{}] = OpenPosition(p) /\ g2[{}] = OpenPosition(p)
  BY DEF FillBody
<1>2. ASSUME NEW T \in SUBSET D PROVE g3[T] = g2[T]
  <2> DEFINE R == T \ {Picked(T)}
  <2>1. R \in SUBSET D
    OBVIOUS
  <2>2. T # {} => R = {} \/ R \ {Picked(R)} = {}
    BY PickedRest
  <2>3. T # {} => g2[R] = g1[R]
    <3>1. CASE R = {}
      BY <1>1, <3>1
    <3>2. CASE R # {} /\ R \ {Picked(R)} = {}
      <4> HIDE DEF R
      <4>1. g2[R] = FillBody(p, g1, SUBSET D)[R] /\ g1[R] = FillBody(p, g0, SUBSET D)[R]
        OBVIOUS
      <4> HIDE DEF g0, g1, g2
      <4> QED  BY <1>1, <2>1, <3>2, <4>1 DEF FillBody
    <3> QED  BY <2>2, <3>1, <3>2
  <2>4. g3[T] = FillBody(p, g2, SUBSET D)[T] /\ g2[T] = FillBody(p, g1, SUBSET D)[T]
    OBVIOUS
  <2> HIDE DEF g0, g1, g2, g3
  <2> QED  BY <2>3, <2>4 DEF FillBody
<1>3. g2 = FillBody(p, g2, SUBSET D)
  BY <1>2 DEF FillBody
<1> HIDE DEF g2
<1> QED  BY <1>3 DEF FillFold

(* The sums over the legs. *)
SumBody(v, g, D) == [T \in D |-> IF T = {} THEN 0 ELSE v[Picked(T)] + g[T \ {Picked(T)}]]

LEMMA SumFoldExists ==
  ASSUME NEW v, NEW D \in SUBSET {1, 2}
  PROVE  \E g : g = SumBody(v, g, SUBSET D)
<1> DEFINE g0 == [T \in SUBSET D |-> 0]
           g1 == SumBody(v, g0, SUBSET D)
           g2 == SumBody(v, g1, SUBSET D)
           g3 == SumBody(v, g2, SUBSET D)
<1>1. g0[{}] = 0 /\ g1[{}] = 0 /\ g2[{}] = 0
  BY DEF SumBody
<1>2. ASSUME NEW T \in SUBSET D PROVE g3[T] = g2[T]
  <2> DEFINE R == T \ {Picked(T)}
  <2>1. R \in SUBSET D
    OBVIOUS
  <2>2. T # {} => R = {} \/ R \ {Picked(R)} = {}
    BY PickedRest
  <2>3. T # {} => g2[R] = g1[R]
    <3>1. CASE R = {}
      BY <1>1, <3>1
    <3>2. CASE R # {} /\ R \ {Picked(R)} = {}
      <4> HIDE DEF R
      <4>1. g2[R] = SumBody(v, g1, SUBSET D)[R] /\ g1[R] = SumBody(v, g0, SUBSET D)[R]
        OBVIOUS
      <4> HIDE DEF g0, g1, g2
      <4> QED  BY <1>1, <2>1, <3>2, <4>1 DEF SumBody
    <3> QED  BY <2>2, <3>1, <3>2
  <2>4. g3[T] = SumBody(v, g2, SUBSET D)[T] /\ g2[T] = SumBody(v, g1, SUBSET D)[T]
    OBVIOUS
  <2> HIDE DEF g0, g1, g2, g3
  <2> QED  BY <2>3, <2>4 DEF SumBody
<1>3. g2 = SumBody(v, g2, SUBSET D)
  BY <1>2 DEF SumBody
<1> HIDE DEF g2
<1> QED  BY <1>3

FractionBody(p, g, D) ==
  [T \in D |-> IF T = {} THEN 0 ELSE p.legs[Picked(T)].fraction + g[T \ {Picked(T)}]]
FractionFold(p) == CHOOSE g : g = FractionBody(p, g, SUBSET DOMAIN p.legs)

LEMMA FractionIsFold == \A p : Fractions(p) = FractionFold(p)[DOMAIN p.legs]
BY DEF Fractions, SumOver, FoldSeq, FoldFunction, FoldFunctionOnSet, MapThenFoldSet,
       FractionFold, FractionBody, Picked

LEMMA FractionEquation ==
  ASSUME NEW p, DOMAIN p.legs \subseteq {1, 2}
  PROVE  FractionFold(p) = FractionBody(p, FractionFold(p), SUBSET DOMAIN p.legs)
<1> DEFINE D == DOMAIN p.legs
           v == [i \in {1, 2} |-> p.legs[i].fraction]
<1>1. ASSUME NEW g PROVE FractionBody(p, g, SUBSET D) = SumBody(v, g, SUBSET D)
  <2>1. ASSUME NEW T \in SUBSET D, T # {} PROVE Picked(T) \in {1, 2}
    <3>1. T \in SUBSET {1, 2}
      OBVIOUS
    <3> QED  BY <2>1, <3>1, PickedRest
  <2> QED  BY <2>1 DEF FractionBody, SumBody
<1>2. PICK g : g = SumBody(v, g, SUBSET D)
  BY SumFoldExists
<1>3. g = FractionBody(p, g, SUBSET D)
  BY <1>1, <1>2
<1> HIDE DEF v
<1> QED  BY <1>3 DEF FractionFold

WeightBody(p, g, D) ==
  [T \in D |->
     IF T = {} THEN 0 ELSE p.legs[Picked(T)].price * p.legs[Picked(T)].fraction
                             + g[T \ {Picked(T)}]]
WeightFold(p) == CHOOSE g : g = WeightBody(p, g, SUBSET DOMAIN p.legs)

LEMMA WeightIsFold == \A p : Weighted(p) = WeightFold(p)[DOMAIN p.legs]
BY DEF Weighted, SumOver, FoldSeq, FoldFunction, FoldFunctionOnSet, MapThenFoldSet,
       WeightFold, WeightBody, Picked

LEMMA WeightEquation ==
  ASSUME NEW p, DOMAIN p.legs \subseteq {1, 2}
  PROVE  WeightFold(p) = WeightBody(p, WeightFold(p), SUBSET DOMAIN p.legs)
<1> DEFINE D == DOMAIN p.legs
           v == [i \in {1, 2} |-> p.legs[i].price * p.legs[i].fraction]
<1>1. ASSUME NEW g PROVE WeightBody(p, g, SUBSET D) = SumBody(v, g, SUBSET D)
  <2>1. ASSUME NEW T \in SUBSET D, T # {} PROVE Picked(T) \in {1, 2}
    <3>1. T \in SUBSET {1, 2}
      OBVIOUS
    <3> QED  BY <2>1, <3>1, PickedRest
  <2> QED  BY <2>1 DEF WeightBody, SumBody
<1>2. PICK g : g = SumBody(v, g, SUBSET D)
  BY SumFoldExists
<1>3. g = WeightBody(p, g, SUBSET D)
  BY <1>1, <1>2
<1> HIDE DEF v
<1> QED  BY <1>3 DEF WeightFold

(* What ProposalValidator adds up beside the fractions. *)
Allocations(p) == SumOver(p.legs, LAMBDA leg : leg.allocation)

AllocationBody(p, g, D) ==
  [T \in D |-> IF T = {} THEN 0 ELSE p.legs[Picked(T)].allocation + g[T \ {Picked(T)}]]
AllocationFold(p) == CHOOSE g : g = AllocationBody(p, g, SUBSET DOMAIN p.legs)

LEMMA AllocationIsFold == \A p : Allocations(p) = AllocationFold(p)[DOMAIN p.legs]
BY DEF Allocations, SumOver, FoldSeq, FoldFunction, FoldFunctionOnSet, MapThenFoldSet,
       AllocationFold, AllocationBody, Picked

LEMMA AllocationEquation ==
  ASSUME NEW p, DOMAIN p.legs \subseteq {1, 2}
  PROVE  AllocationFold(p) = AllocationBody(p, AllocationFold(p), SUBSET DOMAIN p.legs)
<1> DEFINE D == DOMAIN p.legs
           v == [i \in {1, 2} |-> p.legs[i].allocation]
<1>1. ASSUME NEW g PROVE AllocationBody(p, g, SUBSET D) = SumBody(v, g, SUBSET D)
  <2>1. ASSUME NEW T \in SUBSET D, T # {} PROVE Picked(T) \in {1, 2}
    <3>1. T \in SUBSET {1, 2}
      OBVIOUS
    <3> QED  BY <2>1, <3>1, PickedRest
  <2> QED  BY <2>1 DEF AllocationBody, SumBody
<1>2. PICK g : g = SumBody(v, g, SUBSET D)
  BY SumFoldExists
<1>3. g = AllocationBody(p, g, SUBSET D)
  BY <1>1, <1>2
<1> HIDE DEF v
<1> QED  BY <1>3 DEF AllocationFold

LEMMA OneOrTwoLegs ==
  ASSUME NEW legs \in Seq(Leg), Len(legs) \in {1, 2}
  PROVE  /\ Len(legs) = 1 => DOMAIN legs = {1} /\ legs[1] \in Leg
         /\ Len(legs) = 2 => DOMAIN legs = {1, 2} /\ legs[1] \in Leg /\ legs[2] \in Leg
         /\ DOMAIN legs \subseteq {1, 2}
OBVIOUS

LEMMA PickedOne == Picked({1}) = 1 /\ Picked({2}) = 2 /\ Picked({1, 2}) \in {1, 2}
<1>1. ASSUME NEW U, U # {} PROVE Picked(U) \in U
  BY <1>1 DEF Picked
<1>2. {1} # {} /\ {2} # {} /\ {1, 2} # {}
  OBVIOUS
<1>3. Picked({1}) \in {1} /\ Picked({2}) \in {2} /\ Picked({1, 2}) \in {1, 2}
  BY <1>1, <1>2
<1> QED  BY <1>3

(* The average entry: sums over the legs. *)
LEMMA SumsOfLegs ==
  ASSUME NEW p \in Proposals, Len(p.legs) \in {1, 2}
  PROVE  /\ Len(p.legs) = 1 =>
              /\ Fractions(p) = p.legs[1].fraction
              /\ Weighted(p) = p.legs[1].price * p.legs[1].fraction
              /\ Allocations(p) = p.legs[1].allocation
         /\ Len(p.legs) = 2 =>
              /\ Fractions(p) = p.legs[1].fraction + p.legs[2].fraction
              /\ Weighted(p) = p.legs[1].price * p.legs[1].fraction
                                 + p.legs[2].price * p.legs[2].fraction
<1> DEFINE f == FractionFold(p)
           w == WeightFold(p)
           a == AllocationFold(p)
           price(i) == p.legs[i].price
           fraction(i) == p.legs[i].fraction
           D == DOMAIN p.legs
<1>1. p.legs \in Seq(Leg) /\ D \subseteq {1, 2}
  BY OneOrTwoLegs DEF Proposals
<1>2. Fractions(p) = f[D] /\ Weighted(p) = w[D] /\ Allocations(p) = a[D]
  BY FractionIsFold, WeightIsFold, AllocationIsFold
<1>3. /\ f = FractionBody(p, f, SUBSET D) /\ w = WeightBody(p, w, SUBSET D)
      /\ a = AllocationBody(p, a, SUBSET D)
  BY <1>1, FractionEquation, WeightEquation, AllocationEquation
<1> HIDE DEF f, w, a, D
<1>4. /\ f[{}] = 0 /\ w[{}] = 0
      /\ \A T \in SUBSET D : T # {} =>
           /\ f[T] = fraction(Picked(T)) + f[T \ {Picked(T)}]
           /\ w[T] = price(Picked(T)) * fraction(Picked(T)) + w[T \ {Picked(T)}]
  BY <1>3 DEF FractionBody, WeightBody
<1>5. \A i \in D : p.legs[i] \in Leg
  BY <1>1 DEF D
<1>6. \A i \in D : fraction(i) \in Int /\ price(i) \in Int /\ price(i) * fraction(i) \in Int
  BY <1>5 DEF Leg
<1>7. CASE Len(p.legs) = 1
  <2>1. D = {1} /\ Picked({1}) = 1 /\ {1} \ {1} = {}
    BY <1>1, <1>7, OneOrTwoLegs, PickedOne DEF D
  <2>2. f[{1}] = fraction(1) + 0 /\ w[{1}] = price(1) * fraction(1) + 0
    BY <1>4, <2>1
  <2>3. a[{1}] = p.legs[1].allocation + 0
    <3>1. /\ a[{}] = 0
          /\ \A T \in SUBSET D : T # {} =>
               a[T] = p.legs[Picked(T)].allocation + a[T \ {Picked(T)}]
      BY <1>3 DEF AllocationBody
    <3> QED  BY <2>1, <3>1
  <2>4. p.legs[1].allocation \in Int
    BY <1>5, <2>1 DEF Leg
  <2> QED  BY <1>2, <1>6, <1>7, <2>1, <2>2, <2>3, <2>4
<1>8. CASE Len(p.legs) = 2
  <2>1. D = {1, 2}
    BY <1>1, <1>8, OneOrTwoLegs DEF D
  <2>2. /\ f[{1}] = fraction(1) + 0 /\ w[{1}] = price(1) * fraction(1) + 0
        /\ f[{2}] = fraction(2) + 0 /\ w[{2}] = price(2) * fraction(2) + 0
    <3>1. {1} \ {1} = {} /\ {2} \ {2} = {} /\ {1} \in SUBSET D /\ {2} \in SUBSET D
      BY <2>1
    <3> QED  BY <1>4, <3>1, PickedOne
  <2>3. CASE Picked({1, 2}) = 1
    <3>1. {1, 2} \ {1} = {2}
      OBVIOUS
    <3>2. f[D] = fraction(1) + f[{2}] /\ w[D] = price(1) * fraction(1) + w[{2}]
      BY <1>4, <2>1, <2>3, <3>1
    <3> QED  BY <1>2, <1>6, <1>8, <2>1, <2>2, <3>2
  <2>4. CASE Picked({1, 2}) = 2
    <3>1. {1, 2} \ {2} = {1}
      OBVIOUS
    <3>2. f[D] = fraction(2) + f[{1}] /\ w[D] = price(2) * fraction(2) + w[{1}]
      BY <1>4, <2>1, <2>4, <3>1
    <3> QED  BY <1>2, <1>6, <1>8, <2>1, <2>2, <3>2
  <2> QED  BY <2>3, <2>4, PickedOne
<1> QED  BY <1>7, <1>8

-----------------------------------------------------------------------------
(* The position that the execution opens. *)

PositionStatuses == {"NONE", "PENDING_EXECUTION", "PARTIALLY_FILLED", "OPEN",
                     "PARTIALLY_CLOSED", "CLOSED", "STOPPED"}
Positions == [status : PositionStatuses, planned : Nat, filled : Nat, total : Int, remaining : Int,
              tp1Hit : BOOLEAN]
Even == {2 * n : n \in Int}

(* No payload asks for a negative size or a negative share of it. *)
Amounts(p) == p.size >= 0 /\ \A i \in DOMAIN p.legs : p.legs[i].fraction >= 0

LEMMA EvenNumbers ==
  /\ 0 \in Even /\ Even \subseteq Int
  /\ \A a, b \in Even : a + b \in Even
  /\ \A a \in Even : a \div 2 \in Int /\ 2 * (a \div 2) = a
<1>1. ASSUME NEW n \in Int PROVE 2 * n \in Even
  BY DEF Even
<1>2. ASSUME NEW a \in Even PROVE \E n \in Int : a = 2 * n
  BY DEF Even
<1> HIDE DEF Even
<1>3. 0 \in Even
  <2>1. 0 \in Int /\ 2 * 0 = 0
    OBVIOUS
  <2> QED  BY <1>1, <2>1
<1>4. ASSUME NEW a \in Even, NEW b \in Even PROVE a + b \in Even
  <2>1. PICK m \in Int : a = 2 * m
    BY <1>2
  <2>2. PICK n \in Int : b = 2 * n
    BY <1>2
  <2>3. m + n \in Int /\ a + b = 2 * (m + n)
    BY <2>1, <2>2
  <2>4. 2 * (m + n) \in Even
    BY <1>1, <2>3
  <2> QED  BY <2>3, <2>4
<1>5. ASSUME NEW a \in Even PROVE a \in Int /\ a \div 2 \in Int /\ 2 * (a \div 2) = a
  <2>1. PICK m \in Int : a = 2 * m
    BY <1>2
  <2> QED  BY <2>1
<1> QED  BY <1>3, <1>4, <1>5

LEMMA LegSize ==
  ASSUME NEW size \in Eighths, NEW fraction \in Int
  PROVE  /\ (size * fraction) \div 4 \in Even
         /\ size >= 0 /\ fraction >= 0 => (size * fraction) \div 4 >= 0
<1>1. PICK n \in Int : size = 8 * n
  BY DEF Eighths
<1>2. n * fraction \in Int /\ size * fraction = 8 * (n * fraction)
  BY <1>1
<1>3. ASSUME NEW k \in Int PROVE (8 * k) \div 4 = 2 * k
  OBVIOUS
<1>4. (size * fraction) \div 4 = 2 * (n * fraction)
  BY <1>2, <1>3
<1>5. size >= 0 /\ fraction >= 0 => n * fraction >= 0
  <2>1. ASSUME NEW a \in Nat, NEW b \in Nat PROVE a * b >= 0
    OBVIOUS
  <2>2. size >= 0 => n \in Nat
    BY <1>1
  <2> QED  BY <2>1, <2>2
<1> HIDE DEF Even
<1>6. 2 * (n * fraction) \in Even
  BY <1>2 DEF Even
<1> QED  BY <1>2, <1>4, <1>5, <1>6

LEMMA OneFill ==
  ASSUME NEW pos \in Positions, NEW size \in Even, pos.total \in Even, pos.remaining = pos.total
  PROVE  LET after == ApplyFill(pos, size) IN
         /\ after \in Positions /\ after.planned = pos.planned
         /\ after.filled = pos.filled + 1 /\ after.tp1Hit = pos.tp1Hit
         /\ after.total = pos.total + size /\ after.total \in Even
         /\ after.remaining = after.total
         /\ after.status = IF pos.filled + 1 >= pos.planned THEN "OPEN" ELSE "PARTIALLY_FILLED"
<1>1. size \in Int /\ pos.total + size \in Even
  BY EvenNumbers
<1>2. ApplyFill(pos, size) \in Positions
  <2> DEFINE status == IF pos.filled + 1 >= pos.planned THEN "OPEN" ELSE "PARTIALLY_FILLED"
             number == pos.filled + 1
             total == pos.total + size
             left == pos.remaining + size
  <2>1. status \in PositionStatuses
    BY DEF PositionStatuses
  <2>2. number \in Nat /\ total \in Int /\ left \in Int
    BY <1>1 DEF Positions
  <2>3. ApplyFill(pos, size) = [pos EXCEPT !.filled = number, !.total = total,
                                           !.remaining = left, !.status = status]
    BY DEF ApplyFill, Positions
  <2> HIDE DEF status, number, total, left
  <2> QED  BY <2>1, <2>2, <2>3 DEF Positions
<1>3. /\ ApplyFill(pos, size).planned = pos.planned
      /\ ApplyFill(pos, size).filled = pos.filled + 1
      /\ ApplyFill(pos, size).tp1Hit = pos.tp1Hit
  BY DEF ApplyFill, Positions
<1>4. /\ ApplyFill(pos, size).total = pos.total + size
      /\ ApplyFill(pos, size).remaining = pos.remaining + size
  BY <1>1 DEF ApplyFill, Positions
<1>5. ApplyFill(pos, size).status
        = IF pos.filled + 1 >= pos.planned THEN "OPEN" ELSE "PARTIALLY_FILLED"
  BY DEF ApplyFill, Positions
<1> QED  BY <1>1, <1>2, <1>3, <1>4, <1>5

(* All legs filled, in whatever order: an open position of an even size.    *)
LEMMA FilledIs ==
  ASSUME NEW p \in Proposals, Len(p.legs) \in {1, 2}
  PROVE  LET pos == Filled(p) IN
         /\ pos \in Positions /\ pos.status = "OPEN" /\ pos.tp1Hit = FALSE
         /\ pos.filled = Len(p.legs)
         /\ pos.total \in Even /\ pos.remaining = pos.total
         /\ Amounts(p) => pos.total >= 0
<1> DEFINE g == FillFold(p)
           D == DOMAIN p.legs
           part(i) == (p.size * p.legs[i].fraction) \div 4
           none == OpenPosition(p)
<1>1. p.legs \in Seq(Leg) /\ D \subseteq {1, 2}
  BY OneOrTwoLegs DEF Proposals
<1>2. Filled(p) = g[D]
  BY FillIsFold
<1>3. g = FillBody(p, g, SUBSET D)
  BY <1>1, FillEquation
<1> HIDE DEF g, D
<1>4. /\ g[{}] = none
      /\ \A T \in SUBSET D : T # {} =>
           g[T] = ApplyFill(g[T \ {Picked(T)}], part(Picked(T)))
  BY <1>3 DEF FillBody
<1>5. /\ none \in Positions /\ none.planned = Len(p.legs) /\ none.filled = 0
      /\ none.total = 0 /\ none.remaining = 0 /\ none.tp1Hit = FALSE
  <2>1. Len(p.legs) \in Nat
    BY <1>1
  <2>2. NoPosition \in Positions
    BY DEF NoPosition, Positions, PositionStatuses
  <2>3. /\ NoPosition.planned = 0 /\ NoPosition.filled = 0 /\ NoPosition.total = 0
        /\ NoPosition.remaining = 0 /\ NoPosition.tp1Hit = FALSE
    BY DEF NoPosition
  <2>4. "PENDING_EXECUTION" \in PositionStatuses
    BY DEF PositionStatuses
  <2> HIDE DEF NoPosition, PositionStatuses
  <2>5. none \in Positions
    BY <2>1, <2>2, <2>4 DEF OpenPosition, Positions
  <2> QED  BY <2>1, <2>2, <2>3, <2>5 DEF OpenPosition, Positions
<1>6. ASSUME NEW i \in D PROVE part(i) \in Even /\ (Amounts(p) => part(i) >= 0)
  <2>1. p.legs[i] \in Leg /\ p.size \in Eighths
    BY <1>1 DEF D, Proposals
  <2>2. p.legs[i].fraction \in Int
    BY <2>1 DEF Leg
  <2>3. Amounts(p) => p.size >= 0 /\ p.legs[i].fraction >= 0
    BY DEF Amounts, D
  <2> QED  BY <2>1, <2>2, <2>3, LegSize
<1> HIDE DEF none, part
<1>7. 0 \in Even
  BY EvenNumbers
<1>8. ASSUME NEW i \in D
      PROVE  LET pos == ApplyFill(none, part(i)) IN
             /\ pos \in Positions /\ pos.planned = Len(p.legs) /\ pos.filled = 1
             /\ pos.tp1Hit = FALSE /\ pos.total \in Even /\ pos.remaining = pos.total
             /\ Len(p.legs) = 1 => pos.status = "OPEN"
             /\ Amounts(p) => pos.total >= 0
  <2> DEFINE pos == ApplyFill(none, part(i))
  <2>1. part(i) \in Int
    BY <1>6 DEF Even
  <2>2. /\ pos \in Positions /\ pos.planned = Len(p.legs) /\ pos.filled = 0 + 1
        /\ pos.tp1Hit = FALSE /\ pos.total = 0 + part(i) /\ pos.total \in Even
        /\ pos.remaining = pos.total
        /\ pos.status = IF 0 + 1 >= Len(p.legs) THEN "OPEN" ELSE "PARTIALLY_FILLED"
    <3>1. part(i) \in Even
      BY <1>6
    <3> QED  BY <1>5, <1>7, <3>1, OneFill
  <2> HIDE DEF pos
  <2>3. Amounts(p) => part(i) >= 0
    BY <1>6
  <2>4. 0 + part(i) = part(i)
    BY <2>1
  <2>5. Len(p.legs) = 1 => pos.status = "OPEN"
    BY <2>2
  <2> QED  BY <2>2, <2>3, <2>4, <2>5 DEF pos
<1>9. CASE Len(p.legs) = 1
  <2>1. D = {1} /\ {1} \ {1} = {}
    BY <1>1, <1>9, OneOrTwoLegs DEF D
  <2>2. g[D] = ApplyFill(none, part(1))
    BY <1>4, <2>1, PickedOne
  <2> QED  BY <1>2, <1>8, <1>9, <2>1, <2>2
<1>10. CASE Len(p.legs) = 2
  <2>1. D = {1, 2}
    BY <1>1, <1>10, OneOrTwoLegs DEF D
  <2>2. g[{1}] = ApplyFill(none, part(1)) /\ g[{2}] = ApplyFill(none, part(2))
    <3>1. {1} \ {1} = {} /\ {2} \ {2} = {} /\ {1} \in SUBSET D /\ {2} \in SUBSET D
      BY <2>1
    <3> QED  BY <1>4, <3>1, PickedOne
  <2>3. PICK i \in D, j \in D : g[D] = ApplyFill(ApplyFill(none, part(i)), part(j))
    <3>1. {1, 2} \ {1} = {2} /\ {1, 2} \ {2} = {1}
      OBVIOUS
    <3>2. CASE Picked({1, 2}) = 1
      BY <1>4, <2>1, <2>2, <3>1, <3>2
    <3>3. CASE Picked({1, 2}) = 2
      BY <1>4, <2>1, <2>2, <3>1, <3>3
    <3> QED  BY <3>2, <3>3, PickedOne
  <2> DEFINE first == ApplyFill(none, part(i))
  <2>4. /\ first \in Positions /\ first.planned = 2 /\ first.filled = 1
        /\ first.tp1Hit = FALSE /\ first.total \in Even /\ first.remaining = first.total
        /\ Amounts(p) => first.total >= 0
    BY <1>8, <1>10
  <2>5. part(j) \in Even /\ (Amounts(p) => part(j) >= 0)
    BY <1>6
  <2> HIDE DEF first
  <2>6. g[D] = ApplyFill(first, part(j))
    BY <2>3 DEF first
  <2>7. first.total \in Int /\ part(j) \in Int
    BY <2>4, <2>5 DEF Even
  <2> QED  BY <1>2, <1>10, <2>4, <2>5, <2>6, <2>7, OneFill
<1> QED  BY <1>9, <1>10

-----------------------------------------------------------------------------
(* The proposals of the live flow. *)

(* The offer is what the flow made of some quote, its status apart.         *)
AsBuilt ==
  \E q \in Quotes : \E t \in 0..clock :
    /\ offer = [BuildProposal(q, t) EXCEPT !.status = offer.status]
    /\ whitelist = Whitelisted(RawInstrument(q), t)
    /\ EvaluateInstrument(RawInstrument(q)) = "OK"
    /\ Confidence(q) >= MinConfidence

LEMMA ConfidenceInteger ==
  ASSUME QuotesTyped, NEW q \in Quotes
  PROVE  Confidence(q) \in Int /\ Confidence(q) <= 95
<1> DEFINE change == Min({Abs(q.change), 20})
           rest == 55 + (5 * change) \div 2
<1>1. q.change \in Int
  BY DEF QuotesTyped
<1>2. Abs(q.change) \in Int
  BY <1>1 DEF Abs
<1>3. change \in Int
  BY <1>2, LesserOfTwo
<1> HIDE DEF change
<1>4. rest \in Int
  BY <1>3
<1> HIDE DEF rest
<1>5. Confidence(q) = Min({95, rest})
  BY DEF Confidence, rest, change
<1>6. Min({95, rest}) = IF 95 <= rest THEN 95 ELSE rest
  BY <1>4, LesserOfTwo
<1> QED  BY <1>4, <1>5, <1>6

LEMMA WidthOfRange ==
  ASSUME QuotesTyped, NEW q \in Quotes
  PROVE  /\ RangeWidth(q) \in Int
         /\ RangeWidth(q) >= 120 * (q.high - q.low)
         /\ RangeWidth(q) >= 2 * q.last /\ RangeWidth(q) >= 800
         /\ RangeWidth(q) \in {120 * (q.high - q.low), 2 * q.last, 800}
<1> DEFINE a == 120 * (q.high - q.low)
           b == 2 * q.last
<1>1. a \in Int /\ b \in Int /\ 800 \in Int
  BY DEF QuotesTyped
<1>2. RangeWidth(q) = Max({a, b, 800})
  BY DEF RangeWidth, Cent
<1> HIDE DEF a, b
<1>3. RangeWidth(q) \in {a, b, 800} /\ RangeWidth(q) >= a /\ RangeWidth(q) >= b
      /\ RangeWidth(q) >= 800
  BY <1>1, <1>2, GreatestOfThree
<1>4. RangeWidth(q) \in Int
  BY <1>1, <1>3
<1> QED  BY <1>3, <1>4 DEF a, b

LEMMA FlooredIs ==
  ASSUME NEW price \in Int
  PROVE  Floored(price) = IF price >= 800 THEN price ELSE 800
BY GreaterOfTwo DEF Floored, Cent

LEMMA BuiltTyped ==
  ASSUME PaperAssumption, QuotesTyped, NEW q \in Quotes, NEW t \in Nat
  PROVE  LET p == BuildProposal(q, t) IN
         /\ p \in Proposals /\ Len(p.legs) = 1
         /\ p.risk = DefaultRisk /\ p.riskUsd = 5 * Dollar /\ p.size = 8 /\ p.legs[1].fraction = 4
         /\ p.status = "PENDING_APPROVAL"
<1> DEFINE last == Cent * q.last
           width == RangeWidth(q)
           long == q.change >= 0
           side == IF long THEN "LONG" ELSE "SHORT"
           zoneMin == IF long THEN Floored(last - width) ELSE last
           zoneMax == IF long THEN last ELSE last + width
           middle == (zoneMin + zoneMax) \div 2
           stop == IF long THEN Floored(zoneMin - width) ELSE zoneMax + width
           tp1 == IF long THEN last + 2 * width ELSE Floored(last - 2 * width)
           tp2 == IF long THEN last + 4 * width ELSE Floored(last - 4 * width)
           end == t + LiveLifetime
           sure == Confidence(q)
           leg == [price |-> middle, fraction |-> 4, allocation |-> 4, validUntil |-> end]
<1>1. last \in Int /\ width \in Int /\ end \in Int /\ sure \in Int /\ side \in {"LONG", "SHORT"}
  <2>1. q.last \in Nat /\ LiveLifetime \in Nat
    BY DEF QuotesTyped, PaperAssumption
  <2>2. last \in Int /\ end \in Int
    BY <2>1 DEF Cent
  <2> QED  BY <2>2, ConfidenceInteger, WidthOfRange
<1> HIDE DEF last, width, long, side, end, sure
<1>2. \A price \in Int : Floored(price) \in Int
  BY FlooredIs
<1>3. zoneMin \in Int /\ zoneMax \in Int /\ tp1 \in Int /\ tp2 \in Int
  <2>1. last - width \in Int /\ last + width \in Int /\ last + 2 * width \in Int
        /\ last - 2 * width \in Int /\ last + 4 * width \in Int /\ last - 4 * width \in Int
    BY <1>1
  <2> QED  BY <1>1, <1>2, <2>1
<1> HIDE DEF zoneMin, zoneMax, tp1, tp2
<1>4. middle \in Int /\ stop \in Int
  <2>1. zoneMin - width \in Int /\ zoneMax + width \in Int
    BY <1>1, <1>3
  <2> QED  BY <1>1, <1>2, <1>3, <2>1
<1> HIDE DEF middle, stop
<1>5. leg \in Leg
  BY <1>1, <1>4 DEF Leg
<1> HIDE DEF leg
<1>6. 8 \in Eighths /\ "PENDING_APPROVAL" \in Statuses
  <2>1. 1 \in Int /\ 8 = 8 * 1
    OBVIOUS
  <2> QED  BY <2>1 DEF Eighths, Statuses
<1>7. BuildProposal(q, t) =
        [side |-> side, zoneMin |-> zoneMin, zoneMax |-> zoneMax, legs |-> <<leg>>,
         stop |-> stop, tp1 |-> tp1, tp2 |-> tp2, risk |-> DefaultRisk, riskUsd |-> 5 * Dollar, size |-> 8,
         confidence |-> sure, freshness |-> 0, created |-> t, expires |-> end,
         status |-> "PENDING_APPROVAL"]
  BY DEF BuildProposal, side, zoneMin, zoneMax, leg, middle, stop, tp1, tp2, sure, end, last,
         width, long
<1>8. <<leg>> \in Seq(Leg) /\ Len(<<leg>>) = 1 /\ <<leg>>[1] = leg
  BY <1>5
<1>9. leg.fraction = 4
  BY DEF leg
<1> DEFINE legs == <<leg>>
<1>10. legs \in Seq(Leg) /\ Len(legs) = 1 /\ legs[1].fraction = 4
  BY <1>8, <1>9
<1> HIDE DEF legs
<1>11. BuildProposal(q, t) =
        [side |-> side, zoneMin |-> zoneMin, zoneMax |-> zoneMax, legs |-> legs,
         stop |-> stop, tp1 |-> tp1, tp2 |-> tp2, risk |-> DefaultRisk, riskUsd |-> 5 * Dollar, size |-> 8,
         confidence |-> sure, freshness |-> 0, created |-> t, expires |-> end,
         status |-> "PENDING_APPROVAL"]
  BY <1>7 DEF legs
<1>12. BuildProposal(q, t) \in Proposals
  <2> DEFINE usd == 5 * Dollar
  <2>1. DefaultRisk \in Int /\ usd \in Int
    BY DEF PaperAssumption
  <2> HIDE DEF usd
  <2>2. BuildProposal(q, t) =
          [side |-> side, zoneMin |-> zoneMin, zoneMax |-> zoneMax, legs |-> legs,
           stop |-> stop, tp1 |-> tp1, tp2 |-> tp2, risk |-> DefaultRisk, riskUsd |-> usd,
           size |-> 8, confidence |-> sure, freshness |-> 0, created |-> t, expires |-> end,
           status |-> "PENDING_APPROVAL"]
    BY <1>11 DEF usd
  <2> QED  BY <1>1, <1>3, <1>4, <1>6, <1>10, <2>1, <2>2 DEF Proposals
<1> QED  BY <1>10, <1>11, <1>12

(* Five dollars are the configured risk, to the tolerance of the risk      *)
(* engine.                                                                 *)
Band(e) ==
  LET tolerance == Max({25, DefaultRisk}) IN
  /\ (5 * DefaultRisk + tolerance) * e >= 250000 * Dollar
  /\ (5 * DefaultRisk - tolerance) * e <= 250000 * Dollar

LEMMA EquityRange ==
  ASSUME PaperAssumption, NEW p \in Proposals, p.risk = DefaultRisk, p.riskUsd = 5 * Dollar,
         NEW e \in Int, e > 0, ~RiskMismatch(p, e)
  PROVE  Band(e)
<1> DEFINE R == DefaultRisk
           D == Dollar
           T == Max({25, R})
           Re == R * e
           Te == T * e
           Gap == Abs(50000 * D - Re)
<1>1. R \in Int /\ D \in Int
  BY DEF PaperAssumption
<1>2. T = IF 25 >= R THEN 25 ELSE R
  BY <1>1, GreaterOfTwo
<1> HIDE DEF R, D, T
<1>3. T \in Int /\ Re \in Int /\ Te \in Int
  BY <1>1, <1>2
<1>4. 10000 * p.riskUsd = 50000 * D /\ p.risk * e = Re
  BY <1>1 DEF R, D
<1> HIDE DEF Re, Te
<1>5. Gap = IF 50000 * D - Re < 0 THEN -(50000 * D - Re) ELSE 50000 * D - Re
  BY DEF Abs
<1>6. ~(5 * Gap > 25 * e /\ 5 * Gap > Re)
  BY <1>4 DEF RiskMismatch
<1>7. 25 * e <= Te /\ Re <= Te
  <2>1. \A a, b \in Int : a >= b => a * e >= b * e
    OBVIOUS
  <2>2. T >= 25 /\ T >= R
    BY <1>1, <1>2
  <2> QED  BY <1>1, <1>3, <2>1, <2>2 DEF Re, Te
<1>8. 5 * Gap <= Te
  <2>1. Gap \in Int
    BY <1>1, <1>3, <1>5
  <2> HIDE DEF Gap
  <2> QED  BY <1>3, <1>6, <1>7, <2>1
<1>9. 5 * Re + Te >= 250000 * D /\ 5 * Re - Te <= 250000 * D
  BY <1>1, <1>3, <1>5, <1>8
<1>10. (5 * R + T) * e = 5 * Re + Te /\ (5 * R - T) * e = 5 * Re - Te
  BY <1>1, <1>3 DEF Re, Te
<1> QED  BY <1>9, <1>10 DEF Band, R, D, T

OfferInv ==
  /\ clock \in Nat
  /\ source \in {"none", "json", "live"}
  /\ source = "none" => offer = NoOffer /\ position = NoPosition /\ journal = <<>>
  /\ source # "none" => offer \in Proposals /\ Len(offer.legs) \in {1, 2}
  /\ source = "live" => AsBuilt
  /\ (source = "live" /\ position # NoPosition) => Band(equity)

LEMMA OfferBegins == Init => OfferInv
BY DEF Init, OfferInv

(* A change of the status, and time going by, leave an offer as built. *)
LEMMA AsBuiltKept ==
  ASSUME AsBuilt, PaperAssumption, QuotesTyped, clock \in Nat, clock' \in Nat, clock <= clock',
         UNCHANGED whitelist,
         offer' = offer \/ (\E s \in Statuses : offer' = [offer EXCEPT !.status = s])
  PROVE  AsBuilt'
<1>1. PICK q \in Quotes : \E t \in 0..clock :
        /\ offer = [BuildProposal(q, t) EXCEPT !.status = offer.status]
        /\ whitelist = Whitelisted(RawInstrument(q), t)
        /\ EvaluateInstrument(RawInstrument(q)) = "OK"
        /\ Confidence(q) >= MinConfidence
  BY DEF AsBuilt
<1>2. PICK t \in 0..clock :
        /\ offer = [BuildProposal(q, t) EXCEPT !.status = offer.status]
        /\ whitelist = Whitelisted(RawInstrument(q), t)
        /\ EvaluateInstrument(RawInstrument(q)) = "OK"
        /\ Confidence(q) >= MinConfidence
  BY <1>1
<1> DEFINE b == BuildProposal(q, t)
<1>3. b \in Proposals
  <2>1. t \in Nat
    BY <1>2
  <2> QED  BY <2>1, BuiltTyped
<1> HIDE DEF b
<1>4. offer' = [b EXCEPT !.status = offer'.status]
  <2>1. offer = [b EXCEPT !.status = offer.status]
    BY <1>2 DEF b
  <2>2. CASE offer' = offer
    BY <2>1, <2>2
  <2>3. CASE \E s \in Statuses : offer' = [offer EXCEPT !.status = s]
    <3>1. PICK s \in Statuses : offer' = [offer EXCEPT !.status = s]
      BY <2>3
    <3>2. offer' = [b EXCEPT !.status = s]
      BY <1>3, <2>1, <3>1 DEF Proposals
    <3>3. offer'.status = s
      BY <1>3, <3>2 DEF Proposals
    <3> QED  BY <3>2, <3>3
  <2> QED  BY <2>2, <2>3
<1>5. t \in 0..clock'
  BY <1>2
<1> QED  BY <1>2, <1>4, <1>5 DEF AsBuilt, b

(* What an offer of the live flow risks. *)
LEMMA AsBuiltRisk ==
  ASSUME AsBuilt, PaperAssumption, QuotesTyped, clock \in Nat
  PROVE  offer.risk = DefaultRisk /\ offer.riskUsd = 5 * Dollar
<1>1. PICK q \in Quotes : \E t \in 0..clock :
        offer = [BuildProposal(q, t) EXCEPT !.status = offer.status]
  BY DEF AsBuilt
<1>2. PICK t \in 0..clock : offer = [BuildProposal(q, t) EXCEPT !.status = offer.status]
  BY <1>1
<1> DEFINE b == BuildProposal(q, t)
<1>3. b \in Proposals /\ b.risk = DefaultRisk /\ b.riskUsd = 5 * Dollar
  <2>1. t \in Nat
    BY <1>2
  <2> QED  BY <2>1, BuiltTyped
<1> HIDE DEF b
<1>4. offer = [b EXCEPT !.status = offer.status]
  BY <1>2 DEF b
<1> QED  BY <1>3, <1>4 DEF Proposals

(* An approval and an execution give the offer a status, and no more. *)
LEMMA StatusGiven ==
  Approve \/ Execute => \E s \in Statuses : offer' = [offer EXCEPT !.status = s]
<1>1. {"EXECUTED", "REJECTED_PRE_EXECUTION", Approved} \subseteq Statuses
  BY DEF Statuses, Approved
<1>2. Execute => \/ offer' = [offer EXCEPT !.status = "EXECUTED"]
                 \/ offer' = [offer EXCEPT !.status = Approved]
                 \/ offer' = [offer EXCEPT !.status = "REJECTED_PRE_EXECUTION"]
  BY DEF Execute
<1>3. Approve => offer' = [offer EXCEPT !.status = Approved]
  BY DEF Approve
<1> HIDE DEF Approved, Statuses
<1> QED  BY <1>1, <1>2, <1>3

LEMMA OfferStep ==
  ASSUME PaperAssumption, InputsTyped
  PROVE  OfferInv /\ [Next]_vars => OfferInv'
<1> SUFFICES ASSUME OfferInv, [Next]_vars PROVE OfferInv'
  OBVIOUS
<1> USE DEF OfferInv
<1>1. CASE Wait
  <2>1. clock' \in Nat /\ clock <= clock'
    BY <1>1 DEF Wait
  <2>2. (source = "live" => AsBuilt)'
    BY <1>1, <2>1, AsBuiltKept DEF Wait, InputsTyped
  <2> QED  BY <1>1, <2>1, <2>2 DEF Wait
<1>2. CASE SubmitJson
  <2>1. PICK p \in Payloads : /\ Constructible(p)
                              /\ offer' = [p EXCEPT !.status = "PENDING_APPROVAL"]
    BY <1>2 DEF SubmitJson
  <2>2. p \in Proposals /\ "PENDING_APPROVAL" \in Statuses
    BY DEF InputsTyped, PayloadsTyped, Statuses
  <2>3. offer' \in Proposals /\ Len(offer'.legs) \in {1, 2}
    BY <2>1, <2>2, StatusOnly DEF Constructible
  <2> QED  BY <1>2, <2>3 DEF SubmitJson
<1>3. CASE SubmitLive
  <2>1. PICK q \in Quotes :
          /\ EvaluateInstrument(RawInstrument(q)) = "OK"
          /\ Confidence(q) >= MinConfidence
          /\ whitelist' = Whitelisted(RawInstrument(q), clock)
          /\ offer' = BuildProposal(q, clock)
    BY <1>3 DEF SubmitLive
  <2>2. offer' \in Proposals /\ Len(offer'.legs) = 1 /\ offer'.status = "PENDING_APPROVAL"
    BY <2>1, BuiltTyped DEF InputsTyped
  <2>3. AsBuilt'
    <3>1. offer' = [BuildProposal(q, clock) EXCEPT !.status = offer'.status]
      BY <2>1, <2>2 DEF Proposals
    <3>2. clock \in 0..clock'
      BY <1>3 DEF SubmitLive
    <3> QED  BY <2>1, <3>1, <3>2 DEF AsBuilt
  <2> QED  BY <1>3, <2>2, <2>3 DEF SubmitLive
<1>4. CASE Approve \/ Execute
  <2>1. source # "none" /\ offer \in Proposals /\ Len(offer.legs) \in {1, 2}
    BY <1>4 DEF Approve, Execute
  <2>2. UNCHANGED <<clock, source, whitelist>>
    BY <1>4 DEF Approve, Execute
  <2>3. PICK s \in Statuses : offer' = [offer EXCEPT !.status = s]
    BY <1>4, StatusGiven
  <2>4. offer' \in Proposals /\ Len(offer'.legs) \in {1, 2}
    BY <2>1, <2>3, StatusOnly
  <2>5. source = "live" => AsBuilt'
    BY <2>2, <2>3, AsBuiltKept DEF InputsTyped
  <2>6. ASSUME source = "live", position' # NoPosition PROVE Band(equity')
    <3>1. CASE UNCHANGED <<position, equity>>
      BY <2>6, <3>1
    <3>2. CASE ~UNCHANGED <<position, equity>>
      <4>1. PICK portfolio \in Portfolios :
              /\ PreExecutionReason(offer, portfolio, portfolio.reserved, clock) = "OK"
              /\ equity' = portfolio.equity
        BY <1>4, <3>2 DEF Approve, Execute, Opened
      <4> DEFINE e == portfolio.equity
      <4>2. e \in Int
        BY DEF InputsTyped, PortfoliosTyped
      <4>3. ~RiskMismatch(offer, e) /\ ~(offer.riskUsd <= 0 \/ e <= 0)
        BY <4>1, PreExecutionOK
      <4>4. offer.risk = DefaultRisk /\ offer.riskUsd = 5 * Dollar
        BY <2>6, AsBuiltRisk DEF InputsTyped
      <4> HIDE DEF OfferInv, e
      <4>5. Band(e)
        BY <2>1, <4>2, <4>3, <4>4, EquityRange
      <4> QED  BY <4>1, <4>5 DEF e
    <3> QED  BY <3>1, <3>2
  <2> QED  BY <2>1, <2>2, <2>4, <2>5, <2>6
<1>5. CASE MarketTick
  <2>1. UNCHANGED <<clock, offer, source, whitelist, equity>> /\ source # "none"
        /\ position # NoPosition
    BY <1>5 DEF MarketTick
  <2>2. source = "live" => AsBuilt'
    BY <2>1, AsBuiltKept DEF InputsTyped
  <2> QED  BY <2>1, <2>2
<1>6. CASE UNCHANGED vars
  BY <1>6, AsBuiltKept DEF vars, InputsTyped
<1> QED  BY <1>1, <1>2, <1>3, <1>4, <1>5, <1>6 DEF Next

LEMMA OfferAlways ==
  ASSUME PaperAssumption, InputsTyped
  PROVE  Spec => []OfferInv
<1>1. OfferInv /\ [Next]_vars => OfferInv'
  BY OfferStep
<1> QED  BY <1>1, OfferBegins, PTL DEF Spec

(* A live proposal is opened only at an equity of which its five dollars   *)
(* are the configured risk, to the tolerance of the risk engine            *)
(* (live_market_flow.py _build_proposal, risk_engine.py): whatever the     *)
(* quotes, the portfolios and the configuration.                           *)
THEOREM LiveAlwaysOpensAtItsEquity ==
  ASSUME InputsTyped
  PROVE  Spec => []LiveOpensOnlyAtItsEquity
<1>1. OfferInv => LiveOpensOnlyAtItsEquity
  BY DEF OfferInv, LiveOpensOnlyAtItsEquity, Band
<1> QED  BY <1>1, OfferAlways, PaperAssumption, PTL

-----------------------------------------------------------------------------
(* The journal. *)

Events == {"POSITION_OPENED", "FILL_APPLIED", "TP1_PARTIAL_CLOSE", "TP2_FULL_CLOSE",
           "STOP_TRIGGERED", "POSITION_UPDATED"}

CountIn(history, kind) == Cardinality({i \in DOMAIN history : history[i] = kind})

LEMMA CountGrows ==
  ASSUME NEW history \in Seq(Events), NEW event \in Events, NEW kind
  PROVE  LET longer == Append(history, event) IN
         /\ longer \in Seq(Events) /\ longer # <<>> /\ Last(longer) = event
         /\ CountIn(history, kind) \in Nat
         /\ CountIn(longer, kind) = CountIn(history, kind) + (IF event = kind THEN 1 ELSE 0)
<1> DEFINE n == Len(history)
           longer == Append(history, event)
           before == {i \in 1..n : history[i] = kind}
           after == {i \in 1..(n + 1) : longer[i] = kind}
<1>1. /\ n \in Nat /\ Len(longer) = n + 1
      /\ \A i \in 1..(n + 1) : longer[i] = IF i = n + 1 THEN event ELSE history[i]
  OBVIOUS
<1>2. longer \in Seq(Events) /\ longer # <<>> /\ Last(longer) = event
  <2>1. longer \in Seq(Events) /\ longer # <<>> /\ longer[n + 1] = event
    BY AppendProperties
  <2> QED  BY <1>1, <2>1 DEF Last
<1>3. CountIn(history, kind) = Cardinality(before) /\ CountIn(longer, kind) = Cardinality(after)
  <2>1. DOMAIN history = 1..n /\ DOMAIN longer = 1..(n + 1)
    BY <1>1
  <2> HIDE DEF longer, n
  <2> QED  BY <2>1 DEF CountIn
<1>4. IsFiniteSet(before)
  <2>1. before \subseteq 1..n /\ IsFiniteSet(1..n)
    BY <1>1, FS_Interval
  <2> HIDE DEF before
  <2> QED  BY <2>1, FS_Subset
<1>5. Cardinality(before) \in Nat
  BY <1>4, FS_CardinalityType
<1>6. CASE event # kind
  <2>1. after = before
    BY <1>1, <1>6
  <2> HIDE DEF before, after, longer
  <2>2. Cardinality(after) = Cardinality(before) + 0
    BY <1>5, <2>1
  <2> QED  BY <1>2, <1>3, <1>5, <1>6, <2>2 DEF longer
<1>7. CASE event = kind
  <2>1. after = before \union {n + 1} /\ n + 1 \notin before
    BY <1>1, <1>7
  <2> HIDE DEF before, after, longer
  <2>2. Cardinality(after) = Cardinality(before) + 1
    BY <1>4, <2>1, FS_AddElement
  <2> QED  BY <1>2, <1>3, <1>5, <1>7, <2>2 DEF longer
<1> QED  BY <1>6, <1>7

LEMMA TwoEvents ==
  ASSUME NEW history \in Seq(Events), NEW a \in Events, NEW b \in Events
  PROVE  history \o <<a, b>> = Append(Append(history, a), b)
<1>1. <<a, b>> \in Seq(Events) /\ Len(<<a, b>>) = 2
  OBVIOUS
<1>2. history \o <<a, b>> \in Seq(Events) /\ Append(Append(history, a), b) \in Seq(Events)
  <2>1. history \o <<a, b>> \in Seq(Events)
    BY <1>1, ConcatProperties
  <2> QED  BY <2>1, AppendProperties
<1> QED  BY <1>2

LEMMA AllFilled ==
  ASSUME NEW history \in Seq(Events), NEW n \in {1, 2}, NEW fill \in Events
  PROVE  LET fills == [i \in 1..n |-> fill] IN
         /\ n = 1 => history \o fills = Append(history, fill)
         /\ n = 2 => history \o fills = Append(Append(history, fill), fill)
<1>1. CASE n = 1
  <2>1. [i \in 1..1 |-> fill] = <<fill>>
    OBVIOUS
  <2>2. history \o <<fill>> = Append(history, fill)
    OBVIOUS
  <2> QED  BY <1>1, <2>1, <2>2
<1>2. CASE n = 2
  <2>1. [i \in 1..2 |-> fill] = <<fill, fill>>
    OBVIOUS
  <2> QED  BY <1>2, <2>1, TwoEvents
<1> QED  BY <1>1, <1>2

(* A tick leaves the position, stops it out or takes one of its profits.   *)
Shape(pos) ==
  \/ pos.status = "OPEN" /\ pos.remaining = pos.total /\ ~pos.tp1Hit
  \/ pos.status = "PARTIALLY_CLOSED" /\ 2 * pos.remaining = pos.total /\ pos.tp1Hit
  \/ pos.status \in {"CLOSED", "STOPPED"} /\ pos.remaining = 0

SameFills(pos, after) ==
  /\ after \in Positions
  /\ after.total = pos.total /\ after.filled = pos.filled

LEMMA PartOff ==
  ASSUME NEW pos \in Positions, NEW size \in Int
  PROVE  LET after == PartialClose(pos, size) IN
         /\ SameFills(pos, after) /\ after.tp1Hit = pos.tp1Hit
         /\ after.remaining = pos.remaining - size
         /\ after.status = IF pos.remaining = size THEN "CLOSED" ELSE "PARTIALLY_CLOSED"
<1> DEFINE left == pos.remaining - size
           status == IF pos.remaining = size THEN "CLOSED" ELSE "PARTIALLY_CLOSED"
           after == [pos EXCEPT !.remaining = left, !.status = status]
<1>1. PartialClose(pos, size) = after
  BY DEF PartialClose, Positions
<1>2. left \in Int /\ status \in PositionStatuses
  BY DEF Positions, PositionStatuses
<1> HIDE DEF left, status
<1>3. after \in Positions
  BY <1>2 DEF Positions
<1>4. /\ after.total = pos.total /\ after.filled = pos.filled /\ after.tp1Hit = pos.tp1Hit
      /\ after.remaining = left /\ after.status = status
  BY DEF Positions
<1> QED  BY <1>1, <1>3, <1>4 DEF SameFills, left, status

LEMMA TickIs ==
  ASSUME NEW p, NEW price, NEW pos \in Positions, pos.total \in Even, Shape(pos)
  PROVE  LET after == AfterTick(p, pos, price) IN
         \/ after = pos
         \/ /\ pos.remaining > 0
            /\ SameFills(pos, after) /\ after.tp1Hit = pos.tp1Hit
            /\ after.status = "STOPPED" /\ after.remaining = 0
         \/ /\ pos.remaining > 0 /\ pos.status = "OPEN"
            /\ SameFills(pos, after) /\ after.tp1Hit = TRUE
            /\ after.status = "PARTIALLY_CLOSED" /\ 2 * after.remaining = pos.total
         \/ /\ pos.remaining > 0
            /\ SameFills(pos, after) /\ after.tp1Hit = pos.tp1Hit
            /\ after.status = "CLOSED" /\ after.remaining = 0
            /\ TargetReached(p, p.tp2, price) /\ (pos.tp1Hit \/ ~TargetReached(p, p.tp1, price))
<1> DEFINE after == AfterTick(p, pos, price)
           half == PartialClose(pos, pos.remaining \div 2)
           all == PartialClose(pos, pos.remaining)
<1>1. pos.remaining \in Int /\ pos.total \in Int /\ pos.tp1Hit \in BOOLEAN
  BY DEF Positions
<1>2. CASE pos.remaining <= 0
  BY <1>2 DEF AfterTick
<1>3. CASE ~(pos.remaining <= 0) /\ StopReached(p, price)
  <2>1. after = Close(pos)
    BY <1>3 DEF AfterTick
  <2>2. "STOPPED" \in PositionStatuses
    BY DEF PositionStatuses
  <2> DEFINE closed == [pos EXCEPT !.remaining = 0, !.status = "STOPPED"]
  <2>3. /\ closed \in Positions
        /\ closed.total = pos.total /\ closed.filled = pos.filled
        /\ closed.tp1Hit = pos.tp1Hit
        /\ closed.status = "STOPPED" /\ closed.remaining = 0
    <3>1. ASSUME NEW left \in Int, NEW status \in PositionStatuses
          PROVE  [pos EXCEPT !.remaining = left, !.status = status] \in Positions
      <4> HIDE DEF PositionStatuses
      <4> QED  BY DEF Positions
    <3>2. closed \in Positions
      <4>1. 0 \in Int
        OBVIOUS
      <4> QED  BY <2>2, <3>1, <4>1
    <3>3. closed.status = "STOPPED" /\ closed.remaining = 0
      BY DEF Positions
    <3>4. closed.total = pos.total /\ closed.filled = pos.filled /\ closed.tp1Hit = pos.tp1Hit
      BY DEF Positions
    <3> QED  BY <3>2, <3>3, <3>4
  <2>4. after = closed
    BY <2>1 DEF Close
  <2> HIDE DEF after, closed
  <2> QED  BY <1>1, <1>3, <2>3, <2>4 DEF SameFills, after
<1>4. CASE /\ ~(pos.remaining <= 0) /\ ~StopReached(p, price)
           /\ ~pos.tp1Hit /\ TargetReached(p, p.tp1, price)
  <2>1. after = [half EXCEPT !.tp1Hit = TRUE]
    BY <1>4 DEF AfterTick
  <2>2. pos.status = "OPEN" /\ pos.remaining = pos.total
    BY <1>1, <1>4 DEF Shape
  <2>3. pos.remaining \div 2 \in Int /\ 2 * (pos.remaining \div 2) = pos.total
    BY <2>2, EvenNumbers
  <2>4. /\ SameFills(pos, half)
        /\ half.remaining = pos.remaining - pos.remaining \div 2
        /\ half.status = IF pos.remaining = pos.remaining \div 2 THEN "CLOSED"
                         ELSE "PARTIALLY_CLOSED"
    BY <2>3, PartOff
  <2> DEFINE h == pos.remaining \div 2
  <2> HIDE DEF h, half
  <2>5. h \in Int /\ 2 * h = pos.total /\ pos.remaining = 2 * h
    BY <2>2, <2>3 DEF h
  <2>6. half.remaining = pos.remaining - h
    BY <2>4 DEF h
  <2>7. half.remaining = h /\ pos.remaining # h
    BY <1>1, <1>4, <2>5, <2>6
  <2>8. half.status = "PARTIALLY_CLOSED"
    BY <2>4, <2>7 DEF h
  <2>9. /\ after \in Positions /\ after.tp1Hit = TRUE
        /\ after.total = half.total /\ after.filled = half.filled
        /\ after.remaining = half.remaining /\ after.status = half.status
    <3>1. half \in Positions /\ TRUE \in BOOLEAN
      BY <2>4 DEF SameFills
    <3> HIDE DEF after
    <3> QED  BY <2>1, <3>1 DEF Positions
  <2> HIDE DEF after
  <2>10. SameFills(pos, after) /\ after.status = "PARTIALLY_CLOSED"
         /\ 2 * after.remaining = pos.total
    BY <2>4, <2>5, <2>7, <2>8, <2>9 DEF SameFills
  <2>11. pos.remaining > 0
    BY <1>1, <1>4
  <2> QED  BY <2>2, <2>9, <2>10, <2>11 DEF after
<1>5. CASE /\ ~(pos.remaining <= 0) /\ ~StopReached(p, price)
           /\ ~(~pos.tp1Hit /\ TargetReached(p, p.tp1, price))
  <2>1. CASE TargetReached(p, p.tp2, price)
    <3>1. after = all
      BY <1>5, <2>1 DEF AfterTick
    <3>2. /\ SameFills(pos, all) /\ all.tp1Hit = pos.tp1Hit
          /\ all.remaining = pos.remaining - pos.remaining
          /\ all.status = "CLOSED"
      BY <1>1, PartOff
    <3>3. pos.remaining - pos.remaining = 0 /\ pos.remaining > 0
      BY <1>1, <1>5
    <3> HIDE DEF after, all
    <3> QED  BY <1>5, <2>1, <3>1, <3>2, <3>3 DEF after
  <2>2. CASE ~TargetReached(p, p.tp2, price)
    BY <1>5, <2>2 DEF AfterTick
  <2> QED  BY <2>1, <2>2
<1> QED  BY <1>2, <1>3, <1>4, <1>5

(* What a tick never changes: the size the fill gave. *)
LEMMA TickKeepsTotal ==
  ASSUME NEW p, NEW price, NEW pos \in Positions, pos.total \in Even, Shape(pos)
  PROVE  AfterTick(p, pos, price).total = pos.total
<1> DEFINE after == AfterTick(p, pos, price)
<1>1. after = pos \/ SameFills(pos, after)
  BY TickIs
<1> HIDE DEF after
<1>2. after.total = pos.total
  BY <1>1 DEF SameFills
<1> QED  BY <1>2 DEF after

-----------------------------------------------------------------------------
(* The journal tells the position. *)

PositionEvents ==
  {"POSITION_OPENED", "FILL_APPLIED", "TP1_PARTIAL_CLOSE", "TP2_FULL_CLOSE", "STOP_TRIGGERED"}

LastKind(pos) == IF pos.status = "OPEN" THEN "FILL_APPLIED" ELSE EventKind(pos)

Tally(history, pos) ==
  /\ CountIn(history, "POSITION_OPENED") = 1
  /\ CountIn(history, "FILL_APPLIED") = pos.filled
  /\ CountIn(history, "TP1_PARTIAL_CLOSE") = (IF pos.tp1Hit THEN 1 ELSE 0)
  /\ CountIn(history, "TP2_FULL_CLOSE") = (IF pos.status = "CLOSED" THEN 1 ELSE 0)
  /\ CountIn(history, "STOP_TRIGGERED") = (IF pos.status = "STOPPED" THEN 1 ELSE 0)
  /\ Last(history) = LastKind(pos)

Told(history, pos) ==
  /\ pos \in Positions /\ pos.total \in Even /\ Shape(pos)
  /\ Tally(history, pos)

JournalInv ==
  /\ journal \in Seq(Events)
  /\ position = NoPosition => \A kind \in PositionEvents : CountIn(journal, kind) = 0
  /\ position # NoPosition => Told(journal, position)

LEMMA ShapedIsPosition == \A pos : Shape(pos) => pos # NoPosition
BY DEF Shape, NoPosition

LEMMA NothingCounts == ASSUME NEW kind PROVE CountIn(<<>>, kind) = 0
<1>1. {i \in DOMAIN <<>> : <<>>[i] = kind} = {}
  OBVIOUS
<1> QED  BY <1>1, FS_EmptySet DEF CountIn

LEMMA FillCounts ==
  ASSUME NEW history \in Seq(Events), NEW kind \in PositionEvents, NEW n \in {1, 2}
  PROVE  LET longer == history \o [i \in 1..n |-> "FILL_APPLIED"] IN
         /\ longer \in Seq(Events) /\ Last(longer) = "FILL_APPLIED"
         /\ CountIn(longer, kind)
              = CountIn(history, kind) + (IF kind = "FILL_APPLIED" THEN n ELSE 0)
<1> DEFINE fill == "FILL_APPLIED"
           one == Append(history, fill)
           two == Append(one, fill)
           longer == history \o [i \in 1..n |-> fill]
           more == IF fill = kind THEN 1 ELSE 0
<1>1. fill \in Events
  BY DEF Events
<1> HIDE DEF fill
<1>2. (n = 1 => longer = one) /\ (n = 2 => longer = two)
  BY <1>1, AllFilled
<1>3. /\ one \in Seq(Events) /\ Last(one) = fill /\ CountIn(history, kind) \in Nat
      /\ CountIn(one, kind) = CountIn(history, kind) + more
  BY <1>1, CountGrows
<1> HIDE DEF one
<1>4. /\ two \in Seq(Events) /\ Last(two) = fill
      /\ CountIn(two, kind) = CountIn(one, kind) + more
  BY <1>1, <1>3, CountGrows
<1> HIDE DEF two
<1>5. /\ longer \in Seq(Events) /\ Last(longer) = fill
      /\ CountIn(longer, kind) = CountIn(history, kind) + (IF kind = fill THEN n ELSE 0)
  <2> HIDE DEF longer
  <2>1. CASE n = 1
    BY <1>2, <1>3, <2>1
  <2>2. CASE n = 2
    BY <1>2, <1>3, <1>4, <2>2
  <2> QED  BY <2>1, <2>2
<1> QED  BY <1>5 DEF fill

(* A position opened is told by its journal. *)
LEMMA OpenedIsTold ==
  ASSUME NEW p \in Proposals, Len(p.legs) \in {1, 2}
  PROVE  LET longer == <<"POSITION_OPENED">> \o [i \in 1..Len(p.legs) |-> "FILL_APPLIED"] IN
         longer \in Seq(Events) /\ Told(longer, Filled(p))
<1> DEFINE opened == <<"POSITION_OPENED">>
           n == Len(p.legs)
           longer == opened \o [i \in 1..n |-> "FILL_APPLIED"]
           pos == Filled(p)
<1>1. opened \in Seq(Events)
  BY DEF Events
<1>2. ASSUME NEW kind \in PositionEvents
      PROVE  CountIn(opened, kind) = IF kind = "POSITION_OPENED" THEN 1 ELSE 0
  <2>1. opened = Append(<<>>, "POSITION_OPENED") /\ <<>> \in Seq(Events)
    OBVIOUS
  <2>2. "POSITION_OPENED" \in Events /\ CountIn(<<>>, kind) = 0
    BY NothingCounts DEF Events
  <2> HIDE DEF opened
  <2>3. CountIn(opened, kind) = CountIn(<<>>, kind) + (IF "POSITION_OPENED" = kind THEN 1 ELSE 0)
    BY <2>1, <2>2, CountGrows
  <2> QED  BY <2>2, <2>3
<1>3. n \in {1, 2}
  OBVIOUS
<1> HIDE DEF opened, n
<1>4. longer \in Seq(Events) /\ Last(longer) = "FILL_APPLIED"
  <2>1. "FILL_APPLIED" \in PositionEvents
    BY DEF PositionEvents
  <2> QED  BY <1>1, <1>3, <2>1, FillCounts
<1>5. ASSUME NEW kind \in PositionEvents
      PROVE  CountIn(longer, kind) = (IF kind = "POSITION_OPENED" THEN 1 ELSE 0)
                                       + (IF kind = "FILL_APPLIED" THEN n ELSE 0)
  <2>1. CountIn(longer, kind)
          = CountIn(opened, kind) + (IF kind = "FILL_APPLIED" THEN n ELSE 0)
    BY <1>1, <1>3, FillCounts
  <2> HIDE DEF longer
  <2> QED  BY <1>2, <2>1
<1> HIDE DEF longer
<1>6. /\ pos \in Positions /\ pos.status = "OPEN" /\ pos.tp1Hit = FALSE
      /\ pos.filled = n /\ pos.total \in Even /\ pos.remaining = pos.total
  BY FilledIs DEF n
<1> HIDE DEF pos
<1>7. Tally(longer, pos)
  <2>1. {"POSITION_OPENED", "FILL_APPLIED", "TP1_PARTIAL_CLOSE", "TP2_FULL_CLOSE",
         "STOP_TRIGGERED"} \subseteq PositionEvents
    BY DEF PositionEvents
  <2>2. CountIn(longer, "POSITION_OPENED") = 1 + 0
    BY <1>5, <2>1
  <2>3. CountIn(longer, "FILL_APPLIED") = 0 + n
    BY <1>5, <2>1
  <2>4. /\ CountIn(longer, "TP1_PARTIAL_CLOSE") = 0 + 0
        /\ CountIn(longer, "TP2_FULL_CLOSE") = 0 + 0
        /\ CountIn(longer, "STOP_TRIGGERED") = 0 + 0
    BY <1>5, <2>1
  <2>5. Last(longer) = LastKind(pos)
    BY <1>4, <1>6 DEF LastKind
  <2>6. n \in Int
    BY <1>3
  <2> QED  BY <1>6, <2>2, <2>3, <2>4, <2>5, <2>6 DEF Tally
<1> QED  BY <1>4, <1>6, <1>7 DEF Told, Shape, longer, opened, n, pos

(* So is a position that a tick has changed. *)
LEMMA TickIsTold ==
  ASSUME NEW history \in Seq(Events), NEW p, NEW price, NEW pos, Told(history, pos),
         AfterTick(p, pos, price) # pos
  PROVE  LET after == AfterTick(p, pos, price)
             longer == Append(history, EventKind(after))
         IN  /\ after.status # pos.status
             /\ longer \in Seq(Events) /\ Told(longer, after)
<1> DEFINE after == AfterTick(p, pos, price)
           kind == EventKind(after)
           longer == Append(history, kind)
<1>1. /\ pos \in Positions /\ pos.total \in Even /\ Shape(pos) /\ Tally(history, pos)
      /\ pos.remaining \in Int /\ pos.tp1Hit \in BOOLEAN
  BY DEF Told, Positions
<1>2. \/ /\ pos.remaining > 0
         /\ SameFills(pos, after) /\ after.tp1Hit = pos.tp1Hit
         /\ after.status = "STOPPED" /\ after.remaining = 0
      \/ /\ pos.remaining > 0 /\ pos.status = "OPEN"
         /\ SameFills(pos, after) /\ after.tp1Hit = TRUE
         /\ after.status = "PARTIALLY_CLOSED" /\ 2 * after.remaining = pos.total
      \/ /\ pos.remaining > 0
         /\ SameFills(pos, after) /\ after.tp1Hit = pos.tp1Hit
         /\ after.status = "CLOSED" /\ after.remaining = 0
  BY <1>1, TickIs
<1> HIDE DEF after
<1>3. /\ pos.status \in {"OPEN", "PARTIALLY_CLOSED"}
      /\ pos.status = "OPEN" => ~pos.tp1Hit
      /\ pos.status = "PARTIALLY_CLOSED" => pos.tp1Hit
  BY <1>1, <1>2 DEF Shape
<1>4. after.status # pos.status
  BY <1>2, <1>3
<1>5. /\ kind \in Events
      /\ after.status = "STOPPED" => kind = "STOP_TRIGGERED"
      /\ after.status = "PARTIALLY_CLOSED" => kind = "TP1_PARTIAL_CLOSE"
      /\ after.status = "CLOSED" => kind = "TP2_FULL_CLOSE"
  BY <1>2 DEF EventKind, Events
<1>6. LastKind(after) = kind
  BY <1>2 DEF LastKind
<1> HIDE DEF kind
<1>7. longer \in Seq(Events) /\ Last(longer) = kind
  BY <1>5, CountGrows
<1>8. ASSUME NEW k
      PROVE  CountIn(longer, k) = CountIn(history, k) + (IF kind = k THEN 1 ELSE 0)
             /\ CountIn(history, k) \in Nat
  BY <1>5, CountGrows
<1> HIDE DEF longer
<1>9. after \in Positions /\ after.total = pos.total /\ after.filled = pos.filled
  BY <1>2 DEF SameFills
<1>10. Shape(after)
  BY <1>2, <1>3, <1>9 DEF Shape
<1>11. /\ CountIn(longer, "POSITION_OPENED") = 1
       /\ CountIn(longer, "FILL_APPLIED") = after.filled
  <2>1. kind # "POSITION_OPENED" /\ kind # "FILL_APPLIED"
    BY <1>2, <1>5
  <2>2. CountIn(longer, "POSITION_OPENED") = CountIn(history, "POSITION_OPENED") + 0
    BY <1>8, <2>1
  <2>3. CountIn(longer, "FILL_APPLIED") = CountIn(history, "FILL_APPLIED") + 0
    BY <1>8, <2>1
  <2>4. CountIn(history, "FILL_APPLIED") \in Nat
    BY <1>8
  <2> QED  BY <1>1, <1>9, <2>2, <2>3, <2>4 DEF Tally
<1>12. /\ CountIn(longer, "TP1_PARTIAL_CLOSE") = (IF after.tp1Hit THEN 1 ELSE 0)
       /\ CountIn(longer, "TP2_FULL_CLOSE") = (IF after.status = "CLOSED" THEN 1 ELSE 0)
       /\ CountIn(longer, "STOP_TRIGGERED") = (IF after.status = "STOPPED" THEN 1 ELSE 0)
  <2> DEFINE c(k) == CountIn(history, k)
             d(k) == CountIn(longer, k)
  <2>1. /\ c("TP1_PARTIAL_CLOSE") = (IF pos.tp1Hit THEN 1 ELSE 0)
        /\ c("TP2_FULL_CLOSE") = 0 /\ c("STOP_TRIGGERED") = 0
    BY <1>1, <1>3 DEF Tally
  <2>2. /\ d("TP1_PARTIAL_CLOSE") = c("TP1_PARTIAL_CLOSE")
             + (IF kind = "TP1_PARTIAL_CLOSE" THEN 1 ELSE 0)
        /\ d("TP2_FULL_CLOSE") = c("TP2_FULL_CLOSE") + (IF kind = "TP2_FULL_CLOSE" THEN 1 ELSE 0)
        /\ d("STOP_TRIGGERED") = c("STOP_TRIGGERED") + (IF kind = "STOP_TRIGGERED" THEN 1 ELSE 0)
    BY <1>8
  <2> HIDE DEF c, d
  <2>3. /\ d("TP1_PARTIAL_CLOSE") = (IF after.tp1Hit THEN 1 ELSE 0)
        /\ d("TP2_FULL_CLOSE") = (IF after.status = "CLOSED" THEN 1 ELSE 0)
        /\ d("STOP_TRIGGERED") = (IF after.status = "STOPPED" THEN 1 ELSE 0)
    <3>1. CASE after.status = "STOPPED"
      BY <1>2, <1>5, <2>1, <2>2, <3>1
    <3>2. CASE after.status = "PARTIALLY_CLOSED"
      BY <1>2, <1>3, <1>5, <2>1, <2>2, <3>2
    <3>3. CASE after.status = "CLOSED"
      BY <1>2, <1>5, <2>1, <2>2, <3>3
    <3> QED  BY <1>2, <3>1, <3>2, <3>3
  <2> QED  BY <2>3 DEF d
<1>13. Told(longer, after)
  <2>1. Last(longer) = LastKind(after)
    BY <1>6, <1>7
  <2>2. Tally(longer, after)
    BY <1>11, <1>12, <2>1 DEF Tally
  <2> QED  BY <1>1, <1>9, <1>10, <2>2 DEF Told
<1> QED  BY <1>4, <1>7, <1>13 DEF after, longer, kind

LEMMA JournalBegins == Init => JournalInv
BY NothingCounts DEF Init, JournalInv

LEMMA JournalStep ==
  ASSUME PaperAssumption, InputsTyped
  PROVE  OfferInv /\ JournalInv /\ [Next]_vars => JournalInv'
<1> SUFFICES ASSUME OfferInv, JournalInv, [Next]_vars PROVE JournalInv'
  OBVIOUS
<1>1. CASE UNCHANGED vars \/ Wait \/ SubmitJson \/ SubmitLive \/ Approve
  BY <1>1 DEF vars, Wait, SubmitJson, SubmitLive, Approve, JournalInv
<1>2. CASE UNCHANGED <<position, journal>>
  BY <1>2 DEF JournalInv
<1>3. CASE Execute /\ ~UNCHANGED <<position, journal>>
  <2>1. offer \in Proposals /\ Len(offer.legs) \in {1, 2}
    BY <1>3 DEF Execute, OfferInv
  <2>2. /\ journal' = <<"POSITION_OPENED">> \o [i \in 1..Len(offer.legs) |-> "FILL_APPLIED"]
        /\ position' = Filled(offer)
    BY <1>3 DEF Execute, Opened
  <2>3. journal' \in Seq(Events) /\ Told(journal', position')
    BY <2>1, <2>2, OpenedIsTold
  <2>4. position' # NoPosition
    BY <2>3, ShapedIsPosition DEF Told
  <2> QED  BY <2>3, <2>4 DEF JournalInv
<1>4. CASE MarketTick
  <2>1. position # NoPosition /\ offer' = offer
    BY <1>4 DEF MarketTick
  <2>2. journal \in Seq(Events) /\ Told(journal, position)
    BY <2>1 DEF JournalInv
  <2>3. PICK price \in TickPrices :
          LET updated == AfterTick(offer, position, price) IN
          /\ position' = updated
          /\ journal' = IF updated.status # position.status
                            \/ updated.remaining # position.remaining
                        THEN Append(journal, EventKind(updated)) ELSE journal
    BY <1>4 DEF MarketTick
  <2>4. CASE position' = position
    <3>1. journal' = journal
      BY <2>3, <2>4
    <3> QED  BY <2>1, <2>4, <3>1 DEF JournalInv
  <2>5. CASE position' # position
    <3>1. /\ position'.status # position.status
          /\ Append(journal, EventKind(position')) \in Seq(Events)
          /\ Told(Append(journal, EventKind(position')), position')
      BY <2>2, <2>3, <2>5, TickIsTold
    <3>2. journal' = Append(journal, EventKind(position'))
      BY <2>3, <3>1
    <3>3. position' # NoPosition
      BY <3>1, ShapedIsPosition DEF Told
    <3> QED  BY <3>1, <3>2, <3>3 DEF JournalInv
  <2> QED  BY <2>4, <2>5
<1> QED  BY <1>1, <1>2, <1>3, <1>4 DEF Next

LEMMA JournalAlways ==
  ASSUME PaperAssumption, InputsTyped
  PROVE  Spec => [](OfferInv /\ JournalInv)
<1>1. OfferInv /\ JournalInv /\ [Next]_vars => OfferInv' /\ JournalInv'
  BY OfferStep, JournalStep
<1>2. Init => OfferInv /\ JournalInv
  BY OfferBegins, JournalBegins
<1> QED  BY <1>1, <1>2, PTL DEF Spec

(* The journal alone tells each position, whatever was submitted, approved *)
(* and ticked: it is opened once and filled leg by leg, takes each profit  *)
(* or its stop at most once, and the last event gives what is left         *)
(* (execution/orchestrator.py).                                            *)
THEOREM JournalAlwaysTells ==
  ASSUME InputsTyped
  PROVE  Spec => []JournalTellsPosition
<1>1. ASSUME OfferInv, JournalInv PROVE JournalTellsPosition
  <2>1. \A kind \in PositionEvents : Count(kind) = CountIn(journal, kind)
    BY DEF Count, CountIn
  <2>2. {"POSITION_OPENED", "FILL_APPLIED", "TP1_PARTIAL_CLOSE", "TP2_FULL_CLOSE",
         "STOP_TRIGGERED"} \subseteq PositionEvents
    BY DEF PositionEvents
  <2>3. CASE position = NoPosition
    <3>1. /\ Count("POSITION_OPENED") = 0 /\ Count("FILL_APPLIED") = 0
          /\ Count("TP1_PARTIAL_CLOSE") = 0 /\ Count("TP2_FULL_CLOSE") = 0
          /\ Count("STOP_TRIGGERED") = 0
      BY <1>1, <2>1, <2>2, <2>3 DEF JournalInv
    <3>2. position.filled = 0
      BY <2>3 DEF NoPosition
    <3> QED  BY <2>3, <3>1, <3>2 DEF JournalTellsPosition
  <2>4. CASE position # NoPosition
    <3>1. Shape(position) /\ Tally(journal, position)
          /\ position.remaining \in Int /\ position.tp1Hit \in BOOLEAN
      BY <1>1, <2>4 DEF JournalInv, OfferInv, Told, Positions
    <3>2. /\ Count("POSITION_OPENED") = 1 /\ Count("FILL_APPLIED") = position.filled
          /\ Count("TP1_PARTIAL_CLOSE") = (IF position.tp1Hit THEN 1 ELSE 0)
          /\ Count("TP2_FULL_CLOSE") = (IF position.status = "CLOSED" THEN 1 ELSE 0)
          /\ Count("STOP_TRIGGERED") = (IF position.status = "STOPPED" THEN 1 ELSE 0)
      BY <2>1, <2>2, <3>1 DEF Tally
    <3>3. Last(journal) = LastKind(position)
      BY <3>1 DEF Tally
    <3>4. (CASE Last(journal) = "FILL_APPLIED" ->
                  position.status = "OPEN" /\ position.remaining = position.total
             [] Last(journal) = "TP1_PARTIAL_CLOSE" ->
                  position.status = "PARTIALLY_CLOSED" /\ 2 * position.remaining = position.total
             [] Last(journal) = "TP2_FULL_CLOSE" ->
                  position.status = "CLOSED" /\ position.remaining = 0
             [] Last(journal) = "STOP_TRIGGERED" ->
                  position.status = "STOPPED" /\ position.remaining = 0
             [] OTHER -> FALSE)
      BY <3>1, <3>3 DEF LastKind, EventKind, Shape
    <3> QED  BY <2>4, <3>1, <3>2, <3>4 DEF JournalTellsPosition
  <2> QED  BY <2>3, <2>4
<1> QED  BY <1>1, JournalAlways, PaperAssumption, PTL

-----------------------------------------------------------------------------
(* The position implements PositionLifecycle.  The contract and the         *)
(* constructors of a JSON payload do not look at the sign of its size and  *)
(* of its legs' shares, and the execution does not validate: the promise   *)
(* of a size that only shrinks is for payloads without negative amounts.   *)

PayloadAmounts == \A p \in Payloads : Amounts(p)

SizeInv ==
  /\ source # "none" => Amounts(offer)
  /\ position # NoPosition => position.total >= 0

LEMMA SizeBegins == Init => SizeInv
BY DEF Init, SizeInv

LEMMA SizeStep ==
  ASSUME PaperAssumption, InputsTyped, PayloadAmounts
  PROVE  OfferInv /\ JournalInv /\ SizeInv /\ [Next]_vars => SizeInv'
<1> SUFFICES ASSUME OfferInv, JournalInv, SizeInv, [Next]_vars PROVE SizeInv'
  OBVIOUS
<1>1. CASE UNCHANGED vars \/ Wait
  BY <1>1 DEF vars, Wait, SizeInv, Amounts
<1>2. CASE SubmitJson
  <2>1. PICK p \in Payloads : offer' = [p EXCEPT !.status = "PENDING_APPROVAL"]
    BY <1>2 DEF SubmitJson
  <2>2. p \in Proposals /\ Amounts(p)
    BY DEF InputsTyped, PayloadsTyped, PayloadAmounts
  <2>3. offer'.legs = p.legs /\ offer'.size = p.size
    BY <2>1, <2>2 DEF Proposals
  <2>4. position' = NoPosition
    BY <1>2 DEF SubmitJson, OfferInv
  <2> QED  BY <2>2, <2>3, <2>4 DEF SizeInv, Amounts
<1>3. CASE SubmitLive
  <2>1. PICK q \in Quotes : offer' = BuildProposal(q, clock)
    BY <1>3 DEF SubmitLive
  <2>2. /\ offer' \in Proposals /\ Len(offer'.legs) = 1
        /\ offer'.size = 8 /\ offer'.legs[1].fraction = 4
    BY <2>1, BuiltTyped DEF InputsTyped, OfferInv
  <2>3. DOMAIN offer'.legs = {1}
    BY <2>2, OneOrTwoLegs DEF Proposals
  <2>4. position' = NoPosition
    BY <1>3 DEF SubmitLive, OfferInv
  <2> QED  BY <2>2, <2>3, <2>4 DEF SizeInv, Amounts
<1>4. CASE Approve \/ Execute
  <2>1. offer \in Proposals /\ Len(offer.legs) \in {1, 2} /\ Amounts(offer)
    BY <1>4 DEF Approve, Execute, OfferInv, SizeInv
  <2>2. position' = position \/ position' = Filled(offer)
    BY <1>4 DEF Approve, Execute, Opened
  <2>3. Amounts(offer')
    <3>1. PICK s \in Statuses : offer' = [offer EXCEPT !.status = s]
      BY <1>4, StatusGiven
    <3>2. offer'.legs = offer.legs /\ offer'.size = offer.size
      BY <2>1, <3>1 DEF Proposals
    <3> QED  BY <2>1, <3>2 DEF Amounts
  <2>4. Filled(offer).total >= 0
    BY <2>1, FilledIs
  <2> QED  BY <2>2, <2>3, <2>4 DEF SizeInv
<1>5. CASE MarketTick
  <2>1. PICK price \in TickPrices : position' = AfterTick(offer, position, price)
    BY <1>5 DEF MarketTick
  <2>2. position # NoPosition /\ UNCHANGED <<offer, source>>
    BY <1>5 DEF MarketTick
  <2>3. position \in Positions /\ position.total \in Even /\ Shape(position)
    BY <2>2 DEF JournalInv, Told
  <2>4. position'.total = position.total
    BY <2>1, <2>3, TickKeepsTotal
  <2>5. position.total >= 0 /\ (source # "none" => Amounts(offer))
    BY <2>2 DEF SizeInv
  <2>6. source' # "none" => Amounts(offer')
    BY <2>2, <2>5
  <2> QED  BY <2>4, <2>5, <2>6 DEF SizeInv
<1> QED  BY <1>1, <1>2, <1>3, <1>4, <1>5 DEF Next

LEMMA LifecycleBegins == Init => Lifecycle!Init
BY DEF Init, Lifecycle!Init, Outcome, NoPosition

LEMMA LifecycleStep ==
  ASSUME PaperAssumption, InputsTyped
  PROVE  OfferInv /\ JournalInv /\ SizeInv /\ SizeInv' /\ [Next]_vars
           => [Lifecycle!Next]_(Lifecycle!vars)
<1> SUFFICES ASSUME OfferInv, JournalInv, SizeInv, SizeInv', [Next]_vars
             PROVE  [Lifecycle!Next]_(Lifecycle!vars)
  OBVIOUS
<1>1. CASE UNCHANGED position
  BY <1>1 DEF Lifecycle!vars, Outcome
<1>2. CASE Execute /\ position' # position
  <2>1. offer \in Proposals /\ Len(offer.legs) \in {1, 2} /\ position = NoPosition
    BY <1>2 DEF Execute, Opened, OfferInv
  <2>2. position' = Filled(offer)
    BY <1>2 DEF Execute, Opened
  <2>3. /\ position' \in Positions /\ position'.status = "OPEN"
        /\ position'.remaining = position'.total
    BY <2>1, <2>2, FilledIs
  <2>4. position' # NoPosition
    BY <2>3 DEF NoPosition
  <2>5. position'.remaining \in Nat
    BY <2>3, <2>4 DEF SizeInv, Positions
  <2>6. Outcome = "none" /\ Outcome' = "open"
    <3>1. Outcome = "none"
      BY <2>1 DEF Outcome, NoPosition
    <3>2. Outcome' = "open"
      BY <2>3, <2>4 DEF Outcome
    <3> QED  BY <3>1, <3>2
  <2> QED  BY <2>5, <2>6 DEF Lifecycle!Next, Lifecycle!Open
<1>3. CASE MarketTick /\ position' # position
  <2>1. PICK price \in TickPrices : position' = AfterTick(offer, position, price)
    BY <1>3 DEF MarketTick
  <2>2. position # NoPosition
    BY <1>3 DEF MarketTick
  <2>3. /\ position \in Positions /\ position.total \in Even /\ Shape(position)
        /\ position.remaining \in Int /\ position.total \in Int
    BY <2>2 DEF JournalInv, Told, Positions
  <2>4. \/ /\ position.remaining > 0
            /\ position'.status = "STOPPED" /\ position'.remaining = 0
        \/ /\ position.remaining > 0 /\ position.status = "OPEN"
            /\ position'.status = "PARTIALLY_CLOSED"
            /\ 2 * position'.remaining = position.total /\ position' \in Positions
        \/ /\ position.remaining > 0
            /\ position'.status = "CLOSED" /\ position'.remaining = 0
    BY <1>3, <2>1, <2>3, TickIs, ZenonT(60) DEF SameFills
  <2>5. position' # NoPosition
    BY <2>4 DEF NoPosition
  <2>6. Outcome = "open"
    BY <2>2, <2>3, <2>4 DEF Outcome, Shape
  <2>7. CASE position'.status \in {"STOPPED", "CLOSED"}
    <3>1. Outcome' \in {"target", "stopped"}
      BY <2>5, <2>7 DEF Outcome
    <3>2. position'.remaining = 0 /\ position.remaining > 0
      BY <2>4, <2>7
    <3> QED  BY <2>6, <3>1, <3>2 DEF Lifecycle!Next, Lifecycle!End
  <2>8. CASE position'.status = "PARTIALLY_CLOSED"
    <3>1. Outcome' = "open"
      BY <2>5, <2>8 DEF Outcome
    <3>2. position.remaining = position.total /\ position.remaining > 0
      BY <2>3, <2>4, <2>8 DEF Shape
    <3>3. position'.remaining \in Int /\ 2 * position'.remaining = position.total
      BY <2>4, <2>8 DEF Positions
    <3>4. position'.remaining \in 1..(position.remaining - 1)
      BY <2>3, <3>2, <3>3
    <3> QED  BY <2>6, <3>1, <3>4 DEF Lifecycle!Next, Lifecycle!Reduce
  <2> QED  BY <2>4, <2>7, <2>8
<1>4. CASE Wait \/ SubmitJson \/ SubmitLive \/ Approve
  BY <1>1, <1>4 DEF Wait, SubmitJson, SubmitLive, Approve
<1>5. CASE UNCHANGED vars
  BY <1>1, <1>5 DEF vars
<1> QED  BY <1>1, <1>2, <1>3, <1>4, <1>5 DEF Next

(* A simulated position keeps the lifecycle it promises, for payloads    *)
(* without negative amounts: it is opened once, its size only shrinks, and *)
(* a stop or a last target is final (simulator/models.py Position).        *)
THEOREM ImplementsLifecycle ==
  ASSUME InputsTyped, PayloadAmounts
  PROVE  Spec => LifecycleSpec
<1> DEFINE Inv == OfferInv /\ JournalInv /\ SizeInv
<1>1. Init => Inv
  BY OfferBegins, JournalBegins, SizeBegins
<1>2. Inv /\ [Next]_vars => Inv'
  BY OfferStep, JournalStep, SizeStep, PaperAssumption
<1>3. Inv /\ Inv' /\ [Next]_vars => [Lifecycle!Next]_(Lifecycle!vars)
  BY LifecycleStep, PaperAssumption
<1>4. Init => Lifecycle!Init
  BY LifecycleBegins
<1> HIDE DEF Inv
<1> QED  BY <1>1, <1>2, <1>3, <1>4, PTL DEF Spec, LifecycleSpec, Lifecycle!Spec

-----------------------------------------------------------------------------
(* What the validator accepts: its checks as conditions. *)

LegOutside(p, leg) == leg.price \notin p.zoneMin..p.zoneMax \/ leg.validUntil > p.expires

Basics(p, entry, now) ==
  /\ ~(p.expires <= now)
  /\ SymbolEligibility(entry, now) = "ELIGIBLE"
  /\ ~(p.confidence < MinConfidence)
  /\ ~(p.stop <= 0) /\ ~(p.size <= 0) /\ ~(p.risk <= 0 \/ p.riskUsd <= 0) /\ ~(p.freshness < 0)
  /\ ~(Len(p.legs) > 2)
  /\ Fractions(p) = 4 /\ Allocations(p) = 4
  /\ \A i \in DOMAIN p.legs : ~LegOutside(p, p.legs[i])

Ladder(p) ==
  IF p.side = "LONG"
    THEN ~(p.stop >= p.zoneMin) /\ ~(p.tp1 * Fractions(p) <= Weighted(p) \/ p.tp2 <= p.tp1)
    ELSE ~(p.stop <= p.zoneMax) /\ ~(p.tp1 * Fractions(p) >= Weighted(p) \/ p.tp2 >= p.tp1)

Distances(p) ==
  /\ 0 \notin {Distance(p.tp1, p), Distance(p.tp2, p), Distance(p.stop, p)}
  /\ ~(2 * Distance(p.tp1, p) < Distance(p.stop, p))

LEMMA ValidatorOK ==
  ASSUME NEW p, NEW entry, NEW now
  PROVE  ValidatorReason(p, entry, now) = "OK"
           <=> Basics(p, entry, now) /\ Ladder(p) /\ Distances(p)
<1> DEFINE eligibility == SymbolEligibility(entry, now)
           outside == Some(p.legs, LAMBDA leg : leg.price \notin p.zoneMin..p.zoneMax
                                                  \/ leg.validUntil > p.expires)
           a == <<Check(p.expires <= now, "PROPOSAL_EXPIRED"),
                  Check(eligibility = "STALE", "STALE_MARKET_DATA"),
                  Check(eligibility # "ELIGIBLE", "INSTRUMENT_NOT_ELIGIBLE"),
                  Check(p.confidence < MinConfidence, "CONFIDENCE_TOO_LOW"),
                  Check(p.stop <= 0, "STOP_LOSS_INVALID"),
                  Check(p.size <= 0, "POSITION_SIZE_INVALID"),
                  Check(p.risk <= 0 \/ p.riskUsd <= 0, "RISK_CALCULATION_MISMATCH"),
                  Check(p.freshness < 0, "STALE_MARKET_DATA"),
                  Check(Len(p.legs) > 2, "ENTRY_SPLIT_INVALID"),
                  Check(Fractions(p) # 4 \/ Allocations(p) # 4, "ENTRY_SPLIT_INVALID"),
                  Check(outside, "ENTRY_SPLIT_INVALID")>>
           b == IF p.side = "LONG" THEN LongLadder(p) ELSE ShortLadder(p)
           c == <<Check(0 \in {Distance(p.tp1, p), Distance(p.tp2, p), Distance(p.stop, p)},
                        "RISK_CALCULATION_MISMATCH"),
                  Check(2 * Distance(p.tp1, p) < Distance(p.stop, p), "RISK_CALCULATION_MISMATCH")>>
           S == {a[i] : i \in 1..11} \union {b[i] : i \in 1..2} \union {c[i] : i \in 1..2}
<1>1. ValidatorReason(p, entry, now) = FirstFailure((a \o b) \o c)
  BY DEF ValidatorReason, Allocations
<1>2. outside <=> \E i \in DOMAIN p.legs : LegOutside(p, p.legs[i])
  BY DEF Some, LegOutside
<1> HIDE DEF outside, eligibility
<1>3. /\ a[1].fails <=> p.expires <= now
      /\ a[2].fails <=> eligibility = "STALE"
      /\ a[3].fails <=> eligibility # "ELIGIBLE"
      /\ a[4].fails <=> p.confidence < MinConfidence
      /\ a[5].fails <=> p.stop <= 0
      /\ a[6].fails <=> p.size <= 0
      /\ a[7].fails <=> (p.risk <= 0 \/ p.riskUsd <= 0)
      /\ a[8].fails <=> p.freshness < 0
      /\ a[9].fails <=> Len(p.legs) > 2
      /\ a[10].fails <=> (Fractions(p) # 4 \/ Allocations(p) # 4)
      /\ a[11].fails <=> outside
  BY DEF Check
<1>4. /\ p.side = "LONG" =>
           /\ b[1].fails <=> p.stop >= p.zoneMin
           /\ b[2].fails <=> (p.tp1 * Fractions(p) <= Weighted(p) \/ p.tp2 <= p.tp1)
      /\ p.side # "LONG" =>
           /\ b[1].fails <=> p.stop <= p.zoneMax
           /\ b[2].fails <=> (p.tp1 * Fractions(p) >= Weighted(p) \/ p.tp2 >= p.tp1)
  BY DEF LongLadder, ShortLadder, Check
<1>5. /\ c[1].fails <=> 0 \in {Distance(p.tp1, p), Distance(p.tp2, p), Distance(p.stop, p)}
      /\ c[2].fails <=> 2 * Distance(p.tp1, p) < Distance(p.stop, p)
  BY DEF Check
<1>6. \A check \in S : check.reason # "OK"
  <2>1. \A i \in 1..11 : a[i].reason # "OK"
    BY DEF Check
  <2>2. \A i \in 1..2 : b[i].reason # "OK"
    BY DEF LongLadder, ShortLadder, Check
  <2>3. \A i \in 1..2 : c[i].reason # "OK"
    BY DEF Check
  <2> HIDE DEF a, b, c
  <2> QED  BY <2>1, <2>2, <2>3
<1>7. Len(a) = 11 /\ Len(b) = 2 /\ Len(c) = 2
  BY DEF LongLadder, ShortLadder
<1>8. a \in Seq(S) /\ b \in Seq(S) /\ c \in Seq(S)
  <2>1. a = [i \in 1..11 |-> a[i]] /\ c = [i \in 1..2 |-> c[i]]
    OBVIOUS
  <2>2. b = [i \in 1..2 |-> b[i]]
    BY DEF LongLadder, ShortLadder
  <2> HIDE DEF a, b, c
  <2> QED  BY <1>7, <2>1, <2>2, IsASeq
<1> HIDE DEF a, b, c, S
<1>9. (a \o b) \o c = a \o (b \o c)
  BY <1>8, ConcatAssociative
<1>10. ValidatorReason(p, entry, now) = "OK"
         <=> /\ \A i \in 1..11 : ~a[i].fails
             /\ \A i \in 1..2 : ~b[i].fails
             /\ \A i \in 1..2 : ~c[i].fails
  <2>1. ValidatorReason(p, entry, now) = FirstFailure(a \o (b \o c))
    BY <1>1, <1>9
  <2>2. FirstFailure(a \o (b \o c)) = "OK"
          <=> /\ \A i \in 1..Len(a) : ~a[i].fails
              /\ \A i \in 1..Len(b) : ~b[i].fails
              /\ \A i \in 1..Len(c) : ~c[i].fails
    BY <1>6, <1>8, ThreeListsOK
  <2> QED  BY <1>7, <2>1, <2>2
<1>11. (\A i \in 1..11 : ~a[i].fails) <=> Basics(p, entry, now)
  <2>1. eligibility = "ELIGIBLE" => eligibility # "STALE"
    OBVIOUS
  <2>2. (\A i \in 1..11 : ~a[i].fails) <=>
          /\ ~a[1].fails /\ ~a[2].fails /\ ~a[3].fails /\ ~a[4].fails /\ ~a[5].fails
          /\ ~a[6].fails /\ ~a[7].fails /\ ~a[8].fails /\ ~a[9].fails /\ ~a[10].fails
          /\ ~a[11].fails
    <3>1. \A i \in 1..11 : \/ i = 1 \/ i = 2 \/ i = 3 \/ i = 4 \/ i = 5 \/ i = 6 \/ i = 7
                           \/ i = 8 \/ i = 9 \/ i = 10 \/ i = 11
      OBVIOUS
    <3>2. {1, 2, 3, 4, 5, 6, 7, 8, 9, 10, 11} \subseteq 1..11
      OBVIOUS
    <3> QED  BY <3>1, <3>2
  <2> QED  BY <1>2, <1>3, <2>1, <2>2, Zenon DEF Basics, eligibility
<1>12. (\A i \in 1..2 : ~b[i].fails) <=> Ladder(p)
  <2>1. (\A i \in 1..2 : ~b[i].fails) <=> ~b[1].fails /\ ~b[2].fails
    <3>1. \A i \in 1..2 : i = 1 \/ i = 2
      OBVIOUS
    <3>2. 1 \in 1..2 /\ 2 \in 1..2
      OBVIOUS
    <3> QED  BY <3>1, <3>2
  <2> QED  BY <1>4, <2>1, Zenon DEF Ladder
<1>13. (\A i \in 1..2 : ~c[i].fails) <=> Distances(p)
  <2>1. (\A i \in 1..2 : ~c[i].fails) <=> ~c[1].fails /\ ~c[2].fails
    <3>1. \A i \in 1..2 : i = 1 \/ i = 2
      OBVIOUS
    <3>2. 1 \in 1..2 /\ 2 \in 1..2
      OBVIOUS
    <3> QED  BY <3>1, <3>2
  <2> QED  BY <1>5, <2>1, Zenon DEF Distances
<1> QED  BY <1>10, <1>11, <1>12, <1>13

NoNegativeLeg(p) == \A i \in DOMAIN p.legs : p.legs[i].fraction >= 0

(* The entry price of a validated proposal without negative shares, four    *)
(* times over, is in its zone.                                              *)
LEMMA EntryInZone ==
  ASSUME NEW p \in Proposals, Len(p.legs) \in {1, 2}, NoNegativeLeg(p),
         Fractions(p) = 4, \A i \in DOMAIN p.legs : ~LegOutside(p, p.legs[i])
  PROVE  Weighted(p) \in Int /\ 4 * p.zoneMin <= Weighted(p) /\ Weighted(p) <= 4 * p.zoneMax
<1> DEFINE low == p.zoneMin
           high == p.zoneMax
<1>1. low \in Int /\ high \in Int /\ p.legs \in Seq(Leg)
  BY DEF Proposals
<1>2. ASSUME NEW i \in DOMAIN p.legs
      PROVE  /\ p.legs[i].price \in Int /\ p.legs[i].fraction \in Int
             /\ low <= p.legs[i].price /\ p.legs[i].price <= high /\ p.legs[i].fraction >= 0
  <2>1. p.legs[i] \in Leg
    BY <1>1
  <2>2. p.legs[i].price \in p.zoneMin..p.zoneMax
    BY DEF LegOutside
  <2>3. p.legs[i].fraction >= 0
    BY DEF NoNegativeLeg
  <2> QED  BY <1>1, <2>1, <2>2, <2>3 DEF Leg
<1> HIDE DEF low, high
<1>3. CASE Len(p.legs) = 1
  <2>1. 1 \in DOMAIN p.legs
    BY <1>1, <1>3, OneOrTwoLegs
  <2> DEFINE x == p.legs[1].price
             f == p.legs[1].fraction
  <2>2. Weighted(p) = x * f /\ f = 4 /\ x \in Int /\ low <= x /\ x <= high
    BY <1>2, <1>3, <2>1, SumsOfLegs
  <2> HIDE DEF x, f
  <2>3. Weighted(p) = x * 4
    BY <2>2
  <2> QED  BY <1>1, <2>2, <2>3 DEF low, high
<1>4. CASE Len(p.legs) = 2
  <2>1. 1 \in DOMAIN p.legs /\ 2 \in DOMAIN p.legs
    BY <1>1, <1>4, OneOrTwoLegs
  <2> DEFINE x == p.legs[1].price
             f == p.legs[1].fraction
             y == p.legs[2].price
             g == p.legs[2].fraction
  <2>2. /\ Weighted(p) = x * f + y * g /\ f + g = 4
        /\ x \in Int /\ low <= x /\ x <= high /\ y \in Int /\ low <= y /\ y <= high
        /\ f \in Int /\ g \in Int /\ f >= 0 /\ g >= 0
    BY <1>2, <1>4, <2>1, SumsOfLegs
  <2> HIDE DEF x, f, y, g
  <2>3. f \in {0, 1, 2, 3, 4} /\ g = 4 - f
    BY <2>2
  <2>4. \/ Weighted(p) = x * 0 + y * 4 \/ Weighted(p) = x * 1 + y * 3
        \/ Weighted(p) = x * 2 + y * 2 \/ Weighted(p) = x * 3 + y * 1
        \/ Weighted(p) = x * 4 + y * 0
    <3>1. f = 0 => g = 4
      BY <2>2
    <3>2. f = 1 => g = 3
      BY <2>2
    <3>3. f = 2 => g = 2
      BY <2>2
    <3>4. f = 3 => g = 1
      BY <2>2
    <3>5. f = 4 => g = 0
      BY <2>2
    <3> QED  BY <2>2, <2>3, <3>1, <3>2, <3>3, <3>4, <3>5
  <2> QED  BY <1>1, <2>2, <2>4 DEF low, high
<1> QED  BY <1>3, <1>4

TargetsInOrder(p) == IF p.side = "LONG" THEN p.tp1 < p.tp2 ELSE p.tp2 < p.tp1
StopApart(p) == IF p.side = "LONG" THEN p.stop < p.tp1 ELSE p.tp1 < p.stop

LEMMA ValidatedLadder ==
  ASSUME NEW p \in Proposals, Len(p.legs) \in {1, 2}, NEW entry, NEW now,
         ValidatorReason(p, entry, now) = "OK"
  PROVE  TargetsInOrder(p) /\ (NoNegativeLeg(p) => StopApart(p))
<1>1. Basics(p, entry, now) /\ Ladder(p)
  BY ValidatorOK
<1>2. p.stop \in Int /\ p.tp1 \in Int /\ p.tp2 \in Int /\ p.zoneMin \in Int /\ p.zoneMax \in Int
  BY DEF Proposals
<1>3. TargetsInOrder(p)
  BY <1>1, <1>2 DEF Ladder, TargetsInOrder
<1>4. ASSUME NoNegativeLeg(p) PROVE StopApart(p)
  <2>1. /\ Fractions(p) = 4
        /\ Weighted(p) \in Int /\ 4 * p.zoneMin <= Weighted(p) /\ Weighted(p) <= 4 * p.zoneMax
    BY <1>1, <1>4, EntryInZone DEF Basics
  <2>2. IF p.side = "LONG"
          THEN p.stop < p.zoneMin /\ p.tp1 * 4 > Weighted(p)
          ELSE p.stop > p.zoneMax /\ p.tp1 * 4 < Weighted(p)
    BY <1>1, <1>2, <2>1 DEF Ladder
  <2>3. CASE p.side = "LONG"
    BY <1>2, <2>1, <2>2, <2>3 DEF StopApart
  <2>4. CASE p.side # "LONG"
    BY <1>2, <2>1, <2>2, <2>4 DEF StopApart
  <2> QED  BY <2>3, <2>4
<1> QED  BY <1>3, <1>4

(* A position that ends at its second target without the first one had its *)
(* targets the wrong way round.                                            *)
OrderInv ==
  (position # NoPosition /\ position.status = "CLOSED" /\ TargetsInOrder(offer)) => position.tp1Hit

LEMMA TickPricesTyped ==
  ASSUME InputsTyped, OfferInv, source # "none"
  PROVE  TickPrices \subseteq Int
<1>1. offer \in Proposals /\ Prices \subseteq Int
  BY DEF InputsTyped, OfferInv
<1>2. offer.stop \in Int /\ offer.zoneMax \in Int /\ offer.tp1 \in Int /\ offer.tp2 \in Int
  BY <1>1 DEF Proposals
<1>3. {offer.stop, offer.zoneMax, offer.tp1, offer.tp2} \subseteq Int
  BY <1>2
<1> QED  BY <1>1, <1>3 DEF TickPrices

LEMMA OrderStep ==
  ASSUME PaperAssumption, InputsTyped
  PROVE  OfferInv /\ JournalInv /\ OrderInv /\ [Next]_vars => OrderInv'
<1> SUFFICES ASSUME OfferInv, JournalInv, OrderInv, [Next]_vars PROVE OrderInv'
  OBVIOUS
<1>1. CASE UNCHANGED vars \/ Wait
  BY <1>1 DEF vars, Wait, OrderInv, TargetsInOrder
<1>2. CASE SubmitJson \/ SubmitLive
  BY <1>2 DEF SubmitJson, SubmitLive, OfferInv, OrderInv
<1>3. CASE Approve \/ Execute
  <2>1. offer \in Proposals /\ Len(offer.legs) \in {1, 2}
    BY <1>3 DEF Approve, Execute, OfferInv
  <2>2. position' = position \/ position' = Filled(offer)
    BY <1>3 DEF Approve, Execute, Opened
  <2>3. Filled(offer).status = "OPEN"
    BY <2>1, FilledIs
  <2>4. TargetsInOrder(offer') <=> TargetsInOrder(offer)
    <3>1. PICK s \in Statuses : offer' = [offer EXCEPT !.status = s]
      BY <1>3, StatusGiven
    <3>2. offer'.side = offer.side /\ offer'.tp1 = offer.tp1 /\ offer'.tp2 = offer.tp2
      BY <2>1, <3>1 DEF Proposals
    <3> QED  BY <3>2 DEF TargetsInOrder
  <2> QED  BY <2>2, <2>3, <2>4 DEF OrderInv
<1>4. CASE MarketTick
  <2>1. PICK price \in TickPrices : position' = AfterTick(offer, position, price)
    BY <1>4 DEF MarketTick
  <2>2. position # NoPosition /\ offer' = offer /\ source # "none"
    BY <1>4 DEF MarketTick, OfferInv
  <2>3. position \in Positions /\ position.total \in Even /\ Shape(position)
    BY <2>2 DEF JournalInv, Told
  <2>4. \/ position' = position
        \/ position'.status # "CLOSED"
        \/ /\ position'.tp1Hit = position.tp1Hit
           /\ TargetReached(offer, offer.tp2, price)
           /\ position.tp1Hit \/ ~TargetReached(offer, offer.tp1, price)
    BY <2>1, <2>3, TickIs, ZenonT(60)
  <2>5. CASE position' = position
    BY <2>2, <2>5 DEF OrderInv, TargetsInOrder
  <2>6. CASE position'.status # "CLOSED"
    BY <2>6 DEF OrderInv
  <2>7. CASE /\ position'.tp1Hit = position.tp1Hit
             /\ TargetReached(offer, offer.tp2, price)
             /\ position.tp1Hit \/ ~TargetReached(offer, offer.tp1, price)
    <3>1. offer.tp1 \in Int /\ offer.tp2 \in Int /\ price \in Int
      BY <2>2, TickPricesTyped DEF OfferInv, Proposals
    <3>2. TargetsInOrder(offer) => TargetReached(offer, offer.tp1, price)
      BY <2>7, <3>1 DEF TargetsInOrder, TargetReached
    <3>3. TargetsInOrder(offer') => position'.tp1Hit
      BY <2>2, <2>7, <3>2
    <3> QED  BY <3>3 DEF OrderInv
  <2> QED  BY <2>4, <2>5, <2>6, <2>7
<1> QED  BY <1>1, <1>2, <1>3, <1>4 DEF Next

(* A proposal that the validator accepts takes its profits in order, and,  *)
(* without a negative share among its legs, no price decides by the order  *)
(* of the checks between its stop and its targets                          *)
(* (decision_contracts/validator.py, simulator/service.py).                *)
THEOREM ValidatedLadderAlwaysInOrder ==
  ASSUME InputsTyped
  PROVE  Spec => []ValidatedLadderInOrder
<1> DEFINE Inv == OfferInv /\ JournalInv /\ OrderInv
<1>1. Init => Inv
  <2>1. Init => OrderInv
    BY DEF Init, OrderInv
  <2> QED  BY <2>1, OfferBegins, JournalBegins
<1>2. Inv /\ [Next]_vars => Inv'
  BY OfferStep, JournalStep, OrderStep, PaperAssumption
<1>3. ASSUME OfferInv, JournalInv, OrderInv PROVE ValidatedLadderInOrder
  <2> SUFFICES ASSUME source # "none", PassesValidator
               PROVE  /\ Count("TP2_FULL_CLOSE") = 1 => Count("TP1_PARTIAL_CLOSE") = 1
                      /\ NoNegativeLeg(offer) =>
                           \A price \in TickPrices :
                             StopReached(offer, price) =>
                               /\ ~TargetReached(offer, offer.tp1, price)
                               /\ ~TargetReached(offer, offer.tp2, price)
    BY DEF ValidatedLadderInOrder, NoNegativeLeg
  <2>1. offer \in Proposals /\ Len(offer.legs) \in {1, 2}
    BY <1>3 DEF OfferInv
  <2>2. TargetsInOrder(offer) /\ (NoNegativeLeg(offer) => StopApart(offer))
    BY <2>1, ValidatedLadder DEF PassesValidator
  <2>3. Count("TP2_FULL_CLOSE") = 1 => Count("TP1_PARTIAL_CLOSE") = 1
    <3>1. CASE position = NoPosition
      <4>1. CountIn(journal, "TP2_FULL_CLOSE") = 0
        BY <1>3, <3>1 DEF JournalInv, PositionEvents
      <4> QED  BY <4>1 DEF Count, CountIn
    <3>2. CASE position # NoPosition
      <4>1. /\ CountIn(journal, "TP1_PARTIAL_CLOSE") = (IF position.tp1Hit THEN 1 ELSE 0)
            /\ CountIn(journal, "TP2_FULL_CLOSE") = (IF position.status = "CLOSED" THEN 1 ELSE 0)
        BY <1>3, <3>2 DEF JournalInv, Told, Tally
      <4>2. position.status = "CLOSED" => position.tp1Hit
        BY <1>3, <2>2, <3>2 DEF OrderInv
      <4>3. /\ Count("TP1_PARTIAL_CLOSE") = CountIn(journal, "TP1_PARTIAL_CLOSE")
            /\ Count("TP2_FULL_CLOSE") = CountIn(journal, "TP2_FULL_CLOSE")
        BY DEF Count, CountIn
      <4> QED  BY <4>1, <4>2, <4>3
    <3> QED  BY <3>1, <3>2
  <2>4. ASSUME NoNegativeLeg(offer), NEW price \in TickPrices, StopReached(offer, price)
        PROVE  ~TargetReached(offer, offer.tp1, price) /\ ~TargetReached(offer, offer.tp2, price)
    <3>1. /\ price \in Int /\ offer.stop \in Int /\ offer.tp1 \in Int /\ offer.tp2 \in Int
      BY <1>3, <2>1, TickPricesTyped DEF Proposals
    <3>2. CASE offer.side = "LONG"
      BY <2>2, <2>4, <3>1, <3>2 DEF StopReached, TargetReached, TargetsInOrder, StopApart
    <3>3. CASE offer.side # "LONG"
      BY <2>2, <2>4, <3>1, <3>3 DEF StopReached, TargetReached, TargetsInOrder, StopApart
    <3> QED  BY <3>2, <3>3
  <2> QED  BY <2>3, <2>4
<1>4. Inv => ValidatedLadderInOrder
  BY <1>3
<1> HIDE DEF Inv
<1> QED  BY <1>1, <1>2, <1>4, PTL DEF Spec

-----------------------------------------------------------------------------
(* What a proposal of the live flow is worth to the validator. *)

LEMMA EligibleWhileFresh ==
  ASSUME PaperAssumption, RulesAssumption, LiveLifetime <= RefreshWindow,
         NEW q, NEW t \in Nat, NEW now \in Nat, now < t + LiveLifetime,
         EvaluateInstrument(RawInstrument(q)) = "OK"
  PROVE  SymbolEligibility(Whitelisted(RawInstrument(q), t), now) = "ELIGIBLE"
<1>1. ~(t + RefreshWindow <= now)
  BY DEF PaperAssumption, RulesAssumption
<1> QED  BY <1>1 DEF SymbolEligibility, Whitelisted

(* The checks on the prices, in terms of the last price and the width.      *)
LEMMA LiveLadder ==
  ASSUME NEW p \in Proposals, Len(p.legs) = 1,
         NEW last \in Int, last >= 800, NEW width \in Int, width >= 800,
         p.legs[1].fraction = 4, p.legs[1].price = (p.zoneMin + p.zoneMax) \div 2,
         IF p.side = "LONG"
           THEN /\ p.zoneMin = Floored(last - width) /\ p.zoneMax = last
                /\ p.stop = Floored(p.zoneMin - width)
                /\ p.tp1 = last + 2 * width /\ p.tp2 = last + 4 * width
           ELSE /\ p.zoneMin = last /\ p.zoneMax = last + width
                /\ p.stop = p.zoneMax + width
                /\ p.tp1 = Floored(last - 2 * width) /\ p.tp2 = Floored(last - 4 * width)
  PROVE  /\ p.stop > 0 /\ p.legs[1].price \in p.zoneMin..p.zoneMax
         /\ (Ladder(p) /\ Distances(p))
              <=> (IF p.side = "LONG" THEN p.zoneMin > Cent ELSE p.tp1 > Cent)
<1> DEFINE mid == p.legs[1].price
           low == p.zoneMin
           high == p.zoneMax
           stop == p.stop
           tp1 == p.tp1
           tp2 == p.tp2
<1>1. low \in Int /\ high \in Int /\ stop \in Int /\ tp1 \in Int /\ tp2 \in Int
  BY DEF Proposals
<1>2. mid = (low + high) \div 2
  OBVIOUS
<1>3. Fractions(p) = 4 /\ Weighted(p) = mid * 4
  BY SumsOfLegs
<1> DEFINE Floor(x) == IF x >= 800 THEN x ELSE 800
<1>4. IF p.side = "LONG"
        THEN /\ low = Floor(last - width) /\ high = last /\ stop = Floor(low - width)
             /\ tp1 = last + 2 * width /\ tp2 = last + 4 * width
        ELSE /\ low = last /\ high = last + width /\ stop = high + width
             /\ tp1 = Floor(last - 2 * width) /\ tp2 = Floor(last - 4 * width)
  <2>1. \A x \in Int : Floored(x) = Floor(x)
    BY FlooredIs
  <2> QED  BY <1>1, <2>1
<1> HIDE DEF low, high, stop, tp1, tp2, mid
<1>5. mid \in Int /\ 2 * mid <= low + high /\ low + high <= 2 * mid + 1
  BY <1>1, <1>2
<1>6. stop > 0 /\ low <= mid /\ mid <= high
  BY <1>1, <1>4, <1>5
<1>7. \A x \in Int : Abs(x * 4 - mid * 4) = IF x >= mid THEN 4 * (x - mid) ELSE 4 * (mid - x)
  BY <1>5 DEF Abs
<1>8. CASE p.side = "LONG"
  <2>1. ~(tp1 * 4 <= mid * 4) /\ ~(tp2 <= tp1) /\ (~(stop >= low) <=> low > 800)
    BY <1>1, <1>4, <1>5, <1>8
  <2>2. Ladder(p) <=> low > Cent
    BY <1>3, <1>8, <2>1 DEF Ladder, low, high, stop, tp1, tp2, Cent
  <2>3. ASSUME low > 800 PROVE Distances(p)
    <3>1. stop < mid /\ tp1 > mid /\ tp2 > mid /\ 2 * (tp1 - mid) >= mid - stop
      BY <1>1, <1>4, <1>5, <1>8, <2>3
    <3>2. /\ Distance(p.tp1, p) = 4 * (tp1 - mid) /\ Distance(p.tp2, p) = 4 * (tp2 - mid)
          /\ Distance(p.stop, p) = 4 * (mid - stop)
      BY <1>1, <1>3, <1>5, <1>7, <3>1 DEF Distance, stop, tp1, tp2
    <3> QED  BY <1>1, <1>5, <3>1, <3>2 DEF Distances
  <2> QED  BY <1>5, <1>6, <1>8, <2>2, <2>3 DEF low, high, stop, mid, Cent
<1>9. CASE p.side # "LONG"
  <2>1. ~(stop <= high) /\ ~(tp1 * 4 >= mid * 4) /\ (~(tp2 >= tp1) <=> tp1 > 800)
    BY <1>1, <1>4, <1>5, <1>9
  <2>2. Ladder(p) <=> tp1 > Cent
    BY <1>3, <1>9, <2>1 DEF Ladder, low, high, stop, tp1, tp2, Cent
  <2>3. ASSUME tp1 > 800 PROVE Distances(p)
    <3>1. stop > mid /\ tp1 < mid /\ tp2 < mid /\ 2 * (mid - tp1) >= stop - mid
      BY <1>1, <1>4, <1>5, <1>9, <2>3
    <3>2. /\ Distance(p.tp1, p) = 4 * (mid - tp1) /\ Distance(p.tp2, p) = 4 * (mid - tp2)
          /\ Distance(p.stop, p) = 4 * (stop - mid)
      BY <1>1, <1>3, <1>5, <1>7, <3>1 DEF Distance, stop, tp1, tp2
    <3> QED  BY <1>1, <1>5, <3>1, <3>2 DEF Distances
  <2> QED  BY <1>5, <1>6, <1>9, <2>2, <2>3 DEF low, high, stop, tp1, mid, Cent
<1> QED  BY <1>8, <1>9

(* The fields of a proposal of the live flow. *)
LEMMA BuiltFields ==
  ASSUME PaperAssumption, QuotesTyped, NEW q \in Quotes, NEW t \in Nat
  PROVE  LET p == BuildProposal(q, t)
             last == Cent * q.last
             width == RangeWidth(q)
         IN  /\ last \in Int /\ last >= 800 /\ width \in Int /\ width >= 800
             /\ p.created = t /\ p.expires = t + LiveLifetime
             /\ p.freshness = 0 /\ p.confidence = Confidence(q)
             /\ p.legs[1].fraction = 4 /\ p.legs[1].allocation = 4
             /\ p.legs[1].validUntil = p.expires
             /\ p.legs[1].price = (p.zoneMin + p.zoneMax) \div 2
             /\ IF p.side = "LONG"
                  THEN /\ p.zoneMin = Floored(last - width) /\ p.zoneMax = last
                       /\ p.stop = Floored(p.zoneMin - width)
                       /\ p.tp1 = last + 2 * width /\ p.tp2 = last + 4 * width
                  ELSE /\ p.zoneMin = last /\ p.zoneMax = last + width
                       /\ p.stop = p.zoneMax + width
                       /\ p.tp1 = Floored(last - 2 * width) /\ p.tp2 = Floored(last - 4 * width)
<1> DEFINE p == BuildProposal(q, t)
           last == Cent * q.last
           width == RangeWidth(q)
<1>1. last \in Int /\ last >= 800 /\ width \in Int /\ width >= 800
  <2>1. q.last \in Nat /\ q.last >= 1
    BY DEF QuotesTyped
  <2> QED  BY <2>1, WidthOfRange DEF Cent
<1>2. /\ p.created = t /\ p.expires = t + LiveLifetime
      /\ p.freshness = 0 /\ p.confidence = Confidence(q)
  BY DEF BuildProposal
<1>3. /\ p.legs[1].fraction = 4 /\ p.legs[1].allocation = 4
      /\ p.legs[1].validUntil = p.expires
      /\ p.legs[1].price = (p.zoneMin + p.zoneMax) \div 2
  BY DEF BuildProposal
<1>4. p.side = IF q.change >= 0 THEN "LONG" ELSE "SHORT"
  BY DEF BuildProposal
<1>5. CASE q.change >= 0
  BY <1>1, <1>2, <1>3, <1>4, <1>5 DEF BuildProposal
<1>6. CASE ~(q.change >= 0)
  BY <1>1, <1>2, <1>3, <1>4, <1>6 DEF BuildProposal
<1> QED  BY <1>5, <1>6

(* As long as it has not expired, a proposal of the live flow passes the   *)
(* validator exactly when the floor of one cent has flattened neither its  *)
(* zone nor its targets (live_market_flow.py _build_proposal), for every   *)
(* quote, when an entry of the universe is valid at least as long as a     *)
(* proposal (an hour against fifteen minutes in the default configuration) *)
(* and the configured risk is positive.                                    *)
THEOREM LiveAlwaysPassesValidator ==
  ASSUME InputsTyped, LiveLifetime <= RefreshWindow, DefaultRisk > 0
  PROVE  Spec => []LiveProposalsPassValidator
<1>1. ASSUME OfferInv PROVE LiveProposalsPassValidator
  <2> SUFFICES ASSUME source = "live", clock < offer.expires
               PROVE  ValidatorReason(offer, whitelist, clock) = "OK"
                        <=> (IF offer.side = "LONG" THEN offer.zoneMin > Cent
                             ELSE offer.tp1 > Cent)
    BY DEF LiveProposalsPassValidator
  <2>1. PICK q \in Quotes : \E t \in 0..clock :
          /\ offer = [BuildProposal(q, t) EXCEPT !.status = offer.status]
          /\ whitelist = Whitelisted(RawInstrument(q), t)
          /\ EvaluateInstrument(RawInstrument(q)) = "OK"
          /\ Confidence(q) >= MinConfidence
    BY <1>1 DEF OfferInv, AsBuilt
  <2>2. PICK t \in 0..clock :
          /\ offer = [BuildProposal(q, t) EXCEPT !.status = offer.status]
          /\ whitelist = Whitelisted(RawInstrument(q), t)
          /\ EvaluateInstrument(RawInstrument(q)) = "OK"
          /\ Confidence(q) >= MinConfidence
    BY <2>1
  <2> DEFINE b == BuildProposal(q, t)
             last == Cent * q.last
             width == RangeWidth(q)
  <2>3. t \in Nat /\ clock \in Nat /\ QuotesTyped /\ PaperAssumption
    BY <1>1, <2>2, PaperAssumption DEF OfferInv, InputsTyped
  <2>4. /\ b \in Proposals /\ Len(b.legs) = 1
        /\ b.risk = DefaultRisk /\ b.riskUsd = 5 * Dollar /\ b.size = 8
    BY <2>3, BuiltTyped
  <2>5. /\ last \in Int /\ last >= 800 /\ width \in Int /\ width >= 800
        /\ b.created = t /\ b.expires = t + LiveLifetime
        /\ b.freshness = 0 /\ b.confidence = Confidence(q)
        /\ b.legs[1].fraction = 4 /\ b.legs[1].allocation = 4
        /\ b.legs[1].validUntil = b.expires
        /\ b.legs[1].price = (b.zoneMin + b.zoneMax) \div 2
        /\ IF b.side = "LONG"
             THEN /\ b.zoneMin = Floored(last - width) /\ b.zoneMax = last
                  /\ b.stop = Floored(b.zoneMin - width)
                  /\ b.tp1 = last + 2 * width /\ b.tp2 = last + 4 * width
             ELSE /\ b.zoneMin = last /\ b.zoneMax = last + width
                  /\ b.stop = b.zoneMax + width
                  /\ b.tp1 = Floored(last - 2 * width) /\ b.tp2 = Floored(last - 4 * width)
    BY <2>3, BuiltFields
  <2> HIDE DEF b, last, width
  <2>6. /\ offer \in Proposals
        /\ offer.side = b.side /\ offer.zoneMin = b.zoneMin /\ offer.zoneMax = b.zoneMax
        /\ offer.legs = b.legs /\ offer.stop = b.stop /\ offer.tp1 = b.tp1 /\ offer.tp2 = b.tp2
        /\ offer.risk = b.risk /\ offer.riskUsd = b.riskUsd /\ offer.size = b.size
        /\ offer.confidence = b.confidence /\ offer.freshness = b.freshness
        /\ offer.expires = b.expires
    <3>1. offer \in Proposals
      BY <1>1 DEF OfferInv
    <3>2. offer.status \in Statuses
      BY <3>1 DEF Proposals
    <3>3. offer = [b EXCEPT !.status = offer.status]
      BY <2>2 DEF b
    <3> DEFINE s == offer.status
    <3>4. s \in Statuses /\ offer = [b EXCEPT !.status = s]
      BY <3>2, <3>3
    <3> HIDE DEF s
    <3> QED  BY <2>4, <3>1, <3>4, StatusOnly
  <2>7. /\ offer.stop > 0 /\ offer.legs[1].price \in offer.zoneMin..offer.zoneMax
        /\ (Ladder(offer) /\ Distances(offer))
             <=> (IF offer.side = "LONG" THEN offer.zoneMin > Cent ELSE offer.tp1 > Cent)
    BY <2>4, <2>5, <2>6, LiveLadder
  <2>8. Basics(offer, whitelist, clock)
    <3>1. SymbolEligibility(whitelist, clock) = "ELIGIBLE"
      <4>1. clock < t + LiveLifetime
        BY <2>5, <2>6
      <4> QED  BY <2>2, <2>3, <4>1, RulesAssumption, EligibleWhileFresh
    <3>2. Fractions(offer) = 4 /\ Allocations(offer) = 4
      BY <2>4, <2>5, <2>6, SumsOfLegs
    <3>3. \A i \in DOMAIN offer.legs : ~LegOutside(offer, offer.legs[i])
      <4>1. DOMAIN offer.legs = {1}
        BY <2>4, <2>6, OneOrTwoLegs DEF Proposals
      <4>2. offer.expires \in Int /\ offer.legs[1].validUntil = offer.expires
        BY <2>5, <2>6 DEF Proposals
      <4> QED  BY <2>7, <4>1, <4>2 DEF LegOutside
    <3>4. ~(offer.confidence < MinConfidence)
      <4>1. Confidence(q) \in Int /\ MinConfidence \in Int
        BY <2>3, ConfidenceInteger, RulesAssumption DEF RulesAssumption
      <4> QED  BY <2>2, <2>5, <2>6, <4>1
    <3>5. ~(offer.expires <= clock) /\ ~(offer.stop <= 0)
      <4>1. offer.expires \in Int /\ offer.stop \in Int
        BY <2>6 DEF Proposals
      <4> QED  BY <2>3, <2>7, <4>1
    <3>6. /\ ~(offer.size <= 0) /\ ~(offer.risk <= 0 \/ offer.riskUsd <= 0)
          /\ ~(offer.freshness < 0) /\ ~(Len(offer.legs) > 2)
      <4>1. offer.size = 8 /\ offer.risk = DefaultRisk /\ offer.riskUsd = 5 * Dollar
            /\ offer.freshness = 0
        BY <2>4, <2>5, <2>6
      <4>3. DefaultRisk \in Int /\ ~(DefaultRisk <= 0) /\ ~(5 * Dollar <= 0)
        BY PaperAssumption DEF PaperAssumption
      <4>2. Len(offer.legs) = 1
        BY <2>4, <2>6
      <4> QED  BY <4>1, <4>2, <4>3
    <3> QED  BY <3>1, <3>2, <3>3, <3>4, <3>5, <3>6 DEF Basics
  <2> QED  BY <2>7, <2>8, ValidatorOK
<1>2. OfferInv => LiveProposalsPassValidator
  BY <1>1
<1> QED  BY <1>2, OfferAlways, PaperAssumption, PTL

================================================================================
