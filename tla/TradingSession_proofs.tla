------------------------ MODULE TradingSession_proofs ------------------------
(***************************************************************************)
(* Theorems about TradingSession, for every value of its constants.        *)
(*                                                                         *)
(* The safety state and its audit trail change together and depend on      *)
(* nothing else, so they have an inductive invariant of their own; the     *)
(* reservations, the number of openings and the refinement of HumanGate    *)
(* rest on the type invariant.                                             *)
(***************************************************************************)
EXTENDS TradingSession, FiniteSetTheorems, TLAPS

USE ConstantsAssumption

(* The part of the type invariant about the safety state. *)
ControlTypeOK ==
  /\ safety \in [halted : BOOLEAN, state : SafetyStates,
                 blocked : BOOLEAN, reason : Reasons]
  /\ lastControl \in {"NONE", "HALT_ON", "HALT_OFF", "CLEAR_SAFETY",
                      "AUTO_BLOCK_ON", "AUTO_BLOCK_OFF"}

ControlInv == ControlTypeOK /\ SafetyCoherent /\ AuditReplaysSafety

(* A block reason is one the controller names, or none: nothing is known    *)
(* of the sum of the reservations, and nothing needs to be.                *)
LEMMA BlockReasonType ==
  ASSUME NEW pf \in Portfolios
  PROVE  BlockReason(pf) \in BlockReasons \cup {"NONE"}
BY DEF BlockReason, BlockReasons

LEMMA WarningReasonType ==
  ASSUME NEW pf \in Portfolios
  PROVE  WarningReason(pf) \in WarningReasons \cup {"NONE"}
BY DEF WarningReason, WarningReasons

(* The automatic evaluation preserves the invariant of the safety state. *)
LEMMA EvaluationKeepsControl ==
  ASSUME NEW pf \in Portfolios, ControlInv, EvaluateStopConditions(pf)
  PROVE  ControlInv'
<1> DEFINE b == BlockReason(pf)
           w == WarningReason(pf)
<1>1. b \in BlockReasons \cup {"NONE"} /\ w \in WarningReasons \cup {"NONE"}
  BY BlockReasonType, WarningReasonType
<1> HIDE DEF b, w
<1> USE DEF ControlInv, ControlTypeOK, SafetyCoherent, AuditReplaysSafety,
            SafetyStates, Reasons, BlockReasons, WarningReasons
<1>2. /\ safety' = IF safety.halted THEN safety
                   ELSE IF b # "NONE" THEN SetBlock(safety, b)
                   ELSE IF w # "NONE" THEN SetWarning(ClearBlock(safety), w)
                   ELSE ClearWarning(ClearBlock(safety))
      /\ lastControl' = IF safety.halted THEN lastControl
                        ELSE IF b # "NONE"
                             THEN IF safety.blocked /\ safety.reason = b
                                  THEN lastControl ELSE "AUTO_BLOCK_ON"
                        ELSE IF safety.blocked THEN "AUTO_BLOCK_OFF"
                        ELSE lastControl
  BY DEF EvaluateStopConditions, Evaluated, EvaluatedControl, b, w
<1>3. CASE safety.halted
  BY <1>2, <1>3
<1>4. CASE ~safety.halted /\ b # "NONE"
  BY <1>1, <1>2, <1>4 DEF SetBlock
<1>5. CASE ~safety.halted /\ b = "NONE"
  <2>1. ClearBlock(safety) = NormalState
    BY <1>5 DEF ClearBlock
  <2>2. CASE w # "NONE"
    <3>1. safety' = [halted |-> FALSE, state |-> "WARNING",
                     blocked |-> FALSE, reason |-> w]
      <4>1. safety' = SetWarning(NormalState, w)
        BY <1>2, <1>5, <2>1, <2>2
      <4> QED  BY <4>1 DEF SetWarning, NormalState
    <3>2. lastControl' = IF safety.blocked THEN "AUTO_BLOCK_OFF" ELSE lastControl
      BY <1>2, <1>5
    <3> QED  BY <1>1, <1>5, <2>2, <3>1, <3>2
  <2>3. CASE w = "NONE"
    BY <1>2, <1>5, <2>1, <2>3 DEF ClearWarning, NormalState
  <2> QED  BY <2>2, <2>3
<1> QED  BY <1>3, <1>4, <1>5

(* Every other step leaves the safety state alone or writes it whole. *)
LEMMA ControlStep == ControlInv /\ [Next]_vars => ControlInv'
<1> SUFFICES ASSUME ControlInv, [Next]_vars PROVE ControlInv'
  OBVIOUS
<1>1. CASE UNCHANGED <<safety, lastControl>>
  BY <1>1 DEF ControlInv, ControlTypeOK, SafetyCoherent, AuditReplaysSafety
<1>2. CASE \E pf \in Portfolios : EvaluateStopConditions(pf)
  BY <1>2, EvaluationKeepsControl
<1>3. CASE ActivateHalt
  BY <1>3 DEF ControlInv, ControlTypeOK, SafetyCoherent, AuditReplaysSafety,
              ActivateHalt, HaltedState, SafetyStates, Reasons
<1>4. CASE ClearEmergencyHalt
  BY <1>4 DEF ControlInv, ControlTypeOK, SafetyCoherent, AuditReplaysSafety,
              ClearEmergencyHalt, ClearHalt, NormalState, SafetyStates, Reasons
<1>5. CASE ClearSafetyControls
  <2>1. ClearWarning(ClearBlock(safety)) = NormalState
    BY <1>5 DEF ClearSafetyControls, ClearBlock, ClearWarning, NormalState
  <2> QED
    BY <1>5, <2>1 DEF ControlInv, ControlTypeOK, SafetyCoherent,
         AuditReplaysSafety, ClearSafetyControls, NormalState, SafetyStates, Reasons
<1>6. ASSUME NEW pf \in Portfolios, NEW p \in ProposalIds, Decide(p, pf)
      PROVE  EvaluateStopConditions(pf)
  BY <1>6 DEF Decide, ApproveAndExecute, ReapproveExecuted, ApproveOnly,
              RecordApproval, Reject, ExecuteApproved, Modify
<1> QED
  BY <1>1, <1>2, <1>3, <1>4, <1>5, <1>6
     DEF Next, vars, Restart, SubmitProposal, Refused, Ineffective

LEMMA ControlInit == Init => ControlInv
BY DEF Init, ControlInv, ControlTypeOK, SafetyCoherent, AuditReplaysSafety,
       NormalState, SafetyStates, Reasons

(* The fields of SystemState never contradict each other. *)
THEOREM SafetyAlwaysCoherent == Spec => []SafetyCoherent
<1>1. ControlInv => SafetyCoherent
  BY DEF ControlInv
<1> QED  BY <1>1, ControlInit, ControlStep, PTL DEF Spec

(* The last switching entry of the transcript tells if the halt or a block  *)
(* is on.                                                                  *)
THEOREM AuditAlwaysReplays == Spec => []AuditReplaysSafety
<1>1. ControlInv => AuditReplaysSafety
  BY DEF ControlInv
<1> QED  BY <1>1, ControlInit, ControlStep, PTL DEF Spec

-----------------------------------------------------------------------------
(* Types of the trading state, action by action. *)

TradeTypeOK ==
  /\ proposals \in [ProposalIds -> Stored \cup {Absent}]
  /\ reserved \in [ProposalIds -> Risks \cup {0}]
  /\ approvals \in [ProposalIds -> Nat]
  /\ opened \in [ProposalIds -> Nat]

(* Storing a status of the enumeration keeps a stored proposal one. *)
LEMMA StatusUpdate ==
  ASSUME TradeTypeOK, NEW p \in ProposalIds, Known(p), NEW s \in ProposalStatus
  PROVE  [proposals EXCEPT ![p].status = s] \in [ProposalIds -> Stored \cup {Absent}]
<1>1. proposals[p] \in Stored
  BY DEF TradeTypeOK, Known
<1>2. [proposals[p] EXCEPT !.status = s] \in Stored
  BY <1>1 DEF Stored
<1> QED  BY <1>2 DEF TradeTypeOK

LEMMA ExecuteType ==
  ASSUME TradeTypeOK, NEW p \in ProposalIds, NEW pf \in Portfolios,
         Known(p), Execute(p, pf)
  PROVE  /\ proposals' \in [ProposalIds -> Stored \cup {Absent}]
         /\ opened' \in [ProposalIds -> Nat]
<1>1. PICK timely \in BOOLEAN, fits \in BOOLEAN :
        LET accepted == PreExecutionCheck(proposals[p].risk, pf, timely, fits)
        IN  /\ proposals' = [proposals EXCEPT ![p].status = StatusAfter(accepted)]
            /\ opened' = [opened EXCEPT ![p] = IF accepted THEN @ + 1 ELSE @]
  BY DEF Execute
<1> DEFINE accepted == PreExecutionCheck(proposals[p].risk, pf, timely, fits)
<1>2. StatusAfter(accepted) \in ProposalStatus
  BY DEF StatusAfter, ProposalStatus
<1> HIDE DEF accepted
<1>3. proposals' \in [ProposalIds -> Stored \cup {Absent}]
  BY <1>1, <1>2, StatusUpdate DEF accepted
<1>4. opened' = [opened EXCEPT ![p] = IF accepted THEN @ + 1 ELSE @]
  BY <1>1 DEF accepted
<1> QED  BY <1>3, <1>4 DEF TradeTypeOK

LEMMA RecordApprovalType ==
  ASSUME TradeTypeOK, NEW p \in ProposalIds, NEW pf \in Portfolios,
         RecordApproval(p, pf)
  PROVE  /\ Known(p)
         /\ approvals' \in [ProposalIds -> Nat]
         /\ reserved' = reserved
BY DEF TradeTypeOK, RecordApproval

LEMMA ModifyType ==
  ASSUME TradeTypeOK, NEW p \in ProposalIds, NEW q \in ProposalIds,
         NEW pf \in Portfolios, Modify(p, q, pf)
  PROVE  /\ proposals' \in [ProposalIds -> Stored \cup {Absent}]
         /\ reserved' \in [ProposalIds -> Risks \cup {0}]
         /\ UNCHANGED <<approvals, opened>>
<1>1. PICK risk \in Risks, fits \in BOOLEAN :
        LET accepted == RiskAccepts(risk, pf, fits)
        IN  /\ proposals' = [proposals EXCEPT
                  ![p].status = "SUPERSEDED",
                  ![q] = [status |-> IF accepted THEN "PENDING_APPROVAL"
                                     ELSE "REJECTED_BY_RISK",
                          version |-> proposals[p].version + 1,
                          risk |-> risk]]
            /\ reserved' = IF accepted THEN MovedReservation(p, q, risk) ELSE reserved
  BY DEF Modify
<1> DEFINE accepted == RiskAccepts(risk, pf, fits)
           new == [status |-> IF accepted THEN "PENDING_APPROVAL" ELSE "REJECTED_BY_RISK",
                   version |-> proposals[p].version + 1, risk |-> risk]
<1>2. proposals' = [[proposals EXCEPT ![p].status = "SUPERSEDED"] EXCEPT ![q] = new]
  BY <1>1
<1>3. new \in Stored
  <2>1. proposals[p].version \in Nat
    BY DEF Modify, Known, TradeTypeOK, Stored
  <2> QED  BY <2>1 DEF Stored, ProposalStatus
<1>4. [proposals EXCEPT ![p].status = "SUPERSEDED"]
        \in [ProposalIds -> Stored \cup {Absent}]
  BY StatusUpdate DEF Modify, ProposalStatus
<1>5. reserved' \in [ProposalIds -> Risks \cup {0}]
  <2>1. MovedReservation(p, q, risk) \in [ProposalIds -> Risks \cup {0}]
    BY DEF MovedReservation, TradeTypeOK
  <2> QED  BY <1>1, <2>1 DEF TradeTypeOK
<1> HIDE DEF new
<1>6. proposals' \in [ProposalIds -> Stored \cup {Absent}]
  BY <1>2, <1>3, <1>4
<1> QED  BY <1>5, <1>6 DEF Modify

LEMMA SubmitType ==
  ASSUME TradeTypeOK, NEW p \in ProposalIds, SubmitProposal(p)
  PROVE  proposals' \in [ProposalIds -> Stored \cup {Absent}]
<1>1. Submissions \subseteq Stored
  BY DEF Submissions, Stored
<1> QED  BY <1>1 DEF SubmitProposal, TradeTypeOK

LEMMA TradeTypeStep == TradeTypeOK /\ [Next]_vars => TradeTypeOK'
<1> SUFFICES ASSUME TradeTypeOK, [Next]_vars PROVE TradeTypeOK'
  OBVIOUS
<1>1. CASE UNCHANGED trade
  BY <1>1 DEF trade, TradeTypeOK
<1>2. ASSUME NEW p \in ProposalIds, SubmitProposal(p) PROVE TradeTypeOK'
  <2>1. UNCHANGED <<reserved, approvals, opened>>
    BY <1>2 DEF SubmitProposal
  <2> QED  BY <1>2, <2>1, SubmitType DEF TradeTypeOK
<1>3. CASE Restart
  BY <1>3 DEF Restart, TradeTypeOK
<1>4. ASSUME NEW p \in ProposalIds, NEW pf \in Portfolios, Decide(p, pf)
      PROVE  TradeTypeOK'
  <2>1. CASE ApproveAndExecute(p, pf)
    BY <2>1, RecordApprovalType, ExecuteType DEF ApproveAndExecute, TradeTypeOK
  <2>2. CASE ReapproveExecuted(p, pf)
    BY <2>2, RecordApprovalType DEF ReapproveExecuted, TradeTypeOK
  <2>3. CASE ApproveOnly(p, pf)
    <3>1. Approved \in ProposalStatus
      BY DEF Approved, ProposalStatus
    <3> QED
      BY <2>3, <3>1, RecordApprovalType, StatusUpdate DEF ApproveOnly, TradeTypeOK
  <2>4. CASE Reject(p, pf)
    <3>1. "REJECTED_BY_HUMAN" \in ProposalStatus
      BY DEF ProposalStatus
    <3> QED  BY <2>4, <3>1, StatusUpdate DEF Reject, TradeTypeOK
  <2>5. CASE ExecuteApproved(p, pf)
    <3>1. Known(p)
      BY <2>5 DEF ExecuteApproved, ReadyToExecute, Known, Approved, Absent
    <3> QED  BY <2>5, <3>1, ExecuteType DEF ExecuteApproved, TradeTypeOK
  <2>6. ASSUME NEW q \in ProposalIds, Modify(p, q, pf) PROVE TradeTypeOK'
    BY <2>6, ModifyType DEF TradeTypeOK
  <2> QED  BY <1>4, <2>1, <2>2, <2>3, <2>4, <2>5, <2>6 DEF Decide
<1> QED
  BY <1>1, <1>2, <1>3, <1>4
     DEF Next, vars, trade, ActivateHalt, ClearEmergencyHalt, ClearSafetyControls,
         Refused, Ineffective

LEMMA TypeInit == Init => TypeOK
BY DEF Init, TypeOK, NormalState, SafetyStates, Reasons

(* The session is type correct; the coherence of the safety state is part   *)
(* of the argument, the reason being typed through it.                     *)
THEOREM TypeCorrect == Spec => []TypeOK
<1>1. TypeOK <=> TradeTypeOK /\ ControlTypeOK
  BY DEF TypeOK, TradeTypeOK, ControlTypeOK
<1>2. Init => TradeTypeOK /\ ControlInv
  BY <1>1, TypeInit, ControlInit
<1>3. TradeTypeOK /\ ControlInv => TypeOK
  BY <1>1 DEF ControlInv
<1> QED  BY <1>2, <1>3, TradeTypeStep, ControlStep, PTL DEF Spec

-----------------------------------------------------------------------------
(* The emergency halt. *)

(* The evaluation neither sets nor clears the halt. *)
LEMMA EvaluationKeepsHalt ==
  ASSUME NEW pf \in Portfolios, ControlInv, EvaluateStopConditions(pf)
  PROVE  safety'.halted = safety.halted
<1>1. CASE safety.halted
  BY <1>1 DEF EvaluateStopConditions, Evaluated
<1>2. CASE ~safety.halted
  <2>1. safety.halted = FALSE
    BY <1>2 DEF ControlInv, ControlTypeOK
  <2>2. SetBlock(safety, BlockReason(pf)).halted = FALSE
    BY <2>1 DEF SetBlock, ControlInv, ControlTypeOK
  <2>3. ClearBlock(safety) = NormalState
    BY <1>2 DEF ClearBlock
  <2>4. SetWarning(NormalState, WarningReason(pf)).halted = FALSE
    BY DEF SetWarning, NormalState
  <2>5. ClearWarning(NormalState).halted = FALSE
    BY DEF ClearWarning, NormalState
  <2> QED
    BY <1>2, <2>1, <2>2, <2>3, <2>4, <2>5 DEF EvaluateStopConditions, Evaluated
<1> QED  BY <1>1, <1>2

(* A halt stops every request. *)
LEMMA AdmittedNotHalted ==
  ASSUME NEW pf \in Portfolios, Admitted(pf)
  PROVE  ~safety.halted
BY DEF Admitted, Evaluated

(* What a decision needs, whichever it is. *)
LEMMA DecideAdmitted ==
  ASSUME NEW p \in ProposalIds, NEW pf \in Portfolios, Decide(p, pf)
  PROVE  Admitted(pf) /\ EvaluateStopConditions(pf)
BY DEF Decide, ApproveAndExecute, ReapproveExecuted, ApproveOnly, RecordApproval,
       Reject, ExecuteApproved, Modify

(* Under the emergency halt no command takes effect. *)
THEOREM HaltFreezes == Spec => HaltFreezesTrading
<1> DEFINE Frozen ==
      /\ approvals' = approvals /\ opened' = opened
      /\ \A p \in ProposalIds :
           /\ reserved'[p] \in {0, reserved[p]}
           /\ \/ proposals'[p] = proposals[p]
              \/ proposals'[p].status \in SubmitStatuses
<1>1. TradeTypeOK /\ [Next]_vars => (safety.halted => Frozen)
  <2> SUFFICES ASSUME TradeTypeOK, [Next]_vars, safety.halted PROVE Frozen
    OBVIOUS
  <2>1. CASE UNCHANGED trade
    BY <2>1 DEF trade
  <2>2. CASE Restart
    BY <2>2 DEF Restart
  <2>3. ASSUME NEW p \in ProposalIds, SubmitProposal(p) PROVE Frozen
    <3>1. \A q \in ProposalIds : \/ proposals'[q] = proposals[q]
                                \/ proposals'[q].status \in SubmitStatuses
      BY <2>3 DEF SubmitProposal, Submissions, TradeTypeOK
    <3> QED  BY <2>3, <3>1 DEF SubmitProposal
  <2>4. ASSUME NEW p \in ProposalIds, NEW pf \in Portfolios, Decide(p, pf)
        PROVE  FALSE
    BY <2>4, DecideAdmitted, AdmittedNotHalted
  <2> HIDE DEF Frozen
  <2> QED
    BY <2>1, <2>2, <2>3, <2>4
       DEF Next, vars, trade, ActivateHalt, ClearEmergencyHalt,
           ClearSafetyControls, Refused, Ineffective
<1>2. Init => TradeTypeOK
  BY TypeInit DEF TypeOK, TradeTypeOK
<1>3. TradeTypeOK /\ [Next]_vars => [safety.halted => Frozen]_vars
  BY <1>1
<1> QED  BY <1>2, <1>3, TradeTypeStep, PTL DEF Spec, HaltFreezesTrading

-----------------------------------------------------------------------------
(* Sums over finite sets: what FoldFunction(+, 0, f) is. *)

(* The fold takes the elements out of the set in the order of CHOOSE. *)
Picked(T) == CHOOSE x \in T : TRUE

(* The recursive function behind FoldFunction(+, 0, f), one sum for each    *)
(* subset of the domain of f.                                              *)
SumBody(f, g, D) ==
  [T \in D |-> IF T = {} THEN 0 ELSE f[Picked(T)] + g[T \ {Picked(T)}]]

Sums(f) == CHOOSE g : g = SumBody(f, g, SUBSET DOMAIN f)
Total(f) == Sums(f)[DOMAIN f]

LEMMA FoldIsTotal == \A f : FoldFunction(+, 0, f) = Total(f)
BY DEF FoldFunction, FoldFunctionOnSet, MapThenFoldSet, Total, Sums, SumBody, Picked

(* Induction over the subsets of a finite set, as a smallest counterexample:  *)
(* the library's induction theorems take the predicate as a parameter, this  *)
(* form takes the set of the subsets where it fails.                         *)
LEMMA SmallestSubset ==
  ASSUME NEW S, IsFiniteSet(S), NEW B, B # {}, \A T \in B : T \subseteq S
  PROVE  \E T \in B : \A U \in B : U \subseteq T => U = T
<1>0. B \in SUBSET SUBSET S
  OBVIOUS
<1>1. IsWellFoundedOn(StrictSubsetOrdering(S), SUBSET S)
  BY FS_StrictSubsetOrderingWellFounded, FS_FiniteSubsetsOfFinite
<1>2. \E T \in B : \A U \in B : <<U, T>> \notin StrictSubsetOrdering(S)
  BY <1>0, <1>1, WFMin
<1>3. PICK T \in B : \A U \in B : <<U, T>> \notin StrictSubsetOrdering(S)
  BY <1>2
<1>4. ASSUME NEW U \in B, U \subseteq T, U # T PROVE FALSE
  <2>1. <<U, T>> \in (SUBSET S) \X (SUBSET S)
    BY <1>0, <1>4
  <2>2. <<U, T>> \in StrictSubsetOrdering(S)
    BY <1>4, <2>1 DEF StrictSubsetOrdering
  <2> QED  BY <1>3, <2>2
<1> QED  BY <1>4

(* The same for numbers. *)
LEMMA LeastNumber ==
  ASSUME NEW N \in SUBSET Nat, N # {}
  PROVE  \E n \in N : \A m \in N : n <= m
<1>1. PICK k \in N : TRUE
  OBVIOUS
<1> DEFINE low == {n \in N : n <= k}
           B == {0..(n - 1) : n \in low}
<1>2. IsFiniteSet(0..k)
  BY FS_Interval
<1>3. B # {} /\ \A T \in B : T \subseteq 0..k
  <2>1. \A n \in low : n \in Nat /\ 0..(n - 1) \subseteq 0..k
    OBVIOUS
  <2>2. k \in low
    OBVIOUS
  <2> QED  BY <2>1, <2>2
<1>4. PICK T \in B : \A U \in B : U \subseteq T => U = T
  <2> HIDE DEF B
  <2> QED  BY <1>2, <1>3, SmallestSubset
<1>5. PICK n \in low : T = 0..(n - 1)
  BY <1>4
<1>6. ASSUME NEW m \in N PROVE n <= m
  <2> SUFFICES ASSUME m < n PROVE FALSE
    OBVIOUS
  <2>1. 0..(m - 1) \in B
    OBVIOUS
  <2>2. 0..(m - 1) \subseteq 0..(n - 1)
    OBVIOUS
  <2>3. 0..(m - 1) = 0..(n - 1)
    BY <1>4, <1>5, <2>1, <2>2
  <2>4. m \in 0..(n - 1) /\ m \notin 0..(m - 1)
    OBVIOUS
  <2> QED  BY <2>3, <2>4
<1> QED  BY <1>6

LEMMA PickedElement ==
  ASSUME NEW T, T # {}
  PROVE  Picked(T) \in T
BY DEF Picked

(* The recursion has a solution, built up by the size of the subsets. *)
LEMMA SumsEquation ==
  ASSUME NEW f, IsFiniteSet(DOMAIN f)
  PROVE  Sums(f) = SumBody(f, Sums(f), SUBSET DOMAIN f)
<1> DEFINE S == DOMAIN f
           Small(n) == {T \in SUBSET S : Cardinality(T) <= n}
           N == {n \in Nat : ~\E g : g = SumBody(f, g, Small(n))}
<1>1. ASSUME NEW T \in SUBSET S
      PROVE  /\ IsFiniteSet(T) /\ Cardinality(T) \in Nat
             /\ Cardinality(T) <= Cardinality(S)
             /\ T = {} <=> Cardinality(T) = 0
  BY FS_Subset, FS_CardinalityType, FS_EmptySet
<1>2. N = {}
  <2> SUFFICES ASSUME N # {} PROVE FALSE
    OBVIOUS
  <2>1. PICK n \in N : \A m \in N : n <= m
    BY LeastNumber
  <2>2. CASE n = 0
    <3>1. ASSUME NEW T \in Small(0) PROVE T = {}
      BY <1>1
    <3> DEFINE g == [T \in Small(0) |-> 0]
    <3>2. g = SumBody(f, g, Small(0))
      BY <3>1 DEF SumBody
    <3> QED  BY <2>2, <3>2
  <2>3. CASE n # 0
    <3>1. n - 1 \in Nat /\ n - 1 \notin N
      <4>1. n \in Nat
        OBVIOUS
      <4> HIDE DEF N
      <4> QED  BY <2>1, <2>3, <4>1
    <3>2. PICK g : g = SumBody(f, g, Small(n - 1))
      BY <3>1
    <3> DEFINE h == SumBody(f, g, Small(n))
    <3>3. ASSUME NEW T \in Small(n), T # {}
          PROVE  h[T \ {Picked(T)}] = g[T \ {Picked(T)}]
      <4> DEFINE U == T \ {Picked(T)}
      <4>1. Cardinality(U) = Cardinality(T) - 1
        BY <1>1, <3>3, PickedElement, FS_RemoveElement
      <4>2. U \in Small(n - 1) /\ U \in Small(n)
        BY <1>1, <4>1
      <4> HIDE DEF U, Small
      <4>3. h[U] = IF U = {} THEN 0 ELSE f[Picked(U)] + g[U \ {Picked(U)}]
        BY <4>2 DEF SumBody
      <4>4. g[U] = IF U = {} THEN 0 ELSE f[Picked(U)] + g[U \ {Picked(U)}]
        BY <3>2, <4>2 DEF SumBody
      <4> QED  BY <4>3, <4>4 DEF U
    <3>4. h = SumBody(f, h, Small(n))
      <4> HIDE DEF Small
      <4>1. \A T \in Small(n) :
              h[T] = IF T = {} THEN 0 ELSE f[Picked(T)] + h[T \ {Picked(T)}]
        BY <3>3 DEF SumBody
      <4>2. h = [T \in Small(n) |-> h[T]]
        BY DEF SumBody
      <4> HIDE DEF h
      <4> QED  BY <4>1, <4>2 DEF SumBody
    <3> QED  BY <3>4
  <2> QED  BY <2>2, <2>3
<1>3. Cardinality(S) \in Nat
  BY FS_CardinalityType
<1>4. Small(Cardinality(S)) = SUBSET S
  BY <1>1
<1>5. PICK g : g = SumBody(f, g, SUBSET S)
  <2> HIDE DEF Small
  <2> QED  BY <1>2, <1>3, <1>4
<1> QED  BY <1>5 DEF Sums

LEMMA SumsStep ==
  ASSUME NEW f, IsFiniteSet(DOMAIN f), NEW T \in SUBSET DOMAIN f, T # {}
  PROVE  /\ Picked(T) \in T
         /\ T \ {Picked(T)} \in SUBSET DOMAIN f
         /\ Sums(f)[T] = f[Picked(T)] + Sums(f)[T \ {Picked(T)}]
<1>1. Picked(T) \in T
  BY PickedElement
<1>2. Sums(f)[T] = SumBody(f, Sums(f), SUBSET DOMAIN f)[T]
  BY SumsEquation
<1> QED  BY <1>1, <1>2 DEF SumBody

LEMMA SumsEmpty ==
  ASSUME NEW f, IsFiniteSet(DOMAIN f)
  PROVE  Sums(f)[{}] = 0
<1>1. Sums(f)[{}] = SumBody(f, Sums(f), SUBSET DOMAIN f)[{}]
  BY SumsEquation
<1> QED  BY <1>1 DEF SumBody

LEMMA TotalType ==
  ASSUME NEW S, IsFiniteSet(S), NEW f \in [S -> Nat]
  PROVE  /\ Total(f) \in Nat
         /\ \A T \in SUBSET S : Sums(f)[T] \in Nat
<1>1. DOMAIN f = S
  OBVIOUS
<1> DEFINE B == {T \in SUBSET S : Sums(f)[T] \notin Nat}
<1>2. B = {}
  <2> SUFFICES ASSUME B # {} PROVE FALSE
    OBVIOUS
  <2>1. PICK T \in B : \A U \in B : U \subseteq T => U = T
    <3>1. \A T \in B : T \subseteq S
      OBVIOUS
    <3> HIDE DEF B
    <3> QED  BY <3>1, SmallestSubset
  <2>2. CASE T = {}
    BY <1>1, <2>2, SumsEmpty
  <2>3. CASE T # {}
    <3> DEFINE U == T \ {Picked(T)}
    <3>1. Picked(T) \in T /\ U \in SUBSET S /\ Sums(f)[T] = f[Picked(T)] + Sums(f)[U]
      BY <1>1, <2>3, SumsStep
    <3>2. Sums(f)[U] \in Nat
      BY <2>1, <3>1
    <3> QED  BY <3>1, <3>2
  <2> QED  BY <2>2, <2>3
<1> QED  BY <1>1, <1>2 DEF Total

(* A function that exceeds another one at b only has a sum that exceeds the *)
(* other's by its value at b at most: both folds take the same order.       *)
LEMMA TotalUpdate ==
  ASSUME NEW S, IsFiniteSet(S), NEW f \in [S -> Nat], NEW g \in [S -> Nat],
         NEW b \in S, \A x \in S \ {b} : g[x] <= f[x]
  PROVE  Total(g) <= Total(f) + g[b]
<1>1. DOMAIN f = S /\ DOMAIN g = S
  OBVIOUS
<1> DEFINE Bound(T) == Sums(g)[T] <= Sums(f)[T] + (IF b \in T THEN g[b] ELSE 0)
           B == {T \in SUBSET S : ~Bound(T)}
<1>2. \A T \in SUBSET S : Sums(f)[T] \in Nat /\ Sums(g)[T] \in Nat
  BY TotalType
<1>3. B = {}
  <2> SUFFICES ASSUME B # {} PROVE FALSE
    OBVIOUS
  <2>1. PICK T \in B : \A U \in B : U \subseteq T => U = T
    <3>1. \A T \in B : T \subseteq S
      OBVIOUS
    <3> HIDE DEF B
    <3> QED  BY <3>1, SmallestSubset
  <2>2. CASE T = {}
    BY <1>1, <1>2, <2>2, SumsEmpty
  <2>3. CASE T # {}
    <3> DEFINE x == Picked(T)
               U == T \ {x}
    <3>1. x \in T /\ U \in SUBSET S
      BY <1>1, <2>3, SumsStep
    <3>2. Sums(f)[T] = f[x] + Sums(f)[U] /\ Sums(g)[T] = g[x] + Sums(g)[U]
      BY <1>1, <2>3, SumsStep
    <3>3. Bound(U)
      BY <2>1, <3>1
    <3>4. f[x] \in Nat /\ g[x] \in Nat /\ g[b] \in Nat
      BY <3>1
    <3>5. x # b => g[x] <= f[x]
      BY <3>1
    <3>6. Sums(f)[U] \in Nat /\ Sums(g)[U] \in Nat
      BY <1>2, <3>1
    <3> HIDE DEF x
    <3>7. Bound(T)
      BY <3>1, <3>2, <3>3, <3>4, <3>5, <3>6
    <3> QED  BY <2>1, <3>7
  <2> QED  BY <2>2, <2>3
<1>4. Bound(S)
  BY <1>3
<1> QED  BY <1>1, <1>4 DEF Total

LEMMA TotalOfZeros ==
  ASSUME NEW S, IsFiniteSet(S), NEW f \in [S -> {0}]
  PROVE  Total(f) = 0
<1>1. DOMAIN f = S
  OBVIOUS
<1> DEFINE B == {T \in SUBSET S : Sums(f)[T] # 0}
<1>2. B = {}
  <2> SUFFICES ASSUME B # {} PROVE FALSE
    OBVIOUS
  <2>1. PICK T \in B : \A U \in B : U \subseteq T => U = T
    <3>1. \A T \in B : T \subseteq S
      OBVIOUS
    <3> HIDE DEF B
    <3> QED  BY <3>1, SmallestSubset
  <2>2. CASE T = {}
    BY <1>1, <2>2, SumsEmpty
  <2>3. CASE T # {}
    <3> DEFINE U == T \ {Picked(T)}
    <3>1. Picked(T) \in T /\ U \in SUBSET S /\ Sums(f)[T] = f[Picked(T)] + Sums(f)[U]
      BY <1>1, <2>3, SumsStep
    <3>2. Sums(f)[U] = 0
      BY <2>1, <3>1
    <3> QED  BY <3>1, <3>2
  <2> QED  BY <2>2, <2>3
<1> QED  BY <1>1, <1>2 DEF Total

-----------------------------------------------------------------------------
(* The risk budget. *)

LEMMA ReservedType ==
  ASSUME TradeTypeOK
  PROVE  reserved \in [ProposalIds -> Nat]
<1>1. Risks \cup {0} \subseteq Nat
  OBVIOUS
<1> QED  BY <1>1 DEF TradeTypeOK

LEMMA ReservedTotal == TotalReserved = Total(reserved)
BY FoldIsTotal DEF TotalReserved

LEMMA TotalReservedType ==
  ASSUME IsFiniteSet(ProposalIds), TradeTypeOK
  PROVE  TotalReserved = Total(reserved) /\ TotalReserved \in Nat
BY ReservedTotal, ReservedType, TotalType

(* The values of an accepted risk add up within the budget. *)
LEMMA AcceptedFits ==
  ASSUME IsFiniteSet(ProposalIds), TradeTypeOK, NEW pf \in Portfolios,
         NEW risk \in Risks, NEW fits \in BOOLEAN, RiskAccepts(risk, pf, fits)
  PROVE  TotalReserved + risk <= MaxRisk - LeastOpenRisk
<1>1. /\ pf.openRisk \in Int /\ risk \in Nat /\ MaxRisk \in Nat
      /\ LeastOpenRisk \in Int /\ LeastOpenRisk <= pf.openRisk
  OBVIOUS
<1> QED  BY <1>1, TotalReservedType DEF RiskAccepts

LEMMA ReservedStep ==
  ASSUME IsFiniteSet(ProposalIds)
  PROVE  TradeTypeOK /\ ReservedWithinBudget /\ [Next]_vars => ReservedWithinBudget'
<1> SUFFICES ASSUME TradeTypeOK, ReservedWithinBudget, [Next]_vars
             PROVE  ReservedWithinBudget'
  OBVIOUS
<1>2. TotalReserved' = Total(reserved')
  <2>1. (TotalReserved = Total(reserved))'
    BY ReservedTotal, PTL
  <2> QED  BY <2>1
<1>3. CASE UNCHANGED reserved
  BY <1>2, <1>3, TotalReservedType DEF ReservedWithinBudget
<1>4. CASE Restart
  <2>1. reserved' \in [ProposalIds -> {0}]
    BY <1>4 DEF Restart
  <2> QED  BY <1>2, <2>1, TotalOfZeros DEF ReservedWithinBudget
<1>5. ASSUME NEW p \in ProposalIds, NEW q \in ProposalIds, NEW pf \in Portfolios,
             Modify(p, q, pf)
      PROVE  ReservedWithinBudget'
  <2>1. PICK risk \in Risks, fits \in BOOLEAN :
          reserved' = IF RiskAccepts(risk, pf, fits)
                      THEN MovedReservation(p, q, risk) ELSE reserved
    BY <1>5 DEF Modify
  <2>2. CASE ~RiskAccepts(risk, pf, fits)
    BY <1>3, <2>1, <2>2
  <2>3. CASE RiskAccepts(risk, pf, fits)
    <3>1. /\ reserved \in [ProposalIds -> Nat]
          /\ reserved' \in [ProposalIds -> Nat]
          /\ reserved'[q] = risk
          /\ \A x \in ProposalIds \ {q} : reserved'[x] <= reserved[x]
      BY <2>1, <2>3, ReservedType DEF MovedReservation
    <3>2. Total(reserved') <= Total(reserved) + risk
      BY <3>1, TotalUpdate
    <3>3. Total(reserved') \in Nat
      BY <3>1, TotalType
    <3>4. TotalReserved + risk <= MaxRisk - LeastOpenRisk
      BY <2>3, AcceptedFits
    <3>5. TotalReserved = Total(reserved) /\ TotalReserved \in Nat
      BY TotalReservedType
    <3>6. risk \in Nat /\ MaxRisk \in Nat /\ LeastOpenRisk \in Int
      OBVIOUS
    <3> QED  BY <1>2, <3>2, <3>3, <3>4, <3>5, <3>6 DEF ReservedWithinBudget
  <2> QED  BY <2>2, <2>3
<1> QED
  BY <1>3, <1>4, <1>5
     DEF Next, vars, trade, ActivateHalt, ClearEmergencyHalt, ClearSafetyControls,
         SubmitProposal, Refused, Ineffective, Decide, ApproveAndExecute,
         ReapproveExecuted, ApproveOnly, RecordApproval, Reject, ExecuteApproved

(* Over any series of MODIFY commands the reservations stay within the      *)
(* aggregate risk limit and the least open risk any caller reports.        *)
THEOREM ReservedAlwaysWithinBudget ==
  ASSUME IsFiniteSet(ProposalIds)
  PROVE  Spec => []ReservedWithinBudget
<1>1. Init => TradeTypeOK /\ ReservedWithinBudget
  <2> SUFFICES ASSUME Init PROVE TradeTypeOK /\ ReservedWithinBudget
    OBVIOUS
  <2>1. TradeTypeOK
    BY TypeInit DEF TypeOK, TradeTypeOK
  <2>2. reserved \in [ProposalIds -> {0}]
    BY DEF Init
  <2> QED  BY <2>1, <2>2, TotalOfZeros, TotalReservedType DEF ReservedWithinBudget
<1>2. TradeTypeOK /\ ReservedWithinBudget /\ [Next]_vars
        => (TradeTypeOK /\ ReservedWithinBudget)'
  BY TradeTypeStep, ReservedStep
<1> QED  BY <1>1, <1>2, PTL DEF Spec

(* A budget the reservations exhaust blocks, whatever the portfolio. *)
LEMMA ExhaustedRefuses ==
  ASSUME IsFiniteSet(ProposalIds), TradeTypeOK,
         TotalReserved >= MaxRisk - LeastOpenRisk,
         NEW pf \in Portfolios
  PROVE  ~Admitted(pf)
<1>1. BlockReason(pf) # "NONE"
  <2>1. /\ pf.openRisk \in Int /\ MaxRisk \in Nat /\ TotalReserved \in Nat
        /\ LeastOpenRisk \in Int /\ LeastOpenRisk <= pf.openRisk
    BY TotalReservedType
  <2>2. TotalReserved + pf.openRisk >= MaxRisk
    BY <2>1
  <2> QED  BY <2>2 DEF BlockReason
<1>2. CASE safety.halted
  BY <1>2 DEF Admitted, Evaluated
<1>3. CASE ~safety.halted
  BY <1>1, <1>3 DEF Admitted, Evaluated, SetBlock
<1> QED  BY <1>2, <1>3

(* Once the reservations exhaust the budget, no command takes effect. *)
THEOREM ExhaustedFreezes ==
  ASSUME IsFiniteSet(ProposalIds)
  PROVE  Spec => ExhaustedBudgetFreezes
<1> DEFINE Frozen ==
      /\ approvals' = approvals /\ opened' = opened
      /\ \A p \in ProposalIds : reserved'[p] \in {0, reserved[p]}
<1>1. TradeTypeOK /\ [Next]_vars
        => (TotalReserved >= MaxRisk - LeastOpenRisk => Frozen)
  <2> SUFFICES ASSUME TradeTypeOK, [Next]_vars,
                      TotalReserved >= MaxRisk - LeastOpenRisk
               PROVE  Frozen
    OBVIOUS
  <2>1. CASE UNCHANGED <<reserved, approvals, opened>>
    BY <2>1
  <2>2. CASE Restart
    BY <2>2 DEF Restart
  <2>3. ASSUME NEW p \in ProposalIds, NEW pf \in Portfolios, Decide(p, pf)
        PROVE  FALSE
    BY <2>3, DecideAdmitted, ExhaustedRefuses
  <2> HIDE DEF Frozen
  <2> QED
    BY <2>1, <2>2, <2>3
       DEF Next, vars, trade, ActivateHalt, ClearEmergencyHalt, ClearSafetyControls,
           SubmitProposal, Refused, Ineffective
<1>2. Init => TradeTypeOK
  BY TypeInit DEF TypeOK, TradeTypeOK
<1>3. TradeTypeOK /\ [Next]_vars
        => [TotalReserved >= MaxRisk - LeastOpenRisk => Frozen]_vars
  BY <1>1
<1> QED  BY <1>2, <1>3, TradeTypeStep, PTL DEF Spec, ExhaustedBudgetFreezes

-----------------------------------------------------------------------------
(* Openings and approvals. *)

(* What an execution does to the number of openings and the status of p. *)
LEMMA ExecuteEffect ==
  ASSUME TradeTypeOK, NEW p \in ProposalIds, NEW pf \in Portfolios,
         Known(p), Execute(p, pf)
  PROVE  /\ \A q \in ProposalIds \ {p} : proposals'[q] = proposals[q]
         /\ proposals'[p].status # Approved
         /\ \/ opened' = opened
            \/ opened' = [opened EXCEPT ![p] = @ + 1]
<1>1. PICK timely \in BOOLEAN, fits \in BOOLEAN :
        LET accepted == PreExecutionCheck(proposals[p].risk, pf, timely, fits)
        IN  /\ proposals' = [proposals EXCEPT ![p].status = StatusAfter(accepted)]
            /\ opened' = [opened EXCEPT ![p] = IF accepted THEN @ + 1 ELSE @]
  BY DEF Execute
<1> DEFINE accepted == PreExecutionCheck(proposals[p].risk, pf, timely, fits)
<1>2. StatusAfter(accepted) # Approved
  BY DEF StatusAfter, Approved
<1> HIDE DEF accepted
<1>3. /\ proposals' = [proposals EXCEPT ![p].status = StatusAfter(accepted)]
      /\ opened' = [opened EXCEPT ![p] = IF accepted THEN @ + 1 ELSE @]
  BY <1>1 DEF accepted
<1>4. opened' = opened \/ opened' = [opened EXCEPT ![p] = @ + 1]
  BY <1>3 DEF TradeTypeOK
<1>5. proposals[p] \in Stored
  BY DEF TradeTypeOK, Known
<1> QED  BY <1>2, <1>3, <1>4, <1>5 DEF TradeTypeOK, Stored

LEMMA OpenedInit == Init => OpenedByApproval
BY DEF Init, OpenedByApproval, Absent, Approved

LEMMA OpenedStep ==
  ASSUME Approved \notin SubmitStatuses
  PROVE  TradeTypeOK /\ OpenedByApproval /\ [Next]_vars => OpenedByApproval'
<1> SUFFICES ASSUME TradeTypeOK, OpenedByApproval, [Next]_vars
             PROVE  OpenedByApproval'
  OBVIOUS
<1> USE DEF OpenedByApproval
<1>1. CASE UNCHANGED <<proposals, approvals, opened>>
  BY <1>1
<1>2. ASSUME NEW p \in ProposalIds, SubmitProposal(p) PROVE OpenedByApproval'
  BY <1>2 DEF SubmitProposal, Submissions, TradeTypeOK
<1>3. ASSUME NEW p \in ProposalIds, NEW pf \in Portfolios, Decide(p, pf)
      PROVE  OpenedByApproval'
  <2>1. CASE ApproveAndExecute(p, pf)
    <3>1. Known(p) /\ approvals' = [approvals EXCEPT ![p] = @ + 1]
      BY <2>1 DEF ApproveAndExecute, RecordApproval
    <3>2. Execute(p, pf)
      BY <2>1 DEF ApproveAndExecute
    <3> QED  BY <3>1, <3>2, ExecuteEffect DEF TradeTypeOK
  <2>2. CASE ReapproveExecuted(p, pf)
    BY <2>2 DEF ReapproveExecuted, RecordApproval, TradeTypeOK
  <2>3. CASE ApproveOnly(p, pf)
    BY <2>3 DEF ApproveOnly, RecordApproval, TradeTypeOK
  <2>4. CASE Reject(p, pf)
    BY <2>4 DEF Reject, TradeTypeOK, Known, Stored, Approved
  <2>5. CASE ExecuteApproved(p, pf)
    <3>1. Known(p) /\ proposals[p].status = Approved /\ approvals' = approvals
      BY <2>5 DEF ExecuteApproved, ReadyToExecute, Known, Approved, Absent
    <3>2. Execute(p, pf)
      BY <2>5 DEF ExecuteApproved
    <3> QED  BY <3>1, <3>2, ExecuteEffect DEF TradeTypeOK
  <2>6. ASSUME NEW q \in ProposalIds, Modify(p, q, pf) PROVE OpenedByApproval'
    <3>1. \A r \in ProposalIds : proposals'[r].status = Approved
                                => proposals'[r] = proposals[r]
      BY <2>6 DEF Modify, TradeTypeOK, Known, Stored, Approved
    <3> QED  BY <2>6, <3>1 DEF Modify, TradeTypeOK
  <2> QED  BY <1>3, <2>1, <2>2, <2>3, <2>4, <2>5, <2>6 DEF Decide
<1> QED
  BY <1>1, <1>2, <1>3
     DEF Next, vars, trade, ActivateHalt, ClearEmergencyHalt, ClearSafetyControls,
         Restart, Refused, Ineffective

(* Unless proposals can be submitted as already approved, every position    *)
(* opened has an APPROVE decision of its own.                              *)
THEOREM OpeningsApproved ==
  ASSUME Approved \notin SubmitStatuses
  PROVE  Spec => []OpenedByApproval
<1>1. Init => TradeTypeOK /\ OpenedByApproval
  BY TypeInit, OpenedInit DEF TypeOK, TradeTypeOK
<1>2. TradeTypeOK /\ OpenedByApproval /\ [Next]_vars
        => (TradeTypeOK /\ OpenedByApproval)'
  BY TradeTypeStep, OpenedStep
<1> QED  BY <1>1, <1>2, PTL DEF Spec

-----------------------------------------------------------------------------
(* The session implements HumanGate. *)

SessionInv == TradeTypeOK /\ ControlInv /\ OpenedByApproval

(* The steps on the safety state alone turn the brake or stutter. *)
LEMMA ControlMapsToGate ==
  ASSUME SessionInv, UNCHANGED <<approvals, opened>>, ControlInv'
  PROVE  [HG!Next]_HG!vars
<1>1. safety'.halted \in BOOLEAN
  BY DEF ControlInv, ControlTypeOK
<1>2. HG!SetBrake
  BY <1>1 DEF HG!SetBrake
<1> QED  BY <1>2 DEF HG!Next

(* A decision is a grant, a use, both, or a stutter. *)
LEMMA DecisionMapsToGate ==
  ASSUME SessionInv, NEW p \in ProposalIds, NEW pf \in Portfolios, Decide(p, pf)
  PROVE  [HG!Next]_HG!vars
<1>1. ~safety.halted /\ safety'.halted = safety.halted
  BY DecideAdmitted, AdmittedNotHalted, EvaluationKeepsHalt DEF SessionInv
<1>2. CASE ApproveAndExecute(p, pf)
  <2>1. Known(p) /\ approvals' = [approvals EXCEPT ![p] = @ + 1]
    BY <1>2 DEF ApproveAndExecute, RecordApproval
  <2>2. opened' = opened \/ opened' = [opened EXCEPT ![p] = @ + 1]
    BY <1>2, <2>1, ExecuteEffect DEF ApproveAndExecute, SessionInv
  <2>3. HG!Grant(p) \/ HG!GrantAndUse(p)
    BY <1>1, <2>1, <2>2 DEF HG!Grant, HG!GrantAndUse
  <2> QED  BY <2>3 DEF HG!Next
<1>3. CASE ReapproveExecuted(p, pf) \/ ApproveOnly(p, pf)
  <2>1. HG!Grant(p)
    BY <1>1, <1>3 DEF ReapproveExecuted, ApproveOnly, RecordApproval, HG!Grant
  <2> QED  BY <2>1 DEF HG!Next
<1>4. CASE Reject(p, pf) \/ \E q \in ProposalIds : Modify(p, q, pf)
  BY <1>1, <1>4 DEF Reject, Modify, HG!vars
<1>5. CASE ExecuteApproved(p, pf)
  <2>1. Known(p) /\ proposals[p].status = Approved /\ approvals' = approvals
    BY <1>5 DEF ExecuteApproved, ReadyToExecute, Known, Approved, Absent
  <2>2. opened' = opened \/ opened' = [opened EXCEPT ![p] = @ + 1]
    BY <1>5, <2>1, ExecuteEffect DEF ExecuteApproved, SessionInv
  <2>3. opened[p] < approvals[p]
    BY <2>1 DEF SessionInv, TradeTypeOK, OpenedByApproval
  <2>4. HG!Use(p) \/ UNCHANGED HG!vars
    BY <1>1, <2>1, <2>2, <2>3 DEF HG!Use, HG!vars
  <2> QED  BY <2>4 DEF HG!Next
<1> QED  BY <1>2, <1>3, <1>4, <1>5 DEF Decide

(* Unless proposals can be submitted as already approved, a session is a    *)
(* HumanGate: each opening uses one approval up, none under the halt.       *)
THEOREM ImplementsHumanGate ==
  ASSUME Approved \notin SubmitStatuses
  PROVE  Spec => HumanGateSpec
<1>1. Init => SessionInv
  BY TypeInit, ControlInit, OpenedInit DEF SessionInv, TypeOK, TradeTypeOK
<1>2. SessionInv /\ [Next]_vars => SessionInv'
  BY TradeTypeStep, ControlStep, OpenedStep DEF SessionInv
<1>3. Init => HG!Init
  BY DEF Init, NormalState, HG!Init
<1>4. SessionInv /\ [Next]_vars => [HG!Next]_HG!vars
  <2> SUFFICES ASSUME SessionInv, [Next]_vars PROVE [HG!Next]_HG!vars
    OBVIOUS
  <2>1. ControlInv'
    BY ControlStep DEF SessionInv
  <2>2. CASE UNCHANGED <<approvals, opened>>
    BY <2>1, <2>2, ControlMapsToGate
  <2>3. ASSUME NEW p \in ProposalIds, NEW pf \in Portfolios, Decide(p, pf)
        PROVE  [HG!Next]_HG!vars
    BY <2>3, DecisionMapsToGate
  <2> QED
    BY <2>2, <2>3
       DEF Next, vars, trade, ActivateHalt, ClearEmergencyHalt,
           ClearSafetyControls, Restart, SubmitProposal, Refused, Ineffective
<1> QED  BY <1>1, <1>2, <1>3, <1>4, PTL DEF Spec, HumanGateSpec, HG!Spec
=============================================================================
