---------------------------- MODULE Dashboard_proofs ----------------------------
(***************************************************************************)
(* What the dashboard says is true of every session: of the safety state   *)
(* by the coherence of SystemState, of the budget by the reservations of   *)
(* known proposals only, both proved of TradingSession.                    *)
(***************************************************************************)
EXTENDS Dashboard, TradingSession_proofs

(* The budget and approval alerts never look like a safety alert. *)
LEMMA OtherAlerts ==
  ASSUME NEW summary, NEW risk
  PROVE  (BudgetAlerts(summary, risk) \cup ApprovalAlerts(summary))
           \subseteq {"RISK_BUDGET_EXHAUSTED", "LOW_FREE_RISK", "PENDING_APPROVALS"}
BY Zenon DEF BudgetAlerts, ApprovalAlerts

(* The code an alert gets for each reason a mutator can write. *)
LEMMA Codes ==
  /\ \A reason \in BlockReasons : CodeFor(StopCodes, reason, "STOP_CONDITION_ACTIVE") \in Stops
  /\ \A reason \in WarningReasons : CodeFor(WarningCodes, reason, "WARNING_ACTIVE") \in Warnings
BY DEF CodeFor, StopCodes, WarningCodes, BlockReasons, WarningReasons, Stops, Warnings

(* In a coherent safety state the alerts name the halt, the block or the    *)
(* warning, and the condition behind it.                                   *)
LEMMA CoherentShown == TypeOK /\ SafetyCoherent => SafetyShown
<1> SUFFICES ASSUME TypeOK, SafetyCoherent PROVE SafetyShown
  OBVIOUS
<1> DEFINE others == {"RISK_BUDGET_EXHAUSTED", "LOW_FREE_RISK", "PENDING_APPROVALS"}
<1>1. PICK rest \in SUBSET others : Alerts = SafetyAlerts(safety) \cup rest
  <2>1. Summary.safety = safety
    BY DEF Summary
  <2>2. Alerts = SafetyAlerts(safety)
                  \cup (BudgetAlerts(Summary, RiskWidget) \cup ApprovalAlerts(Summary))
    BY <2>1 DEF Alerts
  <2> QED
    BY <2>2, OtherAlerts
<1>2. safety.state \in SafetyStates /\ safety.halted \in BOOLEAN /\ safety.blocked \in BOOLEAN
  BY DEF TypeOK
<1>3. CASE safety.state = "HALTED"
  <2>1. SafetyAlerts(safety) = {"HALT_ACTIVE"}
    BY <1>3 DEF SafetyAlerts, SafetyCoherent
  <2> QED
    BY <1>1, <1>3, <2>1 DEF SafetyShown, SafetyCoherent, Stops, Warnings, Fallbacks
<1>4. CASE safety.state = "BLOCK_NEW_TRADES"
  <2>1. SafetyAlerts(safety) = {CodeFor(StopCodes, safety.reason, "STOP_CONDITION_ACTIVE")}
    BY <1>4 DEF SafetyAlerts, SafetyCoherent
  <2>2. CodeFor(StopCodes, safety.reason, "STOP_CONDITION_ACTIVE") \in Stops
    BY <1>4, Codes DEF SafetyCoherent
  <2> QED
    BY <1>1, <1>4, <2>1, <2>2 DEF SafetyShown, SafetyCoherent, Stops, Warnings, Fallbacks
<1>5. CASE safety.state = "WARNING"
  <2>1. SafetyAlerts(safety) = {CodeFor(WarningCodes, safety.reason, "WARNING_ACTIVE")}
    BY <1>5 DEF SafetyAlerts, SafetyCoherent, WarningReasons
  <2>2. CodeFor(WarningCodes, safety.reason, "WARNING_ACTIVE") \in Warnings
    BY <1>5, Codes DEF SafetyCoherent
  <2> QED
    BY <1>1, <1>5, <2>1, <2>2 DEF SafetyShown, SafetyCoherent, Stops, Warnings, Fallbacks
<1>6. CASE safety.state = "NORMAL"
  <2>1. SafetyAlerts(safety) = {}
    BY <1>6 DEF SafetyAlerts, SafetyCoherent
  <2> QED
    BY <1>1, <1>6, <2>1 DEF SafetyShown, SafetyCoherent, Stops, Warnings, Fallbacks
<1> QED
  BY <1>2, <1>3, <1>4, <1>5, <1>6 DEF SafetyStates

(* At every moment of every session the safety alert of the dashboard is    *)
(* the one of the state the guards go by.                                  *)
THEOREM SafetyAlwaysShown == Spec => []SafetyShown
<1>1. Spec => []TypeOK
  BY TypeCorrect
<1>2. Spec => []SafetyCoherent
  BY SafetyAlwaysCoherent
<1>3. TypeOK /\ SafetyCoherent => SafetyShown
  BY CoherentShown
<1> QED
  BY <1>1, <1>2, <1>3, PTL

-----------------------------------------------------------------------------
(* Why the session refuses, and what it has left. *)

(* A reservation is always of a proposal that is stored. *)
ReservationsKnown == \A p \in ProposalIds : reserved[p] # 0 => Known(p)

(* A proposal stored as executed has been opened. *)
ExecutedOpened == \A p \in ProposalIds : proposals[p].status = "EXECUTED" => opened[p] > 0

LEMMA KnownForever ==
  ASSUME TradeTypeOK, [Next]_vars, NEW p \in ProposalIds, Known(p)
  PROVE  Known(p)'
<1>1. ASSUME NEW x \in Stored PROVE x # Absent
  BY <1>1 DEF Stored, Absent, ProposalStatus
<1>2. CASE UNCHANGED proposals
  BY <1>2 DEF Known
<1>3. ASSUME NEW r \in ProposalIds, SubmitProposal(r) PROVE Known(p)'
  <2>1. Submissions \subseteq Stored
    BY ConstantsAssumption DEF ConstantsAssumption, Submissions, Stored
  <2>2. PICK submission \in Submissions : proposals' = [proposals EXCEPT ![r] = submission]
    BY <1>3 DEF SubmitProposal
  <2> QED
    BY <1>1, <2>1, <2>2 DEF Known, TradeTypeOK
<1>4. ASSUME NEW r \in ProposalIds, NEW s \in ProposalStatus, Known(r),
             proposals' = [proposals EXCEPT ![r].status = s]
      PROVE  Known(p)'
  <2>1. [proposals[r] EXCEPT !.status = s] \in Stored
    BY <1>4 DEF Known, TradeTypeOK, Stored
  <2> QED
    BY <1>1, <1>4, <2>1 DEF Known, TradeTypeOK
<1>5. ASSUME NEW r \in ProposalIds, NEW pf \in Portfolios, Known(r), Execute(r, pf)
      PROVE  Known(p)'
  <2>1. PICK accepted \in BOOLEAN : proposals' = [proposals EXCEPT ![r].status = StatusAfter(accepted)]
    BY <1>5 DEF Execute, PreExecutionCheck, RiskAccepts
  <2>2. StatusAfter(accepted) \in ProposalStatus
    BY DEF StatusAfter, ProposalStatus
  <2> QED
    BY <1>4, <1>5, <2>1, <2>2
<1>6. ASSUME NEW r \in ProposalIds, NEW q \in ProposalIds, NEW pf \in Portfolios, Modify(r, q, pf)
      PROVE  Known(p)'
  <2>1. proposals'[p] # Absent
    BY <1>6 DEF Modify, TradeTypeOK, Known, Stored, Absent
  <2> QED
    BY <2>1 DEF Known
<1>7. ASSUME NEW r \in ProposalIds, NEW pf \in Portfolios, Decide(r, pf) PROVE Known(p)'
  <2>1. CASE ApproveAndExecute(r, pf)
    BY <1>5, <2>1 DEF ApproveAndExecute, RecordApproval
  <2>2. CASE ReapproveExecuted(r, pf)
    BY <1>2, <2>2 DEF ReapproveExecuted
  <2>3. CASE ApproveOnly(r, pf)
    <3>1. Approved \in ProposalStatus
      BY DEF Approved, ProposalStatus
    <3> QED
      BY <1>4, <2>3, <3>1 DEF ApproveOnly, RecordApproval
  <2>4. CASE Reject(r, pf)
    <3>1. "REJECTED_BY_HUMAN" \in ProposalStatus
      BY DEF ProposalStatus
    <3> QED
      BY <1>4, <2>4, <3>1 DEF Reject
  <2>5. CASE ExecuteApproved(r, pf)
    <3>1. Known(r)
      BY <2>5 DEF ExecuteApproved, ReadyToExecute, Known, Approved, Absent
    <3> QED
      BY <1>5, <2>5, <3>1 DEF ExecuteApproved
  <2>6. CASE \E q \in ProposalIds : Modify(r, q, pf)
    BY <1>6, <2>6
  <2> QED
    BY <1>7, <2>1, <2>2, <2>3, <2>4, <2>5, <2>6 DEF Decide
<1> QED
  BY <1>2, <1>3, <1>7
     DEF Next, vars, trade, ActivateHalt, ClearEmergencyHalt, ClearSafetyControls,
         Restart, Refused, Ineffective

LEMMA ReservationsStep == TradeTypeOK /\ ReservationsKnown /\ [Next]_vars => ReservationsKnown'
<1> SUFFICES ASSUME TradeTypeOK, ReservationsKnown, [Next]_vars, NEW p \in ProposalIds,
                    reserved'[p] # 0
             PROVE  Known(p)'
  BY DEF ReservationsKnown
<1>1. CASE reserved'[p] \in {0, reserved[p]}
  BY <1>1, KnownForever DEF ReservationsKnown
<1>2. ASSUME NEW r \in ProposalIds, NEW q \in ProposalIds, NEW pf \in Portfolios, Modify(r, q, pf)
      PROVE  Known(p)'
  <2>1. reserved'[p] \in {0, reserved[p]} \/ p = q
    BY <1>2 DEF Modify, MovedReservation, TradeTypeOK
  <2>2. CASE p = q
    BY <1>2, <2>2 DEF Modify, TradeTypeOK, Known, Absent
  <2> QED
    BY <1>1, <2>1, <2>2
<1> QED
  BY <1>1, <1>2
     DEF Next, vars, trade, ActivateHalt, ClearEmergencyHalt, ClearSafetyControls, Restart,
         SubmitProposal, Refused, Ineffective, Decide, ApproveAndExecute, ReapproveExecuted,
         ApproveOnly, RecordApproval, Reject, ExecuteApproved

LEMMA ExecutedStep ==
  ASSUME "EXECUTED" \notin SubmitStatuses
  PROVE  TradeTypeOK /\ ExecutedOpened /\ [Next]_vars => ExecutedOpened'
<1> SUFFICES ASSUME TradeTypeOK, ExecutedOpened, [Next]_vars, NEW p \in ProposalIds,
                    proposals'[p].status = "EXECUTED"
             PROVE  opened'[p] > 0
  BY DEF ExecutedOpened
<1>1. CASE proposals'[p] = proposals[p] /\ opened'[p] >= opened[p]
  BY <1>1, TradeTypeStep DEF ExecutedOpened, TradeTypeOK
<1>2. ASSUME NEW r \in ProposalIds, SubmitProposal(r) PROVE opened'[p] > 0
  <2>1. p # r
    BY <1>2 DEF SubmitProposal, Submissions, TradeTypeOK
  <2> QED
    BY <1>1, <1>2, <2>1 DEF SubmitProposal, TradeTypeOK
<1>3. ASSUME NEW r \in ProposalIds, NEW pf \in Portfolios, Known(r), Execute(r, pf)
      PROVE  opened'[p] > 0
  <2>1. PICK accepted \in BOOLEAN :
          /\ proposals' = [proposals EXCEPT ![r].status = StatusAfter(accepted)]
          /\ opened' = [opened EXCEPT ![r] = IF accepted THEN @ + 1 ELSE @]
    BY <1>3 DEF Execute, PreExecutionCheck, RiskAccepts
  <2>2. CASE p = r
    <3>1. proposals'[p].status = StatusAfter(accepted)
      BY <1>3, <2>1, <2>2 DEF TradeTypeOK, Known, Stored
    <3> QED
      BY <2>1, <2>2, <3>1 DEF StatusAfter, TradeTypeOK
  <2>3. CASE p # r
    BY <1>1, <2>1, <2>3 DEF TradeTypeOK
  <2> QED
    BY <2>2, <2>3
<1>4. ASSUME NEW r \in ProposalIds, NEW pf \in Portfolios, Decide(r, pf)
      PROVE  opened'[p] > 0
  <2>1. CASE ApproveAndExecute(r, pf)
    BY <1>3, <2>1 DEF ApproveAndExecute, RecordApproval
  <2>2. CASE ReapproveExecuted(r, pf)
    BY <1>1, <2>2 DEF ReapproveExecuted, TradeTypeOK
  <2>3. CASE ApproveOnly(r, pf)
    <3>1. p # r
      BY <2>3 DEF ApproveOnly, RecordApproval, TradeTypeOK, Known, Stored, Approved
    <3> QED
      BY <1>1, <2>3, <3>1 DEF ApproveOnly, TradeTypeOK
  <2>4. CASE Reject(r, pf)
    <3>1. p # r
      BY <2>4 DEF Reject, TradeTypeOK, Known, Stored
    <3> QED
      BY <1>1, <2>4, <3>1 DEF Reject, TradeTypeOK
  <2>5. CASE ExecuteApproved(r, pf)
    <3>1. Known(r)
      BY <2>5 DEF ExecuteApproved, ReadyToExecute, Known, Approved, Absent
    <3> QED
      BY <1>3, <2>5, <3>1 DEF ExecuteApproved
  <2>6. ASSUME NEW q \in ProposalIds, Modify(r, q, pf) PROVE opened'[p] > 0
    <3>1. proposals'[p] = proposals[p]
      BY <2>6 DEF Modify, TradeTypeOK, Known, Stored
    <3> QED
      BY <1>1, <2>6, <3>1 DEF Modify, TradeTypeOK
  <2> QED
    BY <1>4, <2>1, <2>2, <2>3, <2>4, <2>5, <2>6 DEF Decide
<1> QED
  BY <1>1, <1>2, <1>4
     DEF Next, vars, trade, ActivateHalt, ClearEmergencyHalt, ClearSafetyControls,
         Restart, Refused, Ineffective, TradeTypeOK

(* Executions that are shown are positions that were opened. *)
LEMMA OpenedShown ==
  ASSUME IsFiniteSet(ProposalIds), TradeTypeOK, ExecutedOpened
  PROVE  ShownExecutionsOpened
<1> DEFINE shown == With({"EXECUTED"})
           positions == {p \in ProposalIds : opened[p] > 0}
<1>1. shown \subseteq positions
  BY DEF With, Trades, ExecutedOpened
<1>2. IsFiniteSet(positions)
  BY FS_Subset
<1>3. Cardinality(shown) <= Cardinality(positions)
  BY <1>1, <1>2, FS_Subset
<1> QED
  BY <1>3 DEF ShownExecutionsOpened, Summary

(* The active risk of the widget is a sum of risks. *)
LEMMA ActiveRiskType ==
  ASSUME IsFiniteSet(ProposalIds), TradeTypeOK
  PROVE  ActiveRisk \in Nat
<1> DEFINE active == [p \in ProposalIds |->
             IF p \in With({"EXECUTED", "EXECUTION_READY", Approved}) THEN proposals[p].risk ELSE 0]
<1>1. ASSUME NEW p \in ProposalIds PROVE active[p] \in Nat
  BY ConstantsAssumption DEF ConstantsAssumption, With, Trades, Known, TradeTypeOK, Stored
<1>2. active \in [ProposalIds -> Nat]
  BY <1>1
<1>3. ActiveRisk = Total(active)
  BY FoldIsTotal DEF ActiveRisk
<1> HIDE DEF active
<1> QED
  BY <1>2, <1>3, TotalType

LEMMA FreeRiskValue ==
  ASSUME IsFiniteSet(ProposalIds), TradeTypeOK
  PROVE  /\ RiskWidget.free = FreeRisk
         /\ FreeRisk <= 0 \/ FreeRisk + TotalReserved <= MaxRisk
         /\ TotalReserved >= MaxRisk => FreeRisk <= 0
<1>1. ActiveRisk \in Nat /\ TotalReserved \in Nat /\ MaxRisk \in Nat
  BY ActiveRiskType, TotalReservedType, ConstantsAssumption DEF ConstantsAssumption
<1> QED
  BY <1>1 DEF RiskWidget, FreeRisk, Largest

(* For a clean portfolio only the halt or the reservations refuse. *)
LEMMA CleanAdmitted ==
  ASSUME IsFiniteSet(ProposalIds), TypeOK, MaxDrawdown > 0, MaxPositions > 0
  PROVE  Admitted(Clean) <=> ~safety.halted /\ TotalReserved < MaxRisk
<1>1. TotalReserved \in Nat /\ MaxRisk \in Nat /\ MaxDrawdown \in Nat /\ MaxPositions \in Nat
  BY TotalReservedType, ConstantsAssumption DEF ConstantsAssumption, TypeOK, TradeTypeOK
<1>2. BlockReason(Clean) = IF TotalReserved >= MaxRisk THEN "RISK" ELSE "NONE"
  BY <1>1 DEF BlockReason, Clean
<1>3. CASE safety.halted
  BY <1>3 DEF Admitted, Evaluated
<1>4. CASE ~safety.halted /\ TotalReserved >= MaxRisk
  BY <1>1, <1>2, <1>4 DEF Admitted, Evaluated, SetBlock, TypeOK
<1>5. CASE ~safety.halted /\ ~(TotalReserved >= MaxRisk)
  <2>1. ClearBlock(safety) = NormalState
    BY <1>5 DEF ClearBlock
  <2>2. ~SetWarning(NormalState, WarningReason(Clean)).halted
        /\ ~SetWarning(NormalState, WarningReason(Clean)).blocked
    BY DEF SetWarning, NormalState
  <2>3. ~ClearWarning(NormalState).halted /\ ~ClearWarning(NormalState).blocked
    BY DEF ClearWarning, NormalState
  <2>4. Admitted(Clean)
    BY <1>2, <1>5, <2>1, <2>2, <2>3 DEF Admitted, Evaluated
  <2> QED
    BY <1>1, <1>5, <2>4
<1> QED
  BY <1>3, <1>4, <1>5

(* A refusal of everything has a critical alert. *)
LEMMA RefusalShown ==
  ASSUME IsFiniteSet(ProposalIds), MaxDrawdown > 0, MaxPositions > 0, MaxRisk > 0,
         TypeOK, SafetyShown, ReservationsKnown
  PROVE  FreezeShown
<1> SUFFICES ASSUME ~Admitted(Clean)
             PROVE  Alerts \cap ({"HALT_ACTIVE", "RISK_BUDGET_EXHAUSTED"} \cup Stops) # {}
  BY DEF FreezeShown
<1>1. CASE safety.halted
  BY <1>1 DEF SafetyShown
<1>2. CASE ~safety.halted
  <2>1. TradeTypeOK
    BY DEF TypeOK, TradeTypeOK
  <2>2. TotalReserved \in Nat /\ MaxRisk \in Nat /\ TotalReserved = Total(reserved)
    BY <2>1, TotalReservedType, ConstantsAssumption DEF ConstantsAssumption
  <2>3. TotalReserved >= MaxRisk
    BY <1>2, <2>2, CleanAdmitted
  <2>4. PICK p \in ProposalIds : reserved[p] # 0
    <3>1. CASE \A p \in ProposalIds : reserved[p] = 0
      <4>1. reserved \in [ProposalIds -> {0}]
        BY <2>1, <3>1 DEF TradeTypeOK
      <4> QED
        BY <2>2, <2>3, <4>1, TotalOfZeros
    <3> QED
      BY <3>1
  <2>5. Summary.total # 0
    <3>1. p \in Trades
      BY <2>4 DEF Trades, ReservationsKnown
    <3>2. IsFiniteSet(Trades)
      BY FS_Subset DEF Trades
    <3> QED
      BY <3>1, <3>2, FS_EmptySet DEF Summary
  <2>6. RiskWidget.free <= 0
    BY <2>1, <2>3, FreeRiskValue
  <2>7. "RISK_BUDGET_EXHAUSTED" \in BudgetAlerts(Summary, RiskWidget)
    BY <2>5, <2>6 DEF BudgetAlerts
  <2> QED
    BY <2>7 DEF Alerts
<1> QED
  BY <1>1, <1>2

(* The budget that is shown can be spent. *)
LEMMA BudgetShown ==
  ASSUME IsFiniteSet(ProposalIds), MaxDrawdown > 0, MaxPositions > 0, TypeOK
  PROVE  ShownBudgetIsFree
<1> SUFFICES ASSUME ~safety.halted, NEW risk \in Risks, risk <= RiskWidget.free
             PROVE  Admitted(Clean) /\ RiskAccepts(risk, Clean, TRUE)
  BY DEF ShownBudgetIsFree
<1>1. TradeTypeOK
  BY DEF TypeOK, TradeTypeOK
<1>2. /\ TotalReserved \in Nat /\ MaxRisk \in Nat
      /\ MaxDrawdown \in Nat /\ MaxPositions \in Nat
      /\ risk \in Nat /\ risk > 0
  BY <1>1, TotalReservedType, ConstantsAssumption DEF ConstantsAssumption
<1>3. FreeRisk \in Int
  BY <1>1, <1>2, ActiveRiskType DEF FreeRisk, Largest
<1>4. risk + TotalReserved <= MaxRisk
  BY <1>1, <1>2, <1>3, FreeRiskValue
<1>5. Admitted(Clean)
  BY <1>2, <1>4, CleanAdmitted
<1>6. RiskAccepts(risk, Clean, TRUE)
  BY <1>2, <1>4 DEF RiskAccepts, Clean
<1> QED
  BY <1>5, <1>6

(* With limits above zero, and if no proposal is submitted as executed, the *)
(* dashboard tells at every moment of every session what the session will   *)
(* do: the safety states, why it refuses everything, what risk can still be *)
(* taken, what was executed.                                               *)
THEOREM DashboardAlwaysTells ==
  ASSUME IsFiniteSet(ProposalIds), MaxDrawdown > 0, MaxPositions > 0, MaxRisk > 0,
         "EXECUTED" \notin SubmitStatuses
  PROVE  Spec => []DashboardTellsSession
<1>1. Init => TradeTypeOK /\ ReservationsKnown /\ ExecutedOpened
  <2>1. Init => TradeTypeOK
    BY TypeInit DEF TypeOK, TradeTypeOK
  <2>2. Init => ReservationsKnown /\ ExecutedOpened
    BY DEF Init, ReservationsKnown, ExecutedOpened, Absent
  <2> QED
    BY <2>1, <2>2
<1>2. TradeTypeOK /\ ReservationsKnown /\ ExecutedOpened /\ [Next]_vars
        => (TradeTypeOK /\ ReservationsKnown /\ ExecutedOpened)'
  BY TradeTypeStep, ReservationsStep, ExecutedStep
<1>3. TypeOK /\ SafetyShown /\ TradeTypeOK /\ ReservationsKnown /\ ExecutedOpened
        => DashboardTellsSession
  BY RefusalShown, BudgetShown, OpenedShown DEF DashboardTellsSession
<1>4. Spec => []TypeOK
  BY TypeCorrect
<1>5. Spec => []SafetyShown
  BY SafetyAlwaysShown
<1> QED
  BY <1>1, <1>2, <1>3, <1>4, <1>5, PTL DEF Spec

=================================================================================
