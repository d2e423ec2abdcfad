------------------------------- MODULE Dashboard -------------------------------
(***************************************************************************)
(* What the operator is shown of a TradingSession: the session summary,    *)
(* the risk widget, the alerts and the outcome counts of the dashboard,    *)
(* computed from the session's stores on every request.                    *)
(***************************************************************************)
EXTENDS TradingSession, FiniteSets

CONSTANT LowFreeRisk   \* a quarter percent, in units of Risks

ASSUME DashboardAssumption == LowFreeRisk \in Nat

Trades == {p \in ProposalIds : Known(p)}
With(statuses) == {p \in Trades : proposals[p].status \in statuses}
Largest(a, b) == IF a >= b THEN a ELSE b
Smallest(a, b) == IF a <= b THEN a ELSE b

RejectedStatuses == {"REJECTED_BY_RISK", "REJECTED_BY_HUMAN", "REJECTED_PRE_EXECUTION"}

\* SessionSummary: the counters the alerts and the widgets use, and the safety state.
Summary ==
  [total |-> Cardinality(Trades),
   executed |-> Cardinality(With({"EXECUTED"})),
   rejected |-> Cardinality(With(RejectedStatuses)),
   pending |-> Cardinality(With({"PENDING_APPROVAL"})),
   safety |-> safety]

-----------------------------------------------------------------------------
(* The risk widget. *)

ActiveRisk ==
  FoldFunction(+, 0, [p \in ProposalIds |->
    IF p \in With({"EXECUTED", "EXECUTION_READY", Approved}) THEN proposals[p].risk ELSE 0])

(* Mutant of FreeRisk: the reservations are not taken off. *)
FreeRiskUnreserved == Largest(0, MaxRisk - ActiveRisk)

FreeRisk == Largest(0, MaxRisk - ActiveRisk - TotalReserved)

RiskWidget ==
  [active |-> ActiveRisk, reserved |-> TotalReserved, limit |-> MaxRisk, free |-> FreeRisk]

-----------------------------------------------------------------------------
(* The alerts. *)

\* The codes are chosen by the text of the reason.
StopCodes ==
  [DRAWDOWN |-> "STOP_DAILY_DRAWDOWN", POSITIONS |-> "STOP_MAX_OPEN_POSITIONS",
   RISK |-> "STOP_AGGREGATE_RISK"]

WarningCodes ==
  [DRAWDOWN_NEAR |-> "WARN_DAILY_DRAWDOWN", POSITIONS_NEAR |-> "WARN_MAX_OPEN_POSITIONS",
   RISK_NEAR |-> "WARN_AGGREGATE_RISK"]

CodeFor(codes, reason, fallback) == IF reason \in DOMAIN codes THEN codes[reason] ELSE fallback

SafetyAlerts(s) ==
  IF s.halted THEN {"HALT_ACTIVE"}
  ELSE IF s.blocked THEN {CodeFor(StopCodes, s.reason, "STOP_CONDITION_ACTIVE")}
  ELSE IF s.state = "WARNING" /\ s.reason # "NONE" THEN {CodeFor(WarningCodes, s.reason, "WARNING_ACTIVE")}
  ELSE {}

\* LOW_FREE_RISK below a quarter percent and a quarter of the limit.
BudgetAlerts(summary, risk) ==
  IF summary.total = 0 THEN {}
  ELSE IF risk.free <= 0 THEN {"RISK_BUDGET_EXHAUSTED"}
  ELSE IF 4 * risk.free <= Smallest(4 * LowFreeRisk, risk.limit) THEN {"LOW_FREE_RISK"}
  ELSE {}

ApprovalAlerts(summary) == IF summary.pending > 0 THEN {"PENDING_APPROVALS"} ELSE {}

Alerts ==
  SafetyAlerts(Summary.safety) \cup ApprovalAlerts(Summary) \cup BudgetAlerts(Summary, RiskWidget)

-----------------------------------------------------------------------------
(* Properties. *)

Stops == {"STOP_DAILY_DRAWDOWN", "STOP_MAX_OPEN_POSITIONS", "STOP_AGGREGATE_RISK"}
Warnings == {"WARN_DAILY_DRAWDOWN", "WARN_MAX_OPEN_POSITIONS", "WARN_AGGREGATE_RISK"}
Fallbacks == {"STOP_CONDITION_ACTIVE", "WARNING_ACTIVE"}

(* The alerts name what the guards on a command go by: the halt, a block    *)
(* with its condition, a warning with its condition, never a fallback.      *)
SafetyShown ==
  /\ "HALT_ACTIVE" \in Alerts <=> safety.halted
  /\ Stops \cap Alerts # {} <=> safety.blocked /\ ~safety.halted
  /\ Warnings \cap Alerts # {} <=> safety.state = "WARNING"
  /\ Fallbacks \cap Alerts = {}

\* The portfolio the Telegram handlers report with every command.
Clean == [drawdown |-> 0, openRisk |-> 0, positions |-> 0]

(* A session that refuses every command, even with a clean portfolio, says  *)
(* so in a critical alert.                                                 *)
FreezeShown ==
  ~Admitted(Clean) => Alerts \cap ({"HALT_ACTIVE", "RISK_BUDGET_EXHAUSTED"} \cup Stops) # {}

(* The free budget is never shown larger than it is: unless halted, a       *)
(* clean portfolio may take any risk that fits in it.                       *)
ShownBudgetIsFree ==
  ~safety.halted =>
    \A risk \in Risks :
      risk <= RiskWidget.free => Admitted(Clean) /\ RiskAccepts(risk, Clean, TRUE)

(* Every execution that is shown as such opened a position.                 *)
ShownExecutionsOpened ==
  Summary.executed <= Cardinality({p \in ProposalIds : opened[p] > 0})

(* The dashboard tells the operator what the session will do: its safety    *)
(* states ("dashboard visibility for those states", README.md:590), why it  *)
(* refuses everything, what risk can still be taken, what was executed.     *)
DashboardTellsSession ==
  /\ SafetyShown
  /\ FreezeShown
  /\ ShownBudgetIsFree
  /\ ShownExecutionsOpened

=============================================================================
