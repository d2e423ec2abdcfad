--------------------------- MODULE TradingSession ---------------------------
(***************************************************************************)
(* One trading session of cex_tbot, as the backend service runs it in      *)
(* paper-simulation mode: the proposals and their statuses, the pending     *)
(* risk book, the safety state with its audit trail, the APPROVE decisions  *)
(* recorded and the positions opened.                                      *)
(*                                                                         *)
(* Every action is one complete handler of TradingBackendService, from the  *)
(* evaluation of the stop conditions to the last store it writes; the      *)
(* requests are taken one at a time here, as the CLI and the Telegram loop  *)
(* take them.  A request brings its own portfolio, clock and replacement,   *)
(* so these are inputs of the actions.                                     *)
(***************************************************************************)
EXTENDS Integers, Functions

CONSTANTS
  ProposalIds,      \* identifiers proposals can have
  SubmitStatuses,   \* statuses a submitted proposal can carry
  Risks,            \* values of risk_percent, in units of the smallest one
  Portfolios,       \* portfolios a request can report
  LeastOpenRisk,    \* a lower bound of their open risk, 0 or negative
  MaxDrawdown,      \* config.max_daily_drawdown_percent
  MaxPositions,     \* config.max_open_positions
  MaxRisk,          \* config.max_aggregate_open_risk_percent, in units of Risks
  MaxVersion,       \* bound: the highest proposal_version explored
  MaxApprovals      \* bound: APPROVE decisions explored in all

ProposalStatus ==
  {"GENERATED", "REJECTED_BY_RISK", "PENDING_APPROVAL", "REJECTED_BY_HUMAN",
   "MODIFY_REQUESTED", "SUPERSEDED", "APPROVED_PENDING_EXECUTION_CHECK",
   "REJECTED_PRE_EXECUTION", "EXPIRED", "INVALIDATED", "EXECUTION_READY",
   "EXECUTED", "CANCELLED"}

(* A proposal risks a positive percentage, as its contract demands           *)
(* (proposal_contract.py:80).  A portfolio is what the caller reports: no    *)
(* sign is checked.                                                        *)
ASSUME ConstantsAssumption ==
  /\ SubmitStatuses \subseteq ProposalStatus
  /\ Risks \subseteq Nat \ {0}
  /\ Portfolios \subseteq [drawdown : Int, openRisk : Int, positions : Int]
  /\ LeastOpenRisk \in Int /\ LeastOpenRisk <= 0
  /\ \A pf \in Portfolios : LeastOpenRisk <= pf.openRisk
  /\ MaxDrawdown \in Nat /\ MaxPositions \in Nat /\ MaxRisk \in Nat
  /\ MaxVersion \in Nat /\ MaxApprovals \in Nat

VARIABLES
  proposals,     \* per identifier, the stored proposal, or Absent
  reserved,      \* PendingRiskBook.reservations; 0 when there is none
  safety,        \* SystemState
  lastControl,   \* last outcome in the transcript that switches halt or block
  approvals,     \* per identifier, the APPROVE decisions in its history
  opened         \* per identifier, the POSITION_OPENED events in the journal

vars == <<proposals, reserved, safety, lastControl, approvals, opened>>
trade == <<proposals, reserved, approvals, opened>>
control == <<safety, lastControl>>

Approved == "APPROVED_PENDING_EXECUTION_CHECK"
Absent == [status |-> "ABSENT", version |-> 0, risk |-> 0]
Stored == [status : ProposalStatus, version : Nat, risk : Risks]

Known(p) == proposals[p] # Absent

-----------------------------------------------------------------------------
(* The safety state, SystemState and its mutators. *)

SafetyStates == {"NORMAL", "WARNING", "BLOCK_NEW_TRADES", "HALTED"}
BlockReasons == {"DRAWDOWN", "POSITIONS", "RISK"}
WarningReasons == {"DRAWDOWN_NEAR", "POSITIONS_NEAR", "RISK_NEAR"}
Reasons == {"NONE", "HALT"} \cup BlockReasons \cup WarningReasons

NormalState ==
  [halted |-> FALSE, state |-> "NORMAL", blocked |-> FALSE, reason |-> "NONE"]

HaltedState ==
  [halted |-> TRUE, state |-> "HALTED", blocked |-> TRUE, reason |-> "HALT"]

(* Mutant of ClearHalt: the block is left on. *)
ClearHaltKeepsBlock(s) == [s EXCEPT !.halted = FALSE, !.state = "NORMAL"]

ClearHalt(s) == NormalState

(* Mutant of SetBlock: reason and safety state swapped. *)
SetBlockSwapped(s, r) ==
  [s EXCEPT !.blocked = TRUE, !.reason = "BLOCK_NEW_TRADES", !.state = r]

SetBlock(s, r) ==
  [s EXCEPT !.blocked = TRUE, !.reason = r, !.state = "BLOCK_NEW_TRADES"]

ClearBlock(s) == IF s.halted THEN s ELSE NormalState

SetWarning(s, r) ==
  IF s.halted \/ s.blocked THEN s ELSE [s EXCEPT !.state = "WARNING", !.reason = r]

ClearWarning(s) ==
  IF s.halted \/ s.blocked \/ s.state # "WARNING" THEN s
  ELSE [s EXCEPT !.state = "NORMAL", !.reason = "NONE"]

-----------------------------------------------------------------------------
(* The risk engine. *)

TotalReserved == FoldFunction(+, 0, reserved)

(* Mutant of RiskAccepts: the reservations are forgotten. *)
RiskAcceptsUnreserved(risk, pf, fits) ==
  /\ risk <= MaxRisk /\ fits
  /\ pf.positions < MaxPositions
  /\ pf.drawdown < MaxDrawdown
  /\ pf.openRisk + risk <= MaxRisk

(* RiskEngine.evaluate.  "fits" stands for the checks of                   *)
(* check_proposal_consistency that depend on prices and on the equity the  *)
(* request reports: stop distance, averaging down, risk_usd.               *)
RiskAccepts(risk, pf, fits) ==
  /\ risk <= MaxRisk /\ fits
  /\ pf.positions < MaxPositions
  /\ pf.drawdown < MaxDrawdown
  /\ pf.openRisk + TotalReserved + risk <= MaxRisk

(* RiskEngine.pre_execution_check.  "timely": not expired at the request's *)
(* clock, and a data freshness that is not negative.                       *)
PreExecutionCheck(risk, pf, timely, fits) == timely /\ RiskAccepts(risk, pf, fits)

(* A modification that passed the risk check moves the reservation. *)
MovedReservation(old, new, risk) == [reserved EXCEPT ![old] = 0, ![new] = risk]

-----------------------------------------------------------------------------
(* SafetyController.evaluate, run first by every command and execution. *)

(* Mutant of BlockReason: an exactly exhausted budget is let through. *)
BlockReasonStrict(pf) ==
  IF pf.drawdown >= MaxDrawdown THEN "DRAWDOWN"
  ELSE IF pf.positions >= MaxPositions THEN "POSITIONS"
  ELSE IF TotalReserved + pf.openRisk > MaxRisk THEN "RISK"
  ELSE "NONE"

BlockReason(pf) ==
  IF pf.drawdown >= MaxDrawdown THEN "DRAWDOWN"
  ELSE IF pf.positions >= MaxPositions THEN "POSITIONS"
  ELSE IF TotalReserved + pf.openRisk >= MaxRisk THEN "RISK"
  ELSE "NONE"

WarningReason(pf) ==
  IF MaxDrawdown > 0 /\ 10 * pf.drawdown >= 8 * MaxDrawdown THEN "DRAWDOWN_NEAR"
  ELSE IF MaxPositions > 1 /\ pf.positions >= MaxPositions - 1 THEN "POSITIONS_NEAR"
  ELSE IF MaxRisk > 0 /\ 10 * (TotalReserved + pf.openRisk) >= 8 * MaxRisk
       THEN "RISK_NEAR"
  ELSE "NONE"

Evaluated(pf) ==
  IF safety.halted THEN safety
  ELSE IF BlockReason(pf) # "NONE" THEN SetBlock(safety, BlockReason(pf))
  ELSE IF WarningReason(pf) # "NONE"
       THEN SetWarning(ClearBlock(safety), WarningReason(pf))
  ELSE ClearWarning(ClearBlock(safety))

(* Mutant of EvaluatedControl: lifting a block is not audited. *)
EvaluatedControlSilentOff(pf) ==
  IF ~safety.halted /\ BlockReason(pf) # "NONE"
     /\ ~(safety.blocked /\ safety.reason = BlockReason(pf))
  THEN "AUTO_BLOCK_ON" ELSE lastControl

EvaluatedControl(pf) ==
  IF safety.halted THEN lastControl
  ELSE IF BlockReason(pf) # "NONE"
       THEN IF safety.blocked /\ safety.reason = BlockReason(pf)
            THEN lastControl ELSE "AUTO_BLOCK_ON"
  ELSE IF safety.blocked THEN "AUTO_BLOCK_OFF" ELSE lastControl

EvaluateStopConditions(pf) ==
  /\ safety' = Evaluated(pf)
  /\ lastControl' = EvaluatedControl(pf)

(* Mutant of Admitted: no check. *)
AdmittedAlways(pf) == TRUE

(* Neither the halt nor a block stands after the evaluation. *)
Admitted(pf) == ~Evaluated(pf).halted /\ ~Evaluated(pf).blocked

-----------------------------------------------------------------------------
(* Operator and agent actions. *)

Init ==
  /\ proposals = [p \in ProposalIds |-> Absent]
  /\ reserved = [p \in ProposalIds |-> 0]
  /\ safety = NormalState
  /\ lastControl = "NONE"
  /\ approvals = [p \in ProposalIds |-> 0]
  /\ opened = [p \in ProposalIds |-> 0]

(* What ProposalPayloadMapper makes of a submitted payload: the status and  *)
(* the version are the payload's own.                                      *)
Submissions == [status : SubmitStatuses, version : 1..MaxVersion, risk : Risks]

(* submit_proposal: an upsert, whatever is stored under the identifier. *)
SubmitProposal(p) ==
  /\ \E submission \in Submissions :
        proposals' = [proposals EXCEPT ![p] = submission]
  /\ UNCHANGED <<reserved, safety, lastControl, approvals, opened>>

ActivateHalt ==
  /\ safety' = HaltedState
  /\ lastControl' = "HALT_ON"
  /\ UNCHANGED trade

ClearEmergencyHalt ==
  /\ safety' = ClearHalt(safety)
  /\ lastControl' = "HALT_OFF"
  /\ UNCHANGED trade

(* clear_safety_controls: skipped under a halt, audited if it had an effect. *)
ClearSafetyControls ==
  /\ ~safety.halted
  /\ safety' = ClearWarning(ClearBlock(safety))
  /\ lastControl' = IF safety.blocked \/ safety.state = "WARNING"
                    THEN "CLEAR_SAFETY" ELSE lastControl
  /\ UNCHANGED trade

(* A command or an execution request that the halt or a block stops. *)
Refused(pf) ==
  /\ ~Admitted(pf)
  /\ EvaluateStopConditions(pf)
  /\ UNCHANGED trade

(* An admitted request that decides nothing: text outside the grammar, a   *)
(* MODIFY without replacement, an unknown identifier, an EXECUTE of a       *)
(* proposal that is not ready.                                             *)
Ineffective(pf) ==
  /\ Admitted(pf)
  /\ EvaluateStopConditions(pf)
  /\ UNCHANGED trade

TotalApprovals == FoldFunction(+, 0, approvals)

(* An admitted APPROVE is recorded in the history of p. *)
RecordApproval(p, pf) ==
  /\ Known(p)
  /\ TotalApprovals < MaxApprovals
  /\ Admitted(pf)
  /\ EvaluateStopConditions(pf)
  /\ approvals' = [approvals EXCEPT ![p] = @ + 1]
  /\ UNCHANGED reserved

(* Mutant of StatusAfter: a successful execution is not stored. *)
StatusAfterForgotten(accepted) ==
  IF accepted THEN Approved ELSE "REJECTED_PRE_EXECUTION"

StatusAfter(accepted) == IF accepted THEN "EXECUTED" ELSE "REJECTED_PRE_EXECUTION"

(* ExecutionOrchestrator.execute and the status update of its caller. *)
Execute(p, pf) ==
  \E timely, fits \in BOOLEAN :
    LET accepted == PreExecutionCheck(proposals[p].risk, pf, timely, fits)
    IN  /\ proposals' = [proposals EXCEPT ![p].status = StatusAfter(accepted)]
        /\ opened' = [opened EXCEPT ![p] = IF accepted THEN @ + 1 ELSE @]

(* APPROVE with execute_on_approve: approve_and_execute. *)
ApproveAndExecute(p, pf) ==
  /\ proposals[p].status # "EXECUTED"
  /\ RecordApproval(p, pf)
  /\ Execute(p, pf)

(* APPROVE of an executed proposal only records the decision. *)
ReapproveExecuted(p, pf) ==
  /\ proposals[p].status = "EXECUTED"
  /\ RecordApproval(p, pf)
  /\ UNCHANGED <<proposals, opened>>

(* APPROVE without execute_on_approve: approve_only. *)
ApproveOnly(p, pf) ==
  /\ RecordApproval(p, pf)
  /\ proposals' = [proposals EXCEPT ![p].status = Approved]
  /\ UNCHANGED opened

(* Mutant of Reject: the decision is recorded, the status stays. *)
RejectForgets(p, pf) ==
  /\ Known(p)
  /\ Admitted(pf)
  /\ EvaluateStopConditions(pf)
  /\ UNCHANGED <<proposals, reserved, approvals, opened>>

Reject(p, pf) ==
  /\ Known(p)
  /\ Admitted(pf)
  /\ EvaluateStopConditions(pf)
  /\ proposals' = [proposals EXCEPT ![p].status = "REJECTED_BY_HUMAN"]
  /\ UNCHANGED <<reserved, approvals, opened>>

(* MODIFY of p with a replacement stored under q, which may already exist.  *)
(* The old reservation counts in the risk check and is released after it,  *)
(* and only if the check accepted the replacement.                         *)
Modify(p, q, pf) ==
  /\ Known(p)
  /\ proposals[p].version < MaxVersion
  /\ Admitted(pf)
  /\ EvaluateStopConditions(pf)
  /\ \E risk \in Risks, fits \in BOOLEAN :
       LET accepted == RiskAccepts(risk, pf, fits)
       IN  /\ proposals' = [proposals EXCEPT
                 ![p].status = "SUPERSEDED",
                 ![q] = [status |-> IF accepted THEN "PENDING_APPROVAL"
                                    ELSE "REJECTED_BY_RISK",
                         version |-> proposals[p].version + 1,
                         risk |-> risk]]
           /\ reserved' = IF accepted THEN MovedReservation(p, q, risk) ELSE reserved
  /\ UNCHANGED <<approvals, opened>>

(* Mutant of ReadyToExecute: any approved or pending proposal will do. *)
ReadyToExecuteLoose(p) == proposals[p].status \in {Approved, "PENDING_APPROVAL"}

ReadyToExecute(p) == proposals[p].status = Approved

(* execute_approved_proposal. *)
ExecuteApproved(p, pf) ==
  /\ ReadyToExecute(p)
  /\ Admitted(pf)
  /\ EvaluateStopConditions(pf)
  /\ Execute(p, pf)
  /\ UNCHANGED <<reserved, approvals>>

(* The process ends between two requests and a new one opens the same      *)
(* storage directory: the risk book is rebuilt empty, the files persist.   *)
Restart ==
  /\ reserved' = [p \in ProposalIds |-> 0]
  /\ UNCHANGED <<proposals, safety, lastControl, approvals, opened>>

Decide(p, pf) ==
  \/ ApproveAndExecute(p, pf)
  \/ ReapproveExecuted(p, pf)
  \/ ApproveOnly(p, pf)
  \/ Reject(p, pf)
  \/ ExecuteApproved(p, pf)
  \/ \E q \in ProposalIds : Modify(p, q, pf)

Next ==
  \/ ActivateHalt
  \/ ClearEmergencyHalt
  \/ ClearSafetyControls
  \/ Restart
  \/ \E p \in ProposalIds : SubmitProposal(p)
  \/ \E pf \in Portfolios :
       \/ Refused(pf)
       \/ Ineffective(pf)
       \/ \E p \in ProposalIds : Decide(p, pf)

Spec == Init /\ [][Next]_vars

-----------------------------------------------------------------------------
(* Properties. *)

(* Type correctness: what is stored is a proposal with a status of the      *)
(* enumeration, and SystemState holds one of its four safety states with a  *)
(* reason some mutator wrote.                                              *)
TypeOK ==
  /\ proposals \in [ProposalIds -> Stored \cup {Absent}]
  /\ reserved \in [ProposalIds -> Risks \cup {0}]
  /\ safety \in [halted : BOOLEAN, state : SafetyStates,
                 blocked : BOOLEAN, reason : Reasons]
  /\ lastControl \in {"NONE", "HALT_ON", "HALT_OFF", "CLEAR_SAFETY",
                      "AUTO_BLOCK_ON", "AUTO_BLOCK_OFF"}
  /\ approvals \in [ProposalIds -> Nat]
  /\ opened \in [ProposalIds -> Nat]

(* The five fields of SystemState, written by six mutators that each set    *)
(* some of them, never contradict each other: a dashboard that shows        *)
(* safety_state and block_reason shows what the guards on                   *)
(* emergency_halt_active and block_new_trades do.                          *)
SafetyCoherent ==
  /\ safety.halted <=> safety.state = "HALTED"
  /\ safety.blocked <=> safety.state \in {"BLOCK_NEW_TRADES", "HALTED"}
  /\ safety.state = "NORMAL" => safety.reason = "NONE"
  /\ safety.state = "WARNING" => safety.reason \in WarningReasons
  /\ safety.state = "BLOCK_NEW_TRADES" => safety.reason \in BlockReasons
  /\ safety.state = "HALTED" => safety.reason = "HALT"

(* The operator transcript tells the truth about the safety state: reading  *)
(* its last switching entry, one knows if the halt or a block is on.  The   *)
(* entries are appended by three handlers and by the automatic evaluation,  *)
(* which skips repeated ones.                                              *)
AuditReplaysSafety ==
  /\ safety.halted <=> lastControl = "HALT_ON"
  /\ safety.blocked <=> lastControl \in {"HALT_ON", "AUTO_BLOCK_ON"}

(* The risk set aside for modified proposals, over any series of MODIFY     *)
(* commands that reuse identifiers, never exceeds the aggregate risk limit, *)
(* except by what a caller reports as negative open risk (nothing checks    *)
(* the sign), and by that once, not once per command.                      *)
ReservedWithinBudget == TotalReserved <= MaxRisk - LeastOpenRisk

(* Every position opened for p used up an APPROVE decision of its own, and  *)
(* a proposal waiting for EXECUTE still holds one: no retry of EXECUTE, no  *)
(* rejection, resubmission or restart opens a position nobody approved.     *)
(* It needs that no proposal is submitted as already approved.             *)
OpenedByApproval ==
  \A p \in ProposalIds :
    opened[p] + (IF proposals[p].status = Approved THEN 1 ELSE 0) <= approvals[p]

(* Under the emergency halt no command takes effect, whatever portfolio it  *)
(* reports: no decision is recorded, nothing is opened or reserved, and a   *)
(* proposal changes only by being submitted (README.md:590).               *)
HaltFreezesTrading ==
  [][safety.halted =>
       /\ approvals' = approvals /\ opened' = opened
       /\ \A p \in ProposalIds :
            /\ reserved'[p] \in {0, reserved[p]}
            /\ \/ proposals'[p] = proposals[p]
               \/ proposals'[p].status \in SubmitStatuses]_vars

(* Once the reservations exhaust the risk budget, also for the caller that  *)
(* reports the least open risk, no command has an effect any more: no       *)
(* approval, no opening, no reservation.  Only a restart, which empties the *)
(* book, ends this.                                                        *)
ExhaustedBudgetFreezes ==
  [][TotalReserved >= MaxRisk - LeastOpenRisk =>
       /\ approvals' = approvals /\ opened' = opened
       /\ \A p \in ProposalIds : reserved'[p] \in {0, reserved[p]}]_vars

(* The session implements the abstract promise to the operator. *)
HG == INSTANCE HumanGate WITH
        Proposals <- ProposalIds, braked <- safety.halted,
        granted <- approvals, used <- opened

(* The session is a HumanGate: every opening uses up one approval and none  *)
(* is granted or used under the halt.                                      *)
HumanGateSpec == HG!Spec

-----------------------------------------------------------------------------
(* What the documents say and the code does not do. *)

(* "test_reapprove_executed_proposal_does_not_execute_again": an APPROVE of *)
(* an executed proposal leaves it EXECUTED                                  *)
(* (tests/test_approval_execution_handoff.py:71-80).                       *)
ReapproveKeepsExecuted ==
  [][\A p \in ProposalIds :
       proposals[p].status = "EXECUTED" /\ approvals'[p] > approvals[p]
         => proposals'[p].status = "EXECUTED"]_vars

=============================================================================
