-------------------------- MODULE MCTradingSession --------------------------
(***************************************************************************)
(* TradingSession, with its Dashboard, on small instances: TLC gives the    *)
(* identifiers, statuses and bounds their values in the .cfg files, this    *)
(* module the portfolios.                                                  *)
(***************************************************************************)
EXTENDS Dashboard, TLC

Portfolio(drawdown, openRisk, positions) ==
  [drawdown |-> drawdown, openRisk |-> openRisk, positions |-> positions]

(* With MaxDrawdown = 2, MaxPositions = 2, MaxRisk = 5: a clean portfolio,  *)
(* as the Telegram handlers report; one full of positions; one with a       *)
(* position and some open risk, a warning, and a block with reservations;   *)
(* and one that reports a negative open risk.                              *)
AllPortfolios ==
  {Portfolio(0, 0, 0), Portfolio(0, 0, 2), Portfolio(0, 1, 1), Portfolio(0, -1, 0)}

(* The least open risk of AllPortfolios. *)
MinusOne == -1

(* The clean portfolio and one with the drawdown at its limit. *)
CleanAndBreach == {Portfolio(0, 0, 0), Portfolio(2, 0, 0)}

(* Every status the REST mapper accepts in a submission. *)
AllStatuses == ProposalStatus

Identifiers == Permutations(ProposalIds)
=============================================================================
