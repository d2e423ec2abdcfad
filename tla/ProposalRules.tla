---------------------------- MODULE ProposalRules ----------------------------
(***************************************************************************)
(* The pure rules a trade proposal meets on its way to a position: the     *)
(* JSON contract, the constructor, the ProposalValidator with the symbol's *)
(* eligibility, and the risk engine.  Each is the list of its checks in    *)
(* the order of the code, and answers the reason of the first that fails.  *)
(*                                                                         *)
(* Prices are integers of one scale per proposal, and so are amounts of    *)
(* money; risk_percent is in hundredths of a percent, confidence in        *)
(* percent, the legs' fractions and allocations in quarters.               *)
(***************************************************************************)
EXTENDS Integers, Sequences, SequencesExt

CONSTANTS
  MinConfidence,   \* config.min_confidence_score
  MaxSpread,       \* config.max_spread_bps
  MinListingAge,   \* config.min_listing_age_hours
  RefreshWindow,   \* config.universe_refresh_minutes
  MaxRisk,         \* config.max_aggregate_open_risk_percent
  MaxPositions,    \* config.max_open_positions
  MaxDrawdown      \* config.max_daily_drawdown_percent

ASSUME RulesAssumption ==
  /\ {MinConfidence, MaxSpread, MinListingAge, RefreshWindow} \subseteq Nat
  /\ {MaxRisk, MaxPositions, MaxDrawdown} \subseteq Nat

Abs(n) == IF n < 0 THEN -n ELSE n

Check(fails, reason) == [fails |-> fails, reason |-> reason]

\* The reason of the first check that fails, or "OK".
FirstFailure(checks) ==
  LET i == SelectInSeq(checks, LAMBDA check : check.fails)
  IN IF i = 0 THEN "OK" ELSE checks[i].reason

SumOver(legs, Value(_)) == FoldSeq(LAMBDA leg, total : Value(leg) + total, 0, legs)

\* The average entry is Weighted / Fractions; comparisons multiply it out.
\* Nothing keeps a leg's fraction from being negative.
Fractions(p) == SumOver(p.legs, LAMBDA leg : leg.fraction)
Weighted(p) == SumOver(p.legs, LAMBDA leg : leg.price * leg.fraction)

-----------------------------------------------------------------------------
(* Universe eligibility of a symbol. *)

EvaluateInstrument(i) ==
  FirstFailure(<<
    Check(~i.active, "INSTRUMENT_INACTIVE"),
    Check(~i.usdt, "QUOTE_ASSET_NOT_USDT"),
    Check(i.isNew \/ i.age < MinListingAge, "LISTING_AGE_BELOW_THRESHOLD"),
    Check(i.spread > MaxSpread, "SPREAD_ABOVE_THRESHOLD"),
    Check(i.volume <= 0 \/ i.openInterest <= 0 \/ i.depth <= 0, "INSUFFICIENT_MARKET_DEPTH")>>)

\* A refresh at the given time.
Whitelisted(i, now) == [reason |-> EvaluateInstrument(i), until |-> now + RefreshWindow]

SymbolEligibility(entry, now) ==
  IF entry.until <= now THEN "STALE"
  ELSE IF entry.reason = "OK" THEN "ELIGIBLE" ELSE "INELIGIBLE"

-----------------------------------------------------------------------------
(* What the JSON contract and the constructors of the payload refuse. *)

ContractAccepts(p) ==
  /\ p.side \in {"LONG", "SHORT"}
  /\ p.status \in {"PENDING_APPROVAL", "GENERATED"}
  /\ p.zoneMin <= p.zoneMax
  /\ p.tp1 > 0 /\ p.tp2 > 0 /\ p.stop > 0
  /\ p.confidence \in 0..100
  /\ p.risk > 0
  /\ p.expires > p.created
  /\ p.legs # <<>>

Constructible(p) == p.zoneMin <= p.zoneMax /\ Len(p.legs) \in {1, 2}

-----------------------------------------------------------------------------
(* ProposalValidator.validate. *)

Some(legs, Bad(_)) == \E i \in DOMAIN legs : Bad(legs[i])

LongLadder(p) ==
  <<Check(p.stop >= p.zoneMin, "STOP_LOSS_INVALID"),
    Check(p.tp1 * Fractions(p) <= Weighted(p) \/ p.tp2 <= p.tp1, "RISK_CALCULATION_MISMATCH")>>

(* Mutant of ShortLadder: the second target is not compared with the first. *)
ShortLadderLoose(p) ==
  <<Check(p.stop <= p.zoneMax, "STOP_LOSS_INVALID"),
    Check(p.tp1 * Fractions(p) >= Weighted(p), "RISK_CALCULATION_MISMATCH")>>

ShortLadder(p) ==
  <<Check(p.stop <= p.zoneMax, "STOP_LOSS_INVALID"),
    Check(p.tp1 * Fractions(p) >= Weighted(p) \/ p.tp2 >= p.tp1, "RISK_CALCULATION_MISMATCH")>>

Distance(price, p) == Abs(price * Fractions(p) - Weighted(p))

ValidatorReason(p, entry, now) ==
  LET eligibility == SymbolEligibility(entry, now) IN
  FirstFailure(
    <<Check(p.expires <= now, "PROPOSAL_EXPIRED"),
      Check(eligibility = "STALE", "STALE_MARKET_DATA"),
      Check(eligibility # "ELIGIBLE", "INSTRUMENT_NOT_ELIGIBLE"),
      Check(p.confidence < MinConfidence, "CONFIDENCE_TOO_LOW"),
      Check(p.stop <= 0, "STOP_LOSS_INVALID"),
      Check(p.size <= 0, "POSITION_SIZE_INVALID"),
      Check(p.risk <= 0 \/ p.riskUsd <= 0, "RISK_CALCULATION_MISMATCH"),
      Check(p.freshness < 0, "STALE_MARKET_DATA"),
      Check(Len(p.legs) > 2, "ENTRY_SPLIT_INVALID"),
      Check(Fractions(p) # 4 \/ SumOver(p.legs, LAMBDA leg : leg.allocation) # 4, "ENTRY_SPLIT_INVALID"),
      Check(Some(p.legs, LAMBDA leg : leg.price \notin p.zoneMin..p.zoneMax \/ leg.validUntil > p.expires),
            "ENTRY_SPLIT_INVALID")>>
    \o (IF p.side = "LONG" THEN LongLadder(p) ELSE ShortLadder(p))
    \o <<Check(0 \in {Distance(p.tp1, p), Distance(p.tp2, p), Distance(p.stop, p)}, "RISK_CALCULATION_MISMATCH"),
         Check(2 * Distance(p.tp1, p) < Distance(p.stop, p), "RISK_CALCULATION_MISMATCH")>>)

-----------------------------------------------------------------------------
(* The risk engine. *)

(* Mutant of RiskMismatch: the tolerance is a fifth of the equity. *)
RiskMismatchWide(p, equity) ==
  5 * Abs(10000 * p.riskUsd - p.risk * equity) > 100 * equity

\* risk_usd as a share of the equity against risk_percent, to within the
\* larger of 0.05 percent points and a fifth of risk_percent.
RiskMismatch(p, equity) ==
  LET gap == 5 * Abs(10000 * p.riskUsd - p.risk * equity)
  IN gap > 25 * equity /\ gap > p.risk * equity

BelowAverage(price, p) ==
  IF Fractions(p) > 0 THEN price * Fractions(p) < Weighted(p) ELSE price * Fractions(p) > Weighted(p)

\* Fractions that sum up to nothing have no average: _average_entry raises
\* ZeroDivisionError, which no caller catches.
ConsistencyChecks(p, equity) ==
  <<Check(p.risk > MaxRisk, "RISK_CALCULATION_MISMATCH"),
    Check(Fractions(p) = 0, "ZeroDivisionError"),
    Check(Distance(p.stop, p) = 0, "STOP_LOSS_INVALID"),
    Check(Len(p.legs) = 2 /\ BelowAverage(p.legs[Len(p.legs)].price, p), "AVERAGING_DOWN_FORBIDDEN"),
    Check(p.riskUsd <= 0 \/ equity <= 0, "RISK_CALCULATION_MISMATCH"),
    Check(RiskMismatch(p, equity), "RISK_CALCULATION_MISMATCH")>>

EvaluateChecks(p, portfolio, reserved) ==
  ConsistencyChecks(p, portfolio.equity) \o
  <<Check(portfolio.positions >= MaxPositions, "MAX_OPEN_POSITIONS_REACHED"),
    Check(portfolio.drawdown >= MaxDrawdown, "MAX_DAILY_DRAWDOWN_REACHED"),
    Check(portfolio.openRisk + reserved + p.risk > MaxRisk, "TOTAL_OPEN_RISK_EXCEEDED")>>

PreExecutionReason(p, portfolio, reserved, now) ==
  FirstFailure(
    <<Check(p.expires <= now, "PROPOSAL_EXPIRED"),
      Check(p.freshness < 0, "STALE_MARKET_DATA")>>
    \o EvaluateChecks(p, portfolio, reserved))
==============================================================================
