------------------------------ MODULE PaperTrade ------------------------------
(***************************************************************************)
(* One proposal in paper_sim mode, from the JSON file or the live market   *)
(* flow that made it, through the approval with execution, to the ticks    *)
(* that stop it out or take its profits: the rules of ProposalRules, the   *)
(* simulated position and its journal.                                     *)
(***************************************************************************)
EXTENDS ProposalRules, FiniteSetsExt

CONSTANTS
  Payloads,     \* proposals a JSON file may carry
  Quotes,       \* market snapshots the live flow may price a proposal from
  Portfolios,   \* portfolios a request may report
  Prices,       \* prices a market tick may report for a payload
  LiveLifetime, \* a live proposal expires 15 minutes after it was made
  DefaultRisk,  \* config.default_risk_percent, from the environment
  Dollar,       \* one US dollar in the unit of the amounts
  MaxAttempts,  \* bound on the executions explored
  MaxClock      \* bound on the time explored

ASSUME PaperAssumption ==
  /\ LiveLifetime \in Nat \ {0} /\ Dollar \in Nat \ {0} /\ DefaultRisk \in Int
  /\ {MaxAttempts, MaxClock} \subseteq Nat

VARIABLES
  clock,       \* the time
  offer,       \* the stored proposal, or NoOffer
  source,      \* "none", "json" or "live"
  whitelist,   \* the universe entry of a live proposal's symbol
  position,    \* one of the simulated positions, or NoPosition
  journal,     \* the kinds of the execution events of that position, in order
  attempts,    \* the number of PRE_EXECUTION_CHECK events
  equity       \* history: the equity that position was opened at

vars == <<clock, offer, source, whitelist, position, journal, attempts, equity>>

NoOffer == [side |-> "NONE", status |-> "NONE"]
NoEntry == [reason |-> "NONE", until |-> 0]
NoPosition == [status |-> "NONE", planned |-> 0, filled |-> 0, total |-> 0,
               remaining |-> 0, tp1Hit |-> FALSE]

Init ==
  /\ clock = 0
  /\ offer = NoOffer
  /\ source = "none"
  /\ whitelist = NoEntry
  /\ position = NoPosition
  /\ journal = <<>>
  /\ attempts = 0
  /\ equity = 0

Wait ==
  /\ clock < MaxClock
  /\ clock' = clock + 1
  /\ UNCHANGED <<offer, source, whitelist, position, journal, attempts, equity>>

-----------------------------------------------------------------------------
(* Where a proposal comes from. *)

\* JsonTradeProposalParser: a payload the contract or a constructor refuses
\* is a ValueError and stores nothing.
SubmitJson ==
  /\ source = "none"
  /\ \E p \in Payloads :
       /\ ContractAccepts(p) /\ Constructible(p)
       /\ offer' = [p EXCEPT !.status = "PENDING_APPROVAL"]
  /\ source' = "json"
  /\ UNCHANGED <<clock, whitelist, position, journal, attempts, equity>>

Cent == 800   \* prices of live proposals are in 1/800 cent: every term is whole

\* 55% and a fortieth of the change of the day, at most 95%.
Confidence(q) == Min({95, 55 + (5 * Min({Abs(q.change), 20})) \div 2})

RangeWidth(q) == Max({120 * (q.high - q.low), 2 * q.last, Cent})

Floored(price) == Max({price, Cent})

(* Mutant of BuildProposal: the stop of a SHORT is below its entry zone. *)
BuildProposalLongStop(q, now) ==
  LET last == Cent * q.last
      width == RangeWidth(q)
      long == q.change >= 0
      zoneMin == IF long THEN Floored(last - width) ELSE last
      zoneMax == IF long THEN last ELSE last + width
  IN [side |-> IF long THEN "LONG" ELSE "SHORT",
      zoneMin |-> zoneMin, zoneMax |-> zoneMax,
      legs |-> <<[price |-> (zoneMin + zoneMax) \div 2, fraction |-> 4, allocation |-> 4,
                  validUntil |-> now + LiveLifetime]>>,
      stop |-> Floored(zoneMin - width),
      tp1 |-> IF long THEN last + 2 * width ELSE Floored(last - 2 * width),
      tp2 |-> IF long THEN last + 4 * width ELSE Floored(last - 4 * width),
      risk |-> DefaultRisk, riskUsd |-> 5 * Dollar, size |-> 8, confidence |-> Confidence(q), freshness |-> 0,
      created |-> now, expires |-> now + LiveLifetime, status |-> "PENDING_APPROVAL"]

\* _build_proposal: the entry zone, stop and targets are laid out from the
\* last price by a width of 15% of the 24h range, nothing below one cent.
BuildProposal(q, now) ==
  LET last == Cent * q.last
      width == RangeWidth(q)
      long == q.change >= 0
      zoneMin == IF long THEN Floored(last - width) ELSE last
      zoneMax == IF long THEN last ELSE last + width
  IN [side |-> IF long THEN "LONG" ELSE "SHORT",
      zoneMin |-> zoneMin, zoneMax |-> zoneMax,
      legs |-> <<[price |-> (zoneMin + zoneMax) \div 2, fraction |-> 4, allocation |-> 4,
                  validUntil |-> now + LiveLifetime]>>,
      stop |-> IF long THEN Floored(zoneMin - width) ELSE zoneMax + width,
      tp1 |-> IF long THEN last + 2 * width ELSE Floored(last - 2 * width),
      tp2 |-> IF long THEN last + 4 * width ELSE Floored(last - 4 * width),
      risk |-> DefaultRisk, riskUsd |-> 5 * Dollar, size |-> 8, confidence |-> Confidence(q), freshness |-> 0,
      created |-> now, expires |-> now + LiveLifetime, status |-> "PENDING_APPROVAL"]

\* _raw_instrument_from_market: age, depth and open interest are made up, the
\* last two from the day's volume and number of trades.
RawInstrument(q) ==
  LET depth == Max({q.volume \div 100, 10 * q.trades, 1000})
  IN [active |-> q.trading, usdt |-> TRUE, isNew |-> FALSE, age |-> 365 * 24,
      volume |-> q.volume, openInterest |-> Max({q.volume \div 20, depth}),
      spread |-> q.spread, depth |-> depth]

\* decide: the universe is refreshed from the snapshot, and a proposal made
\* of an eligible symbol when the change of the day gives enough confidence.
SubmitLive ==
  /\ source = "none"
  /\ \E q \in Quotes :
       /\ EvaluateInstrument(RawInstrument(q)) = "OK"
       /\ Confidence(q) >= MinConfidence
       /\ whitelist' = Whitelisted(RawInstrument(q), clock)
       /\ offer' = BuildProposal(q, clock)
  /\ source' = "live"
  /\ UNCHANGED <<clock, position, journal, attempts, equity>>

-----------------------------------------------------------------------------
(* The simulated position. *)

OpenPosition(p) == [NoPosition EXCEPT !.status = "PENDING_EXECUTION", !.planned = Len(p.legs)]

ApplyFill(pos, size) ==
  [pos EXCEPT !.filled = @ + 1,
              !.total = @ + size,
              !.remaining = @ + size,
              !.status = IF pos.filled + 1 >= pos.planned THEN "OPEN" ELSE "PARTIALLY_FILLED"]

\* Every leg is filled at once, at its planned price: the market price, the
\* entry zone and valid_until are not consulted.
Filled(p) == FoldSeq(LAMBDA leg, pos : ApplyFill(pos, (p.size * leg.fraction) \div 4), OpenPosition(p), p.legs)

PartialClose(pos, size) ==
  [pos EXCEPT !.remaining = @ - size,
              !.status = IF pos.remaining = size THEN "CLOSED" ELSE "PARTIALLY_CLOSED"]

(* Mutant of Close: the size is left as it was. *)
CloseKeepsSize(pos) == [pos EXCEPT !.status = "STOPPED"]

Close(pos) == [pos EXCEPT !.remaining = 0, !.status = "STOPPED"]

StopReached(p, price) == IF p.side = "LONG" THEN price <= p.stop ELSE price >= p.stop
TargetReached(p, target, price) == IF p.side = "LONG" THEN price >= target ELSE price <= target

(* Mutant of AfterTick: the first target halves the position every time. *)
AfterTickForgets(p, pos, price) ==
  IF pos.remaining <= 0 THEN pos
  ELSE IF StopReached(p, price) THEN Close(pos)
  ELSE IF TargetReached(p, p.tp1, price) THEN PartialClose(pos, pos.remaining \div 2)
  ELSE pos

\* process_protective_levels: the stop comes first; a price at the first
\* target closes half, once, even when it is beyond the second.
AfterTick(p, pos, price) ==
  IF pos.remaining <= 0 THEN pos
  ELSE IF StopReached(p, price) THEN Close(pos)
  ELSE IF ~pos.tp1Hit /\ TargetReached(p, p.tp1, price)
    THEN [PartialClose(pos, pos.remaining \div 2) EXCEPT !.tp1Hit = TRUE]
  ELSE IF TargetReached(p, p.tp2, price) THEN PartialClose(pos, pos.remaining)
  ELSE pos

-----------------------------------------------------------------------------
(* The execution orchestrator. *)

Count(kind) == Cardinality({i \in DOMAIN journal : journal[i] = kind})

Approved == "APPROVED_PENDING_EXECUTION_CHECK"

\* APPROVE without execution, of a proposal of any status, an executed one
\* included.
Approve ==
  /\ source # "none"
  /\ offer' = [offer EXCEPT !.status = Approved]
  /\ UNCHANGED <<clock, source, whitelist, position, journal, attempts, equity>>

\* A position opened and filled; that it is the one this model follows is
\* left open, so that what is true of it is true of each.
Opened(portfolio) ==
  \/ /\ position = NoPosition
     /\ position' = Filled(offer)
     /\ journal' = <<"POSITION_OPENED">> \o [i \in 1..Len(offer.legs) |-> "FILL_APPLIED"]
     /\ equity' = portfolio.equity
  \/ UNCHANGED <<position, journal, equity>>

\* APPROVE with execution, which only records a decision about an executed
\* proposal, or EXECUTE of an approved one: the proposal is approved, then
\* refused by the pre-execution check or executed.  The check may also
\* raise an exception, and the proposal stays approved.
Execute ==
  /\ source # "none" /\ offer.status # "EXECUTED"
  /\ attempts < MaxAttempts
  /\ attempts' = attempts + 1
  /\ \E portfolio \in Portfolios :
       LET reason == PreExecutionReason(offer, portfolio, portfolio.reserved, clock) IN
       \/ /\ reason = "OK"
          /\ offer' = [offer EXCEPT !.status = "EXECUTED"]
          /\ Opened(portfolio)
       \/ /\ reason = "ZeroDivisionError"
          /\ offer' = [offer EXCEPT !.status = Approved]
          /\ UNCHANGED <<position, journal, equity>>
       \/ /\ reason \notin {"OK", "ZeroDivisionError"}
          /\ offer' = [offer EXCEPT !.status = "REJECTED_PRE_EXECUTION"]
          /\ UNCHANGED <<position, journal, equity>>
  /\ UNCHANGED <<clock, source, whitelist>>

EventKind(pos) ==
  CASE pos.status = "STOPPED" -> "STOP_TRIGGERED"
    [] pos.status = "PARTIALLY_CLOSED" -> "TP1_PARTIAL_CLOSE"
    [] pos.status = "CLOSED" -> "TP2_FULL_CLOSE"
    [] OTHER -> "POSITION_UPDATED"

TickPrices == IF source = "json" THEN Prices ELSE {offer.stop, offer.zoneMax, offer.tp1, offer.tp2}

\* process_market_tick: only a change of status or size is journalled.
MarketTick ==
  /\ position # NoPosition
  /\ \E price \in TickPrices :
       LET updated == AfterTick(offer, position, price) IN
       /\ position' = updated
       /\ journal' = IF updated.status # position.status \/ updated.remaining # position.remaining
                     THEN Append(journal, EventKind(updated)) ELSE journal
  /\ UNCHANGED <<clock, offer, source, whitelist, attempts, equity>>

Next == Wait \/ SubmitJson \/ SubmitLive \/ Approve \/ Execute \/ MarketTick

Spec == Init /\ [][Next]_vars

-----------------------------------------------------------------------------
(* Properties *)

(* The journal alone tells a position, whatever other executions of the    *)
(* proposal were rejected or opened another one: it is opened once, filled *)
(* leg by leg, and its last event gives its status and the share of the    *)
(* size that is left (execution/orchestrator.py process_market_tick        *)
(* journals changes only).                                                 *)
JournalTellsPosition ==
  /\ Count("POSITION_OPENED") = (IF position # NoPosition THEN 1 ELSE 0)
  /\ Count("FILL_APPLIED") = position.filled
  /\ Count("TP1_PARTIAL_CLOSE") <= 1
  /\ Count("TP2_FULL_CLOSE") + Count("STOP_TRIGGERED") <= 1
  /\ position # NoPosition =>
       CASE Last(journal) = "FILL_APPLIED" ->
              position.status = "OPEN" /\ position.remaining = position.total
         [] Last(journal) = "TP1_PARTIAL_CLOSE" ->
              position.status = "PARTIALLY_CLOSED" /\ 2 * position.remaining = position.total
         [] Last(journal) = "TP2_FULL_CLOSE" ->
              position.status = "CLOSED" /\ position.remaining = 0
         [] Last(journal) = "STOP_TRIGGERED" ->
              position.status = "STOPPED" /\ position.remaining = 0
         [] OTHER -> FALSE

\* What ProposalValidator says of the offer when it is made, its symbol
\* being eligible.
PassesValidator ==
  ValidatorReason(offer, [reason |-> "OK", until |-> offer.created + RefreshWindow], offer.created) = "OK"

(* A proposal that ProposalValidator accepts takes its profits in order:   *)
(* no second target before the first.  Unless a leg has a negative share,  *)
(* which puts the average entry outside the zone that the stop is compared *)
(* with, there is also no price at which the order of the checks in        *)
(* process_protective_levels decides between loss and profit.              *)
ValidatedLadderInOrder ==
  (source # "none" /\ PassesValidator) =>
    /\ Count("TP2_FULL_CLOSE") = 1 => Count("TP1_PARTIAL_CLOSE") = 1
    /\ (\A i \in DOMAIN offer.legs : offer.legs[i].fraction >= 0) =>
         \A price \in TickPrices :
           StopReached(offer, price) =>
             ~TargetReached(offer, offer.tp1, price) /\ ~TargetReached(offer, offer.tp2, price)

(* As long as it has not expired, a proposal of the live flow passes the   *)
(* validator, with the flow's own universe entry, exactly when the floor   *)
(* of one cent has not flattened its zone or its targets                   *)
(* (live_market_flow.py _build_proposal).                                  *)
LiveProposalsPassValidator ==
  (source = "live" /\ clock < offer.expires) =>
    ( ValidatorReason(offer, whitelist, clock) = "OK"
        <=> (IF offer.side = "LONG" THEN offer.zoneMin > Cent ELSE offer.tp1 > Cent) )

(* risk_usd is always 5 dollars, whatever risk_percent the configuration   *)
(* gives (live_market_flow.py _build_proposal): a live proposal is opened  *)
(* at an equity of which they are that risk, to the tolerance of the risk  *)
(* engine, and at no other.  With 0.5 percent that is between 833.33 and   *)
(* 1250 dollars; up to 0.05 percent there is no upper bound.               *)
LiveOpensOnlyAtItsEquity ==
  (source = "live" /\ position # NoPosition) =>
    LET tolerance == Max({25, DefaultRisk}) IN
    /\ (5 * DefaultRisk + tolerance) * equity >= 250000 * Dollar
    /\ (5 * DefaultRisk - tolerance) * equity <= 250000 * Dollar

(* Each position implements the lifecycle of PositionLifecycle. *)
Outcome ==
  CASE position = NoPosition -> "none"
    [] position.status = "STOPPED" -> "stopped"
    [] position.status = "CLOSED" -> "target"
    [] OTHER -> "open"

Lifecycle == INSTANCE PositionLifecycle WITH held <- position.remaining, outcome <- Outcome

LifecycleSpec == Lifecycle!Spec
===============================================================================
