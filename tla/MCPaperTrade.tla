----------------------------- MODULE MCPaperTrade -----------------------------
\* Payloads around prices 4 to 6, and live quotes from one cent up; money is
\* counted in half dollars.
EXTENDS PaperTrade

Leg(price, fraction) == [price |-> price, fraction |-> fraction, allocation |-> fraction, validUntil |-> 2]

LegChoices == {<<Leg(5, 4)>>, <<Leg(4, 2), Leg(6, 2)>>, <<Leg(6, 3), Leg(4, 1)>>, <<Leg(5, 2)>>,
               <<Leg(4, 8), Leg(6, -4)>>, <<Leg(4, 2), Leg(6, -2)>>}

SomePayloads ==
  [side : {"LONG", "SHORT"}, zoneMin : {4}, zoneMax : {6}, legs : LegChoices,
   stop : {0, 3, 5, 8}, tp1 : {3, 5, 7}, tp2 : {1, 5, 9}, risk : {50}, riskUsd : {10, 100},
   size : {0, 8}, confidence : {80}, freshness : {0}, created : {0}, expires : {0, 2},
   status : {"PENDING_APPROVAL", "GENERATED"}]

SomeQuotes ==
  {q \in [last : {1, 2, 3, 40, 1000}, high : {1, 3, 45, 1500}, low : {1, 2, 40, 800}, change : {-20, -4, 0, 6, 30},
          spread : {8, 9}, volume : {0, 200000}, trades : {0}, trading : {TRUE}] :
      q.low <= q.last /\ q.last <= q.high}

SomePortfolios ==
  [equity : {1666, 1667, 2500, 2501, 20000}, drawdown : {0}, openRisk : {0}, positions : {0}, reserved : {0, 60}]

SomePrices == 1..9
===============================================================================
