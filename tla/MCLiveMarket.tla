------------------------------ MODULE MCLiveMarket ------------------------------
\* Two processes over one market directory: a loop without a number of runs,
\* of which two are explored, and a single run.
EXTENDS LiveMarket, TLC

CONSTANTS live, second, btc, eth

SomeRuns == live :> NotGiven @@ second :> 1

\* btc is always listed but not always quoted, eth comes and goes.
SomeListings == btc :> {"unquoted", "moving"} @@ eth :> {"delisted", "wide"}

\* The market of the emission tests: btc rises in every run; eth, when it is
\* listed, is too calm to trade.
SameListings == btc :> {"moving"} @@ eth :> {"delisted", "calm"}
=================================================================================
