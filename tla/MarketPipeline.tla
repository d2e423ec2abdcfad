---------------------------- MODULE MarketPipeline ----------------------------
(***************************************************************************)
(* BinanceMarketDataPipeline.run_once: a refresh of the market directory.  *)
(* It fetches the exchange's answers, selects a universe, then replaces    *)
(* universe.json, replaces one snapshot file per quoted symbol, lists the  *)
(* directory and unlinks what is not selected, each replacement atomic,    *)
(* everything in between visible to any other process that uses the        *)
(* directory.  The last write, of last_run.json, has no reader: that it is  *)
(* still to come is part of the label "refreshed".                         *)
(***************************************************************************)
EXTENDS Naturals, FiniteSets, Functions

CONSTANTS
  Symbols,         \* what the exchange may list
  Processes,       \* live-market-run processes over one --market-dir
  UniverseLimit,   \* --universe-limit
  Listings,        \* what the exchange may say of each symbol (see Markets)
  MaxFaults        \* failed fetches and writes, and crashes

ASSUME PipelineAssumption ==
  /\ UniverseLimit \in Nat \ {0}
  /\ MaxFaults \in Nat
  /\ Listings \in [Symbols -> SUBSET {"delisted", "unquoted", "moving", "calm", "wide"}]

VARIABLES
  universe,    \* the symbols of universe.json
  snapshots,   \* the files of snapshots/
  refresh,     \* the local variables of each process's run_once
  pc,          \* what each process does next
  clock,       \* the last generated_at
  faults,      \* failures the environment may still cause
  touched      \* history: the files another process changed during one's run

dirVars == <<universe, snapshots>>

-----------------------------------------------------------------------------
(* What the exchange answers.  A symbol is delisted (not TRADING, not spot *)
(* or without a 24h ticker), unquoted (no book ticker), or quoted with a   *)
(* spread and a 24h change that will make it ineligible ("wide"), too calm *)
(* for the confidence threshold, or tradable ("moving").                   *)

NoSnapshot == [gen |-> 0, kind |-> "none"]

Markets == {market \in [Symbols -> UNION {Listings[s] : s \in Symbols}] :
              \A s \in Symbols : market[s] \in Listings[s]}

BuildSymbolRecords(market) == {s \in Symbols : market[s] # "delisted"}

\* The universes that some ranking by volume selects from the records.
SelectUniverse(records) ==
  {chosen \in SUBSET records :
      \/ chosen = records /\ Cardinality(chosen) <= UniverseLimit
      \/ Cardinality(chosen) = UniverseLimit}

BuildSnapshots(selected, market, gen) ==
  [s \in {s \in selected : market[s] # "unquoted"} |-> [gen |-> gen, kind |-> market[s]]]

-----------------------------------------------------------------------------
NoRefresh == [gen |-> 0, selected |-> {}, built |-> <<>>, toWrite |-> {}, toPrune |-> {}]

PipelineInit ==
  /\ universe = {}
  /\ snapshots = [s \in Symbols |-> NoSnapshot]
  /\ refresh = [p \in Processes |-> NoRefresh]
  /\ pc = [p \in Processes |-> "start"]
  /\ clock = 0
  /\ faults = MaxFaults
  /\ touched = [p \in Processes |-> {}]

Goto(p, label) == pc' = [pc EXCEPT ![p] = label]

\* Every other process in the middle of a run now works with a file that p
\* changed.
Touch(p, file) ==
  touched' = [q \in Processes |-> IF q = p \/ pc[q] \in {"start", "ended", "dead"} THEN touched[q]
                                  ELSE touched[q] \union {file}]

\* generated_at is taken, then the exchange is asked.  The answers are turned
\* into a universe and snapshots; an empty universe, or one without a quote,
\* ends the refresh before it writes anything.
BeginRefresh(p) ==
  /\ pc[p] = "start"
  /\ clock' = clock + 1
  /\ \E market \in Markets :
       \E selected \in SelectUniverse(BuildSymbolRecords(market)) :
         LET built == BuildSnapshots(selected, market, clock + 1) IN
         /\ refresh' = [refresh EXCEPT ![p] = [gen |-> clock + 1, selected |-> selected,
                                               built |-> built, toWrite |-> DOMAIN built,
                                               toPrune |-> {}]]
         /\ Goto(p, IF DOMAIN built = {} THEN "refresh_failed" ELSE "universe")
  /\ UNCHANGED <<dirVars, faults, touched>>

\* An unreachable exchange, or a disk that refuses a listing, a removal or a
\* write, that of last_run.json included, ends the refresh where it is.
RefreshFails(p) ==
  /\ pc[p] \in {"start", "universe", "snapshots", "list", "prune", "refreshed"}
  /\ faults > 0
  /\ faults' = faults - 1
  /\ Goto(p, "refresh_failed")
  /\ UNCHANGED <<dirVars, refresh, clock, touched>>

WriteUniverse(p) ==
  /\ pc[p] = "universe"
  /\ universe' = refresh[p].selected
  /\ Touch(p, "universe")
  /\ Goto(p, "snapshots")
  /\ UNCHANGED <<snapshots, refresh, clock, faults>>

(* Mutant of Replaced: a file that is there is left alone. *)
ReplacedIfAbsent(old, new) == IF old = NoSnapshot THEN new ELSE old

\* atomic_write_json: the new file takes the place of any old one.
Replaced(old, new) == new

WriteSnapshot(p) ==
  /\ pc[p] = "snapshots"
  /\ \E s \in refresh[p].toWrite :
       /\ snapshots' = [snapshots EXCEPT ![s] = Replaced(@, refresh[p].built[s])]
       /\ Touch(p, s)
       /\ refresh' = [refresh EXCEPT ![p].toWrite = @ \ {s}]
       /\ Goto(p, IF refresh[p].toWrite = {s} THEN "list" ELSE "snapshots")
  /\ UNCHANGED <<universe, clock, faults>>

(* Mutant of Stale: keeps what the universe file names at that moment,     *)
(* which another process may have written.                                 *)
StaleByDirectory(p) == {s \in Symbols : snapshots[s] # NoSnapshot} \ universe

\* The files listed that are not of a selected symbol.
Stale(p) == {s \in Symbols : snapshots[s] # NoSnapshot} \ refresh[p].selected

ListDirectory(p) ==
  /\ pc[p] = "list"
  /\ refresh' = [refresh EXCEPT ![p].toPrune = Stale(p)]
  /\ Goto(p, IF Stale(p) = {} THEN "refreshed" ELSE "prune")
  /\ UNCHANGED <<dirVars, clock, faults, touched>>

\* unlink(missing_ok=True): another process may have removed it already.
PruneSnapshot(p) ==
  /\ pc[p] = "prune"
  /\ \E s \in refresh[p].toPrune :
       /\ snapshots' = [snapshots EXCEPT ![s] = NoSnapshot]
       /\ Touch(p, s)
       /\ refresh' = [refresh EXCEPT ![p].toPrune = @ \ {s}]
       /\ Goto(p, IF refresh[p].toPrune = {s} THEN "refreshed" ELSE "prune")
  /\ UNCHANGED <<universe, clock, faults>>

RefreshStep(p) ==
  \/ BeginRefresh(p)
  \/ WriteUniverse(p)
  \/ WriteSnapshot(p)
  \/ ListDirectory(p)
  \/ PruneSnapshot(p)

PipelineTypeOK ==
  /\ clock \in Nat
  /\ faults \in 0..MaxFaults
  /\ universe \subseteq Symbols
  /\ snapshots \in [Symbols -> [gen : 0..clock, kind : (UNION {Listings[s] : s \in Symbols}) \union {"none"}]]
  /\ \A p \in Processes :
       /\ refresh[p].gen \in 0..clock
       /\ refresh[p].toWrite \subseteq DOMAIN refresh[p].built
       /\ DOMAIN refresh[p].built \subseteq refresh[p].selected
       /\ refresh[p].selected \subseteq Symbols
       /\ refresh[p].toPrune \subseteq Symbols \ refresh[p].selected
       /\ touched[p] \subseteq Symbols \union {"universe"}
===============================================================================
