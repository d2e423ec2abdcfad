------------------------------- MODULE LiveMarket -------------------------------
(***************************************************************************)
(* live-market-run: a PeriodicRunner around LiveMarketPipelineRunner, whose*)
(* run refreshes the market directory, reads it back to decide on one      *)
(* proposal or a no-trade notice, and submits that.  Several processes may *)
(* run over one directory.  Each stage reports its exception as a failed   *)
(* run; a process may crash anywhere and be started again.                 *)
(***************************************************************************)
EXTENDS MarketPipeline, PeriodicRunner

CONSTANTS
  Runs,      \* --runs of each process, or NotGiven
  MaxRuns    \* bound: runs explored of a loop without --runs

ASSUME LiveAssumption == Runs \in [Processes -> Nat] /\ MaxRuns \in Nat

VARIABLES
  reading,    \* the local variables of each process's decide
  loop,       \* the counters of each process's PeriodicRunner
  outcomes,   \* history: how the runs of each loop ended
  stored      \* history: what each loop submitted and the store took

vars == <<universe, snapshots, refresh, pc, clock, faults, touched,
          reading, loop, outcomes, stored>>

-----------------------------------------------------------------------------
(* decide: universe.json is read once, then the snapshot of each of its    *)
(* symbols, exists() and read_text() being two accesses.                   *)

DecisionKinds == {"none", "no_market", "none_eligible", "calm", "proposal"}
NoDecision == [kind |-> "none", symbol |-> "none", gen |-> 0]
NoReading == [toRead |-> {}, opened |-> {}, ranked |-> {}, decision |-> NoDecision]

LiveInit ==
  /\ PipelineInit
  /\ reading = [p \in Processes |-> NoReading]
  /\ loop = [p \in Processes |-> NewLoop(Runs[p])]
  /\ outcomes = [p \in Processes |-> <<>>]
  /\ stored = [p \in Processes |-> <<>>]

loopVars == <<loop, outcomes>>
pipelineVars == <<dirVars, refresh, clock, touched>>

LoadUniverse(p) ==
  /\ pc[p] = "refreshed"
  /\ reading' = [reading EXCEPT ![p] = [NoReading EXCEPT !.toRead = universe]]
  /\ Goto(p, "read")
  /\ UNCHANGED <<pipelineVars, faults, loopVars, stored>>

(* Mutant of LeftToRead: waits for a snapshot that is missing. *)
LeftToReadWaiting(p, s) ==
  IF snapshots[s] = NoSnapshot THEN reading[p].toRead ELSE reading[p].toRead \ {s}

LeftToRead(p, s) == reading[p].toRead \ {s}

\* exists(): a symbol without a snapshot is passed over.
LookForSnapshot(p) ==
  /\ pc[p] = "read"
  /\ reading[p].opened = {}
  /\ \E s \in reading[p].toRead :
       reading' = [reading EXCEPT ![p].toRead = LeftToRead(p, s),
                                  ![p].opened = IF snapshots[s] = NoSnapshot THEN {} ELSE {s}]
  /\ UNCHANGED <<pipelineVars, pc, faults, loopVars, stored>>

\* read_text(): the file may have been unlinked since.
ReadSnapshot(p) ==
  /\ pc[p] = "read"
  /\ \E s \in reading[p].opened :
       IF snapshots[s] = NoSnapshot
       THEN /\ Goto(p, "decide_failed")
            /\ UNCHANGED reading
       ELSE /\ reading' = [reading EXCEPT ![p].opened = {},
                                          ![p].ranked = @ \union {[symbol |-> s, snapshot |-> snapshots[s]]}]
            /\ UNCHANGED pc
  /\ UNCHANGED <<pipelineVars, faults, loopVars, stored>>

-----------------------------------------------------------------------------
(* UniverseService refuses a wide spread; of the rest, the first of some   *)
(* ranking by liquidity is the candidate.                                  *)

Eligible(ranked) == {row \in ranked : row.snapshot.kind # "wide"}

NoTrade(reason) == [kind |-> reason, symbol |-> "none", gen |-> 0]

ConfidentEnough(row) == row.snapshot.kind = "moving"

(* Mutant of Decisions: no eligible symbol is taken for no market data. *)
DecisionsMerged(ranked) ==
  IF Eligible(ranked) = {} THEN {NoTrade("no_market")}
  ELSE {IF ConfidentEnough(row)
        THEN [kind |-> "proposal", symbol |-> row.symbol, gen |-> row.snapshot.gen]
        ELSE NoTrade("calm") : row \in Eligible(ranked)}

\* What decide may answer for the pairs it has read.
Decisions(ranked) ==
  IF ranked = {} THEN {NoTrade("no_market")}
  ELSE IF Eligible(ranked) = {} THEN {NoTrade("none_eligible")}
  ELSE {IF ConfidentEnough(row)
        THEN [kind |-> "proposal", symbol |-> row.symbol, gen |-> row.snapshot.gen]
        ELSE NoTrade("calm") : row \in Eligible(ranked)}

Decide(p) ==
  /\ pc[p] = "read"
  /\ reading[p].toRead = {} /\ reading[p].opened = {}
  /\ \E decision \in Decisions(reading[p].ranked) :
       reading' = [reading EXCEPT ![p] = [NoReading EXCEPT !.decision = decision]]
  /\ Goto(p, "emit")
  /\ UNCHANGED <<pipelineVars, faults, loopVars, stored>>

\* What a submission says: a proposal for a symbol, or no trade for a reason.
Said(decision) == <<decision.kind, decision.symbol>>

\* submit_and_emit: the store first, then the text of the message.  Nothing is
\* asked about what earlier runs submitted.
Submit(p) ==
  /\ pc[p] = "emit"
  /\ stored' = [stored EXCEPT ![p] = Append(@, Said(reading[p].decision))]
  /\ Goto(p, "emitted")
  /\ UNCHANGED <<pipelineVars, faults, reading, loopVars>>

\* The store could not be written: nothing of it is kept.
SubmitFails(p) ==
  /\ pc[p] = "emit"
  /\ faults > 0
  /\ faults' = faults - 1
  /\ Goto(p, "emit_failed")
  /\ UNCHANGED <<pipelineVars, reading, loopVars, stored>>

-----------------------------------------------------------------------------
Failures == {"refresh_failed", "decide_failed", "emit_failed"}

RunOk(label) == label \notin Failures

\* LiveMarketRunResult.ok, counted by the loop that called run_once.
EndRun(p) ==
  /\ pc[p] \in Failures \union {"emitted"}
  /\ LET ok == RunOk(pc[p])
         counted == Counted(loop[p], ok) IN
     /\ loop' = [loop EXCEPT ![p] = counted]
     /\ outcomes' = [outcomes EXCEPT ![p] = Append(@, ok)]
     /\ Goto(p, IF LoopOver(counted) THEN "ended" ELSE "start")
  /\ refresh' = [refresh EXCEPT ![p] = NoRefresh]
  /\ reading' = [reading EXCEPT ![p] = NoReading]
  /\ touched' = [touched EXCEPT ![p] = {}]
  /\ UNCHANGED <<dirVars, clock, faults, stored>>

\* A process dies between two steps; one started afterwards is another
\* member of Processes that had not begun.
Crash(p) ==
  /\ pc[p] \notin {"start", "ended"}
  /\ faults > 0
  /\ faults' = faults - 1
  /\ Goto(p, "dead")
  /\ refresh' = [refresh EXCEPT ![p] = NoRefresh]
  /\ reading' = [reading EXCEPT ![p] = NoReading]
  /\ touched' = [touched EXCEPT ![p] = {}]
  /\ UNCHANGED <<dirVars, clock, loopVars, stored>>

\* Bound: the runs explored of a loop that has no number of runs.
Explored(p) ==
  pc[p] = "start" => Runs[p] # NotGiven \/ loop[p].completed < MaxRuns

\* The steps a live process takes by itself.
Proceed(p) ==
  \/ RefreshStep(p) /\ Explored(p) /\ UNCHANGED <<reading, loopVars, stored>>
  \/ LoadUniverse(p)
  \/ LookForSnapshot(p)
  \/ ReadSnapshot(p)
  \/ Decide(p)
  \/ Submit(p)
  \/ EndRun(p)

Next ==
  \E p \in Processes :
    \/ Proceed(p)
    \/ RefreshFails(p) /\ Explored(p) /\ UNCHANGED <<reading, loopVars, stored>>
    \/ SubmitFails(p)
    \/ Crash(p)

Spec == LiveInit /\ [][Next]_vars

\* The scheduler runs every live process; nothing forces a fault or a crash.
FairSpec == Spec /\ \A p \in Processes : WF_vars(Proceed(p))
-----------------------------------------------------------------------------
(* Properties *)

(* Every variable stays in its type. *)
Labels == {"start", "universe", "snapshots", "list", "prune", "refreshed",
           "read", "emit", "emitted", "ended", "dead"} \union Failures

TypeOK ==
  /\ PipelineTypeOK
  /\ pc \in [Processes -> Labels]
  /\ DOMAIN loop = Processes
  /\ DOMAIN stored = Processes
  /\ \A p \in Processes :
       /\ reading[p].toRead \union reading[p].opened \subseteq Symbols
       /\ reading[p].opened = {} \/ pc[p] \in {"read", "decide_failed"}
       /\ loop[p] \in Loops(Runs[p])
       /\ stored[p] \in Seq(DecisionKinds \X (Symbols \union {"none"}))
       /\ Len(outcomes[p]) = loop[p].completed

(* A refresh that ran to its end leaves its own universe and, for every    *)
(* symbol, its own snapshot, or none when the symbol was not selected,     *)
(* whatever earlier or crashed runs had left in the directory: only a file *)
(* that another process changed in the meantime may differ                 *)
(* (market_pipeline.py run_once).                                          *)
RefreshInstalled ==
  \A p \in Processes : pc[p] = "refreshed" =>
    /\ "universe" \notin touched[p] => universe = refresh[p].selected
    /\ \A s \in Symbols \ touched[p] :
         /\ s \in DOMAIN refresh[p].built => snapshots[s] = refresh[p].built[s]
         /\ s \notin refresh[p].selected => snapshots[s] = NoSnapshot

(* After its own refresh a process can always decide on what it wrote: it  *)
(* fails on a missing snapshot, or finds no universe and snapshot to go    *)
(* by, only when another process changed the directory meanwhile           *)
(* (live_market_flow.py: exists() and read_text() are two accesses).       *)
AloneDecides ==
  \A p \in Processes :
    pc[p] = "decide_failed" \/ reading[p].decision.kind = "no_market"
      => touched[p] # {}

(* A proposal is priced from the snapshot of its own refresh, unless the   *)
(* refresh found no book ticker for its symbol and left the old file in    *)
(* place, or another process changed the files read.  data_freshness_ms is *)
(* 0 in all these cases.                                                   *)
FreshProposals ==
  \A p \in Processes : reading[p].decision.kind = "proposal" =>
    LET s == reading[p].decision.symbol IN
    \/ reading[p].decision.gen = refresh[p].gen
    \/ s \in refresh[p].selected \ DOMAIN refresh[p].built
    \/ touched[p] \intersect {s, "universe"} # {}

\* How many runs at the end of the history failed.
Trailing(history) ==
  Len(history) - (LET good == {i \in 1..Len(history) : history[i]} IN
                  IF good = {} THEN 0 ELSE CHOOSE i \in good : \A j \in good : j <= i)

(* The counters say how the runs of the loop ended; a loop runs on exactly *)
(* as long as it has runs left, if it has a number of them, and its last   *)
(* StopAfter runs did not all fail, if it has such a threshold; and the    *)
(* runs counted as successes, no others, have submitted one proposal or    *)
(* no-trade decision each (periodic_runner.py _run, live_market_runner.py  *)
(* run_once).  tests/test_live_market_runner.py:131-179 wants a success    *)
(* that submits nothing: see NothingRepeated.                              *)
LoopAccounts ==
  \A p \in Processes :
    LET failures == {i \in 1..Len(outcomes[p]) : ~outcomes[p][i]} IN
    /\ loop[p].failed = Cardinality(failures)
    /\ loop[p].succeeded = Len(outcomes[p]) - Cardinality(failures)
    /\ loop[p].streak = Trailing(outcomes[p])
    /\ pc[p] = "ended" <=>
         \/ StopAfter # NotGiven /\ Trailing(outcomes[p]) >= StopAfter
         \/ Runs[p] # NotGiven /\ Len(outcomes[p]) = Runs[p]
    /\ pc[p] # "dead" =>
         Len(stored[p]) = loop[p].succeeded + (IF pc[p] = "emitted" THEN 1 ELSE 0)

(* Every run comes to its end, whatever the exchange answers, a failing    *)
(* disk refuses and the other processes do to the directory, and with its  *)
(* runs every loop that was given a number of them.                        *)
LoopsEnd ==
  \A p \in Processes :
    /\ []<>(pc[p] \in {"start", "ended", "dead"})
    /\ Runs[p] # NotGiven => <>(pc[p] \in {"ended", "dead"})

-----------------------------------------------------------------------------
(* What the tests say and the code does not do. *)

(* "test_run_once_suppresses_duplicate_active_proposal_within_cooldown",   *)
(* "self.assertFalse(second.emitted)"                                      *)
(* (tests/test_live_market_runner.py:131, :151; :156, :176 for no-trade    *)
(* notices): a run right after another one of the loop does not submit     *)
(* again what that one submitted.                                          *)
NothingRepeated ==
  \A p \in Processes : \A i \in 2..Len(stored[p]) : stored[p][i] # stored[p][i - 1]
=================================================================================
