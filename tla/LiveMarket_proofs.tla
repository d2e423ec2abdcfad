--------------------------- MODULE LiveMarket_proofs ---------------------------
(***************************************************************************)
(* The live market runners over one market directory, for any number of    *)
(* processes, symbols, runs and answers of the exchange.  A step of one    *)
(* process leaves the local variables of the others alone and shows in     *)
(* their touched what it did to the directory, so each invariant is stated *)
(* of one process and proved for its own steps and against interference.   *)
(***************************************************************************)
EXTENDS LiveMarket, FiniteSetTheorems, TLAPS

Idle == {"start", "ended", "dead"}
KindNames == (UNION {Listings[s] : s \in Symbols}) \union {"none"}
Snaps == [gen : Nat, kind : KindNames]
Built == UNION {[D -> Snaps] : D \in SUBSET Symbols}
Refreshes == [gen : Nat, selected : SUBSET Symbols, built : Built,
              toWrite : SUBSET Symbols, toPrune : SUBSET Symbols]
Rows == [symbol : Symbols, snapshot : Snaps]
Chosen == [kind : DecisionKinds, symbol : Symbols \union {"none"}, gen : Nat]
Readings == [toRead : SUBSET Symbols, opened : SUBSET Symbols, ranked : SUBSET Rows,
             decision : Chosen]

(* What the variables hold. *)
Shapes ==
  /\ clock \in Nat /\ faults \in 0..MaxFaults
  /\ universe \in SUBSET Symbols
  /\ snapshots \in [Symbols -> Snaps]
  /\ \A s \in Symbols : snapshots[s].gen <= clock
  /\ refresh \in [Processes -> Refreshes]
  /\ pc \in [Processes -> Labels]
  /\ touched \in [Processes -> SUBSET (Symbols \union {"universe"})]
  /\ reading \in [Processes -> Readings]

(* The local variables of a refresh agree with each other. *)
Planned(p) ==
  /\ refresh[p].gen <= clock
  /\ DOMAIN refresh[p].built \subseteq refresh[p].selected
  /\ refresh[p].toWrite \subseteq DOMAIN refresh[p].built
  /\ refresh[p].toPrune \intersect refresh[p].selected = {}
  /\ \A s \in DOMAIN refresh[p].built :
       refresh[p].built[s].gen = refresh[p].gen /\ refresh[p].gen > 0
  /\ pc[p] \in {"universe", "snapshots", "list", "prune", "refreshed", "read"}
       => DOMAIN refresh[p].built # {}
  /\ pc[p] = "universe" => refresh[p].toWrite = DOMAIN refresh[p].built

(* How far the refresh of p has come, but for the files of touched[p]. *)
Installed(p) ==
  /\ pc[p] \in {"snapshots", "list", "prune", "refreshed", "read"} =>
       /\ "universe" \notin touched[p] => universe = refresh[p].selected
       /\ \A s \in DOMAIN refresh[p].built :
            s \in refresh[p].toWrite \/ s \in touched[p] \/ snapshots[s] = refresh[p].built[s]
  /\ pc[p] \in {"list", "prune", "refreshed", "read"} => refresh[p].toWrite = {}
  /\ pc[p] \in {"prune", "refreshed"} => \A s \in Symbols :
       \/ s \in refresh[p].selected \/ s \in touched[p] \/ s \in refresh[p].toPrune
       \/ snapshots[s] = NoSnapshot
  /\ pc[p] = "refreshed" => refresh[p].toPrune = {}

(* A symbol priced by p from the file of generation gen. *)
Priced(p, s, gen) ==
  \/ gen = refresh[p].gen
  \/ s \in refresh[p].selected \ DOMAIN refresh[p].built
  \/ s \in touched[p] \/ "universe" \in touched[p]

(* What p has read back of its refresh. *)
ReadBack(p) ==
  /\ reading[p].opened = {} \/ pc[p] \in {"read", "decide_failed"}
  /\ \A s, t \in reading[p].opened : s = t
  /\ pc[p] = "read" =>
       /\ "universe" \in touched[p]
            \/ reading[p].toRead \union reading[p].opened \subseteq refresh[p].selected
       /\ \A s \in DOMAIN refresh[p].built :
            \/ s \in reading[p].toRead \union reading[p].opened
            \/ \E row \in reading[p].ranked : row.symbol = s
            \/ touched[p] # {}
       /\ \A s \in reading[p].opened : s \in touched[p] \/ snapshots[s] # NoSnapshot
       /\ \A row \in reading[p].ranked : Priced(p, row.symbol, row.snapshot.gen)
  /\ pc[p] = "decide_failed" => touched[p] # {}

(* What p has decided. *)
Decided(p) ==
  /\ pc[p] \notin {"emit", "emitted", "emit_failed"} => reading[p].decision.kind = "none"
  /\ reading[p].decision.kind = "no_market" => touched[p] # {}
  /\ reading[p].decision.kind = "proposal" =>
       Priced(p, reading[p].decision.symbol, reading[p].decision.gen)

Local(p) == Planned(p) /\ Installed(p) /\ ReadBack(p) /\ Decided(p)

DirectoryInv == Shapes /\ \A p \in Processes : Local(p)

-----------------------------------------------------------------------------
(* Types. *)

LEMMA BuiltType ==
  ASSUME NEW b \in Built
  PROVE  DOMAIN b \in SUBSET Symbols /\ \A s \in DOMAIN b : b[s] \in Snaps
BY DEF Built

LEMMA BuiltIs ==
  ASSUME NEW b, NEW D \in SUBSET Symbols, b \in [D -> Snaps]
  PROVE  b \in Built
BY DEF Built

LEMMA NothingTyped ==
  /\ NoSnapshot \in Snaps /\ NoSnapshot.gen = 0
  /\ NoRefresh \in Refreshes /\ DOMAIN NoRefresh.built = {}
  /\ NoReading \in Readings
<1>1. NoSnapshot \in Snaps /\ NoSnapshot.gen = 0
  <2>1. "none" \in KindNames
    BY DEF KindNames
  <2> QED  BY <2>1 DEF NoSnapshot, Snaps
<1>2. <<>> \in [{} -> Snaps]
  OBVIOUS
<1>3. <<>> \in Built
  BY <1>2, BuiltIs
<1>4. NoRefresh \in Refreshes /\ DOMAIN NoRefresh.built = {}
  BY <1>3 DEF NoRefresh, Refreshes
<1>5. NoReading \in Readings
  BY DEF NoReading, NoDecision, Readings, Chosen, DecisionKinds
<1> QED  BY <1>1, <1>4, <1>5

(* What a refresh sets out to do. *)
LEMMA PlanType ==
  ASSUME NEW gen \in Nat, NEW market \in Markets,
         NEW selected \in SelectUniverse(BuildSymbolRecords(market))
  PROVE  LET built == BuildSnapshots(selected, market, gen) IN
         /\ selected \in SUBSET Symbols
         /\ built \in Built
         /\ DOMAIN built \subseteq selected
         /\ \A s \in DOMAIN built : built[s].gen = gen
<1> DEFINE built == BuildSnapshots(selected, market, gen)
           quoted == {s \in selected : market[s] # "unquoted"}
<1>1. selected \in SUBSET Symbols
  BY DEF SelectUniverse, BuildSymbolRecords
<1>2. built = [s \in quoted |-> [gen |-> gen, kind |-> market[s]]]
  BY DEF BuildSnapshots
<1>3. \A s \in quoted : [gen |-> gen, kind |-> market[s]] \in Snaps
  BY <1>1 DEF Markets, Snaps, KindNames
<1>4. quoted \in SUBSET Symbols
  BY <1>1
<1> HIDE DEF built, quoted
<1>5. built \in [quoted -> Snaps]
  BY <1>2, <1>3
<1>6. built \in Built
  BY <1>4, <1>5, BuiltIs
<1>7. DOMAIN built \subseteq selected
  BY <1>5 DEF quoted
<1>8. \A s \in DOMAIN built : built[s].gen = gen
  BY <1>2
<1> QED  BY <1>1, <1>6, <1>7, <1>8 DEF built

LEMMA ShapesInit == LiveInit => Shapes
BY NothingTyped, PipelineAssumption
   DEF LiveInit, PipelineInit, Shapes, PipelineAssumption, Labels, NoSnapshot

LEMMA ShapesStep ==
  ASSUME Shapes, \A p \in Processes : Planned(p), [Next]_vars
  PROVE  Shapes'
<1>1. CASE UNCHANGED vars
  BY <1>1 DEF Shapes, vars, dirVars
<1>2. ASSUME NEW p \in Processes, NEW l \in Labels, Goto(p, l)
      PROVE  pc' \in [Processes -> Labels]
  BY <1>2 DEF Goto, Shapes
<1>3. ASSUME NEW p \in Processes, NEW file \in Symbols \union {"universe"}, Touch(p, file)
      PROVE  touched' \in [Processes -> SUBSET (Symbols \union {"universe"})]
  BY <1>3 DEF Touch, Shapes
<1>4. ASSUME NEW p \in Processes, BeginRefresh(p), UNCHANGED reading PROVE Shapes'
  <2>1. PICK market \in Markets :
          \E selected \in SelectUniverse(BuildSymbolRecords(market)) :
            LET built == BuildSnapshots(selected, market, clock + 1) IN
            /\ refresh' = [refresh EXCEPT ![p] = [gen |-> clock + 1, selected |-> selected,
                                                  built |-> built, toWrite |-> DOMAIN built,
                                                  toPrune |-> {}]]
            /\ Goto(p, IF DOMAIN built = {} THEN "refresh_failed" ELSE "universe")
    BY <1>4 DEF BeginRefresh
  <2>2. PICK selected \in SelectUniverse(BuildSymbolRecords(market)) :
          LET built == BuildSnapshots(selected, market, clock + 1) IN
          /\ refresh' = [refresh EXCEPT ![p] = [gen |-> clock + 1, selected |-> selected,
                                                built |-> built, toWrite |-> DOMAIN built,
                                                toPrune |-> {}]]
          /\ Goto(p, IF DOMAIN built = {} THEN "refresh_failed" ELSE "universe")
    BY <2>1
  <2> DEFINE built == BuildSnapshots(selected, market, clock + 1)
  <2>3. clock' = clock + 1 /\ clock \in Nat /\ UNCHANGED <<universe, snapshots, faults, touched>>
    BY <1>4 DEF BeginRefresh, dirVars, Shapes
  <2>4. selected \in SUBSET Symbols /\ built \in Built /\ DOMAIN built \subseteq selected
    <3>1. clock + 1 \in Nat
      BY <2>3
    <3> QED  BY <3>1, PlanType
  <2>5. pc' \in [Processes -> Labels]
    BY <2>2, <1>2 DEF Labels, Failures
  <2>6. refresh' = [refresh EXCEPT ![p] = [gen |-> clock + 1, selected |-> selected,
                      built |-> built, toWrite |-> DOMAIN built, toPrune |-> {}]]
    BY <2>2
  <2> HIDE DEF built
  <2>7. refresh' \in [Processes -> Refreshes]
    BY <2>3, <2>4, <2>6 DEF Refreshes, Shapes
  <2> QED  BY <1>4, <2>3, <2>5, <2>7 DEF Shapes, Snaps
<1>5. ASSUME NEW p \in Processes, WriteUniverse(p), UNCHANGED reading PROVE Shapes'
  <2>1. refresh[p].selected \in SUBSET Symbols
    BY DEF Shapes, Refreshes
  <2> QED  BY <1>2, <1>3, <1>5, <2>1 DEF WriteUniverse, Shapes, Labels
<1>6. ASSUME NEW p \in Processes, WriteSnapshot(p), UNCHANGED reading PROVE Shapes'
  <2>1. PICK s \in refresh[p].toWrite :
          /\ snapshots' = [snapshots EXCEPT ![s] = refresh[p].built[s]]
          /\ Touch(p, s)
          /\ refresh' = [refresh EXCEPT ![p].toWrite = @ \ {s}]
          /\ Goto(p, IF refresh[p].toWrite = {s} THEN "list" ELSE "snapshots")
    BY <1>6 DEF WriteSnapshot, Replaced
  <2>2. refresh[p] \in Refreshes /\ refresh[p].built \in Built /\ s \in DOMAIN refresh[p].built
    BY DEF Shapes, Refreshes, Planned
  <2>3. s \in Symbols /\ refresh[p].built[s] \in Snaps /\ refresh[p].built[s].gen <= clock
    BY <2>2, BuiltType DEF Planned
  <2>4. refresh' \in [Processes -> Refreshes]
    BY <2>1, <2>2 DEF Shapes, Refreshes
  <2>5. snapshots' \in [Symbols -> Snaps] /\ \A t \in Symbols : snapshots'[t].gen <= clock
    BY <2>1, <2>3 DEF Shapes
  <2>6. pc' \in [Processes -> Labels]
    BY <1>2, <2>1 DEF Labels
  <2>7. UNCHANGED <<universe, clock, faults>>
    BY <1>6 DEF WriteSnapshot
  <2> QED  BY <1>3, <1>6, <2>1, <2>3, <2>4, <2>5, <2>6, <2>7 DEF Shapes
<1>7. ASSUME NEW p \in Processes, ListDirectory(p), UNCHANGED reading PROVE Shapes'
  <2>1. refresh[p] \in Refreshes /\ Stale(p) \in SUBSET Symbols
    BY DEF Shapes, Stale
  <2>2. refresh' \in [Processes -> Refreshes]
    BY <1>7, <2>1 DEF ListDirectory, Shapes, Refreshes
  <2>3. pc' \in [Processes -> Labels]
    BY <1>2, <1>7 DEF ListDirectory, Labels
  <2> QED  BY <1>7, <2>2, <2>3 DEF ListDirectory, Shapes, dirVars
<1>8. ASSUME NEW p \in Processes, PruneSnapshot(p), UNCHANGED reading PROVE Shapes'
  <2>1. PICK s \in refresh[p].toPrune :
          /\ snapshots' = [snapshots EXCEPT ![s] = NoSnapshot]
          /\ Touch(p, s)
          /\ refresh' = [refresh EXCEPT ![p].toPrune = @ \ {s}]
          /\ Goto(p, IF refresh[p].toPrune = {s} THEN "refreshed" ELSE "prune")
    BY <1>8 DEF PruneSnapshot
  <2>2. refresh[p] \in Refreshes /\ s \in Symbols
    BY DEF Shapes, Refreshes
  <2>3. refresh' \in [Processes -> Refreshes]
    BY <2>1, <2>2 DEF Shapes, Refreshes
  <2>4. snapshots' \in [Symbols -> Snaps] /\ \A t \in Symbols : snapshots'[t].gen <= clock
    <3>1. \A t \in Symbols : snapshots'[t] = IF t = s THEN NoSnapshot ELSE snapshots[t]
      BY <2>1 DEF Shapes
    <3>2. snapshots' \in [Symbols -> Snaps]
      BY <2>1, NothingTyped DEF Shapes
    <3> QED  BY <3>1, <3>2, NothingTyped DEF Shapes
  <2>5. pc' \in [Processes -> Labels]
    BY <1>2, <2>1 DEF Labels
  <2>6. UNCHANGED <<universe, clock, faults>>
    BY <1>8 DEF PruneSnapshot
  <2> QED  BY <1>3, <1>8, <2>1, <2>2, <2>3, <2>4, <2>5, <2>6 DEF Shapes
<1>9. ASSUME NEW p \in Processes, RefreshFails(p), UNCHANGED reading PROVE Shapes'
  <2>1. faults' \in 0..MaxFaults
    BY <1>9, PipelineAssumption DEF RefreshFails, Shapes, PipelineAssumption
  <2> QED  BY <1>2, <1>9, <2>1 DEF RefreshFails, Shapes, Labels, Failures, dirVars
<1>10. ASSUME NEW p \in Processes, LoadUniverse(p) PROVE Shapes'
  <2>1. reading' \in [Processes -> Readings]
    BY <1>10, NothingTyped DEF LoadUniverse, Shapes, Readings
  <2> QED  BY <1>2, <1>10, <2>1 DEF LoadUniverse, Shapes, Labels, pipelineVars, dirVars
<1>11. ASSUME NEW p \in Processes, LookForSnapshot(p) PROVE Shapes'
  <2>1. reading[p] \in Readings
    BY DEF Shapes
  <2>2. PICK s \in reading[p].toRead :
          reading' = [reading EXCEPT ![p].toRead = reading[p].toRead \ {s},
                                     ![p].opened = IF snapshots[s] = NoSnapshot THEN {} ELSE {s}]
    BY <1>11 DEF LookForSnapshot, LeftToRead
  <2>3. reading' \in [Processes -> Readings]
    BY <2>1, <2>2 DEF Shapes, Readings
  <2> QED  BY <1>11, <2>3 DEF LookForSnapshot, Shapes, pipelineVars, dirVars
<1>12. ASSUME NEW p \in Processes, ReadSnapshot(p) PROVE Shapes'
  <2>1. reading[p] \in Readings
    BY DEF Shapes
  <2>2. PICK s \in reading[p].opened :
          \/ Goto(p, "decide_failed") /\ UNCHANGED reading
          \/ /\ reading' = [reading EXCEPT ![p].opened = {},
                              ![p].ranked = @ \union {[symbol |-> s, snapshot |-> snapshots[s]]}]
             /\ UNCHANGED pc
    BY <1>12 DEF ReadSnapshot
  <2>3. [symbol |-> s, snapshot |-> snapshots[s]] \in Rows
    BY <2>1 DEF Shapes, Readings, Rows
  <2>4. reading' \in [Processes -> Readings]
    <3>1. reading[p].ranked \union {[symbol |-> s, snapshot |-> snapshots[s]]} \in SUBSET Rows
      BY <2>1, <2>3 DEF Readings
    <3> QED  BY <2>1, <2>2, <3>1 DEF Shapes, Readings
  <2>5. pc' \in [Processes -> Labels]
    BY <1>2, <2>2 DEF Labels, Failures, Shapes
  <2> QED  BY <1>12, <2>4, <2>5 DEF ReadSnapshot, Shapes, pipelineVars, dirVars
<1>13. ASSUME NEW p \in Processes, Decide(p) PROVE Shapes'
  <2>1. reading[p] \in Readings
    BY DEF Shapes
  <2>2. PICK decision \in Decisions(reading[p].ranked) :
          reading' = [reading EXCEPT ![p] = [NoReading EXCEPT !.decision = decision]]
    BY <1>13 DEF Decide
  <2>3. decision \in Chosen
    BY <2>1 DEF Decisions, NoTrade, Eligible, Chosen, DecisionKinds, Readings, Rows, Snaps
  <2>4. reading' \in [Processes -> Readings]
    BY <2>2, <2>3, NothingTyped DEF Shapes, Readings
  <2>5. pc' \in [Processes -> Labels]
    BY <1>2, <1>13 DEF Decide, Labels
  <2> QED  BY <1>13, <2>4, <2>5 DEF Decide, Shapes, pipelineVars, dirVars
<1>14. ASSUME NEW p \in Processes, Submit(p) PROVE Shapes'
  BY <1>2, <1>14 DEF Submit, Shapes, pipelineVars, dirVars, Labels
<1>15. ASSUME NEW p \in Processes, SubmitFails(p) PROVE Shapes'
  <2>1. faults' \in 0..MaxFaults
    BY <1>15, PipelineAssumption DEF SubmitFails, Shapes, PipelineAssumption
  <2> QED  BY <1>2, <1>15, <2>1 DEF SubmitFails, Shapes, Labels, Failures, pipelineVars, dirVars
<1>16. ASSUME NEW p \in Processes, NEW l \in Labels, Goto(p, l),
              refresh' = [refresh EXCEPT ![p] = NoRefresh],
              reading' = [reading EXCEPT ![p] = NoReading],
              touched' = [touched EXCEPT ![p] = {}],
              UNCHANGED <<universe, snapshots, clock>>, faults' \in 0..MaxFaults
       PROVE  Shapes'
  <2>1. refresh' \in [Processes -> Refreshes] /\ reading' \in [Processes -> Readings]
    BY <1>16, NothingTyped DEF Shapes
  <2> QED  BY <1>2, <1>16, <2>1 DEF Shapes
<1>17. ASSUME NEW p \in Processes, EndRun(p) PROVE Shapes'
  <2>1. PICK l \in Labels : Goto(p, l)
    BY <1>17 DEF EndRun, Labels
  <2> QED  BY <1>16, <1>17, <2>1 DEF EndRun, Shapes, dirVars
<1>18. ASSUME NEW p \in Processes, Crash(p) PROVE Shapes'
  <2>1. faults' \in 0..MaxFaults
    BY <1>18, PipelineAssumption DEF Crash, Shapes, PipelineAssumption
  <2> QED  BY <1>16, <1>18, <2>1 DEF Crash, Labels, dirVars
<1> QED
  BY <1>1, <1>4, <1>5, <1>6, <1>7, <1>8, <1>9, <1>10, <1>11, <1>12, <1>13, <1>14, <1>15,
     <1>17, <1>18 DEF Next, Proceed, RefreshStep

-----------------------------------------------------------------------------
(* Interference. *)

(* What a step of another process does to q. *)
LeftAlone(q) ==
  /\ pc'[q] = pc[q] /\ refresh'[q] = refresh[q] /\ reading'[q] = reading[q]
  /\ clock <= clock' /\ touched[q] \subseteq touched'[q]
  /\ pc[q] \notin Idle =>
       /\ universe' = universe \/ "universe" \in touched'[q]
       /\ \A s \in Symbols : snapshots'[s] = snapshots[s] \/ s \in touched'[q]

Step(p) ==
  \/ Proceed(p)
  \/ RefreshFails(p) /\ Explored(p) /\ UNCHANGED <<reading, loopVars, stored>>
  \/ SubmitFails(p)
  \/ Crash(p)

LEMMA OthersLeftAlone ==
  ASSUME Shapes, NEW p \in Processes, NEW q \in Processes, q # p, Step(p)
  PROVE  LeftAlone(q)
<1>1. ASSUME NEW l, Goto(p, l) PROVE pc'[q] = pc[q]
  BY <1>1 DEF Goto, Shapes
<1>2. ASSUME NEW file, Touch(p, file)
      PROVE  touched[q] \subseteq touched'[q] /\ (pc[q] \notin Idle => file \in touched'[q])
  BY <1>2 DEF Touch, Shapes, Idle
<1>3. clock \in Nat
  BY DEF Shapes
<1>4. CASE BeginRefresh(p) /\ UNCHANGED reading
  <2>1. pc'[q] = pc[q] /\ refresh'[q] = refresh[q]
    BY <1>1, <1>4 DEF BeginRefresh, Shapes
  <2>2. clock' = clock + 1 /\ UNCHANGED <<universe, snapshots, touched, reading>>
    BY <1>4 DEF BeginRefresh, dirVars
  <2> QED  BY <1>3, <2>1, <2>2 DEF LeftAlone
<1>5. CASE WriteUniverse(p) /\ UNCHANGED reading
  BY <1>1, <1>2, <1>3, <1>5 DEF WriteUniverse, LeftAlone
<1>6. CASE WriteSnapshot(p) /\ UNCHANGED reading
  <2>1. PICK s \in refresh[p].toWrite :
          /\ snapshots' = [snapshots EXCEPT ![s] = refresh[p].built[s]]
          /\ Touch(p, s)
          /\ refresh' = [refresh EXCEPT ![p].toWrite = @ \ {s}]
          /\ Goto(p, IF refresh[p].toWrite = {s} THEN "list" ELSE "snapshots")
    BY <1>6 DEF WriteSnapshot, Replaced
  <2>2. UNCHANGED <<universe, clock, reading>>
    BY <1>6 DEF WriteSnapshot
  <2>3. refresh'[q] = refresh[q] /\ \A t \in Symbols : t = s \/ snapshots'[t] = snapshots[t]
    BY <2>1 DEF Shapes
  <2> QED  BY <1>1, <1>2, <1>3, <2>1, <2>2, <2>3 DEF LeftAlone
<1>7. CASE ListDirectory(p) /\ UNCHANGED reading
  BY <1>1, <1>3, <1>7 DEF ListDirectory, Shapes, LeftAlone, dirVars
<1>8. CASE PruneSnapshot(p) /\ UNCHANGED reading
  <2>1. PICK s \in refresh[p].toPrune :
          /\ snapshots' = [snapshots EXCEPT ![s] = NoSnapshot]
          /\ Touch(p, s)
          /\ refresh' = [refresh EXCEPT ![p].toPrune = @ \ {s}]
          /\ Goto(p, IF refresh[p].toPrune = {s} THEN "refreshed" ELSE "prune")
    BY <1>8 DEF PruneSnapshot
  <2>2. UNCHANGED <<universe, clock, reading>>
    BY <1>8 DEF PruneSnapshot
  <2>3. refresh'[q] = refresh[q] /\ \A t \in Symbols : t = s \/ snapshots'[t] = snapshots[t]
    BY <2>1 DEF Shapes
  <2> QED  BY <1>1, <1>2, <1>3, <2>1, <2>2, <2>3 DEF LeftAlone
<1>9. CASE RefreshFails(p) /\ UNCHANGED reading
  BY <1>1, <1>3, <1>9 DEF RefreshFails, LeftAlone, dirVars
<1>10. CASE LoadUniverse(p)
  BY <1>1, <1>3, <1>10 DEF LoadUniverse, LeftAlone, Shapes, pipelineVars, dirVars
<1>11. CASE LookForSnapshot(p)
  BY <1>3, <1>11 DEF LookForSnapshot, LeftAlone, Shapes, pipelineVars, dirVars
<1>12. CASE ReadSnapshot(p)
  <2>1. reading'[q] = reading[q] /\ pc'[q] = pc[q]
    BY <1>1, <1>12 DEF ReadSnapshot, Shapes
  <2> QED  BY <1>3, <1>12, <2>1 DEF ReadSnapshot, LeftAlone, pipelineVars, dirVars
<1>13. CASE Decide(p)
  <2>1. reading'[q] = reading[q] /\ pc'[q] = pc[q]
    BY <1>1, <1>13 DEF Decide, Shapes
  <2> QED  BY <1>3, <1>13, <2>1 DEF Decide, LeftAlone, pipelineVars, dirVars
<1>14. CASE Submit(p)
  BY <1>1, <1>3, <1>14 DEF Submit, LeftAlone, pipelineVars, dirVars
<1>15. CASE SubmitFails(p)
  BY <1>1, <1>3, <1>15 DEF SubmitFails, LeftAlone, pipelineVars, dirVars
<1>16. CASE EndRun(p)
  <2>1. pc'[q] = pc[q]
    BY <1>1, <1>16 DEF EndRun
  <2> QED  BY <1>3, <1>16, <2>1 DEF EndRun, LeftAlone, Shapes, dirVars
<1>17. CASE Crash(p)
  BY <1>1, <1>3, <1>17 DEF Crash, LeftAlone, Shapes, dirVars
<1> QED
  BY <1>4, <1>5, <1>6, <1>7, <1>8, <1>9, <1>10, <1>11, <1>12, <1>13, <1>14, <1>15, <1>16,
     <1>17 DEF Step, Proceed, RefreshStep

(* Interference does no harm to what is claimed of q: it touches what it    *)
(* changes.                                                                *)
LEMMA LocalKept ==
  ASSUME Shapes, Shapes', NEW q \in Processes, Local(q), LeftAlone(q)
  PROVE  Local(q)'
<1>1. /\ refresh[q] \in Refreshes /\ reading[q] \in Readings
      /\ DOMAIN refresh[q].built \in SUBSET Symbols
      /\ refresh[q].gen \in Nat /\ clock \in Nat /\ clock' \in Nat
  BY BuiltType DEF Shapes, Refreshes
<1>2. Planned(q)'
  BY <1>1 DEF Local, LeftAlone, Planned
<1>3. Installed(q)'
  BY <1>1 DEF Local, LeftAlone, Installed, Idle
<1>4. \A s, gen : Priced(q, s, gen) => Priced(q, s, gen)'
  BY DEF Priced, LeftAlone
<1>5. ReadBack(q)'
  <2>1. reading[q].toRead \subseteq Symbols /\ reading[q].opened \subseteq Symbols
    BY <1>1 DEF Readings
  <2>2. CASE pc[q] = "read"
    <3>1. "universe" \in touched'[q]
             \/ reading[q].toRead \union reading[q].opened \subseteq refresh[q].selected
      BY <2>2 DEF Local, ReadBack, LeftAlone
    <3>2. \A s \in DOMAIN refresh[q].built :
            \/ s \in reading[q].toRead \union reading[q].opened
            \/ \E row \in reading[q].ranked : row.symbol = s
            \/ touched'[q] # {}
      BY <2>2 DEF Local, ReadBack, LeftAlone
    <3>3. \A s \in reading[q].opened : s \in touched'[q] \/ snapshots'[s] # NoSnapshot
      BY <2>1, <2>2 DEF Local, ReadBack, LeftAlone, Idle
    <3>4. \A row \in reading[q].ranked : Priced(q, row.symbol, row.snapshot.gen)'
      BY <1>4, <2>2 DEF Local, ReadBack
    <3>5. \A s, t \in reading[q].opened : s = t
      BY DEF Local, ReadBack
    <3> QED  BY <2>2, <3>1, <3>2, <3>3, <3>4, <3>5 DEF LeftAlone, ReadBack
  <2>3. CASE pc[q] # "read"
    BY <2>3 DEF Local, LeftAlone, ReadBack
  <2> QED  BY <2>2, <2>3
<1>6. Decided(q)'
  BY <1>4 DEF Local, LeftAlone, Decided
<1> QED  BY <1>2, <1>3, <1>5, <1>6 DEF Local

-----------------------------------------------------------------------------
(* The steps of a process itself. *)

LEMMA OwnStep ==
  ASSUME Shapes, Shapes', NEW p \in Processes, Local(p), Step(p)
  PROVE  Local(p)'
<1>1. /\ refresh[p] \in Refreshes /\ refresh'[p] \in Refreshes
      /\ reading[p] \in Readings /\ reading'[p] \in Readings
      /\ clock \in Nat /\ pc[p] \in Labels
      /\ DOMAIN refresh[p].built \in SUBSET Symbols
      /\ \A s \in DOMAIN refresh[p].built : refresh[p].built[s] # NoSnapshot
  <2>1. \A s \in DOMAIN refresh[p].built :
          refresh[p].built[s].gen = refresh[p].gen /\ refresh[p].gen > 0
    BY DEF Local, Planned
  <2> QED  BY <2>1, BuiltType, NothingTyped DEF Shapes, Refreshes
<1>2. ASSUME NEW l, Goto(p, l) PROVE pc'[p] = l
  BY <1>2 DEF Goto, Shapes
<1>3. ASSUME NEW file, Touch(p, file) PROVE touched'[p] = touched[p]
  BY <1>3 DEF Touch, Shapes
<1>5. CASE BeginRefresh(p) /\ UNCHANGED reading
  <2>1. PICK market \in Markets :
          \E selected \in SelectUniverse(BuildSymbolRecords(market)) :
            LET built == BuildSnapshots(selected, market, clock + 1) IN
            /\ refresh' = [refresh EXCEPT ![p] = [gen |-> clock + 1, selected |-> selected,
                                                  built |-> built, toWrite |-> DOMAIN built,
                                                  toPrune |-> {}]]
            /\ Goto(p, IF DOMAIN built = {} THEN "refresh_failed" ELSE "universe")
    BY <1>5 DEF BeginRefresh
  <2>2. PICK selected \in SelectUniverse(BuildSymbolRecords(market)) :
          LET built == BuildSnapshots(selected, market, clock + 1) IN
          /\ refresh' = [refresh EXCEPT ![p] = [gen |-> clock + 1, selected |-> selected,
                                                built |-> built, toWrite |-> DOMAIN built,
                                                toPrune |-> {}]]
          /\ Goto(p, IF DOMAIN built = {} THEN "refresh_failed" ELSE "universe")
    BY <2>1
  <2> DEFINE built == BuildSnapshots(selected, market, clock + 1)
  <2>3. /\ DOMAIN built \subseteq selected
        /\ \A s \in DOMAIN built : built[s].gen = clock + 1
    <3>1. clock + 1 \in Nat
      BY <1>1
    <3> QED  BY <3>1, PlanType
  <2>4. refresh'[p] = [gen |-> clock + 1, selected |-> selected, built |-> built,
                       toWrite |-> DOMAIN built, toPrune |-> {}]
    BY <2>2 DEF Shapes
  <2>5. /\ pc'[p] \in {"refresh_failed", "universe"}
        /\ pc'[p] = "universe" => DOMAIN built # {}
    BY <1>2, <2>2
  <2>6. pc[p] = "start" /\ clock' = clock + 1 /\ UNCHANGED <<touched, reading>>
    BY <1>5 DEF BeginRefresh
  <2> HIDE DEF built
  <2>7. Planned(p)'
    BY <1>1, <2>3, <2>4, <2>5, <2>6 DEF Planned
  <2>8. Installed(p)' /\ ReadBack(p)' /\ Decided(p)'
    BY <2>5, <2>6 DEF Local, Installed, ReadBack, Decided
  <2> QED  BY <2>7, <2>8 DEF Local
<1>6. CASE WriteUniverse(p) /\ UNCHANGED reading
  <2>1. /\ pc[p] = "universe" /\ pc'[p] = "snapshots" /\ touched'[p] = touched[p]
        /\ universe' = refresh[p].selected /\ UNCHANGED <<refresh, clock, reading>>
    BY <1>2, <1>3, <1>6 DEF WriteUniverse
  <2>2. \A s \in DOMAIN refresh[p].built :
          \/ s \in refresh[p].toWrite
          \/ s \in touched[p]
          \/ snapshots'[s] = refresh[p].built[s]
    BY <2>1 DEF Local, Planned
  <2> QED  BY <2>1, <2>2 DEF Local, Planned, Installed, ReadBack, Decided
<1>7. CASE WriteSnapshot(p) /\ UNCHANGED reading
  <2>1. PICK s \in refresh[p].toWrite :
          /\ snapshots' = [snapshots EXCEPT ![s] = refresh[p].built[s]]
          /\ Touch(p, s)
          /\ refresh' = [refresh EXCEPT ![p].toWrite = @ \ {s}]
          /\ Goto(p, IF refresh[p].toWrite = {s} THEN "list" ELSE "snapshots")
    BY <1>7 DEF WriteSnapshot, Replaced
  <2>2. pc[p] = "snapshots" /\ UNCHANGED <<universe, clock, reading>>
    BY <1>7 DEF WriteSnapshot
  <2>3. /\ touched'[p] = touched[p]
        /\ pc'[p] = IF refresh[p].toWrite = {s} THEN "list" ELSE "snapshots"
    BY <1>2, <1>3, <2>1
  <2>4. refresh'[p] = [refresh[p] EXCEPT !.toWrite = @ \ {s}]
    BY <2>1 DEF Shapes
  <2>5. /\ refresh'[p].gen = refresh[p].gen /\ refresh'[p].selected = refresh[p].selected
        /\ refresh'[p].built = refresh[p].built /\ refresh'[p].toPrune = refresh[p].toPrune
        /\ refresh'[p].toWrite = refresh[p].toWrite \ {s}
    BY <1>1, <2>4 DEF Refreshes
  <2>6. \A t \in Symbols : snapshots'[t] = IF t = s THEN refresh[p].built[s] ELSE snapshots[t]
    BY <2>1 DEF Shapes
  <2>7. Planned(p)'
    BY <2>2, <2>3, <2>5 DEF Local, Planned
  <2>8. Installed(p)'
    BY <1>1, <2>2, <2>3, <2>5, <2>6 DEF Local, Installed
  <2>9. ReadBack(p)' /\ Decided(p)'
    BY <2>2, <2>3 DEF Local, ReadBack, Decided
  <2> QED  BY <2>7, <2>8, <2>9 DEF Local
<1>8. CASE ListDirectory(p) /\ UNCHANGED reading
  <2>1. /\ pc[p] = "list" /\ pc'[p] = IF Stale(p) = {} THEN "refreshed" ELSE "prune"
        /\ refresh'[p] = [refresh[p] EXCEPT !.toPrune = Stale(p)]
        /\ UNCHANGED <<universe, snapshots, clock, touched, reading>>
    BY <1>2, <1>8 DEF ListDirectory, Shapes, dirVars
  <2>2. /\ refresh'[p].gen = refresh[p].gen /\ refresh'[p].selected = refresh[p].selected
        /\ refresh'[p].built = refresh[p].built /\ refresh'[p].toWrite = refresh[p].toWrite
        /\ refresh'[p].toPrune = Stale(p)
    BY <1>1, <2>1 DEF Refreshes
  <2>3. Planned(p)'
    BY <2>1, <2>2 DEF Local, Planned, Stale
  <2>4. Installed(p)'
    BY <2>1, <2>2 DEF Local, Installed, Stale
  <2>5. ReadBack(p)' /\ Decided(p)'
    BY <2>1 DEF Local, ReadBack, Decided
  <2> QED  BY <2>3, <2>4, <2>5 DEF Local
<1>9. CASE PruneSnapshot(p) /\ UNCHANGED reading
  <2>1. PICK s \in refresh[p].toPrune :
          /\ snapshots' = [snapshots EXCEPT ![s] = NoSnapshot]
          /\ Touch(p, s)
          /\ refresh' = [refresh EXCEPT ![p].toPrune = @ \ {s}]
          /\ Goto(p, IF refresh[p].toPrune = {s} THEN "refreshed" ELSE "prune")
    BY <1>9 DEF PruneSnapshot
  <2>2. pc[p] = "prune" /\ UNCHANGED <<universe, clock, reading>>
    BY <1>9 DEF PruneSnapshot
  <2>3. /\ touched'[p] = touched[p]
        /\ pc'[p] = IF refresh[p].toPrune = {s} THEN "refreshed" ELSE "prune"
    BY <1>2, <1>3, <2>1
  <2>4. refresh'[p] = [refresh[p] EXCEPT !.toPrune = @ \ {s}]
    BY <2>1 DEF Shapes
  <2>5. /\ refresh'[p].gen = refresh[p].gen /\ refresh'[p].selected = refresh[p].selected
        /\ refresh'[p].built = refresh[p].built /\ refresh'[p].toWrite = refresh[p].toWrite
        /\ refresh'[p].toPrune = refresh[p].toPrune \ {s}
    BY <1>1, <2>4 DEF Refreshes
  <2>6. /\ \A t \in Symbols : snapshots'[t] = IF t = s THEN NoSnapshot ELSE snapshots[t]
        /\ s \notin refresh[p].selected
    BY <2>1 DEF Shapes, Local, Planned
  <2>7. Planned(p)'
    BY <2>2, <2>3, <2>5 DEF Local, Planned
  <2>8. s \notin DOMAIN refresh[p].built
    BY <2>6 DEF Local, Planned
  <2>9. Installed(p)'
    BY <1>1, <2>2, <2>3, <2>5, <2>6, <2>8 DEF Local, Installed
  <2>10. ReadBack(p)' /\ Decided(p)'
    BY <2>2, <2>3 DEF Local, ReadBack, Decided
  <2> QED  BY <2>7, <2>9, <2>10 DEF Local
<1>10. CASE RefreshFails(p) /\ UNCHANGED reading
  <2>1. /\ UNCHANGED <<universe, snapshots, refresh, clock, touched, reading>>
        /\ pc[p] \notin {"emit", "emitted", "emit_failed", "read", "decide_failed"}
        /\ pc'[p] = "refresh_failed"
    BY <1>2, <1>10 DEF RefreshFails, dirVars
  <2> QED  BY <2>1 DEF Local, Planned, Installed, ReadBack, Decided, Priced
<1>11. CASE LoadUniverse(p)
  <2>1. /\ pc[p] = "refreshed" /\ pc'[p] = "read"
        /\ UNCHANGED <<universe, snapshots, refresh, clock, touched>>
    BY <1>2, <1>11 DEF LoadUniverse, pipelineVars, dirVars
  <2>2. /\ reading'[p].toRead = universe /\ reading'[p].opened = {} /\ reading'[p].ranked = {}
        /\ reading'[p].decision.kind = "none"
    BY <1>11 DEF LoadUniverse, NoReading, NoDecision, Shapes
  <2>3. Planned(p)' /\ Installed(p)' /\ Decided(p)'
    BY <2>1, <2>2 DEF Local, Planned, Installed, Decided
  <2>4. ReadBack(p)'
    BY <2>1, <2>2 DEF Local, Planned, Installed, ReadBack
  <2> QED  BY <2>3, <2>4 DEF Local
<1>12. CASE LookForSnapshot(p)
  <2>1. pc[p] = "read" /\ reading[p].opened = {}
    BY <1>12 DEF LookForSnapshot
  <2>2. UNCHANGED <<universe, snapshots, refresh, clock, touched, pc>>
    BY <1>12 DEF LookForSnapshot, pipelineVars, dirVars
  <2>3. PICK s \in reading[p].toRead :
          reading' = [reading EXCEPT ![p].toRead = reading[p].toRead \ {s},
                                     ![p].opened = IF snapshots[s] = NoSnapshot THEN {} ELSE {s}]
    BY <1>12 DEF LookForSnapshot, LeftToRead
  <2>4. /\ reading'[p].toRead = reading[p].toRead \ {s}
        /\ reading'[p].opened = IF snapshots[s] = NoSnapshot THEN {} ELSE {s}
        /\ reading'[p].ranked = reading[p].ranked
        /\ reading'[p].decision = reading[p].decision
    BY <1>1, <2>3 DEF Shapes, Readings
  <2>5. Planned(p)' /\ Installed(p)' /\ Decided(p)'
    BY <2>1, <2>2, <2>4 DEF Local, Planned, Installed, Decided, Priced
  <2>6. ASSUME NEW t \in DOMAIN refresh[p].built
        PROVE  \/ t \in reading'[p].toRead \union reading'[p].opened
               \/ \E row \in reading[p].ranked : row.symbol = t
               \/ touched[p] # {}
    <3>1. \/ t \in reading[p].toRead
          \/ \E row \in reading[p].ranked : row.symbol = t
          \/ touched[p] # {}
      BY <2>1 DEF Local, ReadBack
    <3>2. CASE t = s /\ touched[p] = {}
      <4>1. snapshots[s] = refresh[p].built[s]
        BY <2>1, <3>2 DEF Local, Installed
      <4> QED  BY <1>1, <2>4, <3>2, <4>1
    <3> QED  BY <2>4, <3>1, <3>2
  <2>7. /\ \A t \in reading'[p].opened : snapshots[t] # NoSnapshot /\ t = s
        /\ reading'[p].toRead \union reading'[p].opened \subseteq reading[p].toRead
    <3>1. CASE snapshots[s] = NoSnapshot
      BY <2>4, <3>1
    <3>2. CASE snapshots[s] # NoSnapshot
      <4>1. reading'[p].opened = {s} /\ reading'[p].toRead = reading[p].toRead \ {s}
        BY <2>4, <3>2
      <4>2. s \in reading[p].toRead
        BY <2>3
      <4> QED  BY <3>2, <4>1, <4>2
    <3> QED  BY <3>1, <3>2
  <2>8. ReadBack(p)'
    BY <2>1, <2>2, <2>4, <2>6, <2>7 DEF Local, ReadBack, Priced
  <2> QED  BY <2>5, <2>8 DEF Local
<1>13. CASE ReadSnapshot(p)
  <2>1. pc[p] = "read" /\ UNCHANGED <<universe, snapshots, refresh, clock, touched>>
    BY <1>13 DEF ReadSnapshot, pipelineVars, dirVars
  <2>2. PICK s \in reading[p].opened :
          IF snapshots[s] = NoSnapshot
          THEN Goto(p, "decide_failed") /\ UNCHANGED reading
          ELSE /\ reading' = [reading EXCEPT ![p].opened = {},
                                ![p].ranked = @ \union {[symbol |-> s, snapshot |-> snapshots[s]]}]
               /\ UNCHANGED pc
    BY <1>13 DEF ReadSnapshot
  <2>3. CASE snapshots[s] = NoSnapshot
    <3>1. pc'[p] = "decide_failed" /\ UNCHANGED reading
      BY <1>2, <2>2, <2>3
    <3>2. s \in touched[p]
      BY <2>1, <2>2, <2>3 DEF Local, ReadBack
    <3> QED  BY <2>1, <3>1, <3>2 DEF Local, Planned, Installed, ReadBack, Decided
  <2>4. CASE snapshots[s] # NoSnapshot
    <3> DEFINE read == [symbol |-> s, snapshot |-> snapshots[s]]
    <3>1. /\ reading'[p].toRead = reading[p].toRead /\ reading'[p].opened = {}
          /\ reading'[p].ranked = reading[p].ranked \union {read}
          /\ reading'[p].decision = reading[p].decision
          /\ pc'[p] = "read"
      BY <1>1, <2>1, <2>2, <2>4 DEF Shapes, Readings
    <3>2. Planned(p)' /\ Installed(p)' /\ Decided(p)'
      BY <2>1, <3>1 DEF Local, Planned, Installed, Decided, Priced
    <3>3. Priced(p, s, snapshots[s].gen)
      <4>1. s \in touched[p] \/ "universe" \in touched[p] \/ s \in refresh[p].selected
        BY <2>1, <2>2 DEF Local, ReadBack
      <4>2. CASE s \in DOMAIN refresh[p].built
        BY <2>1, <4>1, <4>2 DEF Local, Planned, Installed, Priced
      <4> QED  BY <4>1, <4>2 DEF Priced
    <3>4. \A row \in reading'[p].ranked : Priced(p, row.symbol, row.snapshot.gen)'
      BY <2>1, <3>1, <3>3 DEF Local, ReadBack, Priced
    <3>5. ASSUME NEW t \in DOMAIN refresh[p].built
          PROVE  \/ t \in reading[p].toRead
                 \/ \E row \in reading'[p].ranked : row.symbol = t
                 \/ touched[p] # {}
      <4>1. \/ t \in reading[p].toRead \union reading[p].opened
            \/ \E row \in reading[p].ranked : row.symbol = t
            \/ touched[p] # {}
        BY <2>1 DEF Local, ReadBack
      <4>2. \A u \in reading[p].opened : u = s
        BY DEF Local, ReadBack
      <4>3. CASE t = s
        <5>1. read \in reading'[p].ranked /\ read.symbol = t
          BY <3>1, <4>3
        <5> QED  BY <5>1
      <4>4. CASE t # s
        BY <3>1, <4>1, <4>2, <4>4
      <4> QED  BY <4>3, <4>4
    <3>6. ReadBack(p)'
      BY <2>1, <3>1, <3>4, <3>5 DEF Local, ReadBack
    <3> QED  BY <3>2, <3>6 DEF Local
  <2> QED  BY <2>3, <2>4
<1>14. CASE Decide(p)
  <2>1. /\ pc[p] = "read" /\ pc'[p] = "emit" /\ reading[p].toRead = {} /\ reading[p].opened = {}
        /\ UNCHANGED <<universe, snapshots, refresh, clock, touched>>
    BY <1>2, <1>14 DEF Decide, pipelineVars, dirVars
  <2>2. PICK decision \in Decisions(reading[p].ranked) :
          reading' = [reading EXCEPT ![p] = [NoReading EXCEPT !.decision = decision]]
    BY <1>14 DEF Decide
  <2>3. reading'[p].decision = decision /\ reading'[p].opened = {}
    BY <2>2 DEF Shapes, NoReading
  <2>4. decision.kind = "no_market" => touched[p] # {}
    <3>1. decision.kind = "no_market" => reading[p].ranked = {}
      BY DEF Decisions, NoTrade
    <3> QED  BY <2>1, <3>1 DEF Local, Planned, ReadBack
  <2>5. decision.kind = "proposal" => Priced(p, decision.symbol, decision.gen)
    BY <2>1 DEF Decisions, NoTrade, Eligible, Local, ReadBack
  <2>6. Planned(p)' /\ Installed(p)' /\ ReadBack(p)'
    BY <2>1, <2>3 DEF Local, Planned, Installed, ReadBack
  <2>7. Decided(p)'
    BY <2>1, <2>3, <2>4, <2>5 DEF Decided, Priced
  <2> QED  BY <2>6, <2>7 DEF Local
<1>15. CASE Submit(p) \/ SubmitFails(p)
  <2>1. /\ pc[p] = "emit" /\ pc'[p] \in {"emitted", "emit_failed"}
        /\ UNCHANGED <<universe, snapshots, refresh, clock, touched, reading>>
    BY <1>2, <1>15 DEF Submit, SubmitFails, pipelineVars, dirVars
  <2> QED  BY <2>1 DEF Local, Planned, Installed, ReadBack, Decided, Priced
<1>16. CASE EndRun(p) \/ Crash(p)
  <2>1. /\ pc'[p] \in {"start", "ended", "dead"} /\ clock' = clock
        /\ refresh'[p] = NoRefresh /\ reading'[p] = NoReading
    BY <1>2, <1>16 DEF EndRun, Crash, Shapes
  <2> QED
    BY <1>1, <2>1, NothingTyped
    DEF Local, Planned, Installed, ReadBack, Decided, NoRefresh, NoReading, NoDecision
<1> QED
  BY <1>5, <1>6, <1>7, <1>8, <1>9, <1>10, <1>11, <1>12, <1>13, <1>14, <1>15, <1>16
  DEF Step, Proceed, RefreshStep

LEMMA DirectoryInit == LiveInit => DirectoryInv
<1> SUFFICES ASSUME LiveInit PROVE DirectoryInv
  OBVIOUS
<1>1. Shapes
  BY ShapesInit
<1>2. ASSUME NEW p \in Processes PROVE Local(p)
  <2>1. /\ pc[p] = "start" /\ refresh[p] = NoRefresh /\ reading[p] = NoReading
        /\ clock = 0 /\ DOMAIN refresh[p].built = {}
    BY NothingTyped DEF LiveInit, PipelineInit
  <2> QED
    BY <2>1
    DEF Local, Planned, Installed, ReadBack, Decided, NoRefresh, NoReading, NoDecision
<1> QED  BY <1>1, <1>2 DEF DirectoryInv

LEMMA DirectoryStep == DirectoryInv /\ [Next]_vars => DirectoryInv'
<1> SUFFICES ASSUME DirectoryInv, [Next]_vars PROVE DirectoryInv'
  OBVIOUS
<1>1. Shapes /\ \A q \in Processes : Local(q)
  BY DEF DirectoryInv
<1>2. Shapes'
  BY <1>1, ShapesStep DEF Local
<1>3. ASSUME NEW q \in Processes PROVE Local(q)'
  <2>1. CASE UNCHANGED vars
    <3>1. LeftAlone(q)
      BY <1>1, <2>1 DEF vars, dirVars, LeftAlone, Shapes
    <3> QED  BY <1>1, <1>2, <3>1, LocalKept
  <2>2. CASE Next
    <3>1. PICK p \in Processes : Step(p)
      BY <2>2 DEF Next, Step
    <3>2. CASE p = q
      BY <1>1, <1>2, <3>1, <3>2, OwnStep
    <3>3. CASE p # q
      BY <1>1, <1>2, <3>1, <3>3, OthersLeftAlone, LocalKept
    <3> QED  BY <3>2, <3>3
  <2> QED  BY <2>1, <2>2
<1> QED  BY <1>2, <1>3 DEF DirectoryInv

LEMMA DirectoryInvariant == Spec => []DirectoryInv
BY DirectoryInit, DirectoryStep, PTL DEF Spec

(* A refresh that ran to its end is what the directory holds, but for the   *)
(* files another process changed meanwhile (market_pipeline.py run_once).   *)
THEOREM RefreshAlwaysInstalled == Spec => []RefreshInstalled
<1>1. DirectoryInv => RefreshInstalled
  BY DEF DirectoryInv, Local, Planned, Installed, RefreshInstalled
<1> QED  BY <1>1, DirectoryInvariant, PTL

(* A runner that nobody interferes with always gets from its refresh to a   *)
(* decision (live_market_flow.py decide after market_pipeline.py run_once). *)
THEOREM AloneAlwaysDecides == Spec => []AloneDecides
<1>1. DirectoryInv => AloneDecides
  BY DEF DirectoryInv, Local, ReadBack, Decided, AloneDecides
<1> QED  BY <1>1, DirectoryInvariant, PTL

(* A proposal is never priced from an older file, but for the three ways    *)
(* the property names (live_market_flow.py, data_freshness_ms).             *)
THEOREM ProposalsAlwaysFresh == Spec => []FreshProposals
<1>1. DirectoryInv => FreshProposals
  BY DEF DirectoryInv, Local, Decided, Priced, FreshProposals
<1> QED  BY <1>1, DirectoryInvariant, PTL

-----------------------------------------------------------------------------
(* The counters of the loops. *)

LastGood(history) ==
  LET good == {i \in 1..Len(history) : history[i]} IN
  good = {} \/ \E i \in good : \A j \in good : j <= i

AnyLoop ==
  [total : Nat, completed : Nat, succeeded : Nat, failed : Nat, streak : Nat, longest : Nat,
   onThreshold : BOOLEAN]

Texts == DecisionKinds \X (Symbols \union {"none"})

Counters ==
  /\ loop \in [Processes -> AnyLoop]
  /\ stored \in [Processes -> Seq(Texts)]
  /\ outcomes \in [Processes -> Seq(BOOLEAN)]
  /\ pc \in [Processes -> Labels]

Accounts(p) ==
  LET failures == {i \in 1..Len(outcomes[p]) : ~outcomes[p][i]} IN
  /\ loop[p] \in Loops(Runs[p])
  /\ Len(outcomes[p]) = loop[p].completed
  /\ loop[p].failed = Cardinality(failures)
  /\ loop[p].succeeded + loop[p].failed = loop[p].completed
  /\ loop[p].streak = Trailing(outcomes[p])
  /\ LastGood(outcomes[p])
  /\ loop[p].onThreshold <=> AtThreshold(loop[p])
  /\ pc[p] = "ended" <=> LoopOver(loop[p])
  /\ pc[p] # "dead" =>
       Len(stored[p]) = loop[p].succeeded + (IF pc[p] = "emitted" THEN 1 ELSE 0)

LoopInv == Counters /\ \A p \in Processes : Accounts(p)

(* What a finished run adds to the history. *)
LEMMA HistoryGrows ==
  ASSUME NEW history \in Seq(BOOLEAN), LastGood(history), NEW ok \in BOOLEAN
  PROVE  /\ LastGood(Append(history, ok))
         /\ Trailing(history) \in 0..Len(history)
         /\ Trailing(Append(history, ok)) = IF ok THEN 0 ELSE Trailing(history) + 1
<1> DEFINE n == Len(history)
           longer == Append(history, ok)
           good == {i \in 1..n : history[i]}
           goodAfter == {i \in 1..(n + 1) : longer[i]}
           Last(S) == CHOOSE i \in S : \A j \in S : j <= i
<1>1. /\ n \in Nat /\ Len(longer) = n + 1
      /\ \A i \in 1..(n + 1) : longer[i] = IF i = n + 1 THEN ok ELSE history[i]
  OBVIOUS
<1>2. /\ Trailing(history) = n - (IF good = {} THEN 0 ELSE Last(good))
      /\ Trailing(longer) = (n + 1) - (IF goodAfter = {} THEN 0 ELSE Last(goodAfter))
  BY <1>1 DEF Trailing
<1>3. good = {} \/ (Last(good) \in 1..n /\ \A j \in good : j <= Last(good))
  <2>1. CASE good # {}
    <3>1. \E i \in good : \A j \in good : j <= i
      BY <2>1 DEF LastGood
    <3>2. Last(good) \in good /\ \A j \in good : j <= Last(good)
      BY <3>1
    <3> QED  BY <3>2
  <2> QED  BY <2>1
<1>6. Trailing(history) \in 0..n
  <2> HIDE DEF good, Last
  <2> QED  BY <1>1, <1>2, <1>3
<1>4. CASE ok
  <2>1. n + 1 \in goodAfter /\ \A j \in goodAfter : j <= n + 1
    BY <1>1, <1>4
  <2>2. Last(goodAfter) \in goodAfter /\ \A j \in goodAfter : j <= Last(goodAfter)
    BY <2>1
  <2>3. Last(goodAfter) = n + 1
    BY <1>1, <2>1, <2>2
  <2>4. LastGood(longer)
    BY <1>1, <2>1 DEF LastGood
  <2>5. Trailing(longer) = 0
    <3> HIDE DEF good, goodAfter, Last, longer
    <3> QED  BY <1>1, <1>2, <2>1, <2>3
  <2> QED  BY <1>4, <1>6, <2>4, <2>5
<1>5. CASE ~ok
  <2>1. goodAfter = good
    BY <1>1, <1>5
  <2>2. LastGood(longer)
    BY <1>1, <2>1 DEF LastGood
  <2>3. Trailing(longer) = Trailing(history) + 1
    <3> HIDE DEF good, goodAfter, Last, longer
    <3> QED  BY <1>1, <1>2, <1>3, <2>1
  <2> QED  BY <1>5, <1>6, <2>2, <2>3
<1> QED  BY <1>4, <1>5

(* The failures among one run more. *)
LEMMA FailuresGrow ==
  ASSUME NEW history \in Seq(BOOLEAN), NEW ok \in BOOLEAN
  PROVE  LET Failed(h) == {i \in 1..Len(h) : ~h[i]} IN
         /\ Cardinality(Failed(history)) \in Nat
         /\ Cardinality(Failed(Append(history, ok)))
              = Cardinality(Failed(history)) + (IF ok THEN 0 ELSE 1)
<1> DEFINE n == Len(history)
           longer == Append(history, ok)
           before == {i \in 1..n : ~history[i]}
           after == {i \in 1..(n + 1) : ~longer[i]}
<1>1. /\ n \in Nat /\ Len(longer) = n + 1
      /\ \A i \in 1..(n + 1) : longer[i] = IF i = n + 1 THEN ok ELSE history[i]
  OBVIOUS
<1>2. IsFiniteSet(before)
  <2>1. before \subseteq 1..n /\ IsFiniteSet(1..n)
    BY <1>1, FS_Interval
  <2> HIDE DEF before
  <2> QED  BY <2>1, FS_Subset
<1>3. Cardinality(before) \in Nat
  BY <1>2, FS_CardinalityType
<1>4. CASE ok
  <2>1. after = before
    BY <1>1, <1>4
  <2>2. Cardinality(after) = Cardinality(before) + 0
    <3> HIDE DEF before, after
    <3> QED  BY <1>3, <2>1
  <2> QED  BY <1>1, <1>3, <1>4, <2>2
<1>5. CASE ~ok
  <2>1. after = before \union {n + 1} /\ n + 1 \notin before
    BY <1>1, <1>5
  <2> HIDE DEF before, after
  <2>2. Cardinality(after) = Cardinality(before) + 1
    BY <1>2, <2>1, FS_AddElement
  <2> QED  BY <1>1, <1>3, <1>5, <2>2 DEF before, after
<1> QED  BY <1>4, <1>5

(* PeriodicRunner counts a run. *)
LEMMA CountedLoop ==
  ASSUME NEW n \in Nat, NEW l \in Loops(n), n = NotGiven \/ l.completed < n,
         l.streak <= l.completed,
         l.succeeded + l.failed = l.completed, NEW ok \in BOOLEAN
  PROVE  LET after == Counted(l, ok) IN
         /\ after \in Loops(n)
         /\ after.completed = l.completed + 1
         /\ after.succeeded = l.succeeded + (IF ok THEN 1 ELSE 0)
         /\ after.failed = l.failed + (IF ok THEN 0 ELSE 1)
         /\ after.streak = IF ok THEN 0 ELSE l.streak + 1
         /\ after.onThreshold <=> AtThreshold(after)
<1> DEFINE streak == IF ok THEN 0 ELSE l.streak + 1
           counted == [l EXCEPT !.completed = @ + 1,
                                !.succeeded = IF ok THEN @ + 1 ELSE @,
                                !.failed = IF ok THEN @ ELSE @ + 1,
                                !.streak = streak,
                                !.longest = IF streak > @ THEN streak ELSE @]
           after == Counted(l, ok)
<1>1. l \in AnyLoop /\ streak \in Nat
  BY DEF Loops, AnyLoop
<1>2. after = [counted EXCEPT !.onThreshold = AtThreshold(counted)]
  BY DEF Counted
<1>3. counted \in AnyLoop
  <2> HIDE DEF streak
  <2> DEFINE succeeded == IF ok THEN l.succeeded + 1 ELSE l.succeeded
             failed == IF ok THEN l.failed ELSE l.failed + 1
             longest == IF streak > l.longest THEN streak ELSE l.longest
             first == [l EXCEPT !.completed = l.completed + 1, !.succeeded = succeeded,
                                !.failed = failed]
  <2>1. counted = [first EXCEPT !.streak = streak, !.longest = longest]
    BY DEF AnyLoop
  <2>2. succeeded \in Nat /\ failed \in Nat /\ longest \in Nat /\ l.completed + 1 \in Nat
    BY <1>1 DEF AnyLoop
  <2> HIDE DEF succeeded, failed, longest, counted
  <2>3. first \in AnyLoop
    BY <1>1, <2>2 DEF AnyLoop
  <2> HIDE DEF first
  <2> QED  BY <1>1, <2>1, <2>2, <2>3 DEF AnyLoop
<1>4. /\ counted.total = l.total /\ counted.completed = l.completed + 1
      /\ counted.succeeded = IF ok THEN l.succeeded + 1 ELSE l.succeeded
      /\ counted.failed = IF ok THEN l.failed ELSE l.failed + 1
      /\ counted.streak = streak
      /\ counted.longest = IF streak > l.longest THEN streak ELSE l.longest
  <2> HIDE DEF streak
  <2>1. counted.total = l.total /\ counted.completed = l.completed + 1 /\ counted.streak = streak
    BY <1>1 DEF AnyLoop
  <2>2. counted.succeeded = IF ok THEN l.succeeded + 1 ELSE l.succeeded
    BY <1>1 DEF AnyLoop
  <2>3. counted.failed = IF ok THEN l.failed ELSE l.failed + 1
    BY <1>1 DEF AnyLoop
  <2>4. counted.longest = IF streak > l.longest THEN streak ELSE l.longest
    BY <1>1 DEF AnyLoop
  <2> QED  BY <2>1, <2>2, <2>3, <2>4
<1> HIDE DEF counted, after
<1>5. /\ after \in AnyLoop
      /\ after.total = counted.total /\ after.completed = counted.completed
      /\ after.succeeded = counted.succeeded /\ after.failed = counted.failed
      /\ after.streak = counted.streak /\ after.longest = counted.longest
      /\ after.onThreshold = AtThreshold(counted)
  <2> DEFINE reached == AtThreshold(counted)
  <2>1. after = [counted EXCEPT !.onThreshold = reached] /\ reached \in BOOLEAN
    BY <1>2 DEF AtThreshold
  <2> HIDE DEF reached
  <2>2. after \in AnyLoop
    BY <1>3, <2>1 DEF AnyLoop
  <2>3. /\ after.total = counted.total /\ after.completed = counted.completed
        /\ after.succeeded = counted.succeeded /\ after.failed = counted.failed
        /\ after.streak = counted.streak /\ after.longest = counted.longest
        /\ after.onThreshold = reached
    BY <1>3, <2>1 DEF AnyLoop
  <2> QED  BY <2>2, <2>3 DEF reached
<1>6. after \in Loops(n)
  BY <1>1, <1>4, <1>5 DEF AnyLoop, Loops
<1>7. /\ after.succeeded = l.succeeded + (IF ok THEN 1 ELSE 0)
      /\ after.failed = l.failed + (IF ok THEN 0 ELSE 1)
  BY <1>1, <1>4, <1>5 DEF AnyLoop
<1> QED  BY <1>4, <1>5, <1>6, <1>7 DEF after, AtThreshold

LEMMA LoopInit == LiveInit => LoopInv
<1> SUFFICES ASSUME LiveInit PROVE LoopInv
  OBVIOUS
<1>1. Counters
  BY LiveAssumption
  DEF LiveInit, PipelineInit, Counters, NewLoop, AnyLoop, Labels, LiveAssumption
<1>2. ASSUME NEW p \in Processes PROVE Accounts(p)
  <2>1. /\ pc[p] = "start" /\ loop[p] = NewLoop(Runs[p]) /\ outcomes[p] = <<>> /\ stored[p] = <<>>
        /\ Runs[p] \in Nat /\ StopAfter \in Nat
    BY LiveAssumption, RunnerAssumption
    DEF LiveInit, PipelineInit, LiveAssumption, RunnerAssumption
  <2>2. loop[p] \in Loops(Runs[p]) /\ ~LoopOver(loop[p]) /\ ~AtThreshold(loop[p])
    BY <2>1 DEF NewLoop, Loops, LoopOver, AtThreshold, NotGiven
  <2>3. Cardinality({i \in 1..Len(outcomes[p]) : ~outcomes[p][i]}) = 0
    <3>1. {i \in 1..Len(outcomes[p]) : ~outcomes[p][i]} = {}
      BY <2>1
    <3> QED  BY <3>1, FS_EmptySet
  <2>4. LastGood(outcomes[p]) /\ Trailing(outcomes[p]) = 0
    <3>1. {i \in 1..Len(outcomes[p]) : outcomes[p][i]} = {}
      BY <2>1
    <3> QED  BY <2>1, <3>1 DEF LastGood, Trailing
  <2> QED  BY <2>1, <2>2, <2>3, <2>4 DEF Accounts, NewLoop
<1> QED  BY <1>1, <1>2 DEF LoopInv

(* The counters change only when a run ends, stored only when it submits. *)
LEMMA CountersStep ==
  ASSUME Counters, NEW p \in Processes, Step(p)
  PROVE  \/ EndRun(p)
         \/ Submit(p)
         \/ /\ UNCHANGED <<loop, outcomes, stored>>
            /\ pc[p] # "ended"
            /\ \E l \in Labels \ {"ended", "emitted"} :
                 /\ pc' = [pc EXCEPT ![p] = l]
                 /\ l = "dead" \/ pc[p] \notin {"emitted", "dead"}
<1> DEFINE Rest(l) == /\ pc' = [pc EXCEPT ![p] = l]
                      /\ l = "dead" \/ pc[p] \notin {"emitted", "dead"}
<1>1. CASE RefreshStep(p) /\ UNCHANGED <<reading, loopVars, stored>>
  <2>1. /\ pc[p] \in {"start", "universe", "snapshots", "list", "prune"}
        /\ \E l \in {"refresh_failed", "universe", "snapshots", "list", "prune", "refreshed"} :
             Goto(p, l)
    BY <1>1
    DEF RefreshStep, BeginRefresh, WriteUniverse, WriteSnapshot, ListDirectory, PruneSnapshot
  <2> QED  BY <1>1, <2>1 DEF Goto, Labels, Failures, loopVars
<1>2. CASE RefreshFails(p) /\ UNCHANGED <<reading, loopVars, stored>>
  BY <1>2 DEF RefreshFails, Goto, Labels, Failures, loopVars
<1>3. CASE LoadUniverse(p)
  BY <1>3 DEF LoadUniverse, Goto, Labels, loopVars
<1>4. CASE LookForSnapshot(p)
  <2>1. pc[p] = "read" /\ pc' = pc /\ UNCHANGED <<loop, outcomes, stored>>
    BY <1>4 DEF LookForSnapshot, loopVars
  <2>2. Rest("read")
    BY <2>1 DEF Counters
  <2> QED  BY <2>1, <2>2 DEF Labels
<1>5. CASE ReadSnapshot(p)
  <2>1. pc[p] = "read" /\ UNCHANGED <<loop, outcomes, stored>>
    BY <1>5 DEF ReadSnapshot, loopVars
  <2>2. pc' = pc \/ Goto(p, "decide_failed")
    BY <1>5 DEF ReadSnapshot
  <2>3. Rest("read") \/ Rest("decide_failed")
    BY <2>1, <2>2 DEF Counters, Goto
  <2> QED  BY <2>1, <2>3 DEF Labels, Failures
<1>6. CASE Decide(p)
  BY <1>6 DEF Decide, Goto, Labels, loopVars
<1>7. CASE SubmitFails(p)
  BY <1>7 DEF SubmitFails, Goto, Labels, Failures, loopVars
<1>8. CASE Crash(p)
  BY <1>8 DEF Crash, Goto, Labels, loopVars
<1> QED  BY <1>1, <1>2, <1>3, <1>4, <1>5, <1>6, <1>7, <1>8 DEF Step, Proceed

LEMMA LoopStep == LoopInv /\ Shapes /\ [Next]_vars => LoopInv'
<1> SUFFICES ASSUME LoopInv, Shapes, [Next]_vars PROVE LoopInv'
  OBVIOUS
<1>1. Counters /\ Shapes /\ \A q \in Processes : Accounts(q)
  BY DEF LoopInv
<1>2. ASSUME NEW q \in Processes, pc'[q] = pc[q], loop'[q] = loop[q],
             outcomes'[q] = outcomes[q], stored'[q] = stored[q]
      PROVE  Accounts(q)'
  BY <1>1, <1>2 DEF Accounts
<1>3. CASE UNCHANGED vars
  BY <1>1, <1>2, <1>3 DEF vars, Counters, LoopInv
<1>4. CASE Next
  <2>1. PICK p \in Processes : Step(p)
    BY <1>4 DEF Next, Step
  <2>2. /\ loop[p] \in Loops(Runs[p]) /\ Runs[p] \in Nat
        /\ outcomes[p] \in Seq(BOOLEAN) /\ Len(outcomes[p]) = loop[p].completed
        /\ LastGood(outcomes[p]) /\ loop[p].streak = Trailing(outcomes[p])
        /\ loop[p].succeeded + loop[p].failed = loop[p].completed
        /\ pc[p] = "ended" <=> LoopOver(loop[p])
        /\ stored[p] \in Seq(Texts)
    BY <1>1, LiveAssumption DEF Accounts, Counters, LiveAssumption
  <2>3. pc[p] # "ended" => Runs[p] = NotGiven \/ loop[p].completed < Runs[p]
    BY <2>2 DEF LoopOver, Loops, NotGiven
  <2>4. CASE EndRun(p)
    <3> DEFINE ok == RunOk(pc[p])
               counted == Counted(loop[p], ok)
    <3>1. /\ pc[p] \in Failures \union {"emitted"} /\ ok \in BOOLEAN
          /\ ok <=> pc[p] = "emitted"
      BY <2>4 DEF EndRun, RunOk, Failures
    <3>2. /\ loop' = [loop EXCEPT ![p] = counted]
          /\ outcomes' = [outcomes EXCEPT ![p] = Append(@, ok)]
          /\ pc' = [pc EXCEPT ![p] = IF LoopOver(counted) THEN "ended" ELSE "start"]
          /\ stored' = stored
      BY <2>4 DEF EndRun, Goto
    <3> HIDE DEF ok
    <3>3. /\ LastGood(Append(outcomes[p], ok))
          /\ Trailing(outcomes[p]) \in 0..Len(outcomes[p])
          /\ Trailing(Append(outcomes[p], ok)) = IF ok THEN 0 ELSE Trailing(outcomes[p]) + 1
      BY <2>2, <3>1, HistoryGrows
    <3>4. /\ counted \in Loops(Runs[p])
          /\ counted.completed = loop[p].completed + 1
          /\ counted.succeeded = loop[p].succeeded + (IF ok THEN 1 ELSE 0)
          /\ counted.failed = loop[p].failed + (IF ok THEN 0 ELSE 1)
          /\ counted.streak = IF ok THEN 0 ELSE loop[p].streak + 1
          /\ counted.onThreshold <=> AtThreshold(counted)
      <4>1. /\ Runs[p] = NotGiven \/ loop[p].completed < Runs[p]
            /\ loop[p].streak <= loop[p].completed
        BY <2>2, <2>3, <3>1, <3>3 DEF Failures, Loops
      <4> QED  BY <2>2, <3>1, <4>1, CountedLoop
    <3> HIDE DEF counted
    <3>5. /\ loop'[p] = counted /\ stored'[p] = stored[p]
          /\ outcomes'[p] = Append(outcomes[p], ok)
          /\ pc'[p] = IF LoopOver(counted) THEN "ended" ELSE "start"
      BY <1>1, <3>2 DEF Counters
    <3>6. Len(outcomes'[p]) = counted.completed
      BY <2>2, <3>4, <3>5
    <3>7. counted.failed = Cardinality({i \in 1..Len(outcomes'[p]) : ~outcomes'[p][i]})
      <4>1. loop[p].failed = Cardinality({i \in 1..Len(outcomes[p]) : ~outcomes[p][i]})
        BY <1>1 DEF Accounts
      <4>2. Cardinality({i \in 1..Len(Append(outcomes[p], ok)) : ~Append(outcomes[p], ok)[i]})
              = Cardinality({i \in 1..Len(outcomes[p]) : ~outcomes[p][i]}) + (IF ok THEN 0 ELSE 1)
        BY <2>2, <3>1, FailuresGrow
      <4> QED  BY <3>4, <3>5, <4>1, <4>2
    <3>8. counted.succeeded + counted.failed = counted.completed
      <4>1. loop[p].succeeded \in Nat /\ loop[p].failed \in Nat
        BY <2>2 DEF Loops
      <4> QED  BY <2>2, <3>4, <4>1
    <3>9. counted.streak = Trailing(outcomes'[p]) /\ LastGood(outcomes'[p])
      BY <2>2, <3>3, <3>4, <3>5
    <3>10. Len(stored[p]) = counted.succeeded
      <4>1. Len(stored[p]) = loop[p].succeeded + (IF pc[p] = "emitted" THEN 1 ELSE 0)
        BY <1>1, <3>1 DEF Accounts, Failures
      <4> QED  BY <1>1, <3>1, <3>4, <4>1 DEF Accounts
    <3>11. Accounts(p)'
      <4>1. Len(stored'[p]) = counted.succeeded + (IF pc'[p] = "emitted" THEN 1 ELSE 0)
        BY <2>2, <3>5, <3>10
      <4>2. pc'[p] = "ended" <=> LoopOver(loop'[p])
        BY <3>5
      <4> QED
        BY <3>4, <3>5, <3>6, <3>7, <3>8, <3>9, <3>10, <4>1, <4>2 DEF Accounts, LoopOver
    <3>12. ASSUME NEW q \in Processes, q # p PROVE Accounts(q)'
      BY <1>1, <1>2, <3>2, <3>12 DEF Counters
    <3>13. Counters'
      <4>1. counted \in AnyLoop
        BY <2>2, <3>4 DEF Loops, AnyLoop
      <4>2. Append(outcomes[p], ok) \in Seq(BOOLEAN)
        BY <2>2, <3>1
      <4> QED  BY <1>1, <3>2, <4>1, <4>2 DEF Counters, Labels
    <3> QED  BY <3>11, <3>12, <3>13 DEF LoopInv
  <2>5. CASE Submit(p)
    <3>1. /\ pc[p] = "emit" /\ pc' = [pc EXCEPT ![p] = "emitted"]
          /\ stored' = [stored EXCEPT ![p] = Append(@, Said(reading[p].decision))]
          /\ UNCHANGED <<loop, outcomes>>
      BY <2>5 DEF Submit, Goto, loopVars
    <3>7. Said(reading[p].decision) \in Texts
      <4>1. reading[p].decision \in Chosen
        BY <1>1 DEF Shapes, Readings
      <4> QED  BY <4>1 DEF Chosen, Said, Texts
    <3>2. /\ pc'[p] = "emitted" /\ stored'[p] \in Seq(Texts)
          /\ Len(stored'[p]) = Len(stored[p]) + 1
      <4>1. stored'[p] = Append(stored[p], Said(reading[p].decision)) /\ pc'[p] = "emitted"
        BY <1>1, <3>1 DEF Counters
      <4> QED  BY <2>2, <3>7, <4>1
    <3>3. Len(stored[p]) = loop[p].succeeded
      <4>1. loop[p].succeeded \in Nat /\ loop[p].failed \in Nat
        BY <2>2 DEF Loops
      <4>2. Len(stored[p]) = loop[p].succeeded + 0
        BY <1>1, <3>1 DEF Accounts
      <4> QED  BY <4>1, <4>2
    <3>4. Accounts(p)'
      BY <1>1, <2>2, <3>1, <3>2, <3>3 DEF Accounts
    <3>5. ASSUME NEW q \in Processes, q # p PROVE Accounts(q)'
      BY <1>1, <1>2, <3>1, <3>5 DEF Counters
    <3>6. Counters'
      <4>1. Append(stored[p], Said(reading[p].decision)) \in Seq(Texts)
        BY <2>2, <3>7
      <4> QED  BY <1>1, <3>1, <4>1 DEF Counters, Labels
    <3> QED  BY <3>4, <3>5, <3>6 DEF LoopInv
  <2>6. CASE ~EndRun(p) /\ ~Submit(p)
    <3>1. /\ UNCHANGED <<loop, outcomes, stored>>
          /\ pc[p] # "ended"
          /\ \E l \in Labels \ {"ended", "emitted"} :
               /\ pc' = [pc EXCEPT ![p] = l]
               /\ l = "dead" \/ pc[p] \notin {"emitted", "dead"}
      BY <1>1, <2>1, <2>6, CountersStep
    <3>2. PICK l \in Labels \ {"ended", "emitted"} :
            /\ pc' = [pc EXCEPT ![p] = l]
            /\ l = "dead" \/ pc[p] \notin {"emitted", "dead"}
      BY <3>1
    <3>3. pc'[p] = l
      BY <1>1, <3>2 DEF Counters
    <3>4. Accounts(p)'
      BY <1>1, <2>2, <3>1, <3>2, <3>3 DEF Accounts
    <3>5. ASSUME NEW q \in Processes, q # p PROVE Accounts(q)'
      BY <1>1, <1>2, <3>1, <3>2, <3>5 DEF Counters
    <3>6. Counters'
      BY <1>1, <3>1, <3>2 DEF Counters
    <3> QED  BY <3>4, <3>5, <3>6 DEF LoopInv
  <2> QED  BY <2>4, <2>5, <2>6
<1> QED  BY <1>3, <1>4

LEMMA LoopInvariant == Spec => []LoopInv
<1>1. DirectoryInv => Shapes
  BY DEF DirectoryInv
<1> QED  BY <1>1, LoopInit, LoopStep, DirectoryInvariant, PTL DEF Spec

(* The counters of every loop say how its runs ended, it stops when they    *)
(* say so, and exactly its successes are submissions in the store           *)
(* (periodic_runner.py _run, live_market_runner.py run_once).              *)
THEOREM LoopAlwaysAccounts == Spec => []LoopAccounts
<1>1. LoopInv => LoopAccounts
  <2> SUFFICES ASSUME LoopInv, NEW p \in Processes
               PROVE  LET failures == {i \in 1..Len(outcomes[p]) : ~outcomes[p][i]} IN
                      /\ loop[p].failed = Cardinality(failures)
                      /\ loop[p].succeeded = Len(outcomes[p]) - Cardinality(failures)
                      /\ loop[p].streak = Trailing(outcomes[p])
                      /\ pc[p] = "ended" <=>
                           \/ StopAfter # NotGiven /\ Trailing(outcomes[p]) >= StopAfter
                           \/ Runs[p] # NotGiven /\ Len(outcomes[p]) = Runs[p]
                      /\ pc[p] # "dead" =>
                           Len(stored[p]) = loop[p].succeeded
                                              + (IF pc[p] = "emitted" THEN 1 ELSE 0)
    BY DEF LoopAccounts
  <2>1. Accounts(p)
    BY DEF LoopInv
  <2>2. loop[p] \in Loops(Runs[p])
    BY <2>1 DEF Accounts
  <2>3. pc[p] = "ended" <=>
          \/ StopAfter # NotGiven /\ Trailing(outcomes[p]) >= StopAfter
          \/ Runs[p] # NotGiven /\ Len(outcomes[p]) = Runs[p]
    BY <2>1, <2>2, LiveAssumption
    DEF Accounts, LoopOver, AtThreshold, Loops, LiveAssumption, NotGiven
  <2>4. loop[p].succeeded = Len(outcomes[p])
                             - Cardinality({i \in 1..Len(outcomes[p]) : ~outcomes[p][i]})
    BY <2>1, <2>2 DEF Accounts, Loops
  <2> QED  BY <2>1, <2>3, <2>4 DEF Accounts
<1> QED  BY <1>1, LoopInvariant, PTL

(* Type correctness of the directory, of every process's local variables    *)
(* and of the counters of its loop.                                        *)
THEOREM TypeCorrect == Spec => []TypeOK
<1>1. DirectoryInv /\ LoopInv => TypeOK
  <2> SUFFICES ASSUME DirectoryInv, LoopInv PROVE TypeOK
    OBVIOUS
  <2>1. snapshots \in [Symbols -> [gen : 0..clock, kind : KindNames]]
    <3>1. \A s \in Symbols : snapshots[s] \in [gen : 0..clock, kind : KindNames]
      BY DEF DirectoryInv, Shapes, Snaps
    <3> QED  BY <3>1 DEF DirectoryInv, Shapes
  <2>2. ASSUME NEW p \in Processes
        PROVE  /\ refresh[p].gen \in 0..clock
               /\ refresh[p].toWrite \subseteq DOMAIN refresh[p].built
               /\ DOMAIN refresh[p].built \subseteq refresh[p].selected
               /\ refresh[p].selected \subseteq Symbols
               /\ refresh[p].toPrune \subseteq Symbols \ refresh[p].selected
               /\ touched[p] \subseteq Symbols \union {"universe"}
    BY DEF DirectoryInv, Shapes, Refreshes, Local, Planned
  <2>3. PipelineTypeOK
    BY <2>1, <2>2 DEF DirectoryInv, Shapes, PipelineTypeOK, KindNames
  <2>4. ASSUME NEW p \in Processes
        PROVE  /\ reading[p].toRead \union reading[p].opened \subseteq Symbols
               /\ reading[p].opened = {} \/ pc[p] \in {"read", "decide_failed"}
    BY DEF DirectoryInv, Shapes, Readings, Local, ReadBack
  <2>5. ASSUME NEW p \in Processes
        PROVE  /\ loop[p] \in Loops(Runs[p]) /\ stored[p] \in Seq(Texts)
               /\ Len(outcomes[p]) = loop[p].completed
    <3>1. stored[p] \in Seq(Texts) /\ Accounts(p)
      BY DEF LoopInv, Counters
    <3> QED  BY <3>1 DEF Accounts
  <2>6. /\ DOMAIN loop = Processes /\ DOMAIN stored = Processes
        /\ pc \in [Processes -> Labels]
    BY DEF LoopInv, Counters
  <2> QED  BY <2>3, <2>4, <2>5, <2>6 DEF TypeOK, Texts
<1> QED  BY <1>1, DirectoryInvariant, LoopInvariant, PTL

================================================================================
