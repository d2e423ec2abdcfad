-------------------------- MODULE DemoBracket_proofs --------------------------
(***************************************************************************)
(* Proofs about DemoBracket, for any number of syncers, executions, failed  *)
(* calls and crashes, and whichever orders the exchange settles.            *)
(***************************************************************************)
EXTENDS DemoBracket, FiniteSetTheorems, TLAPS

-----------------------------------------------------------------------------
(* Types of what the steps put together. *)

LEMMA RolesAre ==
  /\ Roles[1] = "entry" /\ Roles[2] = "stop_loss"
  /\ Roles[3] = "take_profit_1" /\ Roles[4] = "take_profit_2"
  /\ RoleSet = {"entry", "stop_loss", "take_profit_1", "take_profit_2"}
<1>1. /\ Roles[1] = "entry" /\ Roles[2] = "stop_loss"
      /\ Roles[3] = "take_profit_1" /\ Roles[4] = "take_profit_2"
  BY DEF Roles
<1>2. 1..4 = {1, 2, 3, 4}
  OBVIOUS
<1> QED  BY <1>1, <1>2, Zenon DEF RoleSet

LEMMA RoleOf == \A i \in 1..4 : Roles[i] \in RoleSet
BY DEF RoleSet

(* There are no more orders than roles, so a poll never runs past them, and *)
(* the empty list has none.                                                *)
LEMMA CountBounded ==
  ASSUME NEW orders
  PROVE  Count(orders) \in 0..4
<1>1. IsFiniteSet({"entry"}) /\ Cardinality({"entry"}) = 1
  BY FS_Singleton
<1>2. IsFiniteSet(RoleSet) /\ Cardinality(RoleSet) <= 4
  <2> DEFINE two == {"entry"} \cup {"stop_loss"}
             three == two \cup {"take_profit_1"}
  <2>1. IsFiniteSet(two) /\ Cardinality(two) \in Nat /\ Cardinality(two) <= 2
    BY <1>1, FS_AddElement, FS_CardinalityType
  <2> HIDE DEF two
  <2>2. IsFiniteSet(three) /\ Cardinality(three) \in Nat /\ Cardinality(three) <= 3
    BY <2>1, FS_AddElement, FS_CardinalityType
  <2> HIDE DEF three
  <2> DEFINE four == three \cup {"take_profit_2"}
  <2>3. IsFiniteSet(four) /\ Cardinality(four) \in {Cardinality(three), Cardinality(three) + 1}
    BY <2>2, FS_AddElement
  <2>4. RoleSet = four
    BY RolesAre DEF two, three
  <2> QED  BY <2>2, <2>3, <2>4
<1>3. {role \in RoleSet : orders.status[role] # "none"} \subseteq RoleSet
  OBVIOUS
<1> QED  BY <1>2, <1>3, FS_Subset, FS_CardinalityType DEF Count

LEMMA CountNone == Count(NoRecords) = 0
<1>1. {role \in RoleSet : NoRecords.status[role] # "none"} = {}
  BY DEF NoRecords, NoOrders
<1> QED  BY <1>1, FS_EmptySet DEF Count

(* A list without an attempt is the empty one. *)
Grounded(orders) == orders.attempt = 0 => orders = NoRecords

LEMMA ViewsTyped ==
  ASSUME records \in RecordLists, Grounded(records), NEW orders \in Views
  PROVE  /\ orders \in RecordLists /\ Grounded(orders)
         /\ orders.attempt = records.attempt
         /\ \A role \in RoleSet : orders.status[role] \in {"none", records.status[role]}
         /\ ~Overlap => orders = records
<1>1. CASE orders = records
  BY <1>1
<1>2. ASSUME Overlap, NEW n \in 0..3, orders = Reloaded(n)
      PROVE  /\ orders \in RecordLists /\ Grounded(orders)
             /\ orders.attempt = records.attempt
             /\ \A role \in RoleSet : orders.status[role] \in {"none", records.status[role]}
  <2> DEFINE Seen(i) == \E k \in 1..n : Roles[k] = i
             st == [i \in RoleSet |-> IF Seen(i) THEN records.status[i] ELSE "none"]
  <2>1. orders = [records EXCEPT !.status = st]
    BY <1>2 DEF Reloaded
  <2> HIDE DEF Seen
  <2>2. st \in [RoleSet -> OrderStatus]
    BY DEF RecordLists, OrderStatus
  <2>3. \A role \in RoleSet : st[role] \in {"none", records.status[role]}
    OBVIOUS
  <2>4. records = NoRecords => st = NoOrders
    BY DEF NoRecords, NoOrders
  <2> HIDE DEF st
  <2>5. orders = [attempt |-> records.attempt, status |-> st]
    BY <2>1 DEF RecordLists
  <2>6. records.attempt = 0 => orders = NoRecords
    BY <2>4, <2>5 DEF Grounded, NoRecords
  <2> QED  BY <2>2, <2>3, <2>5, <2>6 DEF RecordLists, Grounded
<1>3. orders = records \/ (Overlap /\ \E n \in 0..3 : orders = Reloaded(n))
  BY Zenon DEF Views
<1> QED  BY <1>1, <1>2, <1>3

LEMMA NoneTyped ==
  /\ NoRecords \in RecordLists
  /\ NoPosition \in Positions
  /\ \A a \in Attempts : OpenPosition(a) \in Positions
<1>1. 0 \in 0..MaxAttempts /\ Attempts \subseteq 0..MaxAttempts
  BY BracketAssumption DEF Attempts, BracketAssumption
<1> QED
  BY <1>1 DEF NoRecords, RecordLists, NoOrders, OrderStatus, NoPosition, OpenPosition, Positions

LEMMA EndedTyped ==
  ASSUME NEW pos \in Positions, NEW how \in {"CLOSED", "STOPPED", "CANCELLED"}
  PROVE  /\ Ended(pos, how) \in Positions
         /\ Ended(pos, how).attempt = pos.attempt
         /\ Ended(pos, how).status = how /\ Ended(pos, how).remaining = 0
<1>1. 0 \in 0..2 /\ how \in {"NONE", "OPEN", "PARTIALLY_CLOSED", "CLOSED", "STOPPED", "CANCELLED"}
  OBVIOUS
<1> QED  BY <1>1 DEF Ended, Positions

(* With the tp1_hit its caller computes, the first take profit is never     *)
(* applied: the lifecycle cancels, stops, closes or leaves the position.    *)
LEMMA EventsCases ==
  ASSUME NEW pos \in Positions, NEW st
  PROVE  LET events == Events(pos, st, st["take_profit_1"] = "finished")
             updated == Lifecycle(pos, events)
         IN \/ events = {}
            \/ /\ pos.attempt # 0 /\ CancelApplies(pos, st)
               /\ events = {"ENTRY_CANCELLED"} /\ updated = Ended(pos, "CANCELLED")
            \/ /\ pos.attempt # 0 /\ StopApplies(pos, st)
               /\ events = {"STOP_TRIGGERED_SYNC"} /\ updated = Ended(pos, "STOPPED")
            \/ /\ pos.attempt # 0 /\ Tp2Applies(pos, st)
               /\ events = {"TP2_SYNC_FULL_CLOSE"} /\ updated = Ended(pos, "CLOSED")
<1> DEFINE events == Events(pos, st, st["take_profit_1"] = "finished")
<1>1. \/ events = {}
      \/ pos.attempt # 0 /\ CancelApplies(pos, st) /\ events = {"ENTRY_CANCELLED"}
      \/ pos.attempt # 0 /\ StopApplies(pos, st) /\ events = {"STOP_TRIGGERED_SYNC"}
      \/ pos.attempt # 0 /\ Tp2Applies(pos, st) /\ events = {"TP2_SYNC_FULL_CLOSE"}
  BY DEF Events, Tp1Applies
<1> HIDE DEF events
<1>2. /\ Lifecycle(pos, {"ENTRY_CANCELLED"}) = Ended(pos, "CANCELLED")
      /\ Lifecycle(pos, {"STOP_TRIGGERED_SYNC"}) = Ended(pos, "STOPPED")
      /\ Lifecycle(pos, {"TP2_SYNC_FULL_CLOSE"}) = Ended(pos, "CLOSED")
  BY DEF Lifecycle
<1>3. \/ events = {}
      \/ /\ pos.attempt # 0 /\ CancelApplies(pos, st)
         /\ events = {"ENTRY_CANCELLED"} /\ Lifecycle(pos, events) = Ended(pos, "CANCELLED")
      \/ /\ pos.attempt # 0 /\ StopApplies(pos, st)
         /\ events = {"STOP_TRIGGERED_SYNC"} /\ Lifecycle(pos, events) = Ended(pos, "STOPPED")
      \/ /\ pos.attempt # 0 /\ Tp2Applies(pos, st)
         /\ events = {"TP2_SYNC_FULL_CLOSE"} /\ Lifecycle(pos, events) = Ended(pos, "CLOSED")
  BY <1>1, <1>2
<1> QED  BY <1>3 DEF events

(* What an event leaves of a position. *)
LEMMA LifecycleTyped ==
  ASSUME NEW pos \in Positions, NEW st
  PROVE  LET events == Events(pos, st, st["take_profit_1"] = "finished") IN
         /\ events \in SUBSET EventKinds
         /\ events # {} => /\ Lifecycle(pos, events) \in Positions
                           /\ Lifecycle(pos, events).attempt = pos.attempt
                           /\ Lifecycle(pos, events).remaining = 0
<1>1. \A how \in {"CLOSED", "STOPPED", "CANCELLED"} :
        /\ Ended(pos, how) \in Positions
        /\ Ended(pos, how).attempt = pos.attempt /\ Ended(pos, how).remaining = 0
  BY EndedTyped
<1> DEFINE events == Events(pos, st, st["take_profit_1"] = "finished")
<1>2. \/ events = {}
      \/ /\ events \in {{"ENTRY_CANCELLED"}, {"STOP_TRIGGERED_SYNC"}, {"TP2_SYNC_FULL_CLOSE"}}
         /\ \E how \in {"CLOSED", "STOPPED", "CANCELLED"} : Lifecycle(pos, events) = Ended(pos, how)
  BY EventsCases
<1> HIDE DEF events
<1>3. /\ events \in SUBSET EventKinds
      /\ events # {} => /\ Lifecycle(pos, events) \in Positions
                        /\ Lifecycle(pos, events).attempt = pos.attempt
                        /\ Lifecycle(pos, events).remaining = 0
  BY <1>1, <1>2 DEF EventKinds
<1> QED  BY <1>3 DEF events

-----------------------------------------------------------------------------
(* What a step of a syncer does to it. *)

Syncer == [at : {"idle", "poll", "load", "apply", "journal", "mark"}, next : 1..5,
           orders : RecordLists, position : Positions, events : SUBSET EventKinds]
Process == [cycles : 0..Cycles, orders : RecordLists, position : Positions]

LEMMA IdleTyped == NotSyncing \in Syncer /\ NoPoller \in Process
BY NoneTyped, BracketAssumption DEF NotSyncing, Syncer, NoPoller, Process, BracketAssumption

(* An attempt that runs has begun; who does nothing remembers nothing.      *)
Running ==
  /\ \A a \in Attempts : step[a] # "idle" => a <= attempt
  /\ \A s \in Syncers : /\ sync[s].at = "idle" => sync[s] = NotSyncing
                        /\ poller[s].cycles = 0 => poller[s] = NoPoller
                        /\ Grounded(sync[s].orders) /\ Grounded(poller[s].orders)
  /\ Grounded(records)

(* A step of s alone: the others keep what they have. *)
Others(s) ==
  /\ sync' \in [Syncers -> Syncer] /\ poller' \in [Syncers -> Process]
  /\ \A t \in Syncers \ {s} : sync'[t] = sync[t] /\ poller'[t] = poller[t]

LEMMA Touched ==
  ASSUME TypeOK, NEW s \in Syncers, NEW x \in Syncer, NEW m \in Process,
         sync' = [sync EXCEPT ![s] = x], poller' = [poller EXCEPT ![s] = m]
  PROVE  Others(s) /\ sync'[s] = x /\ poller'[s] = m
BY DEF TypeOK, Others, Syncer, Process

LEMMA KeptPoller ==
  ASSUME TypeOK, NEW s \in Syncers
  PROVE  /\ sync[s] \in Syncer /\ poller[s] \in Process
         /\ poller = [poller EXCEPT ![s] = poller[s]]
         /\ sync = [sync EXCEPT ![s] = sync[s]]
BY DEF TypeOK, Syncer, Process

(* A memory for s: a request keeps the one it has. *)
LEMMA RememberedIs ==
  ASSUME TypeOK, NEW s \in Syncers, NEW m \in Process, Remembers(s, m)
  PROVE  LET kept == IF poller[s].cycles > 0 THEN m ELSE poller[s] IN
         kept \in Process /\ poller' = [poller EXCEPT ![s] = kept]
BY KeptPoller DEF Remembers

LEMMA PollOfTyped ==
  ASSUME NEW orders \in RecordLists
  PROVE  /\ PollOf(orders) \in Syncer
         /\ PollOf(orders).at = "poll" /\ PollOf(orders).orders = orders
BY IdleTyped DEF PollOf, Syncer

LEMMA BeginSyncIs ==
  ASSUME TypeOK, Running, NEW s \in Syncers, BeginSync(s)
  PROVE  /\ Others(s) /\ poller'[s] = poller[s] /\ poller[s] = NoPoller
         /\ \E orders \in Views : sync'[s] = PollOf(orders)
<1>1. PICK orders \in Views : sync' = [sync EXCEPT ![s] = PollOf(orders)]
  BY DEF BeginSync
<1>2. PollOf(orders) \in Syncer
  BY <1>1, ViewsTyped, PollOfTyped DEF TypeOK, Running
<1>3. poller' = [poller EXCEPT ![s] = poller[s]] /\ poller[s] \in Process
  BY KeptPoller DEF BeginSync
<1>4. Others(s) /\ sync'[s] = PollOf(orders) /\ poller'[s] = poller[s]
  BY <1>1, <1>2, <1>3, Touched
<1> QED  BY <1>1, <1>4 DEF BeginSync, Free

LEMMA StartPollerIs ==
  ASSUME TypeOK, Running, NEW s \in Syncers, StartPoller(s)
  PROVE  /\ Others(s) /\ sync'[s] = NotSyncing /\ sync[s] = NotSyncing
         /\ \E n \in 1..Cycles, orders \in Views :
              poller'[s] = [cycles |-> n, orders |-> orders, position |-> position]
<1>1. PICK n \in 1..Cycles, orders \in Views :
        poller' = [poller EXCEPT ![s] = [cycles |-> n, orders |-> orders, position |-> position]]
  BY DEF StartPoller
<1> DEFINE m == [cycles |-> n, orders |-> orders, position |-> position]
<1>2. m \in Process
  BY <1>1, ViewsTyped, BracketAssumption DEF TypeOK, Running, Process, BracketAssumption
<1>3. sync' = [sync EXCEPT ![s] = sync[s]] /\ sync[s] \in Syncer /\ sync[s] = NotSyncing
  BY KeptPoller DEF StartPoller, Free
<1> HIDE DEF m
<1>4. Others(s) /\ sync'[s] = sync[s] /\ poller'[s] = m
  BY <1>1, <1>2, <1>3, Touched DEF m
<1> QED  BY <1>1, <1>3, <1>4 DEF m

LEMMA CycledTyped ==
  ASSUME NEW m \in Process
  PROVE  /\ Cycled(m) \in Process
         /\ \/ Cycled(m) = NoPoller
            \/ /\ Cycled(m).cycles > 0 /\ m.cycles > 0
               /\ Cycled(m).orders = m.orders /\ Cycled(m).position = m.position
<1>1. CASE m.cycles <= 1
  BY <1>1, IdleTyped DEF Cycled
<1>2. CASE ~(m.cycles <= 1)
  BY <1>2, BracketAssumption DEF Cycled, Process, BracketAssumption
<1> QED  BY <1>1, <1>2

LEMMA PollerCycleIs ==
  ASSUME TypeOK, Running, NEW s \in Syncers, PollerCycle(s)
  PROVE  /\ Others(s) /\ poller[s].cycles > 0 /\ sync[s] = NotSyncing
         /\ \/ sync'[s] = PollOf(poller[s].orders) /\ poller'[s] = poller[s]
            \/ sync'[s] = NotSyncing /\ poller'[s] = Cycled(poller[s])
<1>1. poller[s].cycles > 0 /\ sync[s] = NotSyncing
  BY DEF PollerCycle
<1>2. CASE IsOpen(poller[s].orders)
  <2>1. sync' = [sync EXCEPT ![s] = PollOf(poller[s].orders)] /\ UNCHANGED poller
    BY <1>2 DEF PollerCycle
  <2>2. PollOf(poller[s].orders) \in Syncer
    BY KeptPoller, PollOfTyped DEF Process
  <2> QED  BY <1>1, <2>1, <2>2, KeptPoller, Touched
<1>3. CASE ~IsOpen(poller[s].orders)
  <2>1. UNCHANGED sync /\ poller' = [poller EXCEPT ![s] = Cycled(poller[s])]
    BY <1>3 DEF PollerCycle
  <2>2. Cycled(poller[s]) \in Process
    BY KeptPoller, CycledTyped
  <2> QED  BY <1>1, <2>1, <2>2, KeptPoller, Touched
<1> QED  BY <1>2, <1>3

(* Who ends is idle, and its process has one cycle less or has ended. *)
LEMMA SyncEndsIs ==
  ASSUME TypeOK, Running, NEW s \in Syncers, SyncEnds(s)
  PROVE  /\ Others(s) /\ sync'[s] = NotSyncing
         /\ poller'[s] \in {Cycled(poller[s]), NoPoller}
<1>1. Cycled(poller[s]) \in Process
  BY KeptPoller, CycledTyped
<1> DEFINE kept == IF poller[s].cycles > 0 THEN Cycled(poller[s]) ELSE poller[s]
<1>2. kept \in Process /\ poller' = [poller EXCEPT ![s] = kept]
  BY <1>1, RememberedIs DEF SyncEnds
<1>3. kept \in {Cycled(poller[s]), NoPoller}
  <2>1. poller[s].cycles > 0 \/ poller[s].cycles = 0
    BY KeptPoller, BracketAssumption DEF Process, BracketAssumption
  <2> QED  BY <2>1 DEF Running
<1> HIDE DEF kept
<1> QED  BY <1>2, <1>3, Touched, IdleTyped DEF SyncEnds

LEMMA PollOrderIs ==
  ASSUME TypeOK, Running, NEW s \in Syncers, PollOrder(s)
  PROVE  /\ Others(s) /\ poller'[s] = poller[s]
         /\ sync[s].at = "poll" /\ sync'[s].at = "poll"
         /\ sync[s].orders.attempt \in Attempts
         /\ sync'[s].orders.attempt = sync[s].orders.attempt
         /\ \E role \in RoleSet : \A r \in RoleSet :
              sync'[s].orders.status[r] =
                IF r = role THEN exchange[sync[s].orders.attempt][role] ELSE sync[s].orders.status[r]
<1>1. sync[s] \in Syncer
  BY KeptPoller
<1>2. sync[s].at = "poll" /\ sync[s].next \in 1..4 /\ Count(sync[s].orders) # 0
  BY <1>1, CountBounded DEF PollOrder, Polling, Syncer
<1>3. sync[s].orders.attempt \in Attempts
  <2>1. sync[s].orders.attempt # 0
    BY <1>2, CountNone DEF Running, Grounded
  <2> QED  BY <1>1, <2>1, BracketAssumption DEF Syncer, RecordLists, Attempts, BracketAssumption
<1>4. PICK role \in RoleSet : role = Roles[sync[s].next]
  BY <1>2, RoleOf
<1>5. PICK asked \in OrderStatus : asked = exchange[sync[s].orders.attempt][role]
  BY <1>3, <1>4 DEF TypeOK
<1> DEFINE st == [sync[s].orders.status EXCEPT ![role] = asked]
           list == [attempt |-> sync[s].orders.attempt, status |-> st]
           polled == [sync[s] EXCEPT !.next = @ + 1, !.orders = list]
<1>6. sync[s].orders = [attempt |-> sync[s].orders.attempt, status |-> sync[s].orders.status]
  BY <1>1 DEF Syncer, RecordLists
<1>7. sync' = [sync EXCEPT ![s] = polled]
  <2> DEFINE asking == [sync[s].orders EXCEPT !.status[role] = asked]
  <2>1. asking = list
    BY <1>6
  <2>2. sync' = [sync EXCEPT ![s] = [sync[s] EXCEPT !.next = @ + 1, !.orders = asking]]
    BY <1>4, <1>5 DEF PollOrder, OrderStatusOf
  <2> HIDE DEF asking, list
  <2> QED  BY <2>1, <2>2
<1>8. st \in [RoleSet -> OrderStatus]
  BY <1>1, <1>5 DEF Syncer, RecordLists
<1>9. \A r \in RoleSet : st[r] = IF r = role THEN asked ELSE sync[s].orders.status[r]
  BY <1>1 DEF Syncer, RecordLists
<1> HIDE DEF st
<1>10. list \in RecordLists /\ list.attempt = sync[s].orders.attempt /\ list.status = st
  BY <1>1, <1>8 DEF Syncer, RecordLists
<1> HIDE DEF list
<1>11. sync[s].next + 1 \in 1..5
  BY <1>2
<1>12. polled \in Syncer /\ polled.at = "poll" /\ polled.orders = list
  BY <1>1, <1>2, <1>10, <1>11 DEF Syncer
<1> HIDE DEF polled
<1>13. Others(s) /\ sync'[s] = polled /\ poller'[s] = poller[s]
  <2>1. poller' = [poller EXCEPT ![s] = poller[s]] /\ poller[s] \in Process
    BY KeptPoller DEF PollOrder
  <2> QED  BY <1>7, <1>12, <2>1, Touched
<1> QED  BY <1>2, <1>3, <1>5, <1>9, <1>10, <1>12, <1>13

LEMMA PollFailsIs ==
  ASSUME TypeOK, Running, NEW s \in Syncers, PollFails(s)
  PROVE  /\ Others(s) /\ sync'[s] = NotSyncing
         /\ poller'[s] \in {Cycled(poller[s]), NoPoller}
         /\ sync[s].at = "poll"
BY SyncEndsIs DEF PollFails, Polling

LEMMA StoreSyncedIs ==
  ASSUME TypeOK, Running, NEW s \in Syncers, StoreSynced(s)
  PROVE  /\ Others(s) /\ sync[s].at = "poll"
         /\ sync'[s].at = "load" /\ sync'[s].orders = sync[s].orders
         /\ \/ poller'[s] = poller[s] /\ poller[s].cycles = 0
            \/ /\ poller[s].cycles > 0 /\ poller'[s].cycles = poller[s].cycles
               /\ poller'[s].orders = sync[s].orders
               /\ poller'[s].position = poller[s].position
<1>1. sync[s] \in Syncer /\ poller[s] \in Process
  BY KeptPoller
<1> DEFINE done == [sync[s] EXCEPT !.at = "load"]
           m == [poller[s] EXCEPT !.orders = sync[s].orders]
           kept == IF poller[s].cycles > 0 THEN m ELSE poller[s]
<1>2. done \in Syncer /\ done.at = "load" /\ done.orders = sync[s].orders
  BY <1>1 DEF Syncer
<1>3. /\ m \in Process /\ m.cycles = poller[s].cycles /\ m.orders = sync[s].orders
      /\ m.position = poller[s].position
  BY <1>1 DEF Syncer, Process
<1> HIDE DEF m
<1>4. kept \in Process /\ poller' = [poller EXCEPT ![s] = kept]
  BY <1>3, RememberedIs DEF StoreSynced, m
<1>5. sync' = [sync EXCEPT ![s] = done] /\ sync[s].at = "poll"
  BY DEF StoreSynced
<1> HIDE DEF done, kept
<1>6. Others(s) /\ sync'[s] = done /\ poller'[s] = kept
  BY <1>2, <1>4, <1>5, Touched
<1>7. poller[s].cycles > 0 \/ poller[s].cycles = 0
  BY <1>1, BracketAssumption DEF Process, BracketAssumption
<1> QED  BY <1>2, <1>3, <1>5, <1>6, <1>7 DEF kept

LEMMA LoadPositionIs ==
  ASSUME TypeOK, Running, NEW s \in Syncers, LoadPosition(s)
  PROVE  /\ Others(s) /\ poller'[s] = poller[s]
         /\ sync[s].at = "load" /\ sync'[s].at = "apply" /\ sync'[s].orders = sync[s].orders
         /\ sync'[s].position = IF poller[s].cycles > 0 THEN poller[s].position ELSE position
<1>1. sync[s] \in Syncer /\ poller[s] \in Process /\ position \in Positions
  BY KeptPoller DEF TypeOK
<1>2. PICK taken : taken = IF poller[s].cycles > 0 THEN poller[s].position ELSE position
  OBVIOUS
<1> DEFINE loaded == [sync[s] EXCEPT !.at = "apply", !.position = taken]
<1>3. loaded \in Syncer /\ loaded.at = "apply" /\ loaded.orders = sync[s].orders
        /\ loaded.position = taken
  BY <1>1, <1>2 DEF Syncer, Process
<1>4. sync' = [sync EXCEPT ![s] = loaded] /\ sync[s].at = "load" /\ UNCHANGED poller
  BY <1>2 DEF LoadPosition
<1> HIDE DEF loaded
<1> QED  BY <1>1, <1>2, <1>3, <1>4, KeptPoller, Touched

LEMMA ApplyLifecycleIs ==
  ASSUME TypeOK, Running, NEW s \in Syncers, ApplyLifecycle(s)
  PROVE  LET st == sync[s].orders.status
             events == Events(sync[s].position, st, st["take_profit_1"] = "finished")
             updated == Lifecycle(sync[s].position, events)
         IN  /\ Others(s) /\ sync[s].at = "apply" /\ sync'[s].orders = sync[s].orders
             /\ \/ /\ events = {} /\ UNCHANGED position /\ poller'[s] = poller[s]
                   /\ sync'[s].at = "mark" /\ sync'[s].position = sync[s].position
                \/ /\ events # {} /\ position' = updated
                   /\ sync'[s].at = "journal" /\ sync'[s].position = updated
                   /\ sync'[s].events = events
                   /\ \/ poller'[s] = poller[s] /\ poller[s].cycles = 0
                      \/ /\ poller[s].cycles > 0 /\ poller'[s].cycles = poller[s].cycles
                         /\ poller'[s].orders = poller[s].orders
                         /\ poller'[s].position = updated
<1> DEFINE st == sync[s].orders.status
           events == Events(sync[s].position, st, st["take_profit_1"] = "finished")
           updated == Lifecycle(sync[s].position, events)
<1>1. sync[s] \in Syncer /\ poller[s] \in Process
  BY KeptPoller
<1>2. events \in SUBSET EventKinds /\ (events # {} => updated \in Positions)
  <2>1. sync[s].position \in Positions
    BY <1>1 DEF Syncer
  <2> QED  BY <2>1, LifecycleTyped
<1>3. /\ sync[s].at = "apply"
      /\ IF events = {}
         THEN sync' = [sync EXCEPT ![s].at = "mark"] /\ UNCHANGED <<position, poller>>
         ELSE /\ position' = updated
              /\ Remembers(s, [poller[s] EXCEPT !.position = updated])
              /\ sync' = [sync EXCEPT ![s].at = "journal", ![s].position = updated,
                                      ![s].events = events]
  BY DEF ApplyLifecycle
<1> HIDE DEF events, updated
<1>4. CASE events = {}
  <2> DEFINE x == [sync[s] EXCEPT !.at = "mark"]
  <2>1. x \in Syncer /\ x.at = "mark" /\ x.orders = sync[s].orders
          /\ x.position = sync[s].position
    BY <1>1 DEF Syncer
  <2>2. sync' = [sync EXCEPT ![s] = x] /\ UNCHANGED <<position, poller>>
    BY <1>3, <1>4
  <2> HIDE DEF x
  <2>3. Others(s) /\ sync'[s] = x /\ poller'[s] = poller[s]
    BY <1>1, <2>1, <2>2, KeptPoller, Touched
  <2> QED  BY <1>3, <1>4, <2>1, <2>2, <2>3 DEF events
<1>5. CASE events # {}
  <2> DEFINE x == [sync[s] EXCEPT !.at = "journal", !.position = updated, !.events = events]
             m == [poller[s] EXCEPT !.position = updated]
             kept == IF poller[s].cycles > 0 THEN m ELSE poller[s]
  <2>1. x \in Syncer /\ x.at = "journal" /\ x.orders = sync[s].orders
          /\ x.position = updated /\ x.events = events
    BY <1>1, <1>2, <1>5 DEF Syncer
  <2>2. /\ m \in Process /\ m.cycles = poller[s].cycles /\ m.orders = poller[s].orders
        /\ m.position = updated
    BY <1>1, <1>2, <1>5 DEF Process
  <2>3. Remembers(s, m) /\ sync' = [sync EXCEPT ![s] = x] /\ position' = updated
    BY <1>3, <1>5
  <2> HIDE DEF x, m
  <2>4. kept \in Process /\ poller' = [poller EXCEPT ![s] = kept]
    BY <2>2, <2>3, RememberedIs
  <2> HIDE DEF kept
  <2>5. Others(s) /\ sync'[s] = x /\ poller'[s] = kept
    BY <2>1, <2>3, <2>4, Touched
  <2>6. poller[s].cycles > 0 \/ poller[s].cycles = 0
    BY <1>1, BracketAssumption DEF Process, BracketAssumption
  <2> QED  BY <1>3, <1>5, <2>1, <2>2, <2>3, <2>5, <2>6 DEF kept, events, updated
<1> QED  BY <1>4, <1>5

LEMMA JournalEventsIs ==
  ASSUME TypeOK, Running, NEW s \in Syncers, JournalEvents(s)
  PROVE  /\ Others(s) /\ poller'[s] = poller[s]
         /\ sync[s].at = "journal" /\ sync'[s].at = "mark" /\ sync'[s].orders = sync[s].orders
         /\ sync'[s].position = sync[s].position
         /\ journal' \in [Attempts -> [EventKinds -> Nat]]
         /\ \A a \in Attempts, kind \in EventKinds :
              journal'[a][kind] = IF a = sync[s].position.attempt /\ kind \in sync[s].events
                                  THEN journal[a][kind] + 1 ELSE journal[a][kind]
<1>1. sync[s] \in Syncer /\ poller[s] \in Process
  BY KeptPoller
<1> DEFINE x == [sync[s] EXCEPT !.at = "mark", !.events = {}]
<1>2. x \in Syncer /\ x.at = "mark" /\ x.orders = sync[s].orders /\ x.position = sync[s].position
  BY <1>1 DEF Syncer
<1>3. sync' = [sync EXCEPT ![s] = x] /\ sync[s].at = "journal" /\ UNCHANGED poller
  BY DEF JournalEvents
<1> HIDE DEF x
<1>4. Others(s) /\ sync'[s] = x /\ poller'[s] = poller[s]
  BY <1>1, <1>2, <1>3, KeptPoller, Touched
<1>5. /\ journal' \in [Attempts -> [EventKinds -> Nat]]
      /\ \A a \in Attempts, kind \in EventKinds :
           journal'[a][kind] = IF a = sync[s].position.attempt /\ kind \in sync[s].events
                               THEN journal[a][kind] + 1 ELSE journal[a][kind]
  <2>1. journal \in [Attempts -> [EventKinds -> Nat]]
    BY DEF TypeOK
  <2>2. PICK b : b = sync[s].position.attempt
    OBVIOUS
  <2> DEFINE e == [kind \in EventKinds |-> IF kind \in sync[s].events THEN journal[b][kind] + 1
                                          ELSE journal[b][kind]]
  <2>3. journal' = [journal EXCEPT ![b] = e]
    BY <2>2 DEF JournalEvents
  <2>4. /\ b \in Attempts => e \in [EventKinds -> Nat]
        /\ \A kind \in EventKinds : e[kind] = IF kind \in sync[s].events THEN journal[b][kind] + 1
                                             ELSE journal[b][kind]
    BY <2>1
  <2> HIDE DEF e
  <2> QED  BY <2>1, <2>2, <2>3, <2>4
<1> QED  BY <1>2, <1>3, <1>4, <1>5

LEMMA MarkSyncedIs ==
  ASSUME TypeOK, Running, NEW s \in Syncers, MarkSynced(s)
  PROVE  /\ Others(s) /\ sync'[s] = NotSyncing
         /\ poller'[s] \in {Cycled(poller[s]), NoPoller}
         /\ sync[s].at = "mark" /\ status' \in {status, "EXECUTED"}
BY SyncEndsIs DEF MarkSynced

(* Every step of a syncer. *)
SyncStep(s) ==
  BeginSync(s) \/ StartPoller(s) \/ PollerCycle(s) \/ Syncing(s) \/ PollFails(s)

(* The lists and memories a syncer has after a step are well formed. *)
LEMMA SyncStepForms ==
  ASSUME TypeOK, Running, NEW s \in Syncers, SyncStep(s)
  PROVE  /\ Others(s)
         /\ sync'[s].at = "idle" => sync'[s] = NotSyncing
         /\ poller'[s].cycles = 0 => poller'[s] = NoPoller
         /\ Grounded(sync'[s].orders) /\ Grounded(poller'[s].orders)
<1> USE DEF Running
<1>1. /\ NotSyncing.orders = NoRecords /\ NoPoller.orders = NoRecords
      /\ Grounded(NoRecords) /\ NotSyncing.at = "idle"
  BY DEF NotSyncing, NoPoller, Grounded
<1>2. Grounded(Cycled(poller[s]).orders)
        /\ (Cycled(poller[s]).cycles = 0 => Cycled(poller[s]) = NoPoller)
  BY <1>1, KeptPoller, CycledTyped
<1>3. \A orders \in RecordLists : PollOf(orders).at = "poll" /\ PollOf(orders).orders = orders
  BY PollOfTyped
<1>4. CASE BeginSync(s)
  <2>1. PICK orders \in Views : sync'[s] = PollOf(orders)
    BY <1>4, BeginSyncIs
  <2>2. orders \in RecordLists /\ Grounded(orders)
    BY ViewsTyped DEF TypeOK
  <2> QED  BY <1>3, <1>4, <2>1, <2>2, BeginSyncIs
<1>5. CASE StartPoller(s)
  <2>1. PICK n \in 1..Cycles, orders \in Views :
          poller'[s] = [cycles |-> n, orders |-> orders, position |-> position]
    BY <1>5, StartPollerIs
  <2>2. orders \in RecordLists /\ Grounded(orders)
    BY ViewsTyped DEF TypeOK
  <2>3. poller'[s].cycles # 0 /\ poller'[s].orders = orders
    BY <2>1
  <2> QED  BY <1>1, <1>5, <2>2, <2>3, StartPollerIs
<1>6. CASE PollerCycle(s)
  <2>1. poller[s].orders \in RecordLists
    BY KeptPoller DEF Process
  <2> QED  BY <1>1, <1>2, <1>3, <1>6, <2>1, PollerCycleIs
<1>7. CASE PollFails(s) \/ MarkSynced(s)
  BY <1>1, <1>2, <1>7, PollFailsIs, MarkSyncedIs
<1>8. CASE PollOrder(s)
  <2>1. /\ Others(s) /\ poller'[s] = poller[s] /\ sync'[s].at = "poll"
        /\ sync'[s].orders.attempt \in Attempts
    BY <1>8, PollOrderIs
  <2>2. sync'[s].orders.attempt # 0
    BY <2>1 DEF Attempts
  <2> QED  BY <2>1, <2>2 DEF Grounded
<1>9. CASE StoreSynced(s)
  BY <1>9, StoreSyncedIs
<1>10. CASE LoadPosition(s)
  BY <1>10, LoadPositionIs
<1>11. CASE ApplyLifecycle(s)
  BY <1>11, ApplyLifecycleIs
<1>12. CASE JournalEvents(s)
  BY <1>12, JournalEventsIs
<1> QED
  BY <1>4, <1>5, <1>6, <1>7, <1>8, <1>9, <1>10, <1>11, <1>12 DEF SyncStep, Syncing


(* What it leaves alone. *)
LEMMA SyncStepKeeps ==
  ASSUME NEW s \in Syncers, SyncStep(s)
  PROVE  /\ UNCHANGED <<attempt, step, answer, broken, exchange>>
         /\ status' = status \/ (MarkSynced(s) /\ status' = "EXECUTED")
         /\ faults' = faults \/ (PollFails(s) /\ faults < MaxFaults /\ faults' = faults + 1)
         /\ records' = records \/ (StoreSynced(s) /\ records' = sync[s].orders)
         /\ position' = position \/ ApplyLifecycle(s)
         /\ journal' = journal \/ JournalEvents(s)
BY DEF SyncStep, BeginSync, StartPoller, PollerCycle, Syncing, PollFails, PollOrder, StoreSynced,
       LoadPosition, ApplyLifecycle, JournalEvents, MarkSynced, executor, files

-----------------------------------------------------------------------------
(* Type correctness. *)

(* A step of the execution of attempt a. *)
ExecStep(a) == Executing(a) \/ CallFails(a)

LEMMA PlacedTyped ==
  ASSUME TypeOK, NEW a \in Attempts, step[a] \in DOMAIN AfterCall, NEW st \in Answers(a)
  PROVE  /\ st \in OrderStatus \ {"none"}
         /\ Placed(a, st) \in [Attempts -> [RoleSet -> OrderStatus]]
         /\ \A b \in Attempts, role \in RoleSet :
              Placed(a, st)[b][role] = IF b = a /\ role = step[a] THEN st ELSE exchange[b][role]
<1>1. st \in OrderStatus \ {"none"}
  BY DEF Answers, OrderStatus
<1>2. CASE step[a] = "leverage"
  BY <1>1, <1>2, RolesAre DEF Placed, TypeOK
<1>3. CASE step[a] # "leverage"
  BY <1>1, <1>3 DEF Placed, TypeOK
<1> QED  BY <1>1, <1>2, <1>3

(* It leaves the other attempts and whoever synchronises alone. *)
LEMMA ExecStepIs ==
  ASSUME TypeOK, NEW a \in Attempts, ExecStep(a)
  PROVE  /\ UNCHANGED <<attempt, journal, sync, poller>>
         /\ step[a] # "idle"
         /\ step' \in [Attempts -> {"idle", "leverage", "snapshot", "store", "mark"} \cup RoleSet]
         /\ answer' \in [Attempts -> OrderStatus]
         /\ exchange' \in [Attempts -> [RoleSet -> OrderStatus]]
         /\ \A b \in Attempts \ {a} :
              step'[b] = step[b] /\ answer'[b] = answer[b]
         /\ \A b \in Attempts \ {a}, role \in RoleSet : exchange'[b][role] = exchange[b][role]
         /\ status' = status \/ (MarkExecuted(a) /\ status' = "EXECUTED")
         /\ records' = records \/ StoreRecords(a)
         /\ position' = position \/ AppendSnapshot(a)
         /\ UNCHANGED <<broken, faults>> \/ CallFails(a)
<1>1. CASE CallSucceeds(a)
  <2>1. PICK st \in Answers(a) :
          /\ exchange' = Placed(a, st)
          /\ answer' = IF step[a] = "entry" THEN [answer EXCEPT ![a] = st] ELSE answer
    BY <1>1 DEF CallSucceeds
  <2>2. /\ step[a] \in DOMAIN AfterCall /\ step' = [step EXCEPT ![a] = AfterCall[step[a]]]
        /\ UNCHANGED <<status, attempt, broken, faults, files, sync, poller>>
    BY <1>1 DEF CallSucceeds
  <2>3. AfterCall[step[a]] \in {"snapshot"} \cup RoleSet /\ step[a] # "idle"
    BY <2>2, RolesAre DEF AfterCall
  <2>4. st \in OrderStatus /\ exchange' \in [Attempts -> [RoleSet -> OrderStatus]]
    BY <2>1, <2>2, PlacedTyped
  <2>5. \A b \in Attempts \ {a}, role \in RoleSet : exchange'[b][role] = exchange[b][role]
    BY <2>1, <2>2, PlacedTyped
  <2>6. answer' \in [Attempts -> OrderStatus] /\ \A b \in Attempts \ {a} : answer'[b] = answer[b]
    BY <2>1, <2>4 DEF TypeOK
  <2>7. /\ step' \in [Attempts -> {"idle", "leverage", "snapshot", "store", "mark"} \cup RoleSet]
        /\ \A b \in Attempts \ {a} : step'[b] = step[b]
    BY <2>2, <2>3 DEF TypeOK
  <2> QED  BY <2>2, <2>3, <2>4, <2>5, <2>6, <2>7 DEF files
<1>2. CASE CallFails(a)
  <2>1. /\ step[a] \in DOMAIN AfterCall /\ step' = [step EXCEPT ![a] = "idle"]
        /\ answer' = [answer EXCEPT ![a] = "none"]
        /\ exchange' \in {exchange} \cup {Placed(a, st) : st \in Answers(a)}
        /\ UNCHANGED <<status, attempt, files, sync, poller>>
    BY <1>2 DEF CallFails
  <2>2. step[a] # "idle"
    BY <2>1 DEF AfterCall
  <2>3. /\ exchange' \in [Attempts -> [RoleSet -> OrderStatus]]
        /\ \A b \in Attempts \ {a}, role \in RoleSet : exchange'[b][role] = exchange[b][role]
    BY <2>1, PlacedTyped DEF TypeOK
  <2>4. /\ step' \in [Attempts -> {"idle", "leverage", "snapshot", "store", "mark"} \cup RoleSet]
        /\ answer' \in [Attempts -> OrderStatus]
        /\ \A b \in Attempts \ {a} : step'[b] = step[b] /\ answer'[b] = answer[b]
    BY <2>1 DEF TypeOK, OrderStatus
  <2> QED  BY <1>2, <2>1, <2>2, <2>3, <2>4 DEF files
<1>3. CASE AppendSnapshot(a) \/ StoreRecords(a) \/ MarkExecuted(a)
  <2>1. /\ \E st \in {"store", "mark", "idle"} : step' = [step EXCEPT ![a] = st]
        /\ answer' \in {answer, [answer EXCEPT ![a] = "none"]}
        /\ step[a] # "idle"
        /\ UNCHANGED <<attempt, broken, faults, exchange, journal, sync, poller>>
    BY <1>3 DEF AppendSnapshot, StoreRecords, MarkExecuted, files
  <2>2. /\ step' \in [Attempts -> {"idle", "leverage", "snapshot", "store", "mark"} \cup RoleSet]
        /\ answer' \in [Attempts -> OrderStatus]
        /\ \A b \in Attempts \ {a} : step'[b] = step[b] /\ answer'[b] = answer[b]
    BY <2>1 DEF TypeOK, OrderStatus
  <2>3. /\ status' = status \/ (MarkExecuted(a) /\ status' = "EXECUTED")
        /\ records' = records \/ StoreRecords(a)
        /\ position' = position \/ AppendSnapshot(a)
    BY <1>3 DEF AppendSnapshot, StoreRecords, MarkExecuted, files
  <2> QED  BY <2>1, <2>2, <2>3 DEF TypeOK
<1> QED  BY <1>1, <1>2, <1>3 DEF ExecStep, Executing

(* A crash stops executions and syncers; the others keep what they have. *)
LEMMA CrashIs ==
  ASSUME TypeOK, Crash
  PROVE  /\ UNCHANGED <<status, attempt, exchange, position, journal>>
         /\ faults < MaxFaults /\ faults' = faults + 1
         /\ records' \in {records, NoRecords}
         /\ step' \in [Attempts -> {"idle", "leverage", "snapshot", "store", "mark"} \cup RoleSet]
         /\ answer' \in [Attempts -> OrderStatus]
         /\ broken \subseteq broken' /\ broken' \subseteq Attempts
         /\ \A a \in Attempts : \/ step'[a] = step[a] /\ answer'[a] = answer[a]
                                \/ /\ step'[a] = "idle" /\ answer'[a] = "none"
                                   /\ step[a] # "idle" => a \in broken'
         /\ sync' \in [Syncers -> Syncer] /\ poller' \in [Syncers -> Process]
         /\ \A s \in Syncers : \/ sync'[s] = sync[s] /\ poller'[s] = poller[s]
                               \/ sync'[s] = NotSyncing /\ poller'[s] = NoPoller
<1>1. PICK as \in SUBSET Attempts, ss \in SUBSET Syncers : Dies(as, ss)
  <2>1. {s \in Syncers : poller[s].cycles = 0} \in SUBSET Syncers
    OBVIOUS
  <2>2. \A s \in Syncers : {s} \in SUBSET Syncers
    OBVIOUS
  <2> QED  BY <2>1, <2>2 DEF Crash
<1>2. /\ step' = [a \in Attempts |-> IF a \in as THEN "idle" ELSE step[a]]
      /\ answer' = [a \in Attempts |-> IF a \in as THEN "none" ELSE answer[a]]
      /\ broken' = broken \cup {a \in as : step[a] # "idle"}
      /\ sync' = [s \in Syncers |-> IF s \in ss THEN NotSyncing ELSE sync[s]]
      /\ poller' = [s \in Syncers |-> IF s \in ss THEN NoPoller ELSE poller[s]]
      /\ faults < MaxFaults /\ faults' = faults + 1
      /\ UNCHANGED <<status, attempt, exchange, position, journal>>
  BY <1>1 DEF Dies
<1>3. records' \in {records, NoRecords}
  BY <1>1 DEF Dies
<1>4. sync' \in [Syncers -> Syncer] /\ poller' \in [Syncers -> Process]
  BY <1>2, IdleTyped DEF TypeOK, Syncer, Process
<1>5. /\ step' \in [Attempts -> {"idle", "leverage", "snapshot", "store", "mark"} \cup RoleSet]
      /\ answer' \in [Attempts -> OrderStatus]
  BY <1>2 DEF TypeOK, OrderStatus
<1>6. broken \subseteq broken' /\ broken' \subseteq Attempts
  BY <1>2 DEF TypeOK
<1> QED  BY <1>2, <1>3, <1>4, <1>5, <1>6

LEMMA SettleIs ==
  ASSUME TypeOK, Settle
  PROVE  /\ UNCHANGED <<status, executor, faults, files, sync, poller>>
         /\ exchange' \in [Attempts -> [RoleSet -> OrderStatus]]
         /\ \A a \in Attempts, role \in RoleSet :
              \/ exchange'[a][role] = exchange[a][role]
              \/ exchange[a][role] = "open" /\ exchange'[a][role] \in {"finished", "cancelled"}
<1>1. PICK a \in Attempts, settled \in Settling :
        /\ exchange[a][settled[1]] = "open"
        /\ exchange' = [exchange EXCEPT ![a][settled[1]] = settled[2]]
        /\ UNCHANGED <<status, executor, faults, files, sync, poller>>
  BY DEF Settle
<1>2. settled[1] \in RoleSet /\ settled[2] \in {"finished", "cancelled"}
  BY BracketAssumption, RolesAre DEF BracketAssumption
<1> QED  BY <1>1, <1>2 DEF TypeOK, OrderStatus

(* What StartExecution and Approve do. *)
LEMMA BeginIs ==
  ASSUME TypeOK, StartExecution \/ Approve
  PROVE  /\ MayBegin /\ UNCHANGED <<answer, broken, faults, exchange, files, sync, poller>>
         /\ \/ attempt' = attempt /\ UNCHANGED step
               /\ status' \in {Approved, "REJECTED_PRE_EXECUTION"}
            \/ /\ attempt' = attempt + 1 /\ attempt + 1 \in Attempts
               /\ step' = [step EXCEPT ![attempt + 1] = "leverage"] /\ UNCHANGED status
<1>1. attempt < MaxAttempts => attempt + 1 \in Attempts
  BY BracketAssumption DEF TypeOK, BracketAssumption, Attempts
<1> QED  BY <1>1 DEF StartExecution, Approve, executor

LEMMA BaseInit == Init => TypeOK /\ Running
<1> SUFFICES ASSUME Init PROVE TypeOK /\ Running
  OBVIOUS
<1>1. /\ sync = [s \in Syncers |-> NotSyncing] /\ poller = [s \in Syncers |-> NoPoller]
      /\ NotSyncing \in Syncer /\ NoPoller \in Process
  BY IdleTyped DEF Init
<1>2. NoOrders \in [RoleSet -> OrderStatus]
  BY DEF NoOrders, OrderStatus
<1>3. 0 \in 0..MaxAttempts /\ 0 \in 0..MaxFaults
  BY BracketAssumption DEF BracketAssumption
<1>4. TypeOK
  BY <1>1, <1>2, <1>3, NoneTyped DEF Init, TypeOK, Syncer, Process, OrderStatus, Approved
<1>5. NotSyncing.orders = NoRecords /\ NoPoller.orders = NoRecords /\ Grounded(NoRecords)
  BY DEF NotSyncing, NoPoller, Grounded
<1>6. Running
  BY <1>1, <1>5 DEF Init, Running
<1> QED  BY <1>4, <1>6

LEMMA BaseStep == TypeOK /\ Running /\ [Next]_vars => (TypeOK /\ Running)'
<1> SUFFICES ASSUME TypeOK, Running, [Next]_vars PROVE TypeOK' /\ Running'
  OBVIOUS
<1>1. CASE StartExecution \/ Approve
  <2>1. UNCHANGED <<answer, broken, faults, exchange, records, position, journal, sync, poller>>
          /\ status' \in {Approved, "EXECUTED", "REJECTED_PRE_EXECUTION"}
    BY <1>1, BeginIs DEF files, TypeOK
  <2>2. /\ step' \in [Attempts -> {"idle", "leverage", "snapshot", "store", "mark"} \cup RoleSet]
        /\ attempt' \in 0..MaxAttempts
        /\ \A a \in Attempts : step'[a] # "idle" => a <= attempt'
    <3>1. CASE attempt' = attempt /\ UNCHANGED step
      BY <3>1 DEF TypeOK, Running
    <3>2. CASE /\ attempt' = attempt + 1 /\ attempt + 1 \in Attempts
               /\ step' = [step EXCEPT ![attempt + 1] = "leverage"]
      <4>1. /\ attempt \in Int /\ Attempts \subseteq Int
            /\ attempt + 1 \in 0..MaxAttempts
        BY <3>2, BracketAssumption DEF TypeOK, Attempts, BracketAssumption
      <4> QED  BY <3>2, <4>1 DEF TypeOK, Running
    <3> QED  BY <1>1, <3>1, <3>2, BeginIs
  <2> QED  BY <2>1, <2>2 DEF TypeOK, Running, Grounded
<1>2. ASSUME NEW a \in Attempts, ExecStep(a) PROVE TypeOK' /\ Running'
  <2>1. records' \in RecordLists /\ Grounded(records')
    <3>1. CASE StoreRecords(a)
      <4> DEFINE st == [[role \in RoleSet |-> "open"] EXCEPT !["entry"] = answer[a]]
      <4>1. st \in [RoleSet -> OrderStatus]
        BY DEF TypeOK, OrderStatus
      <4>2. records' = [attempt |-> a, status |-> st]
        BY <3>1 DEF StoreRecords
      <4> HIDE DEF st
      <4>3. a \in 0..MaxAttempts /\ a # 0
        BY BracketAssumption DEF Attempts, BracketAssumption
      <4> QED  BY <4>1, <4>2, <4>3 DEF RecordLists, Grounded
    <3> QED  BY <1>2, <3>1, ExecStepIs DEF TypeOK, Running
  <2>2. position' \in Positions
    BY <1>2, ExecStepIs, NoneTyped DEF AppendSnapshot, TypeOK
  <2>3. broken' \subseteq Attempts /\ faults' \in 0..MaxFaults
    <3>1. faults < MaxFaults => faults + 1 \in 0..MaxFaults
      BY BracketAssumption DEF TypeOK, BracketAssumption
    <3> QED  BY <1>2, <3>1, ExecStepIs DEF CallFails, TypeOK
  <2>4. /\ UNCHANGED <<attempt, journal, sync, poller>>
        /\ step' \in [Attempts -> {"idle", "leverage", "snapshot", "store", "mark"} \cup RoleSet]
        /\ answer' \in [Attempts -> OrderStatus]
        /\ exchange' \in [Attempts -> [RoleSet -> OrderStatus]]
        /\ status' \in {Approved, "EXECUTED", "REJECTED_PRE_EXECUTION"}
    BY <1>2, ExecStepIs DEF TypeOK
  <2>5. \A b \in Attempts : step'[b] # "idle" => step[b] # "idle"
    BY <1>2, ExecStepIs
  <2>6. TypeOK'
    BY <2>1, <2>2, <2>3, <2>4 DEF TypeOK
  <2> QED  BY <2>1, <2>4, <2>5, <2>6 DEF Running, Grounded
<1>3. CASE Settle
  BY <1>3, SettleIs DEF TypeOK, Running, executor, files, Grounded
<1>4. CASE Crash
  <2>1. /\ faults' \in 0..MaxFaults
        /\ records' \in RecordLists /\ Grounded(records')
    <3>1. faults < MaxFaults => faults + 1 \in 0..MaxFaults
      BY BracketAssumption DEF TypeOK, BracketAssumption
    <3> QED  BY <1>4, <3>1, CrashIs, NoneTyped DEF TypeOK, Running, Grounded
  <2>2. \A s \in Syncers : /\ sync'[s].at = "idle" => sync'[s] = NotSyncing
                           /\ poller'[s].cycles = 0 => poller'[s] = NoPoller
                           /\ Grounded(sync'[s].orders) /\ Grounded(poller'[s].orders)
    <3>1. NotSyncing.orders = NoRecords /\ NoPoller.orders = NoRecords /\ Grounded(NoRecords)
      BY DEF NotSyncing, NoPoller, Grounded
    <3> QED  BY <1>4, <3>1, CrashIs DEF Running
  <2>3. \A a \in Attempts : step'[a] # "idle" => a <= attempt'
    BY <1>4, CrashIs DEF Running
  <2>4. TypeOK'
    BY <1>4, <2>1, CrashIs DEF TypeOK, Syncer, Process
  <2> QED  BY <2>1, <2>2, <2>3, <2>4 DEF Running, Grounded
<1>5. ASSUME NEW s \in Syncers, SyncStep(s) PROVE TypeOK' /\ Running'
  <2>1. UNCHANGED <<attempt, step, answer, broken, exchange>>
          /\ status' \in {Approved, "EXECUTED", "REJECTED_PRE_EXECUTION"}
    BY <1>5, SyncStepKeeps DEF TypeOK
  <2>2. faults' \in 0..MaxFaults
    <3>1. faults < MaxFaults => faults + 1 \in 0..MaxFaults
      BY BracketAssumption DEF TypeOK, BracketAssumption
    <3> QED  BY <1>5, <3>1, SyncStepKeeps DEF TypeOK
  <2>3. sync[s] \in Syncer
    BY KeptPoller
  <2>4. records' \in RecordLists /\ Grounded(records')
    BY <1>5, <2>3, SyncStepKeeps DEF TypeOK, Running, Syncer
  <2>5. position' \in Positions
    <3>1. ASSUME ApplyLifecycle(s), position' # position PROVE position' \in Positions
      <4> DEFINE st == sync[s].orders.status
                 events == Events(sync[s].position, st, st["take_profit_1"] = "finished")
                 updated == Lifecycle(sync[s].position, events)
      <4>1. events # {} /\ position' = updated
        BY <3>1, ApplyLifecycleIs
      <4>2. sync[s].position \in Positions
        BY <2>3 DEF Syncer
      <4>3. events # {} => updated \in Positions
        BY <4>2, LifecycleTyped
      <4> QED  BY <4>1, <4>3
    <3> QED  BY <1>5, <3>1, SyncStepKeeps DEF TypeOK
  <2>6. journal' \in [Attempts -> [EventKinds -> Nat]]
    BY <1>5, SyncStepKeeps, JournalEventsIs DEF TypeOK
  <2>7. /\ sync' \in [Syncers -> Syncer] /\ poller' \in [Syncers -> Process]
        /\ \A t \in Syncers \ {s} : sync'[t] = sync[t] /\ poller'[t] = poller[t]
        /\ sync'[s].at = "idle" => sync'[s] = NotSyncing
        /\ poller'[s].cycles = 0 => poller'[s] = NoPoller
        /\ Grounded(sync'[s].orders) /\ Grounded(poller'[s].orders)
    BY <1>5, SyncStepForms DEF Others
  <2>8. TypeOK'
    BY <2>1, <2>2, <2>4, <2>5, <2>6, <2>7 DEF TypeOK, Syncer, Process
  <2>9. \A t \in Syncers : /\ sync'[t].at = "idle" => sync'[t] = NotSyncing
                           /\ poller'[t].cycles = 0 => poller'[t] = NoPoller
                           /\ Grounded(sync'[t].orders) /\ Grounded(poller'[t].orders)
    BY <2>7 DEF Running
  <2> QED  BY <2>1, <2>4, <2>8, <2>9 DEF Running, Grounded
<1>6. CASE UNCHANGED vars
  BY <1>6 DEF vars, executor, files, TypeOK, Running, Grounded
<1> QED  BY <1>1, <1>2, <1>3, <1>4, <1>5, <1>6 DEF Next, ExecStep, SyncStep

(* Whatever fails or overlaps, every variable keeps its type. *)
THEOREM TypeCorrect == Spec => []TypeOK
BY BaseInit, BaseStep, PTL DEF Spec

-----------------------------------------------------------------------------
(* The orders at the exchange. *)

Final == {"finished", "cancelled"}

(* The orders an execution still has to place when it is at st. *)
ToPlace(st) ==
  CASE st \in {"leverage", "entry"} -> RoleSet
    [] st = "stop_loss" -> RoleSet \ {"entry"}
    [] st = "take_profit_1" -> {"take_profit_1", "take_profit_2"}
    [] st = "take_profit_2" -> {"take_profit_2"}
    [] OTHER -> {}

(* An execution that runs has placed its orders one by one, and attempts to *)
(* come have none.                                                         *)
PlacedInOrder ==
  \A a \in Attempts, role \in RoleSet :
    /\ a > attempt => exchange[a][role] = "none"
    /\ step[a] # "idle" => (exchange[a][role] = "none" <=> role \in ToPlace(step[a]))

(* An order that was accepted stays, and a final one keeps its status. *)
OrdersKept ==
  \A a \in Attempts, role \in RoleSet :
    /\ exchange[a][role] # "none" => exchange'[a][role] # "none"
    /\ exchange[a][role] \in Final => exchange'[a][role] = exchange[a][role]

(* Who changes the orders. *)
LEMMA OrdersChange ==
  ASSUME TypeOK, Running, [Next]_vars
  PROVE  \/ UNCHANGED exchange
         \/ \E a \in Attempts : /\ CallSucceeds(a) \/ CallFails(a)
                                /\ step[a] \in DOMAIN AfterCall
                                /\ \E st \in Answers(a) : exchange' = Placed(a, st)
         \/ Settle
<1>1. StartExecution \/ Approve \/ Crash => UNCHANGED exchange
  BY BeginIs, CrashIs
<1>2. ASSUME NEW s \in Syncers, SyncStep(s) PROVE UNCHANGED exchange
  BY <1>2, SyncStepKeeps
<1>3. ASSUME NEW a \in Attempts, AppendSnapshot(a) \/ StoreRecords(a) \/ MarkExecuted(a)
      PROVE  UNCHANGED exchange
  BY <1>3 DEF AppendSnapshot, StoreRecords, MarkExecuted
<1>4. ASSUME NEW a \in Attempts, CallSucceeds(a) \/ CallFails(a)
      PROVE  /\ step[a] \in DOMAIN AfterCall
             /\ UNCHANGED exchange \/ \E st \in Answers(a) : exchange' = Placed(a, st)
  BY <1>4 DEF CallSucceeds, CallFails
<1>5. UNCHANGED vars => UNCHANGED exchange
  BY DEF vars
<1> QED  BY <1>1, <1>2, <1>3, <1>4, <1>5 DEF Next, Executing, SyncStep

LEMMA KeptStep ==
  ASSUME TypeOK, Running, PlacedInOrder, [Next]_vars
  PROVE  OrdersKept
<1>1. CASE UNCHANGED exchange
  BY <1>1 DEF OrdersKept
<1>2. ASSUME NEW a \in Attempts, step[a] \in DOMAIN AfterCall, NEW st \in Answers(a),
             exchange' = Placed(a, st)
      PROVE  OrdersKept
  <2>1. step[a] # "idle" /\ (step[a] \in RoleSet => step[a] \in ToPlace(step[a]))
    BY <1>2, RolesAre DEF AfterCall, ToPlace
  <2>2. step[a] \in RoleSet => exchange[a][step[a]] = "none"
    BY <2>1 DEF PlacedInOrder
  <2> QED  BY <1>2, <2>2, PlacedTyped DEF OrdersKept, Final
<1>3. CASE Settle
  BY <1>3, SettleIs DEF OrdersKept, Final
<1> QED  BY <1>1, <1>2, <1>3, OrdersChange

LEMMA PlacedInOrderStep ==
  ASSUME TypeOK, Running, PlacedInOrder, [Next]_vars
  PROVE  PlacedInOrder'
<1>1. CASE StartExecution \/ Approve
  <2>1. UNCHANGED exchange
    BY <1>1, BeginIs
  <2>2. CASE attempt' = attempt /\ UNCHANGED step
    BY <2>1, <2>2 DEF PlacedInOrder
  <2>3. CASE /\ attempt' = attempt + 1 /\ attempt + 1 \in Attempts
             /\ step' = [step EXCEPT ![attempt + 1] = "leverage"]
    <3>1. attempt \in Int /\ Attempts \subseteq Int
      BY BracketAssumption DEF TypeOK, Attempts, BracketAssumption
    <3>2. ASSUME NEW a \in Attempts, NEW role \in RoleSet, a = attempt + 1
          PROVE  exchange[a][role] = "none" /\ role \in ToPlace("leverage")
      BY <3>1, <3>2 DEF PlacedInOrder, ToPlace
    <3>3. \A a \in Attempts : step'[a] = IF a = attempt + 1 THEN "leverage" ELSE step[a]
      BY <2>3 DEF TypeOK
    <3>4. ASSUME NEW a \in Attempts, NEW role \in RoleSet
          PROVE  /\ a > attempt' => exchange[a][role] = "none"
                 /\ step'[a] # "idle" => (exchange[a][role] = "none" <=> role \in ToPlace(step'[a]))
      <4>1. CASE a = attempt + 1
        BY <3>2, <3>3, <4>1
      <4>2. CASE a # attempt + 1
        <5>1. step'[a] = step[a] /\ (a > attempt' => a > attempt)
          BY <2>3, <3>1, <3>3, <4>2
        <5> QED  BY <5>1 DEF PlacedInOrder
      <4> QED  BY <4>1, <4>2
    <3> QED  BY <2>1, <3>4 DEF PlacedInOrder
  <2> QED  BY <1>1, <2>2, <2>3, BeginIs
<1>2. ASSUME NEW a \in Attempts, CallSucceeds(a) PROVE PlacedInOrder'
  <2>1. PICK st \in Answers(a) : exchange' = Placed(a, st)
    BY <1>2 DEF CallSucceeds
  <2>2. /\ step[a] \in DOMAIN AfterCall /\ step' = [step EXCEPT ![a] = AfterCall[step[a]]]
        /\ UNCHANGED attempt /\ step[a] # "idle"
    BY <1>2 DEF CallSucceeds, AfterCall
  <2>3. ToPlace(AfterCall[step[a]]) = ToPlace(step[a]) \ {step[a]}
    BY <2>2, RolesAre DEF AfterCall, ToPlace
  <2>4. ~(a > attempt)
    BY <2>2, BracketAssumption DEF Running, TypeOK, Attempts, BracketAssumption
  <2>5. \A b \in Attempts, role \in RoleSet :
          exchange'[b][role] = IF b = a /\ role = step[a] THEN st ELSE exchange[b][role]
    BY <2>1, <2>2, PlacedTyped
  <2>6. st # "none"
    BY <2>1, <2>2, PlacedTyped
  <2>7. \A b \in Attempts : step'[b] = IF b = a THEN AfterCall[step[a]] ELSE step[b]
    BY <2>2 DEF TypeOK
  <2> QED  BY <2>2, <2>3, <2>4, <2>5, <2>6, <2>7 DEF PlacedInOrder
<1>3. ASSUME NEW a \in Attempts, CallFails(a) PROVE PlacedInOrder'
  <2>1. /\ step[a] # "idle" /\ step'[a] = "idle" /\ UNCHANGED attempt
        /\ \A b \in Attempts \ {a} : step'[b] = step[b]
        /\ \A b \in Attempts \ {a}, role \in RoleSet : exchange'[b][role] = exchange[b][role]
    BY <1>3, ExecStepIs DEF ExecStep, CallFails, TypeOK
  <2>2. ~(a > attempt)
    BY <2>1, BracketAssumption DEF Running, TypeOK, Attempts, BracketAssumption
  <2> QED  BY <2>1, <2>2 DEF PlacedInOrder
<1>4. CASE Settle
  BY <1>4, SettleIs DEF executor, PlacedInOrder
<1>5. ASSUME NEW a \in Attempts, AppendSnapshot(a) \/ StoreRecords(a) \/ MarkExecuted(a)
      PROVE  PlacedInOrder'
  <2>1. PICK st \in {"store", "mark", "idle"} : step' = [step EXCEPT ![a] = st]
    BY <1>5 DEF AppendSnapshot, StoreRecords, MarkExecuted
  <2>2. UNCHANGED <<attempt, exchange>> /\ step[a] \in {"snapshot", "store", "mark"}
    BY <1>5 DEF AppendSnapshot, StoreRecords, MarkExecuted
  <2>3. ToPlace(st) = {} /\ ToPlace(step[a]) = {}
    BY <2>1, <2>2, RolesAre DEF ToPlace
  <2>4. \A b \in Attempts : step'[b] = IF b = a THEN st ELSE step[b]
    BY <2>1 DEF TypeOK
  <2> QED  BY <2>2, <2>3, <2>4 DEF PlacedInOrder
<1>6. CASE Crash
  BY <1>6, CrashIs DEF PlacedInOrder
<1>7. ASSUME NEW s \in Syncers, SyncStep(s) PROVE PlacedInOrder'
  BY <1>7, SyncStepKeeps DEF PlacedInOrder
<1>8. CASE UNCHANGED vars
  BY <1>8 DEF vars, executor, PlacedInOrder
<1> QED
  BY <1>1, <1>2, <1>3, <1>4, <1>5, <1>6, <1>7, <1>8 DEF Next, Executing, SyncStep

LEMMA PlacedInOrderInit == Init => PlacedInOrder
BY DEF Init, PlacedInOrder, NoOrders

LEMMA UnprotectedStep ==
  ASSUME TypeOK, Running, PlacedInOrder, UnprotectedOnlyIfBroken, [Next]_vars
  PROVE  UnprotectedOnlyIfBroken'
<1>1. CASE StartExecution \/ Approve
  <2>1. UNCHANGED <<exchange, broken>>
    BY <1>1, BeginIs
  <2>2. ASSUME NEW a \in Attempts, exchange[a]["entry"] # "none", step[a] = "stop_loss"
        PROVE  step'[a] = "stop_loss"
    <3>1. a <= attempt /\ a # attempt + 1
      BY <2>2, BracketAssumption DEF Running, TypeOK, Attempts, BracketAssumption
    <3> QED  BY <1>1, <2>2, <3>1, BeginIs DEF TypeOK
  <2> QED  BY <2>1, <2>2 DEF UnprotectedOnlyIfBroken
<1>2. ASSUME NEW a \in Attempts, CallSucceeds(a) PROVE UnprotectedOnlyIfBroken'
  <2>1. PICK st \in Answers(a) : exchange' = Placed(a, st)
    BY <1>2 DEF CallSucceeds
  <2>2. /\ step[a] \in DOMAIN AfterCall /\ step' = [step EXCEPT ![a] = AfterCall[step[a]]]
        /\ UNCHANGED broken /\ step[a] # "idle"
    BY <1>2 DEF CallSucceeds, AfterCall
  <2>3. \A b \in Attempts, role \in RoleSet :
          exchange'[b][role] = IF b = a /\ role = step[a] THEN st ELSE exchange[b][role]
    BY <2>1, <2>2, PlacedTyped
  <2>4. st # "none"
    BY <2>1, <2>2, PlacedTyped
  <2>5. \A b \in Attempts : step'[b] = IF b = a THEN AfterCall[step[a]] ELSE step[b]
    BY <2>2 DEF TypeOK
  <2>6. ASSUME exchange'[a]["entry"] # "none", exchange'[a]["stop_loss"] = "none"
        PROVE  step'[a] = "stop_loss"
    <3>1. exchange[a]["stop_loss"] = "none" /\ step[a] # "stop_loss"
      BY <2>3, <2>4, <2>6, RolesAre
    <3>2. step[a] \in {"leverage", "entry"}
      BY <2>2, <3>1, RolesAre DEF PlacedInOrder, ToPlace, AfterCall
    <3>3. step[a] = "leverage" => exchange[a]["entry"] = "none"
      BY RolesAre DEF PlacedInOrder, ToPlace
    <3> QED  BY <2>3, <2>5, <2>6, <3>2, <3>3, RolesAre DEF AfterCall
  <2> QED  BY <2>2, <2>3, <2>5, <2>6, RolesAre DEF UnprotectedOnlyIfBroken
<1>3. ASSUME NEW a \in Attempts, CallFails(a) PROVE UnprotectedOnlyIfBroken'
  <2>1. broken' = broken \cup {a}
    BY <1>3 DEF CallFails
  <2>2. /\ \A b \in Attempts \ {a} : step'[b] = step[b]
        /\ \A b \in Attempts \ {a}, role \in RoleSet : exchange'[b][role] = exchange[b][role]
    BY <1>3, ExecStepIs DEF ExecStep
  <2> QED  BY <2>1, <2>2, RolesAre DEF UnprotectedOnlyIfBroken
<1>4. CASE Settle
  <2>1. \A a \in Attempts, role \in RoleSet :
          exchange'[a][role] = "none" <=> exchange[a][role] = "none"
    BY <1>4, SettleIs
  <2>2. UNCHANGED <<step, broken>>
    BY <1>4, SettleIs DEF executor
  <2> QED  BY <2>1, <2>2, RolesAre DEF UnprotectedOnlyIfBroken
<1>5. CASE Crash
  <2>1. /\ UNCHANGED exchange /\ broken \subseteq broken'
        /\ \A a \in Attempts : step'[a] = step[a] \/ (step[a] # "idle" => a \in broken')
    BY <1>5, CrashIs
  <2> QED  BY <2>1 DEF UnprotectedOnlyIfBroken
<1>6. ASSUME NEW a \in Attempts, AppendSnapshot(a) \/ StoreRecords(a) \/ MarkExecuted(a)
      PROVE  UnprotectedOnlyIfBroken'
  <2>1. /\ UNCHANGED <<broken, exchange>> /\ step[a] # "stop_loss"
        /\ \A b \in Attempts \ {a} : step'[b] = step[b]
    BY <1>6, ExecStepIs DEF ExecStep, Executing, AppendSnapshot, StoreRecords, MarkExecuted
  <2> QED  BY <2>1 DEF UnprotectedOnlyIfBroken
<1>7. ASSUME NEW s \in Syncers, SyncStep(s) PROVE UnprotectedOnlyIfBroken'
  BY <1>7, SyncStepKeeps DEF UnprotectedOnlyIfBroken
<1>8. CASE UNCHANGED vars
  BY <1>8 DEF vars, executor, UnprotectedOnlyIfBroken
<1> QED
  BY <1>1, <1>2, <1>3, <1>4, <1>5, <1>6, <1>7, <1>8 DEF Next, Executing, SyncStep

(* However calls fail and requests overlap, an entry without a stop belongs *)
(* to the call being made or to an attempt that was broken off.            *)
THEOREM Protected == Spec => []UnprotectedOnlyIfBroken
<1>1. Init => UnprotectedOnlyIfBroken
  BY RolesAre DEF Init, UnprotectedOnlyIfBroken, NoOrders
<1> QED
  BY <1>1, BaseInit, BaseStep, PlacedInOrderInit, PlacedInOrderStep, UnprotectedStep, PTL
     DEF Spec

-----------------------------------------------------------------------------
(* Records and the exchange. *)

NeverAhead(orders, ex) ==
  orders.attempt # 0 =>
    \A role \in RoleSet : orders.status[role] \in Final => ex[orders.attempt][role] = orders.status[role]

(* The records, what the syncers hold and remember, and the answers that    *)
(* running executions have of their entries.                               *)
AheadInv ==
  /\ NeverAhead(records, exchange)
  /\ \A s \in Syncers : NeverAhead(sync[s].orders, exchange) /\ NeverAhead(poller[s].orders, exchange)
  /\ \A a \in Attempts : answer[a] \in Final =>
       step[a] \notin {"idle", "mark"} /\ exchange[a]["entry"] = answer[a]

LEMMA AheadKept ==
  ASSUME TypeOK, Running, PlacedInOrder, [Next]_vars,
         NEW orders \in RecordLists, NeverAhead(orders, exchange)
  PROVE  NeverAhead(orders, exchange')
<1>1. orders.attempt # 0 => orders.attempt \in Attempts
  BY BracketAssumption DEF RecordLists, Attempts, BracketAssumption
<1> QED  BY <1>1, KeptStep DEF NeverAhead, OrdersKept

(* Where the lists of a syncer come from. *)
LEMMA ListsChange ==
  ASSUME TypeOK, Running, NEW s \in Syncers, SyncStep(s)
  PROVE  /\ \/ sync'[s].orders \in {NoRecords, sync[s].orders, poller[s].orders}
            \/ BeginSync(s) /\ sync'[s].orders \in Views
            \/ PollOrder(s)
         /\ \/ poller'[s].orders \in {NoRecords, sync[s].orders, poller[s].orders}
            \/ StartPoller(s) /\ poller'[s].orders \in Views
<1>1. /\ NotSyncing.orders = NoRecords /\ NoPoller.orders = NoRecords
      /\ \A orders \in RecordLists : PollOf(orders).orders = orders
  BY PollOfTyped DEF NotSyncing, NoPoller
<1>2. Cycled(poller[s]).orders \in {NoRecords, poller[s].orders}
  BY <1>1, KeptPoller, CycledTyped
<1>3. CASE BeginSync(s)
  <2>1. PICK orders \in Views : sync'[s] = PollOf(orders)
    BY <1>3, BeginSyncIs
  <2>2. orders \in RecordLists
    BY ViewsTyped DEF TypeOK, Running
  <2> QED  BY <1>1, <1>3, <2>1, <2>2, BeginSyncIs
<1>4. CASE StartPoller(s)
  <2>1. PICK n \in 1..Cycles, orders \in Views :
          poller'[s] = [cycles |-> n, orders |-> orders, position |-> position]
    BY <1>4, StartPollerIs
  <2>2. poller'[s].orders = orders
    BY <2>1
  <2> QED  BY <1>1, <1>4, <2>2, StartPollerIs
<1>5. CASE PollerCycle(s)
  <2>1. poller[s].orders \in RecordLists
    BY KeptPoller DEF Process
  <2> QED  BY <1>1, <1>2, <1>5, <2>1, PollerCycleIs
<1>6. CASE PollFails(s) \/ MarkSynced(s)
  BY <1>1, <1>2, <1>6, PollFailsIs, MarkSyncedIs
<1>7. CASE PollOrder(s)
  BY <1>7, PollOrderIs
<1>8. CASE StoreSynced(s)
  BY <1>8, StoreSyncedIs
<1>9. CASE LoadPosition(s)
  BY <1>9, LoadPositionIs
<1>10. CASE ApplyLifecycle(s)
  BY <1>10, ApplyLifecycleIs
<1>11. CASE JournalEvents(s)
  BY <1>11, JournalEventsIs
<1> QED
  BY <1>3, <1>4, <1>5, <1>6, <1>7, <1>8, <1>9, <1>10, <1>11 DEF SyncStep, Syncing

(* Nothing is ahead of the exchange in the order lists of a step. *)
LEMMA ListsStep ==
  ASSUME TypeOK, Running, PlacedInOrder, AheadInv, [Next]_vars
  PROVE  /\ NeverAhead(records', exchange')
         /\ \A s \in Syncers : /\ NeverAhead(sync'[s].orders, exchange')
                               /\ NeverAhead(poller'[s].orders, exchange')
<1>1. /\ NeverAhead(records, exchange')
      /\ \A s \in Syncers : /\ NeverAhead(sync[s].orders, exchange')
                            /\ NeverAhead(poller[s].orders, exchange')
  <2>1. records \in RecordLists
    BY DEF TypeOK
  <2>2. \A s \in Syncers : sync[s].orders \in RecordLists /\ poller[s].orders \in RecordLists
    BY KeptPoller DEF Syncer, Process
  <2> QED  BY <2>1, <2>2, AheadKept DEF AheadInv
<1>2. NeverAhead(NoRecords, exchange')
  BY DEF NeverAhead, NoRecords
<1>3. NotSyncing.orders = NoRecords /\ NoPoller.orders = NoRecords
  BY DEF NotSyncing, NoPoller
<1>4. ASSUME NEW a \in Attempts, ExecStep(a)
      PROVE  /\ NeverAhead(records', exchange')
             /\ UNCHANGED <<sync, poller>>
  <2>1. CASE StoreRecords(a)
    <3> DEFINE st == [[role \in RoleSet |-> "open"] EXCEPT !["entry"] = answer[a]]
    <3>1. UNCHANGED exchange /\ records' = [attempt |-> a, status |-> st]
      BY <2>1 DEF StoreRecords
    <3>2. \A role \in RoleSet : st[role] \in Final => role = "entry" /\ st[role] = answer[a]
      BY DEF Final
    <3> HIDE DEF st
    <3>3. NeverAhead(records', exchange')
      BY <3>1, <3>2 DEF NeverAhead, AheadInv
    <3> QED  BY <1>4, <3>3, ExecStepIs
  <2> QED  BY <1>1, <1>4, <2>1, ExecStepIs
<1>5. CASE Crash
  BY <1>1, <1>2, <1>3, <1>5, CrashIs
<1>6. ASSUME NEW s \in Syncers, SyncStep(s)
      PROVE  /\ NeverAhead(records', exchange')
             /\ \A t \in Syncers : /\ NeverAhead(sync'[t].orders, exchange')
                                   /\ NeverAhead(poller'[t].orders, exchange')
  <2>1. UNCHANGED exchange /\ records' \in {records, sync[s].orders}
    BY <1>6, SyncStepKeeps
  <2>2. \A orders \in Views : NeverAhead(orders, exchange')
    <3>1. \A orders \in Views :
            /\ orders.attempt = records.attempt
            /\ \A role \in RoleSet : orders.status[role] \in {"none", records.status[role]}
      BY ViewsTyped DEF TypeOK, Running
    <3> QED  BY <1>1, <3>1 DEF NeverAhead, Final
  <2>3. PollOrder(s) => NeverAhead(sync'[s].orders, exchange')
    BY <2>1, PollOrderIs DEF NeverAhead, AheadInv
  <2>4. NeverAhead(sync'[s].orders, exchange') /\ NeverAhead(poller'[s].orders, exchange')
    BY <1>1, <1>2, <1>6, <2>2, <2>3, ListsChange
  <2> QED  BY <1>1, <1>6, <2>1, <2>4, SyncStepForms DEF Others
<1>7. CASE StartExecution \/ Approve \/ Settle \/ UNCHANGED vars
  <2>1. UNCHANGED <<records, sync, poller>>
    BY <1>7, BeginIs, SettleIs DEF vars, files
  <2> QED  BY <1>1, <2>1
<1> QED  BY <1>1, <1>4, <1>5, <1>6, <1>7 DEF Next, ExecStep, SyncStep

LEMMA AnswerStep ==
  ASSUME TypeOK, Running, PlacedInOrder, AheadInv, [Next]_vars,
         NEW a \in Attempts, answer'[a] \in Final
  PROVE  step'[a] \notin {"idle", "mark"} /\ exchange'[a]["entry"] = answer'[a]
<1>1. "none" \notin Final
  BY DEF Final
<1>2. CASE answer'[a] = answer[a] /\ step'[a] = step[a]
  <2>1. exchange[a]["entry"] = answer[a]
    BY <1>2 DEF AheadInv
  <2> QED  BY <1>2, <2>1, KeptStep, RolesAre DEF AheadInv, OrdersKept
<1>3. CASE CallSucceeds(a)
  <2>1. PICK st \in Answers(a) :
          /\ exchange' = Placed(a, st)
          /\ answer' = IF step[a] = "entry" THEN [answer EXCEPT ![a] = st] ELSE answer
    BY <1>3 DEF CallSucceeds
  <2>2. /\ step[a] \in DOMAIN AfterCall /\ step[a] # "idle"
        /\ step' = [step EXCEPT ![a] = AfterCall[step[a]]]
        /\ AfterCall[step[a]] \notin {"idle", "mark"}
    BY <1>3 DEF CallSucceeds, AfterCall
  <2>3. step'[a] \notin {"idle", "mark"}
    BY <2>2 DEF TypeOK
  <2>4. \A role \in RoleSet :
          exchange'[a][role] = IF role = step[a] THEN st ELSE exchange[a][role]
    BY <2>1, <2>2, PlacedTyped
  <2>5. CASE step[a] = "entry"
    BY <2>1, <2>3, <2>4, <2>5, RolesAre DEF TypeOK
  <2>6. CASE step[a] # "entry"
    BY <2>1, <2>3, <2>4, <2>6, RolesAre DEF AheadInv
  <2> QED  BY <2>5, <2>6
<1>4. CASE AppendSnapshot(a)
  BY <1>4 DEF AppendSnapshot, AheadInv, TypeOK
<1>5. CallFails(a) \/ StoreRecords(a) => answer'[a] = "none"
  BY DEF CallFails, StoreRecords, TypeOK
<1>6. CASE MarkExecuted(a)
  BY <1>6 DEF MarkExecuted, AheadInv
<1>7. ASSUME NEW b \in Attempts \ {a}, ExecStep(b)
      PROVE  answer'[a] = answer[a] /\ step'[a] = step[a]
  BY <1>7, ExecStepIs
<1>8. CASE Crash
  BY <1>1, <1>2, <1>8, CrashIs
<1>9. CASE StartExecution \/ Approve
  <2>1. UNCHANGED <<answer, exchange>>
    BY <1>9, BeginIs
  <2>2. step'[a] \in {step[a], "leverage"}
    BY <1>9, BeginIs DEF TypeOK
  <2> QED  BY <2>1, <2>2 DEF AheadInv
<1>10. Settle \/ UNCHANGED vars \/ (\E s \in Syncers : SyncStep(s))
         => UNCHANGED <<answer, step>>
  BY SettleIs, SyncStepKeeps DEF vars, executor
<1> QED
  BY <1>1, <1>2, <1>3, <1>4, <1>5, <1>6, <1>7, <1>8, <1>9, <1>10
     DEF Next, ExecStep, Executing, SyncStep

LEMMA AheadStep ==
  ASSUME TypeOK, Running, PlacedInOrder, AheadInv, [Next]_vars
  PROVE  AheadInv'
<1>1. /\ NeverAhead(records, exchange)'
      /\ \A s \in Syncers : /\ NeverAhead(sync[s].orders, exchange)'
                            /\ NeverAhead(poller[s].orders, exchange)'
  BY ListsStep DEF NeverAhead
<1>2. \A a \in Attempts : (answer[a] \in Final =>
        step[a] \notin {"idle", "mark"} /\ exchange[a]["entry"] = answer[a])'
  BY AnswerStep
<1> QED  BY <1>1, <1>2 DEF AheadInv

LEMMA AheadInit == Init => AheadInv
<1>1. NotSyncing.orders = NoRecords /\ NoPoller.orders = NoRecords /\ NoRecords.attempt = 0
  BY DEF NotSyncing, NoPoller, NoRecords
<1> QED  BY <1>1 DEF Init, AheadInv, NeverAhead, Final

(* However requests and processes overlap and calls fail, no record, no     *)
(* syncer and no memory of a process is ahead of the exchange.              *)
THEOREM NeverAheadAlways == Spec => []RecordsNeverAhead
<1>1. AheadInv => RecordsNeverAhead
  BY DEF AheadInv, NeverAhead, RecordsNeverAhead, Final
<1> QED
  BY <1>1, AheadInit, AheadStep, BaseInit, BaseStep, PlacedInOrderInit, PlacedInOrderStep, PTL
     DEF Spec

-----------------------------------------------------------------------------
(* One command at a time. *)

(* Two executions, two syncers or one of each never run together. *)
Alone ==
  /\ \A a \in Attempts : step[a] # "idle" =>
       /\ \A b \in Attempts \ {a} : step[b] = "idle"
       /\ \A s \in Syncers : Free(s)
  /\ \A s, t \in Syncers : ~Free(s) /\ ~Free(t) => s = t

LEMMA FreeIs ==
  /\ NotSyncing.at = "idle" /\ NoPoller.cycles = 0
  /\ NotSyncing.orders = NoRecords /\ NoPoller.orders = NoRecords
BY DEF NotSyncing, NoPoller

(* A syncer that makes a step is the only one, and nothing is executed. *)
LEMMA SyncStepAlone ==
  ASSUME TypeOK, Running, Alone, ~Overlap, NEW s \in Syncers, SyncStep(s)
  PROVE  /\ \A a \in Attempts : step[a] = "idle" /\ step'[a] = "idle"
         /\ \A t \in Syncers \ {s} :
              /\ sync[t] = NotSyncing /\ poller[t] = NoPoller
              /\ sync'[t] = NotSyncing /\ poller'[t] = NoPoller
<1>1. BeginSync(s) \/ StartPoller(s) => MayBegin
  BY DEF BeginSync, StartPoller
<1>2. PollerCycle(s) \/ Syncing(s) \/ PollFails(s) => ~Free(s)
  BY FreeIs DEF PollerCycle, Syncing, PollFails, PollOrder, Polling, StoreSynced, LoadPosition,
                ApplyLifecycle, JournalEvents, MarkSynced, Free
<1>3. \A a \in Attempts : step[a] = "idle"
  BY <1>1, <1>2 DEF SyncStep, MayBegin, Alone
<1>4. \A t \in Syncers \ {s} : Free(t)
  BY <1>1, <1>2 DEF SyncStep, MayBegin, Alone
<1>5. UNCHANGED step
  BY SyncStepKeeps
<1>6. \A t \in Syncers \ {s} : sync'[t] = sync[t] /\ poller'[t] = poller[t]
  BY SyncStepForms DEF Others
<1> QED  BY <1>3, <1>4, <1>5, <1>6 DEF Free

(* An execution that makes a step is the only one, and nobody synchronises. *)
LEMMA ExecStepAlone ==
  ASSUME TypeOK, Running, Alone, NEW a \in Attempts, ExecStep(a)
  PROVE  /\ \A b \in Attempts \ {a} : step[b] = "idle" /\ step'[b] = "idle"
         /\ \A s \in Syncers : /\ sync[s] = NotSyncing /\ poller[s] = NoPoller
                               /\ sync'[s] = NotSyncing /\ poller'[s] = NoPoller
BY ExecStepIs DEF Alone, Free

(* So a crash leaves nothing running. *)
LEMMA CrashAlone ==
  ASSUME TypeOK, Running, Alone, Crash
  PROVE  /\ \A a \in Attempts : step'[a] = "idle"
         /\ \A s \in Syncers : sync'[s] = NotSyncing /\ poller'[s] = NoPoller
<1>1. CASE Dies(Attempts, {s \in Syncers : poller[s].cycles = 0})
  <2>1. /\ step' = [a \in Attempts |-> IF a \in Attempts THEN "idle" ELSE step[a]]
        /\ \A s \in Syncers :
             IF poller[s].cycles = 0 THEN sync'[s] = NotSyncing /\ poller'[s] = NoPoller
             ELSE sync'[s] = sync[s] /\ poller'[s] = poller[s]
        /\ \/ \E a \in Attempts : step[a] # "idle"
           \/ \E s \in Syncers : poller[s].cycles = 0 /\ ~Free(s)
    BY <1>1 DEF Dies
  <2>2. \A t \in Syncers : poller[t].cycles = 0
    <3>1. CASE \E a \in Attempts : step[a] # "idle"
      BY <3>1, FreeIs DEF Alone, Free
    <3>2. CASE \E s \in Syncers : poller[s].cycles = 0 /\ ~Free(s)
      BY <3>2, FreeIs DEF Alone, Free
    <3> QED  BY <2>1, <3>1, <3>2
  <2> QED  BY <2>1, <2>2
<1>2. ASSUME NEW s \in Syncers, poller[s].cycles > 0, Dies({}, {s})
      PROVE  /\ \A a \in Attempts : step'[a] = "idle"
             /\ \A t \in Syncers : sync'[t] = NotSyncing /\ poller'[t] = NoPoller
  <2>1. ~Free(s)
    BY <1>2, FreeIs DEF Free
  <2>2. /\ \A a \in Attempts : step[a] = "idle"
        /\ \A t \in Syncers \ {s} : sync[t] = NotSyncing /\ poller[t] = NoPoller
    BY <2>1 DEF Alone, Free
  <2>3. /\ step' = [a \in Attempts |-> IF a \in {} THEN "idle" ELSE step[a]]
        /\ \A t \in Syncers :
             IF t = s THEN sync'[t] = NotSyncing /\ poller'[t] = NoPoller
             ELSE sync'[t] = sync[t] /\ poller'[t] = poller[t]
    BY <1>2 DEF Dies
  <2> QED  BY <2>2, <2>3
<1> QED  BY <1>1, <1>2 DEF Crash

LEMMA AloneStep ==
  ASSUME TypeOK, Running, Alone, ~Overlap, [Next]_vars
  PROVE  Alone'
<1>1. CASE StartExecution \/ Approve
  <2>1. /\ \A a \in Attempts : step[a] = "idle"
        /\ \A s \in Syncers : sync[s] = NotSyncing /\ poller[s] = NoPoller
        /\ UNCHANGED <<sync, poller>>
    BY <1>1, BeginIs DEF MayBegin, Free
  <2>2. \A a \in Attempts : step'[a] # "idle" => a = attempt + 1
    BY <1>1, <2>1, BeginIs DEF TypeOK
  <2> QED  BY <2>1, <2>2 DEF Alone, Free
<1>2. ASSUME NEW a \in Attempts, ExecStep(a) PROVE Alone'
  BY <1>2, ExecStepAlone DEF Alone, Free
<1>3. CASE Crash
  BY <1>3, CrashAlone DEF Alone, Free
<1>4. CASE Settle \/ UNCHANGED vars
  <2>1. UNCHANGED <<step, sync, poller>>
    BY <1>4, SettleIs DEF vars, executor
  <2> QED  BY <2>1 DEF Alone, Free
<1>5. ASSUME NEW s \in Syncers, SyncStep(s) PROVE Alone'
  BY <1>5, SyncStepAlone DEF Alone, Free
<1> QED  BY <1>1, <1>2, <1>3, <1>4, <1>5 DEF Next, ExecStep, SyncStep

(* What a syncer took and remembers is still the latest; the position of an *)
(* execution comes with its snapshot, and is open when its records are      *)
(* stored.                                                                 *)
SyncerLatest(s) ==
  /\ sync[s].at = "poll" => sync[s].orders.attempt = records.attempt
  /\ sync[s].at \in {"load", "apply", "journal", "mark"} => sync[s].orders = records
  /\ sync[s].at \in {"apply", "journal", "mark"} => sync[s].position = position
  /\ poller[s].cycles > 0 => poller[s].orders = records /\ poller[s].position = position

Latest ==
  /\ \A s \in Syncers : SyncerLatest(s)
  /\ position.attempt <= attempt
  /\ \A a \in Attempts :
       /\ step[a] \notin {"idle", "store", "mark"} => position.attempt < a
       /\ step[a] = "store" => position.remaining # 0

(* The position changes with a snapshot or with what its lifecycle makes of *)
(* it, for an event.                                                       *)
Changed(s) ==
  LET events == Events(position, records.status, records.status["take_profit_1"] = "finished")
  IN  /\ ApplyLifecycle(s) /\ sync[s].orders = records /\ sync[s].position = position
      /\ events # {} /\ position' = Lifecycle(position, events)
      /\ sync'[s].at = "journal" /\ sync'[s].events = events

LEMMA PositionChange ==
  ASSUME TypeOK, Running, Latest, [Next]_vars
  PROVE  \/ UNCHANGED position
         \/ \E a \in Attempts : AppendSnapshot(a)
         \/ \E s \in Syncers : Changed(s)
<1>1. ASSUME NEW s \in Syncers, ApplyLifecycle(s) PROVE UNCHANGED position \/ Changed(s)
  <2>1. sync[s].orders = records /\ sync[s].position = position
    BY <1>1, ApplyLifecycleIs DEF Latest, SyncerLatest
  <2> QED  BY <1>1, <2>1, ApplyLifecycleIs DEF Changed
<1>2. ASSUME NEW s \in Syncers, SyncStep(s) PROVE UNCHANGED position \/ ApplyLifecycle(s)
  BY <1>2, SyncStepKeeps
<1>3. ASSUME NEW a \in Attempts, ExecStep(a) PROVE UNCHANGED position \/ AppendSnapshot(a)
  BY <1>3, ExecStepIs
<1>4. StartExecution \/ Approve \/ Settle \/ Crash \/ UNCHANGED vars => UNCHANGED position
  BY BeginIs, SettleIs, CrashIs DEF vars, files
<1> QED  BY <1>1, <1>2, <1>3, <1>4 DEF Next, ExecStep, SyncStep

(* A step of a syncer keeps what it took and remembers the latest. *)
LEMMA SyncerLatestStep ==
  ASSUME TypeOK, Running, Alone, Latest, ~Overlap, NEW s \in Syncers, SyncStep(s)
  PROVE  /\ SyncerLatest(s)'
         /\ position'.attempt = position.attempt
<1> DEFINE After == /\ sync'[s].at = "poll" => sync'[s].orders.attempt = records'.attempt
                    /\ sync'[s].at \in {"load", "apply", "journal", "mark"} => sync'[s].orders = records'
                    /\ sync'[s].at \in {"apply", "journal", "mark"} => sync'[s].position = position'
                    /\ poller'[s].cycles > 0 => /\ poller'[s].orders = records'
                                                /\ poller'[s].position = position'
<1>1. sync[s] \in Syncer /\ poller[s] \in Process /\ SyncerLatest(s)
  BY KeptPoller DEF Latest
<1>2. \A orders \in Views : orders = records /\ orders \in RecordLists
  BY ViewsTyped DEF TypeOK, Running
<1>3. ASSUME UNCHANGED <<records, position>>, poller'[s] \in {Cycled(poller[s]), NoPoller},
             sync'[s] = NotSyncing
      PROVE  After
  <2>1. \/ poller'[s] = NoPoller
        \/ /\ poller[s].cycles > 0
           /\ poller'[s].orders = poller[s].orders /\ poller'[s].position = poller[s].position
    BY <1>1, <1>3, CycledTyped
  <2> QED  BY <1>1, <1>3, <2>1, FreeIs DEF SyncerLatest
<1>4. CASE BeginSync(s)
  <2>1. PICK orders \in Views : sync'[s] = PollOf(orders)
    BY <1>4, BeginSyncIs
  <2>2. sync'[s].at = "poll" /\ sync'[s].orders = records
    BY <1>2, <2>1, PollOfTyped
  <2>3. UNCHANGED <<records, position>> /\ poller'[s] = NoPoller
    BY <1>4, BeginSyncIs DEF BeginSync, files
  <2> QED  BY <2>2, <2>3, FreeIs DEF SyncerLatest
<1>5. CASE StartPoller(s)
  <2>1. PICK n \in 1..Cycles, orders \in Views :
          poller'[s] = [cycles |-> n, orders |-> orders, position |-> position]
    BY <1>5, StartPollerIs
  <2>2. poller'[s].orders = records /\ poller'[s].position = position
    BY <1>2, <2>1
  <2>3. UNCHANGED <<records, position>> /\ sync'[s] = NotSyncing
    BY <1>5, StartPollerIs DEF StartPoller, files
  <2> QED  BY <2>2, <2>3, FreeIs DEF SyncerLatest
<1>6. CASE PollerCycle(s)
  <2>1. UNCHANGED <<records, position>> /\ poller[s].cycles > 0
    BY <1>6 DEF PollerCycle, files
  <2>2. CASE sync'[s] = PollOf(poller[s].orders) /\ poller'[s] = poller[s]
    <3>1. sync'[s].at = "poll" /\ sync'[s].orders = poller[s].orders
      BY <1>1, <2>2, PollOfTyped DEF Process
    <3> QED  BY <1>1, <2>1, <2>2, <3>1 DEF SyncerLatest
  <2>3. CASE sync'[s] = NotSyncing /\ poller'[s] = Cycled(poller[s])
    BY <1>3, <2>1, <2>3 DEF SyncerLatest
  <2> QED  BY <1>6, <2>2, <2>3, <2>1, PollerCycleIs
<1>7. CASE PollFails(s) \/ MarkSynced(s)
  <2>1. UNCHANGED <<records, position>>
    BY <1>7 DEF PollFails, MarkSynced, files
  <2> QED  BY <1>3, <1>7, <2>1, PollFailsIs, MarkSyncedIs DEF SyncerLatest
<1>8. CASE PollOrder(s)
  <2>1. UNCHANGED <<records, position>>
    BY <1>8 DEF PollOrder, files
  <2> QED  BY <1>1, <1>8, <2>1, PollOrderIs DEF SyncerLatest
<1>9. CASE StoreSynced(s)
  <2>1. records' = sync[s].orders /\ UNCHANGED position
    BY <1>9 DEF StoreSynced
  <2> QED  BY <1>1, <1>9, <2>1, StoreSyncedIs DEF SyncerLatest
<1>10. CASE LoadPosition(s)
  <2>1. UNCHANGED <<records, position>>
    BY <1>10 DEF LoadPosition, files
  <2> QED  BY <1>1, <1>10, <2>1, LoadPositionIs DEF SyncerLatest
<1>11. CASE JournalEvents(s)
  <2>1. UNCHANGED <<records, position>>
    BY <1>11 DEF JournalEvents
  <2> QED  BY <1>1, <1>11, <2>1, JournalEventsIs DEF SyncerLatest
<1>12. CASE ApplyLifecycle(s)
  <2> DEFINE st == sync[s].orders.status
             events == Events(sync[s].position, st, st["take_profit_1"] = "finished")
             updated == Lifecycle(sync[s].position, events)
  <2>1. UNCHANGED records
    BY <1>12 DEF ApplyLifecycle
  <2>2. sync[s].orders = records /\ sync[s].position = position /\ sync[s].position \in Positions
    BY <1>1, <1>12, ApplyLifecycleIs DEF SyncerLatest, Syncer
  <2>3. events # {} => updated.attempt = position.attempt
    BY <2>2, LifecycleTyped
  <2>4. /\ sync'[s].orders = sync[s].orders
        /\ \/ /\ UNCHANGED position /\ poller'[s] = poller[s]
              /\ sync'[s].at = "mark" /\ sync'[s].position = sync[s].position
           \/ /\ events # {} /\ position' = updated
              /\ sync'[s].at = "journal" /\ sync'[s].position = updated
              /\ \/ poller'[s] = poller[s] /\ poller[s].cycles = 0
                 \/ /\ poller'[s].orders = poller[s].orders /\ poller[s].cycles > 0
                    /\ poller'[s].position = updated
    BY <1>12, ApplyLifecycleIs
  <2> HIDE DEF events, updated
  <2> QED  BY <1>1, <2>1, <2>2, <2>3, <2>4 DEF SyncerLatest
<1>13. UNCHANGED position \/ ApplyLifecycle(s)
  BY SyncStepKeeps
<1>14. After => SyncerLatest(s)'
  BY DEF SyncerLatest
<1> QED
  BY <1>4, <1>5, <1>6, <1>7, <1>8, <1>9, <1>10, <1>11, <1>12, <1>13, <1>14
     DEF SyncStep, Syncing

LEMMA LatestStep ==
  ASSUME TypeOK, Running, Alone, Latest, ~Overlap, [Next]_vars
  PROVE  Latest'
<1>1. position.attempt \in Nat /\ attempt \in Nat /\ Attempts \subseteq Nat
  BY BracketAssumption DEF TypeOK, Positions, Attempts, BracketAssumption
<1>2. ASSUME \A s \in Syncers : sync'[s] = NotSyncing /\ poller'[s] = NoPoller
      PROVE  \A s \in Syncers : SyncerLatest(s)'
  BY <1>2, FreeIs DEF SyncerLatest
<1>3. CASE StartExecution \/ Approve
  <2>1. UNCHANGED <<sync, poller, position, records>>
    BY <1>3, BeginIs DEF files
  <2>2. \A s \in Syncers : SyncerLatest(s)'
    BY <2>1 DEF Latest, SyncerLatest
  <2>3. CASE attempt' = attempt /\ UNCHANGED step
    BY <2>1, <2>2, <2>3 DEF Latest
  <2>4. CASE attempt' = attempt + 1 /\ step' = [step EXCEPT ![attempt + 1] = "leverage"]
    <3>1. \A a \in Attempts : step'[a] = step[a] \/ (a = attempt + 1 /\ step'[a] = "leverage")
      BY <2>4 DEF TypeOK
    <3> QED  BY <1>1, <2>1, <2>2, <2>4, <3>1 DEF Latest
  <2> QED  BY <1>3, <2>3, <2>4, BeginIs
<1>4. ASSUME NEW a \in Attempts, ExecStep(a) PROVE Latest'
  <2>1. \A s \in Syncers : SyncerLatest(s)'
    BY <1>2, <1>4, ExecStepAlone
  <2>2. /\ UNCHANGED attempt /\ step[a] # "idle" /\ a <= attempt
        /\ \A b \in Attempts \ {a} : step'[b] = "idle"
    BY <1>4, ExecStepAlone, ExecStepIs DEF Running
  <2>3. CASE AppendSnapshot(a)
    <3>1. position' = OpenPosition(a) /\ step'[a] = "store"
      BY <2>3 DEF AppendSnapshot, TypeOK
    <3>2. position'.attempt = a /\ position'.remaining = 2
      BY <3>1 DEF OpenPosition
    <3> QED  BY <1>1, <2>1, <2>2, <3>1, <3>2 DEF Latest
  <2>4. CASE ~AppendSnapshot(a)
    <3>1. UNCHANGED position
      BY <1>4, <2>4, ExecStepIs
    <3>2. \/ step'[a] \in {"idle", "mark"}
          \/ step[a] \notin {"idle", "store", "mark"} /\ step'[a] # "store"
      BY <1>4, <2>4, RolesAre
         DEF ExecStep, Executing, CallSucceeds, CallFails, StoreRecords, MarkExecuted, TypeOK,
             AfterCall
    <3> QED  BY <1>1, <2>1, <2>2, <3>1, <3>2 DEF Latest
  <2> QED  BY <2>3, <2>4
<1>5. CASE Crash
  <2>1. UNCHANGED <<attempt, position>>
    BY <1>5, CrashIs
  <2> QED  BY <1>2, <1>5, <2>1, CrashAlone DEF Latest
<1>6. CASE Settle \/ UNCHANGED vars
  <2>1. UNCHANGED <<attempt, step, sync, poller, position, records>>
    BY <1>6, SettleIs DEF vars, executor, files
  <2> QED  BY <2>1 DEF Latest, SyncerLatest
<1>7. ASSUME NEW s \in Syncers, SyncStep(s) PROVE Latest'
  <2>1. UNCHANGED attempt /\ \A a \in Attempts : step'[a] = "idle"
    BY <1>7, SyncStepKeeps, SyncStepAlone
  <2>2. \A t \in Syncers \ {s} : SyncerLatest(t)'
    BY <1>7, SyncStepAlone, FreeIs DEF SyncerLatest
  <2>3. SyncerLatest(s)' /\ position'.attempt = position.attempt
    BY <1>7, SyncerLatestStep
  <2> QED  BY <2>1, <2>2, <2>3 DEF Latest
<1> QED  BY <1>3, <1>4, <1>5, <1>6, <1>7 DEF Next, ExecStep, SyncStep

LEMMA AloneInit == Init => Alone /\ Latest
<1> SUFFICES ASSUME Init PROVE Alone /\ Latest
  OBVIOUS
<1>1. /\ \A a \in Attempts : step[a] = "idle"
      /\ \A s \in Syncers : sync[s] = NotSyncing /\ poller[s] = NoPoller
      /\ attempt = 0 /\ position = NoPosition
  BY DEF Init
<1>2. position.attempt = 0
  BY <1>1 DEF NoPosition
<1> QED  BY <1>1, <1>2, FreeIs DEF Alone, Free, Latest, SyncerLatest

-----------------------------------------------------------------------------
(* The events of a position, while one command runs at a time. *)

Ends == {"CLOSED", "STOPPED", "CANCELLED"}

(* The outcomes a position may have after an event; TP1_SYNC never occurs.  *)
Outcomes(kind) ==
  CASE kind = "ENTRY_CANCELLED" -> {"CANCELLED", "STOPPED"}
    [] kind = "STOP_TRIGGERED_SYNC" -> {"STOPPED"}
    [] kind = "TP2_SYNC_FULL_CLOSE" -> {"CLOSED"}
    [] OTHER -> {}

(* A position has nothing left exactly when it ended. *)
EndedRight(pos) ==
  /\ pos.status \in Ends => pos.remaining = 0
  /\ pos.attempt # 0 /\ pos.remaining = 0 => pos.status \in Ends

(* Each event was journaled once at most, of no later position than the     *)
(* latest, and its outcome is still to be seen in the status, also of those  *)
(* about to be journaled.                                                  *)
JournalInv ==
  /\ EndedRight(position)
  /\ \A a \in Attempts, kind \in EventKinds :
       /\ journal[a][kind] \in {0, 1}
       /\ journal[a][kind] = 1 => a <= position.attempt
       /\ journal[a][kind] = 1 /\ a = position.attempt => position.status \in Outcomes(kind)
  /\ \A s \in Syncers : sync[s].at = "journal" =>
       /\ position.attempt \in Attempts
       /\ \A kind \in sync[s].events :
            journal[position.attempt][kind] = 0 /\ position.status \in Outcomes(kind)

(* An event ends the position; it was not journaled before. *)
LEMMA ChangedIs ==
  ASSUME TypeOK, JournalInv, NEW s \in Syncers, Changed(s)
  PROVE  /\ position.attempt \in Attempts /\ position'.attempt = position.attempt
         /\ position'.remaining = 0
         /\ \E kind \in EventKinds :
              /\ sync'[s].events = {kind}
              /\ journal[position.attempt][kind] = 0
              /\ \A k \in EventKinds :
                   k = kind \/ journal[position.attempt][k] = 1 => position'.status \in Outcomes(k)
         /\ \/ CancelApplies(position, records.status) /\ position'.status = "CANCELLED"
            \/ StopApplies(position, records.status) /\ position'.status = "STOPPED"
            \/ Tp2Applies(position, records.status) /\ position'.status = "CLOSED"
<1> DEFINE st == records.status
           events == Events(position, st, st["take_profit_1"] = "finished")
           updated == Lifecycle(position, events)
<1>1. position \in Positions
  BY DEF TypeOK
<1>2. events # {} /\ position' = updated /\ sync'[s].events = events
  BY DEF Changed
<1>3. \/ /\ position.attempt # 0 /\ CancelApplies(position, st)
         /\ events = {"ENTRY_CANCELLED"} /\ updated = Ended(position, "CANCELLED")
      \/ /\ position.attempt # 0 /\ StopApplies(position, st)
         /\ events = {"STOP_TRIGGERED_SYNC"} /\ updated = Ended(position, "STOPPED")
      \/ /\ position.attempt # 0 /\ Tp2Applies(position, st)
         /\ events = {"TP2_SYNC_FULL_CLOSE"} /\ updated = Ended(position, "CLOSED")
  BY <1>1, <1>2, EventsCases
<1> HIDE DEF events, updated
<1>4. \A how \in Ends : /\ Ended(position, how).attempt = position.attempt
                        /\ Ended(position, how).status = how
                        /\ Ended(position, how).remaining = 0
  BY <1>1, EndedTyped DEF Ends
<1>5. position.attempt \in Attempts
  BY <1>1, <1>3, BracketAssumption DEF Positions, Attempts, BracketAssumption
<1>6. \A k \in EventKinds : /\ journal[position.attempt][k] \in {0, 1}
                            /\ journal[position.attempt][k] = 1 => position.status \in Outcomes(k)
  BY <1>5 DEF JournalInv
<1>7. /\ EventKinds = {"ENTRY_CANCELLED", "STOP_TRIGGERED_SYNC", "TP1_SYNC", "TP2_SYNC_FULL_CLOSE"}
      /\ Outcomes("ENTRY_CANCELLED") = {"CANCELLED", "STOPPED"}
      /\ Outcomes("STOP_TRIGGERED_SYNC") = {"STOPPED"}
      /\ Outcomes("TP2_SYNC_FULL_CLOSE") = {"CLOSED"} /\ Outcomes("TP1_SYNC") = {}
  BY DEF EventKinds, Outcomes
<1>8. CASE CancelApplies(position, st) /\ events = {"ENTRY_CANCELLED"}
             /\ updated = Ended(position, "CANCELLED")
  <2>1. position.status \notin Ends
    BY <1>8 DEF CancelApplies, Ends
  <2>2. \A k \in EventKinds : journal[position.attempt][k] = 0
    BY <1>6, <1>7, <2>1 DEF Ends
  <2> QED  BY <1>2, <1>4, <1>5, <1>7, <1>8, <2>2 DEF Ends
<1>9. CASE StopApplies(position, st) /\ events = {"STOP_TRIGGERED_SYNC"}
             /\ updated = Ended(position, "STOPPED")
  <2>1. position.status \notin {"STOPPED", "CLOSED"}
    BY <1>9 DEF StopApplies
  <2>2. \A k \in EventKinds : journal[position.attempt][k] = 1 => k = "ENTRY_CANCELLED"
    BY <1>6, <1>7, <2>1
  <2> QED  BY <1>2, <1>4, <1>5, <1>6, <1>7, <1>9, <2>2 DEF Ends
<1>10. CASE Tp2Applies(position, st) /\ events = {"TP2_SYNC_FULL_CLOSE"}
              /\ updated = Ended(position, "CLOSED")
  <2>1. position.status \notin Ends
    BY <1>10 DEF Tp2Applies, JournalInv, EndedRight
  <2>2. \A k \in EventKinds : journal[position.attempt][k] = 0
    BY <1>6, <1>7, <2>1 DEF Ends
  <2> QED  BY <1>2, <1>4, <1>5, <1>7, <1>10, <2>2 DEF Ends
<1> QED  BY <1>3, <1>8, <1>9, <1>10

LEMMA JournalStep ==
  ASSUME TypeOK, Running, Alone, Latest, JournalInv, ~Overlap, [Next]_vars
  PROVE  JournalInv'
<1>1. position.attempt \in Nat /\ Attempts \subseteq Nat /\ 0 \notin Attempts
  BY BracketAssumption DEF TypeOK, Positions, Attempts, BracketAssumption
<1>2. ASSUME UNCHANGED <<position, journal>>,
             \A s \in Syncers : sync'[s].at = "journal" =>
               sync[s].at = "journal" /\ sync'[s].events = sync[s].events
      PROVE  JournalInv'
  BY <1>2 DEF JournalInv, EndedRight
<1>3. ASSUME NEW a \in Attempts, AppendSnapshot(a) PROVE JournalInv'
  <2>1. ExecStep(a) /\ step[a] = "snapshot" /\ position' = OpenPosition(a)
    BY <1>3 DEF ExecStep, Executing, AppendSnapshot
  <2>2. position.attempt < a /\ UNCHANGED journal /\ \A s \in Syncers : sync'[s] = NotSyncing
    BY <2>1, ExecStepIs, ExecStepAlone DEF Latest
  <2>3. /\ position'.attempt = a /\ position'.remaining = 2 /\ position'.status = "OPEN"
        /\ "OPEN" \notin Ends
    BY <2>1 DEF OpenPosition, Ends
  <2>4. \A b \in Attempts, kind \in EventKinds : journal[b][kind] = 1 => b < a
    <3>1. \A b \in Attempts, kind \in EventKinds : journal[b][kind] = 1 => b <= position.attempt
      BY DEF JournalInv
    <3>2. \A b \in Attempts : b <= position.attempt => b < a
      BY <1>1, <2>2
    <3> QED  BY <3>1, <3>2
  <2> QED  BY <1>1, <2>2, <2>3, <2>4, FreeIs DEF JournalInv, EndedRight
<1>4. ASSUME NEW s \in Syncers, Changed(s) PROVE JournalInv'
  <2>1. SyncStep(s) /\ UNCHANGED journal
    BY <1>4 DEF SyncStep, Syncing, Changed, ApplyLifecycle
  <2>2. \A t \in Syncers \ {s} : sync'[t].at = "idle"
    BY <2>1, SyncStepAlone, FreeIs
  <2>3. PICK kind \in EventKinds :
          /\ sync'[s].events = {kind}
          /\ journal[position.attempt][kind] = 0
          /\ \A k \in EventKinds :
               k = kind \/ journal[position.attempt][k] = 1 => position'.status \in Outcomes(k)
    BY <1>4, ChangedIs
  <2>4. /\ position.attempt \in Attempts /\ position'.attempt = position.attempt
        /\ position'.remaining = 0 /\ position'.status \in Ends
    BY <1>4, ChangedIs DEF Ends
  <2>5. \A t \in Syncers : sync'[t].at = "journal" => t = s
    BY <2>2
  <2>6. EndedRight(position)'
    BY <2>4 DEF EndedRight
  <2>7. \A a \in Attempts, k \in EventKinds :
          /\ journal'[a][k] \in {0, 1}
          /\ journal'[a][k] = 1 => a <= position'.attempt
          /\ journal'[a][k] = 1 /\ a = position'.attempt => position'.status \in Outcomes(k)
    BY <2>1, <2>3, <2>4 DEF JournalInv
  <2> QED  BY <2>1, <2>3, <2>4, <2>5, <2>6, <2>7 DEF JournalInv
<1>5. ASSUME NEW s \in Syncers, JournalEvents(s) PROVE JournalInv'
  <2>1. SyncStep(s) /\ UNCHANGED position
    BY <1>5 DEF SyncStep, Syncing, JournalEvents
  <2>2. \A t \in Syncers : sync'[t].at # "journal"
    BY <1>5, <2>1, SyncStepAlone, FreeIs, JournalEventsIs
  <2>3. sync[s].at = "journal" /\ sync[s].position = position
    BY <1>5, JournalEventsIs DEF Latest, SyncerLatest
  <2>4. \A a \in Attempts, kind \in EventKinds :
          journal'[a][kind] = IF a = position.attempt /\ kind \in sync[s].events
                              THEN journal[a][kind] + 1 ELSE journal[a][kind]
    BY <1>5, <2>3, JournalEventsIs
  <2>5. position.attempt \in Attempts /\ \A kind \in sync[s].events :
          journal[position.attempt][kind] = 0 /\ position.status \in Outcomes(kind)
    BY <2>3 DEF JournalInv
  <2>6. ASSUME NEW a \in Attempts, NEW kind \in EventKinds
        PROVE  /\ journal'[a][kind] \in {0, 1}
               /\ journal'[a][kind] = 1 => a <= position.attempt
               /\ journal'[a][kind] = 1 /\ a = position.attempt => position.status \in Outcomes(kind)
    <3>1. CASE a = position.attempt /\ kind \in sync[s].events
      BY <1>1, <2>4, <2>5, <3>1
    <3>2. CASE ~(a = position.attempt /\ kind \in sync[s].events)
      BY <2>4, <3>2 DEF JournalInv
    <3> QED  BY <3>1, <3>2
  <2>7. EndedRight(position)'
    BY <2>1 DEF JournalInv, EndedRight
  <2> QED  BY <2>1, <2>2, <2>6, <2>7 DEF JournalInv
<1>6. ASSUME UNCHANGED position, \A s \in Syncers : ~JournalEvents(s) PROVE JournalInv'
  <2>1. UNCHANGED journal
    <3>1. \A a \in Attempts : ExecStep(a) => UNCHANGED journal
      BY ExecStepIs
    <3>2. \A s \in Syncers : SyncStep(s) => UNCHANGED journal
      BY <1>6, SyncStepKeeps
    <3>3. StartExecution \/ Approve \/ Settle \/ Crash \/ UNCHANGED vars => UNCHANGED journal
      BY BeginIs, SettleIs, CrashIs DEF vars, files
    <3> QED  BY <3>1, <3>2, <3>3 DEF Next, ExecStep, SyncStep
  <2>2. CASE \E s \in Syncers : ApplyLifecycle(s) /\ sync'[s].at = "journal"
    <3>1. PICK s \in Syncers : ApplyLifecycle(s) /\ sync'[s].at = "journal"
      BY <2>2
    <3>2. sync[s].orders = records /\ sync[s].position = position
      BY <3>1, ApplyLifecycleIs DEF Latest, SyncerLatest
    <3>3. Changed(s)
      BY <3>1, <3>2, ApplyLifecycleIs DEF Changed
    <3> QED  BY <1>4, <3>3
  <2>3. CASE ~\E s \in Syncers : ApplyLifecycle(s) /\ sync'[s].at = "journal"
    <3>1. ASSUME NEW s \in Syncers, sync'[s].at = "journal"
          PROVE  sync'[s] = sync[s]
      <4>1. ASSUME NEW t \in Syncers, SyncStep(t) PROVE sync'[s] = sync[s]
        <5>1. CASE s # t
          BY <4>1, <5>1, SyncStepForms DEF Others
        <5>2. CASE s = t
          <6>1. \A orders \in RecordLists : PollOf(orders).at = "poll"
            BY PollOfTyped
          <6>2. ~BeginSync(s)
            BY <3>1, <6>1, BeginSyncIs, ViewsTyped DEF TypeOK, Running
          <6>3. ~StartPoller(s) /\ ~PollFails(s) /\ ~MarkSynced(s)
            BY <3>1, StartPollerIs, PollFailsIs, MarkSyncedIs, FreeIs
          <6>4. ~PollerCycle(s)
            BY <3>1, <6>1, PollerCycleIs, FreeIs, KeptPoller DEF Process
          <6>5. ~PollOrder(s) /\ ~StoreSynced(s) /\ ~LoadPosition(s) /\ ~JournalEvents(s)
            BY <3>1, PollOrderIs, StoreSyncedIs, LoadPositionIs, JournalEventsIs
          <6> QED  BY <2>3, <3>1, <4>1, <5>2, <6>2, <6>3, <6>4, <6>5 DEF SyncStep, Syncing
        <5> QED  BY <5>1, <5>2
      <4>2. \A a \in Attempts : ExecStep(a) => UNCHANGED sync
        BY ExecStepIs
      <4>3. StartExecution \/ Approve \/ Settle \/ UNCHANGED vars => UNCHANGED sync
        BY BeginIs, SettleIs DEF vars
      <4>4. Crash => sync'[s] = sync[s]
        BY <3>1, CrashIs, FreeIs
      <4> QED  BY <4>1, <4>2, <4>3, <4>4 DEF Next, ExecStep, SyncStep
    <3> QED  BY <1>2, <1>6, <2>1, <3>1
  <2> QED  BY <2>2, <2>3
<1> QED  BY <1>3, <1>4, <1>5, <1>6, PositionChange DEF JournalEvents

LEMMA JournalInit == Init => JournalInv
<1> SUFFICES ASSUME Init PROVE JournalInv
  OBVIOUS
<1>1. /\ journal = [a \in Attempts |-> [kind \in EventKinds |-> 0]]
      /\ position = NoPosition /\ \A s \in Syncers : sync[s] = NotSyncing
  BY DEF Init
<1>2. position.attempt = 0 /\ position.status \notin Ends
  BY <1>1 DEF NoPosition, Ends
<1> QED  BY <1>1, <1>2, FreeIs DEF JournalInv, EndedRight

(* With one command at a time, however often orders are polled, failed      *)
(* calls and crashes included, no lifecycle event of a position is          *)
(* journaled twice.                                                        *)
THEOREM EventsOnceAlways == ~Overlap /\ Spec => []EventsOnce
<1>1. JournalInv => EventsOnce
  BY DEF JournalInv, EventsOnce
<1>2. ASSUME ~Overlap PROVE Spec => []EventsOnce
  <2>1. TypeOK /\ Running /\ Alone /\ Latest /\ [Next]_vars => Alone' /\ Latest'
    BY <1>2, AloneStep, LatestStep
  <2>2. TypeOK /\ Running /\ Alone /\ Latest /\ JournalInv /\ [Next]_vars => JournalInv'
    BY <1>2, JournalStep
  <2> QED  BY <1>1, <2>1, <2>2, AloneInit, BaseInit, BaseStep, JournalInit, PTL DEF Spec
<1> QED  BY <1>2

(* What may become of a position that ended. *)
StaysClosed ==
  position.attempt = position'.attempt /\ position.attempt # 0 /\ position.remaining = 0
    => /\ position'.remaining = 0
       /\ \/ position'.status = position.status
          \/ position.status = "CANCELLED" /\ position'.status = "STOPPED"

LEMMA ClosedStep ==
  ASSUME TypeOK, Running, Latest, JournalInv, [Next]_vars
  PROVE  StaysClosed
<1>1. CASE UNCHANGED position
  BY <1>1 DEF StaysClosed
<1>2. ASSUME NEW a \in Attempts, AppendSnapshot(a) PROVE StaysClosed
  <2>1. position.attempt < a /\ position' = OpenPosition(a)
    BY <1>2 DEF AppendSnapshot, Latest
  <2>2. position'.attempt # position.attempt
    BY <2>1, BracketAssumption DEF OpenPosition, TypeOK, Positions, Attempts, BracketAssumption
  <2> QED  BY <2>2 DEF StaysClosed
<1>3. ASSUME NEW s \in Syncers, Changed(s), position.attempt # 0, position.remaining = 0
      PROVE  /\ position'.remaining = 0
             /\ position.status = "CANCELLED" /\ position'.status = "STOPPED"
  <2>1. position.status \in Ends
    BY <1>3 DEF JournalInv, EndedRight
  <2>2. ~CancelApplies(position, records.status) /\ ~Tp2Applies(position, records.status)
    BY <1>3, <2>1 DEF CancelApplies, Tp2Applies, Ends
  <2> QED  BY <1>3, <2>1, <2>2, ChangedIs DEF StopApplies, Ends
<1> QED  BY <1>1, <1>2, <1>3, PositionChange DEF StaysClosed

(* With one command at a time, a position that ended stays ended with its   *)
(* outcome, but for a cancelled entry that turns out as stopped.            *)
THEOREM ClosedForGood == ~Overlap /\ Spec => ClosedStaysClosed
<1>1. ASSUME ~Overlap PROVE Spec => [][StaysClosed]_vars
  <2>1. TypeOK /\ Running /\ Alone /\ Latest /\ [Next]_vars => Alone' /\ Latest'
    BY <1>1, AloneStep, LatestStep
  <2>2. TypeOK /\ Running /\ Alone /\ Latest /\ JournalInv /\ [Next]_vars => JournalInv'
    BY <1>1, JournalStep
  <2>3. TypeOK /\ Running /\ Latest /\ JournalInv /\ [Next]_vars => [StaysClosed]_vars
    BY ClosedStep
  <2> QED  BY <2>1, <2>2, <2>3, AloneInit, BaseInit, BaseStep, JournalInit, PTL DEF Spec
<1>2. ClosedStaysClosed <=> [][StaysClosed]_vars
  BY PTL DEF ClosedStaysClosed, StaysClosed
<1> QED  BY <1>1, <1>2

-----------------------------------------------------------------------------
(* The store holds complete brackets, while one command runs at a time. *)

Full(orders, ex) ==
  orders.attempt # 0 =>
    \A role \in RoleSet : orders.status[role] # "none" /\ ex[orders.attempt][role] # "none"

(* The records and the lists taken from them are brackets whose four orders *)
(* were all accepted, and the entry was answered when its records are made. *)
CompleteInv ==
  /\ Full(records, exchange)
  /\ \A s \in Syncers : Full(sync[s].orders, exchange) /\ Full(poller[s].orders, exchange)
  /\ \A a \in Attempts :
       step[a] \in (RoleSet \ {"entry"}) \cup {"snapshot", "store"} => answer[a] # "none"

LEMMA FullKept ==
  ASSUME TypeOK, Running, PlacedInOrder, [Next]_vars,
         NEW orders \in RecordLists, Full(orders, exchange)
  PROVE  Full(orders, exchange')
<1>1. orders.attempt # 0 => orders.attempt \in Attempts
  BY BracketAssumption DEF RecordLists, Attempts, BracketAssumption
<1> QED  BY <1>1, KeptStep DEF Full, OrdersKept

LEMMA AnsweredStep ==
  ASSUME TypeOK, Running, CompleteInv, [Next]_vars, NEW a \in Attempts,
         step'[a] \in (RoleSet \ {"entry"}) \cup {"snapshot", "store"}
  PROVE  answer'[a] # "none"
<1>1. step'[a] \notin {"idle", "leverage", "entry", "mark"}
  BY RolesAre
<1>2. CASE step'[a] = step[a] /\ answer'[a] = answer[a]
  BY <1>2 DEF CompleteInv
<1>3. CASE CallSucceeds(a)
  <2>1. PICK st \in Answers(a) :
          answer' = IF step[a] = "entry" THEN [answer EXCEPT ![a] = st] ELSE answer
    BY <1>3 DEF CallSucceeds
  <2>2. step[a] \in DOMAIN AfterCall /\ step'[a] = AfterCall[step[a]] /\ st # "none"
    BY <1>3 DEF CallSucceeds, Answers, TypeOK
  <2>3. CASE step[a] = "entry"
    BY <2>1, <2>2, <2>3 DEF TypeOK
  <2>4. CASE step[a] # "entry"
    <3>1. step[a] \in RoleSet \ {"entry"}
      BY <1>1, <2>2, <2>4, RolesAre DEF AfterCall
    <3> QED  BY <2>1, <2>4, <3>1 DEF CompleteInv
  <2> QED  BY <2>3, <2>4
<1>4. CASE AppendSnapshot(a)
  BY <1>4 DEF AppendSnapshot, CompleteInv
<1>5. StoreRecords(a) => step'[a] = "mark"
  BY DEF StoreRecords, TypeOK
<1>6. CallFails(a) \/ MarkExecuted(a) => step'[a] = "idle"
  BY DEF CallFails, MarkExecuted, TypeOK
<1>7. \A b \in Attempts \ {a} : ExecStep(b) => step'[a] = step[a] /\ answer'[a] = answer[a]
  BY ExecStepIs
<1>8. StartExecution \/ Approve => step'[a] \in {step[a], "leverage"} /\ answer'[a] = answer[a]
  BY BeginIs DEF TypeOK
<1>9. Crash => (step'[a] = step[a] /\ answer'[a] = answer[a]) \/ step'[a] = "idle"
  BY CrashIs
<1>10. Settle \/ UNCHANGED vars \/ (\E s \in Syncers : SyncStep(s)) => UNCHANGED <<answer, step>>
  BY SettleIs, SyncStepKeeps DEF vars, executor
<1> QED
  BY <1>1, <1>2, <1>3, <1>4, <1>5, <1>6, <1>7, <1>8, <1>9, <1>10
     DEF Next, ExecStep, Executing, SyncStep

LEMMA CompleteStep ==
  ASSUME TypeOK, Running, PlacedInOrder, CompleteInv, ~Overlap, [Next]_vars
  PROVE  CompleteInv'
<1>1. /\ Full(records, exchange')
      /\ \A s \in Syncers : Full(sync[s].orders, exchange') /\ Full(poller[s].orders, exchange')
  <2>1. records \in RecordLists
    BY DEF TypeOK
  <2>2. \A s \in Syncers : sync[s].orders \in RecordLists /\ poller[s].orders \in RecordLists
    BY KeptPoller DEF Syncer, Process
  <2> QED  BY <2>1, <2>2, FullKept DEF CompleteInv
<1>2. Full(NoRecords, exchange')
  BY DEF Full, NoRecords
<1>3. ASSUME NEW a \in Attempts, ExecStep(a)
      PROVE  /\ Full(records', exchange')
             /\ \A s \in Syncers : Full(sync'[s].orders, exchange') /\ Full(poller'[s].orders, exchange')
  <2>1. CASE StoreRecords(a)
    <3> DEFINE st == [[role \in RoleSet |-> "open"] EXCEPT !["entry"] = answer[a]]
    <3>1. UNCHANGED exchange /\ records' = [attempt |-> a, status |-> st] /\ step[a] = "store"
      BY <2>1 DEF StoreRecords
    <3>2. \A role \in RoleSet : exchange[a][role] # "none"
      BY <3>1, RolesAre DEF PlacedInOrder, ToPlace
    <3>3. \A role \in RoleSet : st[role] # "none"
      BY <3>1 DEF CompleteInv
    <3> HIDE DEF st
    <3>4. Full(records', exchange')
      BY <3>1, <3>2, <3>3 DEF Full
    <3> QED  BY <1>1, <1>3, <3>4, ExecStepIs
  <2> QED  BY <1>1, <1>3, <2>1, ExecStepIs
<1>4. ASSUME Crash
      PROVE  /\ Full(records', exchange')
             /\ \A s \in Syncers : Full(sync'[s].orders, exchange') /\ Full(poller'[s].orders, exchange')
  BY <1>1, <1>2, <1>4, CrashIs, FreeIs
<1>5. ASSUME NEW s \in Syncers, SyncStep(s)
      PROVE  /\ Full(records', exchange')
             /\ \A t \in Syncers : Full(sync'[t].orders, exchange') /\ Full(poller'[t].orders, exchange')
  <2>1. UNCHANGED exchange /\ records' \in {records, sync[s].orders}
    BY <1>5, SyncStepKeeps
  <2>2. \A orders \in Views : orders = records
    BY ViewsTyped DEF TypeOK, Running
  <2>3. PollOrder(s) => Full(sync'[s].orders, exchange')
    BY <2>1, PollOrderIs DEF Full, CompleteInv
  <2>4. Full(sync'[s].orders, exchange') /\ Full(poller'[s].orders, exchange')
    BY <1>1, <1>2, <1>5, <2>2, <2>3, ListsChange
  <2> QED  BY <1>1, <1>5, <2>1, <2>4, SyncStepForms DEF Others
<1>6. ASSUME StartExecution \/ Approve \/ Settle \/ UNCHANGED vars
      PROVE  /\ Full(records', exchange')
             /\ \A s \in Syncers : Full(sync'[s].orders, exchange') /\ Full(poller'[s].orders, exchange')
  <2>1. UNCHANGED <<records, sync, poller>>
    BY <1>6, BeginIs, SettleIs DEF vars, files
  <2> QED  BY <1>1, <2>1
<1>7. /\ Full(records', exchange')
      /\ \A s \in Syncers : Full(sync'[s].orders, exchange') /\ Full(poller'[s].orders, exchange')
  BY <1>1, <1>3, <1>4, <1>5, <1>6 DEF Next, ExecStep, SyncStep
<1> QED  BY <1>7, AnsweredStep DEF CompleteInv, Full

LEMMA CompleteInit == Init => CompleteInv
<1>1. NoRecords.attempt = 0
  BY DEF NoRecords
<1> QED  BY <1>1, FreeIs, RolesAre DEF Init, CompleteInv, Full

(* While nothing failed, an executed proposal has records, and so has a     *)
(* position whose execution has stored them.                               *)
Stored ==
  \/ status = "EXECUTED"
  \/ \E a \in Attempts : step[a] = "mark"
  \/ position.attempt # 0 /\ \A a \in Attempts : step[a] # "store"

StoredInv == faults = 0 /\ Stored => records.attempt # 0

LEMMA StoredStep ==
  ASSUME TypeOK, Running, Alone, Latest, StoredInv, ~Overlap, [Next]_vars
  PROVE  StoredInv'
<1>1. faults \in Nat
  BY BracketAssumption DEF TypeOK, BracketAssumption
<1>2. ASSUME faults' = faults, Stored' => Stored, records'.attempt = records.attempt
      PROVE  StoredInv'
  BY <1>2 DEF StoredInv
<1>3. CASE StartExecution \/ Approve
  <2>1. UNCHANGED <<faults, position, records>>
    BY <1>3, BeginIs DEF files
  <2>2. status' = "EXECUTED" => status = "EXECUTED"
    BY <1>3, BeginIs DEF Approved
  <2>3. \A a \in Attempts : step[a] = "idle" /\ step'[a] \in {"idle", "leverage"}
    BY <1>3, BeginIs DEF MayBegin, TypeOK
  <2> QED  BY <1>2, <2>1, <2>2, <2>3 DEF Stored
<1>4. ASSUME NEW a \in Attempts, StoreRecords(a) PROVE StoredInv'
  BY <1>4 DEF StoreRecords, StoredInv, Attempts
<1>5. ASSUME NEW a \in Attempts, CallFails(a) PROVE StoredInv'
  <2>1. faults' # 0
    BY <1>1, <1>5 DEF CallFails
  <2> QED  BY <2>1 DEF StoredInv
<1>6. ASSUME NEW a \in Attempts, CallSucceeds(a) \/ AppendSnapshot(a) \/ MarkExecuted(a)
      PROVE  StoredInv'
  <2>1. ExecStep(a) /\ UNCHANGED <<faults, records>>
    BY <1>6 DEF ExecStep, Executing, CallSucceeds, AppendSnapshot, MarkExecuted, files
  <2>2. \A b \in Attempts \ {a} : step[b] = "idle" /\ step'[b] = "idle"
    BY <2>1, ExecStepAlone
  <2>3. status' = "EXECUTED" => status = "EXECUTED" \/ step[a] = "mark"
    BY <1>6 DEF CallSucceeds, AppendSnapshot, MarkExecuted
  <2>4. step'[a] # "mark"
    BY <1>6, RolesAre DEF CallSucceeds, AppendSnapshot, MarkExecuted, AfterCall, TypeOK
  <2>5. \/ step'[a] = "store"
        \/ UNCHANGED position /\ step[a] # "store"
    BY <1>6, RolesAre DEF CallSucceeds, AppendSnapshot, MarkExecuted, AfterCall, TypeOK, files
  <2>6. Stored' => Stored
    BY <2>2, <2>3, <2>4, <2>5, Zenon DEF Stored
  <2> QED  BY <1>2, <2>1, <2>6
<1>7. CASE Settle \/ UNCHANGED vars
  BY <1>2, <1>7, SettleIs DEF vars, executor, files, Stored
<1>8. CASE Crash
  <2>1. faults' # 0
    BY <1>1, <1>8, CrashIs
  <2> QED  BY <2>1 DEF StoredInv
<1>9. ASSUME NEW s \in Syncers, SyncStep(s) PROVE StoredInv'
  <2>1. \A a \in Attempts : step[a] = "idle" /\ step'[a] = "idle"
    BY <1>9, SyncStepAlone
  <2>2. faults' = faults \/ faults' # 0
    BY <1>1, <1>9, SyncStepKeeps
  <2>3. records'.attempt = records.attempt
    BY <1>9, SyncStepKeeps, StoreSyncedIs DEF Latest, SyncerLatest
  <2>4. position'.attempt = position.attempt
    BY <1>9, SyncerLatestStep
  <2>5. status' = status \/ position.attempt # 0
    <3>1. CASE MarkSynced(s)
      BY <3>1, MarkSyncedIs DEF MarkSynced, Latest, SyncerLatest
    <3> QED  BY <1>9, <3>1, SyncStepKeeps
  <2>6. Stored' => Stored
    BY <2>1, <2>4, <2>5 DEF Stored
  <2> QED  BY <1>2, <2>2, <2>3, <2>6 DEF StoredInv
<1> QED
  BY <1>3, <1>4, <1>5, <1>6, <1>7, <1>8, <1>9 DEF Next, Executing, SyncStep

LEMMA StoredInit == Init => StoredInv
<1>1. NoPosition.attempt = 0
  BY DEF NoPosition
<1> QED  BY <1>1 DEF Init, StoredInv, Stored, Approved

(* With one command at a time, whatever fails or crashes, the store holds   *)
(* complete brackets only.                                                 *)
THEOREM RecordsCompleteAlways == ~Overlap /\ Spec => []RecordsAreComplete
<1>1. CompleteInv /\ StoredInv => RecordsAreComplete
  BY DEF CompleteInv, Full, StoredInv, Stored, RecordsAreComplete
<1>2. ASSUME ~Overlap PROVE Spec => []RecordsAreComplete
  <2>1. TypeOK /\ Running /\ PlacedInOrder /\ CompleteInv /\ [Next]_vars => CompleteInv'
    BY <1>2, CompleteStep
  <2>2. TypeOK /\ Running /\ Alone /\ Latest /\ [Next]_vars => Alone' /\ Latest'
    BY <1>2, AloneStep, LatestStep
  <2>3. TypeOK /\ Running /\ Alone /\ Latest /\ StoredInv /\ [Next]_vars => StoredInv'
    BY <1>2, StoredStep
  <2> QED
    BY <1>1, <2>1, <2>2, <2>3, AloneInit, BaseInit, BaseStep, CompleteInit, PlacedInOrderInit,
       PlacedInOrderStep, StoredInit, PTL DEF Spec
<1> QED  BY <1>2

-----------------------------------------------------------------------------
(* Why a position ended, while one command runs at a time. *)

(* If pos ended, the orders show the outcome it ended with. *)
Explains(orders, pos) ==
  pos.attempt # 0 /\ pos.remaining = 0 /\ orders.attempt # 0
    => \/ pos.status = "CANCELLED" /\ orders.status["entry"] = "cancelled"
       \/ pos.status = "STOPPED" /\ orders.status["stop_loss"] = "finished"
       \/ pos.status = "CLOSED" /\ orders.status["take_profit_2"] = "finished"

ExplainedInv ==
  /\ Explains(records, position)
  /\ \A s \in Syncers : sync[s].at = "poll" => Explains(sync[s].orders, position)

LEMMA ExplainedStep ==
  ASSUME TypeOK, Running, Alone, Latest, AheadInv, JournalInv, ExplainedInv, ~Overlap, [Next]_vars
  PROVE  ExplainedInv'
<1>1. \A pos : Explains(NoRecords, pos)
  BY DEF Explains, NoRecords
<1>2. ASSUME NEW a \in Attempts, ExecStep(a) PROVE ExplainedInv'
  <2>1. \A s \in Syncers : sync'[s].at # "poll"
    BY <1>2, ExecStepAlone, FreeIs
  <2>2. CASE AppendSnapshot(a)
    <3>1. position'.remaining # 0
      BY <2>2 DEF AppendSnapshot, OpenPosition
    <3> QED  BY <2>1, <3>1 DEF ExplainedInv, Explains
  <2>3. CASE StoreRecords(a)
    <3>1. UNCHANGED position /\ position.remaining # 0
      BY <2>3 DEF StoreRecords, Latest
    <3> QED  BY <2>1, <3>1 DEF ExplainedInv, Explains
  <2>4. CASE UNCHANGED <<records, position>>
    BY <2>1, <2>4 DEF ExplainedInv, Explains
  <2> QED  BY <1>2, <2>2, <2>3, <2>4, ExecStepIs
<1>3. ASSUME NEW s \in Syncers, SyncStep(s) PROVE ExplainedInv'
  <2>1. \A t \in Syncers \ {s} : sync'[t].at = "idle"
    BY <1>3, SyncStepAlone, FreeIs
  <2>2. Explains(records', position')
    <3>1. CASE Changed(s)
      <4>1. UNCHANGED records
        BY <3>1 DEF Changed, ApplyLifecycle
      <4> QED  BY <3>1, <4>1, ChangedIs DEF Explains, CancelApplies, StopApplies, Tp2Applies
    <3>2. CASE UNCHANGED position
      <4>1. StoreSynced(s) => Explains(sync[s].orders, position)
        BY StoreSyncedIs DEF ExplainedInv
      <4> QED  BY <1>3, <3>2, <4>1, SyncStepKeeps DEF ExplainedInv, Explains
    <3>3. UNCHANGED position \/ Changed(s)
      <4>1. ApplyLifecycle(s) => sync[s].orders = records /\ sync[s].position = position
        BY ApplyLifecycleIs DEF Latest, SyncerLatest
      <4> QED  BY <1>3, <4>1, ApplyLifecycleIs, SyncStepKeeps DEF Changed
    <3> QED  BY <3>1, <3>2, <3>3
  <2>3. ASSUME sync'[s].at = "poll" PROVE Explains(sync'[s].orders, position')
    <3>1. UNCHANGED position
      BY <1>3, <2>3, SyncStepKeeps, ApplyLifecycleIs
    <3>2. CASE BeginSync(s)
      <4>1. PICK orders \in Views : sync'[s] = PollOf(orders)
        BY <3>2, BeginSyncIs
      <4>2. sync'[s].orders = records
        BY <4>1, ViewsTyped, PollOfTyped DEF TypeOK, Running
      <4> QED  BY <3>1, <4>2 DEF ExplainedInv
    <3>3. CASE PollerCycle(s)
      <4>1. sync'[s] = PollOf(poller[s].orders) /\ poller[s].cycles > 0
              /\ poller[s].orders \in RecordLists
        BY <2>3, <3>3, PollerCycleIs, FreeIs, KeptPoller DEF Process
      <4>2. sync'[s].orders = records
        BY <4>1, PollOfTyped DEF Latest, SyncerLatest
      <4> QED  BY <3>1, <4>2 DEF ExplainedInv
    <3>4. CASE PollOrder(s)
      <4>1. Explains(sync[s].orders, position) /\ NeverAhead(sync[s].orders, exchange)
        BY <3>4, PollOrderIs DEF ExplainedInv, AheadInv
      <4>2. \A r \in RoleSet : sync[s].orders.status[r] \in Final
                               => sync'[s].orders.status[r] = sync[s].orders.status[r]
        <5>1. sync[s].orders.attempt # 0
          BY <3>4, PollOrderIs DEF Attempts
        <5> QED  BY <3>4, <4>1, <5>1, PollOrderIs DEF NeverAhead
      <4>3. sync'[s].orders.attempt = sync[s].orders.attempt
        BY <3>4, PollOrderIs
      <4> QED  BY <3>1, <4>1, <4>2, <4>3, RolesAre DEF Explains, Final
    <3>5. ~StartPoller(s) /\ ~PollFails(s) /\ ~MarkSynced(s)
      BY <2>3, StartPollerIs, PollFailsIs, MarkSyncedIs, FreeIs
    <3>6. ~StoreSynced(s) /\ ~LoadPosition(s) /\ ~ApplyLifecycle(s) /\ ~JournalEvents(s)
      BY <2>3, StoreSyncedIs, LoadPositionIs, ApplyLifecycleIs, JournalEventsIs
    <3> QED  BY <1>3, <3>2, <3>3, <3>4, <3>5, <3>6 DEF SyncStep, Syncing
  <2>4. \A t \in Syncers : sync'[t].at = "poll" => t = s
    BY <2>1
  <2> QED  BY <2>2, <2>3, <2>4 DEF ExplainedInv, Explains
<1>4. CASE Crash
  <2>1. /\ records' \in {records, NoRecords} /\ UNCHANGED position
        /\ \A s \in Syncers : sync'[s].at # "poll"
    BY <1>4, CrashIs, CrashAlone, FreeIs
  <2>2. Explains(records', position)
    BY <1>1, <2>1 DEF ExplainedInv
  <2> QED  BY <2>1, <2>2 DEF ExplainedInv, Explains
<1>5. CASE StartExecution \/ Approve \/ Settle \/ UNCHANGED vars
  <2>1. UNCHANGED <<records, position, sync>>
    BY <1>5, BeginIs, SettleIs DEF vars, files
  <2> QED  BY <2>1 DEF ExplainedInv, Explains
<1> QED  BY <1>2, <1>3, <1>4, <1>5 DEF Next, ExecStep, SyncStep

LEMMA ExplainedInit == Init => ExplainedInv
<1>1. NoPosition.attempt = 0
  BY DEF NoPosition
<1> QED  BY <1>1, FreeIs DEF Init, ExplainedInv, Explains

(* With one command at a time, whatever was synchronised, failed or crashed *)
(* before, an order left over by a position that ended is alerted, but for  *)
(* the first take profit whose stop was cancelled.                          *)
THEOREM LeftoversAlerted == ~Overlap /\ Spec => []LeftoverOrdersAlerted
<1>1. TypeOK /\ Running /\ CompleteInv /\ ExplainedInv => LeftoverOrdersAlerted
  <2> SUFFICES ASSUME TypeOK, Running, CompleteInv, ExplainedInv, position.attempt # 0,
                      position.remaining = 0,
                      NEW role \in RoleSet, records.status[role] = "open"
               PROVE  \/ PolicyAssessment # {}
                      \/ position.status = "CLOSED" /\ records.status["stop_loss"] = "cancelled"
    BY DEF LeftoverOrdersAlerted
  <2>1. records.attempt # 0
    BY DEF Running, Grounded, NoRecords, NoOrders
  <2>2. records.status["stop_loss"] \in {"open", "finished", "cancelled"}
    BY <2>1, RolesAre DEF TypeOK, CompleteInv, Full, RecordLists, OrderStatus
  <2>3. \/ records.status["entry"] = "cancelled"
        \/ records.status["stop_loss"] = "finished"
        \/ position.status = "CLOSED" /\ records.status["take_profit_2"] = "finished"
    BY <2>1 DEF ExplainedInv, Explains
  <2>4. /\ records.status["entry"] = "cancelled" => "entry_cancelled" \in PolicyAssessment
        /\ records.status["stop_loss"] = "finished" => "stop_triggered" \in PolicyAssessment
        /\ records.status["take_profit_2"] = "finished" /\ records.status["stop_loss"] = "open"
             => "leftover_stop" \in PolicyAssessment
    BY DEF PolicyAssessment, PolicyAlerts
  <2> QED  BY <2>2, <2>3, <2>4
<1>2. ASSUME ~Overlap PROVE Spec => []LeftoverOrdersAlerted
  <2>1. TypeOK /\ Running /\ Alone /\ Latest /\ [Next]_vars => Alone' /\ Latest'
    BY <1>2, AloneStep, LatestStep
  <2>2. TypeOK /\ Running /\ PlacedInOrder /\ CompleteInv /\ [Next]_vars => CompleteInv'
    BY <1>2, CompleteStep
  <2>3. TypeOK /\ Running /\ PlacedInOrder /\ AheadInv /\ [Next]_vars => AheadInv'
    BY AheadStep
  <2>4. TypeOK /\ Running /\ Alone /\ Latest /\ JournalInv /\ [Next]_vars => JournalInv'
    BY <1>2, JournalStep
  <2>5. TypeOK /\ Running /\ Alone /\ Latest /\ AheadInv /\ JournalInv /\ ExplainedInv /\ [Next]_vars
          => ExplainedInv'
    BY <1>2, ExplainedStep
  <2> QED
    BY <1>1, <2>1, <2>2, <2>3, <2>4, <2>5, AheadInit, AloneInit, BaseInit, BaseStep, CompleteInit,
       ExplainedInit, JournalInit, PlacedInOrderInit, PlacedInOrderStep, PTL DEF Spec
<1> QED  BY <1>2


===============================================================================
