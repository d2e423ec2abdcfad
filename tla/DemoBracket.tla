----------------------------- MODULE DemoBracket -----------------------------
(***************************************************************************)
(* The execution of one proposal in gate_demo mode and the synchronisation  *)
(* that follows it: GateDemoExecutionAdapter places an entry order and its  *)
(* three protective orders on the exchange, call by call, and stores their  *)
(* records; sync_demo_orders polls the orders, replaces the records and     *)
(* applies what happened to the position.                                   *)
(*                                                                         *)
(* A call to the exchange may fail before or after it took effect, and the  *)
(* process may crash between any two steps.  The proposal can be approved   *)
(* and executed again: every execution is an attempt with orders and a      *)
(* position of its own.                                                    *)
(*                                                                         *)
(* An order is synchronised by a request (sync-demo, the REST cron route)   *)
(* or in the cycles of an autosync-demo process, which loads the files when  *)
(* it starts and works on that memory until it ends.                        *)
(*                                                                         *)
(* Either one command runs at a time, or, with Overlap, the threads of the   *)
(* REST server and the autosync-demo processes run side by side: the refresh *)
(* of a new request empties and reloads the records others are about to     *)
(* read, and the memory of a process grows stale.                           *)
(***************************************************************************)
EXTENDS Integers, FiniteSets

CONSTANTS
  Syncers,       \* requests and autosync-demo processes
  Overlap,       \* whether requests and processes overlap
  Cycles,        \* bound: --runs of an autosync-demo process
  Settling,      \* bound: <<role, final>>, what the exchange makes of open orders
  MaxAttempts,   \* bound: executions explored
  MaxFaults      \* bound: failed calls and crashes explored

ASSUME BracketAssumption ==
  /\ Overlap \in BOOLEAN
  /\ Cycles \in Nat /\ MaxAttempts \in Nat \ {0} /\ MaxFaults \in Nat
  /\ Settling \subseteq {"entry", "stop_loss", "take_profit_1", "take_profit_2"}
                    \X {"finished", "cancelled"}

VARIABLES
  status,      \* status of the proposal
  attempt,     \* executions begun so far
  step,        \* per attempt, what its execution does next, or "idle"
  answer,      \* per attempt, status of the entry in the answer that placed it
  broken,      \* attempts ended by a failed call or a crash
  faults,      \* failed calls and crashes so far
  exchange,    \* per attempt and role, the order as the exchange has it
  records,     \* the demo order file: the orders of one attempt
  position,    \* the latest PositionSnapshot of the state file
  journal,     \* per attempt, how often each lifecycle event was journaled
  sync,        \* per syncer, how far it is and the records and position it took
  poller       \* per syncer, the autosync-demo process it is: cycles left, memory

executor == <<attempt, step, answer, broken>>
files == <<records, position, journal>>
vars == <<status, executor, faults, exchange, files, sync, poller>>

Attempts == 1..MaxAttempts
Approved == "APPROVED_PENDING_EXECUTION_CHECK"

(* Roles in the order in which orders are placed, stored and polled. *)
Roles == <<"entry", "stop_loss", "take_profit_1", "take_profit_2">>
RoleSet == {Roles[i] : i \in 1..4}

OrderStatus == {"none", "open", "finished", "cancelled"}
NoOrders == [role \in RoleSet |-> "none"]
NoRecords == [attempt |-> 0, status |-> NoOrders]

(* Lifecycle events of a position; its remaining size in halves. *)
EventKinds == {"ENTRY_CANCELLED", "STOP_TRIGGERED_SYNC", "TP1_SYNC", "TP2_SYNC_FULL_CLOSE"}
NoPosition == [attempt |-> 0, status |-> "NONE", remaining |-> 0]
OpenPosition(a) == [attempt |-> a, status |-> "OPEN", remaining |-> 2]

RecordLists == [attempt : 0..MaxAttempts, status : [RoleSet -> OrderStatus]]
Positions ==
  [attempt : 0..MaxAttempts, remaining : 0..2,
   status : {"NONE", "OPEN", "PARTIALLY_CLOSED", "CLOSED", "STOPPED", "CANCELLED"}]

(* at: "poll" the next order, "load" the position, "apply" the lifecycle to *)
(* it, "journal" the events of that, "mark" the proposal.                   *)
NotSyncing ==
  [at |-> "idle", next |-> 1, orders |-> NoRecords, position |-> NoPosition, events |-> {}]
NoPoller == [cycles |-> 0, orders |-> NoRecords, position |-> NoPosition]

Init ==
  /\ status = Approved
  /\ attempt = 0
  /\ step = [a \in Attempts |-> "idle"] /\ answer = [a \in Attempts |-> "none"]
  /\ broken = {} /\ faults = 0
  /\ exchange = [a \in Attempts |-> NoOrders]
  /\ records = NoRecords
  /\ position = NoPosition
  /\ journal = [a \in Attempts |-> [kind \in EventKinds |-> 0]]
  /\ sync = [s \in Syncers |-> NotSyncing]
  /\ poller = [s \in Syncers |-> NoPoller]

(* A syncer that neither serves a request nor is a process. *)
Free(s) == sync[s] = NotSyncing /\ poller[s] = NoPoller

(* A command begins while another one runs only with Overlap. *)
MayBegin == Overlap \/ ((\A a \in Attempts : step[a] = "idle") /\ \A s \in Syncers : Free(s))

-----------------------------------------------------------------------------
(* The execution. *)

(* An APPROVE, whatever the status it finds; explored while executions are. *)
Approve ==
  /\ MayBegin /\ attempt < MaxAttempts
  /\ status' = Approved
  /\ UNCHANGED <<executor, faults, exchange, files, sync, poller>>

(* EXECUTE of an approved proposal, or the execution of its APPROVE: the    *)
(* pre-execution check rejects it or lets the calls begin.                 *)
StartExecution ==
  /\ MayBegin
  /\ status = Approved
  /\ attempt < MaxAttempts
  /\ \/ /\ attempt' = attempt + 1
        /\ step' = [step EXCEPT ![attempt + 1] = "leverage"]
        /\ UNCHANGED status
     \/ status' = "REJECTED_PRE_EXECUTION" /\ UNCHANGED <<attempt, step>>
  /\ UNCHANGED <<answer, broken, faults, exchange, files, sync, poller>>

(* Mutants of AfterCall: the last take profit or the stop is left out. *)
AfterCallShort ==
  [leverage |-> "entry", entry |-> "stop_loss", stop_loss |-> "take_profit_1",
   take_profit_1 |-> "snapshot", take_profit_2 |-> "snapshot"]
AfterCallNaked ==
  [leverage |-> "entry", entry |-> "take_profit_1", stop_loss |-> "take_profit_1",
   take_profit_1 |-> "take_profit_2", take_profit_2 |-> "snapshot"]

(* The order of the calls. *)
AfterCall ==
  [leverage |-> "entry", entry |-> "stop_loss", stop_loss |-> "take_profit_1",
   take_profit_1 |-> "take_profit_2", take_profit_2 |-> "snapshot"]

(* What a call does: the entry, an immediate-or-cancel order, may be final   *)
(* in the answer; setting the leverage places no order.                     *)
Answers(a) == IF step[a] = "entry" THEN {"open", "finished", "cancelled"} ELSE {"open"}
Placed(a, st) ==
  IF step[a] = "leverage" THEN exchange ELSE [exchange EXCEPT ![a][step[a]] = st]

CallSucceeds(a) ==
  /\ step[a] \in DOMAIN AfterCall
  /\ \E st \in Answers(a) :
       /\ exchange' = Placed(a, st)
       /\ answer' = IF step[a] = "entry" THEN [answer EXCEPT ![a] = st] ELSE answer
  /\ step' = [step EXCEPT ![a] = AfterCall[step[a]]]
  /\ UNCHANGED <<status, attempt, broken, faults, files, sync, poller>>

(* GateDemoTransportError, raised before the order was placed or after it:  *)
(* the exception leaves the execution and nothing is undone.               *)
CallFails(a) ==
  /\ step[a] \in DOMAIN AfterCall
  /\ faults < MaxFaults /\ faults' = faults + 1
  /\ exchange' \in {exchange} \cup {Placed(a, st) : st \in Answers(a)}
  /\ step' = [step EXCEPT ![a] = "idle"]
  /\ broken' = broken \cup {a} /\ answer' = [answer EXCEPT ![a] = "none"]
  /\ UNCHANGED <<status, attempt, files, sync, poller>>

AppendSnapshot(a) ==
  /\ step[a] = "snapshot"
  /\ position' = OpenPosition(a)
  /\ step' = [step EXCEPT ![a] = "store"]
  /\ UNCHANGED <<status, attempt, answer, broken, faults, exchange, records, journal, sync, poller>>

(* Mutant of StoreRecords: the entry counts as filled. *)
StoreRecordsFilled(a) ==
  /\ step[a] = "store"
  /\ records' = [attempt |-> a,
                 status |-> [[role \in RoleSet |-> "open"] EXCEPT !["entry"] = "finished"]]
  /\ step' = [step EXCEPT ![a] = "mark"] /\ answer' = [answer EXCEPT ![a] = "none"]
  /\ UNCHANGED <<status, attempt, broken, faults, exchange, position, journal, sync, poller>>

(* replace_for_proposal: the entry with the status of its placement, the    *)
(* protective orders as open.                                              *)
StoreRecords(a) ==
  /\ step[a] = "store"
  /\ records' = [attempt |-> a,
                 status |-> [[role \in RoleSet |-> "open"] EXCEPT !["entry"] = answer[a]]]
  /\ step' = [step EXCEPT ![a] = "mark"] /\ answer' = [answer EXCEPT ![a] = "none"]
  /\ UNCHANGED <<status, attempt, broken, faults, exchange, position, journal, sync, poller>>

MarkExecuted(a) ==
  /\ step[a] = "mark"
  /\ status' = "EXECUTED"
  /\ step' = [step EXCEPT ![a] = "idle"]
  /\ UNCHANGED <<attempt, answer, broken, faults, exchange, files, sync, poller>>

-----------------------------------------------------------------------------
(* The exchange: an open order is filled, triggered or cancelled. *)

Settle ==
  \E a \in Attempts, settled \in Settling :
    /\ exchange[a][settled[1]] = "open"
    /\ exchange' = [exchange EXCEPT ![a][settled[1]] = settled[2]]
    /\ UNCHANGED <<status, executor, faults, files, sync, poller>>

-----------------------------------------------------------------------------
(* Synchronisation. *)

IsOpen(orders) == \E role \in RoleSet : orders.status[role] = "open"
Count(orders) == Cardinality({role \in RoleSet : orders.status[role] # "none"})

(* The records while a refresh has reloaded n of them. *)
Reloaded(n) ==
  [records EXCEPT !.status = [i \in RoleSet |->
     IF \E k \in 1..n : Roles[k] = i THEN records.status[i] ELSE "none"]]

(* What a process reads of the records file. *)
Views == {records} \cup (IF Overlap THEN {Reloaded(n) : n \in 0..3} ELSE {})

PollOf(orders) == [NotSyncing EXCEPT !.at = "poll", !.orders = orders]

(* A request refreshes and takes the list of records, which may be empty;   *)
(* neither sync-demo nor the REST cron route asks whether one is open.      *)
BeginSync(s) ==
  /\ Free(s) /\ MayBegin
  /\ \E orders \in Views : sync' = [sync EXCEPT ![s] = PollOf(orders)]
  /\ UNCHANGED <<status, executor, faults, exchange, files, poller>>

(* autosync-demo starts: the app is built from the files, once. *)
StartPoller(s) ==
  /\ Free(s) /\ MayBegin
  /\ \E n \in 1..Cycles, orders \in Views :
       poller' = [poller EXCEPT ![s] =
                    [cycles |-> n, orders |-> orders, position |-> position]]
  /\ UNCHANGED <<status, executor, faults, exchange, files, sync>>

(* Memory m after a cycle; the process ends with the last one. *)
Cycled(m) == IF m.cycles <= 1 THEN NoPoller ELSE [m EXCEPT !.cycles = @ - 1]

(* A cycle of the process: only when a record it knows is open. *)
PollerCycle(s) ==
  /\ poller[s].cycles > 0 /\ sync[s] = NotSyncing
  /\ IF IsOpen(poller[s].orders)
     THEN sync' = [sync EXCEPT ![s] = PollOf(poller[s].orders)] /\ UNCHANGED poller
     ELSE poller' = [poller EXCEPT ![s] = Cycled(@)] /\ UNCHANGED sync
  /\ UNCHANGED <<status, executor, faults, exchange, files>>

(* Process s knows m from now on; a request keeps no memory. *)
Remembers(s, m) == poller' = IF poller[s].cycles > 0 THEN [poller EXCEPT ![s] = m] ELSE poller

(* The end of a synchronisation is the end of a cycle. *)
SyncEnds(s) ==
  /\ sync' = [sync EXCEPT ![s] = NotSyncing]
  /\ Remembers(s, Cycled(poller[s]))

Polling(s) == sync[s].at = "poll" /\ sync[s].next <= Count(sync[s].orders)

(* order_status of an entry, trigger_order_status of a protective order:    *)
(* what the exchange has of it.                                            *)
OrderStatusOf(a, role) == exchange[a][role]

(* One order of the list is asked for. *)
PollOrder(s) ==
  /\ Polling(s)
  /\ LET role == Roles[sync[s].next]
     IN  sync' = [sync EXCEPT
              ![s].next = @ + 1,
              ![s].orders.status[role] = OrderStatusOf(sync[s].orders.attempt, role)]
  /\ UNCHANGED <<status, executor, faults, exchange, files, poller>>

(* An exception of a poll ends the synchronisation without any write. *)
PollFails(s) ==
  /\ Polling(s)
  /\ faults < MaxFaults /\ faults' = faults + 1
  /\ SyncEnds(s)
  /\ UNCHANGED <<status, executor, exchange, files>>

(* Mutant of StoreSynced: the records are not replaced. *)
StoreSyncedNot(s) ==
  /\ sync[s].at = "poll" /\ ~Polling(s)
  /\ sync' = [sync EXCEPT ![s].at = "load"]
  /\ UNCHANGED <<status, executor, faults, exchange, files, poller>>

(* All orders answered: they replace the records of the proposal. *)
StoreSynced(s) ==
  /\ sync[s].at = "poll" /\ ~Polling(s)
  /\ records' = sync[s].orders
  /\ Remembers(s, [poller[s] EXCEPT !.orders = sync[s].orders])
  /\ sync' = [sync EXCEPT ![s].at = "load"]
  /\ UNCHANGED <<status, executor, faults, exchange, position, journal>>

(* The position is rebuilt from the latest snapshot, as a process knows it. *)
LoadPosition(s) ==
  /\ sync[s].at = "load"
  /\ LET taken == IF poller[s].cycles > 0 THEN poller[s].position ELSE position
     IN  sync' = [sync EXCEPT ![s].at = "apply", ![s].position = taken]
  /\ UNCHANGED <<status, executor, faults, exchange, files, poller>>

(* Mutants of StopApplies: to any position; only with a filled entry. *)
StopAppliesAlways(pos, st) == st["stop_loss"] = "finished"
StopAppliesFilled(pos, st) ==
  /\ st["stop_loss"] = "finished" /\ st["entry"] = "finished"
  /\ pos.status \notin {"STOPPED", "CLOSED"}

StopApplies(pos, st) ==
  st["stop_loss"] = "finished" /\ pos.status \notin {"STOPPED", "CLOSED"}

CancelApplies(pos, st) ==
  st["entry"] = "cancelled" /\ pos.status \notin {"CLOSED", "STOPPED", "CANCELLED"}

Tp1Applies(pos, st, tp1Hit) ==
  st["take_profit_1"] = "finished" /\ ~tp1Hit /\ pos.remaining > 0

(* Mutant of Tp2Applies: also to a position of no size. *)
Tp2AppliesAlways(pos, st) == st["take_profit_2"] = "finished"

Tp2Applies(pos, st) == st["take_profit_2"] = "finished" /\ pos.remaining > 0

(* DemoLifecycleSync.apply: the events it appends; a cancelled entry and a   *)
(* triggered stop come first and end it, the take profits may both apply.   *)
Events(pos, st, tp1Hit) ==
  IF pos.attempt = 0 THEN {}
  ELSE IF CancelApplies(pos, st) THEN {"ENTRY_CANCELLED"}
  ELSE IF StopApplies(pos, st) THEN {"STOP_TRIGGERED_SYNC"}
  ELSE {kind \in {"TP1_SYNC", "TP2_SYNC_FULL_CLOSE"} :
          \/ kind = "TP1_SYNC" /\ Tp1Applies(pos, st, tp1Hit)
          \/ kind = "TP2_SYNC_FULL_CLOSE" /\ Tp2Applies(pos, st)}

(* Mutant of Ended: the whole size is taken off what remains. *)
EndedBySize(pos, how) == [pos EXCEPT !.status = how, !.remaining = @ - 2]

Ended(pos, how) == [pos EXCEPT !.status = how, !.remaining = 0]

(* The position the events leave. *)
Lifecycle(pos, events) ==
  CASE "ENTRY_CANCELLED" \in events -> Ended(pos, "CANCELLED")
    [] "STOP_TRIGGERED_SYNC" \in events -> Ended(pos, "STOPPED")
    [] "TP2_SYNC_FULL_CLOSE" \in events -> Ended(pos, "CLOSED")
    [] events = {"TP1_SYNC"} -> [pos EXCEPT !.remaining = @ \div 2, !.status = "PARTIALLY_CLOSED"]
    [] OTHER -> pos

(* The lifecycle of the position it took, tp1_hit computed from the records *)
(* just polled: with an event, the new position is appended as a snapshot.  *)
ApplyLifecycle(s) ==
  /\ sync[s].at = "apply"
  /\ LET st == sync[s].orders.status
         events == Events(sync[s].position, st, st["take_profit_1"] = "finished")
         updated == Lifecycle(sync[s].position, events)
     IN  IF events = {}
         THEN sync' = [sync EXCEPT ![s].at = "mark"] /\ UNCHANGED <<position, poller>>
         ELSE /\ position' = updated
              /\ Remembers(s, [poller[s] EXCEPT !.position = updated])
              /\ sync' = [sync EXCEPT ![s].at = "journal", ![s].position = updated,
                                      ![s].events = events]
  /\ UNCHANGED <<status, executor, faults, exchange, records, journal>>

(* The events go to the journal after the snapshot. *)
JournalEvents(s) ==
  /\ sync[s].at = "journal"
  /\ journal' = [journal EXCEPT ![sync[s].position.attempt] =
                   [kind \in EventKinds |-> IF kind \in sync[s].events THEN @[kind] + 1 ELSE @[kind]]]
  /\ sync' = [sync EXCEPT ![s].at = "mark", ![s].events = {}]
  /\ UNCHANGED <<status, executor, faults, exchange, records, position, poller>>

(* An ended position marks its proposal as executed. *)
MarkSynced(s) ==
  /\ sync[s].at = "mark"
  /\ status' = IF sync[s].position.attempt # 0 /\ sync[s].position.remaining = 0
               THEN "EXECUTED" ELSE status
  /\ SyncEnds(s)
  /\ UNCHANGED <<executor, faults, exchange, files>>

-----------------------------------------------------------------------------
(* ConservativeDemoPolicy.assess: what the operator is asked to look at.    *)
(* The policy never acts on an order itself.                               *)

(* Mutant of PolicyAlerts: a leftover stop is expected to be gone. *)
PolicyAlertsNoStop(st) ==
  {alert \in {"entry_cancelled", "stop_triggered", "residual_tp2"} :
     \/ alert = "entry_cancelled" /\ st["entry"] = "cancelled"
     \/ alert = "stop_triggered" /\ st["stop_loss"] = "finished"
     \/ alert = "residual_tp2" /\ st["take_profit_1"] = "finished" /\ st["take_profit_2"] = "open"}

PolicyAlerts(st) ==
  {alert \in {"entry_cancelled", "stop_triggered", "residual_tp2", "leftover_stop"} :
     \/ alert = "entry_cancelled" /\ st["entry"] = "cancelled"
     \/ alert = "stop_triggered" /\ st["stop_loss"] = "finished"
     \/ alert = "residual_tp2" /\ st["take_profit_1"] = "finished" /\ st["take_profit_2"] = "open"
     \/ alert = "leftover_stop" /\ st["take_profit_2"] = "finished" /\ st["stop_loss"] = "open"}

(* get_demo_policy_assessment_payload: the policy over the stored records. *)
PolicyAssessment == PolicyAlerts(records.status)

-----------------------------------------------------------------------------
(* A process ends; the files and the orders on the exchange remain, but an  *)
(* order file that was just truncated to be rewritten is empty.  With it    *)
(* end the executions as and the syncers ss.                                *)
Storing(as, ss) ==
  \/ \E a \in as : step[a] = "store"
  \/ \E s \in ss : sync[s].at = "poll" /\ ~Polling(s)

Dies(as, ss) ==
  /\ (\E a \in as : step[a] # "idle") \/ (\E s \in ss : ~Free(s))
  /\ faults < MaxFaults /\ faults' = faults + 1
  /\ step' = [a \in Attempts |-> IF a \in as THEN "idle" ELSE step[a]]
  /\ answer' = [a \in Attempts |-> IF a \in as THEN "none" ELSE answer[a]]
  /\ broken' = broken \cup {a \in as : step[a] # "idle"}
  /\ sync' = [s \in Syncers |-> IF s \in ss THEN NotSyncing ELSE sync[s]]
  /\ poller' = [s \in Syncers |-> IF s \in ss THEN NoPoller ELSE poller[s]]
  /\ records' \in {records} \cup (IF Storing(as, ss) THEN {NoRecords} ELSE {})
  /\ UNCHANGED <<status, attempt, exchange, position, journal>>

(* Executions and requests share a process; autosync-demo is one by itself. *)
Crash ==
  \/ Dies(Attempts, {s \in Syncers : poller[s].cycles = 0})
  \/ \E s \in Syncers : poller[s].cycles > 0 /\ Dies({}, {s})

Executing(a) == CallSucceeds(a) \/ AppendSnapshot(a) \/ StoreRecords(a) \/ MarkExecuted(a)
Syncing(s) ==
  PollOrder(s) \/ StoreSynced(s) \/ LoadPosition(s) \/ ApplyLifecycle(s)
    \/ JournalEvents(s) \/ MarkSynced(s)

Next ==
  \/ Approve \/ StartExecution
  \/ \E a \in Attempts : Executing(a) \/ CallFails(a)
  \/ Settle
  \/ Crash
  \/ \E s \in Syncers :
       BeginSync(s) \/ StartPoller(s) \/ PollerCycle(s) \/ Syncing(s) \/ PollFails(s)

Spec == Init /\ [][Next]_vars

(* What runs goes on.  That autosync-demo is started again and again, each  *)
(* time for at most Cycles cycles, is not the code's doing: the repository  *)
(* leaves it to cron (scripts/autosync_and_send.py:15).  Requests,          *)
(* executions, the exchange and the faults, of which there are at most      *)
(* MaxFaults, are free.                                                    *)
FairSpec ==
  /\ Spec
  /\ \A a \in Attempts : WF_vars(Executing(a))
  /\ \A s \in Syncers :
       SF_vars(StartPoller(s)) /\ WF_vars(PollerCycle(s)) /\ WF_vars(Syncing(s))

-----------------------------------------------------------------------------
(* Properties. *)

(* Type correctness of the proposal, the orders, the records, the position  *)
(* and the syncers.                                                        *)
TypeOK ==
  /\ status \in {Approved, "EXECUTED", "REJECTED_PRE_EXECUTION"}
  /\ attempt \in 0..MaxAttempts
  /\ step \in [Attempts -> {"idle", "leverage", "snapshot", "store", "mark"} \cup RoleSet]
  /\ answer \in [Attempts -> OrderStatus]
  /\ broken \subseteq Attempts
  /\ faults \in 0..MaxFaults
  /\ exchange \in [Attempts -> [RoleSet -> OrderStatus]]
  /\ records \in RecordLists
  /\ position \in Positions
  /\ journal \in [Attempts -> [EventKinds -> Nat]]
  /\ sync \in [Syncers -> [at : {"idle", "poll", "load", "apply", "journal", "mark"}, next : 1..5,
                          orders : RecordLists, position : Positions,
                          events : SUBSET EventKinds]]
  /\ poller \in [Syncers -> [cycles : 0..Cycles, orders : RecordLists, position : Positions]]

(* Stored records are four, of an attempt whose entry, stop and both take   *)
(* profits the exchange all accepted: no failure or crash leaves a partial  *)
(* bracket in the store.  An executed proposal has its records, unless a    *)
(* crash emptied the file.                                                 *)
RecordsAreComplete ==
  /\ status = "EXECUTED" /\ faults = 0 => records.attempt # 0
  /\ records.attempt # 0 =>
       \A role \in RoleSet :
         records.status[role] # "none" /\ exchange[records.attempt][role] # "none"

(* A record, what a syncer is about to store and what a process remembers   *)
(* is never ahead of the exchange, even when requests and processes         *)
(* overlap: a final status in it is the final status of that order.        *)
RecordsNeverAhead ==
  \A orders \in {records} \cup {sync[s].orders : s \in Syncers} \cup {poller[s].orders : s \in Syncers} :
    \A role \in RoleSet :
      orders.attempt # 0 /\ orders.status[role] \in {"finished", "cancelled"}
        => exchange[orders.attempt][role] = orders.status[role]

(* With one command at a time, however often the orders are polled, and     *)
(* whatever failed in between, each lifecycle event of a position is        *)
(* journaled at most once.  (Two overlapping synchronisations journal twice *)
(* what both apply.)                                                       *)
EventsOnce == \A a \in Attempts, kind \in EventKinds : journal[a][kind] <= 1

(* A position that was reduced to nothing stays so and keeps its outcome,   *)
(* except that a cancelled entry can still turn out as stopped.             *)
ClosedStaysClosed ==
  [][position.attempt = position'.attempt /\ position.attempt # 0
       /\ position.remaining = 0
     => /\ position'.remaining = 0
        /\ \/ position'.status = position.status
           \/ position.status = "CANCELLED" /\ position'.status = "STOPPED"]_vars

(* A position that ended while the records still have an open protective    *)
(* order is one the operator is alerted of, whatever was synchronised,      *)
(* failed or crashed before: the only order left over in silence is a first *)
(* take profit whose stop was cancelled, when the second one closed the     *)
(* position.                                                               *)
LeftoverOrdersAlerted ==
  position.attempt # 0 /\ position.remaining = 0
    /\ (\E role \in RoleSet \ {"entry"} : records.status[role] = "open")
    => \/ PolicyAssessment # {}
       \/ position.status = "CLOSED" /\ records.status["stop_loss"] = "cancelled"

(* An entry order without its stop on the exchange belongs to the call that *)
(* is being made, or to an attempt a failure or a crash broke off.          *)
UnprotectedOnlyIfBroken ==
  \A a \in Attempts :
    exchange[a]["entry"] # "none" /\ exchange[a]["stop_loss"] = "none"
      => a \in broken \/ step[a] = "stop_loss"

(* As long as autosync-demo is started now and then, it catches up: an      *)
(* order of the stored attempt that is final on the exchange becomes final  *)
(* in its record, although a cycle that fails or is cut off stores nothing, *)
(* unless the records are replaced or lost.                                *)
PollerCatchesUp ==
  \A a \in Attempts, role \in {settled[1] : settled \in Settling} :
    (records.attempt = a /\ exchange[a][role] # "open")
      ~> (records.attempt # a \/ records.status[role] # "open")

(* No record is open and nobody synchronises: autosync-demo has nothing to  *)
(* do.                                                                     *)
NothingToPoll == ~IsOpen(records) /\ \A s \in Syncers : Free(s)

(* A stop that triggers ends its position, also when calls fail and         *)
(* processes crash on the way: a later process repairs it, unless the       *)
(* proposal is executed anew, its records are lost or a crash came after    *)
(* the last open record was stored.                                        *)
StopEndsPosition ==
  \A a \in Attempts :
    (records.attempt = a /\ exchange[a]["stop_loss"] = "finished")
      ~> \/ attempt # a \/ records.attempt # a
         \/ position.remaining = 0
         \/ faults > 0 /\ NothingToPoll

-----------------------------------------------------------------------------
(* What the documents say and the code does not do. *)

(* The poller "updates local position lifecycle state from synced order     *)
(* statuses" (README.md:399): a filled first take profit shows.             *)
FilledTp1Shows ==
  records.status["take_profit_1"] = "finished" /\ position.attempt = records.attempt
    /\ (\A s \in Syncers : Free(s))
    => position.status # "OPEN"

(* The position "state" is updated "from synced order statuses"             *)
(* (README.md:399), so also when a crash comes in between: a triggered stop *)
(* the records show ends its position, as long as autosync-demo is started  *)
(* now and then, unless the proposal is executed anew.                      *)
StoredStopEndsPosition ==
  \A a \in Attempts :
    (records.attempt = a /\ records.status["stop_loss"] = "finished")
      ~> (attempt # a \/ records.attempt # a \/ position.remaining = 0)

=============================================================================
