# A TLA+ model of cex_tbot

cex_tbot is a trading lab with a human in the loop: agents and a market data
flow submit trade proposals, an operator approves, modifies or rejects them over
REST, Telegram or the command line, and approved proposals are executed by a
paper simulator or on the Gate demo exchange. This directory models its state
machines in TLA+, checks them with TLC on small instances and proves the most
important properties with TLAPS for all instances.

Source paths below are relative to `src/cex_tbot/` of the repository unless
they say otherwise.

## 1. Inventory

| Component | State | Operations | Modelled by |
|---|---|---|---|
| Trading session core (`backend_service.py`, `approval_flow.py`, `handoff.py`, `workflow.py`, `operator_router.py`, `safety_controls.py`, `system_state.py`, `proposal_store.py`, `bootstrap.py`) | proposals with status and version, decisions, safety state, operator transcript | submit, APPROVE (with and without execution), REJECT, MODIFY, EXECUTE, halt, unhalt, clear, restart | `TradingSession` |
| Risk engine (`risk_engine.py`) | pending risk book (memory only) | evaluate, pre-execution check, reserve, release | `TradingSession` (book), `ProposalRules` (checks) |
| Files shared by processes (`storage/`) | `proposals.jsonl`, `decisions.jsonl`, `system-state.json`, journals | refresh at each request, append rows, rewrite whole files | `SharedSession` |
| Front ends (`rest_api.py`, `tg_runner.py`, `bot_adapter.py`, `bot_dispatcher.py`, `api_surface.py`, `__main__.py`) | one in-memory session per process, shared by the threads of the REST server | one request: refresh, handler, writes | `OperatorDesk` (what each may ask), `SharedSession` (processes), `DemoBracket` (threads) |
| Write arm (`write_safety.py`, `transport_bridge.py`) | armed sender and deadline | arm, disarm, expire, one armed write command | `WriteInterlock` |
| Gate demo execution (`execution/gate_demo_executor.py`, `gate_demo_sdk_client.py`) | orders on the exchange, order records, position snapshots | leverage, entry, stop, two take profits, store | `DemoBracket`; test orders in `WriteInterlock` |
| Demo order sync and policy (`backend_service.sync_demo_orders`, `execution/lifecycle.py`, `execution/demo_order_status_poller.py`, `execution/policy.py`) | order records, latest snapshot, lifecycle events | poll each order, replace the records, apply the lifecycle, assess | `DemoBracket` |
| Paper simulator (`simulator/`, `execution/orchestrator.py`) | position, fills, journal | check, open, fill per leg, stop, TP1, TP2 | `PaperTrade`, `PositionLifecycle` |
| Market pipeline (`market_pipeline.py`, `market_data/`) | universe file, one snapshot file per symbol | select, fetch, write, prune | `MarketPipeline` |
| Live market flow and runner (`live_market_flow.py`, `live_market_runner.py`) | emitted proposals | read snapshots, decide, submit | `LiveMarket`; the arithmetic of a proposal in `PaperTrade` |
| Periodic runner (`periodic_runner.py`) | counters of runs and failures | run once, count, stop at the failure threshold | `PeriodicRunner` |
| Universe (`universe/`) | whitelist, eligibility, snapshots | refresh, eligibility, expiry | `ProposalRules`, `PaperTrade` |
| Proposal contract (`decision_contracts/`, `proposal_json_parser.py`) | none | validate and map a payload | `ProposalRules` |
| Dashboard (`read_models.py`, `dashboard_models.py`, `session_summary.py`) | none | summary, risk widget, alerts | `Dashboard` |
| Reports, analysis, front end | none | render | not modelled |
| CLI, configuration | none of their own | parse, wire, print | the commands that change state, in `OperatorDesk` |

How they interact. A request reaches a process (REST server, Telegram runner,
CLI). The REST middleware and the Telegram runner first refresh every store from
the files. The handler calls `TradingBackendService`, which evaluates the stop
conditions with the portfolio the request reports, checks halt and block, and
then routes the command: the approval flow records a decision and a status, the
workflow revalidates a modification and moves its reservation, the handoff or
`execute_approved_proposal` runs the execution orchestrator, which opens a
simulated position or hands over to the Gate demo adapter. The stores write
through to files. `autosync-demo` and the sync routes later read the order
records, ask the exchange, and update records and position. Beside this,
`live-market-run` loops over a refresh of a market directory, reads it back,
decides on one proposal or a no-trade notice and submits it. Commands that place
or cancel orders by hand pass the one-shot arm of the transport bridge. The
dashboard computes what it shows from the stores on every request.

What is hard here:

* nothing locks: processes on one directory, and threads of one REST process,
  interleave refreshes, reads of memory and writes of files;
* the safety state is rewritten as a whole from memory, the risk book is never
  written;
* every command evaluates the safety state again with the portfolio its caller
  reports (Telegram reports zeros);
* commands do not look at the status they leave, so sequences of legal commands
  reach statuses again, and front ends put different content under one
  identifier;
* an execution on the exchange is five calls without an undo, and its result is
  written in three places; a crash or a failed call can come between any two;
* a market refresh replaces its files one by one while other processes look for
  them and then read them.

What makes each part correct: no position without an approval of its own, of
what is stored at that moment (session, storage, front ends); the halt freezes
trading whoever asks (session, storage); the audit trail tells the truth about
halt, block, test orders and positions (session, write arm, simulator); the risk
budget is kept (risk engine) and shown as it is (dashboard); the store holds
complete brackets only, a final order is applied to its position, once, and
what is left over is reported (Gate demo); a decision is made from the refresh
it belongs to, and the loop stops when, and only when, it should (live market).

## 2. Plan and order of the modules

In the order of their importance. All are written; section 6 says what was left
out of each and why.

1. `HumanGate`: the abstract promise, an APPROVE grants one opening and nothing
   is granted or used under the halt.
2. `TradingSession`: every handler of the backend as one action; implements
   `HumanGate`. Proofs in `TradingSession_proofs`.
3. `SharedSession`: the same handlers, one file access per step, for several
   processes and threads, with crashes. Proofs in `SharedSession_proofs`.
4. `DemoBracket`: execution on the exchange, synchronisation of orders, policy.
   Proofs in `DemoBracket_proofs`.
5. `OperatorDesk` extends `TradingSession`: who may send what through which
   front end. Proofs in `OperatorDesk_proofs`, among them that it implements
   `TradingSession`.
6. `WriteInterlock`: the arm and the write commands, call by call, in several
   threads. Proofs in `WriteInterlock_proofs`.
7. `ProposalRules`: the ordered checks of contract, validator, eligibility and
   risk engine as operators; `PaperTrade` extends it with the life of one
   proposal in the paper simulator and implements `PositionLifecycle`. Proofs
   in `PaperTrade_proofs`.
8. `MarketPipeline` and `PeriodicRunner`, composed by `LiveMarket`. Proofs in
   `LiveMarket_proofs`.
9. `Dashboard` extends `TradingSession`: what is shown of a session. Proofs in
   `Dashboard_proofs`.

`MCTradingSession`, `MCSharedSession`, `MCDemoBracket`, `MCOperator`,
`MCPaperTrade` and `MCLiveMarket` instantiate these for TLC.

## 3. Modules and the code

**`HumanGate`** has no counterpart in the code. It states what
`docs/WIKI.md` section 1 promises the operator.

**`TradingSession`**: `proposals` is the proposal store (a later version of an
identifier replaces the earlier one), `reserved` is `PendingRiskBook`, `safety`
is `SystemState`, `lastControl` the last entry of the operator transcript that
switches halt or block, `approvals` and `opened` count the APPROVE rows of the
decision log and the POSITION_OPENED rows of the journal. Each action is a
handler from the first check to the last write: `ApproveAndExecute`,
`ApproveOnly`, `ReapproveExecuted`, `Reject`, `Modify`, `ExecuteApproved`,
`SubmitProposal`, `ActivateHalt`, `ClearEmergencyHalt`, `ClearSafetyControls`,
`Restart`, and `Refused` and `Ineffective` for requests that only evaluate.
A request's portfolio, its clock (`timely`) and the price rules (`fits`) are
inputs. Percentages are integers in units of the smallest risk.

**`SharedSession`**: files (`statusFile`, `safetyFile`, `approvals`, `opened`),
what each process holds (`memory`), and per request a program counter. A step is
one access to a file. `ResetState` and `LoadState` are the two halves of
`FileSystemState.refresh_from_disk`. The map `ProcessOf` says which requests are
threads of one process. Appended rows are one write; `system-state.json` is
truncated and then written, so a crash may leave it `torn`, and a request that
refreshes then, or while another one writes, fails (`LoadFails`). A submission
is stored with the status of its payload (`SubmitStatuses`, any status), so it
may arrive approved; `claims` counts those. `quietHalt` and `overlapped` are
history for the properties: whether a standing halt came while no other request
ran, and whether two requests have ever run at the same time. MODIFY and the
risk book are left to `TradingSession`.

**`OperatorDesk`**: the actions of `TradingSession` as the front ends call them.
`serving` is the program that serves (programs that overlap are
`SharedSession`'s). The REST actions take portfolio, status, version and
replacement from the body; the topic actions report the all-zero portfolio,
need an allowed sender, and name a replacement `<<"p", 2>>` for `p_v2`; the
JSON messages and the CLI store everything as pending. `sanctioned` is a
history variable: what is stored under the identifier was approved, and the
approval neither used, withdrawn, nor given to an earlier content.

**`WriteInterlock`**: `armed` is the arm of `TransportCommandBridge`, `handling`
what each thread is doing with its write command, one call to the exchange or
one transcript entry per step. `BeginWrite` checks the arm and `FinishWrite`
clears it, as the bridge does: two threads can pass one arm, and an exception
(`WriteRaises`) leaves it. `guarded` is false for commands written with the name
of the bot, which the bridge does not recognise as write commands. `credit` and
`lost` are history variables.

**`DemoBracket`**: `exchange` holds the orders of each execution as the exchange
has them, `records` the stored ones, `position` the latest snapshot, `journal`
how often each lifecycle event of a position was appended. An execution's `step`
is the call it makes next; `CallFails` raises before or after the call took
effect. A syncer is a request (`sync-demo`, the REST routes) or an
`autosync-demo` process. A request takes the records from the files; a process
takes records and snapshot when it starts (`StartPoller`) and from then on works
on that memory (`poller`), in as many cycles as `--runs` gives it
(`PollerCycle`). A synchronisation polls the orders one by one, replaces the
records (`StoreSynced`), takes the position (`LoadPosition`), appends what
`DemoLifecycleSync` makes of it (`ApplyLifecycle`), then the events
(`JournalEvents`), and marks the proposal (`MarkSynced`). With `Overlap`, two
executions, requests and processes run side by side, and the list of records may
be one a refresh has half reloaded. A crash while records are stored can leave
the truncated file, without records; an `autosync-demo` process dies by itself.
`PolicyAssessment` is `ConservativeDemoPolicy` over the stored records. The
exchange itself is external: any open order may become finished or cancelled.

**`ProposalRules`** lists the checks of each rule set in the order of the code
and answers the reason of the first that fails: `ContractAccepts` (the JSON
contract), `Constructible` (constructors), `EvaluateInstrument` and
`SymbolEligibility` (universe), `ValidatorReason` (`ProposalValidator`),
`EvaluateChecks` and `PreExecutionReason` (risk engine). Averages are multiplied
out, so every comparison is one of integers.

**`PaperTrade`**: one proposal, from a JSON payload (`SubmitJson`) or priced from
a market quote by `_build_proposal` (`SubmitLive`), through APPROVE with or
without execution and EXECUTE (`Approve`, `Execute`), again after a rejection, an
exception or an execution, to market ticks (`MarketTick`). A proposal that is
approved again opens further positions: the model follows one, whichever
(`Opened`), and `journal` holds the kinds of its execution events. The risk
percent of a live proposal is the configured one (`DefaultRisk`), its risk in
dollars always 5. Fractions that cancel raise the ZeroDivisionError of the
average entry, which leaves the proposal approved.
Prices of live proposals are in 1/800 cent, which makes the terms of the code's
formulas whole. One unit of time is 15 minutes, the life of a live proposal.

**`MarketPipeline`** and **`LiveMarket`**: `universe` and `snapshots` are the
files of the market directory, `refresh` and `reading` the local variables of
each process's `run_once` and `decide`, `pc` its next step. A step is one file
replaced, unlinked, looked for or read. A symbol's market is one of the kinds
the decision tells apart. `PeriodicRunner` gives the counters of the loop around
it, which has a number of runs, or none (`NotGiven`, the code's `None`); the
threshold for failures is optional in the same way. `stored` is what each loop
submitted. `touched` is a history variable: the files other processes changed during a
process's run.

**`Dashboard`**: `Summary`, `RiskWidget` and `Alerts` are computed from the
variables of `TradingSession`, as `build_dashboard` computes them from the
stores; it has no state of its own.

## 4. Runs

Passing runs:

| Run | Instance | What it shows |
|---|---|---|
| `session` | two interchangeable identifiers, risks 2 and 4 of 5, four portfolios (one of negative open risk), versions to 2, two approvals in all | `SafetyCoherent`, `AuditReplaysSafety`, `ReservedWithinBudget`, `OpenedByApproval`, `HaltFreezesTrading`, `ExhaustedBudgetFreezes`; `HumanGateSpec`: the session implements `HumanGate`; `DashboardTellsSession`: alerts, free budget and executions shown are those the session goes by |
| `two_processes` | REST and Telegram processes with one request each, one proposal, one approval, one submission that arrives approved, one crash | `NoOpeningWithoutApproval`, `QuietHaltStays`, `QuietHaltFreezes`; `OpeningsBoundedByCrashes` over the behaviours in which no two requests have overlapped |
| `operator` | the three programs, a proposal and its replacement, two operators and an agent; two threads, two writers, two test orders | `OpensWhatWasApproved` over all front ends; `WritesWithinArms`, `PlacementsAudited`, `CancellationsAreFinal` for the write commands |
| `bracket` | two executions, synchronisations and `autosync-demo` processes, one command at a time, one fault, fair | `RecordsAreComplete`, `UnprotectedOnlyIfBroken`, `EventsOnce`, `LeftoverOrdersAlerted`, `ClosedStaysClosed`; `PollerCatchesUp`, `StopEndsPosition` as long as `autosync-demo` is started now and then |
| `bracket_overlap` | two executions that may overlap, two synchronisations or `autosync-demo` processes beside them, no fault | `RecordsNeverAhead`, `UnprotectedOnlyIfBroken` |
| `paper_trade` | 6912 payloads (3888 pass the contract), of which the sides, legs, stop, targets, both risks, size and expiry vary, some legs with negative or cancelling shares; live quotes from one cent up; five equities with two reserved risks; two executions | `JournalTellsPosition`, `ValidatedLadderInOrder`, `LiveProposalsPassValidator`, `LiveOpensOnlyAtItsEquity`; `LifecycleSpec`: a simulated position implements `PositionLifecycle` |
| `market` | two processes over one directory, a loop without a number of runs (two explored) and a single run, two symbols, one fault, fair | `RefreshInstalled`, `AloneDecides`, `FreshProposals`, `LoopAccounts`, `LoopsEnd` |

Runs that must find a violation, each of something a document or a test of the
repository says:

| Run | Property | What happens |
|---|---|---|
| `reapprove` | `ReapproveKeepsExecuted` | APPROVE without execution moves an executed proposal back to approved; EXECUTE opens a second position |
| `lost_halt` | `HaltEndsByUnhalt` | a command that refreshed before the halt was written overwrites it with its own evaluation |
| `repeat_emission` | `NothingRepeated` | two runs of a loop over an unchanged market submit the same proposal: the runner has no cooldown, which `tests/test_live_market_runner.py:131` builds it with |
| `bracket_lost_stop` | `StoredStopEndsPosition` | a crash after the final records are stored and before the position is updated: `autosync-demo` never looks again |
| `bracket_tp1` | `FilledTp1Shows` | `tp1_hit` is computed from the records just polled, so a filled first take profit is never applied |

### Other divergences the modelling showed

Without a run of their own; where a property would be broken by one, its
statement names the exception.

Session and storage:

* A proposal submitted with the status APPROVED_PENDING_EXECUTION_CHECK is
  executed without an APPROVE; the REST mapper takes any status (`rest_api.py`).
  `TradingSession`'s and `OperatorDesk`'s statements about approvals are for
  submissions that are not approved already; `SharedSession`'s count those that
  are (`claims`).
* A replacement of MODIFY overwrites whatever bears its identifier, also at the
  same version; the reservation of a replacement outlives its rejection or
  execution.
* Two processes that read one approval both execute it.
* A REST thread that evaluates while another request's refresh has reset the
  safety state writes the file without the halt.

Write commands:

* The arm does not cover commands addressed to the bot by name
  (`/demo_smoke@bot`): the bridge compares the word as written
  (`transport_bridge.py:73`), the dispatcher strips the name, though a test is
  called `bridge_requires_arm_for_demo_write_actions`
  (`tests/test_transport_bridge.py:76`). `WritesWithinArms` is about the plainly
  written ones.
* Two threads of the REST server pass one arm, and an exception leaves it armed.
  The halt does not stop test orders. The arm is per process.

Demo orders:

* After a crash between the snapshot and the records of a second execution, the
  orders of the first one end the position of the second.
* The policy is silent on a first take profit left over after its stop was
  cancelled (`LeftoverOrdersAlerted` names this case).
* Two overlapping synchronisations that took the same position both append its
  event (`lifecycle.py:51`); two threads that read one approval both execute it
  on the exchange. `EventsOnce` is about one command at a time.
* An `autosync-demo` process of several runs never reads the files again
  (`__main__.py:645`): it does not see what others executed or synchronised
  since it started, and each of its cycles writes its older records back.
* After `bracket_lost_stop`'s crash, a synchronisation asked for by name
  (`sync-demo`, the REST routes) does repair the position, since these do not
  look for open records first.
* The REST cron route uses a name `rest_api.py` never imports (`rest_api.py:498`,
  `:520`): the first trade with an alert raises after it was synchronised, and the
  trades after it are not.

Market and simulator:

* `RefreshInstalled` and `FreshProposals` say when a snapshot may be
  an old one: a selected symbol without a book ticker keeps its file, and
  `data_freshness_ms` is 0 all the same.
* `risk_usd` of a live proposal is always 5 while its risk percent is the
  configured one: with the default of 0.5 its execution is refused at an equity
  below about 833.33 or above 1250 dollars (`LiveOpensOnlyAtItsEquity` gives the
  bounds for every configuration).
* Prices are floored at one cent: a cheap coin gets a flattened ladder that
  `ProposalValidator` would refuse (`LiveProposalsPassValidator` names the case).
  No production path calls the validator.
* Legs are filled at their planned prices, whatever the market price and
  `valid_until`. A payload of size 0 gives an OPEN position that holds nothing.
  `process_market_tick` is called by tests and library users only.
* `live-market-run` goes on after a reported failure whether or not
  `--continue-on-error` is given (help text at `__main__.py:200`), because the
  runner reports failures instead of raising them.
* `market-sync` is parsed but has no branch in `main`.

Dashboard:

* `active_risk` counts an executed trade for ever, so the budget shown shrinks
  below what the risk engine still grants; it counts a replacement's reservation
  twice once it is approved. It errs on the safe side only, which is what
  `ShownBudgetIsFree` states.
* `build_app` makes two universe repositories (`bootstrap.py:123`, `:154`), so
  the dashboard never sees a refresh.

### Bounds

`MaxVersion`, `MaxApprovals`, `MaxCrashes`, `MaxAttempts`, `MaxFaults`, `MaxRuns`,
`MaxOrders`, `MaxClock`, `Cycles` (the runs of an `autosync-demo` process) and
`Settling` (which orders the exchange settles, and how) bound what is explored;
they are guards of the actions they belong to. Two identifiers suffice for everything that relates a proposal to its
replacement, including chains that reuse an identifier. Two approvals show a
re-approval after an execution. Two requests in flight show every lost update
between a read and a write; a third adds no new pair. `two_processes` has a VIEW,
which leaves out what a process holds that has no request beyond its refresh:
the next request overwrites it before it reads it. Two executions are needed
for the records of one to meet the snapshot of the other. In `bracket` the stop
and the second take profit may trigger, the two orders that end a position, and
the others stay open, so there is always something to poll; in
`bracket_lost_stop` all four settle in every way. One cycle per process is the
default of `--runs`; the liveness properties also hold with two, over one
execution and everything the exchange may do (131 509 states). `bracket_overlap`
settles the stop only and has no faults, so that an entry without its stop can
only come from the order of the calls; its CONSTRAINT leaves out two syncers
beside two executions, and its VIEW the journal, which no step reads and none of
its properties speaks of. `operator` has two threads because the arm
is passed by as many as there are, two writers because one may clear the arm of
the other. Its two halves share no variable and no property, so each behaviour
exercises one of them. `paper_trade` has payloads on both sides of the
checks of stop, targets, size, split, risk in dollars and expiry, with one and two
legs, and equities on both sides of both bounds of the tolerance; confidence,
risk percent, freshness and zone of a payload are the same for all, and so are
drawdown, open risk and positions of a portfolio (the limits on these are
`TradingSession`'s subject). The clock reaches the expiry of every
proposal. In `market`, two runs of the first process reach the threshold
`StopAfter` or do not, and a second process at any point of a run is what makes a file
vanish between a look and a read; one fault is a failed call, a failed write or
a crash, at any step.

Deadlock is checked in `session`, `two_processes`, `operator`, the `bracket` runs
and the violation runs of these. It is not in `paper_trade` (the clock and the
attempts are bounded) and in `market` (the loops end).

### Fairness

`DemoBracket.FairSpec` assumes that what runs goes on: an execution, a
synchronisation, the cycles of an `autosync-demo` process (weak fairness of
`Executing`, `Syncing`, `PollerCycle`). The code ends a process after its
`--runs` cycles, one by default, so nothing else follows from the code alone.
That the process is started again and again (strong fairness of `StartPoller`,
since other commands may be running whenever it could start) is an assumption on
the deployment: the repository leaves it to cron, `scripts/autosync_and_send.py:15`
starts one run and the main README gives that command. (The two scripts pass a
storage directory of their own, `.runtime/cron-autosync`; the assumption needs
the directory of the session.) New executions, requests, the exchange and the
faults are not fair: an order may stay open for ever. Faults are finite, at most
`MaxFaults`: with a crash in every cycle nothing catches up.

`LiveMarket.FairSpec` assumes that the operating system runs every live process
(weak fairness of `Proceed` per process). Failed fetches and writes and crashes
are not fair. `LoopsEnd` needs nothing more: every run comes to its end, and a loop that
has a number of runs ends with the last one. A loop without one goes on for
ever, unless its runs fail.

## 5. Proofs

`TradingSession_proofs` proves, for all sets of identifiers, risks, portfolios
and all limits that satisfy `ConstantsAssumption`:

| Theorem | Statement |
|---|---|
| `TypeCorrect` | `Spec => []TypeOK` |
| `SafetyAlwaysCoherent` | `Spec => []SafetyCoherent` |
| `AuditAlwaysReplays` | `Spec => []AuditReplaysSafety` |
| `HaltFreezes` | `Spec => HaltFreezesTrading` |
| `ReservedAlwaysWithinBudget` | `Spec => []ReservedWithinBudget`, for finitely many identifiers |
| `ExhaustedFreezes` | `Spec => ExhaustedBudgetFreezes`, for finitely many identifiers |
| `OpeningsApproved` | `Spec => []OpenedByApproval`, if no proposal is submitted as approved |
| `ImplementsHumanGate` | `Spec => HumanGateSpec`, under the same hypothesis |

The argument. `TypeOK` is inductive by itself, once the lemmas on the mutators
of `SystemState` say what each one returns. `SafetyCoherent` and
`AuditReplaysSafety` each need the type of the safety state: a mutator that
leaves a field alone relies on what an earlier one wrote there, so the two are
carried through `EvaluateStopConditions`, which composes up to three mutators
and is part of every command. `OpenedByApproval` is its own strengthening: it
counts a proposal that waits for EXECUTE as an opening to come, which is exactly
what makes the step of `ExecuteApproved` go through. `ImplementsHumanGate` uses
it to show that an opening without a new approval still finds an unused one, and
`HaltFreezesTrading`'s argument for the brake.

The budget is a sum over all identifiers, which the model takes with a fold. The
library's induction over finite sets cannot be instantiated by the installed
provers, so the lemmas on sums argue by a smallest counterexample instead: a set
of identifiers for which the fold's equation fails has one of least cardinality.
From the equation follow the bounds a MODIFY needs: moving a reservation adds at
most the risk the engine has just accepted against the same sum.

`SharedSession_proofs` proves, for any number of processes, requests, proposals
and crashes:

| Theorem | Statement |
|---|---|
| `TypeCorrect` | `Spec => []TypeOK` |
| `ApprovalsAlways` | `Spec => []NoOpeningWithoutApproval` |
| `QuietHaltStaysAlways` | `Spec => []QuietHaltStays`, if each process serves one request at a time |
| `QuietHaltFreezesAlways` | `Spec => QuietHaltFreezes`, under the same hypothesis |
| `OpeningsBounded` | `Spec => []OpeningsBoundedByCrashes`; the property itself speaks of the behaviours in which no two requests have overlapped |

None of these is inductive. `TypeOK` needs that a running request has a proposal
(`JobsRunning`). `NoOpeningWithoutApproval` speaks of the files only, while a
request acts on what its process holds and on what it has written so far:
`ApprovalInv` adds that every status held in a memory is backed by an APPROVE, or
by a submission that came approved, as well, and every request between two of
its rows. `QuietHaltStays` needs to know
where the requests are: `HaltInv` says that each is still before its load of the
safety state, or holds the halt (`Harmless`). The hypothesis `OneRequestEach` is
what makes this stable: in the REST server, a thread that resets the shared
safety state takes away the halt another thread has just loaded. Both invariants
hold in the instance of `two_processes`. `CrashInv`, behind `OpeningsBounded`,
says which approvals still look unused (`Unused`): those that wait for EXECUTE in
the file while no request is about to rewrite their status, and those a request
has recorded but not yet marked. Openings and unused approvals together stay
within approvals, claims and crashes; only a crash after the row of the journal
makes an approval look unused again. Once two requests have run at the same time
the bound is false (two processes that read one approval both execute it), which
is why the property is about the behaviours before that.

`WriteInterlock_proofs` proves, for any finite set of threads, any senders and
any number of test orders:

| Theorem | Statement |
|---|---|
| `WriteTypeCorrect` | `WriteSpec => []WriteTypeOK` |
| `ArmsBoundWrites` | `WriteSpec => []WritesWithinArms` |
| `PlacementsAccounted` | `WriteSpec => []PlacementsAudited` |
| `CancellationsFinal` | `WriteSpec => []CancellationsAreFinal` |

`WritesWithinArms` says that the credit of a sender never goes below zero; what
carries it is `ArmCovers`: the credit covers the guarded writes a sender has
dispatched, and while its arm stands, one for each thread. A write that passes
the arm is then covered by the thread it takes, and one that finishes gives both
back. The counting of threads uses the library's facts on finite sets.
`PlacementsAudited` is inductive given that a thread with a reply in its hand is
counted once, and `CancellationsAreFinal` given the types.

`OperatorDesk_proofs` proves, for any portfolios, senders and identifiers:

| Theorem | Statement |
|---|---|
| `DeskIsSession` | `DeskSpec => Spec`: the front ends do nothing a session does not do |
| `DeskOpensWhatWasApproved` | `DeskSpec => OpensWhatWasApproved`, if no proposal is submitted as approved |

The first makes every theorem of `TradingSession_proofs` one about the front
ends. The second rests on an invariant that ties the history to the store: what
waits for EXECUTE is sanctioned.

`Dashboard_proofs` proves:

| Theorem | Statement |
|---|---|
| `SafetyAlwaysShown` | `Spec => []SafetyShown`: the first part of `DashboardTellsSession`, without a hypothesis |
| `DashboardAlwaysTells` | `Spec => []DashboardTellsSession`, for finitely many identifiers and limits above zero, if none is submitted as executed |

The first follows from `SafetyAlwaysCoherent`: the alert codes are chosen by the
text of a reason another module wrote, and coherence says which texts can be
there. The rest needs that every reservation is of a stored proposal
(`ReservationsKnown`) and that what is stored as executed was opened
(`ExecutedOpened`), and that the risk the dashboard adds up from the statuses is
never below the reservations: then a risk it shows as free is one the engine
grants a clean portfolio. With a limit of zero the engine refuses everything
while the dashboard shows no alert, hence the hypothesis.

`PaperTrade_proofs` proves, for any payloads, quotes, portfolios and prices of
the types in `InputsTyped`:

| Theorem | Statement |
|---|---|
| `JournalAlwaysTells` | `Spec => []JournalTellsPosition` |
| `ImplementsLifecycle` | `Spec => LifecycleSpec`, if no payload has a negative size or share |
| `ValidatedLadderAlwaysInOrder` | `Spec => []ValidatedLadderInOrder` |
| `LiveAlwaysPassesValidator` | `Spec => []LiveProposalsPassValidator`, if an entry of the universe is valid as long as a proposal and the configured risk is positive |
| `LiveAlwaysOpensAtItsEquity` | `Spec => []LiveOpensOnlyAtItsEquity` |

`InputsTyped` says that prices, risks and shares are integers of the model's
scales and that sizes are whole eighths, so that a quarter of a size and its half
are whole, as halves are for the code's decimals; `paper_trade`'s instance
satisfies it. A proposal has one or two legs, so the
folds over the legs are unfolded twice, whichever leg the library's fold picks
first, and `FilledIs` says what they give: an open position of an even size. A
list of checks answers "OK" exactly when none fails (`FirstFailureOK`), which
turns `ProposalValidator` into the conjunction of its conditions
(`ValidatorOK`). Four invariants carry the theorems. `OfferInv` says that a live
offer is what `_build_proposal` made of some quote, its status apart; the two
statements about live proposals are then arithmetic. `JournalInv` counts the
events by kind and ties them to the shape of the position (`Shape`: open with
all its size, halved, or ended with none). `SizeInv` keeps amounts from being
negative, and `OrderInv` says that a position which ended at its second target
without the first had its targets the wrong way round. The contract does not
look at the sign of `position_size` and `size_fraction`, and the execution does
not validate: with a payload of a negative size the position does not implement
`PositionLifecycle`, so the hypothesis is not one of the proof only.

`LiveMarket_proofs` proves, for any number of processes, symbols and runs, any
answers of the exchange, any faults:

| Theorem | Statement |
|---|---|
| `TypeCorrect` | `Spec => []TypeOK` |
| `RefreshAlwaysInstalled` | `Spec => []RefreshInstalled` |
| `AloneAlwaysDecides` | `Spec => []AloneDecides` |
| `ProposalsAlwaysFresh` | `Spec => []FreshProposals` |
| `LoopAlwaysAccounts` | `Spec => []LoopAccounts` |

`DirectoryInv` is, for each process, what its run has done so far: what it
planned to write (`Planned`), what it has written (`Installed`), what it read
back (`ReadBack`) and decided (`Decided`), each but for the files in `touched`.
Each part is kept by the steps of its own process (`OwnStep`) and by every other
one's, which change no local variable of it and add to its `touched` whatever
they change in the directory (`OthersLeftAlone`, `LocalKept`). `LoopInv` ties the
counters of a loop to the history of its outcomes, with the length of the last
streak of failures. Both hold in the instance of `market`.


`DemoBracket_proofs` proves, for any number of syncers, executions, cycles, failed
calls and crashes, and whatever the exchange makes of the orders:

| Theorem | Statement |
|---|---|
| `TypeCorrect` | `Spec => []TypeOK` |
| `Protected` | `Spec => []UnprotectedOnlyIfBroken` |
| `NeverAheadAlways` | `Spec => []RecordsNeverAhead` |
| `EventsOnceAlways` | `Spec => []EventsOnce`, if commands do not overlap |
| `RecordsCompleteAlways` | `Spec => []RecordsAreComplete`, under the same hypothesis |
| `ClosedForGood` | `Spec => ClosedStaysClosed`, under the same hypothesis |
| `LeftoversAlerted` | `Spec => []LeftoverOrdersAlerted`, under the same hypothesis |

The hypothesis is `~Overlap`, the instance of the run `bracket`. With overlapping
commands these four are false of the code: the refresh window hands a request a
part of the records, two synchronisations that took the same position both
append its event to the journal, and an autosync-demo process applies and writes
back records that are older than the stored ones.

`Running` says what is always so: what runs belongs to an attempt that has begun,
a syncer at rest holds nothing, and the lists syncers and processes hold are of
such attempts. `PlacedInOrder` says which orders a running execution has still to
place; with it no step takes an accepted order away or changes a final one
(`KeptStep`), which carries `AheadInv`: the records, the lists of the syncers, the
memories of the processes and the answers of the entries are never ahead.

With one command at a time, `Alone` says that at most one execution or syncer is
under way, and `Latest` and `SyncerLatest` that what it took, or what a process
remembers, is still what is stored. `JournalInv` then counts: an event is
journaled at most once, and an event that is journaled, or about to be, can still
be read from the status of its position (`Outcomes`), so the guards of the
lifecycle do not let it apply again. `CompleteInv` adds the lists the syncers
hold to the stored ones, and `ExplainedInv` that an ended position always has its
reason in the records: `LeftoverOrdersAlerted` then only has to look at the four
alerts.

Model-checked only:

* all liveness (`PollerCatchesUp`, `StopEndsPosition`, `LoopsEnd`): it rests on
  fairness, hence on `ENABLED`, which is out of the reach of the proof system.

Every other property of the passing runs is stated by a theorem. The hypotheses
some of them have are those of the tables above.

## 6. Not modelled, and why

* Reports, post-trade analysis, serializers, review cards, web schemas and the
  front end render stored state and keep none.
* Of the dashboard: lists, filters, averages, operator activity and the universe
  widget. They relate nothing to what the session does.
* HTTP clients and the normalisation of market data (`market_data/`) are I/O and
  conversion of units. The ranking by volume or liquidity is a free choice of
  the model, which includes the one the code makes.
* The pnl, fees and average entry of simulated positions: sums of decimals that
  no guard reads. The stop loss of a position is not realised in its pnl.
* The universe's snapshot repository and its refresh policy, since no decision on
  a proposal reads them.
* The demo order file with several proposals, and the temporary files a crash
  leaves behind beside an atomically replaced one.
* Rounding of contracts in the demo executor: with one contract both take
  profits ask for at least one, reduce-only, so the exchange decides.
* Parsing and printing of the command line, the waiting time and the printed
  summary of the periodic runner, message texts.
