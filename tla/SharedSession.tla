---------------------------- MODULE SharedSession ----------------------------
(***************************************************************************)
(* Several front ends of cex_tbot (REST server, Telegram runner, CLI) on    *)
(* one storage directory.  Each process keeps the proposals and the safety  *)
(* state in memory, refreshes them from the files when a request comes in,  *)
(* and then reads its memory and writes both: the proposal log row by row,  *)
(* the safety state as one whole file.  There is no lock.                   *)
(*                                                                         *)
(* One step is one access to a shared file, with the accesses to the        *)
(* memory of the process around it.  A request can be cut off anywhere by   *)
(* a crash of its process; one that cuts off the rewriting of a whole file  *)
(* leaves it truncated, and no process can load it any more.                *)
(***************************************************************************)
EXTENDS Integers, FiniteSets

CONSTANTS
  ProposalIds,    \* identifiers of proposals
  Requests,       \* requests being served, one after another each
  Processes,      \* operating system processes
  ProcessOf,      \* the process a request is served by
  Kinds,          \* the operations that come in
  SubmitStatuses, \* statuses a submitted proposal can carry
  MaxApprovals,   \* bound: APPROVE decisions explored per proposal, and as
                  \* many submissions that are already approved
  MaxCrashes      \* bound: crashes explored

AllKinds == {"SUBMIT", "APPROVE", "APPROVE_ONLY", "REJECT", "EXECUTE",
             "HALT", "UNHALT", "CLEAR_SAFETY"}

(* The statuses the handlers tell apart; any other one of the enumeration   *)
(* is to them what PENDING_APPROVAL is.                                    *)
Approved == "APPROVED_PENDING_EXECUTION_CHECK"
Statuses == {"NONE", "PENDING_APPROVAL", "REJECTED_BY_HUMAN", Approved,
             "EXECUTED", "REJECTED_PRE_EXECUTION"}

ASSUME SharedAssumption ==
  /\ ProcessOf \in [Requests -> Processes]
  /\ Kinds \subseteq AllKinds
  /\ SubmitStatuses \subseteq Statuses \ {"NONE"}
  /\ MaxApprovals \in Nat /\ MaxCrashes \in Nat

VARIABLES
  statusFile,   \* per proposal, the status in its last row of proposals.jsonl
  safetyFile,   \* system-state.json: its halt and block flags
  torn,         \* system-state.json was truncated and not written
  approvals,    \* per proposal, the APPROVE rows of decisions.jsonl
  opened,       \* per proposal, the POSITION_OPENED rows of the journal
  memory,       \* per process, the proposals and the safety state it holds
  pc, job,      \* per request, where its handler is and what it works on
  crashes,      \* number of crashes so far
  (* History, read by the properties alone. *)
  claims,       \* per proposal, its submissions that arrived approved
  quietHalt,    \* the standing halt came when no other request was running
  overlapped    \* a request has come in while another one was running

files == <<statusFile, safetyFile, torn, approvals, opened>>
history == <<claims, quietHalt, overlapped>>
vars == <<files, memory, pc, job, crashes, history>>

Safety == [halted : BOOLEAN, blocked : BOOLEAN]
Normal == [halted |-> FALSE, blocked |-> FALSE]
Halted == [halted |-> TRUE, blocked |-> TRUE]

NoJob == [kind |-> "NONE", p |-> "NONE"]

mine(r) == memory[ProcessOf[r]]

Init ==
  /\ statusFile = [p \in ProposalIds |-> "NONE"]
  /\ safetyFile = Normal /\ torn = FALSE
  /\ approvals = [p \in ProposalIds |-> 0]
  /\ opened = [p \in ProposalIds |-> 0]
  /\ memory = [x \in Processes |->
                 [status |-> [p \in ProposalIds |-> "NONE"], safety |-> Normal]]
  /\ pc = [r \in Requests |-> "idle"]
  /\ job = [r \in Requests |-> NoJob]
  /\ crashes = 0
  /\ claims = [p \in ProposalIds |-> 0]
  /\ quietHalt = FALSE
  /\ overlapped = FALSE

-----------------------------------------------------------------------------
(* Control of a request; between two requests there is no job. *)

Guarded == {"APPROVE", "APPROVE_ONLY", "REJECT", "EXECUTE"}

At(r, place) == pc[r] = place
Goto(r, place) ==
  /\ pc' = [pc EXCEPT ![r] = place]
  /\ job' = IF place = "idle" THEN [job EXCEPT ![r] = NoJob] ELSE job
Running(r, kinds) == At(r, "run") /\ job[r].kind \in kinds

(* The three ways to change what the process of r holds. *)
KeepMemory == UNCHANGED memory
HoldSafety(r, s) == memory' = [memory EXCEPT ![ProcessOf[r]].safety = s]
HoldStatus(r, s) == memory' = [memory EXCEPT ![ProcessOf[r]].status[job[r].p] = s]

(* _save: the file gets the whole safety state the process holds. *)
SaveSafety(r, s) ==
  /\ HoldSafety(r, s)
  /\ safetyFile' = s /\ torn' = FALSE
  /\ UNCHANGED <<statusFile, approvals, opened>>

(* update_status: a row with the new status is appended. *)
SaveStatus(r, s) ==
  /\ HoldStatus(r, s)
  /\ statusFile' = [statusFile EXCEPT ![job[r].p] = s]
  /\ UNCHANGED <<safetyFile, torn, approvals, opened>>

(* append_decision, for an APPROVE and for the rest. *)
AppendDecision(r) ==
  /\ approvals' = IF job[r].kind \in {"APPROVE", "APPROVE_ONLY"}
                  THEN [approvals EXCEPT ![job[r].p] = @ + 1] ELSE approvals
  /\ UNCHANGED <<statusFile, safetyFile, torn, opened>>
  /\ KeepMemory

-----------------------------------------------------------------------------
(* A request comes in and its process refreshes what it holds. *)

Arrive(r) ==
  /\ At(r, "idle")
  /\ \E kind \in Kinds, p \in ProposalIds :
       /\ kind \in {"APPROVE", "APPROVE_ONLY"} => approvals[p] < MaxApprovals
       /\ job' = [job EXCEPT ![r] = [kind |-> kind, p |-> p]]
  /\ pc' = [pc EXCEPT ![r] = "refreshProposals"]
  /\ overlapped' = (overlapped \/ \E other \in Requests \ {r} : ~At(other, "idle"))
  /\ UNCHANGED <<files, memory, crashes, claims, quietHalt>>

RefreshProposals(r) ==
  /\ At(r, "refreshProposals")
  /\ memory' = [memory EXCEPT ![ProcessOf[r]].status = statusFile]
  /\ Goto(r, "resetState")
  /\ UNCHANGED <<files, crashes, history>>

(* FileSystemState.refresh_from_disk sets every field to its default... *)
ResetState(r) ==
  /\ At(r, "resetState")
  /\ HoldSafety(r, Normal)
  /\ Goto(r, "loadState")
  /\ UNCHANGED <<files, crashes, history>>

(* Mutant of LoadState: the refresh does not read the file. *)
LoadStateSkipped(r) ==
  /\ At(r, "loadState")
  /\ ~torn
  /\ KeepMemory
  /\ Goto(r, "run")
  /\ UNCHANGED <<files, crashes, history>>

(* ... before it reads the file. *)
LoadState(r) ==
  /\ At(r, "loadState")
  /\ ~torn
  /\ HoldSafety(r, safetyFile)
  /\ Goto(r, "run")
  /\ UNCHANGED <<files, crashes, history>>

(* The request is about to rewrite system-state.json. *)
Saving(r) ==
  \/ Running(r, {"HALT", "UNHALT"})
  \/ Running(r, {"CLEAR_SAFETY"} \cup Guarded) /\ ~mine(r).safety.halted

(* A truncated file is no JSON: the refresh raises, and the request with    *)
(* it.  While another request rewrites the file, it can be truncated.       *)
LoadFails(r) ==
  /\ At(r, "loadState")
  /\ torn \/ \E other \in Requests : Saving(other)
  /\ Goto(r, "idle")
  /\ UNCHANGED <<files, memory, crashes, history>>

-----------------------------------------------------------------------------
(* The safety state. *)

Halt(r) ==
  /\ Running(r, {"HALT"})
  /\ SaveSafety(r, Halted)
  /\ Goto(r, "idle")
  /\ quietHalt' = \A other \in Requests \ {r} : At(other, "idle")
  /\ UNCHANGED <<crashes, claims, overlapped>>

Unhalt(r) ==
  /\ Running(r, {"UNHALT"})
  /\ SaveSafety(r, Normal)
  /\ Goto(r, "idle")
  /\ quietHalt' = FALSE
  /\ UNCHANGED <<crashes, claims, overlapped>>

(* clear_safety_controls: without a halt in memory, no block is left. *)
ClearSafety(r) ==
  /\ Running(r, {"CLEAR_SAFETY"})
  /\ IF mine(r).safety.halted THEN UNCHANGED <<files, memory>>
                              ELSE SaveSafety(r, Normal)
  /\ Goto(r, "idle")
  /\ UNCHANGED <<crashes, history>>

(* A halt the process holds in memory ends the request without a write. *)
RefuseHalted(r) ==
  /\ Running(r, Guarded)
  /\ mine(r).safety.halted
  /\ Goto(r, "idle")
  /\ UNCHANGED <<files, memory, crashes, history>>

(* Mutant of Evaluate: the halt held in memory is not looked at. *)
EvaluateHalted(r) ==
  /\ Running(r, Guarded)
  /\ \E breach \in BOOLEAN :
       /\ SaveSafety(r, [halted |-> mine(r).safety.halted, blocked |-> breach])
       /\ Goto(r, IF breach THEN "idle" ELSE "decide")
  /\ UNCHANGED <<crashes, history>>

(* SafetyController.evaluate without a halt: the portfolio of the request   *)
(* breaches a limit or not, and the state is written either way.            *)
Evaluate(r) ==
  /\ Running(r, Guarded)
  /\ ~mine(r).safety.halted
  /\ \E breach \in BOOLEAN :
       /\ SaveSafety(r, [halted |-> FALSE, blocked |-> breach])
       /\ Goto(r, IF breach THEN "idle" ELSE "decide")
  /\ UNCHANGED <<crashes, history>>

-----------------------------------------------------------------------------
(* Proposals. *)

(* A submission is stored with the status its payload carries. *)
Submit(r) ==
  /\ Running(r, {"SUBMIT"})
  /\ \E s \in SubmitStatuses :
       /\ s = Approved => claims[job[r].p] < MaxApprovals
       /\ SaveStatus(r, s)
       /\ claims' = IF s = Approved THEN [claims EXCEPT ![job[r].p] = @ + 1] ELSE claims
  /\ Goto(r, "idle")
  /\ UNCHANGED <<crashes, quietHalt, overlapped>>

(* The status of the proposal as the process of r has it. *)
seen(r) == mine(r).status[job[r].p]

(* require: an unknown identifier ends a decision, a status other than      *)
(* approved an execution.                                                  *)
GiveUp(r) ==
  /\ At(r, "decide")
  /\ IF job[r].kind = "EXECUTE" THEN seen(r) # Approved ELSE seen(r) = "NONE"
  /\ Goto(r, "idle")
  /\ UNCHANGED <<files, memory, crashes, history>>

(* APPROVE and REJECT append the decision; for an executed proposal an      *)
(* APPROVE that would execute does no more.                                *)
Decide(r) ==
  /\ At(r, "decide")
  /\ job[r].kind # "EXECUTE"
  /\ seen(r) # "NONE"
  /\ AppendDecision(r)
  /\ Goto(r, IF job[r].kind = "APPROVE" /\ seen(r) = "EXECUTED" THEN "idle" ELSE "mark")
  /\ UNCHANGED <<crashes, history>>

(* Mutant of MarkDecided: the command is stored in place of the status. *)
MarkDecidedRaw(r) ==
  /\ At(r, "mark")
  /\ SaveStatus(r, job[r].kind)
  /\ Goto(r, IF job[r].kind = "APPROVE" THEN "open" ELSE "idle")
  /\ UNCHANGED <<crashes, history>>

(* update_status with the status the decision leads to. *)
MarkDecided(r) ==
  /\ At(r, "mark")
  /\ SaveStatus(r, IF job[r].kind = "REJECT" THEN "REJECTED_BY_HUMAN" ELSE Approved)
  /\ Goto(r, IF job[r].kind = "APPROVE" THEN "open" ELSE "idle")
  /\ UNCHANGED <<crashes, history>>

(* Mutant of StartExecution: the status is not checked. *)
StartExecutionUnchecked(r) ==
  /\ At(r, "decide")
  /\ job[r].kind = "EXECUTE"
  /\ Goto(r, "open")
  /\ UNCHANGED <<files, memory, crashes, history>>

StartExecution(r) ==
  /\ At(r, "decide")
  /\ job[r].kind = "EXECUTE"
  /\ seen(r) = Approved
  /\ Goto(r, "open")
  /\ UNCHANGED <<files, memory, crashes, history>>

(* The pre-execution check passes and the journal gets POSITION_OPENED. *)
OpenPosition(r) ==
  /\ At(r, "open")
  /\ opened' = [opened EXCEPT ![job[r].p] = @ + 1]
  /\ Goto(r, "executed")
  /\ UNCHANGED <<statusFile, safetyFile, torn, approvals, memory, crashes, history>>

FailCheck(r) ==
  /\ At(r, "open")
  /\ SaveStatus(r, "REJECTED_PRE_EXECUTION")
  /\ Goto(r, "idle")
  /\ UNCHANGED <<crashes, history>>

(* Mutant of MarkExecuted: the execution is not stored. *)
MarkExecutedForgotten(r) ==
  /\ At(r, "executed")
  /\ Goto(r, "idle")
  /\ UNCHANGED <<files, memory, crashes, history>>

MarkExecuted(r) ==
  /\ At(r, "executed")
  /\ SaveStatus(r, "EXECUTED")
  /\ Goto(r, "idle")
  /\ UNCHANGED <<crashes, history>>

(* A process dies: its requests are cut off, one of them perhaps between    *)
(* the truncation of system-state.json and its writing.  What it held in    *)
(* memory does not matter any more, the next request reads the files.       *)
Crash(x) ==
  /\ crashes < MaxCrashes
  /\ crashes' = crashes + 1
  /\ pc' = [r \in Requests |-> IF ProcessOf[r] = x THEN "idle" ELSE pc[r]]
  /\ job' = [r \in Requests |-> IF ProcessOf[r] = x THEN NoJob ELSE job[r]]
  /\ \/ UNCHANGED <<safetyFile, torn>>
     \/ /\ \E r \in Requests : ProcessOf[r] = x /\ Saving(r)
        /\ safetyFile' = Normal /\ torn' = TRUE
  /\ UNCHANGED <<statusFile, approvals, opened, memory, history>>

Next ==
  \/ \E x \in Processes : Crash(x)
  \/ \E r \in Requests :
       \/ Arrive(r) \/ RefreshProposals(r) \/ ResetState(r) \/ LoadState(r)
       \/ LoadFails(r)
       \/ Halt(r) \/ Unhalt(r) \/ ClearSafety(r)
       \/ RefuseHalted(r) \/ Evaluate(r)
       \/ Submit(r) \/ GiveUp(r) \/ Decide(r) \/ MarkDecided(r)
       \/ StartExecution(r) \/ OpenPosition(r) \/ FailCheck(r) \/ MarkExecuted(r)

Spec == Init /\ [][Next]_vars

-----------------------------------------------------------------------------
(* Properties. *)

(* Type correctness of the files, of what the processes hold and of where   *)
(* the handlers are.                                                       *)
TypeOK ==
  /\ statusFile \in [ProposalIds -> Statuses]
  /\ safetyFile \in Safety /\ torn \in BOOLEAN
  /\ approvals \in [ProposalIds -> Nat]
  /\ opened \in [ProposalIds -> Nat]
  /\ memory \in [Processes -> [status : [ProposalIds -> Statuses], safety : Safety]]
  /\ pc \in [Requests -> {"idle", "refreshProposals", "resetState", "loadState",
                          "run", "decide", "mark", "open", "executed"}]
  /\ job \in [Requests -> [kind : Kinds, p : ProposalIds] \cup {NoJob}]
  /\ crashes \in 0..MaxCrashes
  /\ claims \in [ProposalIds -> Nat]
  /\ quietHalt \in BOOLEAN /\ overlapped \in BOOLEAN

(* Across processes and crashes, a position in the journal always has an    *)
(* APPROVE in the decision log, and so has a status that allows one: the    *)
(* decision row is written before the status row, and that one before the   *)
(* journal row.  The exception is a proposal that was submitted as already  *)
(* approved, which the store takes as it comes (proposal_files.py:34-37).   *)
NoOpeningWithoutApproval ==
  \A p \in ProposalIds :
    opened[p] > 0 \/ statusFile[p] = Approved => approvals[p] + claims[p] > 0

(* A halt that came when no request was running stands until UNHALT: no     *)
(* later evaluation or clearing in another process removes it from the      *)
(* file, although each of them rewrites the whole file, and a crash at most *)
(* makes the file unreadable.                                              *)
QuietHaltStays == quietHalt => safetyFile = Halted \/ torn

(* Under such a halt nothing is decided or opened by any process, also when *)
(* a crash has truncated the file that says so.                             *)
QuietHaltFreezes ==
  [][quietHalt => approvals' = approvals /\ opened' = opened]_vars

(* As long as no two requests have run at the same time, whatever process   *)
(* serves them, an approval (or a submission that arrived approved) opens   *)
(* one position, and a crash costs at most one more: the one whose status   *)
(* row it cut off.                                                         *)
OpeningsBoundedByCrashes ==
  ~overlapped =>
    \A p \in ProposalIds : opened[p] <= approvals[p] + claims[p] + crashes

-----------------------------------------------------------------------------
(* What the documents say and the code does not do. *)

(* "approve/execute paths are blocked" and "the system returns a blocked    *)
(* response instead of mutating trade state" (docs/WIKI.md:258-259): a      *)
(* halt is lifted by UNHALT alone.                                         *)
HaltEndsByUnhalt ==
  [][safetyFile.halted /\ ~safetyFile'.halted
       => \E r \in Requests : Running(r, {"UNHALT"}) /\ pc'[r] = "idle"]_vars

=============================================================================
