------------------------ MODULE SharedSession_proofs ------------------------
(***************************************************************************)
(* Theorems about SharedSession, for any number of processes, requests and  *)
(* crashes.                                                                *)
(***************************************************************************)
EXTENDS SharedSession, TLAPS

Jobs == [kind : Kinds, p : ProposalIds]
Places == {"idle", "refreshProposals", "resetState", "loadState",
           "run", "decide", "mark", "open", "executed"}

(* A running request works on a proposal. *)
JobsRunning == \A r \in Requests : pc[r] # "idle" => job[r] \in Jobs

TypeInv == TypeOK /\ JobsRunning

-----------------------------------------------------------------------------
(* Types, by the operators the actions are made of. *)

(* Control goes on to a place of the handler, with the job it has. *)
LEMMA GotoType ==
  ASSUME TypeInv, NEW r \in Requests, NEW place \in Places,
         pc[r] # "idle", Goto(r, place)
  PROVE  /\ pc' \in [Requests -> Places]
         /\ job' \in [Requests -> Jobs \cup {NoJob}]
         /\ JobsRunning'
BY DEF TypeInv, TypeOK, JobsRunning, Goto, Jobs, Places

LEMMA HoldSafetyType ==
  ASSUME TypeInv, NEW r \in Requests, NEW s \in Safety, HoldSafety(r, s)
  PROVE  memory' \in [Processes -> [status : [ProposalIds -> Statuses], safety : Safety]]
BY DEF TypeInv, TypeOK, HoldSafety

LEMMA HoldStatusType ==
  ASSUME TypeInv, NEW r \in Requests, pc[r] # "idle",
         NEW s \in Statuses, HoldStatus(r, s)
  PROVE  memory' \in [Processes -> [status : [ProposalIds -> Statuses], safety : Safety]]
BY ZenonT(60) DEF TypeInv, TypeOK, JobsRunning, Jobs, HoldStatus

FilesTypeOK ==
  /\ statusFile \in [ProposalIds -> Statuses]
  /\ safetyFile \in Safety /\ torn \in BOOLEAN
  /\ approvals \in [ProposalIds -> Nat]
  /\ opened \in [ProposalIds -> Nat]

HistoryTypeOK ==
  claims \in [ProposalIds -> Nat] /\ quietHalt \in BOOLEAN /\ overlapped \in BOOLEAN

MemoryTypeOK ==
  memory \in [Processes -> [status : [ProposalIds -> Statuses], safety : Safety]]

LEMMA SaveSafetyType ==
  ASSUME TypeInv, NEW r \in Requests, NEW s \in Safety, SaveSafety(r, s)
  PROVE  FilesTypeOK' /\ MemoryTypeOK'
BY HoldSafetyType DEF SaveSafety, FilesTypeOK, MemoryTypeOK, TypeInv, TypeOK

LEMMA SaveStatusType ==
  ASSUME TypeInv, NEW r \in Requests, pc[r] # "idle",
         NEW s \in Statuses, SaveStatus(r, s)
  PROVE  FilesTypeOK' /\ MemoryTypeOK'
BY HoldStatusType DEF SaveStatus, FilesTypeOK, MemoryTypeOK, TypeInv, TypeOK,
                      JobsRunning, Jobs

-----------------------------------------------------------------------------
(* Every step preserves the types. *)

LEMMA TypeInit == Init => TypeInv
<1> SUFFICES ASSUME Init PROVE TypeInv
  OBVIOUS
<1>1. "NONE" \in Statuses /\ Normal \in Safety
  BY DEF Statuses, Normal, Safety
<1>2. /\ statusFile \in [ProposalIds -> Statuses]
      /\ safetyFile \in Safety /\ torn \in BOOLEAN
      /\ approvals \in [ProposalIds -> Nat]
      /\ opened \in [ProposalIds -> Nat]
  BY <1>1 DEF Init
<1>3. memory \in [Processes -> [status : [ProposalIds -> Statuses], safety : Safety]]
  BY <1>1 DEF Init
<1>4. /\ pc \in [Requests -> Places]
      /\ job \in [Requests -> Jobs \cup {NoJob}]
      /\ JobsRunning
  BY DEF Init, Places, JobsRunning
<1>5. crashes \in 0..MaxCrashes
  BY SharedAssumption DEF Init, SharedAssumption
<1>6. claims \in [ProposalIds -> Nat] /\ quietHalt \in BOOLEAN /\ overlapped \in BOOLEAN
  BY DEF Init
<1> QED  BY <1>2, <1>3, <1>4, <1>5, <1>6 DEF TypeInv, TypeOK, Places, Jobs

LEMMA TypeStep == TypeInv /\ [Next]_vars => TypeInv'
<1> SUFFICES ASSUME TypeInv, [Next]_vars PROVE TypeInv'
  OBVIOUS
<1>1. ASSUME FilesTypeOK', MemoryTypeOK', JobsRunning',
             pc' \in [Requests -> Places],
             job' \in [Requests -> Jobs \cup {NoJob}],
             crashes' \in 0..MaxCrashes, HistoryTypeOK'
      PROVE  TypeInv'
  BY <1>1 DEF TypeInv, TypeOK, FilesTypeOK, MemoryTypeOK, HistoryTypeOK, Places, Jobs
<1>2. /\ FilesTypeOK /\ MemoryTypeOK /\ JobsRunning
      /\ pc \in [Requests -> Places]
      /\ job \in [Requests -> Jobs \cup {NoJob}]
      /\ crashes \in 0..MaxCrashes /\ HistoryTypeOK
      /\ UNCHANGED history => HistoryTypeOK'
  BY DEF TypeInv, TypeOK, FilesTypeOK, MemoryTypeOK, HistoryTypeOK, history, Places, Jobs
<1>3. /\ Normal \in Safety /\ Halted \in Safety
      /\ \A b, c \in BOOLEAN : [halted |-> b, blocked |-> c] \in Safety
  BY DEF Safety, Normal, Halted
<1>4. {"PENDING_APPROVAL", "REJECTED_BY_HUMAN", Approved,
       "EXECUTED", "REJECTED_PRE_EXECUTION"} \subseteq Statuses
  BY DEF Statuses
<1>5. CASE UNCHANGED vars
  BY <1>1, <1>2, <1>5 DEF vars, files, FilesTypeOK, MemoryTypeOK, JobsRunning
<1>6. ASSUME NEW x \in Processes, Crash(x) PROVE TypeInv'
  <2>1. FilesTypeOK'
    BY <1>2, <1>3, <1>6 DEF Crash, FilesTypeOK
  <2>2. MemoryTypeOK'
    BY <1>2, <1>6 DEF Crash, MemoryTypeOK
  <2>3. /\ pc' \in [Requests -> Places]
        /\ job' \in [Requests -> Jobs \cup {NoJob}]
        /\ JobsRunning'
    BY <1>2, <1>6 DEF Crash, JobsRunning, Places
  <2>4. crashes' \in 0..MaxCrashes
    BY <1>2, <1>6, SharedAssumption DEF Crash, SharedAssumption
  <2>5. HistoryTypeOK'
    BY <1>2, <1>6 DEF Crash
  <2> QED  BY <1>1, <2>1, <2>2, <2>3, <2>4, <2>5
<1>7. ASSUME NEW r \in Requests, Arrive(r) PROVE TypeInv'
  <2>1. FilesTypeOK' /\ MemoryTypeOK'
    BY <1>2, <1>7 DEF Arrive, files, FilesTypeOK, MemoryTypeOK
  <2>2. /\ pc' \in [Requests -> Places]
        /\ job' \in [Requests -> Jobs \cup {NoJob}]
        /\ JobsRunning'
    BY <1>2, <1>7 DEF Arrive, JobsRunning, Places, Jobs, At
  <2>3. HistoryTypeOK'
    BY <1>2, <1>7 DEF Arrive, HistoryTypeOK
  <2> QED  BY <1>1, <1>2, <1>7, <2>1, <2>2, <2>3 DEF Arrive
<1>8. ASSUME NEW r \in Requests, RefreshProposals(r) PROVE TypeInv'
  <2>1. FilesTypeOK'
    BY <1>2, <1>8 DEF RefreshProposals, files, FilesTypeOK
  <2>2. MemoryTypeOK'
    BY <1>2, <1>8 DEF RefreshProposals, MemoryTypeOK, FilesTypeOK
  <2> QED
    BY <1>1, <1>2, <1>8, <2>1, <2>2, GotoType DEF RefreshProposals, At, Places
<1>9. ASSUME NEW r \in Requests, ResetState(r) \/ LoadState(r) PROVE TypeInv'
  <2>1. FilesTypeOK'
    BY <1>2, <1>9 DEF ResetState, LoadState, files, FilesTypeOK
  <2>2. MemoryTypeOK'
    BY <1>2, <1>3, <1>9, HoldSafetyType
       DEF ResetState, LoadState, MemoryTypeOK, FilesTypeOK
  <2> QED
    BY <1>1, <1>2, <1>9, <2>1, <2>2, GotoType DEF ResetState, LoadState, At, Places
<1>10. ASSUME NEW r \in Requests,
              \/ LoadFails(r) \/ RefuseHalted(r) \/ GiveUp(r) \/ StartExecution(r)
       PROVE  TypeInv'
  <2>1. FilesTypeOK' /\ MemoryTypeOK' /\ UNCHANGED <<crashes, history>>
    BY <1>2, <1>10 DEF LoadFails, RefuseHalted, GiveUp, StartExecution, files,
                       FilesTypeOK, MemoryTypeOK
  <2>2. \E place \in Places : Goto(r, place) /\ pc[r] # "idle"
    BY <1>10 DEF LoadFails, RefuseHalted, GiveUp, StartExecution, At, Running, Places
  <2> QED  BY <1>1, <1>2, <2>1, <2>2, GotoType
<1>11. ASSUME NEW r \in Requests, Halt(r) \/ Unhalt(r) PROVE TypeInv'
  <2>1. FilesTypeOK' /\ MemoryTypeOK'
    BY <1>3, <1>11, SaveSafetyType DEF Halt, Unhalt
  <2>2. \E place \in Places : Goto(r, place) /\ pc[r] # "idle"
    BY <1>11 DEF Halt, Unhalt, At, Running, Places
  <2>3. HistoryTypeOK' /\ UNCHANGED crashes
    BY <1>2, <1>11 DEF Halt, Unhalt, HistoryTypeOK
  <2> QED  BY <1>1, <1>2, <2>1, <2>2, <2>3, GotoType
<1>12. ASSUME NEW r \in Requests, ClearSafety(r) PROVE TypeInv'
  <2>1. FilesTypeOK' /\ MemoryTypeOK'
    BY <1>2, <1>3, <1>12, SaveSafetyType
       DEF ClearSafety, files, FilesTypeOK, MemoryTypeOK
  <2>2. Goto(r, "idle") /\ pc[r] # "idle"
    BY <1>12 DEF ClearSafety, At, Running
  <2> QED  BY <1>1, <1>2, <1>12, <2>1, <2>2, GotoType DEF ClearSafety, Places
<1>13. ASSUME NEW r \in Requests, Evaluate(r) PROVE TypeInv'
  <2>1. FilesTypeOK' /\ MemoryTypeOK'
    BY <1>3, <1>13, SaveSafetyType DEF Evaluate
  <2>2. \E place \in Places : Goto(r, place) /\ pc[r] # "idle"
    BY <1>13 DEF Evaluate, At, Running, Places
  <2> QED  BY <1>1, <1>2, <1>13, <2>1, <2>2, GotoType DEF Evaluate
<1>14. ASSUME NEW r \in Requests,
              \/ MarkDecided(r) \/ FailCheck(r) \/ MarkExecuted(r)
       PROVE  TypeInv'
  <2>1. \E place \in Places, s \in Statuses :
           Goto(r, place) /\ pc[r] # "idle" /\ SaveStatus(r, s)
    BY <1>4, <1>14 DEF MarkDecided, FailCheck, MarkExecuted, At, Running, Places
  <2>2. UNCHANGED <<crashes, history>>
    BY <1>14 DEF MarkDecided, FailCheck, MarkExecuted
  <2> QED  BY <1>1, <1>2, <2>1, <2>2, GotoType, SaveStatusType
<1>15. ASSUME NEW r \in Requests, Decide(r) PROVE TypeInv'
  <2>1. FilesTypeOK' /\ MemoryTypeOK'
    BY <1>2, <1>15 DEF Decide, AppendDecision, KeepMemory, FilesTypeOK, MemoryTypeOK,
                       JobsRunning, Jobs, At
  <2>2. \E place \in Places : Goto(r, place) /\ pc[r] # "idle"
    BY <1>15 DEF Decide, At, Places
  <2> QED  BY <1>1, <1>2, <1>15, <2>1, <2>2, GotoType DEF Decide
<1>16. ASSUME NEW r \in Requests, OpenPosition(r) PROVE TypeInv'
  <2>1. FilesTypeOK' /\ MemoryTypeOK'
    BY <1>2, <1>16 DEF OpenPosition, FilesTypeOK, MemoryTypeOK, JobsRunning, Jobs, At
  <2>2. Goto(r, "executed") /\ pc[r] # "idle"
    BY <1>16 DEF OpenPosition, At
  <2> QED  BY <1>1, <1>2, <1>16, <2>1, <2>2, GotoType DEF OpenPosition, Places
<1>17. ASSUME NEW r \in Requests, Submit(r) PROVE TypeInv'
  <2>1. /\ Goto(r, "idle") /\ pc[r] # "idle" /\ crashes' = crashes
        /\ job[r].p \in ProposalIds
    BY <1>2, <1>17 DEF Submit, At, Running, JobsRunning, Jobs
  <2>2. PICK s \in SubmitStatuses :
          /\ SaveStatus(r, s)
          /\ claims' = IF s = Approved THEN [claims EXCEPT ![job[r].p] = @ + 1] ELSE claims
    BY <1>17 DEF Submit
  <2>3. s \in Statuses
    BY SharedAssumption DEF SharedAssumption
  <2>4. FilesTypeOK' /\ MemoryTypeOK'
    BY <2>1, <2>2, <2>3, SaveStatusType
  <2>5. HistoryTypeOK'
    BY <1>2, <1>17, <2>1, <2>2 DEF Submit, HistoryTypeOK
  <2> QED  BY <1>1, <1>2, <2>1, <2>4, <2>5, GotoType DEF Places
<1> QED
  BY <1>5, <1>6, <1>7, <1>8, <1>9, <1>10, <1>11, <1>12, <1>13, <1>14, <1>15, <1>16, <1>17
     DEF Next

(* The files, the memories and the handlers keep their types. *)
THEOREM TypeCorrect == Spec => []TypeOK
<1>1. TypeInv => TypeOK
  BY DEF TypeInv
<1> QED  BY <1>1, TypeInit, TypeStep, PTL DEF Spec

-----------------------------------------------------------------------------
(* No position without an approval.                                        *)
(*                                                                         *)
(* The decision row comes first, the status row second, the journal row     *)
(* last.  The invariant says the same of what the processes hold and of the *)
(* requests on their way from one of these rows to the next.  A submission  *)
(* that arrives approved counts as a decision.                              *)

Backed == {p \in ProposalIds : approvals[p] > 0 \/ claims[p] > 0}

BackedRecords ==
  /\ \A p \in ProposalIds :
       opened[p] > 0 \/ statusFile[p] = Approved => p \in Backed
  /\ \A x \in Processes, p \in ProposalIds :
       memory[x].status[p] = Approved => p \in Backed

BackedRequests ==
  \A r \in Requests :
    /\ pc[r] \in {"decide", "mark"} => job[r].kind \in Guarded
    /\ \/ pc[r] = "mark" /\ job[r].kind # "REJECT"
       \/ pc[r] \in {"open", "executed"}
       => job[r].p \in Backed

ApprovalInv == TypeInv /\ BackedRecords /\ BackedRequests

(* No log row is ever taken back. *)
LEMMA BackedGrows == TypeInv /\ [Next]_vars => Backed \subseteq Backed'
<1> SUFFICES ASSUME TypeInv, [Next]_vars PROVE Backed \subseteq Backed'
  OBVIOUS
<1>1. /\ approvals \in [ProposalIds -> Nat] /\ claims \in [ProposalIds -> Nat]
      /\ JobsRunning
  BY DEF TypeInv, TypeOK
<1>2. CASE UNCHANGED <<approvals, claims>>
  BY <1>2 DEF Backed
<1>3. ASSUME NEW r \in Requests, Decide(r) PROVE Backed \subseteq Backed'
  BY <1>1, <1>3 DEF Decide, AppendDecision, history, Backed
<1>4. ASSUME NEW r \in Requests, Submit(r) PROVE Backed \subseteq Backed'
  BY <1>1, <1>4 DEF Submit, SaveStatus, Backed
<1> QED
  BY <1>2, <1>3, <1>4
     DEF Next, vars, files, history, Crash, Arrive, RefreshProposals, ResetState, LoadState,
         LoadFails, Halt, Unhalt, ClearSafety, RefuseHalted, Evaluate, GiveUp, MarkDecided,
         StartExecution, OpenPosition, FailCheck, MarkExecuted, SaveSafety, SaveStatus

(* A request that goes on to another place of its handler. *)
LEMMA GotoBacked ==
  ASSUME ApprovalInv, NEW r \in Requests, NEW place \in Places,
         pc[r] # "idle", Goto(r, place),
         Backed \subseteq Backed',
         place \in {"decide", "mark"} => job[r].kind \in Guarded,
         \/ place = "mark" /\ job[r].kind # "REJECT"
         \/ place \in {"open", "executed"}
         => job[r].p \in Backed'
  PROVE  BackedRequests'
<1> SUFFICES ASSUME NEW q \in Requests
             PROVE  /\ pc'[q] \in {"decide", "mark"} => job'[q].kind \in Guarded
                    /\ \/ pc'[q] = "mark" /\ job'[q].kind # "REJECT"
                       \/ pc'[q] \in {"open", "executed"}
                       => job'[q].p \in Backed'
  BY DEF BackedRequests
<1>1. /\ pc \in [Requests -> Places]
      /\ job \in [Requests -> Jobs \cup {NoJob}]
      /\ \A other \in Requests : pc[other] # "idle" => job[other].p \in ProposalIds
  BY DEF ApprovalInv, TypeInv, TypeOK, JobsRunning, Jobs, Places
<1>2. CASE q = r
  BY <1>1, <1>2 DEF Goto
<1>3. CASE q # r
  <2>1. pc'[q] = pc[q] /\ job'[q] = job[q]
    BY <1>1, <1>3 DEF Goto
  <2> QED  BY <1>1, <2>1 DEF ApprovalInv, BackedRequests
<1> QED  BY <1>2, <1>3

(* The safety state of a process says nothing of the proposals it holds. *)
LEMMA HoldSafetyBacked ==
  ASSUME ApprovalInv, NEW r \in Requests, NEW s \in Safety, HoldSafety(r, s),
         UNCHANGED <<statusFile, opened>>, Backed \subseteq Backed'
  PROVE  BackedRecords'
<1>1. \A x \in Processes : memory'[x].status = memory[x].status
  BY DEF ApprovalInv, TypeInv, TypeOK, HoldSafety
<1> QED  BY <1>1 DEF ApprovalInv, BackedRecords

(* A status that allows an opening is only stored behind an approval. *)
LEMMA SaveStatusBacked ==
  ASSUME ApprovalInv, NEW r \in Requests, pc[r] # "idle",
         NEW s \in Statuses, SaveStatus(r, s),
         Backed \subseteq Backed', s = Approved => job[r].p \in Backed'
  PROVE  BackedRecords'
<1>1. /\ statusFile \in [ProposalIds -> Statuses]
      /\ memory \in [Processes -> [status : [ProposalIds -> Statuses], safety : Safety]]
  BY DEF ApprovalInv, TypeInv, TypeOK
<1>2. /\ \A p \in ProposalIds :
           statusFile'[p] = statusFile[p] \/ (p = job[r].p /\ statusFile'[p] = s)
      /\ opened' = opened
  BY <1>1 DEF SaveStatus
<1>3. \A x \in Processes, p \in ProposalIds :
        \/ memory'[x].status[p] = memory[x].status[p]
        \/ p = job[r].p /\ memory'[x].status[p] = s
  BY <1>1 DEF SaveStatus, HoldStatus
<1> QED  BY <1>2, <1>3 DEF ApprovalInv, BackedRecords

LEMMA ApprovalInit == Init => ApprovalInv
<1> SUFFICES ASSUME Init PROVE ApprovalInv
  OBVIOUS
<1>1. BackedRecords
  BY DEF Init, BackedRecords, Approved
<1>2. BackedRequests
  BY DEF Init, BackedRequests
<1> QED  BY TypeInit, <1>1, <1>2 DEF ApprovalInv

LEMMA ApprovalStep == ApprovalInv /\ [Next]_vars => ApprovalInv'
<1> SUFFICES ASSUME ApprovalInv, [Next]_vars PROVE ApprovalInv'
  OBVIOUS
<1>1. TypeInv'
  BY TypeStep DEF ApprovalInv
<1>2. SUFFICES BackedRecords' /\ BackedRequests'
  BY <1>1 DEF ApprovalInv
<1>3. /\ TypeOK /\ JobsRunning /\ BackedRecords /\ BackedRequests
      /\ Normal \in Safety /\ Halted \in Safety
      /\ \A b, c \in BOOLEAN : [halted |-> b, blocked |-> c] \in Safety
      /\ Backed \subseteq Backed'
  BY BackedGrows DEF ApprovalInv, TypeInv, Safety, Normal, Halted
<1>4. CASE UNCHANGED vars
  BY <1>3, <1>4 DEF vars, files, BackedRecords, BackedRequests
<1>5. ASSUME NEW x \in Processes, Crash(x) PROVE BackedRecords' /\ BackedRequests'
  <2>1. BackedRecords'
    BY <1>3, <1>5 DEF Crash, BackedRecords
  <2>2. \A r \in Requests : \/ pc'[r] = "idle"
                            \/ pc'[r] = pc[r] /\ job'[r] = job[r]
    BY <1>3, <1>5 DEF Crash
  <2> QED  BY <1>3, <1>5, <2>1, <2>2 DEF Crash, BackedRequests
<1>6. ASSUME NEW r \in Requests, Arrive(r) PROVE BackedRecords' /\ BackedRequests'
  <2>1. \A q \in Requests : \/ pc'[q] = "refreshProposals"
                            \/ pc'[q] = pc[q] /\ job'[q] = job[q]
    BY <1>3, <1>6 DEF Arrive, TypeOK
  <2> QED  BY <1>3, <1>6, <2>1 DEF Arrive, files, BackedRecords, BackedRequests
<1>7. ASSUME NEW r \in Requests, RefreshProposals(r)
      PROVE  BackedRecords' /\ BackedRequests'
  <2>1. \A x \in Processes : \/ memory'[x].status = memory[x].status
                             \/ memory'[x].status = statusFile
    BY <1>3, <1>7 DEF RefreshProposals, TypeOK
  <2>2. BackedRecords'
    BY <1>3, <1>7, <2>1 DEF RefreshProposals, files, BackedRecords
  <2> QED
    BY <1>3, <1>7, <2>2, GotoBacked DEF RefreshProposals, At, files, Places
<1>8. ASSUME NEW r \in Requests,
             ResetState(r) \/ LoadState(r) \/ Halt(r) \/ Unhalt(r) \/ ClearSafety(r)
      PROVE  BackedRecords' /\ BackedRequests'
  <2>1. UNCHANGED <<statusFile, opened>>
    BY <1>8 DEF ResetState, LoadState, Halt, Unhalt, ClearSafety, SaveSafety, files
  <2>2. UNCHANGED memory => BackedRecords'
    BY <1>3, <2>1 DEF BackedRecords
  <2>3. UNCHANGED memory \/ \E s \in Safety : HoldSafety(r, s)
    BY <1>3, <1>8
       DEF ResetState, LoadState, Halt, Unhalt, ClearSafety, SaveSafety, TypeOK
  <2>4. BackedRecords'
    BY <1>3, <2>1, <2>2, <2>3, HoldSafetyBacked
  <2>5. pc[r] # "idle" /\ \E place \in {"idle", "loadState", "run"} : Goto(r, place)
    BY <1>8 DEF ResetState, LoadState, Halt, Unhalt, ClearSafety, At, Running
  <2> QED  BY <1>3, <2>4, <2>5, GotoBacked DEF Places
<1>9. ASSUME NEW r \in Requests, Evaluate(r) PROVE BackedRecords' /\ BackedRequests'
  <2>1. PICK s \in Safety : SaveSafety(r, s)
    BY <1>3, <1>9 DEF Evaluate
  <2>2. BackedRecords'
    BY <1>3, <2>1, HoldSafetyBacked DEF SaveSafety
  <2>3. /\ pc[r] # "idle" /\ job[r].kind \in Guarded
        /\ \E place \in {"idle", "decide"} : Goto(r, place)
    BY <1>9 DEF Evaluate, Running, At
  <2> QED  BY <1>3, <2>2, <2>3, GotoBacked DEF Places
<1>10. ASSUME NEW r \in Requests, LoadFails(r) \/ RefuseHalted(r) \/ GiveUp(r)
       PROVE  BackedRecords' /\ BackedRequests'
  <2>1. UNCHANGED <<files, memory>> /\ pc[r] # "idle" /\ Goto(r, "idle")
    BY <1>10 DEF LoadFails, RefuseHalted, GiveUp, At, Running
  <2>2. BackedRecords'
    BY <1>3, <2>1 DEF files, BackedRecords
  <2> QED  BY <1>3, <2>1, <2>2, GotoBacked DEF Places
<1>11. ASSUME NEW r \in Requests, Decide(r) PROVE BackedRecords' /\ BackedRequests'
  <2>1. UNCHANGED <<statusFile, opened, memory>>
    BY <1>3, <1>11 DEF Decide, AppendDecision, KeepMemory, TypeOK
  <2>2. BackedRecords'
    BY <1>3, <2>1 DEF BackedRecords
  <2>3. job[r] \in Jobs /\ job[r].kind \in Guarded \ {"EXECUTE"}
    BY <1>3, <1>11 DEF Decide, At, JobsRunning, BackedRequests
  <2>4. job[r].kind # "REJECT" => job[r].p \in Backed'
    BY <1>3, <1>11, <2>3 DEF Decide, AppendDecision, Guarded, Jobs, TypeOK, Backed
  <2>5. pc[r] # "idle" /\ \E place \in {"idle", "mark"} : Goto(r, place)
    BY <1>11 DEF Decide, At
  <2> QED  BY <1>3, <2>2, <2>3, <2>4, <2>5, GotoBacked DEF Places
<1>12. ASSUME NEW r \in Requests, StartExecution(r)
       PROVE  BackedRecords' /\ BackedRequests'
  <2>1. UNCHANGED <<files, memory>> /\ pc[r] # "idle" /\ Goto(r, "open")
    BY <1>12 DEF StartExecution, At
  <2>2. BackedRecords'
    BY <1>3, <2>1 DEF files, BackedRecords
  <2>3. job[r].p \in ProposalIds /\ ProcessOf[r] \in Processes
    BY <1>3, <2>1, SharedAssumption DEF JobsRunning, Jobs, SharedAssumption
  <2>4. job[r].p \in Backed
    BY <1>3, <1>12, <2>3 DEF StartExecution, seen, mine, BackedRecords
  <2> QED  BY <1>3, <2>1, <2>2, <2>4, GotoBacked DEF Places
<1>13. ASSUME NEW r \in Requests, OpenPosition(r)
       PROVE  BackedRecords' /\ BackedRequests'
  <2>1. pc[r] # "idle" /\ Goto(r, "executed") /\ job[r].p \in Backed
    BY <1>3, <1>13 DEF OpenPosition, At, BackedRequests
  <2>2. /\ \A p \in ProposalIds : opened'[p] = opened[p] \/ p = job[r].p
        /\ UNCHANGED <<statusFile, memory>>
    BY <1>3, <1>13 DEF OpenPosition, TypeOK
  <2>3. BackedRecords'
    BY <1>3, <2>1, <2>2 DEF BackedRecords
  <2> QED  BY <1>3, <2>1, <2>3, GotoBacked DEF Places
<1>14. ASSUME NEW r \in Requests, Submit(r) \/ FailCheck(r) \/ MarkExecuted(r)
       PROVE  BackedRecords' /\ BackedRequests'
  <2>1. /\ pc[r] # "idle" /\ Goto(r, "idle")
        /\ \E s \in Statuses : /\ SaveStatus(r, s)
                               /\ s = Approved => job[r].p \in Backed'
    <3>1. CASE Submit(r)
      <4>1. /\ pc[r] # "idle" /\ Goto(r, "idle")
            /\ job[r].p \in ProposalIds /\ claims \in [ProposalIds -> Nat]
        BY <1>3, <3>1 DEF Submit, At, Running, JobsRunning, Jobs, TypeOK
      <4>2. PICK s \in SubmitStatuses :
              /\ SaveStatus(r, s)
              /\ s = Approved => claims' = [claims EXCEPT ![job[r].p] = @ + 1]
        BY <3>1 DEF Submit
      <4>3. s \in Statuses
        BY SharedAssumption DEF SharedAssumption
      <4>4. s = Approved => job[r].p \in Backed'
        BY <4>1, <4>2 DEF Backed
      <4> QED  BY <4>1, <4>2, <4>3, <4>4
    <3>2. CASE FailCheck(r) \/ MarkExecuted(r)
      BY <3>2 DEF FailCheck, MarkExecuted, At, Statuses, Approved
    <3> QED  BY <1>14, <3>1, <3>2
  <2>2. BackedRecords'
    BY <1>3, <2>1, SaveStatusBacked
  <2> QED  BY <1>3, <2>1, <2>2, GotoBacked DEF Places
<1>15. ASSUME NEW r \in Requests, MarkDecided(r)
       PROVE  BackedRecords' /\ BackedRequests'
  <2>1. /\ pc[r] # "idle"
        /\ Goto(r, IF job[r].kind = "APPROVE" THEN "open" ELSE "idle")
        /\ job[r].kind # "REJECT" => job[r].p \in Backed
    BY <1>3, <1>15 DEF MarkDecided, At, BackedRequests
  <2>2. PICK s \in Statuses : /\ SaveStatus(r, s)
                              /\ s = Approved => job[r].kind # "REJECT"
    BY <1>15 DEF MarkDecided, Statuses, Approved
  <2>3. BackedRecords'
    BY <1>3, <2>1, <2>2, SaveStatusBacked
  <2> QED  BY <1>3, <2>1, <2>3, GotoBacked DEF Places
<1> QED
  BY <1>4, <1>5, <1>6, <1>7, <1>8, <1>9, <1>10, <1>11, <1>12, <1>13, <1>14, <1>15
     DEF Next

(* With any number of processes, requests and crashes, a position in the    *)
(* journal, and a status that allows one, has an APPROVE decision in the    *)
(* log, or was submitted as already approved (approval_flow.py,             *)
(* backend_service.py, execution/orchestrator.py, proposal_files.py).       *)
THEOREM ApprovalsAlways == Spec => []NoOpeningWithoutApproval
<1>1. ApprovalInv => NoOpeningWithoutApproval
  BY DEF ApprovalInv, TypeInv, TypeOK, BackedRecords, Backed, NoOpeningWithoutApproval
<1> QED  BY <1>1, ApprovalInit, ApprovalStep, PTL DEF Spec

-----------------------------------------------------------------------------
(* A quiet halt.                                                           *)
(*                                                                         *)
(* It lasts because every request that came after it has to load the halt   *)
(* before it gets to a write, and because no other request of its process   *)
(* resets what it loaded.                                                  *)

OneRequestEach ==
  \A r, other \in Requests : ProcessOf[r] = ProcessOf[other] => r = other

Harmless(r) ==
  \/ pc[r] \in {"idle", "refreshProposals", "resetState", "loadState"}
  \/ /\ pc[r] = "run"
     /\ job[r].kind \in Guarded \cup {"CLEAR_SAFETY"} => mine(r).safety.halted

HaltInv ==
  /\ TypeInv
  /\ quietHalt => /\ safetyFile = Halted \/ torn
                  /\ \A r \in Requests : Harmless(r)

LEMMA HaltInit == Init => HaltInv
BY TypeInit DEF Init, HaltInv

(* Under a quiet halt no request is past the check of the halt. *)
LEMMA NoneDeciding ==
  ASSUME HaltInv, quietHalt, NEW r \in Requests
  PROVE  /\ pc[r] \notin {"decide", "mark", "open", "executed"}
         /\ ~Evaluate(r)
         /\ Running(r, Guarded \cup {"CLEAR_SAFETY"}) => mine(r).safety.halted
BY DEF HaltInv, Harmless, Evaluate, Running, At

(* What the process of one request holds is no other request's. *)
LEMMA GotoHarmless ==
  ASSUME HaltInv, OneRequestEach, quietHalt,
         NEW r \in Requests, NEW place \in Places, Goto(r, place),
         \A x \in Processes : x # ProcessOf[r] => memory'[x] = memory[x],
         \/ place \in {"idle", "resetState", "loadState"}
         \/ place = "run" /\ memory'[ProcessOf[r]].safety.halted
  PROVE  \A q \in Requests : Harmless(q)'
<1> SUFFICES ASSUME NEW q \in Requests PROVE Harmless(q)'
  OBVIOUS
<1>1. /\ pc \in [Requests -> Places]
      /\ job \in [Requests -> Jobs \cup {NoJob}]
      /\ ProcessOf[q] \in Processes
  BY SharedAssumption DEF SharedAssumption, HaltInv, TypeInv, TypeOK, Places, Jobs
<1>2. CASE q = r
  BY <1>1, <1>2 DEF Goto, Harmless, mine
<1>3. CASE q # r
  <2>1. /\ pc'[q] = pc[q] /\ job'[q] = job[q]
        /\ memory'[ProcessOf[q]] = memory[ProcessOf[q]]
    BY <1>1, <1>3 DEF Goto, OneRequestEach
  <2> QED  BY <2>1 DEF HaltInv, Harmless, mine
<1> QED  BY <1>2, <1>3

LEMMA HaltStep == ASSUME OneRequestEach PROVE HaltInv /\ [Next]_vars => HaltInv'
<1> SUFFICES ASSUME HaltInv, [Next]_vars, quietHalt' PROVE
       (safetyFile = Halted \/ torn)' /\ \A q \in Requests : Harmless(q)'
  BY TypeStep DEF HaltInv
<1>1. /\ TypeOK /\ JobsRunning
      /\ \A q \in Requests : ProcessOf[q] \in Processes
  BY SharedAssumption DEF SharedAssumption, HaltInv, TypeInv
<1>2. ASSUME NEW r \in Requests, Halt(r)
      PROVE  (safetyFile = Halted \/ torn)' /\ \A q \in Requests : Harmless(q)'
  <2>1. safetyFile' = Halted
    BY <1>2 DEF Halt, SaveSafety
  <2>2. \A q \in Requests : pc'[q] = "idle"
    BY <1>1, <1>2 DEF Halt, Goto, At, TypeOK
  <2> QED  BY <2>1, <2>2 DEF Harmless
<1>3. CASE \A r \in Requests : ~Halt(r)
  <2>1. quietHalt /\ (safetyFile = Halted \/ torn) /\ \A q \in Requests : Harmless(q)
    BY <1>3 DEF HaltInv, Next, vars, Crash, Arrive, RefreshProposals, ResetState,
            LoadState, LoadFails, Unhalt, ClearSafety, RefuseHalted, Evaluate, Submit,
            GiveUp, Decide, MarkDecided, StartExecution, OpenPosition, FailCheck,
            MarkExecuted, history
  <2>2. CASE UNCHANGED vars
    BY <2>1, <2>2 DEF vars, files, Harmless, mine
  <2>3. ASSUME NEW x \in Processes, Crash(x)
        PROVE  (safetyFile = Halted \/ torn)' /\ \A q \in Requests : Harmless(q)'
    <3>1. (safetyFile = Halted \/ torn)'
      BY <2>1, <2>3 DEF Crash
    <3>2. \A q \in Requests : pc'[q] = "idle" \/ (pc'[q] = pc[q] /\ job'[q] = job[q])
      BY <1>1, <2>3 DEF Crash, TypeOK
    <3> QED  BY <2>1, <2>3, <3>1, <3>2 DEF Crash, Harmless, mine
  <2>4. ASSUME NEW r \in Requests, Arrive(r)
        PROVE  (safetyFile = Halted \/ torn)' /\ \A q \in Requests : Harmless(q)'
    <3>1. \A q \in Requests : \/ pc'[q] = "refreshProposals"
                              \/ pc'[q] = pc[q] /\ job'[q] = job[q]
      BY <1>1, <2>4 DEF Arrive, TypeOK
    <3> QED  BY <2>1, <2>4, <3>1 DEF Arrive, files, Harmless, mine
  <2>5. ASSUME NEW r \in Requests, RefreshProposals(r) \/ ResetState(r)
        PROVE  (safetyFile = Halted \/ torn)' /\ \A q \in Requests : Harmless(q)'
    <3>1. \A x \in Processes : x # ProcessOf[r] => memory'[x] = memory[x]
      BY <1>1, <2>5 DEF RefreshProposals, ResetState, HoldSafety, TypeOK
    <3>2. Goto(r, "resetState") \/ Goto(r, "loadState")
      BY <2>5 DEF RefreshProposals, ResetState
    <3>3. UNCHANGED <<safetyFile, torn>>
      BY <2>5 DEF RefreshProposals, ResetState, files
    <3> QED  BY <2>1, <3>1, <3>2, <3>3, GotoHarmless DEF Places
  <2>6. ASSUME NEW r \in Requests, LoadState(r)
        PROVE  (safetyFile = Halted \/ torn)' /\ \A q \in Requests : Harmless(q)'
    <3>1. \A x \in Processes : x # ProcessOf[r] => memory'[x] = memory[x]
      BY <1>1, <2>6 DEF LoadState, HoldSafety, TypeOK
    <3>2. memory'[ProcessOf[r]].safety.halted
      BY <1>1, <2>1, <2>6 DEF LoadState, HoldSafety, TypeOK, Halted
    <3>3. UNCHANGED <<safetyFile, torn>> /\ Goto(r, "run")
      BY <2>6 DEF LoadState, files
    <3> QED  BY <2>1, <3>1, <3>2, <3>3, GotoHarmless DEF Places
  <2>7. ASSUME NEW r \in Requests, LoadFails(r) \/ ClearSafety(r) \/ RefuseHalted(r)
        PROVE  (safetyFile = Halted \/ torn)' /\ \A q \in Requests : Harmless(q)'
    <3>1. ClearSafety(r) => mine(r).safety.halted
      BY <2>1, NoneDeciding DEF ClearSafety, Running
    <3>2. UNCHANGED <<files, memory>> /\ Goto(r, "idle")
      BY <2>7, <3>1 DEF LoadFails, ClearSafety, RefuseHalted
    <3> QED  BY <2>1, <3>2, GotoHarmless DEF files, Places
  <2>8. ASSUME NEW r \in Requests, Submit(r)
        PROVE  (safetyFile = Halted \/ torn)' /\ \A q \in Requests : Harmless(q)'
    <3>1. \A x \in Processes : x # ProcessOf[r] => memory'[x] = memory[x]
      BY <1>1, <2>8 DEF Submit, SaveStatus, HoldStatus, TypeOK
    <3>2. UNCHANGED <<safetyFile, torn>> /\ Goto(r, "idle")
      BY <2>8 DEF Submit, SaveStatus
    <3> QED  BY <2>1, <3>1, <3>2, GotoHarmless DEF Places
  <2>9. ASSUME NEW r \in Requests
        PROVE  /\ ~Unhalt(r) /\ ~Evaluate(r) /\ ~GiveUp(r) /\ ~Decide(r)
               /\ ~MarkDecided(r) /\ ~StartExecution(r) /\ ~OpenPosition(r)
               /\ ~FailCheck(r) /\ ~MarkExecuted(r)
    BY <2>1, NoneDeciding DEF Unhalt, GiveUp, Decide, MarkDecided, StartExecution,
       OpenPosition, FailCheck, MarkExecuted, At
  <2> QED
    BY <1>3, <2>2, <2>3, <2>4, <2>5, <2>6, <2>7, <2>8, <2>9 DEF Next
<1> QED  BY <1>2, <1>3

(* Where every process serves one request at a time, a halt that met no     *)
(* running request stays in system-state.json until UNHALT, whatever other  *)
(* processes do and wherever they crash (storage/system_state_files.py).    *)
THEOREM QuietHaltStaysAlways ==
  ASSUME OneRequestEach PROVE Spec => []QuietHaltStays
<1>1. HaltInv => QuietHaltStays
  BY DEF HaltInv, QuietHaltStays
<1>2. HaltInv /\ [Next]_vars => HaltInv'
  BY HaltStep
<1> QED  BY <1>1, <1>2, HaltInit, PTL DEF Spec

(* Under such a halt no process decides on a proposal or opens a position   *)
(* (backend_service.py: run_operator_command, execute_approved_proposal).   *)
THEOREM QuietHaltFreezesAlways ==
  ASSUME OneRequestEach PROVE Spec => QuietHaltFreezes
<1>1. HaltInv /\ [Next]_vars => [quietHalt => approvals' = approvals /\ opened' = opened]_vars
  <2> SUFFICES ASSUME HaltInv, Next, quietHalt
               PROVE  approvals' = approvals /\ opened' = opened
    OBVIOUS
  <2>1. ASSUME NEW r \in Requests PROVE ~Decide(r) /\ ~OpenPosition(r)
    BY <2>1, NoneDeciding DEF Decide, OpenPosition, At
  <2> QED
    BY <2>1 DEF Next, files, Crash, Arrive, RefreshProposals, ResetState, LoadState,
       LoadFails, Halt, Unhalt, ClearSafety, RefuseHalted, Evaluate, Submit, GiveUp,
       MarkDecided, StartExecution, FailCheck, MarkExecuted, SaveSafety, SaveStatus
<1>2. HaltInv /\ [Next]_vars => HaltInv'
  BY HaltStep
<1> QED  BY <1>1, <1>2, HaltInit, PTL DEF Spec, QuietHaltFreezes

-----------------------------------------------------------------------------
(* What a crash can cost.                                                  *)
(*                                                                         *)
(* As long as no two requests have run at the same time, the process of the *)
(* running one holds what the file says, and an approval is unused as long  *)
(* as its status row is to be written or can still be executed.  A crash    *)
(* after the journal row makes it look unused again; nothing else does.     *)

Alone == \A r, other \in Requests : pc[r] # "idle" /\ pc[other] # "idle" => r = other

OthersIdle(r) == \A q \in Requests \ {r} : pc[q] = "idle"

Fresh(r) ==
  /\ pc[r] \in {"resetState", "loadState", "run", "decide"} => mine(r).status = statusFile
  /\ pc[r] = "open" => statusFile[job[r].p] = Approved

Unused(p) ==
  \/ /\ statusFile[p] = Approved
     /\ \A r \in Requests : ~(pc[r] = "executed" /\ job[r].p = p)
  \/ \E r \in Requests : pc[r] = "mark" /\ job[r].kind # "REJECT" /\ job[r].p = p

Accounted(p) == opened[p] + (IF Unused(p) THEN 1 ELSE 0) <= approvals[p] + claims[p] + crashes

CrashInv ==
  /\ ApprovalInv
  /\ ~overlapped => /\ Alone
                    /\ \A r \in Requests : Fresh(r)
                    /\ \A p \in ProposalIds : Accounted(p)

LEMMA CrashInit == Init => CrashInv
<1> SUFFICES ASSUME Init PROVE CrashInv
  OBVIOUS
<1>1. \A r \in Requests : Fresh(r)
  BY DEF Init, Fresh
<1>3. Alone
  BY DEF Init, Alone
<1>2. ASSUME NEW p \in ProposalIds PROVE Accounted(p)
  <2>1. ~Unused(p) /\ opened[p] = 0 /\ approvals[p] = 0 /\ claims[p] = 0 /\ crashes = 0
    BY DEF Init, Unused, Approved
  <2> QED  BY <2>1 DEF Accounted
<1> QED  BY <1>1, <1>2, <1>3, ApprovalInit DEF CrashInv

(* A step that writes no log row keeps the account if it makes no approval  *)
(* look unused.                                                            *)
LEMMA AccountKept ==
  ASSUME CrashInv, ~overlapped, NEW p \in ProposalIds,
         opened'[p] = opened[p], approvals'[p] = approvals[p],
         claims'[p] = claims[p], crashes' = crashes,
         Unused(p)' => Unused(p)
  PROVE  Accounted(p)'
<1>1. /\ opened[p] \in Nat /\ approvals[p] \in Nat /\ claims[p] \in Nat /\ crashes \in Nat
      /\ opened[p] + (IF Unused(p) THEN 1 ELSE 0) <= approvals[p] + claims[p] + crashes
  BY DEF CrashInv, Accounted, ApprovalInv, TypeInv, TypeOK
<1> HIDE DEF Unused
<1> QED  BY <1>1 DEF Accounted

LEMMA CrashStep == CrashInv /\ [Next]_vars => CrashInv'
<1> SUFFICES ASSUME CrashInv, [Next]_vars, ~overlapped'
             PROVE  /\ Alone'
                    /\ (\A r \in Requests : Fresh(r))'
                    /\ (\A p \in ProposalIds : Accounted(p))'
  BY ApprovalStep DEF CrashInv
<1> DEFINE Goal == /\ Alone'
                   /\ (\A r \in Requests : Fresh(r))'
                   /\ (\A p \in ProposalIds : Accounted(p))'
<1>0. ~overlapped
  BY DEF Next, vars, history, Crash, Arrive, RefreshProposals, ResetState, LoadState,
         LoadFails, Halt, Unhalt, ClearSafety, RefuseHalted, Evaluate, Submit, GiveUp, Decide,
         MarkDecided, StartExecution, OpenPosition, FailCheck, MarkExecuted
<1>1. /\ TypeOK /\ JobsRunning /\ BackedRequests
      /\ \A r \in Requests : ProcessOf[r] \in Processes
      /\ Alone
      /\ \A r \in Requests : Fresh(r)
      /\ \A p \in ProposalIds : Accounted(p)
  BY <1>0, SharedAssumption DEF SharedAssumption, CrashInv, ApprovalInv, TypeInv
<1>2. /\ pc \in [Requests -> Places]
      /\ job \in [Requests -> Jobs \cup {NoJob}]
      /\ \A r \in Requests : pc[r] # "idle" => job[r].p \in ProposalIds
      /\ opened \in [ProposalIds -> Nat] /\ approvals \in [ProposalIds -> Nat]
      /\ claims \in [ProposalIds -> Nat]
      /\ statusFile \in [ProposalIds -> Statuses]
      /\ memory \in [Processes -> [status : [ProposalIds -> Statuses], safety : Safety]]
      /\ crashes \in Nat
  BY <1>1 DEF TypeOK, JobsRunning, Jobs, Places
<1>3. ASSUME NEW r \in Requests, pc[r] # "idle", NEW place, Goto(r, place)
      PROVE  Alone' /\ OthersIdle(r) /\ OthersIdle(r)'
  <2>1. OthersIdle(r)
    BY <1>1, <1>3 DEF Alone, OthersIdle
  <2>2. \A q \in Requests \ {r} : pc'[q] = pc[q]
    BY <1>2, <1>3 DEF Goto
  <2> QED  BY <2>1, <2>2 DEF Alone, OthersIdle
<1>4. ASSUME UNCHANGED vars PROVE Goal
  BY <1>1, <1>4 DEF vars, files, history, Alone, Fresh, Accounted, Unused, mine
<1>5. ASSUME NEW x \in Processes, Crash(x) PROVE Goal
  <2>1. \A r \in Requests : pc'[r] = "idle" \/ (pc'[r] = pc[r] /\ job'[r] = job[r])
    <3>1. /\ pc' = [q \in Requests |-> IF ProcessOf[q] = x THEN "idle" ELSE pc[q]]
          /\ job' = [q \in Requests |-> IF ProcessOf[q] = x THEN NoJob ELSE job[q]]
      BY <1>5 DEF Crash
    <3> QED  BY <3>1
  <2>2. Alone' /\ (\A r \in Requests : Fresh(r))'
    BY <1>1, <1>5, <2>1 DEF Crash, Alone, Fresh, mine
  <2>3. ASSUME NEW p \in ProposalIds PROVE Accounted(p)'
    <3>1. /\ opened'[p] = opened[p] /\ approvals'[p] = approvals[p]
          /\ claims'[p] = claims[p] /\ crashes' = crashes + 1
      BY <1>5 DEF Crash, history
    <3>2. opened[p] <= approvals[p] + claims[p] + crashes
      BY <1>1, <1>2 DEF Accounted
    <3>3. opened[p] \in Nat /\ approvals[p] \in Nat /\ claims[p] \in Nat
      BY <1>2
    <3>4. opened'[p] + (IF Unused(p)' THEN 1 ELSE 0) <= approvals'[p] + claims'[p] + crashes'
      BY <1>2, <3>1, <3>2, <3>3
    <3> QED  BY <3>4 DEF Accounted
  <2> QED  BY <2>2, <2>3
<1>6. ASSUME NEW r \in Requests, Arrive(r) PROVE Goal
  <2>1. /\ pc[r] = "idle" /\ pc'[r] = "refreshProposals"
        /\ OthersIdle(r) /\ OthersIdle(r)'
    BY <1>0, <1>2, <1>6 DEF Arrive, At, OthersIdle
  <2>2. UNCHANGED <<statusFile, opened, approvals, claims, crashes>>
    BY <1>6 DEF Arrive, files, history
  <2>3. \A p \in ProposalIds : Unused(p)' => Unused(p)
    BY <2>1, <2>2 DEF Unused, OthersIdle
  <2>4. \A p \in ProposalIds : Accounted(p)'
    BY <1>0, <2>2, <2>3, AccountKept
  <2>5. Alone' /\ (\A q \in Requests : Fresh(q))'
    BY <2>1 DEF Alone, Fresh, OthersIdle
  <2> QED  BY <2>4, <2>5
<1>7. ASSUME NEW r \in Requests, RefreshProposals(r) \/ ResetState(r) \/ LoadState(r)
      PROVE  Goal
  <2>1. UNCHANGED <<statusFile, opened, approvals, claims, crashes>>
    BY <1>7 DEF RefreshProposals, ResetState, LoadState, files, history
  <2>2. memory'[ProcessOf[r]].status = statusFile
    BY <1>1, <1>2, <1>7 DEF RefreshProposals, ResetState, LoadState, HoldSafety, At, Fresh, mine
  <2>3. /\ pc[r] \in {"refreshProposals", "resetState", "loadState"}
        /\ pc'[r] \in {"resetState", "loadState", "run"}
    BY <1>2, <1>7 DEF RefreshProposals, ResetState, LoadState, At, Goto
  <2>4. Alone' /\ OthersIdle(r) /\ OthersIdle(r)'
    BY <1>3, <1>7 DEF RefreshProposals, ResetState, LoadState, At, Running
  <2>5. \A p \in ProposalIds : Unused(p)' => Unused(p)
    BY <2>1, <2>3, <2>4 DEF Unused, OthersIdle
  <2>6. \A p \in ProposalIds : Accounted(p)'
    BY <2>1, <2>5, AccountKept, <1>0
  <2> QED  BY <2>1, <2>2, <2>3, <2>4, <2>6 DEF Fresh, mine, OthersIdle
<1>8. ASSUME NEW r \in Requests, pc[r] \notin {"idle", "executed"}, Goto(r, "idle"),
             UNCHANGED <<opened, approvals, claims, crashes>>,
             \A p \in ProposalIds : statusFile'[p] = Approved => statusFile[p] = Approved
      PROVE  Goal
  <2>1. Alone' /\ OthersIdle(r) /\ OthersIdle(r)' /\ pc'[r] = "idle"
    BY <1>2, <1>3, <1>8 DEF Goto
  <2>2. \A p \in ProposalIds : Unused(p)' => Unused(p)
    BY <1>8, <2>1 DEF Unused, OthersIdle
  <2>3. \A p \in ProposalIds : Accounted(p)'
    BY <1>8, <2>2, AccountKept, <1>0
  <2> QED  BY <1>8, <2>1, <2>3 DEF Fresh, OthersIdle
<1>9. ASSUME NEW r \in Requests,
             \/ LoadFails(r) \/ Halt(r) \/ Unhalt(r) \/ ClearSafety(r) \/ RefuseHalted(r)
             \/ GiveUp(r)
      PROVE  Goal
  <2>1. pc[r] \notin {"idle", "executed"} /\ Goto(r, "idle")
    BY <1>9 DEF LoadFails, Halt, Unhalt, ClearSafety, RefuseHalted, GiveUp, At, Running
  <2>2. UNCHANGED <<statusFile, opened, approvals, claims, crashes>>
    BY <1>9 DEF LoadFails, Halt, Unhalt, ClearSafety, RefuseHalted, GiveUp, SaveSafety, files, history
  <2> QED  BY <1>8, <2>1, <2>2
<1>10. ASSUME NEW r \in Requests, FailCheck(r) PROVE Goal
  <2>1. /\ pc[r] \notin {"idle", "executed"} /\ Goto(r, "idle")
        /\ UNCHANGED <<opened, approvals, claims, crashes>>
    BY <1>10 DEF FailCheck, SaveStatus, At, history
  <2>2. \A p \in ProposalIds : statusFile'[p] = Approved => statusFile[p] = Approved
    BY <1>2, <1>10 DEF FailCheck, SaveStatus, Approved
  <2> QED  BY <1>8, <2>1, <2>2
<1>18. ASSUME NEW r \in Requests, Submit(r) PROVE Goal
  <2>1. /\ pc[r] = "run" /\ Goto(r, "idle") /\ job[r].p \in ProposalIds
        /\ UNCHANGED <<opened, approvals, crashes>>
    BY <1>2, <1>18 DEF Submit, SaveStatus, At, Running
  <2>2. PICK s \in SubmitStatuses :
          /\ statusFile' = [statusFile EXCEPT ![job[r].p] = s]
          /\ claims' = IF s = Approved THEN [claims EXCEPT ![job[r].p] = @ + 1] ELSE claims
    BY <1>18 DEF Submit, SaveStatus
  <2>3. CASE s # Approved
    <3>1. \A p \in ProposalIds : statusFile'[p] = Approved => statusFile[p] = Approved
      BY <1>2, <2>2, <2>3
    <3> QED  BY <1>8, <2>1, <2>2, <2>3, <3>1
  <2>4. CASE s = Approved
    <3>1. Alone' /\ OthersIdle(r) /\ OthersIdle(r)' /\ pc'[r] = "idle"
      BY <1>2, <1>3, <2>1 DEF Goto
    <3>2. ASSUME NEW p \in ProposalIds, p # job[r].p PROVE Accounted(p)'
      <4>1. statusFile'[p] = statusFile[p] /\ claims'[p] = claims[p]
        BY <1>2, <2>2, <3>2
      <4>2. Unused(p)' => Unused(p)
        BY <2>1, <3>1, <4>1 DEF Unused, OthersIdle
      <4> QED  BY <1>0, <2>1, <4>1, <4>2, AccountKept
    <3>3. ASSUME NEW p \in ProposalIds, p = job[r].p PROVE Accounted(p)'
      <4>1. /\ opened'[p] = opened[p] /\ approvals'[p] = approvals[p]
            /\ claims'[p] = claims[p] + 1 /\ crashes' = crashes
        BY <1>2, <2>1, <2>2, <2>4, <3>3
      <4>2. opened[p] <= approvals[p] + claims[p] + crashes
        BY <1>1, <1>2 DEF Accounted
      <4>3. opened[p] \in Nat /\ approvals[p] \in Nat /\ claims[p] \in Nat
        BY <1>2
      <4>4. opened'[p] + (IF Unused(p)' THEN 1 ELSE 0) <= approvals'[p] + claims'[p] + crashes'
        BY <1>2, <4>1, <4>2, <4>3
      <4> QED  BY <4>4 DEF Accounted
    <3>4. (\A q \in Requests : Fresh(q))'
      BY <3>1 DEF Fresh, OthersIdle
    <3> QED  BY <3>1, <3>2, <3>3, <3>4
  <2> QED  BY <2>3, <2>4
<1>11. ASSUME NEW r \in Requests, Evaluate(r) PROVE Goal
  <2>1. pc'[r] \in {"idle", "decide"} /\ pc[r] = "run"
    BY <1>2, <1>11 DEF Evaluate, Goto, Running, At
  <2>2. UNCHANGED <<statusFile, opened, approvals, claims, crashes>>
    BY <1>11 DEF Evaluate, SaveSafety, history
  <2>3. memory'[ProcessOf[r]].status = memory[ProcessOf[r]].status
    BY <1>1, <1>2, <1>11 DEF Evaluate, SaveSafety, HoldSafety
  <2>4. Alone' /\ OthersIdle(r) /\ OthersIdle(r)'
    BY <1>3, <1>11 DEF Evaluate, At, Running
  <2>5. \A p \in ProposalIds : Unused(p)' => Unused(p)
    BY <2>1, <2>2, <2>4 DEF Unused, OthersIdle
  <2>6. \A p \in ProposalIds : Accounted(p)'
    BY <2>2, <2>5, AccountKept, <1>0
  <2> QED  BY <1>1, <2>1, <2>2, <2>3, <2>4, <2>6 DEF Fresh, mine, OthersIdle
<1>12. ASSUME NEW r \in Requests, Decide(r) PROVE Goal
  <2>1. pc[r] = "decide" /\ pc'[r] \in {"idle", "mark"} /\ (pc'[r] = "mark" => job' = job)
    BY <1>2, <1>12 DEF Decide, Goto, At
  <2>2. UNCHANGED <<statusFile, opened, claims, crashes>>
    BY <1>12 DEF Decide, AppendDecision, history
  <2>3. Alone' /\ OthersIdle(r) /\ OthersIdle(r)'
    BY <1>3, <1>12 DEF Decide, At, Running
  <2>4. job[r].kind \in Guarded \ {"EXECUTE"} /\ job[r].p \in ProposalIds
    BY <1>1, <1>2, <1>12, <2>1 DEF Decide, BackedRequests
  <2>5. IF job[r].kind = "REJECT" THEN approvals' = approvals
        ELSE approvals' = [approvals EXCEPT ![job[r].p] = @ + 1]
    BY <1>12, <2>4 DEF Decide, AppendDecision, Guarded
  <2>6. ASSUME NEW p \in ProposalIds PROVE Accounted(p)'
    <3>1. CASE job[r].kind = "REJECT" \/ p # job[r].p
      <4>1. Unused(p)' => Unused(p)
        BY <2>1, <2>2, <2>3, <3>1 DEF Unused, OthersIdle
      <4>2. opened'[p] = opened[p] /\ approvals'[p] = approvals[p] /\ claims'[p] = claims[p] /\ crashes' = crashes
        BY <1>2, <2>2, <2>5, <3>1
      <4> QED  BY <4>1, <4>2, AccountKept, <1>0
    <3>2. CASE job[r].kind # "REJECT" /\ p = job[r].p
      <4>1. /\ opened'[p] = opened[p] /\ approvals'[p] = approvals[p] + 1
            /\ claims'[p] = claims[p] /\ crashes' = crashes
        BY <1>2, <2>2, <2>5, <3>2
      <4>2. opened[p] <= approvals[p] + claims[p] + crashes
        BY <1>1, <1>2 DEF Accounted
      <4>3. opened[p] \in Nat /\ approvals[p] \in Nat /\ claims[p] \in Nat
        BY <1>2
      <4>4. opened'[p] + (IF Unused(p)' THEN 1 ELSE 0) <= approvals'[p] + claims'[p] + crashes'
        BY <1>2, <4>1, <4>2, <4>3
      <4> QED  BY <4>4 DEF Accounted
    <3> QED  BY <3>1, <3>2
  <2> QED  BY <2>1, <2>3, <2>6 DEF Fresh, OthersIdle
<1>13. ASSUME NEW r \in Requests, MarkDecided(r) PROVE Goal
  <2>1. /\ pc[r] = "mark" /\ job[r].p \in ProposalIds
        /\ pc'[r] = (IF job[r].kind = "APPROVE" THEN "open" ELSE "idle")
        /\ pc'[r] = "open" => job' = job
    BY <1>2, <1>13 DEF MarkDecided, Goto, At
  <2>2. UNCHANGED <<opened, approvals, claims, crashes>>
    BY <1>13 DEF MarkDecided, SaveStatus, history
  <2>3. Alone' /\ OthersIdle(r) /\ OthersIdle(r)'
    BY <1>3, <1>13 DEF MarkDecided, At, Running
  <2>4. statusFile' = [statusFile EXCEPT ![job[r].p] =
                         IF job[r].kind = "REJECT" THEN "REJECTED_BY_HUMAN" ELSE Approved]
    BY <1>13 DEF MarkDecided, SaveStatus
  <2>5. ASSUME NEW p \in ProposalIds PROVE Unused(p)' => Unused(p)
    BY <1>2, <2>1, <2>3, <2>4 DEF Unused, OthersIdle, Approved
  <2>6. \A p \in ProposalIds : Accounted(p)'
    BY <2>2, <2>5, AccountKept, <1>0
  <2>7. (\A q \in Requests : Fresh(q))'
    BY <1>2, <2>1, <2>3, <2>4 DEF Fresh, OthersIdle
  <2> QED  BY <2>3, <2>6, <2>7
<1>14. ASSUME NEW r \in Requests, StartExecution(r) PROVE Goal
  <2>1. pc[r] = "decide" /\ pc'[r] = "open" /\ job' = job
    BY <1>2, <1>14 DEF StartExecution, Goto, At
  <2>2. UNCHANGED <<statusFile, opened, approvals, claims, crashes>>
    BY <1>14 DEF StartExecution, files, history
  <2>3. Alone' /\ OthersIdle(r) /\ OthersIdle(r)'
    BY <1>3, <1>14 DEF StartExecution, At, Running
  <2>4. statusFile[job[r].p] = Approved
    BY <1>1, <1>14, <2>1 DEF StartExecution, seen, Fresh
  <2>5. \A p \in ProposalIds : Unused(p)' => Unused(p)
    BY <2>1, <2>2, <2>3 DEF Unused, OthersIdle
  <2>6. \A p \in ProposalIds : Accounted(p)'
    BY <2>2, <2>5, AccountKept, <1>0
  <2> QED  BY <2>1, <2>2, <2>3, <2>4, <2>6 DEF Fresh, OthersIdle
<1>15. ASSUME NEW r \in Requests, OpenPosition(r) PROVE Goal
  <2>1. pc[r] = "open" /\ pc'[r] = "executed" /\ job' = job /\ job[r].p \in ProposalIds
    BY <1>2, <1>15 DEF OpenPosition, Goto, At
  <2>2. /\ UNCHANGED <<statusFile, approvals, claims, crashes>>
        /\ opened' = [opened EXCEPT ![job[r].p] = @ + 1]
    BY <1>15 DEF OpenPosition, history
  <2>3. Alone' /\ OthersIdle(r) /\ OthersIdle(r)'
    BY <1>3, <1>15 DEF OpenPosition, At, Running
  <2>4. ASSUME NEW p \in ProposalIds PROVE Accounted(p)'
    <3>1. CASE p # job[r].p
      <4>1. Unused(p)' => Unused(p)
        BY <2>1, <2>2, <2>3 DEF Unused, OthersIdle
      <4>2. opened'[p] = opened[p]
        BY <1>2, <2>2, <3>1
      <4> QED  BY <2>2, <4>1, <4>2, AccountKept, <1>0
    <3>2. CASE p = job[r].p
      <4>1. Unused(p)
        BY <1>1, <2>1, <2>3, <3>2 DEF Fresh, Unused, OthersIdle
      <4>2. ~Unused(p)'
        BY <2>1, <2>3, <3>2 DEF Unused, OthersIdle
      <4>3. opened[p] + 1 <= approvals[p] + claims[p] + crashes
        BY <1>1, <4>1 DEF Accounted
      <4>4. opened'[p] = opened[p] + 1
        BY <1>2, <2>2, <3>2
      <4>5. opened[p] \in Nat /\ approvals[p] \in Nat /\ claims[p] \in Nat
        BY <1>2
      <4>6. opened'[p] + (IF Unused(p)' THEN 1 ELSE 0) <= approvals'[p] + claims'[p] + crashes'
        BY <1>2, <2>2, <4>2, <4>3, <4>4, <4>5
      <4> QED  BY <4>6 DEF Accounted
    <3> QED  BY <3>1, <3>2
  <2> QED  BY <2>1, <2>3, <2>4 DEF Fresh, OthersIdle
<1>16. ASSUME NEW r \in Requests, MarkExecuted(r) PROVE Goal
  <2>1. pc[r] = "executed" /\ pc'[r] = "idle" /\ job[r].p \in ProposalIds
    BY <1>2, <1>16 DEF MarkExecuted, Goto, At
  <2>2. /\ UNCHANGED <<opened, approvals, claims, crashes>>
        /\ statusFile' = [statusFile EXCEPT ![job[r].p] = "EXECUTED"]
    BY <1>16 DEF MarkExecuted, SaveStatus, history
  <2>3. Alone' /\ OthersIdle(r) /\ OthersIdle(r)'
    BY <1>3, <1>16 DEF MarkExecuted, At, Running
  <2>4. ASSUME NEW p \in ProposalIds PROVE Unused(p)' => Unused(p)
    BY <1>2, <2>1, <2>2, <2>3 DEF Unused, OthersIdle, Approved
  <2>5. \A p \in ProposalIds : Accounted(p)'
    BY <2>2, <2>4, AccountKept, <1>0
  <2> QED  BY <2>1, <2>3, <2>5 DEF Fresh, OthersIdle
<1> HIDE DEF Goal
<1>17. Goal
  BY <1>4, <1>5, <1>6, <1>7, <1>9, <1>10, <1>11, <1>12, <1>13, <1>14, <1>15, <1>16, <1>18 DEF Next
<1> QED  BY <1>17 DEF Goal

(* As long as no two requests have run at the same time, each crash costs   *)
(* at most one position that was not approved again (approval_flow.py       *)
(* writes the decision before the status, backend_service.py the journal    *)
(* before the status).                                                      *)
THEOREM OpeningsBounded == Spec => []OpeningsBoundedByCrashes
<1>1. CrashInv => OpeningsBoundedByCrashes
  <2> SUFFICES ASSUME CrashInv, ~overlapped, NEW p \in ProposalIds
               PROVE  opened[p] <= approvals[p] + claims[p] + crashes
    BY DEF OpeningsBoundedByCrashes
  <2>1. opened[p] \in Nat /\ approvals[p] \in Nat /\ claims[p] \in Nat /\ crashes \in Nat
    BY DEF CrashInv, ApprovalInv, TypeInv, TypeOK
  <2> QED  BY <2>1 DEF CrashInv, Accounted
<1>2. CrashInv /\ [Next]_vars => CrashInv'
  BY CrashStep
<1> QED  BY <1>1, <1>2, CrashInit, PTL DEF Spec

=============================================================================
