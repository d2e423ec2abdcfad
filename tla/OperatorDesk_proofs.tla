------------------------- MODULE OperatorDesk_proofs -------------------------
(***************************************************************************)
(* Proofs about OperatorDesk: whatever the front ends do is a behaviour of  *)
(* the session, so its theorems hold of them; and no position is opened     *)
(* without a standing approval of what is stored.                          *)
(***************************************************************************)
EXTENDS OperatorDesk, TradingSession_proofs

(* The front ends differ in who calls a handler and with what. *)
HandlerStep ==
  \/ \E program \in Programs : Start(program)
  \/ Safety
  \/ \E p \in ProposalIds, statuses \in {SubmitStatuses, {"PENDING_APPROVAL"}} :
       Submit(p, statuses)
  \/ \E p \in ProposalIds, pf \in Portfolios :
       \/ \E execute \in BOOLEAN : Approve(p, pf, execute)
       \/ Turndown(p, pf)
       \/ \E q \in ProposalIds : Replace(p, q, pf)
       \/ ExecuteNow(p, pf)
       \/ NoDecision(pf)

LEMMA RequestIsHandled ==
  ASSUME NEW p \in ProposalIds, NEW pf \in Portfolios, Request(p, pf)
  PROVE  HandlerStep
<1> USE DEF HandlerStep
<1>1. CASE RestCommand(p, pf)
  BY <1>1 DEF RestCommand
<1>2. CASE RestExecute(p, pf)
  BY <1>2 DEF RestExecute
<1>3. CASE CliCommand(p, pf)
  BY <1>3 DEF CliCommand
<1>4. CASE CliExecute(p, pf)
  BY <1>4 DEF CliExecute
<1>5. ASSUME NEW q \in ProposalIds, RestModify(p, q, pf) PROVE HandlerStep
  BY <1>5 DEF RestModify
<1> QED  BY <1>1, <1>2, <1>3, <1>4, <1>5 DEF Request

LEMMA MessageIsHandled ==
  ASSUME NEW s \in Senders, NEW p \in ProposalIds, Message(s, p)
  PROVE  HandlerStep
<1> USE DEF HandlerStep
<1>1. Clean \in Portfolios
  BY DeskAssumption DEF DeskAssumption
<1>2. CASE TopicApprove(s, p)
  BY <1>1, <1>2 DEF TopicApprove
<1>3. CASE TopicReject(s, p)
  BY <1>1, <1>3 DEF TopicReject
<1>4. CASE TopicModify(s, p)
  BY <1>1, <1>4 DEF TopicModify
<1>5. CASE TopicExecute(s, p)
  BY <1>1, <1>5 DEF TopicExecute
<1>6. CASE TopicSeed(s, p)
  BY <1>6 DEF TopicSeed
<1>7. CASE JsonSubmit(s, p)
  BY <1>7 DEF JsonSubmit
<1> QED  BY <1>2, <1>3, <1>4, <1>5, <1>6, <1>7 DEF Message

LEMMA DeskStepIsHandled == DeskNext => HandlerStep
<1> SUFFICES ASSUME DeskNext PROVE HandlerStep
  OBVIOUS
<1>1. CASE (\E program \in Programs : Start(program)) \/ RestSafety \/ CliSafety
           \/ (\E s \in Senders : TopicSafety(s))
  BY <1>1 DEF HandlerStep, RestSafety, CliSafety, TopicSafety
<1>2. ASSUME NEW p \in ProposalIds, RestSubmit(p) \/ CliSubmit(p) PROVE HandlerStep
  BY <1>2 DEF HandlerStep, RestSubmit, CliSubmit
<1>3. ASSUME NEW p \in ProposalIds, NEW pf \in Portfolios, Request(p, pf)
      PROVE  HandlerStep
  BY <1>3, RequestIsHandled
<1>4. ASSUME NEW p \in ProposalIds, NEW s \in Senders, Message(s, p)
      PROVE  HandlerStep
  BY <1>4, MessageIsHandled
<1> QED  BY <1>1, <1>2, <1>3, <1>4 DEF DeskNext

-----------------------------------------------------------------------------
(* The desk is a session. *)

LEMMA HandlersAreSession == HandlerStep => Next
<1> SUFFICES ASSUME HandlerStep PROVE Next
  OBVIOUS
<1> USE DEF Next
<1>1. ASSUME NEW program \in Programs, Start(program) PROVE Next
  BY <1>1 DEF Start
<1>2. CASE Safety
  BY <1>2 DEF Safety
<1>3. ASSUME NEW p \in ProposalIds, NEW statuses, Submit(p, statuses) PROVE Next
  BY <1>3 DEF Submit
<1>4. ASSUME NEW p \in ProposalIds, NEW pf \in Portfolios,
             \/ \E execute \in BOOLEAN : Approve(p, pf, execute)
             \/ Turndown(p, pf)
             \/ \E q \in ProposalIds : Replace(p, q, pf)
             \/ ExecuteNow(p, pf)
      PROVE  Next
  <2>1. Decide(p, pf)
    BY <1>4 DEF Decide, Approve, Turndown, Replace, ExecuteNow
  <2> QED  BY <2>1
<1>5. ASSUME NEW pf \in Portfolios, NoDecision(pf) PROVE Next
  BY <1>5 DEF NoDecision
<1> QED  BY <1>1, <1>2, <1>3, <1>4, <1>5 DEF HandlerStep

(* Every behaviour of the front ends is one of the session: the theorems of *)
(* TradingSession_proofs hold with the REST server, the topic and the       *)
(* command line in turn.                                                   *)
THEOREM DeskIsSession == DeskSpec => Spec
<1>1. DeskInit => Init
  BY DEF DeskInit
<1>2. [DeskNext]_deskVars => [Next]_vars
  BY DeskStepIsHandled, HandlersAreSession DEF deskVars, vars
<1> QED  BY <1>1, <1>2, PTL DEF DeskSpec, Spec

-----------------------------------------------------------------------------
(* The approvals that stand. *)

Sanctioned ==
  /\ sanctioned \in [ProposalIds -> BOOLEAN]
  /\ \A p \in ProposalIds : proposals[p].status = Approved => sanctioned[p]

LEMMA SanctionedInit == DeskInit => Sanctioned
BY DEF DeskInit, Init, Sanctioned, Absent, Approved

(* What a handler does to the other proposals, and to its own. *)
LEMMA WithdrawnKeeps ==
  ASSUME Sanctioned, NEW ids, sanctioned' = Withdrawn(ids),
         \A r \in ProposalIds \ ids : proposals'[r] = proposals[r],
         \A r \in ProposalIds \cap ids : proposals'[r].status # Approved
  PROVE  Sanctioned'
BY DEF Sanctioned, Withdrawn

LEMMA SanctionedStep ==
  ASSUME Approved \notin SubmitStatuses, TradeTypeOK, Sanctioned, HandlerStep
  PROVE  Sanctioned'
<1>1. ASSUME UNCHANGED <<proposals, sanctioned>> PROVE Sanctioned'
  BY <1>1 DEF Sanctioned
<1>2. ASSUME NEW p \in ProposalIds, NEW statuses, Submit(p, statuses)
      PROVE  Sanctioned'
  <2>1. \A r \in ProposalIds \ {p} : proposals'[r] = proposals[r]
    BY <1>2 DEF Submit, SubmitProposal, TradeTypeOK
  <2>2. proposals'[p].status # Approved
    BY <1>2 DEF Submit, SubmitProposal, Submissions, TradeTypeOK
  <2> QED  BY <1>2, <2>1, <2>2, WithdrawnKeeps DEF Submit
<1>3. ASSUME NEW p \in ProposalIds, NEW pf \in Portfolios, NEW execute \in BOOLEAN,
             Approve(p, pf, execute)
      PROVE  Sanctioned'
  <2>1. CASE execute /\ ApproveAndExecute(p, pf)
    <3>1. Known(p) /\ Execute(p, pf)
      BY <2>1 DEF ApproveAndExecute, RecordApproval
    <3> QED  BY <1>3, <2>1, <3>1, ExecuteEffect, WithdrawnKeeps DEF Approve
  <2>2. CASE execute /\ ReapproveExecuted(p, pf)
    <3>1. proposals' = proposals /\ proposals[p].status # Approved
      BY <2>2 DEF ReapproveExecuted, Approved
    <3> QED  BY <1>3, <2>2, <3>1, WithdrawnKeeps DEF Approve
  <2>3. CASE ~execute
    <3>1. ApproveOnly(p, pf) /\ sanctioned' = [sanctioned EXCEPT ![p] = TRUE]
      BY <1>3, <2>3 DEF Approve
    <3>2. \A r \in ProposalIds \ {p} : proposals'[r] = proposals[r]
      BY <3>1 DEF ApproveOnly, TradeTypeOK
    <3> QED  BY <3>1, <3>2 DEF Sanctioned
  <2> QED  BY <1>3, <2>1, <2>2, <2>3 DEF Approve
<1>4. ASSUME NEW p \in ProposalIds, NEW pf \in Portfolios, Turndown(p, pf)
      PROVE  Sanctioned'
  <2>1. \A r \in ProposalIds \ {p} : proposals'[r] = proposals[r]
    BY <1>4 DEF Turndown, Reject, TradeTypeOK
  <2>2. proposals'[p].status # Approved
    BY <1>4 DEF Turndown, Reject, TradeTypeOK, Known, Stored, Approved
  <2> QED  BY <1>4, <2>1, <2>2, WithdrawnKeeps DEF Turndown
<1>5. ASSUME NEW p \in ProposalIds, NEW pf \in Portfolios, NEW q \in ProposalIds,
             Replace(p, q, pf)
      PROVE  Sanctioned'
  <2>1. \A r \in ProposalIds \ {p, q} : proposals'[r] = proposals[r]
    BY <1>5 DEF Replace, Modify, TradeTypeOK
  <2>2. \A r \in ProposalIds \cap {p, q} : proposals'[r].status # Approved
    BY <1>5 DEF Replace, Modify, TradeTypeOK, Known, Stored, Approved
  <2> QED  BY <1>5, <2>1, <2>2, WithdrawnKeeps DEF Replace
<1>6. ASSUME NEW p \in ProposalIds, NEW pf \in Portfolios, ExecuteNow(p, pf)
      PROVE  Sanctioned'
  <2>1. Known(p) /\ Execute(p, pf)
    BY <1>6 DEF ExecuteNow, ExecuteApproved, ReadyToExecute, Known, Approved, Absent
  <2> QED  BY <1>6, <2>1, ExecuteEffect, WithdrawnKeeps DEF ExecuteNow
<1>7. CASE (\E program \in Programs : Start(program)) \/ Safety
           \/ (\E pf \in Portfolios : NoDecision(pf))
  BY <1>1, <1>7
     DEF Start, Restart, Safety, ActivateHalt, ClearEmergencyHalt, trade,
         ClearSafetyControls, NoDecision, Refused, Ineffective
<1> QED  BY <1>2, <1>3, <1>4, <1>5, <1>6, <1>7 DEF HandlerStep

(* A step that opens a position approves, or executes what is approved. *)
LEMMA OpeningSanctioned ==
  ASSUME TradeTypeOK, Sanctioned, HandlerStep, NEW p \in ProposalIds,
         opened'[p] > opened[p]
  PROVE  approvals'[p] > approvals[p] \/ sanctioned[p]
<1>1. CASE \E r \in ProposalIds, pf \in Portfolios : ApproveAndExecute(r, pf)
  <2>1. PICK r \in ProposalIds, pf \in Portfolios : ApproveAndExecute(r, pf)
    BY <1>1
  <2>2. Known(r) /\ Execute(r, pf) /\ approvals' = [approvals EXCEPT ![r] = @ + 1]
    BY <2>1 DEF ApproveAndExecute, RecordApproval
  <2>3. r = p
    BY <2>2, ExecuteEffect DEF TradeTypeOK
  <2> QED  BY <2>2, <2>3 DEF TradeTypeOK
<1>2. CASE \E r \in ProposalIds, pf \in Portfolios : ExecuteApproved(r, pf)
  <2>1. PICK r \in ProposalIds, pf \in Portfolios : ExecuteApproved(r, pf)
    BY <1>2
  <2>2. Known(r) /\ Execute(r, pf) /\ proposals[r].status = Approved
    BY <2>1 DEF ExecuteApproved, ReadyToExecute, Known, Approved, Absent
  <2>3. r = p
    BY <2>2, ExecuteEffect DEF TradeTypeOK
  <2> QED  BY <2>2, <2>3 DEF Sanctioned
<1>3. CASE opened' = opened
  BY <1>3 DEF TradeTypeOK
<1>4. ASSUME NEW r \in ProposalIds, NEW pf \in Portfolios, NEW execute \in BOOLEAN,
             Approve(r, pf, execute)
      PROVE  ApproveAndExecute(r, pf) \/ opened' = opened
  BY <1>4 DEF Approve, ReapproveExecuted, ApproveOnly
<1>5. ASSUME NEW r \in ProposalIds, NEW pf \in Portfolios,
             Turndown(r, pf) \/ (\E q \in ProposalIds : Replace(r, q, pf))
      PROVE  opened' = opened
  BY <1>5 DEF Turndown, Reject, Replace, Modify
<1>6. CASE (\E program \in Programs : Start(program)) \/ Safety
           \/ (\E r \in ProposalIds, st \in {SubmitStatuses, {"PENDING_APPROVAL"}} :
                 Submit(r, st))
           \/ (\E pf \in Portfolios : NoDecision(pf))
  BY <1>3, <1>6
     DEF Start, Restart, Safety, ActivateHalt, ClearEmergencyHalt, trade, Submit,
         SubmitProposal, ClearSafetyControls, NoDecision, Refused, Ineffective
<1> QED
  BY <1>1, <1>2, <1>3, <1>4, <1>5, <1>6 DEF HandlerStep, ExecuteNow

(* A position opens under its own APPROVE or a standing approval of what is *)
(* stored, if nothing is submitted as already approved.                    *)
THEOREM DeskOpensWhatWasApproved ==
  ASSUME Approved \notin SubmitStatuses
  PROVE  DeskSpec => OpensWhatWasApproved
<1> DEFINE DeskInv == TradeTypeOK /\ Sanctioned
<1>1. DeskInit => DeskInv
  BY TypeInit, SanctionedInit DEF DeskInit, TypeOK, TradeTypeOK
<1>2. ASSUME DeskInv, [DeskNext]_deskVars PROVE DeskInv'
  <2>1. TradeTypeOK'
    BY <1>2, DeskStepIsHandled, HandlersAreSession, TradeTypeStep DEF deskVars, vars
  <2>2. CASE DeskNext
    BY <1>2, <2>1, <2>2, DeskStepIsHandled, SanctionedStep
  <2>3. CASE UNCHANGED deskVars
    BY <1>2, <2>1, <2>3 DEF deskVars, Sanctioned
  <2> QED  BY <1>2, <2>2, <2>3
<1>3. ASSUME DeskInv, [DeskNext]_deskVars
      PROVE  [\A p \in ProposalIds :
                opened'[p] > opened[p]
                  => approvals'[p] > approvals[p] \/ sanctioned[p]]_deskVars
  BY <1>3, DeskStepIsHandled, OpeningSanctioned
<1> HIDE DEF DeskInv
<1> QED  BY <1>1, <1>2, <1>3, PTL DEF DeskSpec, OpensWhatWasApproved

=============================================================================
