---------------------------- MODULE OperatorDesk ----------------------------
(***************************************************************************)
(* The front ends of a trading session: the REST server, the Telegram       *)
(* runner and the command line, over one storage directory.  Each message,  *)
(* HTTP request or command reaches a handler of TradingSession with what    *)
(* that front end makes of it: which portfolio, which statuses and which    *)
(* identifier for a replacement.                                           *)
(*                                                                         *)
(* One program serves at a time (SharedSession is about programs that       *)
(* overlap); another one takes over with Start.                            *)
(*                                                                         *)
(* An identifier is a sequence: <<"p">> is a proposal an agent named, and   *)
(* <<"p", 2>> stands for p_v2, the name the topic gives to its version 2.   *)
(***************************************************************************)
EXTENDS TradingSession, Sequences

CONSTANTS
  Senders,       \* people and agents that write in the topic
  Operators,     \* CEX_TBOT_ALLOWED_SENDER_IDS
  JsonSenders    \* CEX_TBOT_JSON_SUBMITTER_IDS

(* The portfolio every command of the topic reports: no positions, no risk, *)
(* no drawdown.                                                            *)
Clean == [drawdown |-> 0, openRisk |-> 0, positions |-> 0]

ASSUME DeskAssumption ==
  /\ Operators \subseteq Senders
  /\ JsonSenders \subseteq Senders
  /\ Clean \in Portfolios

VARIABLES
  serving,      \* the program that serves now
  sanctioned    \* history: what is stored under the identifier is approved
                \* and the approval neither used nor withdrawn

deskVars == <<proposals, reserved, safety, lastControl, approvals, opened,
              serving, sanctioned>>

Programs == {"rest", "telegram", "cli"}

DeskInit ==
  /\ Init
  /\ serving \in Programs
  /\ sanctioned = [p \in ProposalIds |-> FALSE]

(* SenderPolicy.is_allowed; the production bridges refuse everybody when    *)
(* they are given no identifiers.                                          *)
IsAllowed(policy, s) == IF policy.ids = {} THEN policy.open ELSE s \in policy.ids

OperatorPolicy == [ids |-> Operators, open |-> FALSE]
JsonPolicy == [ids |-> JsonSenders, open |-> FALSE]

(* A program ends and another one, or the same, opens the directory. *)
Start(program) ==
  /\ Restart
  /\ serving' = program
  /\ UNCHANGED sanctioned

-----------------------------------------------------------------------------
(* What the handlers do, whichever front end calls them. *)

Withdrawn(ids) == [p \in ProposalIds |-> sanctioned[p] /\ p \notin ids]

Submit(p, statuses) ==
  /\ SubmitProposal(p)
  /\ proposals'[p].status \in statuses
  /\ sanctioned' = Withdrawn({p})
  /\ UNCHANGED serving

(* ApiSurface.command with APPROVE, executed at once or later. *)
Approve(p, pf, execute) ==
  /\ IF execute
     THEN /\ ApproveAndExecute(p, pf) \/ ReapproveExecuted(p, pf)
          /\ sanctioned' = Withdrawn({p})
     ELSE /\ ApproveOnly(p, pf)
          /\ sanctioned' = [sanctioned EXCEPT ![p] = TRUE]
  /\ UNCHANGED serving

Turndown(p, pf) ==
  /\ Reject(p, pf)
  /\ sanctioned' = Withdrawn({p})
  /\ UNCHANGED serving

Replace(p, q, pf) ==
  /\ Modify(p, q, pf)
  /\ sanctioned' = Withdrawn({p, q})
  /\ UNCHANGED serving

ExecuteNow(p, pf) ==
  /\ ExecuteApproved(p, pf)
  /\ sanctioned' = Withdrawn({p})
  /\ UNCHANGED serving

(* Refused by the halt or a block, or admitted without anything to do. *)
NoDecision(pf) ==
  /\ Refused(pf) \/ Ineffective(pf)
  /\ UNCHANGED <<serving, sanctioned>>

Safety ==
  /\ ActivateHalt \/ ClearEmergencyHalt \/ ClearSafetyControls
  /\ UNCHANGED <<serving, sanctioned>>

-----------------------------------------------------------------------------
(* The REST server: portfolio, status, version and the identifier of a      *)
(* replacement are those of the request body.                              *)

RestSubmit(p) == serving = "rest" /\ Submit(p, SubmitStatuses)

(* POST /commands carries any text; without a replacement, MODIFY does      *)
(* nothing.                                                                *)
RestCommand(p, pf) ==
  /\ serving = "rest"
  /\ \/ \E execute \in BOOLEAN : Approve(p, pf, execute)
     \/ Turndown(p, pf)
     \/ NoDecision(pf)

RestModify(p, q, pf) ==
  /\ serving = "rest"
  /\ Replace(p, q, pf) \/ NoDecision(pf)

RestExecute(p, pf) ==
  /\ serving = "rest"
  /\ ExecuteNow(p, pf) \/ NoDecision(pf)

RestSafety == serving = "rest" /\ Safety

-----------------------------------------------------------------------------
(* The topic, served by the Telegram runner and by POST /topic/command. *)

TopicOpen(s) == serving \in {"rest", "telegram"} /\ IsAllowed(OperatorPolicy, s)

ReplacementId(p) == Append(p, proposals[p].version + 1)

TopicApprove(s, p) ==
  /\ TopicOpen(s)
  /\ (\E execute \in BOOLEAN : Approve(p, Clean, execute)) \/ NoDecision(Clean)

TopicReject(s, p) == TopicOpen(s) /\ (Turndown(p, Clean) \/ NoDecision(Clean))

(* The changes /modify reads are of stop, targets and thesis only. *)
SameRisk(p, q) == proposals'[q].risk = proposals[p].risk

(* /modify looks the proposal up before anything else. *)
TopicModify(s, p) ==
  /\ TopicOpen(s)
  /\ Known(p)
  /\ \/ /\ ReplacementId(p) \in ProposalIds
        /\ Replace(p, ReplacementId(p), Clean)
        /\ SameRisk(p, ReplacementId(p))
     \/ NoDecision(Clean)

TopicExecute(s, p) == TopicOpen(s) /\ (ExecuteNow(p, Clean) \/ NoDecision(Clean))

TopicSafety(s) == TopicOpen(s) /\ Safety

(* /seed_demo stores the demonstration proposal, pending, version 1. *)
TopicSeed(s, p) ==
  /\ TopicOpen(s)
  /\ Submit(p, {"PENDING_APPROVAL"})
  /\ proposals'[p].version = 1

(* A JSON message in the Telegram topic is stored as pending whatever       *)
(* status it carries.                                                      *)
JsonSubmit(s, p) ==
  /\ serving = "telegram"
  /\ IsAllowed(JsonPolicy, s)
  /\ Submit(p, {"PENDING_APPROVAL"})

-----------------------------------------------------------------------------
(* The command line: one request per program, so each follows a Start.      *)

CliSubmit(p) == serving = "cli" /\ Submit(p, {"PENDING_APPROVAL"})

(* "command" passes no replacement. *)
CliCommand(p, pf) ==
  /\ serving = "cli"
  /\ \/ \E execute \in BOOLEAN : Approve(p, pf, execute)
     \/ Turndown(p, pf)
     \/ NoDecision(pf)

CliExecute(p, pf) == serving = "cli" /\ (ExecuteNow(p, pf) \/ NoDecision(pf))

CliSafety == serving = "cli" /\ Safety

Request(p, pf) ==
  \/ RestCommand(p, pf)
  \/ RestExecute(p, pf)
  \/ CliCommand(p, pf)
  \/ CliExecute(p, pf)
  \/ \E q \in ProposalIds : RestModify(p, q, pf)

Message(s, p) ==
  \/ TopicApprove(s, p)
  \/ TopicReject(s, p)
  \/ TopicModify(s, p)
  \/ TopicExecute(s, p)
  \/ TopicSeed(s, p)
  \/ JsonSubmit(s, p)

DeskNext ==
  \/ \E program \in Programs : Start(program)
  \/ RestSafety
  \/ CliSafety
  \/ \E s \in Senders : TopicSafety(s)
  \/ \E p \in ProposalIds :
       \/ RestSubmit(p)
       \/ CliSubmit(p)
       \/ \E pf \in Portfolios : Request(p, pf)
       \/ \E s \in Senders : Message(s, p)

DeskSpec == DeskInit /\ [][DeskNext]_deskVars

-----------------------------------------------------------------------------
(* A position is opened by the APPROVE itself or under an approval of what  *)
(* is stored under the identifier at that moment: never under one given to  *)
(* an earlier content (a submission or a MODIFY from another front end may  *)
(* have put a different proposal there), rejected since, or already used.   *)
(* It needs that no submission claims to be approved.                      *)
OpensWhatWasApproved ==
  [][\A p \in ProposalIds :
       opened'[p] > opened[p] => approvals'[p] > approvals[p] \/ sanctioned[p]]_deskVars

=============================================================================
