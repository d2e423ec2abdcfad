--------------------------- MODULE WriteInterlock ---------------------------
(***************************************************************************)
(* The commands of the topic that act at the exchange: /demo_place_test_    *)
(* order, /demo_cancel_order and /demo_smoke, behind the one-shot arm of    *)
(* TransportCommandBridge, in one process.  The Telegram runner handles     *)
(* its messages one by one (one thread); the REST server hands them to the  *)
(* threads of a pool, which share the bridge and so the arm.               *)
(*                                                                         *)
(* A test order is immediate-or-cancel and final once the exchange has      *)
(* accepted it; "resting" is an order that may be open, such as a leg of a  *)
(* bracket, and "unknown" an identifier the exchange does not know.        *)
(***************************************************************************)
EXTENDS Integers, FiniteSets

CONSTANTS
  Threads,       \* threads that handle messages
  Writers,       \* senders both policies of the bridge allow
  MaxOrders      \* bound: test orders explored

ASSUME InterlockAssumption ==
  /\ IsFiniteSet(Threads)
  /\ "nobody" \notin Writers
  /\ MaxOrders \in Nat

VARIABLES
  armed,         \* the sender armed now; "nobody" once the two minutes are over
  handling,      \* per thread, the write it is dispatching, or Idle
  placed,        \* test orders the exchange accepted
  audited,       \* DEMO_ORDER_PLACED entries of the transcript
  resting,       \* the resting order at the exchange: "open" or "final"
  cancelEntries, \* orders with a cancellation entry in the transcript
  credit,        \* history: writes the last arm of each sender still allows
  lost           \* history: accepted orders whose reply never got back

writeVars == <<armed, handling, placed, audited, resting, cancelEntries,
               credit, lost>>

Orders == {"test", "resting", "unknown"}
Commands == {"place", "cancel", "smoke", "unusable"}
Idle == [at |-> "idle"]
Write == [sender : Writers, guarded : BOOLEAN, command : Commands,
          at : {"place", "reply", "cancel", "status", "finish"}, order : Orders]

WriteInit ==
  /\ armed = "nobody"
  /\ handling = [t \in Threads |-> Idle]
  /\ placed = 0 /\ audited = 0 /\ lost = 0
  /\ resting = "open"
  /\ cancelEntries = {}
  /\ credit = [s \in Writers |-> 0]

-----------------------------------------------------------------------------
(* The arm. *)

ArmFor(s) ==
  /\ armed' = s
  /\ credit' = [credit EXCEPT ![s] = Cardinality(Threads)]
  /\ UNCHANGED <<handling, placed, audited, resting, cancelEntries, lost>>

Disarm ==
  /\ armed' = "nobody"
  /\ UNCHANGED <<handling, placed, audited, resting, cancelEntries, credit, lost>>

(* The arm's time to live is over. *)
Expire == armed # "nobody" /\ Disarm

(* Mutant of IsArmedFor: any arm will do. *)
IsArmedForAnyone(s) == armed # "nobody"

IsArmedFor(s) == armed = s

-----------------------------------------------------------------------------
(* A write command. *)

(* Where the handler of a command begins; "unusable" is one without its     *)
(* arguments, with a wrong side, or outside gate_demo mode.                *)
FirstStep(command) ==
  CASE command \in {"place", "smoke"} -> "place"
    [] command = "cancel" -> "cancel"
    [] OTHER -> "finish"

(* The bridge compares the word as written, the dispatcher strips the name  *)
(* of the bot: a command addressed as /demo_smoke@bot is dispatched without  *)
(* the arm and leaves it alone.                                            *)
BeginWrite(t, s, guarded) ==
  /\ handling[t] = Idle
  /\ guarded => IsArmedFor(s)
  /\ \E command \in Commands, order \in {"resting", "unknown"} :
       /\ command # "cancel" => order = "unknown"
       /\ handling' = [handling EXCEPT ![t] =
            [sender |-> s, guarded |-> guarded, command |-> command,
             at |-> FirstStep(command), order |-> order]]
  /\ UNCHANGED <<armed, placed, audited, resting, cancelEntries, credit, lost>>

GoTo(t, at) == handling' = [handling EXCEPT ![t].at = at]

(* The order is placed and the reply arrives. *)
PlaceSucceeds(t) ==
  /\ handling[t].at = "place"
  /\ placed < MaxOrders
  /\ placed' = placed + 1
  /\ handling' = [handling EXCEPT ![t].at = "reply", ![t].order = "test"]
  /\ UNCHANGED <<armed, audited, resting, cancelEntries, credit, lost>>

(* The call raises; the exchange may have accepted the order all the same.  *)
PlaceFails(t) ==
  /\ handling[t].at = "place"
  /\ \E accepted \in {n \in {0, 1} : placed + n <= MaxOrders} :
       placed' = placed + accepted /\ lost' = lost + accepted
  /\ GoTo(t, "finish")
  /\ UNCHANGED <<armed, audited, resting, cancelEntries, credit>>

(* Mutant of NextAfterReply: the order of a smoke is audited twice. *)
NextAfterReplyAgain(command) == IF command = "smoke" THEN "reply" ELSE "finish"

NextAfterReply(command) == IF command = "smoke" THEN "cancel" ELSE "finish"

(* The entry of the transcript; a smoke goes on to cancel what it placed.   *)
AuditPlacement(t) ==
  /\ handling[t].at = "reply"
  /\ audited' = audited + 1
  /\ GoTo(t, NextAfterReply(handling[t].command))
  /\ UNCHANGED <<armed, placed, resting, cancelEntries, credit, lost>>

CanCancel(order) == order = "resting" /\ resting = "open"

(* The exchange cancels the order, and the reply arrives or is lost. *)
CancelSucceeds(t) ==
  /\ handling[t].at = "cancel"
  /\ CanCancel(handling[t].order)
  /\ resting' = "final"
  /\ cancelEntries' \in {cancelEntries, cancelEntries \cup {handling[t].order}}
  /\ GoTo(t, "finish")
  /\ UNCHANGED <<armed, placed, audited, credit, lost>>

(* ORDER_NOT_FOUND: the handler asks for the status before it concludes. *)
CancelNotFound(t) ==
  /\ handling[t].at = "cancel"
  /\ ~CanCancel(handling[t].order)
  /\ GoTo(t, "status")
  /\ UNCHANGED <<armed, placed, audited, resting, cancelEntries, credit, lost>>

CallFails(t) ==
  /\ handling[t].at \in {"cancel", "status"}
  /\ GoTo(t, "finish")
  /\ UNCHANGED <<armed, placed, audited, resting, cancelEntries, credit, lost>>

(* Mutant of IsFinal: whatever cannot be found is taken for final. *)
IsFinalUnchecked(order) == TRUE

IsFinal(order) == order = "test" \/ (order = "resting" /\ resting = "final")

(* DEMO_ORDER_ALREADY_FINAL, if the exchange knows the order as final. *)
AuditFinal(t) ==
  /\ handling[t].at = "status"
  /\ IsFinal(handling[t].order)
  /\ cancelEntries' = cancelEntries \cup {handling[t].order}
  /\ GoTo(t, "finish")
  /\ UNCHANGED <<armed, placed, audited, resting, credit, lost>>

(* Mutant of Spent: the arm is kept for the next command. *)
SpentLater(guarded) == armed

(* The arm is cleared after the command, whoever armed it meanwhile. *)
Spent(guarded) == IF guarded THEN "nobody" ELSE armed

FinishWrite(t) ==
  /\ handling[t].at = "finish"
  /\ handling' = [handling EXCEPT ![t] = Idle]
  /\ armed' = Spent(handling[t].guarded)
  /\ credit' = IF handling[t].guarded
               THEN [credit EXCEPT ![handling[t].sender] = @ - 1] ELSE credit
  /\ UNCHANGED <<placed, audited, resting, cancelEntries, lost>>

InHand == {t \in Threads : handling[t].at = "reply"}

(* An exception no handler expects (the transcript cannot be written) ends  *)
(* the command before the arm is cleared.                                  *)
WriteRaises(t) ==
  /\ handling[t] # Idle
  /\ handling' = [handling EXCEPT ![t] = Idle]
  /\ lost' = lost + Cardinality(InHand \cap {t})
  /\ UNCHANGED <<armed, placed, audited, resting, cancelEntries, credit>>

(* The process ends and a new one begins unarmed. *)
RestartBridge ==
  /\ armed' = "nobody"
  /\ handling' = [t \in Threads |-> Idle]
  /\ credit' = [s \in Writers |-> 0]
  /\ lost' = lost + Cardinality(InHand)
  /\ UNCHANGED <<placed, audited, resting, cancelEntries>>

(* The resting order is filled, triggered or cancelled at the exchange. *)
RestingSettles ==
  /\ resting = "open"
  /\ resting' = "final"
  /\ UNCHANGED <<armed, handling, placed, audited, cancelEntries, credit, lost>>

WriteStep(t) ==
  \/ PlaceSucceeds(t)
  \/ PlaceFails(t)
  \/ AuditPlacement(t)
  \/ CancelSucceeds(t)
  \/ CancelNotFound(t)
  \/ CallFails(t)
  \/ AuditFinal(t)
  \/ FinishWrite(t)
  \/ WriteRaises(t)

WriteNext ==
  \/ \E s \in Writers :
       \/ ArmFor(s)
       \/ \E t \in Threads, guarded \in BOOLEAN : BeginWrite(t, s, guarded)
  \/ Disarm
  \/ Expire
  \/ \E t \in Threads : WriteStep(t)
  \/ RestartBridge
  \/ RestingSettles

WriteSpec == WriteInit /\ [][WriteNext]_writeVars

-----------------------------------------------------------------------------
(* Type correctness. *)
WriteTypeOK ==
  /\ armed \in Writers \cup {"nobody"}
  /\ handling \in [Threads -> Write \cup {Idle}]
  /\ placed \in 0..MaxOrders
  /\ audited \in 0..placed /\ lost \in 0..placed
  /\ resting \in {"open", "final"}
  /\ cancelEntries \subseteq Orders
  /\ credit \in [Writers -> Int]

(* After each arm, its sender completes at most one write per thread that   *)
(* handles messages (one, with the Telegram runner), and nobody else any:   *)
(* however arms, disarms, expiries and overlapping writes of several        *)
(* senders mix, the plainly written commands never get more than that.     *)
(* Commands that ended with an exception do not use the arm up, and the     *)
(* ones addressed to the bot by name do not need it.                       *)
WritesWithinArms == \A s \in Writers : credit[s] >= 0

(* The transcript accounts for the test orders: an order the exchange       *)
(* accepted has its one entry, or its reply is still being handled, or it   *)
(* was lost with a failed call, an exception or the process.               *)
PlacementsAudited == placed = audited + lost + Cardinality(InHand)

(* A cancellation the transcript reports, as done or as not needed, is of   *)
(* an order that exists and is final, though the order may settle between   *)
(* the calls and replies get lost.                                         *)
CancellationsAreFinal ==
  /\ "unknown" \notin cancelEntries
  /\ "resting" \in cancelEntries => resting = "final"

=============================================================================
