------------------------ MODULE WriteInterlock_proofs ------------------------
(***************************************************************************)
(* Proofs about WriteInterlock, for any number of threads, any writers and  *)
(* any number of test orders.                                              *)
(***************************************************************************)
EXTENDS WriteInterlock, FiniteSetTheorems, TLAPS

(* The writes that passed the arm of s and are still being dispatched. *)
Dispatched(s) == {t \in Threads : /\ handling[t] \in Write
                                  /\ handling[t].guarded
                                  /\ handling[t].sender = s}

HandlingTyped == handling \in [Threads -> Write \cup {Idle}]

ArmTyped ==
  /\ armed \in Writers \cup {"nobody"}
  /\ credit \in [Writers -> Int]

(* Every write being dispatched under an arm of s is covered by the credit  *)
(* of s, and a standing arm covers one write of every thread.              *)
ArmCovers ==
  \A s \in Writers :
    /\ credit[s] >= Cardinality(Dispatched(s))
    /\ armed = s => credit[s] >= Cardinality(Threads)

OrdersTyped ==
  /\ placed \in Nat /\ audited \in Nat /\ lost \in Nat
  /\ placed <= MaxOrders

-----------------------------------------------------------------------------
(* A thread that waits for something is dispatching a write. *)
LEMMA Dispatching ==
  ASSUME HandlingTyped, NEW t \in Threads, handling[t].at # "idle"
  PROVE  handling[t] \in Write
BY DEF HandlingTyped, Idle

LEMMA WriteStepTyped ==
  ASSUME HandlingTyped, NEW t \in Threads, WriteStep(t)
  PROVE  HandlingTyped'
<1>1. CASE PlaceSucceeds(t)
  BY <1>1, Dispatching, ZenonT(60) DEF PlaceSucceeds, HandlingTyped, Write, Orders
<1>2. CASE PlaceFails(t)
  BY <1>2, Dispatching DEF PlaceFails, GoTo, HandlingTyped, Write
<1>3. CASE AuditPlacement(t)
  <2>1. NextAfterReply(handling[t].command) \in {"cancel", "finish"}
    BY DEF NextAfterReply
  <2> QED  BY <1>3, <2>1, Dispatching DEF AuditPlacement, GoTo, HandlingTyped, Write
<1>4. CASE CancelSucceeds(t)
  BY <1>4, Dispatching DEF CancelSucceeds, GoTo, HandlingTyped, Write
<1>5. CASE CancelNotFound(t)
  BY <1>5, Dispatching DEF CancelNotFound, GoTo, HandlingTyped, Write
<1>6. CASE CallFails(t)
  BY <1>6, Dispatching DEF CallFails, GoTo, HandlingTyped, Write
<1>7. CASE AuditFinal(t)
  BY <1>7, Dispatching DEF AuditFinal, GoTo, HandlingTyped, Write
<1>8. CASE FinishWrite(t)
  BY <1>8 DEF FinishWrite, HandlingTyped
<1>9. CASE WriteRaises(t)
  BY <1>9 DEF WriteRaises, HandlingTyped
<1> QED
  BY <1>1, <1>2, <1>3, <1>4, <1>5, <1>6, <1>7, <1>8, <1>9 DEF WriteStep

LEMMA BeginTyped ==
  ASSUME HandlingTyped, NEW t \in Threads, NEW s \in Writers,
         NEW guarded \in BOOLEAN, BeginWrite(t, s, guarded)
  PROVE  \E w \in Write : /\ w.guarded = guarded /\ w.sender = s
                          /\ w.at # "reply"
                          /\ handling' = [handling EXCEPT ![t] = w]
<1>1. PICK command \in Commands, order \in {"resting", "unknown"} :
        handling' = [handling EXCEPT ![t] =
          [sender |-> s, guarded |-> guarded, command |-> command,
           at |-> FirstStep(command), order |-> order]]
  BY DEF BeginWrite
<1>2. FirstStep(command) \in {"place", "cancel", "finish"}
  BY DEF FirstStep, Commands
<1>3. [sender |-> s, guarded |-> guarded, command |-> command,
       at |-> FirstStep(command), order |-> order] \in Write
  BY <1>2 DEF Write, Orders
<1> QED  BY <1>1, <1>2, <1>3

LEMMA HandlingStep == HandlingTyped /\ [WriteNext]_writeVars => HandlingTyped'
<1> SUFFICES ASSUME HandlingTyped, [WriteNext]_writeVars PROVE HandlingTyped'
  OBVIOUS
<1>1. CASE UNCHANGED handling
  BY <1>1 DEF HandlingTyped
<1>2. ASSUME NEW t \in Threads, WriteStep(t) PROVE HandlingTyped'
  BY <1>2, WriteStepTyped
<1>3. ASSUME NEW t \in Threads, NEW s \in Writers, NEW guarded \in BOOLEAN,
             BeginWrite(t, s, guarded)
      PROVE  HandlingTyped'
  BY <1>3, BeginTyped DEF HandlingTyped
<1>4. CASE RestartBridge
  BY <1>4 DEF RestartBridge, HandlingTyped
<1> QED
  BY <1>1, <1>2, <1>3, <1>4
     DEF WriteNext, writeVars, ArmFor, Disarm, Expire, RestingSettles

-----------------------------------------------------------------------------
(* The arm. *)

LEMMA DispatchedFinite ==
  ASSUME NEW s
  PROVE  /\ IsFiniteSet(Dispatched(s))
         /\ Cardinality(Dispatched(s)) \in Nat
         /\ Cardinality(Dispatched(s)) <= Cardinality(Threads)
         /\ Cardinality(Threads) \in Nat
<1>1. Dispatched(s) \in SUBSET Threads
  BY DEF Dispatched
<1> QED
  BY <1>1, FS_Subset, FS_CardinalityType, InterlockAssumption
     DEF InterlockAssumption

LEMMA DispatchedFiniteNext ==
  ASSUME NEW s
  PROVE  /\ IsFiniteSet(Dispatched(s)')
         /\ Cardinality(Dispatched(s)') \in Nat
         /\ Cardinality(Dispatched(s)') <= Cardinality(Threads)
<1>1. Dispatched(s)' \in SUBSET Threads
  BY DEF Dispatched
<1> QED
  BY <1>1, FS_Subset, FS_CardinalityType, InterlockAssumption
     DEF InterlockAssumption

(* With fewer writes under way and the credit kept, the covers stay. *)
LEMMA FewerDispatched ==
  ASSUME NEW s, Dispatched(s)' \subseteq Dispatched(s)
  PROVE  Cardinality(Dispatched(s)') <= Cardinality(Dispatched(s))
BY FS_Subset, DispatchedFinite

(* The steps of a write before its end keep who dispatches it. *)
LEMMA SameDispatched ==
  ASSUME HandlingTyped, NEW t \in Threads, NEW s,
         \/ PlaceSucceeds(t) \/ PlaceFails(t) \/ AuditPlacement(t)
         \/ CancelSucceeds(t) \/ CancelNotFound(t) \/ CallFails(t)
         \/ AuditFinal(t)
  PROVE  Dispatched(s)' \subseteq Dispatched(s)
<1>1. handling[t] \in Write
  BY Dispatching
     DEF PlaceSucceeds, PlaceFails, AuditPlacement, CancelSucceeds,
         CancelNotFound, CallFails, AuditFinal
<1>2. PICK w : /\ w.guarded = handling[t].guarded
               /\ w.sender = handling[t].sender
               /\ handling' = [handling EXCEPT ![t] = w]
  <2>1. \A at : LET w == [handling[t] EXCEPT !.at = at]
                IN w.guarded = handling[t].guarded /\ w.sender = handling[t].sender
    BY <1>1 DEF Write
  <2>2. \A at, order : LET w == [[handling[t] EXCEPT !.at = at] EXCEPT !.order = order]
                IN w.guarded = handling[t].guarded /\ w.sender = handling[t].sender
    BY <1>1 DEF Write
  <2>3. CASE PlaceSucceeds(t)
    BY <2>2, <2>3 DEF PlaceSucceeds, HandlingTyped
  <2>4. CASE \E at : GoTo(t, at)
    BY <2>1, <2>4 DEF GoTo
  <2> QED
    BY <2>3, <2>4 DEF PlaceFails, AuditPlacement, CancelSucceeds,
         CancelNotFound, CallFails, AuditFinal
<1> QED  BY <1>1, <1>2 DEF HandlingTyped, Dispatched

LEMMA BeginCovered ==
  ASSUME HandlingTyped, ArmTyped, ArmCovers, NEW t \in Threads, NEW s \in Writers,
         NEW guarded \in BOOLEAN, BeginWrite(t, s, guarded)
  PROVE  ArmCovers'
<1>1. PICK w \in Write : /\ w.guarded = guarded /\ w.sender = s
                         /\ handling' = [handling EXCEPT ![t] = w]
  BY BeginTyped
<1>2. UNCHANGED <<armed, credit>>
  BY DEF BeginWrite
<1>3. ASSUME NEW r \in Writers, r # s \/ ~guarded
      PROVE  credit[r] >= Cardinality(Dispatched(r)')
  <2>1. Dispatched(r)' \subseteq Dispatched(r)
    BY <1>1, <1>3 DEF Dispatched, HandlingTyped
  <2> QED
    BY <2>1, FewerDispatched, DispatchedFinite, DispatchedFiniteNext DEF ArmCovers, ArmTyped
<1>4. ASSUME guarded PROVE credit[s] >= Cardinality(Dispatched(s)')
  <2>1. armed = s
    BY <1>4 DEF BeginWrite, IsArmedFor
  <2> QED
    BY <2>1, DispatchedFinite, DispatchedFiniteNext DEF ArmCovers, ArmTyped
<1> QED  BY <1>2, <1>3, <1>4 DEF ArmCovers

LEMMA FinishCovered ==
  ASSUME HandlingTyped, ArmTyped, ArmCovers, NEW t \in Threads, FinishWrite(t)
  PROVE  ArmCovers'
<1>1. handling[t] \in Write /\ handling' = [handling EXCEPT ![t] = Idle]
  BY Dispatching DEF FinishWrite
<1>2. Idle \notin Write
  BY DEF Idle, Write
<1>3. \A r : Dispatched(r)' = Dispatched(r) \ {t}
  BY <1>1, <1>2 DEF Dispatched, HandlingTyped
<1>4. PICK s \in Writers : s = handling[t].sender
  BY <1>1 DEF Write
<1>5. CASE handling[t].guarded
  <2>1. armed' = "nobody" /\ credit' = [credit EXCEPT ![s] = @ - 1]
    BY <1>4, <1>5 DEF FinishWrite, Spent
  <2>2. Cardinality(Dispatched(s)') = Cardinality(Dispatched(s)) - 1
    <3>1. t \in Dispatched(s)
      BY <1>1, <1>4, <1>5 DEF Dispatched
    <3> QED  BY <1>3, <3>1, DispatchedFinite, FS_RemoveElement
  <2>3. ASSUME NEW r \in Writers PROVE credit'[r] >= Cardinality(Dispatched(r)')
    <3>1. CASE r = s
      BY <2>1, <2>2, <3>1, <1>4, DispatchedFinite DEF ArmCovers, ArmTyped
    <3>2. CASE r # s
      <4>1. credit'[r] = credit[r]
        BY <2>1, <3>2 DEF ArmTyped
      <4>2. Cardinality(Dispatched(r)') <= Cardinality(Dispatched(r))
        BY <1>3, FewerDispatched
      <4> QED
        BY <4>1, <4>2, DispatchedFinite, DispatchedFiniteNext DEF ArmCovers, ArmTyped
    <3> QED  BY <3>1, <3>2
  <2> QED
    BY <2>1, <2>3, InterlockAssumption DEF ArmCovers, InterlockAssumption
<1>6. CASE ~handling[t].guarded
  <2>1. UNCHANGED <<armed, credit>>
    BY <1>6 DEF FinishWrite, Spent
  <2>2. ASSUME NEW r \in Writers PROVE credit[r] >= Cardinality(Dispatched(r)')
    <3>1. Cardinality(Dispatched(r)') <= Cardinality(Dispatched(r))
      BY <1>3, FewerDispatched
    <3> QED
      BY <3>1, DispatchedFinite, DispatchedFiniteNext DEF ArmCovers, ArmTyped
  <2> QED  BY <2>1, <2>2 DEF ArmCovers
<1> QED  BY <1>5, <1>6

LEMMA ArmTypedStep ==
  HandlingTyped /\ ArmTyped /\ [WriteNext]_writeVars => ArmTyped'
<1> SUFFICES ASSUME HandlingTyped, ArmTyped, [WriteNext]_writeVars PROVE ArmTyped'
  OBVIOUS
<1> USE DEF ArmTyped
<1>1. CASE UNCHANGED <<armed, credit>>
  BY <1>1
<1>2. ASSUME NEW s \in Writers, ArmFor(s) PROVE ArmTyped'
  <2>1. Cardinality(Threads) \in Int
    BY DispatchedFinite
  <2> QED  BY <1>2, <2>1 DEF ArmFor
<1>3. CASE Disarm
  BY <1>3 DEF Disarm
<1>4. ASSUME NEW t \in Threads, FinishWrite(t) PROVE ArmTyped'
  <2>1. credit' \in [Writers -> Int]
    <3>1. CASE handling[t].guarded
      <4>1. PICK s : credit' = [credit EXCEPT ![s] = @ - 1]
        BY <1>4, <3>1 DEF FinishWrite
      <4>2. \A r \in Writers : credit[r] - 1 \in Int
        OBVIOUS
      <4> QED  BY <4>1, <4>2
    <3>2. CASE ~handling[t].guarded
      BY <1>4, <3>2 DEF FinishWrite
    <3> QED  BY <3>1, <3>2
  <2>2. armed' \in Writers \cup {"nobody"}
    BY <1>4 DEF FinishWrite, Spent
  <2> QED  BY <2>1, <2>2
<1>5. CASE RestartBridge
  BY <1>5 DEF RestartBridge
<1>6. ASSUME NEW t \in Threads, WriteStep(t), ~FinishWrite(t)
      PROVE  UNCHANGED <<armed, credit>>
  BY <1>6 DEF WriteStep, PlaceSucceeds, PlaceFails, AuditPlacement, CancelSucceeds,
              CancelNotFound, CallFails, AuditFinal, WriteRaises
<1> QED
  BY <1>1, <1>2, <1>3, <1>4, <1>5, <1>6
     DEF WriteNext, writeVars, BeginWrite, Expire, RestingSettles

LEMMA ArmCoversStep ==
  HandlingTyped /\ ArmTyped /\ ArmCovers /\ [WriteNext]_writeVars => ArmCovers'
<1> SUFFICES ASSUME HandlingTyped, ArmTyped, ArmCovers, [WriteNext]_writeVars
             PROVE  ArmCovers'
  OBVIOUS
(* Neither arm nor credit changes and no write begins. *)
<1>1. ASSUME UNCHANGED <<armed, credit>>,
             \A r \in Writers : Dispatched(r)' \subseteq Dispatched(r)
      PROVE  ArmCovers'
  BY <1>1, FewerDispatched, DispatchedFinite, DispatchedFiniteNext DEF ArmCovers, ArmTyped
<1>2. CASE UNCHANGED <<armed, credit, handling>>
  BY <1>1, <1>2 DEF Dispatched
<1>3. ASSUME NEW s \in Writers, ArmFor(s) PROVE ArmCovers'
  <2>1. armed' = s /\ credit' = [credit EXCEPT ![s] = Cardinality(Threads)]
    BY <1>3 DEF ArmFor
  <2>2. \A r \in Writers : Dispatched(r)' = Dispatched(r)
    BY <1>3 DEF ArmFor, Dispatched
  <2> QED
    BY <2>1, <2>2, DispatchedFinite DEF ArmCovers, ArmTyped
<1>4. CASE Disarm
  <2>1. armed' \notin Writers /\ credit' = credit
    BY <1>4, InterlockAssumption DEF Disarm, InterlockAssumption
  <2>2. \A r \in Writers : Dispatched(r)' = Dispatched(r)
    BY <1>4 DEF Disarm, Dispatched
  <2> QED  BY <2>1, <2>2 DEF ArmCovers
<1>5. ASSUME NEW t \in Threads, NEW s \in Writers, NEW guarded \in BOOLEAN,
             BeginWrite(t, s, guarded)
      PROVE  ArmCovers'
  BY <1>5, BeginCovered
<1>6. ASSUME NEW t \in Threads, FinishWrite(t) PROVE ArmCovers'
  BY <1>6, FinishCovered
<1>7. ASSUME NEW t \in Threads, WriteRaises(t) PROVE ArmCovers'
  <2>1. \A r \in Writers : Dispatched(r)' \subseteq Dispatched(r)
    BY <1>7 DEF WriteRaises, Dispatched, HandlingTyped, Idle, Write
  <2> QED  BY <1>1, <1>7, <2>1 DEF WriteRaises
<1>8. ASSUME NEW t \in Threads, WriteStep(t), ~FinishWrite(t), ~WriteRaises(t)
      PROVE  ArmCovers'
  <2>1. \A r \in Writers : Dispatched(r)' \subseteq Dispatched(r)
    BY <1>8, SameDispatched DEF WriteStep
  <2>2. UNCHANGED <<armed, credit>>
    BY <1>8 DEF WriteStep, PlaceSucceeds, PlaceFails, AuditPlacement, CancelSucceeds,
                CancelNotFound, CallFails, AuditFinal
  <2> QED  BY <1>1, <2>1, <2>2
<1>9. CASE RestartBridge
  <2>1. armed' \notin Writers /\ credit' = [s \in Writers |-> 0]
    BY <1>9, InterlockAssumption DEF RestartBridge, InterlockAssumption
  <2>2. \A r \in Writers : Dispatched(r)' = {}
    BY <1>9 DEF RestartBridge, Dispatched, Idle, Write
  <2> QED  BY <2>1, <2>2, FS_EmptySet DEF ArmCovers
<1> QED
  BY <1>2, <1>3, <1>4, <1>5, <1>6, <1>7, <1>8, <1>9
     DEF WriteNext, writeVars, Expire, RestingSettles

LEMMA WriteInitInv == WriteInit => HandlingTyped /\ ArmTyped /\ ArmCovers
<1> SUFFICES ASSUME WriteInit PROVE HandlingTyped /\ ArmTyped /\ ArmCovers
  OBVIOUS
<1>1. \A r \in Writers : Dispatched(r) = {}
  BY DEF WriteInit, Dispatched, Idle, Write
<1> QED
  BY <1>1, FS_EmptySet, InterlockAssumption
     DEF WriteInit, HandlingTyped, ArmTyped, ArmCovers, InterlockAssumption

(* An arm is worth one write per thread, whatever the senders do. *)
THEOREM ArmsBoundWrites == WriteSpec => []WritesWithinArms
<1>1. ArmTyped /\ ArmCovers => WritesWithinArms
  BY DispatchedFinite DEF ArmTyped, ArmCovers, WritesWithinArms
<1> QED
  BY <1>1, WriteInitInv, HandlingStep, ArmTypedStep, ArmCoversStep, PTL DEF WriteSpec

-----------------------------------------------------------------------------
(* The transcript. *)

Accounted == HandlingTyped /\ OrdersTyped /\ PlacementsAudited

LEMMA InHandFinite == IsFiniteSet(InHand) /\ Cardinality(InHand) \in Nat
<1>1. InHand \in SUBSET Threads
  BY DEF InHand
<1> QED
  BY <1>1, FS_Subset, FS_CardinalityType, InterlockAssumption
     DEF InterlockAssumption

(* A write that does not enter or leave "reply" keeps the others in hand. *)
LEMMA InHandKept ==
  ASSUME HandlingTyped, NEW t \in Threads, NEW w,
         handling' = [handling EXCEPT ![t] = w],
         handling[t].at # "reply", w.at # "reply"
  PROVE  InHand' = InHand
BY DEF InHand, HandlingTyped

LEMMA InHandLeaves ==
  ASSUME HandlingTyped, NEW t \in Threads, NEW w,
         handling' = [handling EXCEPT ![t] = w], t \in InHand, w.at # "reply"
  PROVE  /\ InHand' = InHand \ {t}
         /\ Cardinality(InHand') = Cardinality(InHand) - 1
<1>1. InHand' = InHand \ {t}
  BY DEF InHand, HandlingTyped
<1> QED  BY <1>1, InHandFinite, FS_RemoveElement

(* The step from one place to the next, as an assignment of the whole write. *)
LEMMA GoToWrite ==
  ASSUME HandlingTyped, NEW t \in Threads, handling[t] \in Write, NEW at, GoTo(t, at)
  PROVE  \E w : w.at = at /\ handling' = [handling EXCEPT ![t] = w]
<1>1. [handling[t] EXCEPT !.at = at].at = at
  BY DEF Write
<1> QED  BY <1>1 DEF GoTo

(* Steps that place, audit and lose nothing. *)
LEMMA QuietStepAccounted ==
  ASSUME Accounted, NEW t \in Threads,
         CancelSucceeds(t) \/ CancelNotFound(t) \/ CallFails(t) \/ AuditFinal(t)
  PROVE  Accounted'
<1>1. /\ handling[t] \in Write /\ handling[t].at # "reply"
      /\ UNCHANGED <<placed, audited, lost>>
      /\ \E at \in {"status", "finish"} : GoTo(t, at)
  BY Dispatching
     DEF CancelSucceeds, CancelNotFound, CallFails, AuditFinal, Accounted
<1>2. InHand' = InHand
  BY <1>1, GoToWrite, InHandKept DEF Accounted
<1>3. HandlingTyped'
  BY WriteStepTyped DEF WriteStep, Accounted
<1> QED  BY <1>1, <1>2, <1>3 DEF Accounted, OrdersTyped, PlacementsAudited

LEMMA PlaceAccounted ==
  ASSUME Accounted, NEW t \in Threads, PlaceSucceeds(t) \/ PlaceFails(t)
  PROVE  Accounted'
<1> USE DEF Accounted, OrdersTyped, PlacementsAudited
<1>1. HandlingTyped'
  BY WriteStepTyped DEF WriteStep
<1>2. handling[t] \in Write /\ t \notin InHand
  BY Dispatching DEF PlaceSucceeds, PlaceFails, InHand
<1>3. CASE PlaceSucceeds(t)
  <2>1. handling'[t].at = "reply" /\ \A r \in Threads \ {t} : handling'[r] = handling[r]
    BY <1>2, <1>3 DEF PlaceSucceeds, HandlingTyped, Write
  <2>2. InHand' = InHand \cup {t}
    BY <2>1 DEF InHand
  <2>3. Cardinality(InHand') = Cardinality(InHand) + 1
    BY <1>2, <2>2, InHandFinite, FS_AddElement
  <2>4. placed' = placed + 1 /\ placed < MaxOrders /\ UNCHANGED <<audited, lost>>
    BY <1>3 DEF PlaceSucceeds
  <2> QED
    BY <1>1, <2>3, <2>4, InHandFinite, InterlockAssumption DEF InterlockAssumption
<1>4. CASE PlaceFails(t)
  <2>1. InHand' = InHand
    BY <1>2, <1>4, GoToWrite, InHandKept DEF PlaceFails, InHand
  <2>2. PICK accepted \in {0, 1} : /\ placed + accepted <= MaxOrders
                                   /\ placed' = placed + accepted
                                   /\ lost' = lost + accepted
    BY <1>4 DEF PlaceFails
  <2>3. audited' = audited
    BY <1>4 DEF PlaceFails
  <2> QED  BY <1>1, <2>1, <2>2, <2>3, InHandFinite
<1> QED  BY <1>3, <1>4

LEMMA ReplyAccounted ==
  ASSUME Accounted, NEW t \in Threads, AuditPlacement(t)
  PROVE  Accounted'
<1> USE DEF Accounted, OrdersTyped, PlacementsAudited
<1>1. HandlingTyped'
  BY WriteStepTyped DEF WriteStep
<1>2. handling[t] \in Write /\ t \in InHand
  BY Dispatching DEF AuditPlacement, InHand
<1>3. NextAfterReply(handling[t].command) # "reply"
  BY DEF NextAfterReply
<1>4. Cardinality(InHand') = Cardinality(InHand) - 1
  BY <1>2, <1>3, GoToWrite, InHandLeaves DEF AuditPlacement
<1>5. audited' = audited + 1 /\ UNCHANGED <<placed, lost>>
  BY DEF AuditPlacement
<1> QED  BY <1>1, <1>4, <1>5, InHandFinite

LEMMA EndAccounted ==
  ASSUME Accounted, NEW t \in Threads, FinishWrite(t) \/ WriteRaises(t)
  PROVE  Accounted'
<1> USE DEF Accounted, OrdersTyped, PlacementsAudited
<1>1. HandlingTyped'
  BY WriteStepTyped DEF WriteStep
<1>2. handling' = [handling EXCEPT ![t] = Idle] /\ UNCHANGED <<placed, audited>>
  BY DEF FinishWrite, WriteRaises
<1>3. Idle.at # "reply"
  BY DEF Idle
<1>4. CASE t \in InHand
  <2>1. WriteRaises(t)
    BY <1>4 DEF InHand, FinishWrite
  <2>2. InHand \cap {t} = {t}
    BY <1>4
  <2>3. lost' = lost + 1
    BY <2>1, <2>2, FS_Singleton DEF WriteRaises
  <2>4. Cardinality(InHand') = Cardinality(InHand) - 1
    BY <1>2, <1>3, <1>4, InHandLeaves
  <2> QED  BY <1>1, <1>2, <2>3, <2>4, InHandFinite
<1>5. CASE t \notin InHand
  <2>1. InHand' = InHand
    BY <1>2, <1>3, <1>5, InHandKept DEF InHand
  <2>2. InHand \cap {t} = {}
    BY <1>5
  <2>3. lost' = lost
    <3>1. Cardinality(InHand \cap {t}) = 0
      BY <2>2, FS_EmptySet
    <3>2. CASE WriteRaises(t)
      BY <3>1, <3>2 DEF WriteRaises
    <3>3. CASE FinishWrite(t)
      BY <3>3 DEF FinishWrite
    <3> QED  BY <3>2, <3>3
  <2> QED  BY <1>1, <1>2, <2>1, <2>3
<1> QED  BY <1>4, <1>5

LEMMA AccountedStep == Accounted /\ [WriteNext]_writeVars => Accounted'
<1> SUFFICES ASSUME Accounted, [WriteNext]_writeVars PROVE Accounted'
  OBVIOUS
<1>1. HandlingTyped'
  BY HandlingStep DEF Accounted
<1>2. CASE UNCHANGED <<handling, placed, audited, lost>>
  BY <1>1, <1>2 DEF Accounted, OrdersTyped, PlacementsAudited, InHand
<1>3. ASSUME NEW t \in Threads, WriteStep(t) PROVE Accounted'
  BY <1>3, QuietStepAccounted, PlaceAccounted, ReplyAccounted, EndAccounted
     DEF WriteStep
<1>4. ASSUME NEW t \in Threads, NEW s \in Writers, NEW guarded \in BOOLEAN,
             BeginWrite(t, s, guarded)
      PROVE  Accounted'
  <2>1. handling[t].at # "reply"
    BY <1>4 DEF BeginWrite, Idle
  <2>2. InHand' = InHand
    BY <1>4, <2>1, BeginTyped, InHandKept DEF Accounted
  <2> QED
    BY <1>1, <1>4, <2>2 DEF BeginWrite, Accounted, OrdersTyped, PlacementsAudited
<1>5. CASE RestartBridge
  <2>1. InHand' = {}
    BY <1>5 DEF RestartBridge, InHand, Idle
  <2>2. lost' = lost + Cardinality(InHand) /\ UNCHANGED <<placed, audited>>
    BY <1>5 DEF RestartBridge
  <2> QED
    BY <1>1, <2>1, <2>2, FS_EmptySet, InHandFinite
       DEF Accounted, OrdersTyped, PlacementsAudited
<1> QED
  BY <1>2, <1>3, <1>4, <1>5
     DEF WriteNext, writeVars, ArmFor, Disarm, Expire, RestingSettles

LEMMA AccountedInit == WriteInit => Accounted
<1> SUFFICES ASSUME WriteInit PROVE Accounted
  OBVIOUS
<1>1. InHand = {}
  BY DEF WriteInit, InHand, Idle
<1> QED
  BY <1>1, FS_EmptySet, InterlockAssumption
     DEF WriteInit, Accounted, HandlingTyped, OrdersTyped, PlacementsAudited,
         InterlockAssumption

(* Every accepted test order is audited once, in hand, or lost. *)
THEOREM PlacementsAccounted == WriteSpec => []PlacementsAudited
BY AccountedInit, AccountedStep, PTL DEF WriteSpec, Accounted

-----------------------------------------------------------------------------
(* Cancellations. *)

RestingTyped == resting \in {"open", "final"} /\ cancelEntries \subseteq Orders

LEMMA CancelStep ==
  HandlingTyped /\ RestingTyped /\ CancellationsAreFinal /\ [WriteNext]_writeVars
    => (RestingTyped /\ CancellationsAreFinal)'
<1> SUFFICES ASSUME HandlingTyped, RestingTyped, CancellationsAreFinal,
                    [WriteNext]_writeVars
             PROVE  (RestingTyped /\ CancellationsAreFinal)'
  OBVIOUS
<1> USE DEF RestingTyped, CancellationsAreFinal
<1>1. CASE UNCHANGED <<resting, cancelEntries>>
  BY <1>1
<1>2. ASSUME NEW t \in Threads, CancelSucceeds(t)
      PROVE  (RestingTyped /\ CancellationsAreFinal)'
  BY <1>2 DEF CancelSucceeds, CanCancel, Orders
<1>3. ASSUME NEW t \in Threads, AuditFinal(t)
      PROVE  (RestingTyped /\ CancellationsAreFinal)'
  BY <1>3 DEF AuditFinal, IsFinal, Orders
<1>4. CASE RestingSettles
  BY <1>4 DEF RestingSettles
<1>5. ASSUME NEW t \in Threads, WriteStep(t), ~CancelSucceeds(t), ~AuditFinal(t)
      PROVE  UNCHANGED <<resting, cancelEntries>>
  BY <1>5 DEF WriteStep, PlaceSucceeds, PlaceFails, AuditPlacement, CancelNotFound,
              CallFails, FinishWrite, WriteRaises
<1> QED
  BY <1>1, <1>2, <1>3, <1>4, <1>5
     DEF WriteNext, writeVars, ArmFor, Disarm, Expire, BeginWrite, RestartBridge

LEMMA CancelInit == WriteInit => RestingTyped /\ CancellationsAreFinal
BY DEF WriteInit, RestingTyped, CancellationsAreFinal

(* What the transcript calls cancelled or final is an order that is final. *)
THEOREM CancellationsFinal == WriteSpec => []CancellationsAreFinal
BY WriteInitInv, HandlingStep, CancelInit, CancelStep, PTL DEF WriteSpec

(* The interlock is type correct; that no entry is without an order follows *)
(* from the account of the placements.                                     *)
THEOREM WriteTypeCorrect == WriteSpec => []WriteTypeOK
<1>1. Accounted /\ ArmTyped /\ RestingTyped => WriteTypeOK
  <2> SUFFICES ASSUME Accounted, ArmTyped, RestingTyped PROVE WriteTypeOK
    OBVIOUS
  <2>1. placed \in 0..MaxOrders /\ audited \in 0..placed /\ lost \in 0..placed
    BY InHandFinite, InterlockAssumption
       DEF Accounted, OrdersTyped, PlacementsAudited, InterlockAssumption
  <2> QED
    BY <2>1 DEF Accounted, HandlingTyped, ArmTyped, RestingTyped, WriteTypeOK
<1> QED
  BY <1>1, WriteInitInv, HandlingStep, ArmTypedStep, AccountedInit, AccountedStep,
     CancelInit, CancelStep, PTL DEF WriteSpec, Accounted

=============================================================================
