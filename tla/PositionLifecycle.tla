-------------------------- MODULE PositionLifecycle --------------------------
(***************************************************************************)
(* What a position promises, whatever moves it: it is opened at most once, *)
(* its size only ever shrinks afterwards, and how it ended is final.       *)
(***************************************************************************)
EXTENDS Naturals

VARIABLES
  held,      \* the size still held
  outcome    \* "none", "open", or how it ended: "target" or "stopped"

vars == <<held, outcome>>

Init == held = 0 /\ outcome = "none"

Open ==
  /\ outcome = "none"
  /\ held' \in Nat
  /\ outcome' = "open"

Reduce ==
  /\ outcome = "open"
  /\ held' \in 1..(held - 1)
  /\ UNCHANGED outcome

End ==
  /\ outcome = "open" /\ held > 0
  /\ held' = 0
  /\ outcome' \in {"target", "stopped"}

Next == Open \/ Reduce \/ End

Spec == Init /\ [][Next]_vars
==============================================================================
