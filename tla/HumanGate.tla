------------------------------ MODULE HumanGate ------------------------------
(***************************************************************************)
(* What the trading lab promises its operator, with every mechanism left   *)
(* out: "the human approves or rejects; execution runs only through        *)
(* guarded, deterministic paths" (docs/WIKI.md, section 1).                 *)
(*                                                                         *)
(* Each APPROVE of a proposal grants one opening of a position for it, an   *)
(* opening uses a grant up, and while the emergency brake is on nothing is  *)
(* granted and nothing is used.                                            *)
(***************************************************************************)
EXTENDS Integers

CONSTANT Proposals   \* the proposal identifiers

VARIABLES
  braked,    \* is the emergency halt active?
  granted,   \* per proposal, how many APPROVE decisions were recorded
  used       \* per proposal, how many positions were opened

vars == <<braked, granted, used>>

Init ==
  /\ braked = FALSE
  /\ granted = [p \in Proposals |-> 0]
  /\ used = [p \in Proposals |-> 0]

(* The operator approves p; nothing is executed yet. *)
Grant(p) ==
  /\ ~braked
  /\ granted' = [granted EXCEPT ![p] = @ + 1]
  /\ UNCHANGED <<braked, used>>

(* A position is opened for p on the strength of an earlier approval. *)
Use(p) ==
  /\ ~braked
  /\ used[p] < granted[p]
  /\ used' = [used EXCEPT ![p] = @ + 1]
  /\ UNCHANGED <<braked, granted>>

(* The operator approves p and its position is opened at once. *)
GrantAndUse(p) ==
  /\ ~braked
  /\ granted' = [granted EXCEPT ![p] = @ + 1]
  /\ used' = [used EXCEPT ![p] = @ + 1]
  /\ UNCHANGED braked

(* The emergency halt is put on or taken off. *)
SetBrake ==
  /\ braked' \in BOOLEAN
  /\ UNCHANGED <<granted, used>>

Next ==
  \/ SetBrake
  \/ \E p \in Proposals : Grant(p) \/ Use(p) \/ GrantAndUse(p)

Spec == Init /\ [][Next]_vars
=============================================================================
