--------------------------- MODULE MCSharedSession ---------------------------
(***************************************************************************)
(* SharedSession on small instances: two processes with a request each.     *)
(***************************************************************************)
EXTENDS SharedSession, TLC

(* One request per process, and processes named like their requests. *)
Apart == [r \in Requests |-> r]

(* Requests and processes that bear one name are renamed together. *)
Renamings == Permutations(Requests \cup Processes)

(* A request refreshes what its process holds before it reads any of it, so *)
(* states that differ in what a process without a request beyond its        *)
(* refresh holds have the same behaviours.                                 *)
Serves(x) ==
  \E r \in Requests : ProcessOf[r] = x /\ pc[r] \notin {"idle", "refreshProposals"}

WhatMatters ==
  <<files, [x \in {y \in Processes : Serves(y)} |-> memory[x]], pc, job, crashes, history>>

(* A submission that waits for its approval, and one that comes with it. *)
PendingOrApproved == {"PENDING_APPROVAL", Approved}

Trading == {"SUBMIT", "APPROVE", "REJECT", "EXECUTE", "HALT", "UNHALT"}
=============================================================================
