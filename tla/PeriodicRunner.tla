---------------------------- MODULE PeriodicRunner ----------------------------
(***************************************************************************)
(* The counters of PeriodicRunner._run as a record of one loop, and what a *)
(* finished run of its target does to them.  A target that raises is       *)
(* counted like one that reports a failure when continue_on_error is set;  *)
(* the live market runner, which this project runs under it, turns every   *)
(* exception into a reported failure.                                      *)
(***************************************************************************)
EXTENDS Naturals, Sequences

CONSTANT StopAfter   \* --stop-after-consecutive-failures, or NotGiven

\* The code's None; a number of runs or failures that is 0 is refused.
NotGiven == 0

ASSUME RunnerAssumption == StopAfter \in Nat

\* A loop of total runs, or one without an end of its own (--loop, no --runs).
Loops(total) ==
  LET counts == IF total = NotGiven THEN Nat ELSE 0..total IN
  [total : {total}, completed : counts, succeeded : counts, failed : counts,
   streak : counts, longest : counts, onThreshold : BOOLEAN]

NewLoop(total) == [total |-> total, completed |-> 0, succeeded |-> 0, failed |-> 0,
                   streak |-> 0, longest |-> 0, onThreshold |-> FALSE]

AtThreshold(loop) == StopAfter # NotGiven /\ loop.streak >= StopAfter

(* Mutant of Counted: a success does not end the streak of failures. *)
CountedNoReset(loop, ok) ==
  LET failures == IF ok THEN loop.streak ELSE loop.streak + 1
      counted == [loop EXCEPT !.completed = @ + 1,
                              !.succeeded = IF ok THEN @ + 1 ELSE @,
                              !.failed = IF ok THEN @ ELSE @ + 1,
                              !.streak = failures,
                              !.longest = IF failures > @ THEN failures ELSE @]
  IN [counted EXCEPT !.onThreshold = AtThreshold(counted)]

\* The counters after a run that ended well or not.
Counted(loop, ok) ==
  LET failures == IF ok THEN 0 ELSE loop.streak + 1
      counted == [loop EXCEPT !.completed = @ + 1,
                              !.succeeded = IF ok THEN @ + 1 ELSE @,
                              !.failed = IF ok THEN @ ELSE @ + 1,
                              !.streak = failures,
                              !.longest = IF failures > @ THEN failures ELSE @]
  IN [counted EXCEPT !.onThreshold = AtThreshold(counted)]

(* Mutant of LoopOver: one run more than asked for. *)
LoopOverLate(loop) ==
  loop.onThreshold \/ (loop.total # NotGiven /\ loop.completed > loop.total)

\* The two breaks; otherwise the loop sleeps and runs its target again.
LoopOver(loop) ==
  loop.onThreshold \/ (loop.total # NotGiven /\ loop.completed >= loop.total)
===============================================================================
