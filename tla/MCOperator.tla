----------------------------- MODULE MCOperator -----------------------------
(***************************************************************************)
(* What operators do, on a small instance: the requests of OperatorDesk and *)
(* the writes of WriteInterlock.  They share no variable and no property    *)
(* speaks of both, so a behaviour exercises one of the two and the other    *)
(* stays in its initial state.                                             *)
(***************************************************************************)
EXTENDS OperatorDesk, WriteInterlock, TLC

VARIABLE exercised

allVars == <<deskVars, writeVars, exercised>>

OperatorInit ==
  /\ DeskInit
  /\ WriteInit
  /\ \/ exercised = "desk"
     \/ exercised = "writes" /\ serving = "rest"

OperatorNext ==
  /\ UNCHANGED exercised
  /\ \/ exercised = "desk" /\ DeskNext /\ UNCHANGED writeVars
     \/ exercised = "writes" /\ WriteNext /\ UNCHANGED deskVars

OperatorSpec == OperatorInit /\ [][OperatorNext]_allVars

(* A proposal and the replacement the topic makes of it. *)
TwoIds == {<<"p">>, <<"p", 2>>}

(* A clean portfolio and one at the drawdown limit. *)
CleanAndBreach == {Clean, [Clean EXCEPT !.drawdown = 2]}

PoolThreads == Permutations(Threads)
=============================================================================
