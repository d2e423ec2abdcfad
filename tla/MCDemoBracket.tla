---------------------------- MODULE MCDemoBracket ----------------------------
(* DemoBracket on small instances; the syncers are interchangeable. *)
EXTENDS DemoBracket, TLC

Callers == Permutations(Syncers)

(* What the exchange makes of open orders: all there is, or a part of it. *)
SettlingAll == RoleSet \X {"finished", "cancelled"}
SettlingExits == {<<"stop_loss", "finished">>, <<"take_profit_2", "finished">>}
SettlingStop == {<<"stop_loss", "finished">>}
SettlingTp1 == {<<"take_profit_1", "finished">>}

(* All but the journal, which no step reads. *)
ButJournal == <<status, executor, faults, exchange, records, position, sync, poller>>

(* Two syncers at a time beside one execution, one beside two. *)
ThreeAtATime == attempt <= 1 \/ Cardinality({s \in Syncers : ~Free(s)}) <= 1
=============================================================================
