----------------------------- MODULE MCScheduler -----------------------------
(***************************************************************************)
(* Instances of Scheduler for TLC: durations are counted in ticks, as are  *)
(* the claim bucket and the stored second.                                 *)
(***************************************************************************)
EXTENDS Scheduler

CONSTANTS r1, r2

OneId  == {1}
TwoIds == {1, 2}

Every(d) == [oneTime |-> FALSE, dur |-> d]
In(d)    == [oneTime |-> TRUE, dur |-> d]

EveryTwo     == {Every(2)}
EveryOne     == {Every(1)}
EveryOneIn   == {Every(1), In(1)}

(* Replicas that are neither drained nor closed, and do not crash.         *)
UpSpec == Init /\ [][Operate]_vars

(* The same, and the replicas that start first are drained and reopened.   *)
DrainSpec ==
  Init /\ [][Operate \/ \E r \in Replicas \ Late : SetDraining(r)]_vars
=============================================================================
