-------------------------- MODULE MCSchedulerSingle --------------------------
(***************************************************************************)
(* One replica with its store, in two scenarios that bound what is done to *)
(* it: "fires", where it stays up and is never drained, and "restart",     *)
(* where it is drained, closed and crashes.  Draining, closing and         *)
(* crashing are not fair, so leaving them out keeps the fairness of the    *)
(* other steps.                                                            *)
(***************************************************************************)
EXTENDS MCScheduler

VARIABLE scenario

Scenarios == {"fires", "restart"}

Within == scenario = "fires" => UNCHANGED <<state, draining>>

SingleSpec ==
  /\ Init /\ scenario \in Scenarios
  /\ [][Next /\ Within /\ UNCHANGED scenario]_<<vars, scenario>>
  /\ Fairness

(* Every fire of a replica that is never drained is published, once it has *)
(* a timer.                                                                *)
UpEveryDueFires == (scenario = "fires") => EveryDueFires
=============================================================================
