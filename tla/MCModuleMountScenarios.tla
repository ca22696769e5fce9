----------------------- MODULE MCModuleMountScenarios -----------------------
(***************************************************************************)
(* What holds of mounting, in two scenarios that bound what the workers    *)
(* do: "mounts", where two of them mount at once three modules of one      *)
(* resource each, and "retry", where one mounts, unmounts and closes two   *)
(* modules whose resources may fail to close.  (A Mount that fails and     *)
(* cannot close what it registered either leaves that behind: no scenario  *)
(* has both.)                                                              *)
(***************************************************************************)
EXTENDS MCModuleMount

VARIABLE scenario

Scenarios == {"mounts", "retry"}

MountsOnly ==
  /\ \A w \in Workers : \A i \in DOMAIN stack'[w] :
       stack'[w][i].at \notin {"dependents", "lookup", "next"}
  /\ \A w \in Workers : closing'[w].failed = <<>>

OneWorker ==
  /\ stack'[w2] = <<>>
  /\ \A i \in DOMAIN stack'[w1] : stack'[w1][i].id # peer /\ stack'[w1][i].at # "rollback"
  /\ made' <= 4

ScenarioInit == Init /\ scenario \in Scenarios

ScenarioSpec ==
  /\ ScenarioInit
  /\ [][/\ Next /\ UNCHANGED scenario
        /\ scenario = "mounts" => MountsOnly
        /\ scenario = "retry" => OneWorker]_<<vars, scenario>>

(* While modules are only mounted, what a listed module requires is        *)
(* listed: a Mount that fails takes away none that another relies on.      *)
MountsKeepRequired == scenario = "mounts" => RequiredStay

(* While modules are only mounted, dependents come later in the order that *)
(* Close walks backwards.  (An Unmount below a dependent breaks it.)       *)
MountsKeepOrder == scenario = "mounts" => DependentsLater
=============================================================================
