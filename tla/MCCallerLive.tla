---------------------------- MODULE MCCallerLive ----------------------------
(***************************************************************************)
(* The liveness questions about one Caller, in two scenarios that bound    *)
(* what its users do: "shared", a streaming call c1 beside a unary call c2 *)
(* without a deadline that nobody closes, and "close", where c1 is closed  *)
(* while it streams.  Neither call starting, replying nor closing is fair, *)
(* so leaving one of them out keeps the fairness of the others.            *)
(***************************************************************************)
EXTENDS MCCaller

VARIABLE scenario

Scenarios == {"shared", "close"}

Within ==
  \/ scenario = "shared" /\ ~closed'
  \/ scenario = "close" /\ pc'[c2] = "idle" /\ replies'[c2] = 0

LiveSpec ==
  /\ Init /\ scenario \in Scenarios
  /\ [][Next /\ Within /\ UNCHANGED scenario]_<<vars, scenario>>
  /\ Fairness
=============================================================================
