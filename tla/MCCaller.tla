------------------------------ MODULE MCCaller ------------------------------
(***************************************************************************)
(* Instances of Caller for TLC.  Calls are model values: one call with     *)
(* every message the bounds allow, or a streaming call c1 next to a unary  *)
(* call c2 that shares its inbox, its failure goroutine and its Close.     *)
(***************************************************************************)
EXTENDS Caller, TLC

CONSTANTS c1, c2

OneCall  == {c1}
TwoCalls == {c1, c2}
NoCalls  == {}

Block      == [c \in {c1} |-> {"block"}]
ErrorMode  == [c \in {c1} |-> {"error"}]
AnyMode    == [c \in {c1} |-> Policies \cup {"unary"}]
BlockUnary == (c1 :> {"block"}) @@ (c2 :> {"unary"})

Three  == [c \in Calls |-> 3]
One    == [c \in Calls |-> 1]
None   == [c \in Calls |-> 0]
Two    == [c \in Calls |-> 2]
ThreeZero == (c1 :> 3) @@ (c2 :> 0)
ZeroOne == (c1 :> 0) @@ (c2 :> 1)
=============================================================================
