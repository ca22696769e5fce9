----------------------------- MODULE MCReplicas -----------------------------
(***************************************************************************)
(* Three replicas that share a store, none of which stops.                 *)
(***************************************************************************)
EXTENDS Replicas

CONSTANTS r1, r2, r3, source
=============================================================================
