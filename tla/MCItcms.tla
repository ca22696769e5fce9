------------------------------ MODULE MCItcms -------------------------------
(***************************************************************************)
(* Instances of Itcms for TLC: objects o1 and o2 can hold a reference, s   *)
(* is a string.                                                            *)
(***************************************************************************)
EXTENDS Itcms

CONSTANTS o1, o2, s

(* The two objects are alike.                                              *)
Alike == Permutations({o1, o2})
=============================================================================
