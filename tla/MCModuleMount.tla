---------------------------- MODULE MCModuleMount ----------------------------
(***************************************************************************)
(* Instances of ModuleMount for TLC: a module `app` that requires `base`,  *)
(* and a module `peer` that requires it too.                               *)
(***************************************************************************)
EXTENDS ModuleMount, TLC

CONSTANTS w1, w2, base, app, peer

AppOnBase   == (base :> {}) @@ (app :> {base})
BothOnBase  == (base :> {}) @@ (app :> {base}) @@ (peer :> {base})

MountOnly   == {"mount"}
NoClosing   == {"mount", "unmount"}
AllOps      == {"mount", "unmount", "close"}
=============================================================================
