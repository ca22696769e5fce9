-------------------------- MODULE TriColourProofs ---------------------------
(***************************************************************************)
(* Proofs about TriColour, for any objects, whichever of them have no      *)
(* references, and any bound on the references of one: nothing the program *)
(* can get at is freed.                                                    *)
(***************************************************************************)
EXTENDS TriColour, TLAPS

(* What is neither freed nor about to be.                                  *)
Live == {o \in allocated : colour[o] # "dead"}

(* Nothing dead is left but while sweeping, and nothing gray or black but  *)
(* while marking.                                                          *)
ColoursOfPhase ==
  /\ phase # "sweep" => \A o \in Objects : colour[o] # "dead"
  /\ phase # "mark" => \A o \in Objects : colour[o] \notin {"gray", "black"}

PinnedColour == \A o \in Objects : (o \in pinned) = (colour[o] = "pinned")

FreeAreWhite == \A o \in Objects \ allocated : colour[o] = "white"

(* What the program holds is live, and so is what a live object refers to. *)
Closed == Roots \subseteq Live /\ RefsOf(Live) \subseteq Live

(* The invariant of the write barrier.                                     *)
NoBlackToWhite ==
  \A p, c \in Objects :
    p \in allocated /\ c \in refs[p] /\ colour[p] = "black" => colour[c] # "white"

(* A string has nothing to scan: black without a scan is sound.            *)
StringsHoldNothing == \A o \in Objects \cap Pointerfree : refs[o] = {}

Inv ==
  /\ TypeOK
  /\ ColoursOfPhase /\ PinnedColour /\ FreeAreWhite
  /\ Closed
  /\ NoBlackToWhite
  /\ StringsHoldNothing
-----------------------------------------------------------------------------
(* What the program can get at is live: Live is one of the sets that       *)
(* Reachable is the least of.                                              *)
LEMMA ClosedSafe == ASSUME TypeOK, Closed PROVE Safe
<1>1. Live \in SUBSET Objects
  BY DEF Live, TypeOK, HeapTypeOK
<1>2. Reachable \subseteq Live
  BY <1>1 DEF Reachable, Closed
<1> QED BY <1>2 DEF Safe, Live

LEMMA InitInv == Init => Inv
BY DEF Init, HeapInit, Inv, TypeOK, HeapTypeOK, Colours, ColoursOfPhase,
       PinnedColour, FreeAreWhite, Closed, Live, Roots, RefsOf, NoBlackToWhite,
       StringsHoldNothing

(* A shaded object was white: its colour stays what a live object has.     *)
LEMMA ShadedColours ==
  ASSUME TypeOK, NEW S
  PROVE  /\ Shaded(S) \in [Objects -> Colours]
         /\ \A o \in Objects :
              /\ o \in S \cap Whites => Shaded(S)[o] \in {"gray", "black"}
              /\ o \in S \cap Whites /\ o \notin Pointerfree => Shaded(S)[o] = "gray"
              /\ o \notin S \cap Whites => Shaded(S)[o] = colour[o]
BY DEF TypeOK, Shaded, Shade, Colours

(* What the program does unseen moves roots about, between things it holds.*)
LEMMA UnseenInv ==
  ASSUME Inv, Unseen, UNCHANGED <<colour, phase>>
  PROVE  Inv'
<1> USE DEF Inv, TypeOK, HeapTypeOK, Closed, Live, Roots, RefsOf
<1>1. ASSUME NEW p \in Objects, NEW c \in Objects, EraseRef(p, c) PROVE Inv'
  BY <1>1 DEF EraseRef, ColoursOfPhase, PinnedColour, FreeAreWhite, NoBlackToWhite,
              StringsHoldNothing
<1>2. ASSUME NEW p \in Objects, NEW c \in Objects, LoadRef(p, c) PROVE Inv'
  BY <1>2 DEF LoadRef, ColoursOfPhase, PinnedColour, FreeAreWhite, NoBlackToWhite,
              StringsHoldNothing
<1>3. ASSUME NEW o \in Objects, SetGlobal(o) PROVE Inv'
  BY <1>3 DEF SetGlobal, ColoursOfPhase, PinnedColour, FreeAreWhite, NoBlackToWhite,
              StringsHoldNothing
<1>4. ASSUME NEW o \in Objects, ClearGlobal(o) PROVE Inv'
  BY <1>4 DEF ClearGlobal, ColoursOfPhase, PinnedColour, FreeAreWhite, NoBlackToWhite,
              StringsHoldNothing
<1>5. ASSUME NEW o \in Objects, PopStack(o) PROVE Inv'
  BY <1>5 DEF PopStack, ColoursOfPhase, PinnedColour, FreeAreWhite, NoBlackToWhite,
              StringsHoldNothing
<1> QED BY <1>1, <1>2, <1>3, <1>4, <1>5 DEF Unseen

(* A new object is white, and refers to nothing or to what a held one does.*)
LEMMA AllocInv == ASSUME Inv, NEW o \in Objects, Alloc(o) PROVE Inv'
<1>1. o \notin Roots /\ o \notin pinned
  BY DEF Inv, Closed, Live, Roots, Alloc, AllocObject
<1>2. \A p \in allocated : colour[p] = "black" => o \notin refs[p]
  BY DEF Inv, Closed, Live, RefsOf, Alloc, AllocObject, TypeOK, HeapTypeOK
<1> QED
  BY <1>1, <1>2
  DEF Alloc, AllocObject, Inv, TypeOK, HeapTypeOK, Colours, ColoursOfPhase,
      PinnedColour, FreeAreWhite, Closed, Live, Roots, RefsOf, NoBlackToWhite,
      StringsHoldNothing

LEMMA RenewInv ==
  ASSUME Inv, NEW o \in Objects, NEW n \in Objects, Renew(o, n) PROVE Inv'
<1>1. n \notin Roots /\ n \notin pinned /\ o \in Live
  BY DEF Inv, Closed, Live, Roots, Renew, RenewObject
<1>2. \A p \in allocated : colour[p] = "black" => n \notin refs[p]
  BY DEF Inv, Closed, Live, RefsOf, Renew, RenewObject, TypeOK, HeapTypeOK
<1> QED
  BY <1>1, <1>2
  DEF Renew, RenewObject, Inv, TypeOK, HeapTypeOK, Colours, ColoursOfPhase,
      PinnedColour, FreeAreWhite, Closed, Live, Roots, RefsOf, NoBlackToWhite,
      StringsHoldNothing

(* The barrier shades the parent or the child: no black object comes to    *)
(* refer to a white one.                                                   *)
LEMMA StoreInv ==
  ASSUME Inv, NEW p \in Objects, NEW c \in Objects, Store(p, c) PROVE Inv'
<1>1. p \in Live /\ c \in Live
  BY DEF Inv, Closed, Store, StoreRef
<1>2. colour[p] = "black" => phase = "mark"
  BY DEF Inv, ColoursOfPhase
<1>3. /\ colour' \in [Objects -> Colours]
      /\ \A o \in Objects :
           \/ colour'[o] = colour[o]
           \/ colour'[o] \in {"gray", "black"} /\ colour[o] \in {"white", "black"}
                /\ phase = "mark" /\ o \in {p, c}
      /\ colour'[p] = "black" /\ colour[p] = "black" => colour'[c] # "white"
      /\ \A o \in Objects : colour'[o] = "black" => colour[o] = "black" \/ o \in Pointerfree
  BY <1>1, <1>2 DEF Store, Inv, TypeOK, Shade, Colours
<1>4. /\ UNCHANGED <<allocated, globals, stack, pinned, phase>>
      /\ p \notin Pointerfree
      /\ refs' = [refs EXCEPT ![p] = @ \cup {c}]
  BY DEF Store, StoreRef
<1>5. TypeOK' /\ ColoursOfPhase' /\ PinnedColour' /\ FreeAreWhite' /\ StringsHoldNothing'
  BY <1>1, <1>3, <1>4
  DEF Inv, TypeOK, HeapTypeOK, ColoursOfPhase, PinnedColour, FreeAreWhite,
      StringsHoldNothing, Live
<1>6. Live' = Live
  BY <1>3, <1>4 DEF Live, Inv, TypeOK, HeapTypeOK
<1>7. Closed'
  BY <1>1, <1>4, <1>6 DEF Inv, Closed, Roots, RefsOf, TypeOK, HeapTypeOK
<1>8. NoBlackToWhite'
  BY <1>3, <1>4 DEF Inv, NoBlackToWhite, StringsHoldNothing, TypeOK, HeapTypeOK
<1> QED BY <1>5, <1>7, <1>8 DEF Inv

LEMMA PinInv == ASSUME Inv, NEW o \in Objects, Pin(o) PROVE Inv'
BY DEF Pin, PinObject, Inv, TypeOK, HeapTypeOK, Colours, ColoursOfPhase,
       PinnedColour, FreeAreWhite, Closed, Live, Roots, RefsOf, NoBlackToWhite,
       StringsHoldNothing

(* An object that is unpinned while marking is scanned once more: its      *)
(* children may be white.                                                  *)
LEMMA UnpinInv == ASSUME Inv, NEW o \in Objects, Unpin(o) PROVE Inv'
BY DEF Unpin, UnpinObject, Shade, Inv, TypeOK, HeapTypeOK, Colours,
       ColoursOfPhase, PinnedColour, FreeAreWhite, Closed, Live, Roots,
       RefsOf, NoBlackToWhite, StringsHoldNothing

(* Shading loses nothing, and makes no object black that refers to any.    *)
LEMMA ShadeInv ==
  ASSUME Inv, NEW S, colour' = Shaded(S), phase' = "mark",
         phase \in {"idle", "mark"}, UNCHANGED heapVars
  PROVE  Inv'
<1>1. /\ colour' \in [Objects -> Colours]
      /\ \A o \in Objects :
           \/ colour'[o] = colour[o]
           \/ /\ o \in allocated /\ colour[o] = "white"
              /\ colour'[o] = IF o \in Pointerfree THEN "black" ELSE "gray"
  BY DEF Inv, TypeOK, Shaded, Shade, Whites, Colours
<1>2. Live' = Live
  BY <1>1 DEF Live, Inv, TypeOK, HeapTypeOK, heapVars
<1> QED
  BY <1>1, <1>2
  DEF Inv, TypeOK, HeapTypeOK, heapVars, ColoursOfPhase, PinnedColour,
      FreeAreWhite, Closed, Roots, RefsOf, NoBlackToWhite, StringsHoldNothing

LEMMA ScanInv == ASSUME Inv, NEW o \in Objects, Scan(o) PROVE Inv'
<1>1. /\ colour' \in [Objects -> Colours]
      /\ colour'[o] = "black" /\ o \in allocated /\ colour[o] = "gray"
      /\ \A c \in refs[o] : colour'[c] # "white"
      /\ \A c \in Objects \ {o} :
           \/ colour'[c] = colour[c]
           \/ /\ c \in allocated /\ colour[c] = "white"
              /\ colour'[c] = IF c \in Pointerfree THEN "black" ELSE "gray"
  <2>1. \A c \in refs[o] : c \in allocated
    BY DEF Inv, Closed, Live, RefsOf, Scan
  <2> QED BY <2>1 DEF Scan, Inv, TypeOK, HeapTypeOK, Shaded, Shade, Whites, Colours
<1>2. UNCHANGED <<allocated, refs, globals, stack, pinned, phase>> /\ phase = "mark"
  BY DEF Scan, heapVars
<1>3. Live' = Live
  BY <1>1, <1>2 DEF Live, Inv, TypeOK, HeapTypeOK
<1>4. NoBlackToWhite'
  BY <1>1, <1>2 DEF Inv, TypeOK, HeapTypeOK, NoBlackToWhite, StringsHoldNothing
<1> QED
  BY <1>1, <1>2, <1>3, <1>4
  DEF Inv, TypeOK, HeapTypeOK, ColoursOfPhase, PinnedColour, FreeAreWhite,
      Closed, Roots, RefsOf, StringsHoldNothing

(* At the end of marking what is white and not led to by the stack is held *)
(* by nothing that stays: not by a global or a pinned object, which were   *)
(* visited, not by a black object, not by one that is kept.                *)
LEMMA FinishInv == ASSUME Inv, Finish PROVE Inv'
<1>1. PICK kept \in SUBSET Whites :
        /\ (stack \cup RefsOf(kept)) \cap Whites \subseteq kept
        /\ colour' = [o \in Objects |->
                        IF o \in Whites \ kept THEN "dead"
                        ELSE IF o \in kept \/ colour[o] = "black" THEN "white"
                        ELSE colour[o]]
  BY DEF Finish
<1>2. /\ UNCHANGED <<allocated, refs, globals, stack, pinned>>
      /\ phase = "mark" /\ phase' = "sweep"
      /\ \A o \in allocated : colour[o] # "gray"
      /\ (globals \cup RefsOf(pinned)) \cap Whites = {}
  BY DEF Finish, heapVars, Visited
<1>3. /\ colour' \in [Objects -> Colours]
      /\ \A o \in Objects : colour'[o] = "dead" <=> o \in Whites \ kept
      /\ \A o \in Objects : colour'[o] = "pinned" <=> colour[o] = "pinned"
      /\ \A o \in Objects : colour'[o] \notin {"gray", "black"}
  BY <1>1, <1>2
  DEF Inv, TypeOK, HeapTypeOK, Colours, ColoursOfPhase, FreeAreWhite, Whites
<1>4. \A o \in Objects \ allocated : colour'[o] = "white"
  BY <1>1, <1>2 DEF Inv, FreeAreWhite, Whites
<1>5. Live' = allocated \ (Whites \ kept) /\ Live = allocated
  BY <1>2, <1>3 DEF Live, Inv, TypeOK, HeapTypeOK, ColoursOfPhase
<1>6. Roots \cap (Whites \ kept) = {}
  BY <1>1, <1>2 DEF Roots, Inv, PinnedColour, TypeOK, HeapTypeOK, Whites
<1>7. ASSUME NEW o \in allocated \ (Whites \ kept), NEW c \in refs[o]
      PROVE  c \notin Whites \ kept
  <2>1. c \in Objects /\ o \in Objects
    BY DEF Inv, TypeOK, HeapTypeOK
  <2>2. CASE o \in kept
    BY <1>1, <2>2 DEF RefsOf
  <2>3. CASE colour[o] = "black"
    BY <2>1, <2>3 DEF Inv, NoBlackToWhite, Whites
  <2>4. CASE o \in pinned
    BY <1>2, <2>4 DEF RefsOf
  <2>5. colour[o] \in {"white", "black", "pinned"}
    BY <1>2, <2>1 DEF Inv, TypeOK, Colours, ColoursOfPhase
  <2> QED BY <2>1, <2>2, <2>3, <2>4, <2>5 DEF Whites, Inv, PinnedColour
<1>8. Closed'
  BY <1>2, <1>5, <1>6, <1>7 DEF Inv, Closed, Roots, RefsOf
<1> QED
  BY <1>2, <1>3, <1>4, <1>8
  DEF Inv, TypeOK, HeapTypeOK, ColoursOfPhase, PinnedColour, FreeAreWhite,
      NoBlackToWhite, StringsHoldNothing

LEMMA SweepInv == ASSUME Inv, NEW o \in Objects, Sweep(o) PROVE Inv'
<1>1. o \in allocated \ Live /\ o \notin Roots
  BY DEF Sweep, FreeObject, Live, Inv, Closed
<1>2. Live' = Live
  BY <1>1 DEF Sweep, FreeObject, Live, Inv, TypeOK, HeapTypeOK
<1>3. \A p \in Live : refs'[p] = refs[p]
  BY <1>1 DEF Sweep, FreeObject, Live, Inv, TypeOK, HeapTypeOK
<1>4. Closed'
  BY <1>2, <1>3 DEF Sweep, FreeObject, Inv, Closed, Roots, RefsOf
<1> QED
  BY <1>1, <1>4
  DEF Sweep, FreeObject, Inv, TypeOK, HeapTypeOK, Colours, ColoursOfPhase,
      PinnedColour, FreeAreWhite, Roots, NoBlackToWhite, StringsHoldNothing

LEMMA EndSweepInv == ASSUME Inv, EndSweep PROVE Inv'
BY DEF EndSweep, heapVars, Inv, TypeOK, HeapTypeOK, ColoursOfPhase,
       PinnedColour, FreeAreWhite, Closed, Live, Roots, RefsOf,
       NoBlackToWhite, StringsHoldNothing
-----------------------------------------------------------------------------
LEMMA NextInv == Inv /\ [Next]_vars => Inv'
<1> SUFFICES ASSUME Inv, [Next]_vars PROVE Inv'
  OBVIOUS
<1>1. CASE Mutate
  BY <1>1, UnseenInv, AllocInv, RenewInv, StoreInv, PinInv, UnpinInv DEF Mutate
<1>2. CASE Begin \/ Revisit
  BY <1>2, ShadeInv DEF Begin, Revisit, Inv, TypeOK
<1>3. CASE Collect /\ ~(Begin \/ Revisit)
  BY <1>3, ScanInv, FinishInv, SweepInv, EndSweepInv DEF Collect
<1>4. CASE UNCHANGED vars
  BY <1>4
  DEF vars, heapVars, Inv, TypeOK, HeapTypeOK, ColoursOfPhase, PinnedColour,
      FreeAreWhite, Closed, Live, Roots, RefsOf, NoBlackToWhite,
      StringsHoldNothing
<1> QED BY <1>1, <1>2, <1>3, <1>4 DEF Next

LEMMA InvCorrect == Spec => []Inv
BY InitInv, NextInv, PTL DEF Spec

(* No object that the program can get at, through whatever references, is  *)
(* ever freed, whatever it does between two steps of the collector.        *)
THEOREM TriColourSafe == Spec => []Safe
<1>1. Inv => Safe
  BY ClosedSafe DEF Inv
<1> QED BY <1>1, InvCorrect, PTL

(* A black object never refers to a white one: what __link is for.         *)
THEOREM BarrierHolds == Spec => []NoBlackToWhite
BY InvCorrect, PTL DEF Inv
=============================================================================
