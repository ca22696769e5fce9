----------------------------- MODULE TriColour ------------------------------
(***************************************************************************)
(* Incremental tri-colour marking and sweeping, without the lists that     *)
(* Itcms keeps the objects in: what a collector step and a write barrier   *)
(* do to the colours.  Itcms implements it.                                *)
(***************************************************************************)
EXTENDS Heap

VARIABLES colour,   \* of the allocated objects
          phase     \* of the collector

vars == <<heapVars, colour, phase>>

Colours == {"white", "gray", "black", "pinned", "dead"}

TypeOK ==
  /\ HeapTypeOK
  /\ colour \in [Objects -> Colours]
  /\ phase \in {"idle", "mark", "sweep"}

Init ==
  /\ HeapInit
  /\ colour = [o \in Objects |-> "white"]
  /\ phase = "idle"

Whites == {o \in allocated : colour[o] = "white"}

(* What has no references has none to scan: it is black at once.           *)
Shade(o) == IF o \in Pointerfree THEN "black" ELSE "gray"

Shaded(S) ==
  [o \in Objects |-> IF o \in S \cap Whites THEN Shade(o) ELSE colour[o]]

Alloc(o) ==
  /\ AllocObject(o)
  /\ colour' = [colour EXCEPT ![o] = "white"]
  /\ UNCHANGED phase

Renew(o, n) ==
  /\ RenewObject(o, n)
  /\ colour' = [colour EXCEPT ![n] = "white"]
  /\ UNCHANGED phase

(* No black object may come to refer to a white one: the barrier goes back *)
(* to the parent, or forward to the child.                                 *)
Store(p, c) ==
  /\ StoreRef(p, c)
  /\ \/ /\ colour[c] = "white" /\ colour[p] = "black"
        /\ \/ colour' = [colour EXCEPT ![p] = "gray"]
           \/ colour' = [colour EXCEPT ![c] = Shade(c)]
     \/ /\ colour[c] = "white" /\ colour[p] = "pinned" /\ phase = "mark"
        /\ colour' = [colour EXCEPT ![c] = Shade(c)]
     \/ /\ colour[c] = "white" => colour[p] # "black"
        /\ ~(colour[c] = "white" /\ colour[p] = "pinned" /\ phase = "mark")
        /\ UNCHANGED colour
  /\ UNCHANGED phase

Pin(o) ==
  /\ PinObject(o)
  /\ colour' = [colour EXCEPT ![o] = "pinned"]
  /\ UNCHANGED phase

Unpin(o) ==
  /\ UnpinObject(o)
  /\ colour' = [colour EXCEPT ![o] = IF phase = "mark" THEN Shade(o) ELSE "white"]
  /\ UNCHANGED phase

Mutate ==
  \/ Unseen /\ UNCHANGED <<colour, phase>>
  \/ \E o \in Objects : Alloc(o) \/ Pin(o) \/ Unpin(o)
  \/ \E o, n \in Objects : Renew(o, n)
  \/ \E p, c \in Objects : Store(p, c)

(* The roots that are visited at the start of marking and again before its *)
(* end.  The stack is not among them: it is looked at once, when marking   *)
(* ends.                                                                   *)
Visited == globals \cup RefsOf(pinned)

Begin ==
  /\ phase = "idle" /\ phase' = "mark"
  /\ colour' = Shaded(Visited)
  /\ UNCHANGED heapVars

Scan(o) ==
  /\ phase = "mark" /\ o \in allocated /\ colour[o] = "gray"
  /\ colour' = [Shaded(refs[o]) EXCEPT ![o] = "black"]
  /\ UNCHANGED <<heapVars, phase>>

Revisit ==
  /\ phase = "mark"
  /\ colour' = Shaded(Visited)
  /\ UNCHANGED <<heapVars, phase>>

(* Marking ends with nothing gray and the roots visited.  Of the white     *)
(* objects those that the stack leads to are kept.                         *)
Finish ==
  /\ phase = "mark" /\ phase' = "sweep"
  /\ \A o \in allocated : colour[o] # "gray"
  /\ Visited \cap Whites = {}
  /\ \E kept \in SUBSET Whites :
       /\ (stack \cup RefsOf(kept)) \cap Whites \subseteq kept
       /\ colour' = [o \in Objects |->
                       IF o \in Whites \ kept THEN "dead"
                       ELSE IF o \in kept \/ colour[o] = "black" THEN "white"
                       ELSE colour[o]]
  /\ UNCHANGED heapVars

Sweep(o) ==
  /\ phase = "sweep" /\ colour[o] = "dead"
  /\ FreeObject(o)
  /\ colour' = [colour EXCEPT ![o] = "white"]
  /\ UNCHANGED phase

EndSweep ==
  /\ phase = "sweep" /\ phase' = "idle"
  /\ \A o \in allocated : colour[o] # "dead"
  /\ UNCHANGED <<heapVars, colour>>

Collect ==
  \/ Begin \/ Revisit \/ Finish \/ EndSweep
  \/ \E o \in Objects : Scan(o) \/ Sweep(o)

Next == Mutate \/ Collect

Spec == Init /\ [][Next]_vars
=============================================================================
