------------------------------- MODULE Itcms --------------------------------
(***************************************************************************)
(* The incremental collector of the embedded AssemblyScript standard       *)
(* library: three doubly linked lists of objects, a walk over one of them  *)
(* that stops after each object it scans and goes on from there, and the   *)
(* colours, two of which change their meaning at each flip.  The program   *)
(* runs between any two steps.  A list is the sequence of its objects in   *)
(* the order of `next`; what the sweep has freed is no longer in toSpace.  *)
(***************************************************************************)
EXTENDS Heap, SequencesExt

CONSTANTS MaxPins,      \* objects the host has pinned at a time
          MayPinIter    \* whether the host pins the object the walk is at

VARIABLES gc,           \* the state of the collector
          collect       \* where a call of __collect is, or "no"

vars == <<heapVars, gc, collect>>

GRAY == 2
TRANSPARENT == 3

(* The headers of two of the lists, which the walk can be at.              *)
TOSPACE  == "toSpace"
PINSPACE == "pinSpace"

(* Memory is finite, and the headers are not objects of the program.       *)
ASSUME ItcmsAssumption ==
  IsFiniteSet(Objects) /\ {TOSPACE, PINSPACE} \cap Objects = {}

Init ==
  /\ HeapInit
  /\ gc = [state |-> "IDLE", white |-> 0, iter |-> TOSPACE,
           fromSpace |-> <<>>, toSpace |-> <<>>, pinSpace |-> <<>>,
           color |-> [o \in Objects \cup {PINSPACE} |-> 0]]
  /\ collect = "no"

Black(g) == 1 - g.white

Index(list, o) == CHOOSE i \in DOMAIN list : list[i] = o

(* The object, or the header, before o in its list: Object.prev.           *)
Prev(g, o) ==
  LET before(header, list) ==
        IF Head(list) = o THEN header ELSE list[Index(list, o) - 1]
  IN  IF Contains(g.pinSpace, o) THEN before(PINSPACE, g.pinSpace)
      ELSE before(TOSPACE, g.toSpace)

Unlink(g, o) ==
  [g EXCEPT !.fromSpace = RemoveFirst(@, o), !.toSpace = RemoveFirst(@, o),
            !.pinSpace = RemoveFirst(@, o)]

MakeGrayKeepsIter(g, o) ==
  [Unlink(g, o) EXCEPT
     !.toSpace = Append(@, o),
     !.color[o] = IF o \in Pointerfree THEN Black(g) ELSE GRAY]

MakeGray(g, o) ==
  [Unlink(g, o) EXCEPT
     !.iter = IF @ = o THEN Prev(g, o) ELSE @,
     !.toSpace = Append(@, o),
     !.color[o] = IF o \in Pointerfree THEN Black(g) ELSE GRAY]

Visit(g, o) == IF g.color[o] = g.white THEN MakeGray(g, o) ELSE g

VisitAll(g, S) == FoldSet(LAMBDA o, h : Visit(h, o), g, S)

VisitRoots(g) == VisitAll(VisitAll(g, globals), RefsOf(pinned))

(* What a walk from iter comes to before it is at toSpace.  In pinSpace it *)
(* goes round and round.                                                   *)
Ahead(g) ==
  IF g.iter = TOSPACE THEN g.toSpace
  ELSE IF Contains(g.toSpace, g.iter)
       THEN SubSeq(g.toSpace, Index(g.toSpace, g.iter) + 1, Len(g.toSpace))
  ELSE IF g.iter = PINSPACE THEN Append(g.pinSpace, PINSPACE)
  ELSE LET at == Index(g.pinSpace, g.iter)
       IN  SubSeq(g.pinSpace, at + 1, Len(g.pinSpace)) \o <<PINSPACE>>
             \o SubSeq(g.pinSpace, 1, at)

InPinSpace(g) == g.iter = PINSPACE \/ Contains(g.pinSpace, g.iter)

(* The place there of the next object to scan, 0 if there is none.         *)
Unscanned(g) == SelectInSeq(Ahead(g), LAMBDA o : g.color[o] # Black(g))

Members(o) == IF o = PINSPACE THEN {} ELSE refs[o]

ScanObject(g, o) ==
  VisitAll([g EXCEPT !.color[o] = Black(g)], Members(o))

ScanNext(g) ==
  IF Unscanned(g) = 0 THEN g ELSE ScanObject(g, Ahead(g)[Unscanned(g)])

(* The scan of everything that is left, without a stop.                    *)
ScanRest(g) == FoldSet(LAMBDA o, h : ScanNext(h), g, Objects)

StepIdle ==
  /\ gc.state = "IDLE"
  /\ gc' = [VisitRoots([gc EXCEPT !.state = "MARK"]) EXCEPT !.iter = TOSPACE]
  /\ UNCHANGED heapVars

StepScan ==
  /\ gc.state = "MARK" /\ Unscanned(gc) # 0
  /\ LET o == Ahead(gc)[Unscanned(gc)]
     IN  gc' = ScanObject([gc EXCEPT !.iter = o], o)
  /\ UNCHANGED heapVars

(* The walk is at toSpace, with iter on the last of its objects.           *)
AtEnd ==
  [gc EXCEPT !.iter = IF @ = TOSPACE /\ gc.toSpace = <<>> THEN @
                      ELSE Last(gc.toSpace)]

StepRevisit ==
  /\ gc.state = "MARK" /\ Unscanned(gc) = 0 /\ ~InPinSpace(gc)
  /\ Ahead(VisitRoots(AtEnd)) # <<>>
  /\ gc' = VisitRoots(AtEnd)
  /\ UNCHANGED heapVars

StepFlip ==
  /\ gc.state = "MARK" /\ Unscanned(gc) = 0 /\ ~InPinSpace(gc)
  /\ Ahead(VisitRoots(AtEnd)) = <<>>
  /\ LET g == ScanRest(VisitAll(VisitRoots(AtEnd), stack))
     IN  gc' = [g EXCEPT
                  !.state = "SWEEP", !.white = Black(g),
                  !.fromSpace = g.toSpace, !.toSpace = g.fromSpace,
                  !.iter = IF g.fromSpace = <<>> THEN TOSPACE ELSE Head(g.fromSpace)]
  /\ UNCHANGED heapVars

StepFree ==
  /\ gc.state = "SWEEP" /\ gc.iter # TOSPACE
  /\ FreeObject(gc.iter)
  /\ LET rest == Tail(gc.toSpace)
     IN  gc' = [gc EXCEPT
                  !.toSpace = rest, !.color[gc.iter] = 0,
                  !.iter = IF rest = <<>> THEN TOSPACE ELSE Head(rest)]

StepSwept ==
  /\ gc.state = "SWEEP" /\ gc.iter = TOSPACE
  /\ gc' = [gc EXCEPT !.state = "IDLE", !.toSpace = <<>>]
  /\ UNCHANGED heapVars

StepOneCycle ==
  /\ StepIdle \/ StepScan \/ StepRevisit \/ StepFlip \/ StepFree \/ StepSwept
  /\ collect' = IF gc'.state = "IDLE" THEN "no" ELSE IF collect = "no" THEN "no" ELSE "full"

(* A step of interrupt, which __new calls, or of a call of __collect: that *)
(* one finishes the cycle it finds and goes through a whole one.           *)
Step ==
  /\ StepIdle \/ StepScan \/ StepRevisit \/ StepFlip \/ StepFree \/ StepSwept
  /\ collect' = IF collect = "finish" /\ gc.state = "IDLE" THEN "full"
                ELSE IF collect = "full" /\ gc'.state = "IDLE" THEN "no"
                ELSE collect

Collect ==
  /\ collect = "no" /\ collect' = "finish"
  /\ UNCHANGED <<heapVars, gc>>

LinkNew(o) ==
  gc' = [gc EXCEPT !.fromSpace = Append(@, o), !.color[o] = gc.white]

New(o) == AllocObject(o) /\ LinkNew(o)

Renew(o, n) == RenewObject(o, n) /\ LinkNew(n)

(* The write barrier after c was stored in p.  multiple: p is a container. *)
Barrier(p, c, multiple) ==
  IF gc.color[c] # gc.white THEN gc
  ELSE IF gc.color[p] = Black(gc) THEN MakeGray(gc, IF multiple THEN p ELSE c)
  ELSE IF gc.color[p] = TRANSPARENT /\ gc.state = "MARK" THEN MakeGray(gc, c)
  ELSE gc

Link(p, c, multiple) ==
  /\ StoreRef(p, c)
  /\ gc' = Barrier(p, c, multiple)

Pin(o) ==
  /\ Cardinality(pinned) < MaxPins
  /\ o = gc.iter => MayPinIter
  /\ gc.color[o] # TRANSPARENT
  /\ PinObject(o)
  /\ gc' = [Unlink(gc, o) EXCEPT !.pinSpace = Append(@, o), !.color[o] = TRANSPARENT]

UnpinWhite(o) ==
  /\ gc.color[o] = TRANSPARENT
  /\ UnpinObject(o)
  /\ gc' = [Unlink(gc, o) EXCEPT !.fromSpace = Append(@, o), !.color[o] = gc.white]

Unpin(o) ==
  /\ gc.color[o] = TRANSPARENT
  /\ UnpinObject(o)
  /\ gc' = IF gc.state = "MARK" THEN MakeGray(gc, o)
           ELSE [Unlink(gc, o) EXCEPT !.fromSpace = Append(@, o), !.color[o] = gc.white]

(* There is one thread: nothing runs beside a call of __collect.           *)
Mutate ==
  /\ collect = "no" /\ UNCHANGED collect
  /\ \/ Unseen /\ UNCHANGED gc
     \/ \E o \in Objects : New(o) \/ Pin(o) \/ Unpin(o)
     \/ \E o, n \in Objects : Renew(o, n)
     \/ \E p, c \in Objects, multiple \in BOOLEAN : Link(p, c, multiple)

Next == Mutate \/ Collect \/ Step

Spec == Init /\ [][Next]_vars
-----------------------------------------------------------------------------
(* The colour that an object has whatever bit stands for white at present. *)
Abstracted(o) ==
  IF o \notin allocated THEN "white"
  ELSE CASE gc.color[o] = TRANSPARENT -> "pinned"
         [] gc.color[o] = GRAY        -> "gray"
         [] gc.color[o] = gc.white    -> "white"
         [] OTHER -> IF gc.state = "SWEEP" THEN "dead" ELSE "black"

Colouring == [o \in Objects |-> Abstracted(o)]

Phase == CASE gc.state = "IDLE" -> "idle"
           [] gc.state = "MARK" -> "mark"
           [] OTHER -> "sweep"

T == INSTANCE TriColour WITH colour <- Colouring, phase <- Phase

(* Walking the lists, with the place kept in iter, and flipping the bit    *)
(* for white is tri-colour marking: each step of the collector does to the *)
(* colours what the abstract one allows, none in the wrong phase.          *)
TriColourMarking == T!Spec

(* visitRoots: "assert(iter.color == transparent)" of every object in the  *)
(* list of the pinned ones.                                                *)
PinnedAreTransparent ==
  \A i \in DOMAIN gc.pinSpace : gc.color[gc.pinSpace[i]] = TRANSPARENT

(* A call of __collect leaves nothing behind that the program cannot get   *)
(* at, in whatever state it finds the collector: what the cycle under way  *)
(* has marked for nothing goes in the cycle that follows it.               *)
CollectFreesGarbage ==
  [][collect = "full" /\ collect' = "no" => allocated' = Reachable']_vars
=============================================================================
