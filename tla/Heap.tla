-------------------------------- MODULE Heap --------------------------------
(***************************************************************************)
(* The managed heap of a compiled AssemblyScript program as the program    *)
(* sees it: objects that hold references to objects, and the references    *)
(* the program can start from: its globals, its shadow stack, and what the *)
(* host has pinned.  TriColour and Itcms add the collector; every          *)
(* operation here is one half of one of theirs.                            *)
(***************************************************************************)
EXTENDS FiniteSets, Naturals

CONSTANTS Objects,      \* the blocks an object can be allocated in
          Pointerfree,  \* those whose type has no references (a string)
          MaxRefs       \* references one object may hold

VARIABLES allocated,    \* the objects that have not been freed
          refs,         \* what each object refers to
          globals,      \* what the globals refer to
          stack,        \* what the shadow stack refers to
          pinned        \* what the host has pinned

heapVars == <<allocated, refs, globals, stack, pinned>>

HeapTypeOK ==
  /\ allocated \subseteq Objects
  /\ refs \in [Objects -> SUBSET Objects]
  /\ globals \subseteq Objects
  /\ stack \subseteq Objects
  /\ pinned \subseteq Objects

(* What the program can name without following a reference.                *)
Roots == globals \cup stack \cup pinned

RefsOf(S) == UNION {refs[o] : o \in S}

(* The least set that holds the roots and what its members refer to.       *)
Reachable ==
  {o \in Objects :
     \A S \in SUBSET Objects :
       Roots \subseteq S /\ RefsOf(S) \subseteq S => o \in S}

(* What the program can still get at has not been freed: neither the       *)
(* write barrier of __link, nor the second visit of the roots, nor the     *)
(* flip of the colours ever loses an object that the program moves around  *)
(* while the collector is at work.                                         *)
Safe == Reachable \subseteq allocated

HeapInit ==
  /\ allocated = {}
  /\ refs = [o \in Objects |-> {}]
  /\ globals = {} /\ stack = {} /\ pinned = {}

(* A fresh object holds nothing and is held by the stack.                  *)
AllocObject(o) ==
  /\ o \in Objects \ allocated
  /\ allocated' = allocated \cup {o}
  /\ refs' = [refs EXCEPT ![o] = {}]
  /\ stack' = stack \cup {o}
  /\ UNCHANGED <<globals, pinned>>

(* A bigger object n of the same type gets a copy of what o holds.         *)
RenewObject(o, n) ==
  /\ o \in Roots /\ n \in Objects \ allocated
  /\ (o \in Pointerfree) = (n \in Pointerfree)
  /\ allocated' = allocated \cup {n}
  /\ refs' = [refs EXCEPT ![n] = refs[o]]
  /\ stack' = stack \cup {n}
  /\ UNCHANGED <<globals, pinned>>

StoreRef(p, c) ==
  /\ p \in Roots \ Pointerfree /\ c \in Roots
  /\ c \notin refs[p] /\ Cardinality(refs[p]) < MaxRefs
  /\ refs' = [refs EXCEPT ![p] = @ \cup {c}]
  /\ UNCHANGED <<allocated, globals, stack, pinned>>

EraseRef(p, c) ==
  /\ p \in Roots /\ c \in refs[p]
  /\ refs' = [refs EXCEPT ![p] = @ \ {c}]
  /\ UNCHANGED <<allocated, globals, stack, pinned>>

LoadRef(p, c) ==
  /\ p \in Roots /\ c \in refs[p] \ stack
  /\ stack' = stack \cup {c}
  /\ UNCHANGED <<allocated, refs, globals, pinned>>

SetGlobal(o) ==
  /\ o \in Roots \ globals
  /\ globals' = globals \cup {o}
  /\ UNCHANGED <<allocated, refs, stack, pinned>>

ClearGlobal(o) ==
  /\ o \in globals
  /\ globals' = globals \ {o}
  /\ UNCHANGED <<allocated, refs, stack, pinned>>

PopStack(o) ==
  /\ o \in stack
  /\ stack' = stack \ {o}
  /\ UNCHANGED <<allocated, refs, globals, pinned>>

PinObject(o) ==
  /\ o \in Roots \ pinned
  /\ pinned' = pinned \cup {o}
  /\ UNCHANGED <<allocated, refs, globals, stack>>

UnpinObject(o) ==
  /\ o \in pinned
  /\ pinned' = pinned \ {o}
  /\ UNCHANGED <<allocated, refs, globals, stack>>

(* What the program does that the collector does not hear of.              *)
Unseen ==
  \/ \E p, c \in Objects : EraseRef(p, c) \/ LoadRef(p, c)
  \/ \E o \in Objects : SetGlobal(o) \/ ClearGlobal(o) \/ PopStack(o)

FreeObject(o) ==
  /\ o \in allocated
  /\ allocated' = allocated \ {o}
  /\ refs' = [refs EXCEPT ![o] = {}]
  /\ UNCHANGED <<globals, stack, pinned>>
=============================================================================
