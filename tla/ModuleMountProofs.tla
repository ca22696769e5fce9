-------------------------- MODULE ModuleMountProofs --------------------------
(***************************************************************************)
(* Theorems about ModuleMount, for any modules, requirements and numbers   *)
(* of goroutines, of resources and of scopes.                              *)
(*                                                                         *)
(* First as long as modules are only mounted.  (An Unmount or Close next   *)
(* to a Mount breaks all four theorems.)  A Mount that has reserved its ID *)
(* has the scope that is mounted under it.  So no two have the same ID,    *)
(* and none has one that is listed: the rollback of a Mount that fails     *)
(* takes away nothing but its own.                                         *)
(*                                                                         *)
(* Then the types, for any operations and goroutines, and what becomes of  *)
(* the resources, as long as the calls do not overlap or modules are only  *)
(* mounted.  (Overlapping Mount and Unmount leave resources behind.)  A    *)
(* scope has one owner: of the goroutines that mount, roll back, unmount   *)
(* or close, no two are at the same scope (Roles).  So no cleanup is       *)
(* deferred while a Close has taken the others: every registered resource  *)
(* is noted in its scope, with the worker that closes it or about to be    *)
(* deferred (Accounted), and a Close that reports success leaves none.     *)
(* The ID of a resource keeps its scope mounted when a Mount that fails    *)
(* can close what it has registered (Owned).                               *)
(***************************************************************************)
EXTENDS ModuleMount, FiniteSetTheorems, SequenceTheorems, TLAPS

MountOnly == Ops = {"mount"}

MountAt == {"check", "deps", "dep", "register", "defer", "rollback"}

Frames ==
  [id : Modules, at : MountAt, deps : SUBSET Modules, dep : Modules \cup {"none"},
   scope : Nat, item : Nat, list : Seq(Entry), gone : SUBSET Entry]

Types ==
  /\ mounted \in [Modules -> Nat]
  /\ listed \subseteq Modules
  /\ made \in Nat
  /\ stack \in [Workers -> Seq(Frames)]
  /\ result \in [Workers -> {"none", "ok", "error"}]

Reserved(f) == f.at \in {"register", "defer", "rollback"}

(* A Mount that waits for the Mount of what it requires is below it, and   *)
(* has found what it waited for when that returned no error.               *)
Chain ==
  \A w \in Workers : \A i \in DOMAIN stack[w] :
    LET f == stack[w][i]
    IN  IF i < Len(stack[w]) THEN f.at = "dep" /\ f.dep = stack[w][i + 1].id
        ELSE f.at = "dep" /\ result[w] = "ok" => f.dep \in listed

(* The scope of a Mount that has reserved its ID is mounted, and the ID is *)
(* not listed.                                                             *)
ReservedMounted ==
  \A w \in Workers : \A i \in DOMAIN stack[w] :
    Reserved(stack[w][i]) => /\ stack[w][i].scope # 0
                             /\ mounted[stack[w][i].id] = stack[w][i].scope
                             /\ stack[w][i].id \notin listed

(* No two have reserved one ID.                                            *)
ReservedOnce ==
  \A v, w \in Workers : v # w =>
    \A i \in DOMAIN stack[v], j \in DOMAIN stack[w] :
      Reserved(stack[v][i]) /\ Reserved(stack[w][j]) => stack[v][i].id # stack[w][j].id

(* What a module requires is listed, but what its Mount has yet to look at.*)
Required ==
  \A w \in Workers : \A i \in DOMAIN stack[w] :
    LET f == stack[w][i]
    IN  f.at # "check" =>
          /\ Requires[f.id] \ {f.id} \subseteq listed \cup f.deps
          /\ Reserved(f) => f.deps = {}

Inv == /\ Types /\ Chain /\ ReservedMounted /\ ReservedOnce /\ Required
       /\ ListedIsMounted /\ RequiredStay
-----------------------------------------------------------------------------
(* A frame that goes on to register resources.                             *)
LEMMA RegisterFrame ==
  ASSUME NEW g \in Frames, NEW n \in Nat
  PROVE  LET reserved == [g EXCEPT !.at = "register", !.scope = n]
             next     == [g EXCEPT !.at = "register", !.item = n]
         IN  /\ reserved \in Frames /\ reserved.id = g.id /\ reserved.at = "register"
             /\ reserved.deps = g.deps /\ reserved.scope = n
             /\ next \in Frames /\ next.id = g.id /\ next.at = "register"
             /\ next.deps = g.deps /\ next.scope = g.scope
BY DEF Frames, MountAt

(* What the operations on the stack of calls do.                           *)

LEMMA StackTop ==
  ASSUME NEW F, stack \in [Workers -> Seq(F)], NEW w \in Workers, stack[w] # <<>>
  PROVE  /\ Len(stack[w]) \in Nat \ {0} /\ DOMAIN stack[w] = 1 .. Len(stack[w])
         /\ Len(stack[w]) \in DOMAIN stack[w]
         /\ Top(w) = stack[w][Len(stack[w])] /\ Top(w) \in F
<1>1. stack[w] \in Seq(F)
  OBVIOUS
<1>2. Len(stack[w]) \in Nat \ {0} /\ DOMAIN stack[w] = 1 .. Len(stack[w])
  BY <1>1, EmptySeq, LenProperties
<1>3. Top(w) \in F
  BY <1>1, <1>2, ElementOfSeq DEF Top
<1> QED BY <1>2, <1>3 DEF Top

LEMMA StackRest ==
  ASSUME NEW F, stack \in [Workers -> Seq(F)], NEW w \in Workers, stack[w] # <<>>
  PROVE  LET r == SubSeq(stack[w], 1, Len(stack[w]) - 1)
         IN  /\ r \in Seq(F) /\ Len(r) = Len(stack[w]) - 1
             /\ DOMAIN r = 1 .. Len(stack[w]) - 1
             /\ \A i \in 1 .. Len(stack[w]) - 1 : r[i] = stack[w][i]
<1> DEFINE n == Len(stack[w]) - 1
           r == SubSeq(stack[w], 1, n)
<1>1. n \in Nat /\ stack[w] \in Seq(F)
  BY StackTop
<1>2. \A i \in 1 .. n : stack[w][i] \in F
  BY <1>1, ElementOfSeq, StackTop
<1>3. /\ r \in Seq(F)
      /\ Len(r) = IF 1 <= n THEN n - 1 + 1 ELSE 0
      /\ \A i \in 1 .. n - 1 + 1 : r[i] = stack[w][1 + i - 1]
  BY <1>1, <1>2, SubSeqProperties
<1> HIDE DEF r, n
<1>4. Len(r) = n /\ \A i \in 1 .. n : r[i] = stack[w][i]
  <2>1. /\ n - 1 + 1 = n /\ (1 <= n \/ n = 0)
        /\ \A i \in 1 .. n : 1 + i - 1 = i
    BY <1>1
  <2> QED BY <1>3, <2>1
<1>5. DOMAIN r = 1 .. n
  BY <1>3, <1>4, LenProperties
<1> QED BY <1>3, <1>4, <1>5 DEF r, n

LEMMA ConcatFrame ==
  ASSUME NEW F, NEW r \in Seq(F), NEW f \in F
  PROVE  LET s == r \o <<f>>
         IN  /\ s \in Seq(F) /\ Len(s) = Len(r) + 1
             /\ DOMAIN s = 1 .. Len(r) + 1
             /\ \A i \in 1 .. Len(r) + 1 : s[i] = IF i <= Len(r) THEN r[i] ELSE f
<1>1. <<f>> \in Seq(F) /\ Len(<<f>>) = 1 /\ <<f>>[1] = f
  OBVIOUS
<1>2. Len(r) \in Nat
  BY LenProperties
<1>3. /\ r \o <<f>> \in Seq(F) /\ Len(r \o <<f>>) = Len(r) + 1
      /\ \A i \in 1 .. Len(r) + 1 :
           (r \o <<f>>)[i] = IF i <= Len(r) THEN r[i] ELSE <<f>>[i - Len(r)]
  BY <1>1, ConcatProperties
<1>4. \A i \in 1 .. Len(r) + 1 : i <= Len(r) \/ i - Len(r) = 1
  BY <1>2
<1>5. DOMAIN (r \o <<f>>) = 1 .. Len(r) + 1
  BY <1>3, LenProperties
<1> QED BY <1>1, <1>3, <1>4, <1>5

LEMMA StackGoto ==
  ASSUME NEW F, stack \in [Workers -> Seq(F)], NEW w \in Workers,
         stack[w] # <<>>, NEW f \in F, Goto(w, f)
  PROVE  /\ stack' \in [Workers -> Seq(F)]
         /\ \A v \in Workers \ {w} : stack'[v] = stack[v]
         /\ Len(stack'[w]) = Len(stack[w])
         /\ DOMAIN stack'[w] = 1 .. Len(stack[w])
         /\ \A i \in 1 .. Len(stack[w]) :
              stack'[w][i] = IF i = Len(stack[w]) THEN f ELSE stack[w][i]
<1> DEFINE r == SubSeq(stack[w], 1, Len(stack[w]) - 1)
<1>1. stack' = [stack EXCEPT ![w] = r \o <<f>>]
  BY DEF Goto
<1>2. /\ r \in Seq(F) /\ Len(r) = Len(stack[w]) - 1
      /\ \A i \in 1 .. Len(stack[w]) - 1 : r[i] = stack[w][i]
  BY StackRest
<1>3. Len(stack[w]) \in Nat \ {0}
  BY StackTop
<1> HIDE DEF r
<1>4. /\ r \o <<f>> \in Seq(F) /\ Len(r \o <<f>>) = Len(stack[w])
      /\ DOMAIN (r \o <<f>>) = 1 .. Len(stack[w])
      /\ \A i \in 1 .. Len(stack[w]) :
           (r \o <<f>>)[i] = IF i = Len(stack[w]) THEN f ELSE stack[w][i]
  BY <1>2, <1>3, ConcatFrame
<1> QED BY <1>1, <1>4

(* The frame on top waits for the call of another.                         *)
Push(w, f, g) == stack' = [stack EXCEPT ![w] = SubSeq(@, 1, Len(@) - 1) \o <<f, g>>]

LEMMA StackPush ==
  ASSUME NEW F, stack \in [Workers -> Seq(F)], NEW w \in Workers,
         stack[w] # <<>>, NEW f \in F, NEW g \in F, Push(w, f, g)
  PROVE  /\ stack' \in [Workers -> Seq(F)]
         /\ \A v \in Workers \ {w} : stack'[v] = stack[v]
         /\ Len(stack'[w]) = Len(stack[w]) + 1
         /\ DOMAIN stack'[w] = 1 .. Len(stack[w]) + 1
         /\ \A i \in 1 .. Len(stack[w]) + 1 :
              stack'[w][i] = IF i = Len(stack[w]) THEN f
                             ELSE IF i = Len(stack[w]) + 1 THEN g ELSE stack[w][i]
<1> DEFINE r == SubSeq(stack[w], 1, Len(stack[w]) - 1)
<1>1. stack' = [stack EXCEPT ![w] = r \o <<f, g>>]
  BY DEF Push
<1>2. /\ r \in Seq(F) /\ Len(r) = Len(stack[w]) - 1
      /\ \A i \in 1 .. Len(stack[w]) - 1 : r[i] = stack[w][i]
  BY StackRest
<1>3. Len(stack[w]) \in Nat \ {0}
  BY StackTop
<1> HIDE DEF r
<1> DEFINE p == <<f, g>>
<1>4. p \in Seq(F) /\ Len(p) = 2 /\ p[1] = f /\ p[2] = g
  OBVIOUS
<1> HIDE DEF p
<1>5. /\ r \o p \in Seq(F) /\ Len(r \o p) = Len(r) + 2
      /\ \A i \in 1 .. Len(r) + 2 :
           (r \o p)[i] = IF i <= Len(r) THEN r[i] ELSE p[i - Len(r)]
  <2>1. r \in Seq(F) /\ p \in Seq(F)
    BY <1>2, <1>4
  <2>2. /\ r \o p \in Seq(F) /\ Len(r \o p) = Len(r) + Len(p)
        /\ \A i \in 1 .. Len(r) + Len(p) :
             (r \o p)[i] = IF i <= Len(r) THEN r[i] ELSE p[i - Len(r)]
    BY <2>1, ConcatProperties
  <2> QED BY <2>2, <1>4
<1>6. DOMAIN (r \o p) = 1 .. Len(r) + 2
  BY <1>5, LenProperties
<1>7. \A i \in 1 .. Len(stack[w]) + 1 :
        \/ i <= Len(r) /\ i # Len(stack[w]) /\ i # Len(stack[w]) + 1 /\ i \in 1 .. Len(stack[w]) - 1
        \/ i = Len(stack[w]) /\ i - Len(r) = 1 /\ ~(i <= Len(r))
        \/ i = Len(stack[w]) + 1 /\ i - Len(r) = 2 /\ ~(i <= Len(r)) /\ i # Len(stack[w])
  BY <1>2, <1>3
<1>8. \A i \in 1 .. Len(stack[w]) + 1 :
        (r \o p)[i] = IF i = Len(stack[w]) THEN f
                            ELSE IF i = Len(stack[w]) + 1 THEN g ELSE stack[w][i]
  <2> TAKE i \in 1 .. Len(stack[w]) + 1
  <2>1. (r \o p)[i] = IF i <= Len(r) THEN r[i] ELSE p[i - Len(r)]
    BY <1>2, <1>3, <1>5
  <2> QED BY <2>1, <1>2, <1>4, <1>7
<1>9. r \o p \in Seq(F) /\ Len(r \o p) = Len(stack[w]) + 1
      /\ DOMAIN (r \o p) = 1 .. Len(stack[w]) + 1
  BY <1>2, <1>3, <1>5, <1>6
<1> QED BY <1>1, <1>8, <1>9 DEF p

LEMMA StackCall ==
  ASSUME NEW F, stack \in [Workers -> Seq(F)], NEW w \in Workers,
         NEW f \in F, stack[w] = <<>>, Call(w, f)
  PROVE  /\ stack' \in [Workers -> Seq(F)]
         /\ \A v \in Workers \ {w} : stack'[v] = stack[v]
         /\ Len(stack'[w]) = 1 /\ DOMAIN stack'[w] = {1}
         /\ stack'[w][1] = f
<1>1. stack' = [stack EXCEPT ![w] = <<>> \o <<f>>]
  BY DEF Call
<1>2. <<>> \in Seq(F) /\ Len(<<>>) = 0
  BY EmptySeq
<1>3. /\ <<>> \o <<f>> \in Seq(F) /\ Len(<<>> \o <<f>>) = 1
      /\ DOMAIN (<<>> \o <<f>>) = 1 .. 1 /\ (<<>> \o <<f>>)[1] = f
  BY <1>2, ConcatFrame
<1> QED BY <1>1, <1>3

LEMMA StackReturn ==
  ASSUME NEW F, stack \in [Workers -> Seq(F)], NEW w \in Workers, stack[w] # <<>>,
         result \in [Workers -> {"none", "ok", "error"}],
         NEW x \in {"ok", "error"}, Return(w, x)
  PROVE  /\ stack' \in [Workers -> Seq(F)]
         /\ \A v \in Workers \ {w} : stack'[v] = stack[v] /\ result'[v] = result[v]
         /\ Len(stack'[w]) = Len(stack[w]) - 1
         /\ DOMAIN stack'[w] = 1 .. Len(stack[w]) - 1
         /\ \A i \in 1 .. Len(stack[w]) - 1 : stack'[w][i] = stack[w][i]
         /\ result' \in [Workers -> {"none", "ok", "error"}] /\ result'[w] = x
BY StackRest DEF Return
(* The same for the frames of Mounts.                                       *)

LEMMA TopFrame ==
  ASSUME Types, NEW w \in Workers, stack[w] # <<>>
  PROVE  /\ Len(stack[w]) \in Nat \ {0} /\ DOMAIN stack[w] = 1 .. Len(stack[w])
         /\ Len(stack[w]) \in DOMAIN stack[w]
         /\ Top(w) = stack[w][Len(stack[w])] /\ Top(w) \in Frames
BY StackTop DEF Types

LEMMA FrameTypes ==
  ASSUME Types, NEW w \in Workers, NEW i \in DOMAIN stack[w]
  PROVE  stack[w][i] \in Frames /\ stack[w][i].id \in Modules
<1>1. stack[w] \in Seq(Frames)
  BY DEF Types
<1>2. DOMAIN stack[w] = 1 .. Len(stack[w])
  BY <1>1, LenProperties
<1>3. stack[w][i] \in Frames
  BY <1>1, <1>2, ElementOfSeq
<1> QED BY <1>3 DEF Frames

LEMMA GotoStack ==
  ASSUME Types, NEW w \in Workers, stack[w] # <<>>, NEW f \in Frames, Goto(w, f)
  PROVE  /\ stack' \in [Workers -> Seq(Frames)]
         /\ \A v \in Workers \ {w} : stack'[v] = stack[v]
         /\ Len(stack'[w]) = Len(stack[w])
         /\ DOMAIN stack'[w] = 1 .. Len(stack[w])
         /\ \A i \in 1 .. Len(stack[w]) :
              stack'[w][i] = IF i = Len(stack[w]) THEN f ELSE stack[w][i]
BY StackGoto DEF Types

LEMMA PushStack ==
  ASSUME Types, NEW w \in Workers, stack[w] # <<>>, NEW f \in Frames, NEW g \in Frames,
         Push(w, f, g)
  PROVE  /\ stack' \in [Workers -> Seq(Frames)]
         /\ \A v \in Workers \ {w} : stack'[v] = stack[v]
         /\ Len(stack'[w]) = Len(stack[w]) + 1
         /\ DOMAIN stack'[w] = 1 .. Len(stack[w]) + 1
         /\ \A i \in 1 .. Len(stack[w]) + 1 :
              stack'[w][i] = IF i = Len(stack[w]) THEN f
                             ELSE IF i = Len(stack[w]) + 1 THEN g ELSE stack[w][i]
BY StackPush DEF Types

LEMMA CallStack ==
  ASSUME Types, NEW w \in Workers, NEW f \in Frames, stack[w] = <<>>, Call(w, f)
  PROVE  /\ stack' \in [Workers -> Seq(Frames)]
         /\ \A v \in Workers \ {w} : stack'[v] = stack[v]
         /\ Len(stack'[w]) = 1 /\ DOMAIN stack'[w] = {1}
         /\ stack'[w][1] = f
BY StackCall DEF Types

LEMMA ReturnStack ==
  ASSUME Types, NEW w \in Workers, stack[w] # <<>>,
         NEW x \in {"ok", "error"}, Return(w, x)
  PROVE  /\ stack' \in [Workers -> Seq(Frames)]
         /\ \A v \in Workers \ {w} : stack'[v] = stack[v] /\ result'[v] = result[v]
         /\ Len(stack'[w]) = Len(stack[w]) - 1
         /\ DOMAIN stack'[w] = 1 .. Len(stack[w]) - 1
         /\ \A i \in 1 .. Len(stack[w]) - 1 : stack'[w][i] = stack[w][i]
         /\ result' \in [Workers -> {"none", "ok", "error"}] /\ result'[w] = x
BY StackReturn DEF Types
-----------------------------------------------------------------------------
(* What the calls of the other goroutines, and the frames below the top,   *)
(* keep.                                                                   *)

LEMMA Below ==
  ASSUME Inv, NEW w \in Workers, NEW i \in 1 .. Len(stack[w]) - 1
  PROVE  ~Reserved(stack[w][i]) /\ stack[w][i].at = "dep"
<1>1. stack[w] \in Seq(Frames)
  BY DEF Inv, Types
<1>2. Len(stack[w]) \in Nat /\ DOMAIN stack[w] = 1 .. Len(stack[w])
  BY <1>1, LenProperties
<1>3. i \in DOMAIN stack[w] /\ i < Len(stack[w])
  BY <1>2
<1> QED BY <1>3 DEF Inv, Chain, Reserved

(* The frame on top goes on, and may reserve its ID.                       *)
LEMMA GotoInv ==
  ASSUME Inv, NEW w \in Workers, stack[w] # <<>>, NEW f \in Frames, Goto(w, f),
         f.id = Top(w).id, f.at # "dep", UNCHANGED <<listed, result>>,
         made' \in Nat, mounted' \in [Modules -> Nat],
         \A id \in Modules : mounted'[id] = mounted[id] \/ (id = f.id /\ mounted[id] = 0),
         f.at # "check" => Requires[f.id] \ {f.id} \subseteq listed \cup f.deps,
         Reserved(f) => /\ f.deps = {} /\ f.scope # 0 /\ mounted'[f.id] = f.scope
                        /\ mounted[f.id] = 0 \/ Reserved(Top(w))
  PROVE  Inv'
<1> DEFINE n == Len(stack[w])
<1>0. Types /\ f.id \in Modules
  BY DEF Inv, Frames
<1>1. /\ n \in Nat \ {0} /\ DOMAIN stack[w] = 1 .. n /\ n \in DOMAIN stack[w]
      /\ Top(w) = stack[w][n]
  BY <1>0, TopFrame
<1>2. /\ stack' \in [Workers -> Seq(Frames)]
      /\ \A v \in Workers \ {w} : stack'[v] = stack[v]
      /\ Len(stack'[w]) = n /\ DOMAIN stack'[w] = 1 .. n
      /\ \A i \in 1 .. n : stack'[w][i] = IF i = n THEN f ELSE stack[w][i]
  BY <1>0, GotoStack
<1> HIDE DEF n
<1>3. Types'
  BY <1>2 DEF Inv, Types
<1>4. Chain'
  <2> SUFFICES ASSUME NEW v \in Workers, NEW i \in DOMAIN stack'[v]
               PROVE  LET g == stack'[v][i]
                      IN  IF i < Len(stack'[v])
                          THEN g.at = "dep" /\ g.dep = stack'[v][i + 1].id
                          ELSE g.at = "dep" /\ result'[v] = "ok" => g.dep \in listed'
    BY DEF Chain
  <2>1. CASE v # w
    BY <2>1, <1>2 DEF Inv, Chain
  <2>2. CASE v = w /\ i = n
    BY <2>2, <1>1, <1>2
  <2>3. CASE v = w /\ i # n
    <3>1. i \in 1 .. n /\ i < n /\ i + 1 \in 1 .. n
      BY <2>3, <1>1, <1>2
    <3>2. stack[w][i].at = "dep" /\ stack[w][i].dep = stack[w][i + 1].id
      BY <3>1, <1>1 DEF Inv, Chain, n
    <3>3. stack'[w][i] = stack[w][i] /\ stack'[w][i + 1].id = stack[w][i + 1].id
      BY <3>1, <1>1, <1>2
    <3> QED BY <2>3, <3>1, <3>2, <3>3, <1>2
  <2> QED BY <2>1, <2>2, <2>3
<1>5. Reserved(f) => f.id \notin listed
  <2>1. CASE mounted[f.id] = 0
    BY <2>1 DEF Inv, ListedIsMounted
  <2>2. CASE Reserved(Top(w))
    BY <2>2, <1>1 DEF Inv, ReservedMounted
  <2> QED BY <2>1, <2>2
<1>6. \A v \in Workers \ {w} : \A i \in DOMAIN stack[v] :
        Reserved(stack[v][i]) => /\ mounted[stack[v][i].id] # 0
                                 /\ Reserved(f) => stack[v][i].id # f.id
  <2> SUFFICES ASSUME NEW v \in Workers \ {w}, NEW i \in DOMAIN stack[v], Reserved(stack[v][i])
               PROVE  /\ mounted[stack[v][i].id] # 0
                      /\ Reserved(f) => stack[v][i].id # f.id
    OBVIOUS
  <2>1. mounted[stack[v][i].id] # 0
    BY DEF Inv, ReservedMounted
  <2>2. Reserved(Top(w)) => stack[v][i].id # f.id
    BY <1>1 DEF Inv, ReservedOnce
  <2> QED BY <2>1, <2>2
<1>7. \A i \in 1 .. n : i # n => ~Reserved(stack[w][i]) /\ i \in 1 .. n - 1
  BY <1>1, Below DEF n
<1>8. ReservedMounted'
  <2> SUFFICES ASSUME NEW v \in Workers, NEW i \in DOMAIN stack'[v], Reserved(stack'[v][i])
               PROVE  /\ stack'[v][i].scope # 0
                      /\ mounted'[stack'[v][i].id] = stack'[v][i].scope
                      /\ stack'[v][i].id \notin listed'
    BY DEF ReservedMounted, Reserved
  <2>1. CASE v = w
    <3>1. stack'[v][i] = f
      BY <2>1, <1>2, <1>7
    <3> QED BY <3>1, <1>5
  <2>2. CASE v # w
    <3>1. stack'[v][i] = stack[v][i] /\ i \in DOMAIN stack[v] /\ v \in Workers \ {w}
      BY <2>2, <1>2
    <3>2. stack[v][i].id \in Modules
      BY <3>1, <1>0, FrameTypes
    <3>3. mounted'[stack[v][i].id] = mounted[stack[v][i].id]
      BY <3>1, <3>2, <1>6
    <3> QED BY <3>1, <3>3 DEF Inv, ReservedMounted
  <2> QED BY <2>1, <2>2
<1>9. ReservedOnce'
  <2> SUFFICES ASSUME NEW u \in Workers, NEW v \in Workers, u # v,
                      NEW i \in DOMAIN stack'[u], NEW j \in DOMAIN stack'[v],
                      Reserved(stack'[u][i]), Reserved(stack'[v][j])
               PROVE  stack'[u][i].id # stack'[v][j].id
    BY DEF ReservedOnce, Reserved
  <2>1. u = w => stack'[u][i] = f
    BY <1>2, <1>7
  <2>2. v = w => stack'[v][j] = f
    BY <1>2, <1>7
  <2>3. u # w => stack'[u][i] = stack[u][i] /\ i \in DOMAIN stack[u]
    BY <1>2
  <2>4. v # w => stack'[v][j] = stack[v][j] /\ j \in DOMAIN stack[v]
    BY <1>2
  <2>5. CASE u # w /\ v # w
    BY <2>3, <2>4, <2>5 DEF Inv, ReservedOnce
  <2>6. CASE u = w \/ v = w
    BY <2>1, <2>2, <2>3, <2>4, <2>6, <1>6
  <2> QED BY <2>5, <2>6
<1>10. Required'
  <2> SUFFICES ASSUME NEW v \in Workers, NEW i \in DOMAIN stack'[v]
               PROVE  LET g == stack'[v][i]
                      IN  g.at # "check" =>
                            /\ Requires[g.id] \ {g.id} \subseteq listed \cup g.deps
                            /\ Reserved(g) => g.deps = {}
    BY DEF Required, Reserved
  <2>1. stack'[v][i] = f \/ (i \in DOMAIN stack[v] /\ stack'[v][i] = stack[v][i])
    BY <1>1, <1>2
  <2> QED BY <2>1 DEF Inv, Required
<1>11. ListedIsMounted' /\ RequiredStay'
  BY <1>0 DEF Inv, Types, ListedIsMounted, RequiredStay
<1> QED BY <1>3, <1>4, <1>8, <1>9, <1>10, <1>11 DEF Inv

(* The call on top returns: it has reserved nothing, has given back what   *)
(* it had, or has listed it.                                               *)
LEMMA ReturnInv ==
  ASSUME Inv, NEW w \in Workers, stack[w] # <<>>,
         NEW x \in {"ok", "error"}, Return(w, x),
         made' = made, mounted' \in [Modules -> Nat],
         listed' \in {listed, listed \cup {Top(w).id}},
         listed' # listed => Reserved(Top(w)) /\ mounted' = mounted,
         x = "ok" => Top(w).id \in listed',
         \A id \in Modules :
           mounted'[id] = mounted[id] \/ (id = Top(w).id /\ Reserved(Top(w)) /\ listed' = listed)
  PROVE  Inv'
<1> DEFINE n == Len(stack[w])
           f == Top(w)
<1>0. Types
  BY DEF Inv
<1>1. /\ n \in Nat \ {0} /\ DOMAIN stack[w] = 1 .. n /\ n \in DOMAIN stack[w]
      /\ f = stack[w][n] /\ f \in Frames /\ f.id \in Modules
  BY <1>0, TopFrame DEF Frames
<1>2. /\ stack' \in [Workers -> Seq(Frames)]
      /\ \A v \in Workers \ {w} : stack'[v] = stack[v] /\ result'[v] = result[v]
      /\ Len(stack'[w]) = n - 1 /\ DOMAIN stack'[w] = 1 .. n - 1
      /\ \A i \in 1 .. n - 1 : stack'[w][i] = stack[w][i]
      /\ result' \in [Workers -> {"none", "ok", "error"}] /\ result'[w] = x
  BY <1>0, ReturnStack
<1> HIDE DEF n, f
<1>3. Types'
  BY <1>0, <1>1, <1>2 DEF Types, f
<1>4. \A v \in Workers : \A i \in DOMAIN stack'[v] :
        i \in DOMAIN stack[v] /\ stack'[v][i] = stack[v][i]
  BY <1>1, <1>2
<1>5. Chain'
  <2> SUFFICES ASSUME NEW v \in Workers, NEW i \in DOMAIN stack'[v]
               PROVE  LET g == stack'[v][i]
                      IN  IF i < Len(stack'[v])
                          THEN g.at = "dep" /\ g.dep = stack'[v][i + 1].id
                          ELSE g.at = "dep" /\ result'[v] = "ok" => g.dep \in listed'
    BY DEF Chain
  <2>1. CASE v # w
    BY <2>1, <1>2 DEF Inv, Chain
  <2>2. CASE v = w
    <3>1. i \in 1 .. n - 1 /\ i < n /\ stack'[w][i] = stack[w][i]
      BY <2>2, <1>1, <1>2
    <3>2. stack[w][i].at = "dep" /\ stack[w][i].dep = stack[w][i + 1].id
      BY <3>1, <1>1 DEF Inv, Chain, n
    <3>3. CASE i < n - 1
      <4>1. i + 1 \in 1 .. n - 1
        BY <3>1, <3>3, <1>1
      <4> QED BY <2>2, <3>1, <3>2, <3>3, <4>1, <1>2
    <3>4. CASE i = n - 1
      <4>1. stack[w][i].dep = f.id
        BY <3>2, <3>4, <1>1
      <4>2. ~(i < Len(stack'[v]))
        BY <2>2, <3>4, <1>1, <1>2
      <4> QED BY <2>2, <3>1, <4>1, <4>2, <1>2 DEF f
    <3> QED BY <3>1, <3>3, <3>4, <1>1
  <2> QED BY <2>1, <2>2
<1>6. \A v \in Workers : \A i \in DOMAIN stack'[v] :
        Reserved(stack[v][i]) => ~Reserved(f) \/ stack[v][i].id # f.id
  <2> SUFFICES ASSUME NEW v \in Workers, NEW i \in DOMAIN stack'[v],
                      Reserved(stack[v][i]), Reserved(f)
               PROVE  stack[v][i].id # f.id
    OBVIOUS
  <2>1. v # w
    BY <1>2, Below DEF n
  <2> QED BY <2>1, <1>1, <1>4 DEF Inv, ReservedOnce
<1>7. ReservedMounted'
  <2> SUFFICES ASSUME NEW v \in Workers, NEW i \in DOMAIN stack'[v], Reserved(stack'[v][i])
               PROVE  /\ stack'[v][i].scope # 0
                      /\ mounted'[stack'[v][i].id] = stack'[v][i].scope
                      /\ stack'[v][i].id \notin listed'
    BY DEF ReservedMounted, Reserved
  <2>1. i \in DOMAIN stack[v] /\ stack'[v][i] = stack[v][i] /\ Reserved(stack[v][i])
    BY <1>4
  <2>2. /\ stack[v][i].scope # 0 /\ mounted[stack[v][i].id] = stack[v][i].scope
        /\ stack[v][i].id \notin listed
    BY <2>1 DEF Inv, ReservedMounted
  <2>3. stack[v][i].id \in Modules
    BY <2>1, <1>0, FrameTypes
  <2>4. ~Reserved(f) \/ stack[v][i].id # f.id
    BY <2>1, <1>6
  <2>5. mounted'[stack[v][i].id] = mounted[stack[v][i].id]
    BY <2>3, <2>4 DEF f
  <2>6. stack[v][i].id \notin listed'
    BY <2>2, <2>4 DEF f
  <2> QED BY <2>1, <2>2, <2>5, <2>6
<1>8. ReservedOnce'
  BY <1>4 DEF Inv, ReservedOnce, Reserved
<1>9. Required'
  BY <1>4 DEF Inv, Required, Reserved
<1>10. ListedIsMounted'
  <2> SUFFICES ASSUME NEW id \in listed' PROVE mounted'[id] # 0
    BY DEF ListedIsMounted
  <2>1. CASE id \in listed
    <3>1. id \in Modules /\ mounted[id] # 0
      BY <2>1, <1>0 DEF Inv, Types, ListedIsMounted
    <3>2. ~(id = f.id /\ Reserved(f))
      BY <2>1, <1>1 DEF Inv, ReservedMounted
    <3> QED BY <3>1, <3>2 DEF f
  <2>2. CASE id \notin listed
    <3>1. id = f.id /\ Reserved(f) /\ mounted' = mounted
      BY <2>2 DEF f
    <3> QED BY <3>1, <1>1 DEF Inv, ReservedMounted
  <2> QED BY <2>1, <2>2
<1>11. RequiredStay'
  <2> SUFFICES ASSUME NEW id \in listed' PROVE Requires[id] \ {id} \subseteq listed'
    BY DEF RequiredStay
  <2>1. CASE id \in listed
    BY <2>1 DEF Inv, RequiredStay
  <2>2. CASE id \notin listed
    <3>1. id = f.id /\ Reserved(f)
      BY <2>2 DEF f
    <3>2. Requires[f.id] \ {f.id} \subseteq listed
      BY <3>1, <1>1 DEF Inv, Required, Reserved
    <3> QED BY <3>1, <3>2
  <2> QED BY <2>1, <2>2
<1> QED BY <1>3, <1>5, <1>7, <1>8, <1>9, <1>10, <1>11 DEF Inv

(* A call begins.                                                          *)
LEMMA CallInv ==
  ASSUME Inv, NEW w \in Workers, stack[w] = <<>>, NEW f \in Frames, f.at = "check",
         Call(w, f), UNCHANGED <<mounted, listed, made, result>>
  PROVE  Inv'
<1>1. /\ stack' \in [Workers -> Seq(Frames)]
      /\ \A v \in Workers \ {w} : stack'[v] = stack[v]
      /\ Len(stack'[w]) = 1 /\ DOMAIN stack'[w] = {1} /\ stack'[w][1] = f
  BY CallStack DEF Inv
<1>2. Types'
  BY <1>1 DEF Inv, Types
<1>5. Chain'
  <2> SUFFICES ASSUME NEW v \in Workers, NEW i \in DOMAIN stack'[v]
               PROVE  LET h == stack'[v][i]
                      IN  IF i < Len(stack'[v])
                          THEN h.at = "dep" /\ h.dep = stack'[v][i + 1].id
                          ELSE h.at = "dep" /\ result'[v] = "ok" => h.dep \in listed'
    BY DEF Chain
  <2>1. CASE v # w
    BY <2>1, <1>1 DEF Inv, Chain
  <2>2. CASE v = w
    BY <2>2, <1>1
  <2> QED BY <2>1, <2>2
<1>3. \A v \in Workers : \A i \in DOMAIN stack'[v] :
        \/ v # w /\ i \in DOMAIN stack[v] /\ stack'[v][i] = stack[v][i]
        \/ stack'[v][i].at = "check"
  BY <1>1
<1>4. ReservedMounted' /\ ReservedOnce' /\ Required'
  BY <1>3 DEF Inv, ReservedMounted, ReservedOnce, Required, Reserved
<1> QED BY <1>2, <1>4, <1>5 DEF Inv, ListedIsMounted, RequiredStay

(* Mount is called for a module that the one on top requires.              *)
LEMMA PushInv ==
  ASSUME Inv, NEW w \in Workers, stack[w] # <<>>, NEW f \in Frames, NEW g \in Frames,
         Top(w).at = "deps", f.at = "dep", f.id = Top(w).id, f.deps = Top(w).deps,
         g.at = "check", f.dep = g.id,
         Push(w, f, g),
         UNCHANGED <<mounted, listed, made, result>>
  PROVE  Inv'
<1> DEFINE n == Len(stack[w])
<1>0. Types
  BY DEF Inv
<1>1. /\ n \in Nat \ {0} /\ DOMAIN stack[w] = 1 .. n /\ n \in DOMAIN stack[w]
      /\ Top(w) = stack[w][n]
  BY <1>0, TopFrame
<1>2. /\ stack' \in [Workers -> Seq(Frames)]
      /\ \A v \in Workers \ {w} : stack'[v] = stack[v]
      /\ Len(stack'[w]) = n + 1 /\ DOMAIN stack'[w] = 1 .. n + 1
      /\ \A i \in 1 .. n + 1 :
           stack'[w][i] = IF i = n THEN f ELSE IF i = n + 1 THEN g ELSE stack[w][i]
  BY <1>0, PushStack
<1> HIDE DEF n
<1>3. Types'
  BY <1>2 DEF Inv, Types
<1>4. \A v \in Workers : \A i \in DOMAIN stack'[v] :
        \/ i \in DOMAIN stack[v] /\ stack'[v][i] = stack[v][i]
        \/ v = w /\ stack'[v][i] \in {f, g}
  BY <1>1, <1>2
<1>5. Chain'
  <2> SUFFICES ASSUME NEW v \in Workers, NEW i \in DOMAIN stack'[v]
               PROVE  LET h == stack'[v][i]
                      IN  IF i < Len(stack'[v])
                          THEN h.at = "dep" /\ h.dep = stack'[v][i + 1].id
                          ELSE h.at = "dep" /\ result'[v] = "ok" => h.dep \in listed'
    BY DEF Chain
  <2>1. CASE v # w
    BY <2>1, <1>2 DEF Inv, Chain
  <2>2. CASE v = w /\ i = n
    <3>1. i < n + 1 /\ i + 1 \in 1 .. n + 1 /\ i + 1 # n
      BY <2>2, <1>1
    <3>2. stack'[w][n] = f /\ stack'[w][n + 1] = g
      BY <1>1, <1>2
    <3> QED BY <2>2, <3>1, <3>2, <1>2
  <2>3. CASE v = w /\ i = n + 1
    <3>1. n + 1 \in 1 .. n + 1 /\ n + 1 # n /\ ~(n + 1 < n + 1)
      BY <1>1
    <3>2. stack'[w][n + 1] = g /\ ~(i < Len(stack'[w]))
      BY <2>3, <3>1, <1>2
    <3> QED BY <2>3, <3>2
  <2>4. CASE v = w /\ i # n /\ i # n + 1
    <3>1. i \in 1 .. n /\ i < n /\ i + 1 \in 1 .. n /\ i + 1 # n + 1
      BY <2>4, <1>1, <1>2
    <3>2. stack[w][i].at = "dep" /\ stack[w][i].dep = stack[w][i + 1].id
      BY <3>1, <1>1 DEF Inv, Chain, n
    <3>3. stack'[w][i] = stack[w][i]
      BY <2>4, <3>1, <1>1, <1>2
    <3>4. stack'[w][i + 1].id = stack[w][i + 1].id
      <4>1. i + 1 \in 1 .. n + 1
        BY <3>1, <1>1
      <4>2. stack'[w][i + 1] = IF i + 1 = n THEN f ELSE stack[w][i + 1]
        BY <3>1, <4>1, <1>2
      <4> QED BY <4>2, <1>1
    <3>5. i < Len(stack'[w])
      BY <3>1, <1>1, <1>2
    <3> QED BY <2>4, <3>2, <3>3, <3>4, <3>5
  <2> QED BY <2>1, <2>2, <2>3, <2>4
<1>6. ~Reserved(f) /\ ~Reserved(g)
  BY DEF Reserved
<1>10. \A v \in Workers : \A i \in DOMAIN stack'[v] :
         Reserved(stack'[v][i]) => i \in DOMAIN stack[v] /\ stack'[v][i] = stack[v][i]
  BY <1>4, <1>6
<1>7. ReservedMounted'
  BY <1>10 DEF Inv, ReservedMounted, Reserved
<1>11. ReservedOnce'
  BY <1>10 DEF Inv, ReservedOnce, Reserved
<1>8. Requires[f.id] \ {f.id} \subseteq listed \cup f.deps
  BY <1>1 DEF Inv, Required
<1>9. Required'
  BY <1>4, <1>6, <1>8 DEF Inv, Required, Reserved
<1> QED BY <1>3, <1>5, <1>7, <1>9, <1>11 DEF Inv, ListedIsMounted, RequiredStay
-----------------------------------------------------------------------------
(* The steps of Mount.                                                     *)

LEMMA TopOf ==
  ASSUME Inv, NEW w \in Workers, stack[w] # <<>>
  PROVE  /\ Top(w) \in Frames /\ Top(w).id \in Modules
         /\ Top(w).at # "check" =>
              /\ Requires[Top(w).id] \ {Top(w).id} \subseteq listed \cup Top(w).deps
              /\ Reserved(Top(w)) => Top(w).deps = {}
         /\ Reserved(Top(w)) => /\ Top(w).scope # 0
                                /\ mounted[Top(w).id] = Top(w).scope
         /\ Top(w).at = "dep" /\ result[w] = "ok" => Top(w).dep \in listed
<1> DEFINE n == Len(stack[w])
<1>0. Types
  BY DEF Inv
<1>1. /\ n \in Nat \ {0} /\ n \in DOMAIN stack[w] /\ ~(n < n)
      /\ Top(w) = stack[w][n] /\ Top(w) \in Frames
  BY <1>0, TopFrame
<1> QED BY <1>1 DEF Inv, Required, ReservedMounted, Chain, Frames

LEMMA MountCallInv ==
  ASSUME Inv, NEW w \in Workers, NEW id \in Modules, MountCall(w, id)
  PROVE  Inv'
<1>1. Frame(id, "check") \in Frames /\ Frame(id, "check").at = "check"
  BY DEF Frame, Frames, MountAt
<1> QED BY <1>1, CallInv DEF MountCall, kit

LEMMA MountCheckInv == ASSUME Inv, NEW w \in Workers, MountCheck(w) PROVE Inv'
<1>1. stack[w] # <<>> /\ Top(w).at = "check" /\ UNCHANGED <<mounted, listed, made>>
  BY DEF MountCheck, At, kit
<1>2. Top(w) \in Frames /\ Top(w).id \in Modules
  BY <1>1, TopOf
<1>3. mounted \in [Modules -> Nat] /\ made \in Nat
  BY DEF Inv, Types
<1>4. CASE mounted[Top(w).id] # 0
  <2>1. Return(w, "error")
    BY <1>4 DEF MountCheck
  <2> QED BY <2>1, <1>1, <1>3, ReturnInv
<1>5. CASE mounted[Top(w).id] = 0
  <2> DEFINE f == [Top(w) EXCEPT !.at = "deps", !.deps = Requires[Top(w).id] \ {Top(w).id}]
  <2>1. Goto(w, f) /\ UNCHANGED result
    BY <1>5 DEF MountCheck
  <2>2. Requires[Top(w).id] \in SUBSET Modules
    BY <1>2, ModuleMountAssumption
  <2>3. /\ f \in Frames /\ f.id = Top(w).id /\ f.at = "deps"
        /\ f.deps = Requires[f.id] \ {f.id}
    BY <1>2, <2>2 DEF Frames, MountAt
  <2>4. ~Reserved(f)
    BY <2>3 DEF Reserved
  <2> HIDE DEF f
  <2> QED BY <1>1, <1>3, <2>1, <2>3, <2>4, GotoInv
<1> QED BY <1>4, <1>5

LEMMA MountDepInv ==
  ASSUME Inv, NEW w \in Workers, NEW d \in Modules, MountDep(w, d)
  PROVE  Inv'
<1>1. /\ stack[w] # <<>> /\ Top(w).at = "deps" /\ d \in Top(w).deps
      /\ UNCHANGED <<mounted, listed, made, result>>
  BY DEF MountDep, At, kit
<1>2. /\ Top(w) \in Frames /\ Top(w).id \in Modules
      /\ Requires[Top(w).id] \ {Top(w).id} \subseteq listed \cup Top(w).deps
  BY <1>1, TopOf
<1>3. mounted \in [Modules -> Nat] /\ made \in Nat
  BY DEF Inv, Types
<1>4. CASE d \in listed
  <2> DEFINE f == [Top(w) EXCEPT !.deps = @ \ {d}]
  <2>1. Goto(w, f)
    BY <1>4 DEF MountDep
  <2>2. /\ f \in Frames /\ f.id = Top(w).id /\ f.at = "deps"
        /\ f.deps = Top(w).deps \ {d}
    BY <1>1, <1>2 DEF Frames
  <2>3. ~Reserved(f) /\ Requires[f.id] \ {f.id} \subseteq listed \cup f.deps
    BY <1>2, <1>4, <2>2 DEF Reserved
  <2> HIDE DEF f
  <2> QED BY <1>1, <1>3, <2>1, <2>2, <2>3, GotoInv
<1>5. CASE d \notin listed
  <2> DEFINE f == [Top(w) EXCEPT !.at = "dep", !.dep = d]
             g == Frame(d, "check")
  <2>1. Push(w, f, g)
    BY <1>5 DEF MountDep, Push
  <2>2. /\ f \in Frames /\ f.at = "dep" /\ f.id = Top(w).id /\ f.deps = Top(w).deps
        /\ f.dep = d
    BY <1>1, <1>2 DEF Frames, MountAt
  <2>3. g \in Frames /\ g.at = "check" /\ g.id = d
    BY DEF Frame, Frames, MountAt
  <2> HIDE DEF f, g
  <2> QED BY <1>1, <2>1, <2>2, <2>3, PushInv
<1> QED BY <1>4, <1>5

LEMMA MountDepReturnedInv ==
  ASSUME Inv, NEW w \in Workers, MountDepReturned(w)
  PROVE  Inv'
<1>1. /\ stack[w] # <<>> /\ Top(w).at = "dep" /\ UNCHANGED <<mounted, listed, made>>
  BY DEF MountDepReturned, At, kit
<1>2. /\ Top(w) \in Frames /\ Top(w).id \in Modules
      /\ Requires[Top(w).id] \ {Top(w).id} \subseteq listed \cup Top(w).deps
      /\ result[w] = "ok" => Top(w).dep \in listed
  BY <1>1, TopOf
<1>3. mounted \in [Modules -> Nat] /\ made \in Nat
  BY DEF Inv, Types
<1>4. CASE result[w] = "ok" \/ Top(w).dep \in listed
  <2> DEFINE f == [Top(w) EXCEPT !.at = "deps", !.deps = @ \ {Top(w).dep}]
  <2>1. Goto(w, f) /\ UNCHANGED result
    BY <1>4 DEF MountDepReturned
  <2>2. /\ f \in Frames /\ f.id = Top(w).id /\ f.at = "deps"
        /\ f.deps = Top(w).deps \ {Top(w).dep}
    BY <1>2 DEF Frames, MountAt
  <2>3. ~Reserved(f) /\ Requires[f.id] \ {f.id} \subseteq listed \cup f.deps
    BY <1>2, <1>4, <2>2 DEF Reserved
  <2> HIDE DEF f
  <2> QED BY <1>1, <1>3, <2>1, <2>2, <2>3, GotoInv
<1>5. CASE ~(result[w] = "ok" \/ Top(w).dep \in listed)
  <2>1. Return(w, "error")
    BY <1>5 DEF MountDepReturned
  <2> QED BY <2>1, <1>1, <1>3, ReturnInv
<1> QED BY <1>4, <1>5

LEMMA MountReserveInv == ASSUME Inv, NEW w \in Workers, MountReserve(w) PROVE Inv'
<1>1. /\ stack[w] # <<>> /\ Top(w).at = "deps" /\ Top(w).deps = {} /\ UNCHANGED listed
  BY DEF MountReserve, At
<1>2. /\ Top(w) \in Frames /\ Top(w).id \in Modules
      /\ Requires[Top(w).id] \ {Top(w).id} \subseteq listed \cup Top(w).deps
  BY <1>1, TopOf
<1>3. mounted \in [Modules -> Nat] /\ made \in Nat
  BY DEF Inv, Types
<1>4. CASE mounted[Top(w).id] # 0
  <2>1. Return(w, "error") /\ UNCHANGED <<mounted, made>>
    BY <1>4 DEF MountReserve
  <2> QED BY <2>1, <1>1, <1>3, ReturnInv
<1>5. CASE mounted[Top(w).id] = 0
  <2> DEFINE f == [Top(w) EXCEPT !.at = "register", !.scope = made + 1]
  <2>1. /\ made' = made + 1 /\ mounted' = [mounted EXCEPT ![Top(w).id] = made + 1]
        /\ Goto(w, f) /\ UNCHANGED result
    BY <1>5 DEF MountReserve
  <2>2. /\ f \in Frames /\ f.id = Top(w).id /\ f.at = "register"
        /\ f.deps = {} /\ f.scope = made + 1
    <3>1. made + 1 \in Nat
      BY <1>3
    <3> QED BY <1>1, <1>2, <3>1, RegisterFrame
  <2>3. Requires[f.id] \ {f.id} \subseteq listed \cup f.deps /\ f.scope # 0
    BY <1>1, <1>2, <1>3, <2>2
  <2>4. /\ made' \in Nat /\ mounted' \in [Modules -> Nat] /\ mounted'[f.id] = f.scope
        /\ \A id \in Modules : mounted'[id] = mounted[id] \/ (id = f.id /\ mounted[id] = 0)
    BY <1>2, <1>3, <1>5, <2>1, <2>2
  <2>5. f.at # "dep" /\ mounted[f.id] = 0
    BY <1>5, <2>2
  <2> HIDE DEF f
  <2> QED BY <1>1, <2>1, <2>2, <2>3, <2>4, <2>5, GotoInv
<1> QED BY <1>4, <1>5

(* The frame of a Mount that has reserved its ID goes on and keeps it.     *)
LEMMA KeepsReserved ==
  ASSUME Inv, NEW w \in Workers, stack[w] # <<>>, Reserved(Top(w)),
         NEW f \in Frames, Goto(w, f), Reserved(f),
         f.id = Top(w).id, f.deps = Top(w).deps, f.scope = Top(w).scope,
         UNCHANGED <<mounted, listed, made, result>>
  PROVE  Inv'
<1>1. /\ Top(w).at # "check" /\ f.at # "dep"
  BY DEF Reserved
<1>2. mounted \in [Modules -> Nat] /\ made \in Nat
  BY DEF Inv, Types
<1>3. /\ Requires[f.id] \ {f.id} \subseteq listed \cup f.deps /\ f.deps = {}
      /\ f.scope # 0 /\ mounted[f.id] = f.scope
  BY <1>1, TopOf
<1> QED BY <1>1, <1>2, <1>3, GotoInv

LEMMA RollBackInv ==
  ASSUME Inv, NEW w \in Workers, At(w, "register"), MountRollBack(w),
         UNCHANGED <<mounted, listed, made, result>>
  PROVE  Inv'
<1> DEFINE f == [Top(w) EXCEPT !.at = "rollback"]
<1>1. stack[w] # <<>> /\ Top(w).at = "register" /\ Goto(w, f)
  BY DEF At, MountRollBack, Step
<1>2. Top(w) \in Frames
  BY <1>1, TopOf
<1>3. /\ f \in Frames /\ f.id = Top(w).id /\ f.deps = Top(w).deps
      /\ f.scope = Top(w).scope /\ f.at = "rollback"
  BY <1>2 DEF Frames, MountAt
<1>4. Reserved(f) /\ Reserved(Top(w))
  BY <1>1, <1>3 DEF Reserved
<1> HIDE DEF f
<1> QED BY <1>1, <1>3, <1>4, KeepsReserved

LEMMA MountRegisterInv == ASSUME Inv, NEW w \in Workers, MountRegister(w) PROVE Inv'
<1>1. At(w, "register") /\ UNCHANGED <<mounted, listed, made, result>>
  BY DEF MountRegister, kit
<1>2. CASE MountRollBack(w)
  BY <1>1, <1>2, RollBackInv
<1>3. CASE Step(w, "defer")
  <2> DEFINE f == [Top(w) EXCEPT !.at = "defer"]
  <2>1. stack[w] # <<>> /\ Top(w).at = "register" /\ Goto(w, f)
    BY <1>1, <1>3 DEF At, Step
  <2>2. Top(w) \in Frames
    BY <2>1, TopOf
  <2>3. /\ f \in Frames /\ f.id = Top(w).id /\ f.deps = Top(w).deps
        /\ f.scope = Top(w).scope /\ f.at = "defer"
    BY <2>2 DEF Frames, MountAt
  <2>4. Reserved(f) /\ Reserved(Top(w))
    BY <2>1, <2>3 DEF Reserved
  <2> HIDE DEF f
  <2> QED BY <1>1, <2>1, <2>3, <2>4, KeepsReserved
<1> QED BY <1>2, <1>3 DEF MountRegister

LEMMA MountDeferInv == ASSUME Inv, NEW w \in Workers, MountDefer(w) PROVE Inv'
<1> DEFINE f == [Top(w) EXCEPT !.at = "register", !.item = @ + 1]
<1>1. /\ stack[w] # <<>> /\ Top(w).at = "defer" /\ Goto(w, f)
      /\ UNCHANGED <<mounted, listed, made, result>>
  BY DEF MountDefer, At, kit
<1>2. Top(w) \in Frames
  BY <1>1, TopOf
<1>3. /\ f \in Frames /\ f.id = Top(w).id /\ f.deps = Top(w).deps
      /\ f.scope = Top(w).scope /\ f.at = "register"
  <2>1. Top(w).item + 1 \in Nat
    BY <1>2 DEF Frames
  <2> QED BY <1>2, <2>1, RegisterFrame
<1>4. Reserved(f) /\ Reserved(Top(w))
  BY <1>1, <1>3 DEF Reserved
<1> HIDE DEF f
<1> QED BY <1>1, <1>3, <1>4, KeepsReserved

LEMMA MountForgetInv == ASSUME Inv, NEW w \in Workers, MountForget(w) PROVE Inv'
<1>1. /\ stack[w] # <<>> /\ Top(w).at = "rollback" /\ Return(w, "error")
      /\ mounted' = [mounted EXCEPT ![Top(w).id] = 0] /\ UNCHANGED <<listed, made>>
  BY DEF MountForget, At
<1>2. Top(w).id \in Modules /\ Reserved(Top(w))
  BY <1>1, TopOf DEF Reserved
<1>3. /\ mounted' \in [Modules -> Nat]
      /\ \A id \in Modules : mounted'[id] = mounted[id] \/ id = Top(w).id
  BY <1>1, <1>2 DEF Inv, Types
<1> QED BY <1>1, <1>2, <1>3, ReturnInv

LEMMA MountCommitInv == ASSUME Inv, NEW w \in Workers, MountCommit(w) PROVE Inv'
<1>1. /\ stack[w] # <<>> /\ Top(w).at = "register" /\ Return(w, "ok")
      /\ listed' = listed \cup {Top(w).id} /\ UNCHANGED <<mounted, made>>
  BY DEF MountCommit, At
<1>2. Reserved(Top(w))
  BY <1>1 DEF Reserved
<1>3. mounted \in [Modules -> Nat]
  BY DEF Inv, Types
<1> QED BY <1>1, <1>2, <1>3, ReturnInv
-----------------------------------------------------------------------------
LEMMA InitInv == Init => Inv
<1> SUFFICES ASSUME Init PROVE Inv
  OBVIOUS
<1>1. \A w \in Workers : stack[w] = <<>> /\ DOMAIN stack[w] = {}
  BY DEF Init
<1>2. Types
  BY DEF Init, Types
<1>3. Chain /\ ReservedMounted /\ ReservedOnce /\ Required
  BY <1>1 DEF Chain, ReservedMounted, ReservedOnce, Required
<1>4. ListedIsMounted /\ RequiredStay
  BY DEF Init, ListedIsMounted, RequiredStay
<1> QED BY <1>2, <1>3, <1>4 DEF Inv

(* The frames of Unmount and of closeMounted do not occur.                 *)
LEMMA OnlyMounts ==
  ASSUME Inv, MountOnly, NEW w \in Workers
  PROVE  /\ \A id \in Modules : ~UnmountCall(w, id)
         /\ ~CloseCall(w) /\ ~UnmountStep(w) /\ ~ShutStep(w)
<1>1. "unmount" \notin Ops /\ "close" \notin Ops
  BY DEF MountOnly
<1>2. stack[w] # <<>> => Top(w).at \in MountAt
  BY TopOf DEF Frames
<1>3. ~At(w, "dependents") /\ ~At(w, "lookup") /\ ~At(w, "unmounting")
      /\ ~At(w, "next") /\ ~At(w, "shutting")
  BY <1>2 DEF At, MountAt
<1> QED
  BY <1>1, <1>3 DEF UnmountCall, CloseCall, UnmountStep, ShutStep, UnmountDependents,
     UnmountLookup, UnmountFails, UnmountRemove, CloseNext, CloseNoted, CloseRemove

LEMMA QuietInv ==
  ASSUME Inv, UNCHANGED <<mounted, listed, made, stack, result>>
  PROVE  Inv'
BY DEF Inv, Types, Chain, ReservedMounted, ReservedOnce, Required, Reserved,
       ListedIsMounted, RequiredStay

LEMMA NextInv == ASSUME MountOnly, Inv, [Next]_vars PROVE Inv'
<1>1. CASE UNCHANGED vars
  BY <1>1, QuietInv DEF vars, kit
<1>2. ASSUME NEW w \in Workers, NEW id \in Modules, MountCall(w, id) PROVE Inv'
  BY <1>2, MountCallInv
<1>3. ASSUME NEW w \in Workers, ScopeStep(w) PROVE Inv'
  BY <1>3, QuietInv DEF ScopeStep, CloseTake, CloseCleanup, CloseKeepFailed, kit
<1>4. ASSUME NEW w \in Workers, MountStep(w) PROVE Inv'
  BY <1>4, MountCheckInv, MountReserveInv, MountDepInv, MountDepReturnedInv,
     MountRegisterInv, MountDeferInv, MountForgetInv, MountCommitInv, RollBackInv
     DEF MountStep, MountFails, kit
<1> QED BY <1>1, <1>2, <1>3, <1>4, OnlyMounts DEF Next

LEMMA InvCorrect == ASSUME MountOnly PROVE Spec => []Inv
<1>1. Init => Inv
  BY InitInv
<1>2. Inv /\ [Next]_vars => Inv'
  BY NextInv
<1> QED BY <1>1, <1>2, PTL DEF Spec

(* Of several Mounts of one ID, direct ones or for a module that requires  *)
(* it, a single one runs the module's own Mount.                           *)
THEOREM OneRuns == ASSUME MountOnly PROVE Spec => []OneMountRuns
<1>1. Inv => OneMountRuns
  BY DEF Inv, ReservedOnce, OneMountRuns, Reserved
<1> QED BY <1>1, InvCorrect, PTL

(* A listed module is mounted: the rollback of a Mount that failed frees   *)
(* no ID but its own.                                                      *)
THEOREM ListedAreMounted == ASSUME MountOnly PROVE Spec => []ListedIsMounted
<1>1. Inv => ListedIsMounted
  BY DEF Inv
<1> QED BY <1>1, InvCorrect, PTL

(* What a listed module requires is listed, although Mount looks at one    *)
(* required module after the other and without a lock in between.          *)
THEOREM RequiredAreListed == ASSUME MountOnly PROVE Spec => []RequiredStay
<1>1. Inv => RequiredStay
  BY DEF Inv
<1> QED BY <1>1, InvCorrect, PTL
-----------------------------------------------------------------------------
(* The mount order.                                                        *)

Ordered == order \in Seq(Modules) /\ DependentsLater

(* A module that joins the order is not in it, and none that is requires   *)
(* it: what that one requires is listed.                                   *)
LEMMA CommitOrdered ==
  ASSUME Inv, Ordered, NEW w \in Workers, MountCommit(w)
  PROVE  Ordered'
<1> DEFINE id == Top(w).id
           n  == Len(order)
<1>1. /\ stack[w] # <<>> /\ Reserved(Top(w))
      /\ order' = Append(order, id) /\ listed' = listed \cup {id}
  BY DEF MountCommit, At, Reserved
<1>2. id \in Modules /\ id \notin listed
  <2>1. Types
    BY DEF Inv
  <2>2. Len(stack[w]) \in DOMAIN stack[w] /\ Top(w) = stack[w][Len(stack[w])]
    BY <1>1, <2>1, TopFrame
  <2> QED BY <1>1, <2>2, TopOf DEF Inv, ReservedMounted
<1> HIDE DEF id
<1>3. order \in Seq(Modules) /\ n \in Nat /\ DOMAIN order = 1 .. n
  BY LenProperties DEF Ordered
<1>4. /\ order' \in Seq(Modules) /\ DOMAIN order' = 1 .. n + 1
      /\ \A i \in 1 .. n : order'[i] = order[i]
      /\ order'[n + 1] = id
  <2>1. /\ order' \in Seq(Modules) /\ Len(order') = n + 1
        /\ \A i \in 1 .. n : order'[i] = order[i]
        /\ order'[n + 1] = id
    BY <1>1, <1>2, <1>3, AppendProperties
  <2> QED BY <2>1, LenProperties
<1> HIDE DEF n
<1>5. \A i \in 1 .. n + 1 : i \in 1 .. n \/ i = n + 1
  BY <1>3
<1>6. n + 1 \in 1 .. n + 1 /\ \A i \in 1 .. n : i \in 1 .. n + 1 /\ i <= n + 1
  BY <1>3
<1>7. {order[i] : i \in 1 .. n} = listed
  BY <1>3 DEF Ordered, DependentsLater
<1>8. {order'[i] : i \in DOMAIN order'} = listed'
  BY <1>1, <1>4, <1>5, <1>6, <1>7
<1>9. ASSUME NEW i \in 1 .. n + 1, NEW j \in 1 .. n + 1
      PROVE  /\ order'[i] = order'[j] => i = j
             /\ order'[i] \in Requires[order'[j]] => i <= j
  <2>1. CASE i \in 1 .. n /\ j \in 1 .. n
    BY <2>1, <1>3, <1>4 DEF Ordered, DependentsLater
  <2>2. CASE i \in 1 .. n /\ j = n + 1
    BY <2>2, <1>2, <1>4, <1>6, <1>7
  <2>3. CASE i = n + 1 /\ j \in 1 .. n
    <3>1. order'[i] = id /\ order'[j] = order[j] /\ order[j] \in listed
      BY <2>3, <1>4, <1>7
    <3>2. Requires[order[j]] \ {order[j]} \subseteq listed
      BY <3>1 DEF Inv, RequiredStay
    <3> QED BY <3>1, <3>2, <1>2
  <2>4. CASE i = n + 1 /\ j = n + 1
    BY <2>4, <1>3
  <2> QED BY <1>5, <2>1, <2>2, <2>3, <2>4
<1>10. DependentsLater'
  BY <1>4, <1>8, <1>9 DEF DependentsLater
<1> QED BY <1>4, <1>10 DEF Ordered

LEMMA NextOrdered == ASSUME MountOnly, Inv, Ordered, [Next]_vars PROVE Ordered'
<1>1. CASE UNCHANGED <<order, listed>>
  BY <1>1 DEF Ordered, DependentsLater
<1>2. CASE \E w \in Workers : MountCommit(w)
  BY <1>2, CommitOrdered
<1>3. \/ UNCHANGED <<order, listed>>
      \/ \E w \in Workers : MountCommit(w)
  <2>1. CASE UNCHANGED vars
    BY <2>1 DEF vars, kit
  <2>2. ASSUME NEW w \in Workers, NEW id \in Modules, MountCall(w, id)
        PROVE  UNCHANGED <<order, listed>>
    BY <2>2 DEF MountCall, kit
  <2>3. ASSUME NEW w \in Workers, ScopeStep(w) PROVE UNCHANGED <<order, listed>>
    BY <2>3 DEF ScopeStep, CloseTake, CloseCleanup, CloseKeepFailed, kit
  <2>4. ASSUME NEW w \in Workers, MountStep(w)
        PROVE  UNCHANGED <<order, listed>> \/ MountCommit(w)
    BY <2>4 DEF MountStep, MountCheck, MountReserve, MountDep, MountDepReturned,
       MountRegister, MountDefer, MountFails, MountForget, kit
  <2> QED BY <2>1, <2>2, <2>3, <2>4, OnlyMounts DEF Next
<1> QED BY <1>1, <1>2, <1>3

(* As long as modules are only mounted, a module comes later in the mount  *)
(* order than what it requires, whichever Mounts overlap and fail, and     *)
(* every listed module is in it once: Close walks the order backwards.     *)
THEOREM DependentsFollow == ASSUME MountOnly PROVE Spec => []DependentsLater
<1>1. Init => Ordered
  <2> SUFFICES ASSUME Init PROVE Ordered
    OBVIOUS
  <2>1. order = <<>> /\ listed = {} /\ DOMAIN order = {} /\ order \in Seq(Modules)
    BY EmptySeq DEF Init
  <2> QED BY <2>1 DEF Ordered, DependentsLater
<1>2. Inv /\ Ordered /\ [Next]_vars => Ordered'
  BY NextOrdered
<1>3. Ordered => DependentsLater
  BY DEF Ordered
<1> QED BY <1>1, <1>2, <1>3, InvCorrect, PTL DEF Spec
-----------------------------------------------------------------------------
(* A frame of any call, and a run of scope.Close.                          *)
AnyFrame ==
  [id : Modules \cup {"none"}, at : FrameAt, deps : SUBSET Modules,
   dep : Modules \cup {"none"}, scope : Nat, item : 1 .. Items + 1,
   list : Seq(Entry), gone : SUBSET Entry]

Closings ==
  [scope : Nat, at : {"none", "begin", "run", "done"},
   todo : Seq(1 .. Items), failed : Seq(1 .. Items)]

MountingAt == {"register", "defer", "rollback"}
ClosingAt  == {"rollback", "unmounting", "shutting"}

(* What a call at some place holds, when n scopes have been made.          *)
Sound(f, n) ==
  /\ f.scope <= n
  /\ f.at \in MountingAt \cup {"unmounting"} => f.scope # 0
  /\ f.at \notin {"next", "shutting"} => f.id \in Modules /\ f.gone = {}
  /\ f.at = "defer" => f.item <= Items
  /\ f.at = "shutting" => f.list # <<>>
  /\ \A i \in DOMAIN f.list : f.list[i].scope <= n

(* The types, with what they do not say: only the top frame of a worker is *)
(* not waiting for the Mount above it; the scope of a call or close that   *)
(* has one was made.                                                       *)
StackSound ==
  /\ stack \in [Workers -> Seq(AnyFrame)]
  /\ \A w \in Workers : \A i \in DOMAIN stack[w] :
       /\ Sound(stack[w][i], made)
       /\ i < Len(stack[w]) => stack[w][i].at = "dep"

KitSound ==
  /\ made \in 0 .. MaxScopes
  /\ mounted \in [Modules -> 0 .. made]
  /\ listed \subseteq Modules
  /\ order \in Seq(Modules)

ScopeSound ==
  /\ closed \in [Scopes -> BOOLEAN]
  /\ cleanups \in [Scopes -> Seq(1 .. Items)]
  /\ held \subseteq [id : Modules, item : 1 .. Items, scope : 1 .. made]

ClosingSound ==
  /\ closing \in [Workers -> Closings]
  /\ \A w \in Workers : /\ closing[w].scope <= made
                        /\ closing[w].at # "none" => closing[w].scope # 0

ResultSound == result \in [Workers -> {"none", "ok", "error"}]

TypeInv == StackSound /\ KitSound /\ ScopeSound /\ ClosingSound /\ ResultSound
-----------------------------------------------------------------------------
(* The constants and the number of scopes are numbers.                     *)
LEMMA MadeNat == ASSUME KitSound PROVE made \in Nat /\ MaxScopes \in Nat /\ Items \in Nat
BY ModuleMountAssumption DEF KitSound

(* A frame stays sound when more scopes are made.                          *)
LEMMA SoundLater ==
  ASSUME NEW f \in AnyFrame, NEW m \in Nat, NEW n \in Nat, m <= n, Sound(f, m)
  PROVE  Sound(f, n)
<1>1. f.scope \in Nat /\ f.scope <= n
  BY DEF Sound, AnyFrame
<1>2. \A i \in DOMAIN f.list : f.list[i].scope <= n
  <2> TAKE i \in DOMAIN f.list
  <2>1. f.list \in Seq(Entry)
    BY DEF AnyFrame
  <2>2. f.list[i] \in Entry
    BY <2>1, LenProperties, ElementOfSeq
  <2>3. f.list[i].scope \in Nat /\ f.list[i].scope <= m
    BY <2>2 DEF Entry, Scopes, Sound
  <2> QED BY <2>3
<1> QED BY <1>1, <1>2 DEF Sound

(* The top frame of a worker that is in a call is a sound frame.           *)
LEMMA TopSound ==
  ASSUME StackSound, NEW w \in Workers, stack[w] # <<>>
  PROVE  Top(w) \in AnyFrame /\ Sound(Top(w), made)
<1>1. stack \in [Workers -> Seq(AnyFrame)]
  BY DEF StackSound
<1>2. Len(stack[w]) \in DOMAIN stack[w] /\ Top(w) = stack[w][Len(stack[w])] /\ Top(w) \in AnyFrame
  BY <1>1, StackTop
<1> QED BY <1>2 DEF StackSound

(* The calls of the other workers, and those below the top, stay sound.    *)
LEMMA RestSound ==
  ASSUME StackSound, KitSound, made' \in Nat, made <= made',
         NEW v \in Workers, NEW i \in DOMAIN stack[v]
  PROVE  /\ stack[v][i] \in AnyFrame
         /\ Sound(stack[v][i], made')
<1>1. stack[v] \in Seq(AnyFrame) /\ made \in Nat
  BY MadeNat DEF StackSound
<1>2. stack[v][i] \in AnyFrame
  BY <1>1, LenProperties, ElementOfSeq
<1> QED BY <1>1, <1>2, SoundLater DEF StackSound

(* The call on top goes on with frame f.                                   *)
LEMMA GotoSound ==
  ASSUME StackSound, KitSound, made' \in Nat, made <= made',
         NEW w \in Workers, stack[w] # <<>>, NEW f \in AnyFrame, Goto(w, f), Sound(f, made')
  PROVE  /\ StackSound'
         /\ stack'[w] # <<>> /\ Top(w)' = f
         /\ \A v \in Workers \ {w} : stack'[v] = stack[v]
<1> DEFINE n == Len(stack[w])
<1>1. stack \in [Workers -> Seq(AnyFrame)]
  BY DEF StackSound
<1>2. n \in Nat \ {0} /\ DOMAIN stack[w] = 1 .. n
  BY <1>1, StackTop
<1>3. /\ stack' \in [Workers -> Seq(AnyFrame)]
      /\ \A v \in Workers \ {w} : stack'[v] = stack[v]
      /\ Len(stack'[w]) = n /\ DOMAIN stack'[w] = 1 .. n
      /\ \A i \in 1 .. n : stack'[w][i] = IF i = n THEN f ELSE stack[w][i]
  BY <1>1, StackGoto
<1> HIDE DEF n
<1>4. \A i \in 1 .. n : i < n => stack[w][i].at = "dep"
  BY <1>2 DEF StackSound, n
<1>5. \A v \in Workers : \A i \in DOMAIN stack'[v] :
        /\ Sound(stack'[v][i], made')
        /\ i < Len(stack'[v]) => stack'[v][i].at = "dep"
  <2> TAKE v \in Workers
  <2> TAKE i \in DOMAIN stack'[v]
  <2>1. CASE v # w
    BY <2>1, <1>3, RestSound DEF StackSound
  <2>2. CASE v = w /\ i = n
    BY <2>2, <1>2, <1>3
  <2>3. CASE v = w /\ i # n
    BY <2>3, <1>2, <1>3, <1>4, RestSound
  <2> QED BY <2>1, <2>2, <2>3
<1>6. n \in 1 .. n /\ stack'[w] # <<>>
  <2>1. n \in 1 .. n
    BY <1>2
  <2> QED BY <2>1, <1>2, <1>3
<1> QED BY <1>3, <1>5, <1>6 DEF StackSound, Top

(* The call on top goes on with frame f and calls Mount with frame g.      *)
LEMMA PushSound ==
  ASSUME StackSound, KitSound, made' = made, NEW w \in Workers, stack[w] # <<>>,
         NEW f \in AnyFrame, NEW g \in AnyFrame, Push(w, f, g),
         Sound(f, made), Sound(g, made), f.at = "dep"
  PROVE  /\ StackSound'
         /\ stack'[w] # <<>> /\ Top(w)' = g
         /\ \A v \in Workers \ {w} : stack'[v] = stack[v]
<1> DEFINE n == Len(stack[w])
<1>1. stack \in [Workers -> Seq(AnyFrame)]
  BY DEF StackSound
<1>2. n \in Nat \ {0} /\ DOMAIN stack[w] = 1 .. n
  BY <1>1, StackTop
<1>3. /\ stack' \in [Workers -> Seq(AnyFrame)]
      /\ \A v \in Workers \ {w} : stack'[v] = stack[v]
      /\ Len(stack'[w]) = n + 1 /\ DOMAIN stack'[w] = 1 .. n + 1
      /\ \A i \in 1 .. n + 1 :
           stack'[w][i] = IF i = n THEN f ELSE IF i = n + 1 THEN g ELSE stack[w][i]
  BY <1>1, StackPush
<1> HIDE DEF n
<1>4. \A i \in 1 .. n : Sound(stack[w][i], made) /\ (i < n => stack[w][i].at = "dep")
  BY <1>2 DEF StackSound, n
<1>5. \A i \in 1 .. n + 1 : i = n + 1 \/ i = n \/ (i \in 1 .. n /\ i < n /\ i # n + 1)
  BY <1>2
<1>6. n + 1 \in 1 .. n + 1 /\ ~(n + 1 < n + 1) /\ n # n + 1
  BY <1>2
<1>7. \A i \in 1 .. n + 1 : /\ Sound(stack'[w][i], made)
                            /\ i < n + 1 => stack'[w][i].at = "dep"
  BY <1>3, <1>4, <1>5, <1>6
<1>8. \A v \in Workers : \A i \in DOMAIN stack'[v] :
        /\ Sound(stack'[v][i], made')
        /\ i < Len(stack'[v]) => stack'[v][i].at = "dep"
  <2> TAKE v \in Workers
  <2> TAKE i \in DOMAIN stack'[v]
  <2>1. CASE v # w
    BY <2>1, <1>3 DEF StackSound
  <2>2. CASE v = w
    BY <2>2, <1>3, <1>7
  <2> QED BY <2>1, <2>2
<1>9. stack'[w] # <<>>
  BY <1>3, <1>6
<1> QED BY <1>3, <1>6, <1>8, <1>9 DEF StackSound, Top

(* A worker that was idle runs one call. *)
LEMMA OneSound ==
  ASSUME StackSound, KitSound, made' = made, NEW w \in Workers, stack[w] = <<>>,
         NEW f \in AnyFrame, Call(w, f), Sound(f, made)
  PROVE  /\ StackSound'
         /\ stack'[w] # <<>> /\ Top(w)' = f
         /\ \A v \in Workers \ {w} : stack'[v] = stack[v]
<1>1. stack \in [Workers -> Seq(AnyFrame)]
  BY DEF StackSound
<1>2. /\ stack' \in [Workers -> Seq(AnyFrame)]
      /\ \A v \in Workers \ {w} : stack'[v] = stack[v]
      /\ Len(stack'[w]) = 1 /\ DOMAIN stack'[w] = {1} /\ stack'[w][1] = f
  BY <1>1, StackCall
<1>3. \A v \in Workers : \A i \in DOMAIN stack'[v] :
        /\ Sound(stack'[v][i], made')
        /\ i < Len(stack'[v]) => stack'[v][i].at = "dep"
  <2> TAKE v \in Workers
  <2> TAKE i \in DOMAIN stack'[v]
  <2>1. CASE v # w
    BY <2>1, <1>2 DEF StackSound
  <2>2. CASE v = w
    BY <2>2, <1>2
  <2> QED BY <2>1, <2>2
<1>4. stack'[w] # <<>>
  <2>1. stack'[w] = <<>> => DOMAIN stack'[w] = {}
    OBVIOUS
  <2> QED BY <1>2, <2>1
<1> QED BY <1>2, <1>3, <1>4 DEF StackSound, Top

(* The call on top returns, to a Mount that waits for it or to nobody.     *)
LEMMA ReturnSound ==
  ASSUME StackSound, KitSound, ResultSound, made' = made, NEW w \in Workers, stack[w] # <<>>,
         NEW x \in {"ok", "error"}, Return(w, x)
  PROVE  /\ StackSound' /\ ResultSound' /\ result'[w] = x
         /\ stack'[w] # <<>> => Top(w)'.at = "dep" /\ Top(w)'.gone = {}
         /\ \A v \in Workers \ {w} : stack'[v] = stack[v]
<1> DEFINE n == Len(stack[w])
<1>1. stack \in [Workers -> Seq(AnyFrame)] /\ result \in [Workers -> {"none", "ok", "error"}]
  BY DEF StackSound, ResultSound
<1>2. n \in Nat \ {0} /\ DOMAIN stack[w] = 1 .. n
  BY <1>1, StackTop
<1>3. /\ stack' \in [Workers -> Seq(AnyFrame)]
      /\ \A v \in Workers \ {w} : stack'[v] = stack[v]
      /\ Len(stack'[w]) = n - 1 /\ DOMAIN stack'[w] = 1 .. n - 1
      /\ \A i \in 1 .. n - 1 : stack'[w][i] = stack[w][i]
      /\ result' \in [Workers -> {"none", "ok", "error"}] /\ result'[w] = x
  BY <1>1, StackReturn
<1> HIDE DEF n
<1>4. \A i \in 1 .. n - 1 : Sound(stack[w][i], made) /\ stack[w][i].at = "dep"
  BY <1>2 DEF StackSound, n
<1>5. \A v \in Workers : \A i \in DOMAIN stack'[v] :
        /\ Sound(stack'[v][i], made')
        /\ i < Len(stack'[v]) => stack'[v][i].at = "dep"
  <2> TAKE v \in Workers
  <2> TAKE i \in DOMAIN stack'[v]
  <2>1. CASE v # w
    BY <2>1, <1>3 DEF StackSound
  <2>2. CASE v = w
    BY <2>2, <1>3, <1>4
  <2> QED BY <2>1, <2>2
<1>6. stack'[w] # <<>> => Top(w)'.at = "dep" /\ Top(w)'.gone = {}
  <2> SUFFICES ASSUME stack'[w] # <<>> PROVE Top(w)'.at = "dep" /\ Top(w)'.gone = {}
    OBVIOUS
  <2>1. n - 1 \in 1 .. n - 1
    <3>1. stack'[w] \in Seq(AnyFrame)
      BY <1>3
    <3>2. Len(stack'[w]) \in Nat \ {0}
      BY <3>1, EmptySeq
    <3> QED BY <3>2, <1>3
  <2>2. Top(w)' = stack[w][n - 1]
    BY <2>1, <1>3 DEF Top
  <2> QED BY <2>1, <2>2, <1>4 DEF Sound
<1> QED BY <1>3, <1>5, <1>6 DEF StackSound, ResultSound
-----------------------------------------------------------------------------
(* No run of scope.Close, and one that begins.                             *)
LEMMA NoCloseFields ==
  ASSUME NEW s \in Nat
  PROVE  /\ NoClose \in Closings /\ NoClose.scope = 0 /\ NoClose.at = "none"
         /\ NoClose.failed = <<>>
         /\ LET d == [NoClose EXCEPT !.scope = s, !.at = "begin"]
            IN  /\ d \in Closings /\ d.scope = s /\ d.at = "begin" /\ d.failed = <<>>
<1>1. <<>> \in Seq(1 .. Items)
  BY EmptySeq
<1>2. NoClose \in Closings /\ NoClose.scope = 0 /\ NoClose.at = "none" /\ NoClose.failed = <<>>
  BY <1>1 DEF NoClose, Closings
<1>3. ASSUME NEW c \in Closings
      PROVE  LET d == [c EXCEPT !.scope = s, !.at = "begin"]
             IN  d \in Closings /\ d.scope = s /\ d.at = "begin" /\ d.failed = c.failed
  BY DEF Closings
<1> QED BY <1>2, <1>3

(* What a worker's run of scope.Close is made of.                          *)
LEMMA ClosingOf ==
  ASSUME ClosingSound, KitSound, NEW w \in Workers
  PROVE  /\ closing[w] \in Closings /\ closing[w].todo \in Seq(1 .. Items)
         /\ closing[w].failed \in Seq(1 .. Items) /\ closing[w].scope \in Nat
         /\ closing[w].at # "none" => closing[w].scope \in Scopes
<1>1. closing[w] \in Closings /\ closing[w].scope <= made
  BY DEF ClosingSound
<1>2. made \in Nat /\ MaxScopes \in Nat /\ made <= MaxScopes
  BY MadeNat DEF KitSound
<1> QED BY <1>1, <1>2 DEF ClosingSound, Closings, Scopes

(* The run of one worker changes to d.                                     *)
LEMMA ClosingUpdate ==
  ASSUME ClosingSound, KitSound, made' \in Nat, made <= made',
         NEW w \in Workers, NEW d \in Closings, closing' = [closing EXCEPT ![w] = d],
         d.scope <= made', d.at # "none" => d.scope # 0
  PROVE  /\ ClosingSound' /\ closing'[w] = d
         /\ \A v \in Workers \ {w} : closing'[v] = closing[v]
<1>1. /\ closing' \in [Workers -> Closings] /\ closing'[w] = d
      /\ \A v \in Workers \ {w} : closing'[v] = closing[v]
  BY DEF ClosingSound
<1>2. \A v \in Workers : closing[v].scope \in Nat
  BY DEF ClosingSound, Closings
<1>3. made \in Nat
  BY MadeNat
<1> QED BY <1>1, <1>2, <1>3 DEF ClosingSound

(* The runs stay sound when more scopes are made.                          *)
LEMMA ClosingKept ==
  ASSUME ClosingSound, KitSound, UNCHANGED closing, made' \in Nat, made <= made'
  PROVE  ClosingSound'
<1>1. \A v \in Workers : closing[v].scope \in Nat
  BY DEF ClosingSound, Closings
<1>2. made \in Nat
  BY MadeNat
<1> QED BY <1>1, <1>2 DEF ClosingSound

(* A close begins.                                                         *)
LEMMA CallCloseSound ==
  ASSUME ClosingSound, KitSound, made' = made, NEW w \in Workers, NEW s \in Nat,
         CallClose(w, s), s # 0, s <= made
  PROVE  /\ ClosingSound' /\ closing'[w].at = "begin" /\ closing'[w].scope = s
         /\ closing'[w].failed = <<>>
         /\ \A v \in Workers \ {w} : closing'[v] = closing[v]
<1> DEFINE d == [NoClose EXCEPT !.scope = s, !.at = "begin"]
<1>1. d \in Closings /\ d.scope = s /\ d.at = "begin" /\ d.failed = <<>>
  BY NoCloseFields
<1>2. closing' = [closing EXCEPT ![w] = d] /\ made \in Nat /\ made <= made
  BY MadeNat DEF CallClose
<1> HIDE DEF d
<1> QED BY <1>1, <1>2, ClosingUpdate

(* The outcome of a close is read.                                         *)
LEMMA CloseReadSound ==
  ASSUME ClosingSound, KitSound, made' = made, NEW w \in Workers, CloseRead(w)
  PROVE  /\ ClosingSound' /\ closing'[w] = NoClose
         /\ \A v \in Workers \ {w} : closing'[v] = closing[v]
<1>1. NoClose \in Closings /\ NoClose.scope = 0 /\ NoClose.at = "none"
  BY NoCloseFields
<1>2. closing' = [closing EXCEPT ![w] = NoClose] /\ made \in Nat /\ 0 <= made /\ made <= made
  BY MadeNat DEF CloseRead
<1> HIDE DEF NoClose
<1> QED BY <1>1, <1>2, ClosingUpdate

(* Close takes the cleanups of its scope, or finds none in a closed one.   *)
LEMMA CloseTakes ==
  ASSUME TypeInv, NEW w \in Workers, CloseTake(w)
  PROVE  LET s == closing[w].scope
         IN  /\ closing[w].at = "begin" /\ s \in Scopes
             /\ ClosingSound' /\ closing'[w].scope = s
             /\ closing'[w].failed = closing[w].failed
             /\ \A v \in Workers \ {w} : closing'[v] = closing[v]
             /\ \/ /\ closed[s] /\ cleanups[s] = <<>> /\ UNCHANGED scope
                   /\ closing'[w].at = "done"
                \/ /\ closing'[w].at = "run" /\ closing'[w].todo = cleanups[s]
                   /\ closed' = [closed EXCEPT ![s] = TRUE]
                   /\ cleanups' = [cleanups EXCEPT ![s] = <<>>]
                   /\ UNCHANGED held
<1> DEFINE s == closing[w].scope
           c == closing[w]
<1>1. closing[w].at = "begin" /\ UNCHANGED made /\ made \in Nat /\ made <= made
  BY MadeNat DEF CloseTake, TypeInv
<1>2. ClosingSound /\ KitSound
  BY DEF TypeInv
<1>3. c \in Closings /\ s \in Nat /\ s \in Scopes /\ s # 0 /\ s <= made
  BY <1>1, <1>2, ClosingOf DEF ClosingSound
<1>4. cleanups[s] \in Seq(1 .. Items)
  BY <1>3 DEF TypeInv, ScopeSound
<1> HIDE DEF s, c
<1>5. CASE closed[s] /\ cleanups[s] = <<>>
  <2> DEFINE d == [c EXCEPT !.at = "done"]
  <2>1. d \in Closings /\ d.scope = c.scope /\ d.at = "done" /\ d.failed = c.failed
    BY <1>3 DEF Closings
  <2>2. closing' = [closing EXCEPT ![w] = d] /\ UNCHANGED scope
    BY <1>5 DEF CloseTake, s, c
  <2> HIDE DEF d
  <2>3. ClosingSound' /\ closing'[w] = d /\ \A v \in Workers \ {w} : closing'[v] = closing[v]
    BY <1>1, <1>2, <1>3, <2>1, <2>2, ClosingUpdate DEF s, c
  <2> QED BY <1>1, <1>3, <1>5, <2>1, <2>2, <2>3 DEF s, c
<1>6. CASE ~(closed[s] /\ cleanups[s] = <<>>)
  <2> DEFINE d == [c EXCEPT !.at = "run", !.todo = cleanups[s]]
  <2>1. d \in Closings /\ d.scope = c.scope /\ d.at = "run" /\ d.failed = c.failed
        /\ d.todo = cleanups[s]
    BY <1>3, <1>4 DEF Closings
  <2>2. /\ closing' = [closing EXCEPT ![w] = d]
        /\ closed' = [closed EXCEPT ![s] = TRUE]
        /\ cleanups' = [cleanups EXCEPT ![s] = <<>>] /\ UNCHANGED held
    BY <1>6 DEF CloseTake, s, c
  <2> HIDE DEF d
  <2>3. ClosingSound' /\ closing'[w] = d /\ \A v \in Workers \ {w} : closing'[v] = closing[v]
    BY <1>1, <1>2, <1>3, <2>1, <2>2, ClosingUpdate DEF s, c
  <2> QED BY <1>1, <1>3, <2>1, <2>2, <2>3 DEF s, c
<1> QED BY <1>5, <1>6

(* Close runs the last cleanup it has: the resource goes, or the cleanup   *)
(* is among the failed ones.                                               *)
LEMMA CloseCleans ==
  ASSUME TypeInv, NEW w \in Workers, CloseCleanup(w)
  PROVE  LET s == closing[w].scope
             n == Len(closing[w].todo)
             item == closing[w].todo[n]
         IN  /\ closing[w].at = "run" /\ s \in Scopes
             /\ n \in Nat \ {0} /\ item \in 1 .. Items
             /\ ClosingSound' /\ closing'[w].scope = s /\ closing'[w].at = "run"
             /\ closing'[w].todo \in Seq(1 .. Items) /\ Len(closing'[w].todo) = n - 1
             /\ \A i \in 1 .. n - 1 : closing'[w].todo[i] = closing[w].todo[i]
             /\ \A v \in Workers \ {w} : closing'[v] = closing[v]
             /\ \/ /\ held' = {h \in held : h.scope # s \/ h.item # item}
                   /\ closing'[w].failed = closing[w].failed
                \/ /\ MayCleanupFail /\ held' = held
                   /\ closing'[w].failed = <<item>> \o closing[w].failed
<1> DEFINE s == closing[w].scope
           c == closing[w]
           n == Len(c.todo)
           item == c.todo[n]
           rest == SubSeq(c.todo, 1, n - 1)
<1>1. /\ closing[w].at = "run" /\ c.todo # <<>> /\ UNCHANGED made
      /\ made \in Nat /\ made <= made
  BY MadeNat DEF CloseCleanup, TypeInv
<1>2. ClosingSound /\ KitSound
  BY DEF TypeInv
<1>3. /\ c \in Closings /\ s \in Nat /\ s \in Scopes /\ s # 0 /\ s <= made
      /\ c.todo \in Seq(1 .. Items) /\ c.failed \in Seq(1 .. Items)
  BY <1>1, <1>2, ClosingOf DEF ClosingSound
<1>4. \/ /\ held' = {h \in held : h.scope # s \/ h.item # item}
         /\ closing' = [closing EXCEPT ![w] = [c EXCEPT !.todo = rest]]
      \/ /\ MayCleanupFail /\ held' = held
         /\ closing' = [closing EXCEPT ![w] =
              [c EXCEPT !.todo = rest, !.failed = <<item>> \o c.failed]]
  BY DEF CloseCleanup
<1> HIDE DEF s, c
<1>5. n \in Nat \ {0}
  BY <1>1, <1>3, EmptySeq
<1>6. /\ item \in 1 .. Items /\ rest \in Seq(1 .. Items) /\ Len(rest) = n - 1
      /\ \A i \in 1 .. n - 1 : rest[i] = c.todo[i]
  <2>1. \A i \in 1 .. n : c.todo[i] \in 1 .. Items
    BY <1>3, ElementOfSeq
  <2>2. n \in 1 .. n /\ n - 1 \in Int /\ \A i \in 1 .. n - 1 : i \in 1 .. n
    BY <1>5
  <2> HIDE DEF n
  <2>3. /\ rest \in Seq(1 .. Items)
        /\ Len(rest) = IF 1 <= n - 1 THEN n - 1 - 1 + 1 ELSE 0
        /\ \A i \in 1 .. n - 1 - 1 + 1 : rest[i] = c.todo[1 + i - 1]
    BY <2>1, <2>2, SubSeqProperties
  <2>4. /\ n - 1 - 1 + 1 = n - 1 /\ (1 <= n - 1 \/ n - 1 = 0)
        /\ \A i \in 1 .. n - 1 : 1 + i - 1 = i
    BY <1>5
  <2> HIDE DEF rest
  <2> QED BY <2>1, <2>2, <2>3, <2>4
<1>7. <<item>> \o c.failed \in Seq(1 .. Items)
  <2> HIDE DEF item
  <2>1. <<item>> \in Seq(1 .. Items)
    BY <1>6
  <2> QED BY <2>1, <1>3, ConcatProperties
<1> HIDE DEF rest, n, item
<1>8. ASSUME NEW d \in Closings, closing' = [closing EXCEPT ![w] = d],
             d.scope = c.scope, d.at = c.at
      PROVE  ClosingSound' /\ closing'[w] = d /\ \A v \in Workers \ {w} : closing'[v] = closing[v]
  BY <1>1, <1>2, <1>3, <1>8, ClosingUpdate DEF s, c
<1>9. CASE closing' = [closing EXCEPT ![w] = [c EXCEPT !.todo = rest]]
           /\ held' = {h \in held : h.scope # s \/ h.item # item}
  <2> DEFINE d == [c EXCEPT !.todo = rest]
  <2>1. d \in Closings /\ d.scope = c.scope /\ d.at = c.at /\ d.failed = c.failed /\ d.todo = rest
    BY <1>3, <1>6 DEF Closings
  <2> HIDE DEF d
  <2>2. ClosingSound' /\ closing'[w] = d /\ \A v \in Workers \ {w} : closing'[v] = closing[v]
    BY <1>8, <1>9, <2>1 DEF d
  <2> QED BY <1>1, <1>3, <1>5, <1>6, <1>9, <2>1, <2>2 DEF s, c, n, item
<1>10. CASE /\ closing' = [closing EXCEPT ![w] =
                  [c EXCEPT !.todo = rest, !.failed = <<item>> \o c.failed]]
            /\ MayCleanupFail /\ held' = held
  <2> DEFINE u == <<item>> \o c.failed
             d == [c EXCEPT !.todo = rest, !.failed = u]
  <2>0. u \in Seq(1 .. Items)
    BY <1>7
  <2> HIDE DEF u
  <2>1. d \in Closings /\ d.scope = c.scope /\ d.at = c.at /\ d.failed = u /\ d.todo = rest
    BY <2>0, <1>3, <1>6 DEF Closings
  <2> HIDE DEF d
  <2>2. ClosingSound' /\ closing'[w] = d /\ \A v \in Workers \ {w} : closing'[v] = closing[v]
    BY <1>8, <1>10, <2>1 DEF d, u
  <2> QED BY <1>1, <1>3, <1>5, <1>6, <1>10, <2>1, <2>2 DEF s, c, n, item, u
<1> QED BY <1>4, <1>9, <1>10

(* Close puts the failed cleanups back.                                    *)
LEMMA CloseKeeps ==
  ASSUME TypeInv, NEW w \in Workers, CloseKeepFailed(w)
  PROVE  LET s == closing[w].scope
         IN  /\ closing[w].at = "run" /\ closing[w].todo = <<>> /\ s \in Scopes
             /\ ClosingSound' /\ closing'[w].scope = s /\ closing'[w].at = "done"
             /\ closing'[w].failed = closing[w].failed
             /\ cleanups' = [cleanups EXCEPT ![s] = @ \o closing[w].failed]
             /\ cleanups[s] \in Seq(1 .. Items) /\ closing[w].failed \in Seq(1 .. Items)
             /\ \A v \in Workers \ {w} : closing'[v] = closing[v]
<1> DEFINE c == closing[w]
           s == closing[w].scope
           d == [c EXCEPT !.at = "done"]
<1>1. /\ c.at = "run" /\ c.todo = <<>> /\ UNCHANGED made
      /\ cleanups' = [cleanups EXCEPT ![s] = @ \o c.failed]
      /\ made \in Nat /\ made <= made
  BY MadeNat DEF CloseKeepFailed, TypeInv
<1>2. ClosingSound /\ KitSound
  BY DEF TypeInv
<1>3. /\ c \in Closings /\ s \in Nat /\ s \in Scopes /\ s # 0 /\ s <= made
      /\ c.failed \in Seq(1 .. Items) /\ cleanups[s] \in Seq(1 .. Items)
  BY <1>1, <1>2, ClosingOf DEF ClosingSound, TypeInv, ScopeSound
<1>4. closing' = [closing EXCEPT ![w] = d]
  BY DEF CloseKeepFailed
<1>5. d \in Closings /\ d.scope = c.scope /\ d.at = "done" /\ d.failed = c.failed
  BY <1>3 DEF Closings
<1> HIDE DEF d
<1>6. ClosingSound' /\ closing'[w] = d /\ \A v \in Workers \ {w} : closing'[v] = closing[v]
  BY <1>1, <1>2, <1>3, <1>4, <1>5, ClosingUpdate
<1> QED BY <1>1, <1>3, <1>5, <1>6
-----------------------------------------------------------------------------
(* The steps of scope.Close keep the types.                                *)
LEMMA ScopeStepSound == ASSUME TypeInv, NEW w \in Workers, ScopeStep(w) PROVE TypeInv'
<1>1. UNCHANGED <<mounted, listed, order, made, stack, result>>
  BY DEF ScopeStep, CloseTake, CloseCleanup, CloseKeepFailed, kit
<1>2. closed \in [Scopes -> BOOLEAN] /\ cleanups \in [Scopes -> Seq(1 .. Items)]
  BY DEF TypeInv, ScopeSound
<1>3. StackSound' /\ KitSound' /\ ResultSound'
  BY <1>1 DEF TypeInv, StackSound, KitSound, ResultSound
<1>4. CASE CloseTake(w)
  <2>1. closed' \in [Scopes -> BOOLEAN] /\ cleanups' \in [Scopes -> Seq(1 .. Items)]
    <3>1. <<>> \in Seq(1 .. Items)
      BY EmptySeq
    <3>2. \/ UNCHANGED <<closed, cleanups>>
          \/ \E s \in Scopes : /\ closed' = [closed EXCEPT ![s] = TRUE]
                               /\ cleanups' = [cleanups EXCEPT ![s] = <<>>]
      BY <1>4, CloseTakes DEF scope
    <3> QED BY <3>1, <3>2, <1>2
  <2>2. held' = held /\ ClosingSound'
    BY <1>4, CloseTakes DEF scope
  <2>3. ScopeSound'
    BY <2>1, <2>2, <1>1 DEF TypeInv, ScopeSound
  <2> QED BY <1>3, <2>2, <2>3 DEF TypeInv
<1>5. CASE CloseCleanup(w)
  <2>1. held' \subseteq held /\ ClosingSound'
    BY <1>5, CloseCleans
  <2>2. UNCHANGED <<closed, cleanups>>
    BY <1>5 DEF CloseCleanup
  <2>3. ScopeSound'
    BY <2>1, <2>2, <1>1 DEF TypeInv, ScopeSound
  <2> QED BY <1>3, <2>1, <2>3 DEF TypeInv
<1>6. CASE CloseKeepFailed(w)
  <2>1. UNCHANGED <<closed, held>>
    BY <1>6 DEF CloseKeepFailed
  <2>2. ClosingSound' /\ cleanups' \in [Scopes -> Seq(1 .. Items)]
    <3> DEFINE s == closing[w].scope
               x == cleanups[s] \o closing[w].failed
    <3>1. /\ s \in Scopes /\ cleanups' = [cleanups EXCEPT ![s] = x] /\ ClosingSound'
          /\ cleanups[s] \in Seq(1 .. Items) /\ closing[w].failed \in Seq(1 .. Items)
      BY <1>6, CloseKeeps
    <3>2. x \in Seq(1 .. Items)
      BY <3>1, ConcatProperties
    <3> HIDE DEF s, x
    <3> QED BY <3>1, <3>2, <1>2
  <2>3. ScopeSound'
    BY <2>1, <2>2, <1>1 DEF TypeInv, ScopeSound
  <2> QED BY <1>3, <2>2, <2>3 DEF TypeInv
<1> QED BY <1>4, <1>5, <1>6 DEF ScopeStep

(* A step that neither touches a scope nor begins or ends to work at one.  *)
Quiet(w) ==
  /\ \A v \in Workers \ {w} : stack'[v] = stack[v]
  /\ stack[w] # <<>> => Top(w).at \notin ClosingAt \cup {"defer"}
  /\ stack'[w] # <<>> => Top(w)'.at \notin ClosingAt \cup MountingAt /\ Top(w)'.gone = {}
  /\ UNCHANGED <<mounted, made, closed, cleanups, held, closing>>

(* A step that leaves the scopes and their closes alone keeps the types    *)
(* when it keeps those of the calls and of the order.                      *)
LEMMA QuietSound ==
  ASSUME TypeInv, StackSound', ResultSound',
         UNCHANGED <<mounted, made, closed, cleanups, held, closing>>,
         listed' \subseteq Modules, order' \in Seq(Modules)
  PROVE  TypeInv'
BY DEF TypeInv, KitSound, ScopeSound, ClosingSound

(* The frame that a call goes on with. *)
LEMMA SoundNext ==
  ASSUME NEW f \in AnyFrame, NEW g \in AnyFrame, NEW n \in Nat, Sound(f, n),
         g.id = f.id, g.scope = f.scope, g.list = f.list, g.gone = f.gone,
         f.at \notin {"next", "shutting"}, g.at # "shutting",
         g.at = "defer" => g.item <= Items,
         g.at \in MountingAt \cup {"unmounting"} => f.scope # 0
  PROVE  Sound(g, n) /\ g.gone = {}
BY DEF Sound

(* The parts of the invariant, for the provers.                            *)
LEMMA Parts ==
  ASSUME TypeInv
  PROVE  /\ StackSound /\ KitSound /\ ScopeSound /\ ClosingSound /\ ResultSound
         /\ listed \subseteq Modules /\ order \in Seq(Modules)
         /\ made \in Nat /\ made <= made /\ Items \in Nat
BY MadeNat DEF TypeInv, KitSound

(* A new frame, and one with which a quiet call goes on. *)
LEMMA FrameOf ==
  ASSUME KitSound, NEW id \in Modules, NEW at \in {"check", "dependents"}
  PROVE  /\ Frame(id, at) \in AnyFrame /\ Sound(Frame(id, at), made)
         /\ Frame(id, at).at = at /\ Frame(id, at).gone = {}
<1>1. made \in Nat /\ Items \in Nat
  BY MadeNat
<1>2. <<>> \in Seq(Entry) /\ Len(<<>>) = 0 /\ DOMAIN <<>> = {}
  BY EmptySeq
<1>3. 1 \in 1 .. Items + 1
  BY <1>1
<1>4. Frame(id, at) \in AnyFrame
  BY <1>2, <1>3 DEF AnyFrame, FrameAt, Frame
<1>5. /\ Frame(id, at).id = id /\ Frame(id, at).at = at /\ Frame(id, at).gone = {}
      /\ Frame(id, at).scope = 0 /\ Frame(id, at).list = <<>>
  BY DEF Frame
<1>6. Sound(Frame(id, at), made)
  BY <1>1, <1>2, <1>5 DEF Sound, MountingAt
<1> QED BY <1>4, <1>5, <1>6

(* The call on top goes on, at no scope.                                   *)
LEMMA QuietGoto ==
  ASSUME TypeInv, NEW w \in Workers, stack[w] # <<>>, NEW f \in AnyFrame, Goto(w, f),
         f.id = Top(w).id, f.scope = Top(w).scope, f.list = Top(w).list, f.gone = Top(w).gone,
         Top(w).at \in {"check", "deps", "dep", "dependents"},
         f.at \in {"deps", "lookup"},
         UNCHANGED <<kit, made, scope, result, closing>>
  PROVE  TypeInv' /\ Quiet(w)
<1>1. Top(w) \in AnyFrame /\ Sound(Top(w), made) /\ made \in Nat
  BY TopSound, Parts
<1>2. Sound(f, made) /\ f.gone = {}
  BY <1>1, SoundNext DEF MountingAt
<1>3. StackSound' /\ stack'[w] # <<>> /\ Top(w)' = f /\ \A v \in Workers \ {w} : stack'[v] = stack[v]
  BY <1>2, GotoSound, Parts
<1>4. ResultSound'
  BY Parts DEF ResultSound
<1>5. TypeInv'
  BY <1>3, <1>4, QuietSound, Parts DEF kit, scope
<1> QED BY <1>2, <1>3, <1>5 DEF Quiet, kit, scope, ClosingAt, MountingAt

(* The call on top returns, and was at no scope that it would close.       *)
LEMMA QuietReturn ==
  ASSUME TypeInv, NEW w \in Workers, stack[w] # <<>>, NEW x \in {"ok", "error"}, Return(w, x),
         Top(w).at \notin ClosingAt \cup {"defer"},
         UNCHANGED <<mounted, made, scope, closing>>,
         listed' \subseteq Modules, order' \in Seq(Modules)
  PROVE  TypeInv' /\ Quiet(w)
<1>1. /\ StackSound' /\ ResultSound'
      /\ stack'[w] # <<>> => Top(w)'.at = "dep" /\ Top(w)'.gone = {}
      /\ \A v \in Workers \ {w} : stack'[v] = stack[v]
  BY ReturnSound, Parts
<1>2. TypeInv'
  BY <1>1, QuietSound DEF scope
<1> QED BY <1>1, <1>2 DEF Quiet, scope, ClosingAt, MountingAt

(* A worker calls Mount or Unmount.                                        *)
LEMMA CallQuiet ==
  ASSUME TypeInv, NEW w \in Workers, NEW id \in Modules,
         MountCall(w, id) \/ UnmountCall(w, id)
  PROVE  TypeInv' /\ Quiet(w)
<1>1. /\ stack[w] = <<>> /\ UNCHANGED <<kit, made, scope, result, closing>>
      /\ \E at \in {"check", "dependents"} : Call(w, Frame(id, at))
  BY DEF MountCall, UnmountCall
<1>2. PICK at \in {"check", "dependents"} : Call(w, Frame(id, at))
  BY <1>1
<1>3. /\ StackSound' /\ stack'[w] # <<>> /\ Top(w)'.at = at /\ Top(w)'.gone = {}
      /\ \A v \in Workers \ {w} : stack'[v] = stack[v]
  <2> DEFINE f == Frame(id, at)
  <2>1. f \in AnyFrame /\ Sound(f, made) /\ f.at = at /\ f.gone = {}
    BY FrameOf, Parts
  <2>2. Call(w, f) /\ made' = made
    BY <1>1, <1>2
  <2> HIDE DEF f
  <2> QED BY <2>1, <2>2, <1>1, OneSound, Parts
<1>4. ResultSound'
  BY <1>1, Parts DEF ResultSound
<1>5. TypeInv'
  BY <1>1, <1>3, <1>4, QuietSound, Parts DEF kit, scope
<1> QED BY <1>1, <1>3, <1>5 DEF Quiet, kit, scope, ClosingAt, MountingAt

(* Mount looks at what is mounted.                                         *)
LEMMA MountCheckQuiet ==
  ASSUME TypeInv, NEW w \in Workers, MountCheck(w) PROVE TypeInv' /\ Quiet(w)
<1> DEFINE t == Top(w)
<1>1. stack[w] # <<>> /\ t.at = "check" /\ UNCHANGED <<kit, made, scope, closing>>
  BY DEF MountCheck, At
<1>2. t \in AnyFrame /\ t.id \in Modules
  BY <1>1, TopSound, Parts DEF Sound
<1>3. CASE mounted[t.id] # 0
  <2>1. Return(w, "error")
    BY <1>3 DEF MountCheck
  <2> QED BY <2>1, <1>1, QuietReturn, Parts DEF kit, ClosingAt
<1>4. CASE mounted[t.id] = 0
  <2> DEFINE f == [t EXCEPT !.at = "deps", !.deps = Requires[t.id] \ {t.id}]
  <2>1. Goto(w, f) /\ UNCHANGED result
    BY <1>4 DEF MountCheck
  <2>2. Requires[t.id] \in SUBSET Modules
    BY <1>2, ModuleMountAssumption
  <2> HIDE DEF t
  <2>3. /\ f \in AnyFrame /\ f.id = t.id /\ f.at = "deps" /\ f.scope = t.scope
        /\ f.list = t.list /\ f.gone = t.gone
    BY <1>2, <2>2 DEF AnyFrame, FrameAt
  <2> HIDE DEF f
  <2> QED BY <1>1, <2>1, <2>3, QuietGoto DEF t
<1> QED BY <1>3, <1>4

(* Mount finds a required module, or calls itself for it.                  *)
LEMMA MountDepQuiet ==
  ASSUME TypeInv, NEW w \in Workers, NEW d \in Modules, MountDep(w, d)
  PROVE  TypeInv' /\ Quiet(w)
<1> DEFINE t == Top(w)
<1>1. stack[w] # <<>> /\ t.at = "deps" /\ UNCHANGED <<kit, made, scope, result, closing>>
  BY DEF MountDep, At
<1>2. t \in AnyFrame /\ Sound(t, made)
  BY <1>1, TopSound, Parts
<1>3. CASE d \in listed
  <2> DEFINE f == [t EXCEPT !.deps = @ \ {d}]
  <2>1. Goto(w, f)
    BY <1>3 DEF MountDep
  <2> HIDE DEF t
  <2>3. /\ f \in AnyFrame /\ f.id = t.id /\ f.at = "deps" /\ f.scope = t.scope
        /\ f.list = t.list /\ f.gone = t.gone
    BY <1>1, <1>2 DEF AnyFrame, FrameAt
  <2> HIDE DEF f
  <2> QED BY <1>1, <2>1, <2>3, QuietGoto DEF t
<1>4. CASE d \notin listed
  <2> DEFINE f == [t EXCEPT !.at = "dep", !.dep = d]
             g == Frame(d, "check")
  <2>1. Push(w, f, g)
    BY <1>4 DEF MountDep, Push
  <2> HIDE DEF t
  <2>2. /\ f \in AnyFrame /\ f.id = t.id /\ f.at = "dep" /\ f.scope = t.scope
        /\ f.list = t.list /\ f.gone = t.gone
    BY <1>2 DEF AnyFrame, FrameAt
  <2>3. g \in AnyFrame /\ Sound(g, made) /\ g.at = "check" /\ g.gone = {}
    BY FrameOf, Parts
  <2> HIDE DEF f, g
  <2>4. Sound(f, made)
    BY <1>1, <1>2, <2>2, SoundNext, Parts DEF MountingAt
  <2>5. /\ StackSound' /\ stack'[w] # <<>> /\ Top(w)' = g
        /\ \A v \in Workers \ {w} : stack'[v] = stack[v]
    BY <1>1, <2>1, <2>2, <2>3, <2>4, PushSound, Parts DEF t
  <2>6. TypeInv'
    BY <1>1, <2>5, QuietSound, Parts DEF kit, scope, ResultSound
  <2> QED BY <1>1, <2>3, <2>5, <2>6 DEF Quiet, kit, scope, ClosingAt, MountingAt, t
<1> QED BY <1>3, <1>4

(* Mount goes on after a required module, or fails.                        *)
LEMMA MountDepReturnedQuiet ==
  ASSUME TypeInv, NEW w \in Workers, MountDepReturned(w) PROVE TypeInv' /\ Quiet(w)
<1> DEFINE t == Top(w)
<1>1. stack[w] # <<>> /\ t.at = "dep" /\ UNCHANGED <<kit, made, scope, closing>>
  BY DEF MountDepReturned, At
<1>2. t \in AnyFrame
  BY <1>1, TopSound, Parts
<1>3. CASE Return(w, "error")
  BY <1>3, <1>1, QuietReturn, Parts DEF kit, ClosingAt
<1>4. CASE ~Return(w, "error")
  <2> DEFINE f == [t EXCEPT !.at = "deps", !.deps = @ \ {t.dep}]
  <2>1. Goto(w, f) /\ UNCHANGED result
    BY <1>4 DEF MountDepReturned
  <2> HIDE DEF t
  <2>3. /\ f \in AnyFrame /\ f.id = t.id /\ f.at = "deps" /\ f.scope = t.scope
        /\ f.list = t.list /\ f.gone = t.gone
    BY <1>2 DEF AnyFrame, FrameAt
  <2> HIDE DEF f
  <2> QED BY <1>1, <2>1, <2>3, QuietGoto DEF t
<1> QED BY <1>3, <1>4

(* Mount lists the module: its scope is left to the Kit.                   *)
LEMMA MountCommitQuiet ==
  ASSUME TypeInv, NEW w \in Workers, MountCommit(w) PROVE TypeInv' /\ Quiet(w)
<1>1. /\ stack[w] # <<>> /\ Top(w).at = "register" /\ UNCHANGED <<mounted, made, scope, closing>>
      /\ listed' = listed \cup {Top(w).id} /\ order' = Append(order, Top(w).id)
      /\ Return(w, "ok")
  BY DEF MountCommit, At
<1>2. Top(w).id \in Modules
  BY <1>1, TopSound, Parts DEF Sound
<1>3. listed' \subseteq Modules /\ order' \in Seq(Modules)
  BY <1>1, <1>2, Parts, AppendProperties
<1> QED BY <1>1, <1>3, QuietReturn DEF ClosingAt

(* Unmount looks for dependents.                                           *)
LEMMA UnmountDependentsQuiet ==
  ASSUME TypeInv, NEW w \in Workers, UnmountDependents(w) PROVE TypeInv' /\ Quiet(w)
<1> DEFINE t == Top(w)
<1>1. stack[w] # <<>> /\ t.at = "dependents" /\ UNCHANGED <<kit, made, scope, closing>>
  BY DEF UnmountDependents, At
<1>2. t \in AnyFrame
  BY <1>1, TopSound, Parts
<1>3. CASE Return(w, "error")
  BY <1>3, <1>1, QuietReturn, Parts DEF kit, ClosingAt
<1>4. CASE ~Return(w, "error")
  <2> DEFINE f == [t EXCEPT !.at = "lookup"]
  <2>1. Goto(w, f) /\ UNCHANGED result
    BY <1>4 DEF UnmountDependents, Step
  <2> HIDE DEF t
  <2>3. /\ f \in AnyFrame /\ f.id = t.id /\ f.at = "lookup" /\ f.scope = t.scope
        /\ f.list = t.list /\ f.gone = t.gone
    BY <1>2 DEF AnyFrame, FrameAt
  <2> HIDE DEF f
  <2> QED BY <1>1, <2>1, <2>3, QuietGoto DEF t
<1> QED BY <1>3, <1>4
-----------------------------------------------------------------------------
(* The enumeration of a finite set is a sequence of its members.           *)
LEMMA AscendingSeq ==
  ASSUME NEW S, IsFiniteSet(S), NEW p \in Ascending(S)
  PROVE  p \in Seq(S)
<1>1. Cardinality(S) \in Nat
  BY FS_CardinalityType
<1>2. p \in [1 .. Cardinality(S) -> S]
  BY DEF Ascending
<1> QED BY <1>1, <1>2, SeqDef

(* A set of places of a sequence is finite.                                *)
LEMMA PlacesFinite ==
  ASSUME NEW S, NEW seq \in Seq(S), NEW T \in SUBSET DOMAIN seq
  PROVE  IsFiniteSet(T)
<1>1. Len(seq) \in Nat /\ DOMAIN seq = 1 .. Len(seq)
  BY LenProperties
<1>2. IsFiniteSet(1 .. Len(seq))
  BY <1>1, FS_Interval
<1> QED BY <1>1, <1>2, FS_Subset

(* removeMountOrderLocked leaves a sequence of modules.                    *)
LEMMA WithoutSeq ==
  ASSUME NEW seq \in Seq(Modules), NEW ids, NEW x \in Without(seq, ids)
  PROVE  x \in Seq(Modules)
<1> DEFINE gone == {i \in DOMAIN seq : seq[i] \in ids /\ \A j \in 1 .. i - 1 : seq[j] # seq[i]}
           kept == DOMAIN seq \ gone
<1>1. PICK p \in Ascending(kept) : x = [k \in DOMAIN p |-> seq[p[k]]]
  BY DEF Without
<1>2. kept \subseteq DOMAIN seq /\ IsFiniteSet(kept)
  BY PlacesFinite
<1> HIDE DEF kept
<1>3. p \in Seq(kept)
  BY <1>2, AscendingSeq
<1>4. Len(p) \in Nat /\ DOMAIN p = 1 .. Len(p) /\ \A k \in 1 .. Len(p) : p[k] \in kept
  BY <1>3, LenProperties, ElementOfSeq
<1>5. DOMAIN seq = 1 .. Len(seq) /\ \A i \in 1 .. Len(seq) : seq[i] \in Modules
  BY LenProperties, ElementOfSeq
<1>6. x \in [1 .. Len(p) -> Modules]
  BY <1>1, <1>2, <1>4, <1>5
<1> QED BY <1>4, <1>6, SeqDef

(* closeMounted lists modules with scopes that were made.                  *)
LEMMA CloseListsSound ==
  ASSUME KitSound, NEW list \in CloseLists
  PROVE  list \in Seq(Entry) /\ \A i \in DOMAIN list : list[i].scope <= made
<1> DEFINE M == {id \in Modules : mounted[id] # 0}
<1>1. /\ order \in Seq(Modules) /\ mounted \in [Modules -> 0 .. made] /\ made \in Nat
      /\ MaxScopes \in Nat /\ made <= MaxScopes
  BY MadeNat DEF KitSound
<1>2. PICK p \in Ascending(KnownPlaces), t \in AnyOrder(Remaining) :
        list = ScopesOf(Backwards(p) \o t)
  BY DEF CloseLists
<1>3. DOMAIN order = 1 .. Len(order) /\ \A i \in DOMAIN order : order[i] \in Modules
  BY <1>1, LenProperties, ElementOfSeq
<1>4. Backwards(p) \in Seq(M)
  <2>1. KnownPlaces \subseteq DOMAIN order /\ \A i \in KnownPlaces : order[i] \in M
    BY <1>3 DEF KnownPlaces
  <2>2. IsFiniteSet(KnownPlaces)
    BY <1>1, <2>1, PlacesFinite
  <2> HIDE DEF M
  <2>3. p \in Seq(KnownPlaces)
    BY <2>2, AscendingSeq
  <2>4. /\ Len(p) \in Nat /\ DOMAIN p = 1 .. Len(p)
        /\ \A k \in 1 .. Len(p) : p[k] \in KnownPlaces
    BY <2>3, LenProperties, ElementOfSeq
  <2>5. \A i \in 1 .. Len(p) : Len(p) + 1 - i \in 1 .. Len(p)
    BY <2>4
  <2>6. Backwards(p) \in [1 .. Len(p) -> M]
    BY <2>1, <2>4, <2>5 DEF Backwards
  <2> QED BY <2>4, <2>6, SeqDef
<1>5. t \in Seq(M)
  <2>1. Remaining \subseteq M /\ Remaining \subseteq Modules
    BY DEF Remaining
  <2>2. IsFiniteSet(Remaining)
    BY <2>1, FS_Subset, ModuleMountAssumption
  <2> HIDE DEF M
  <2>3. Cardinality(Remaining) \in Nat
    BY <2>2, FS_CardinalityType
  <2>4. t \in [1 .. Cardinality(Remaining) -> M]
    BY <2>1 DEF AnyOrder
  <2> QED BY <2>3, <2>4, SeqDef
<1> DEFINE ids == Backwards(p) \o t
<1>6. ids \in Seq(M) /\ list = ScopesOf(ids)
  <2> HIDE DEF M
  <2> QED BY <1>2, <1>4, <1>5, ConcatProperties
<1> HIDE DEF ids
<1>7. Len(ids) \in Nat /\ DOMAIN ids = 1 .. Len(ids) /\ \A i \in 1 .. Len(ids) : ids[i] \in M
  <2> HIDE DEF M
  <2> QED BY <1>6, LenProperties, ElementOfSeq
<1>8. \A i \in 1 .. Len(ids) : /\ ids[i] \in Modules /\ mounted[ids[i]] \in Scopes
                               /\ mounted[ids[i]] <= made
  BY <1>1, <1>7 DEF Scopes
<1>9. list \in [1 .. Len(ids) -> Entry] /\ \A i \in DOMAIN list : list[i].scope <= made
  BY <1>6, <1>7, <1>8 DEF Entry, ScopesOf
<1> QED BY <1>7, <1>9, SeqDef

(* closeMounted lists the scopes.                                          *)
LEMMA CloseCallQuiet ==
  ASSUME TypeInv, NEW w \in Workers, CloseCall(w) PROVE TypeInv' /\ Quiet(w)
<1>1. stack[w] = <<>> /\ UNCHANGED <<kit, made, scope, result, closing>>
  BY DEF CloseCall
<1>2. PICK list \in CloseLists :
        stack' = [stack EXCEPT ![w] = <<[Frame("none", "next") EXCEPT !.list = list]>>]
  BY DEF CloseCall
<1>3. list \in Seq(Entry) /\ \A i \in DOMAIN list : list[i].scope <= made
  BY CloseListsSound, Parts
<1> DEFINE f == [Frame("none", "next") EXCEPT !.list = list]
<1>4. /\ f.id = "none" /\ f.at = "next" /\ f.scope = 0 /\ f.list = list /\ f.gone = {}
      /\ f \in AnyFrame
  <2>1. 1 \in 1 .. Items + 1
    BY Parts
  <2> QED BY <1>3, <2>1 DEF Frame, AnyFrame, FrameAt
<1>5. Sound(f, made)
  <2> HIDE DEF f
  <2> QED BY <1>3, <1>4, Parts DEF Sound, MountingAt
<1>6. Call(w, f)
  <2> HIDE DEF f
  <2>1. <<>> \o <<f>> = <<f>>
    OBVIOUS
  <2> QED BY <1>1, <1>2, <2>1 DEF Call, f
<1> HIDE DEF f
<1>7. /\ StackSound' /\ stack'[w] # <<>> /\ Top(w)' = f
      /\ \A v \in Workers \ {w} : stack'[v] = stack[v]
  BY <1>1, <1>4, <1>5, <1>6, OneSound, Parts
<1>8. TypeInv'
  BY <1>1, <1>7, QuietSound, Parts DEF kit, scope, ResultSound
<1> QED BY <1>1, <1>4, <1>7, <1>8 DEF Quiet, kit, scope, ClosingAt, MountingAt
-----------------------------------------------------------------------------
(* The step is that of one worker.                                         *)
Others(w) == \A v \in Workers \ {w} : stack'[v] = stack[v] /\ closing'[v] = closing[v]

(* The call on top goes on, for the same module.                           *)
Moves(w, from, to) ==
  /\ stack[w] # <<>> /\ Top(w).at = from
  /\ stack'[w] # <<>> /\ Top(w)'.at = to
  /\ Top(w)'.id = Top(w).id

(* The call on top returns.                                                *)
Pops(w, from) ==
  /\ stack[w] # <<>> /\ Top(w).at = from
  /\ stack'[w] # <<>> => Top(w)'.at = "dep" /\ Top(w)'.gone = {}

(* The worker calls Close of scope s.                                      *)
Begins(w, s) ==
  /\ closing'[w].at = "begin" /\ closing'[w].scope = s /\ closing'[w].failed = <<>>

(* Mount fails, or takes a new scope for its ID.                           *)
LEMMA ReserveEffect ==
  ASSUME TypeInv, NEW w \in Workers, MountReserve(w)
  PROVE  /\ TypeInv'
         /\ \/ Quiet(w)
            \/ /\ Moves(w, "deps", "register") /\ Others(w)
               /\ Top(w)'.scope = made + 1 /\ Top(w)'.gone = {}
               /\ Top(w).id \in Modules /\ mounted[Top(w).id] = 0 /\ made' = made + 1
               /\ mounted' = [mounted EXCEPT ![Top(w).id] = made + 1]
               /\ UNCHANGED <<closed, cleanups, held, closing>>
<1> DEFINE t == Top(w)
<1>1. /\ stack[w] # <<>> /\ t.at = "deps"
      /\ UNCHANGED <<listed, order, scope, closing>>
  BY DEF MountReserve, At
<1>2. t \in AnyFrame /\ Sound(t, made) /\ t.id \in Modules /\ t.gone = {}
  BY <1>1, TopSound, Parts DEF Sound
<1>3. CASE mounted[t.id] # 0
  <2>1. Return(w, "error") /\ UNCHANGED <<mounted, made>>
    BY <1>3 DEF MountReserve
  <2> QED BY <2>1, <1>1, QuietReturn, Parts DEF ClosingAt
<1>4. CASE mounted[t.id] = 0
  <2> DEFINE f == [t EXCEPT !.at = "register", !.scope = made + 1]
  <2>1. /\ made < MaxScopes /\ made' = made + 1
        /\ mounted' = [mounted EXCEPT ![t.id] = made + 1] /\ Goto(w, f) /\ UNCHANGED result
    BY <1>4 DEF MountReserve
  <2>2. made + 1 \in Nat /\ made + 1 \in 0 .. MaxScopes /\ made <= made + 1 /\ made + 1 # 0
    BY <2>1, MadeNat, Parts
  <2> HIDE DEF t
  <2>3. /\ f \in AnyFrame /\ f.id = t.id /\ f.at = "register" /\ f.scope = made + 1
        /\ f.list = t.list /\ f.gone = t.gone
    BY <1>2, <2>2 DEF AnyFrame, FrameAt
  <2> HIDE DEF f
  <2>4. Sound(t, made + 1)
    BY <1>2, <2>2, SoundLater, Parts
  <2>5. Sound(f, made + 1)
    BY <1>2, <2>2, <2>3, <2>4 DEF Sound
  <2>6. /\ StackSound' /\ stack'[w] # <<>> /\ Top(w)' = f
        /\ \A v \in Workers \ {w} : stack'[v] = stack[v]
    BY <1>1, <2>1, <2>2, <2>3, <2>5, GotoSound, Parts DEF t
  <2>7. ClosingSound'
    BY <1>1, <2>1, <2>2, ClosingKept, Parts
  <2>8. KitSound'
    <3>1. mounted \in [Modules -> 0 .. made] /\ made \in Nat
      BY Parts DEF KitSound
    <3>2. \A n \in 0 .. made : n \in 0 .. made + 1
      BY <3>1
    <3>3. made + 1 \in 0 .. made + 1
      BY <2>2
    <3>4. mounted' \in [Modules -> 0 .. made + 1]
      BY <3>1, <3>2, <3>3, <2>1
    <3> QED BY <3>4, <2>1, <2>2, <1>1, Parts DEF KitSound
  <2>9. ScopeSound'
    <3>1. \A n \in 1 .. made : n \in 1 .. made + 1
      BY Parts
    <3> QED BY <3>1, <2>1, <1>1, Parts DEF ScopeSound, scope
  <2>10. TypeInv'
    BY <2>1, <2>6, <2>7, <2>8, <2>9, Parts DEF TypeInv, ResultSound
  <2> QED BY <1>1, <1>2, <1>4, <2>1, <2>3, <2>6, <2>10 DEF Moves, Others, scope, t
<1> QED BY <1>3, <1>4

(* Mount fails while it registers, and closes its scope.                   *)
LEMMA RollBackEffect ==
  ASSUME TypeInv, NEW w \in Workers, At(w, "register"), MountRollBack(w),
         UNCHANGED <<kit, made, scope, result>>
  PROVE  /\ TypeInv' /\ Moves(w, "register", "rollback") /\ Others(w)
         /\ Top(w)'.scope = Top(w).scope /\ Top(w)'.gone = {}
         /\ Begins(w, Top(w).scope)
<1> DEFINE t == Top(w)
           f == [t EXCEPT !.at = "rollback"]
<1>1. stack[w] # <<>> /\ t.at = "register" /\ Goto(w, f) /\ CallClose(w, t.scope)
      /\ UNCHANGED made
  BY DEF At, MountRollBack, Step
<1>2. t \in AnyFrame /\ Sound(t, made) /\ t.scope \in Nat /\ t.scope # 0 /\ t.scope <= made
  BY <1>1, TopSound, Parts DEF Sound, AnyFrame, MountingAt
<1> HIDE DEF t
<1>3. /\ f \in AnyFrame /\ f.id = t.id /\ f.at = "rollback" /\ f.scope = t.scope
      /\ f.list = t.list /\ f.gone = t.gone
  BY <1>2 DEF AnyFrame, FrameAt
<1> HIDE DEF f
<1>4. Sound(f, made) /\ f.gone = {}
  BY <1>1, <1>2, <1>3, SoundNext, Parts
<1>5. /\ StackSound' /\ stack'[w] # <<>> /\ Top(w)' = f
      /\ \A v \in Workers \ {w} : stack'[v] = stack[v]
  BY <1>1, <1>3, <1>4, GotoSound, Parts
<1>6. /\ ClosingSound' /\ Begins(w, t.scope)
      /\ \A v \in Workers \ {w} : closing'[v] = closing[v]
  BY <1>1, <1>2, CallCloseSound, Parts DEF Begins
<1>7. TypeInv'
  BY <1>5, <1>6 DEF TypeInv, KitSound, ScopeSound, ResultSound, kit, scope
<1> QED BY <1>1, <1>3, <1>4, <1>5, <1>6, <1>7 DEF Moves, Others, t

(* Mount rolls back because a name is taken, or registers a resource.      *)
LEMMA RegisterEffect ==
  ASSUME TypeInv, NEW w \in Workers, MountRegister(w)
  PROVE  LET h == [id |-> Top(w).id, item |-> Top(w).item, scope |-> Top(w).scope]
         IN  /\ TypeInv'
             /\ UNCHANGED <<mounted, made, closed, cleanups>>
             /\ Others(w)
             /\ Top(w)'.scope = Top(w).scope /\ Top(w)'.gone = {}
             /\ \/ /\ \E k \in held : k.id = Top(w).id /\ k.item = Top(w).item
                   /\ Moves(w, "register", "rollback") /\ held' = held
                   /\ Begins(w, Top(w).scope)
                \/ /\ Moves(w, "register", "defer") /\ held' = held \cup {h}
                   /\ Top(w)'.item = Top(w).item /\ closing' = closing
<1> DEFINE t == Top(w)
           h == [id |-> t.id, item |-> t.item, scope |-> t.scope]
<1>1. /\ stack[w] # <<>> /\ t.at = "register" /\ t.item <= Items
      /\ UNCHANGED <<mounted, listed, order, made, closed, cleanups, result>>
  BY DEF MountRegister, At, kit
<1>2. CASE \E k \in held : k.id = t.id /\ k.item = t.item
  <2>1. MountRollBack(w) /\ held' = held
    BY <1>2 DEF MountRegister
  <2> QED BY <1>1, <1>2, <2>1, RollBackEffect DEF At, kit, scope
<1>3. CASE ~\E k \in held : k.id = t.id /\ k.item = t.item
  <2> DEFINE f == [t EXCEPT !.at = "defer"]
  <2>1. Goto(w, f) /\ held' = held \cup {h} /\ UNCHANGED closing
    BY <1>3 DEF MountRegister, Step
  <2>2. /\ t \in AnyFrame /\ Sound(t, made) /\ t.scope \in Nat /\ t.scope # 0 /\ t.scope <= made
        /\ t.id \in Modules /\ t.item \in 1 .. Items + 1
    BY <1>1, TopSound, Parts DEF Sound, AnyFrame, MountingAt
  <2>3. t.item \in 1 .. Items /\ t.scope \in 1 .. made
    BY <1>1, <2>2, Parts
  <2>4. h \in [id : Modules, item : 1 .. Items, scope : 1 .. made]
    BY <2>2, <2>3
  <2> HIDE DEF t
  <2>5. /\ f \in AnyFrame /\ f.id = t.id /\ f.at = "defer" /\ f.scope = t.scope
        /\ f.list = t.list /\ f.gone = t.gone /\ f.item = t.item
    BY <2>2 DEF AnyFrame, FrameAt
  <2> HIDE DEF f
  <2>6. Sound(f, made) /\ f.gone = {}
    BY <1>1, <2>2, <2>3, <2>5, SoundNext, Parts
  <2>7. /\ StackSound' /\ stack'[w] # <<>> /\ Top(w)' = f
        /\ \A v \in Workers \ {w} : stack'[v] = stack[v]
    BY <1>1, <2>1, <2>5, <2>6, GotoSound, Parts DEF t
  <2>8. ScopeSound'
    <3> HIDE DEF h
    <3> QED BY <1>1, <2>1, <2>4, Parts DEF ScopeSound
  <2>9. TypeInv'
    BY <1>1, <2>1, <2>7, <2>8, Parts DEF TypeInv, KitSound, ResultSound, ClosingSound
  <2> QED BY <1>1, <2>1, <2>5, <2>6, <2>7, <2>9 DEF Moves, Others, t
<1> QED BY <1>2, <1>3

(* Mount notes the cleanup of what it registered, unless the scope is      *)
(* closed.                                                                 *)
LEMMA DeferEffect ==
  ASSUME TypeInv, NEW w \in Workers, MountDefer(w)
  PROVE  LET s == Top(w).scope
         IN  /\ TypeInv' /\ Moves(w, "defer", "register") /\ Others(w)
             /\ Top(w)'.scope = s /\ Top(w)'.gone = {}
             /\ Top(w).item \in 1 .. Items /\ Top(w)'.item = Top(w).item + 1
             /\ s \in Scopes /\ cleanups[s] \in Seq(1 .. Items)
             /\ cleanups' = IF closed[s] THEN cleanups
                            ELSE [cleanups EXCEPT ![s] = Append(@, Top(w).item)]
             /\ UNCHANGED <<mounted, made, closed, held, closing>>
<1> DEFINE t == Top(w)
           s == t.scope
           f == [t EXCEPT !.at = "register", !.item = t.item + 1]
<1>1. /\ stack[w] # <<>> /\ t.at = "defer" /\ Goto(w, f)
      /\ UNCHANGED <<mounted, listed, order, made, closed, held, result, closing>>
      /\ cleanups' = IF closed[s] THEN cleanups
                     ELSE [cleanups EXCEPT ![s] = Append(@, t.item)]
  BY DEF MountDefer, At, kit
<1>2. /\ t \in AnyFrame /\ Sound(t, made) /\ s \in Nat /\ s # 0 /\ s <= made
      /\ t.item \in 1 .. Items + 1 /\ t.item <= Items
  BY <1>1, TopSound, Parts DEF Sound, AnyFrame, MountingAt
<1>3. t.item \in 1 .. Items /\ t.item + 1 \in 1 .. Items + 1
  BY <1>2, Parts
<1>4. s \in Scopes
  BY <1>2, MadeNat, Parts DEF Scopes, KitSound
<1>5. cleanups \in [Scopes -> Seq(1 .. Items)]
  BY Parts DEF ScopeSound
<1> HIDE DEF t
<1>6. /\ f \in AnyFrame /\ f.id = t.id /\ f.at = "register" /\ f.scope = t.scope
      /\ f.list = t.list /\ f.gone = t.gone /\ f.item = t.item + 1
  BY <1>2, <1>3 DEF AnyFrame, FrameAt
<1> HIDE DEF f
<1>7. Sound(f, made) /\ f.gone = {}
  BY <1>1, <1>2, <1>6, SoundNext, Parts
<1>8. /\ StackSound' /\ stack'[w] # <<>> /\ Top(w)' = f
      /\ \A v \in Workers \ {w} : stack'[v] = stack[v]
  BY <1>1, <1>6, <1>7, GotoSound, Parts DEF t
<1>9. cleanups' \in [Scopes -> Seq(1 .. Items)]
  <2>1. Append(cleanups[s], t.item) \in Seq(1 .. Items)
    BY <1>3, <1>4, <1>5, AppendProperties
  <2> QED BY <2>1, <1>1, <1>5
<1>10. TypeInv'
  BY <1>1, <1>8, <1>9, Parts DEF TypeInv, KitSound, ScopeSound, ResultSound, ClosingSound
<1> QED BY <1>1, <1>3, <1>4, <1>5, <1>6, <1>7, <1>8, <1>10 DEF Moves, Others, t

(* Mount has closed its scope: its ID is free.                             *)
LEMMA ForgetEffect ==
  ASSUME TypeInv, NEW w \in Workers, MountForget(w)
  PROVE  /\ TypeInv' /\ Pops(w, "rollback") /\ Others(w) /\ Top(w).id \in Modules
         /\ closing[w].at = "done" /\ closing'[w] = NoClose
         /\ mounted' = [mounted EXCEPT ![Top(w).id] = 0]
         /\ UNCHANGED <<made, closed, cleanups, held>>
<1>1. /\ stack[w] # <<>> /\ Top(w).at = "rollback" /\ closing[w].at = "done"
      /\ CloseRead(w) /\ mounted' = [mounted EXCEPT ![Top(w).id] = 0]
      /\ Return(w, "error") /\ UNCHANGED <<listed, order, made, scope>>
  BY DEF MountForget, At, Closed
<1>2. Top(w).id \in Modules
  BY <1>1, TopSound, Parts DEF Sound
<1>3. /\ StackSound' /\ ResultSound'
      /\ stack'[w] # <<>> => Top(w)'.at = "dep" /\ Top(w)'.gone = {}
      /\ \A v \in Workers \ {w} : stack'[v] = stack[v]
  BY <1>1, ReturnSound, Parts
<1>4. /\ ClosingSound' /\ closing'[w] = NoClose
      /\ \A v \in Workers \ {w} : closing'[v] = closing[v]
  BY <1>1, CloseReadSound, Parts
<1>5. KitSound'
  <2>1. 0 \in 0 .. made
    BY Parts
  <2> QED BY <2>1, <1>1, Parts DEF KitSound
<1>6. TypeInv'
  BY <1>1, <1>3, <1>4, <1>5, Parts DEF TypeInv, ScopeSound, scope
<1> QED BY <1>1, <1>2, <1>3, <1>4, <1>6 DEF Pops, Others, scope

(* Unmount fails, or closes the scope it finds.                            *)
LEMMA LookupEffect ==
  ASSUME TypeInv, NEW w \in Workers, UnmountLookup(w)
  PROVE  LET s == mounted[Top(w).id]
         IN  /\ TypeInv'
             /\ \/ Quiet(w)
                \/ /\ Moves(w, "lookup", "unmounting") /\ Others(w)
                   /\ Top(w)'.scope = s /\ Top(w)'.gone = {} /\ Begins(w, s)
                   /\ UNCHANGED <<mounted, made, closed, cleanups, held>>
<1> DEFINE t == Top(w)
           s == mounted[t.id]
<1>1. stack[w] # <<>> /\ t.at = "lookup" /\ UNCHANGED <<kit, made, scope>>
  BY DEF UnmountLookup, At
<1>2. t \in AnyFrame /\ Sound(t, made) /\ t.id \in Modules
  BY <1>1, TopSound, Parts DEF Sound
<1>3. s \in Nat /\ s <= made
  BY <1>2, Parts DEF KitSound
<1>4. CASE s = 0
  <2>1. Return(w, "error") /\ UNCHANGED closing
    BY <1>4 DEF UnmountLookup
  <2> QED BY <2>1, <1>1, QuietReturn, Parts DEF ClosingAt, kit
<1>5. CASE s # 0
  <2> DEFINE f == [t EXCEPT !.at = "unmounting", !.scope = s]
  <2>1. Goto(w, f) /\ CallClose(w, s) /\ UNCHANGED result
    BY <1>5 DEF UnmountLookup
  <2> HIDE DEF t, s
  <2>2. /\ f \in AnyFrame /\ f.id = t.id /\ f.at = "unmounting" /\ f.scope = s
        /\ f.list = t.list /\ f.gone = t.gone
    BY <1>2, <1>3 DEF AnyFrame, FrameAt
  <2> HIDE DEF f
  <2>3. Sound(f, made) /\ f.gone = {}
    BY <1>1, <1>2, <1>3, <1>5, <2>2 DEF Sound, t
  <2>4. /\ StackSound' /\ stack'[w] # <<>> /\ Top(w)' = f
        /\ \A v \in Workers \ {w} : stack'[v] = stack[v]
    BY <1>1, <2>1, <2>2, <2>3, GotoSound, Parts DEF t
  <2>5. /\ ClosingSound' /\ Begins(w, s)
        /\ \A v \in Workers \ {w} : closing'[v] = closing[v]
    BY <1>1, <1>3, <1>5, <2>1, CallCloseSound, Parts DEF Begins
  <2>6. TypeInv'
    BY <1>1, <2>1, <2>4, <2>5, Parts DEF TypeInv, KitSound, ScopeSound, ResultSound, kit, scope
  <2> QED BY <1>1, <2>2, <2>3, <2>4, <2>5, <2>6 DEF Moves, Others, t, s, kit, scope
<1> QED BY <1>4, <1>5

(* Unmount returns: an error when the close failed, and otherwise nil,     *)
(* after it took the ID off the scope it closed.                           *)
LEMMA UnmountEndEffect ==
  ASSUME TypeInv, NEW w \in Workers, UnmountFails(w) \/ UnmountRemove(w)
  PROVE  /\ TypeInv' /\ Pops(w, "unmounting") /\ Others(w) /\ Top(w).id \in Modules
         /\ closing[w].at = "done" /\ closing'[w] = NoClose
         /\ UNCHANGED <<made, closed, cleanups, held>>
         /\ UnmountRemove(w) => closing[w].failed = <<>> /\ result'[w] = "ok"
         /\ UnmountFails(w) => result'[w] = "error"
         /\ \/ mounted' = mounted
            \/ /\ UnmountRemove(w) /\ mounted[Top(w).id] = Top(w).scope
               /\ mounted' = [mounted EXCEPT ![Top(w).id] = 0]
<1>1. /\ stack[w] # <<>> /\ Top(w).at = "unmounting" /\ closing[w].at = "done"
      /\ CloseRead(w) /\ UNCHANGED <<made, scope>>
  BY DEF UnmountFails, UnmountRemove, At, Closed
<1>2. Top(w).id \in Modules
  BY <1>1, TopSound, Parts DEF Sound
<1>3. PICK x \in {"ok", "error"} : /\ Return(w, x)
                                   /\ UnmountRemove(w) => x = "ok"
                                   /\ UnmountFails(w) => x = "error"
  <2>1. CASE UnmountFails(w)
    <3>1. Return(w, "error") /\ ~UnmountRemove(w)
      BY <2>1 DEF UnmountFails, UnmountRemove
    <3> QED BY <3>1
  <2>2. CASE UnmountRemove(w)
    <3>1. Return(w, "ok") /\ ~UnmountFails(w)
      BY <2>2 DEF UnmountFails, UnmountRemove
    <3> QED BY <3>1
  <2> QED BY <2>1, <2>2
<1>4. /\ StackSound' /\ ResultSound' /\ result'[w] = x
      /\ stack'[w] # <<>> => Top(w)'.at = "dep" /\ Top(w)'.gone = {}
      /\ \A v \in Workers \ {w} : stack'[v] = stack[v]
  BY <1>1, <1>3, ReturnSound, Parts
<1>5. /\ ClosingSound' /\ closing'[w] = NoClose
      /\ \A v \in Workers \ {w} : closing'[v] = closing[v]
  BY <1>1, CloseReadSound, Parts
<1>6. \/ UNCHANGED kit
      \/ /\ UnmountRemove(w) /\ mounted[Top(w).id] = Top(w).scope
         /\ mounted' = [mounted EXCEPT ![Top(w).id] = 0]
         /\ listed' \subseteq listed /\ order' \in Without(order, {Top(w).id})
  BY DEF UnmountFails, UnmountRemove
<1>7. KitSound'
  <2>1. 0 \in 0 .. made
    BY Parts
  <2>2. order' \in Seq(Modules)
    BY <1>6, Parts, WithoutSeq DEF kit
  <2> QED BY <2>1, <2>2, <1>1, <1>6, Parts DEF KitSound, kit
<1>8. TypeInv'
  BY <1>1, <1>4, <1>5, <1>7, Parts DEF TypeInv, ScopeSound, scope
<1>9. UnmountRemove(w) => closing[w].failed = <<>>
  BY DEF UnmountRemove, CloseOk
<1> QED BY <1>1, <1>2, <1>3, <1>4, <1>5, <1>6, <1>8, <1>9 DEF Pops, Others, scope, kit

(* closeMounted closes the next scope of its list.                         *)
LEMMA CloseNextEffect ==
  ASSUME TypeInv, NEW w \in Workers, CloseNext(w)
  PROVE  /\ TypeInv' /\ Moves(w, "next", "shutting") /\ Others(w)
         /\ Top(w)'.list = Top(w).list /\ Top(w)'.gone = Top(w).gone
         /\ Begins(w, Head(Top(w).list).scope)
         /\ UNCHANGED <<mounted, made, closed, cleanups, held>>
<1> DEFINE t == Top(w)
           s == Head(t.list).scope
           f == [t EXCEPT !.at = "shutting"]
<1>1. /\ stack[w] # <<>> /\ t.at = "next" /\ t.list # <<>> /\ Goto(w, f)
      /\ CallClose(w, s) /\ UNCHANGED <<kit, made, scope, result>>
  BY DEF CloseNext, At, Step
<1>2. t \in AnyFrame /\ Sound(t, made) /\ t.list \in Seq(Entry)
  BY <1>1, TopSound, Parts DEF AnyFrame
<1> HIDE DEF t
<1>3. s \in Nat /\ s # 0 /\ s <= made
  <2>1. Len(t.list) \in Nat \ {0} /\ DOMAIN t.list = 1 .. Len(t.list)
    BY <1>1, <1>2, EmptySeq, LenProperties
  <2>2. 1 \in DOMAIN t.list /\ Head(t.list) = t.list[1] /\ t.list[1] \in Entry
    BY <2>1, <1>2, ElementOfSeq
  <2> QED BY <2>2, <1>2, MadeNat, Parts DEF Sound, Entry, Scopes
<1>4. /\ f \in AnyFrame /\ f.id = t.id /\ f.at = "shutting" /\ f.scope = t.scope
      /\ f.list = t.list /\ f.gone = t.gone
  BY <1>2 DEF AnyFrame, FrameAt
<1> HIDE DEF f, s
<1>5. Sound(f, made)
  BY <1>1, <1>2, <1>4 DEF Sound, MountingAt
<1>6. /\ StackSound' /\ stack'[w] # <<>> /\ Top(w)' = f
      /\ \A v \in Workers \ {w} : stack'[v] = stack[v]
  BY <1>1, <1>4, <1>5, GotoSound, Parts
<1>7. /\ ClosingSound' /\ Begins(w, s)
      /\ \A v \in Workers \ {w} : closing'[v] = closing[v]
  BY <1>1, <1>3, CallCloseSound, Parts DEF Begins
<1>8. TypeInv'
  BY <1>1, <1>6, <1>7 DEF TypeInv, KitSound, ScopeSound, ResultSound, kit, scope
<1> QED BY <1>1, <1>4, <1>6, <1>7, <1>8 DEF Moves, Others, t, s, kit, scope

(* closeMounted notes a module whose scope is closed.                      *)
LEMMA CloseNotedEffect ==
  ASSUME TypeInv, NEW w \in Workers, CloseNoted(w)
  PROVE  /\ TypeInv' /\ Moves(w, "shutting", "next") /\ Others(w)
         /\ closing[w].at = "done" /\ closing'[w] = NoClose
         /\ \/ Top(w)'.gone = Top(w).gone
            \/ /\ closing[w].failed = <<>>
               /\ Top(w)'.gone = Top(w).gone \cup {Head(Top(w).list)}
         /\ UNCHANGED <<mounted, made, closed, cleanups, held>>
<1> DEFINE t == Top(w)
           gone == IF CloseOk(w) THEN t.gone \cup {Head(t.list)} ELSE t.gone
           f == [t EXCEPT !.at = "next", !.list = Tail(t.list), !.gone = gone]
<1>1. /\ stack[w] # <<>> /\ t.at = "shutting" /\ closing[w].at = "done" /\ Goto(w, f)
      /\ CloseRead(w) /\ UNCHANGED <<kit, made, scope, result>>
  BY DEF CloseNoted, At, Closed
<1>2. t \in AnyFrame /\ Sound(t, made) /\ t.list \in Seq(Entry) /\ t.list # <<>>
  BY <1>1, TopSound, Parts DEF AnyFrame, Sound
<1> HIDE DEF t
<1>3. /\ Head(t.list) \in Entry /\ Tail(t.list) \in Seq(Entry)
      /\ \A i \in DOMAIN Tail(t.list) : Tail(t.list)[i].scope <= made
  <2>1. /\ Head(t.list) \in Entry /\ Tail(t.list) \in Seq(Entry)
        /\ Len(Tail(t.list)) = Len(t.list) - 1
        /\ \A i \in 1 .. Len(Tail(t.list)) : Tail(t.list)[i] = t.list[i + 1]
    BY <1>2, HeadTailProperties
  <2>2. /\ DOMAIN Tail(t.list) = 1 .. Len(Tail(t.list))
        /\ DOMAIN t.list = 1 .. Len(t.list) /\ Len(t.list) \in Nat
    BY <1>2, <2>1, LenProperties
  <2>3. \A i \in 1 .. Len(t.list) - 1 : i + 1 \in 1 .. Len(t.list)
    BY <2>2
  <2> QED BY <1>2, <2>1, <2>2, <2>3 DEF Sound
<1>4. gone \in SUBSET Entry
  BY <1>2, <1>3 DEF AnyFrame
<1>5. gone = t.gone \/ (closing[w].failed = <<>> /\ gone = t.gone \cup {Head(t.list)})
  BY DEF CloseOk
<1> HIDE DEF gone
<1>6. /\ f \in AnyFrame /\ f.id = t.id /\ f.at = "next" /\ f.scope = t.scope
      /\ f.list = Tail(t.list) /\ f.gone = gone
  BY <1>2, <1>3, <1>4 DEF AnyFrame, FrameAt
<1> HIDE DEF f
<1>7. Sound(f, made)
  BY <1>2, <1>3, <1>6 DEF Sound, MountingAt
<1>8. /\ StackSound' /\ stack'[w] # <<>> /\ Top(w)' = f
      /\ \A v \in Workers \ {w} : stack'[v] = stack[v]
  BY <1>1, <1>6, <1>7, GotoSound, Parts
<1>9. /\ ClosingSound' /\ closing'[w] = NoClose
      /\ \A v \in Workers \ {w} : closing'[v] = closing[v]
  BY <1>1, CloseReadSound, Parts
<1>10. TypeInv'
  BY <1>1, <1>8, <1>9 DEF TypeInv, KitSound, ScopeSound, ResultSound, kit, scope
<1> QED BY <1>1, <1>5, <1>6, <1>8, <1>9, <1>10 DEF Moves, Others, t, kit, scope

(* closeMounted takes the modules it noted off the scopes it closed.       *)
LEMMA CloseRemoveEffect ==
  ASSUME TypeInv, NEW w \in Workers, CloseRemove(w)
  PROVE  /\ TypeInv' /\ Pops(w, "next") /\ Others(w)
         /\ \A id \in Modules :
              \/ mounted'[id] = mounted[id]
              \/ /\ mounted'[id] = 0
                 /\ \E e \in Top(w).gone : e.id = id /\ mounted[id] = e.scope
         /\ UNCHANGED <<made, closed, cleanups, held, closing>>
<1> DEFINE gone == {e.id : e \in {e \in Top(w).gone : mounted[e.id] = e.scope}}
<1>1. /\ stack[w] # <<>> /\ Top(w).at = "next" /\ Return(w, "ok")
      /\ mounted' = [id \in Modules |-> IF id \in gone THEN 0 ELSE mounted[id]]
      /\ listed' = listed \ gone /\ order' \in Without(order, gone)
      /\ UNCHANGED <<made, scope, closing>>
  BY DEF CloseRemove, At
<1>2. \A id \in gone : \E e \in Top(w).gone : e.id = id /\ mounted[id] = e.scope
  OBVIOUS
<1> HIDE DEF gone
<1>3. /\ StackSound' /\ ResultSound'
      /\ stack'[w] # <<>> => Top(w)'.at = "dep" /\ Top(w)'.gone = {}
      /\ \A v \in Workers \ {w} : stack'[v] = stack[v]
  BY <1>1, ReturnSound, Parts
<1>4. KitSound'
  <2>1. 0 \in 0 .. made
    BY Parts
  <2>2. order' \in Seq(Modules)
    BY <1>1, Parts, WithoutSeq
  <2> QED BY <2>1, <2>2, <1>1, Parts DEF KitSound
<1>5. TypeInv'
  BY <1>1, <1>3, <1>4, Parts DEF TypeInv, ScopeSound, ClosingSound, scope
<1> QED BY <1>1, <1>2, <1>3, <1>5 DEF Pops, Others, scope
-----------------------------------------------------------------------------
(* The types hold at first.                                                *)
LEMMA TypeInvInit == Init => TypeInv
<1> SUFFICES ASSUME Init PROVE TypeInv
  OBVIOUS
<1>1. MaxScopes \in Nat /\ 0 \in 0 .. MaxScopes /\ 0 \in 0 .. 0
  BY ModuleMountAssumption
<1>2. <<>> \in Seq(AnyFrame) /\ <<>> \in Seq(Modules) /\ <<>> \in Seq(1 .. Items)
      /\ DOMAIN <<>> = {}
  BY EmptySeq
<1>3. StackSound
  BY <1>2 DEF Init, StackSound
<1>4. KitSound /\ ScopeSound /\ ResultSound
  BY <1>1, <1>2 DEF Init, KitSound, ScopeSound, ResultSound
<1>5. NoClose \in Closings /\ NoClose.scope = 0 /\ NoClose.at = "none"
  BY NoCloseFields
<1>6. ClosingSound
  <2> HIDE DEF NoClose
  <2> QED BY <1>5 DEF Init, ClosingSound
<1> QED BY <1>3, <1>4, <1>6 DEF TypeInv

(* Every step keeps the types.                                             *)
LEMMA TypeInvNext == TypeInv /\ [Next]_vars => TypeInv'
<1> SUFFICES ASSUME TypeInv, [Next]_vars PROVE TypeInv'
  OBVIOUS
<1>1. CASE UNCHANGED vars
  BY <1>1 DEF TypeInv, StackSound, KitSound, ScopeSound, ClosingSound, ResultSound,
     vars, kit, scope
<1>2. ASSUME NEW w \in Workers, NEW id \in Modules, MountCall(w, id) \/ UnmountCall(w, id)
      PROVE  TypeInv'
  BY <1>2, CallQuiet
<1>3. ASSUME NEW w \in Workers, CloseCall(w) PROVE TypeInv'
  BY <1>3, CloseCallQuiet
<1>4. ASSUME NEW w \in Workers, ScopeStep(w) PROVE TypeInv'
  BY <1>4, ScopeStepSound
<1>5. ASSUME NEW w \in Workers, MountStep(w) PROVE TypeInv'
  <2>1. CASE MountFails(w)
    BY <2>1, RollBackEffect DEF MountFails
  <2> QED BY <1>5, <2>1, MountCheckQuiet, ReserveEffect, MountDepQuiet, MountDepReturnedQuiet,
             RegisterEffect, DeferEffect, ForgetEffect, MountCommitQuiet DEF MountStep
<1>6. ASSUME NEW w \in Workers, UnmountStep(w) PROVE TypeInv'
  BY <1>6, UnmountDependentsQuiet, LookupEffect, UnmountEndEffect DEF UnmountStep
<1>7. ASSUME NEW w \in Workers, ShutStep(w) PROVE TypeInv'
  BY <1>7, CloseNextEffect, CloseNotedEffect, CloseRemoveEffect DEF ShutStep
<1> QED BY <1>1, <1>2, <1>3, <1>4, <1>5, <1>6, <1>7 DEF Next

(* The types hold in every state.                                          *)
LEMMA TypeInvCorrect == Spec => []TypeInv
BY TypeInvInit, TypeInvNext, PTL DEF Spec

(* The types, whatever the operations, the goroutines and what fails; a    *)
(* scope that a call, a close or the Kit refers to was made.               *)
THEOREM TypeCorrect == Spec => []TypeOK
<1>1. TypeInv => TypeOK
  <2> SUFFICES ASSUME TypeInv PROVE TypeOK
    OBVIOUS
  <2> DEFINE G == [id : Modules \cup {"none"}, at : FrameAt, deps : SUBSET Modules,
        dep : Modules \cup {"none"}, scope : 0 .. made, item : 1 .. Items + 1,
        list : Seq(Entry), gone : SUBSET Entry]
  <2>1. ASSUME NEW w \in Workers PROVE stack[w] \in Seq(G)
    <3>1. stack[w] \in Seq(AnyFrame)
      BY Parts DEF StackSound
    <3>2. /\ Len(stack[w]) \in Nat /\ DOMAIN stack[w] = 1 .. Len(stack[w])
          /\ stack[w] \in [1 .. Len(stack[w]) -> AnyFrame]
      BY <3>1, LenProperties
    <3>3. \A i \in 1 .. Len(stack[w]) : stack[w][i] \in G
      <4> TAKE i \in 1 .. Len(stack[w])
      <4>1. stack[w][i] \in AnyFrame /\ Sound(stack[w][i], made)
        BY <3>1, <3>2, ElementOfSeq, Parts DEF StackSound
      <4> DEFINE f == stack[w][i]
      <4>2. f.scope \in 0 .. made
        BY <4>1, Parts DEF AnyFrame, Sound
      <4> HIDE DEF f
      <4>3. f \in AnyFrame
        BY <4>1 DEF f
      <4>4. f \in G
        BY <4>2, <4>3 DEF AnyFrame
      <4> QED BY <4>4 DEF f
    <3> HIDE DEF G
    <3>4. stack[w] \in [1 .. Len(stack[w]) -> G]
      BY <3>2, <3>3
    <3> QED BY <3>2, <3>4, SeqDef
  <2>2. stack \in [Workers -> Seq(G)]
    <3> HIDE DEF G
    <3> QED BY <2>1, Parts DEF StackSound
  <2>3. closing \in [Workers -> [scope : 0 .. made, at : {"none", "begin", "run", "done"},
          todo : Seq(1 .. Items), failed : Seq(1 .. Items)]]
    <3>1. ASSUME NEW w \in Workers
          PROVE  closing[w] \in [scope : 0 .. made, at : {"none", "begin", "run", "done"},
                   todo : Seq(1 .. Items), failed : Seq(1 .. Items)]
      BY Parts DEF ClosingSound, Closings
    <3> QED BY <3>1, Parts DEF ClosingSound
  <2> QED BY <2>2, <2>3, Parts DEF TypeOK, KitSound, ScopeSound, ResultSound
<1> QED BY <1>1, TypeInvCorrect, PTL
-----------------------------------------------------------------------------
(* The calls do not overlap, or the workers only mount.                    *)
Alone     == \A v, w \in Workers : v = w
Exclusive == MountOnly \/ Alone

(* The worker is at a scope that its Mount made; it has a close under way; *)
(* the scope that such a call closes.                                      *)
Mounting(w) == stack[w] # <<>> /\ Top(w).at \in MountingAt
Closer(w)   == closing[w].at # "none"
Target(f)   == IF f.at = "shutting" THEN Head(f.list).scope ELSE f.scope

(* A close is that of the scope of the call, begins with nothing failed,   *)
(* and keeps the scope empty while it runs and when it succeeded.          *)
CloserOk(w) ==
  /\ Closer(w) => /\ stack[w] # <<>> /\ Top(w).at \in ClosingAt
                  /\ closing[w].scope = Target(Top(w))
  /\ closing[w].at = "begin" => closing[w].failed = <<>>
  /\ \/ closing[w].at = "run"
     \/ closing[w].at = "done" /\ closing[w].failed = <<>>
     => cleanups[closing[w].scope] = <<>>

(* The scope of a Mount that has reserved its ID is mounted under it, and  *)
(* open until the Mount rolls back.                                        *)
MounterOk(w) ==
  Mounting(w) => /\ mounted[Top(w).id] = Top(w).scope
                 /\ Top(w).at # "rollback" => ~closed[Top(w).scope]

(* No two workers mount at one scope.                                      *)
ScopeOnce ==
  \A v, w \in Workers : v # w /\ Mounting(v) /\ Mounting(w) => Top(v).scope # Top(w).scope

(* A scope that was not made is open.                                      *)
Unmade == \A s \in Scopes : s > made => ~closed[s]

Roles == (\A w \in Workers : CloserOk(w) /\ MounterOk(w)) /\ ScopeOnce /\ Unmade

(* What is known of the types and, when modules are only mounted, of the   *)
(* Mounts.                                                                 *)
Grounds == Exclusive /\ TypeInv /\ (MountOnly => Inv)

(* A worker that is not alone is in a Mount.                               *)
LEMMA Company ==
  ASSUME Grounds, NEW v \in Workers, NEW w \in Workers \ {v}
  PROVE  stack[w] # <<>> => Top(w).at \in MountAt
<1>1. Inv
  BY DEF Grounds, Exclusive, Alone
<1>2. stack[w] # <<>> => Top(w) \in Frames
  BY <1>1, TopFrame DEF Inv, Types
<1> QED BY <1>2 DEF Frames

(* Two workers that mount or close are at different scopes.                *)
LEMMA Apart ==
  ASSUME Grounds, Roles, NEW v \in Workers, NEW w \in Workers, v # w,
         Closer(v) \/ Mounting(v), Closer(w) \/ Mounting(w)
  PROVE  /\ Mounting(v) /\ Mounting(w) /\ Top(v).scope # Top(w).scope
         /\ Closer(v) => closing[v].scope = Top(v).scope
         /\ Closer(w) => closing[w].scope = Top(w).scope
<1>1. ASSUME NEW u \in Workers, u = v \/ u = w
      PROVE  /\ Mounting(u)
             /\ Closer(u) => closing[u].scope = Top(u).scope
  <2>1. stack[u] # <<>> => Top(u).at \in MountAt
    BY <1>1, Company
  <2>2. Closer(u) => stack[u] # <<>> /\ Top(u).at \in ClosingAt /\ closing[u].scope = Target(Top(u))
    BY DEF Roles, CloserOk
  <2>3. Closer(u) \/ Mounting(u)
    BY <1>1
  <2> QED BY <2>1, <2>2, <2>3 DEF Mounting, MountAt, ClosingAt, MountingAt, Target
<1> QED BY <1>1 DEF Roles, ScopeOnce

(* A step of w keeps the role of v when it leaves v's scope and ID alone.  *)
LEMMA OtherRole ==
  ASSUME Roles, NEW w \in Workers, Others(w), NEW v \in Workers \ {w},
         Mounting(v) => /\ mounted'[Top(v).id] = mounted[Top(v).id]
                        /\ closed'[Top(v).scope] = closed[Top(v).scope],
         Closer(v) => cleanups'[closing[v].scope] = cleanups[closing[v].scope]
  PROVE  CloserOk(v)' /\ MounterOk(v)'
<1>1. stack'[v] = stack[v] /\ closing'[v] = closing[v] /\ Top(v)' = Top(v)
  BY DEF Others, Top
<1> QED BY <1>1 DEF Roles, CloserOk, MounterOk, Closer, Mounting, Target

(* A step that gives no Mount another scope keeps them distinct.           *)
LEMMA OnceKept ==
  ASSUME Roles, NEW w \in Workers, Others(w),
         Mounting(w)' => Mounting(w) /\ Top(w)'.scope = Top(w).scope
  PROVE  ScopeOnce'
<1>1. \A v \in Workers : v # w => (Mounting(v)' <=> Mounting(v)) /\ Top(v)' = Top(v)
  BY DEF Others, Top, Mounting
<1>2. ASSUME NEW u \in Workers, NEW v \in Workers, u # v, Mounting(u)', Mounting(v)'
      PROVE  Top(u)'.scope # Top(v)'.scope
  <2>1. /\ Mounting(u) /\ Top(u)'.scope = Top(u).scope
        /\ Mounting(v) /\ Top(v)'.scope = Top(v).scope
    BY <1>1, <1>2
  <2> QED BY <1>2, <2>1 DEF Roles, ScopeOnce
<1> QED BY <1>2 DEF ScopeOnce

(* A worker that has no call at a scope has no close.                      *)
LEMMA NoCloser ==
  ASSUME Roles, NEW w \in Workers, stack[w] # <<>> => Top(w).at \notin ClosingAt
  PROVE  closing[w].at = "none"
BY DEF Roles, CloserOk, Closer

(* A step at no scope keeps the roles.                                     *)
LEMMA QuietRoles ==
  ASSUME Roles, NEW w \in Workers, Quiet(w)
  PROVE  Roles'
<1>1. Others(w) /\ UNCHANGED <<mounted, made, closed, cleanups, closing>>
  BY DEF Quiet, Others
<1>2. ~Mounting(w)' /\ closing'[w].at = "none"
  BY NoCloser DEF Quiet, Mounting
<1>3. \A v \in Workers \ {w} : CloserOk(v)' /\ MounterOk(v)'
  BY <1>1, OtherRole
<1>4. CloserOk(w)' /\ MounterOk(w)'
  BY <1>2 DEF CloserOk, MounterOk, Closer
<1>5. ScopeOnce' /\ Unmade'
  BY <1>1, <1>2, OnceKept DEF Roles, Unmade
<1> QED BY <1>3, <1>4, <1>5 DEF Roles


(* Mount takes a scope nobody has, under an ID nobody has.                 *)
LEMMA ReserveRoles ==
  ASSUME Grounds, Roles, NEW w \in Workers, MountReserve(w)
  PROVE  Roles'
<1>1. CASE Quiet(w)
  BY <1>1, QuietRoles
<1>2. CASE ~Quiet(w)
  <2> DEFINE id == Top(w).id
  <2>1. /\ Moves(w, "deps", "register") /\ Others(w)
        /\ Top(w)'.scope = made + 1 /\ id \in Modules /\ mounted[id] = 0
        /\ made' = made + 1 /\ mounted' = [mounted EXCEPT ![id] = made + 1]
        /\ UNCHANGED <<closed, cleanups, held, closing>> /\ TypeInv'
    BY <1>2, ReserveEffect DEF Grounds
  <2>2. /\ mounted \in [Modules -> 0 .. made] /\ made \in Nat /\ made' \in 0 .. MaxScopes
        /\ MaxScopes \in Nat
    BY <2>1, Parts, MadeNat DEF Grounds, KitSound, TypeInv
  <2>3. made + 1 \in Scopes /\ ~closed[made + 1] /\ \A s \in Scopes : s > made + 1 => s > made
    BY <2>1, <2>2 DEF Roles, Unmade, Scopes
  <2>4. \A v \in Workers : Mounting(v) => /\ mounted[Top(v).id] = Top(v).scope
                                         /\ Top(v).scope # 0 /\ Top(v).id # id
                                         /\ Top(v).scope \in Nat /\ Top(v).scope <= made
    <3> TAKE v \in Workers
    <3> HAVE Mounting(v)
    <3>1. Top(v) \in AnyFrame /\ Sound(Top(v), made)
      BY TopSound, Parts DEF Grounds, Mounting
    <3> QED BY <3>1, <2>1 DEF Roles, MounterOk, Mounting, Sound, AnyFrame
  <2> HIDE DEF id
  <2>5. \A v \in Workers \ {w} : CloserOk(v)' /\ MounterOk(v)'
    <3> TAKE v \in Workers \ {w}
    <3>1. Mounting(v) => mounted'[Top(v).id] = mounted[Top(v).id]
      BY <2>1, <2>2, <2>4
    <3> QED BY <3>1, <2>1, OtherRole
  <2>6. closing'[w].at = "none"
    BY <2>1, NoCloser DEF Moves, ClosingAt
  <2>7. mounted'[Top(w)'.id] = made + 1
    BY <2>1, <2>2 DEF Moves, id
  <2>8. CloserOk(w)' /\ MounterOk(w)'
    BY <2>1, <2>3, <2>6, <2>7 DEF CloserOk, MounterOk, Closer, Moves
  <2>9. ScopeOnce'
    <3>1. \A v \in Workers \ {w} : Mounting(v)' <=> Mounting(v)
      BY <2>1 DEF Others, Mounting, Top
    <3>2. \A v \in Workers \ {w} : Top(v)' = Top(v)
      BY <2>1 DEF Others, Top
    <3>3. \A v \in Workers \ {w} : Mounting(v) => Top(v).scope # made + 1
      BY <2>2, <2>4
    <3>4. ASSUME NEW u \in Workers, NEW v \in Workers, u # v, Mounting(u)', Mounting(v)'
          PROVE  Top(u)'.scope # Top(v)'.scope
      <4>1. CASE u # w /\ v # w
        BY <4>1, <3>1, <3>2, <3>4 DEF Roles, ScopeOnce
      <4>2. CASE u = w
        BY <4>2, <2>1, <3>1, <3>2, <3>3, <3>4
      <4>3. CASE v = w
        BY <4>3, <2>1, <3>1, <3>2, <3>3, <3>4
      <4> QED BY <4>1, <4>2, <4>3
    <3> QED BY <3>4 DEF ScopeOnce
  <2>10. Unmade'
    BY <2>1, <2>3 DEF Roles, Unmade
  <2> QED BY <2>5, <2>8, <2>9, <2>10 DEF Roles
<1> QED BY <1>1, <1>2

(* A Mount begins to roll back. *)
LEMMA BackRoles ==
  ASSUME Grounds, Roles, NEW w \in Workers, Moves(w, "register", "rollback"), Others(w),
         Top(w)'.scope = Top(w).scope, Begins(w, Top(w).scope),
         UNCHANGED <<mounted, made, closed, cleanups>>
  PROVE  Roles'
<1>1. \A v \in Workers \ {w} : CloserOk(v)' /\ MounterOk(v)'
  BY OtherRole
<1>2. CloserOk(w)' /\ MounterOk(w)'
  <2>1. Mounting(w) /\ mounted[Top(w).id] = Top(w).scope
    BY DEF Moves, Mounting, MountingAt, Roles, MounterOk
  <2> QED BY <2>1 DEF CloserOk, MounterOk, Closer, Moves, Begins, ClosingAt, Target
<1>3. ScopeOnce'
  BY OnceKept DEF Moves, Mounting, MountingAt
<1> QED BY <1>1, <1>2, <1>3 DEF Roles, Unmade

(* Mount registers at its own scope.                                       *)
LEMMA RegisterRoles ==
  ASSUME Grounds, Roles, NEW w \in Workers, MountRegister(w)
  PROVE  Roles'
<1>1. /\ UNCHANGED <<mounted, made, closed, cleanups>> /\ Others(w)
      /\ Top(w)'.scope = Top(w).scope
      /\ \/ Moves(w, "register", "rollback") /\ Begins(w, Top(w).scope)
         \/ Moves(w, "register", "defer") /\ closing' = closing
  BY RegisterEffect DEF Grounds
<1>2. CASE Moves(w, "register", "rollback") /\ Begins(w, Top(w).scope)
  BY <1>1, <1>2, BackRoles
<1>3. CASE Moves(w, "register", "defer") /\ closing' = closing
  <2>1. \A v \in Workers \ {w} : CloserOk(v)' /\ MounterOk(v)'
    BY <1>1, OtherRole
  <2>2. CloserOk(w)' /\ MounterOk(w)'
    <3>1. /\ Mounting(w) /\ mounted[Top(w).id] = Top(w).scope /\ ~closed[Top(w).scope]
      BY <1>3 DEF Moves, Mounting, MountingAt, Roles, MounterOk
    <3>2. closing[w].at = "none"
      BY <1>3, NoCloser DEF Moves, ClosingAt
    <3> QED BY <1>1, <1>3, <3>1, <3>2 DEF CloserOk, MounterOk, Closer, Moves
  <2>3. ScopeOnce'
    BY <1>1, <1>3, OnceKept DEF Moves, Mounting, MountingAt
  <2> QED BY <1>1, <2>1, <2>2, <2>3 DEF Roles, Unmade
<1> QED BY <1>1, <1>2, <1>3

(* Mount defers to its own scope, which nobody closes.                     *)
LEMMA DeferRoles ==
  ASSUME Grounds, Roles, NEW w \in Workers, MountDefer(w)
  PROVE  Roles'
<1> DEFINE s == Top(w).scope
<1>1. /\ Moves(w, "defer", "register") /\ Others(w) /\ Top(w)'.scope = s /\ s \in Scopes
      /\ UNCHANGED <<mounted, made, closed, held, closing>>
      /\ \A r \in Scopes \ {s} : cleanups'[r] = cleanups[r]
  <2>1. cleanups \in [Scopes -> Seq(1 .. Items)]
    BY Parts DEF Grounds, ScopeSound
  <2> QED BY <2>1, DeferEffect DEF Grounds
<1>2. Mounting(w) /\ mounted[Top(w).id] = s /\ ~closed[s]
  BY <1>1 DEF Moves, Mounting, MountingAt, Roles, MounterOk
<1>3. \A v \in Workers \ {w} : CloserOk(v)' /\ MounterOk(v)'
  <2> TAKE v \in Workers \ {w}
  <2>1. Closer(v) => closing[v].scope # s /\ closing[v].scope \in Scopes
    BY <1>2, Apart, ClosingOf, Parts DEF Closer, Grounds
  <2> HIDE DEF s
  <2>2. Closer(v) => cleanups'[closing[v].scope] = cleanups[closing[v].scope]
    BY <2>1, <1>1
  <2> QED BY <2>2, <1>1, OtherRole
<1>4. CloserOk(w)' /\ MounterOk(w)'
  <2>1. closing[w].at = "none"
    BY <1>1, NoCloser DEF Moves, ClosingAt
  <2> QED BY <1>1, <1>2, <2>1 DEF CloserOk, MounterOk, Closer, Moves
<1>5. ScopeOnce'
  BY <1>1, OnceKept DEF Moves, Mounting, MountingAt
<1> QED BY <1>1, <1>3, <1>4, <1>5 DEF Roles, Unmade

(* Mount gives up an ID that nobody else has.                              *)
LEMMA ForgetRoles ==
  ASSUME Grounds, Roles, NEW w \in Workers, MountForget(w)
  PROVE  Roles'
<1>1. /\ Pops(w, "rollback") /\ Others(w) /\ Top(w).id \in Modules
      /\ closing'[w] = NoClose
      /\ mounted' = [mounted EXCEPT ![Top(w).id] = 0]
      /\ UNCHANGED <<made, closed, cleanups, held>>
  BY ForgetEffect DEF Grounds
<1>2. Mounting(w) /\ mounted[Top(w).id] = Top(w).scope
  BY <1>1 DEF Pops, Mounting, MountingAt, Roles, MounterOk
<1>3. ~Mounting(w)' /\ closing'[w].at = "none"
  BY <1>1, NoCloseFields DEF Pops, Mounting, MountingAt, NoClose
<1>4. \A v \in Workers \ {w} : CloserOk(v)' /\ MounterOk(v)'
  <2> TAKE v \in Workers \ {w}
  <2>1. Mounting(v) => Top(v).id # Top(w).id
    BY <1>2 DEF Roles, MounterOk, ScopeOnce
  <2>2. mounted \in [Modules -> 0 .. made]
    BY Parts DEF Grounds, KitSound
  <2>3. Mounting(v) => mounted'[Top(v).id] = mounted[Top(v).id]
    <3>1. Mounting(v) => Top(v).id \in Modules
      BY TopSound, Parts DEF Grounds, Mounting, Sound, MountingAt
    <3> QED BY <1>1, <2>1, <2>2, <3>1
  <2> QED BY <2>3, <1>1, OtherRole
<1>5. CloserOk(w)' /\ MounterOk(w)'
  BY <1>3 DEF CloserOk, MounterOk, Closer
<1>6. ScopeOnce'
  BY <1>1, <1>3, OnceKept
<1> QED BY <1>1, <1>4, <1>5, <1>6 DEF Roles, Unmade

(* A worker that unmounts or closes is the only one. *)
LEMMA Single ==
  ASSUME Grounds, NEW w \in Workers, stack[w] # <<>>,
         Top(w).at \in {"dependents", "lookup", "unmounting", "next", "shutting"}
  PROVE  \A v \in Workers : v = w
BY Company DEF MountAt

(* The roles, of a worker that is alone and not in a Mount.                *)
LEMMA SingleRoles ==
  ASSUME NEW w \in Workers, \A v \in Workers : v = w,
         CloserOk(w)', ~Mounting(w)', Unmade'
  PROVE  Roles'
<1>1. \A v \in Workers : CloserOk(v)' /\ ~Mounting(v)'
  OBVIOUS
<1>2. \A v \in Workers : MounterOk(v)'
  BY <1>1 DEF MounterOk
<1>3. ScopeOnce'
  BY <1>1 DEF ScopeOnce
<1> QED BY <1>1, <1>2, <1>3 DEF Roles

(* Unmount keeps the roles.                                                *)
LEMMA UnmountRoles ==
  ASSUME Grounds, Roles, NEW w \in Workers, UnmountStep(w)
  PROVE  Roles'
<1>1. CASE Quiet(w)
  BY <1>1, QuietRoles
<1>2. CASE ~Quiet(w) /\ UnmountLookup(w)
  <2> DEFINE s == mounted[Top(w).id]
  <2>1. /\ Moves(w, "lookup", "unmounting") /\ Top(w)'.scope = s /\ Begins(w, s)
        /\ UNCHANGED <<made, closed>>
    BY <1>2, LookupEffect DEF Grounds
  <2>2. \A v \in Workers : v = w
    BY <2>1, Single DEF Moves
  <2> HIDE DEF s
  <2>3. CloserOk(w)' /\ ~Mounting(w)'
    BY <2>1 DEF Moves, Begins, CloserOk, Closer, Mounting, MountingAt, ClosingAt, Target
  <2> QED BY <2>1, <2>2, <2>3, SingleRoles DEF Roles, Unmade
<1>3. CASE UnmountFails(w) \/ UnmountRemove(w)
  <2>1. /\ Pops(w, "unmounting") /\ closing'[w] = NoClose /\ UNCHANGED <<made, closed>>
    BY <1>3, UnmountEndEffect DEF Grounds
  <2>2. \A v \in Workers : v = w
    BY <2>1, Single DEF Pops
  <2>3. CloserOk(w)' /\ ~Mounting(w)'
    BY <2>1, NoCloseFields DEF Pops, CloserOk, Closer, Mounting, MountingAt
  <2> QED BY <2>1, <2>2, <2>3, SingleRoles DEF Roles, Unmade
<1> QED BY <1>1, <1>2, <1>3, UnmountDependentsQuiet DEF UnmountStep, Grounds

(* closeMounted keeps the roles.                                           *)
LEMMA ShutRoles ==
  ASSUME Grounds, Roles, NEW w \in Workers, ShutStep(w)
  PROVE  Roles'
<1>1. CASE CloseNext(w)
  <2> DEFINE s == Head(Top(w).list).scope
  <2>1. /\ Moves(w, "next", "shutting") /\ Top(w)'.list = Top(w).list /\ Begins(w, s)
        /\ UNCHANGED <<made, closed>>
    BY <1>1, CloseNextEffect DEF Grounds
  <2>2. \A v \in Workers : v = w
    BY <2>1, Single DEF Moves
  <2>3. Target(Top(w))' = s
    BY <2>1 DEF Moves, Target
  <2> HIDE DEF s
  <2>4. CloserOk(w)' /\ ~Mounting(w)'
    BY <2>1, <2>3 DEF Moves, Begins, CloserOk, Closer, Mounting, MountingAt, ClosingAt
  <2> QED BY <2>1, <2>2, <2>4, SingleRoles DEF Roles, Unmade
<1>2. CASE CloseNoted(w)
  <2>1. Moves(w, "shutting", "next") /\ closing'[w] = NoClose /\ UNCHANGED <<made, closed>>
    BY <1>2, CloseNotedEffect DEF Grounds
  <2>2. \A v \in Workers : v = w
    BY <2>1, Single DEF Moves
  <2>3. CloserOk(w)' /\ ~Mounting(w)'
    BY <2>1, NoCloseFields DEF Moves, CloserOk, Closer, Mounting, MountingAt
  <2> QED BY <2>1, <2>2, <2>3, SingleRoles DEF Roles, Unmade
<1>3. CASE CloseRemove(w)
  <2>1. Pops(w, "next") /\ closing' = closing /\ UNCHANGED <<made, closed>>
    BY <1>3, CloseRemoveEffect DEF Grounds
  <2>2. \A v \in Workers : v = w
    BY <2>1, Single DEF Pops
  <2>3. closing[w].at = "none"
    BY <2>1, NoCloser DEF Pops, ClosingAt
  <2>4. CloserOk(w)' /\ ~Mounting(w)'
    BY <2>1, <2>3 DEF Pops, CloserOk, Closer, Mounting, MountingAt
  <2> QED BY <2>1, <2>2, <2>4, SingleRoles DEF Roles, Unmade
<1> QED BY <1>1, <1>2, <1>3 DEF ShutStep

(* scope.Close leaves the calls alone, and works at one scope.             *)
LEMMA ScopeStepAlone ==
  ASSUME Grounds, Roles, NEW w \in Workers, ScopeStep(w)
  PROVE  LET s == closing[w].scope
         IN  /\ UNCHANGED <<mounted, made, stack>> /\ Others(w)
             /\ Closer(w) /\ s \in Scopes /\ s <= made
             /\ Mounting(w) => Top(w).at = "rollback"
             /\ \A v \in Workers \ {w} : /\ Mounting(v) => Top(v).scope # s
                                         /\ Closer(v) => closing[v].scope # s
<1>1. UNCHANGED <<mounted, made, stack>>
  BY DEF ScopeStep, CloseTake, CloseCleanup, CloseKeepFailed, kit
<1>2. /\ closing[w].at \in {"begin", "run"}
      /\ \A v \in Workers \ {w} : closing'[v] = closing[v]
  BY CloseTakes, CloseCleans, CloseKeeps DEF ScopeStep, Grounds
<1>3. Closer(w) /\ closing[w].scope \in Scopes /\ closing[w].scope <= made
  BY <1>2, ClosingOf, Parts DEF Closer, Grounds, ClosingSound
<1>4. Mounting(w) => Top(w).at = "rollback"
  BY <1>3 DEF Roles, CloserOk, Mounting, MountingAt, ClosingAt
<1>5. ASSUME NEW v \in Workers \ {w}
      PROVE  /\ Mounting(v) => Top(v).scope # closing[w].scope
             /\ Closer(v) => closing[v].scope # closing[w].scope
  <2>1. Closer(v) \/ Mounting(v) =>
          /\ Top(v).scope # Top(w).scope /\ closing[w].scope = Top(w).scope
          /\ Closer(v) => closing[v].scope = Top(v).scope
    BY <1>3, Apart
  <2> QED BY <2>1
<1> QED BY <1>1, <1>2, <1>3, <1>4, <1>5 DEF Others

(* The steps of scope.Close keep the roles.                                *)
LEMMA ScopeStepRoles ==
  ASSUME Grounds, Roles, NEW w \in Workers, ScopeStep(w)
  PROVE  Roles'
<1> DEFINE s == closing[w].scope
<1>1. /\ UNCHANGED <<mounted, made, stack>> /\ Others(w)
      /\ Closer(w) /\ s \in Scopes /\ s <= made
      /\ Mounting(w) => Top(w).at = "rollback"
      /\ \A v \in Workers \ {w} : /\ Mounting(v) => Top(v).scope # s
                                  /\ Closer(v) => closing[v].scope # s
  BY ScopeStepAlone
<1>2. closed \in [Scopes -> BOOLEAN] /\ cleanups \in [Scopes -> Seq(1 .. Items)]
  BY Parts DEF Grounds, ScopeSound
<1>3. /\ \A r \in Scopes \ {s} : closed'[r] = closed[r] /\ cleanups'[r] = cleanups[r]
      /\ closing'[w].scope = s
      /\ closing'[w].at = "begin" => closing'[w].failed = <<>>
      /\ \/ closing'[w].at = "run"
         \/ closing'[w].at = "done" /\ closing'[w].failed = <<>>
         => cleanups'[s] = <<>>
  <2>1. CASE CloseTake(w)
    <3>1. closing[w].failed = <<>>
      BY <2>1, CloseTakes DEF Grounds, Roles, CloserOk
    <3>2. \/ closed[s] /\ cleanups[s] = <<>> /\ UNCHANGED scope /\ closing'[w].at = "done"
          \/ /\ closing'[w].at = "run"
             /\ closed' = [closed EXCEPT ![s] = TRUE]
             /\ cleanups' = [cleanups EXCEPT ![s] = <<>>]
      BY <2>1, CloseTakes DEF Grounds
    <3>3. closing'[w].scope = s /\ closing'[w].failed = closing[w].failed
      BY <2>1, CloseTakes DEF Grounds
    <3> HIDE DEF s
    <3> QED BY <3>1, <3>2, <3>3, <1>1, <1>2 DEF scope
  <2>2. CASE CloseCleanup(w)
    <3>1. /\ UNCHANGED <<closed, cleanups>> /\ closing[w].at = "run"
          /\ closing'[w].at = "run" /\ closing'[w].scope = s
      BY <2>2, CloseCleans DEF Grounds, CloseCleanup
    <3>2. cleanups[s] = <<>>
      BY <3>1 DEF Roles, CloserOk
    <3> QED BY <3>1, <3>2
  <2>3. CASE CloseKeepFailed(w)
    <3>1. /\ UNCHANGED closed /\ closing[w].at = "run"
          /\ closing'[w].at = "done" /\ closing'[w].scope = s
          /\ closing'[w].failed = closing[w].failed
          /\ cleanups' = [cleanups EXCEPT ![s] = @ \o closing[w].failed]
      BY <2>3, CloseKeeps DEF Grounds, CloseKeepFailed
    <3>2. cleanups[s] = <<>>
      BY <3>1 DEF Roles, CloserOk
    <3>3. closing[w].failed = <<>> => cleanups[s] \o closing[w].failed = <<>>
      BY <3>2
    <3> HIDE DEF s
    <3> QED BY <3>1, <3>3, <1>1, <1>2
  <2> QED BY <2>1, <2>2, <2>3 DEF ScopeStep
<1>4. \A v \in Workers \ {w} : CloserOk(v)' /\ MounterOk(v)'
  <2> TAKE v \in Workers \ {w}
  <2>1. Mounting(v) => Top(v).scope \in Scopes
    <3> HAVE Mounting(v)
    <3>1. Top(v) \in AnyFrame /\ Sound(Top(v), made) /\ Top(v).at \in MountingAt
      BY TopSound, Parts DEF Grounds, Mounting
    <3>2. made <= MaxScopes /\ made \in Nat /\ MaxScopes \in Nat
      BY Parts, MadeNat DEF Grounds, KitSound
    <3> QED BY <3>1, <3>2 DEF Sound, AnyFrame, Scopes
  <2>2. Closer(v) => closing[v].scope \in Scopes
    BY ClosingOf, Parts DEF Closer, Grounds
  <2> HIDE DEF s
  <2> QED BY <2>1, <2>2, <1>1, <1>3, OtherRole
<1>5. CloserOk(w)' /\ MounterOk(w)'
  <2>1. /\ stack[w] # <<>> /\ Top(w).at \in ClosingAt /\ s = Target(Top(w))
        /\ Top(w)' = Top(w)
    BY <1>1 DEF Roles, CloserOk, Top
  <2>2. CloserOk(w)'
    BY <2>1, <1>1, <1>3 DEF CloserOk, Target
  <2>3. MounterOk(w)'
    BY <2>1, <1>1 DEF Roles, MounterOk, Mounting
  <2> QED BY <2>2, <2>3
<1>6. ScopeOnce'
  BY <1>1, OnceKept DEF Mounting, Top
<1>7. Unmade'
  <2>1. \A r \in Scopes : r > made => r # s
    BY <1>1, Parts DEF Grounds, Scopes
  <2> HIDE DEF s
  <2> QED BY <2>1, <1>1, <1>3 DEF Roles, Unmade
<1> QED BY <1>4, <1>5, <1>6, <1>7 DEF Roles

(* The roles at first.                                                     *)
LEMMA InitRoles == Init => Roles
<1> SUFFICES ASSUME Init PROVE Roles
  OBVIOUS
<1>1. \A w \in Workers : closing[w].at = "none" /\ ~Mounting(w)
  BY NoCloseFields DEF Init, Mounting, NoClose
<1> QED BY <1>1 DEF Init, Roles, CloserOk, MounterOk, Closer, ScopeOnce, Unmade

(* Every step keeps the roles.                                             *)
LEMMA NextRoles ==
  ASSUME Grounds, Roles, [Next]_vars
  PROVE  Roles'
<1>1. CASE UNCHANGED vars
  BY <1>1 DEF vars, kit, scope, Roles, CloserOk, MounterOk, ScopeOnce, Unmade, Closer,
     Mounting, Target, Top
<1>2. ASSUME NEW w \in Workers, NEW id \in Modules, MountCall(w, id) \/ UnmountCall(w, id)
      PROVE  Roles'
  BY <1>2, CallQuiet, QuietRoles DEF Grounds
<1>3. ASSUME NEW w \in Workers, CloseCall(w) PROVE Roles'
  BY <1>3, CloseCallQuiet, QuietRoles DEF Grounds
<1>4. ASSUME NEW w \in Workers, MountStep(w) PROVE Roles'
  <2>1. CASE MountFails(w)
    <3>1. /\ Moves(w, "register", "rollback") /\ Others(w)
          /\ Top(w)'.scope = Top(w).scope /\ Begins(w, Top(w).scope)
          /\ UNCHANGED <<mounted, made, closed, cleanups>>
      BY <2>1, RollBackEffect DEF MountFails, Grounds, kit, scope
    <3> QED BY <3>1, BackRoles
  <2> QED BY <1>4, <2>1, MountCheckQuiet, ReserveRoles, MountDepQuiet, MountDepReturnedQuiet,
             RegisterRoles, DeferRoles, ForgetRoles, MountCommitQuiet, QuietRoles
          DEF MountStep, Grounds
<1> QED BY <1>1, <1>2, <1>3, <1>4, ScopeStepRoles, UnmountRoles, ShutRoles DEF Next
-----------------------------------------------------------------------------
(* Where the cleanup of a registered resource is: noted in its scope, with *)
(* a worker that closes the scope, or about to be deferred.                *)
Noted(h) == \E i \in DOMAIN cleanups[h.scope] : cleanups[h.scope][i] = h.item

InClose(h, w) ==
  /\ closing[w].at = "run" /\ closing[w].scope = h.scope
  /\ \/ \E i \in DOMAIN closing[w].todo : closing[w].todo[i] = h.item
     \/ \E i \in DOMAIN closing[w].failed : closing[w].failed[i] = h.item

InDefer(h, w) == At(w, "defer") /\ Top(w).scope = h.scope /\ Top(w).item = h.item

Kept(h) == Noted(h) \/ \E w \in Workers : InClose(h, w) \/ InDefer(h, w)

Accounted == \A h \in held : Kept(h)

(* The modules closeMounted has noted hold no resource.                    *)
GoneReleased ==
  \A w \in Workers : stack[w] # <<>> =>
    \A e \in Top(w).gone : \A h \in held : h.scope # e.scope

Clean == Accounted /\ GoneReleased
-----------------------------------------------------------------------------
(* What a registered resource is made of.                                  *)
LEMMA HeldOf ==
  ASSUME Grounds, NEW h \in held
  PROVE  h.id \in Modules /\ h.item \in 1 .. Items /\ h.scope \in Scopes /\ h.scope <= made
<1>1. h \in [id : Modules, item : 1 .. Items, scope : 1 .. made]
  BY Parts DEF Grounds, ScopeSound
<1>2. made <= MaxScopes /\ made \in Nat /\ MaxScopes \in Nat
  BY Parts, MadeNat DEF Grounds, KitSound
<1> QED BY <1>1, <1>2 DEF Scopes

(* A step of w keeps the cleanup of h when it keeps one that is noted or   *)
(* with w.                                                                 *)
LEMMA KeptStep ==
  ASSUME NEW w \in Workers, Others(w), NEW h, Kept(h),
         Noted(h) \/ InClose(h, w) \/ InDefer(h, w) => Kept(h)'
  PROVE  Kept(h)'
<1>1. ASSUME NEW v \in Workers \ {w}, InClose(h, v) \/ InDefer(h, v)
      PROVE  Kept(h)'
  <2>1. stack'[v] = stack[v] /\ closing'[v] = closing[v] /\ Top(v)' = Top(v)
    BY DEF Others, Top
  <2>2. InClose(h, v)' \/ InDefer(h, v)'
    BY <1>1, <2>1 DEF InClose, InDefer, At
  <2> QED BY <2>2 DEF Kept
<1> QED BY <1>1 DEF Kept

(* A step of a worker that neither closes nor defers.                      *)
LEMMA PlainKept ==
  ASSUME Accounted, NEW w \in Workers, Others(w), cleanups' = cleanups,
         closing[w].at # "run", ~At(w, "defer"), NEW h \in held
  PROVE  Kept(h)'
<1>1. ~InClose(h, w) /\ ~InDefer(h, w)
  BY DEF InClose, InDefer
<1>2. Noted(h) => Kept(h)'
  BY DEF Noted, Kept
<1> QED BY <1>1, <1>2, KeptStep DEF Accounted

(* A step that notes and registers nothing.                                *)
LEMMA GoneKept ==
  ASSUME GoneReleased, NEW w \in Workers, Others(w), held' \subseteq held,
         stack'[w] # <<>> => \/ Top(w)'.gone = {}
                             \/ stack[w] # <<>> /\ Top(w)'.gone = Top(w).gone
  PROVE  GoneReleased'
<1>1. \A v \in Workers \ {w} : stack'[v] = stack[v] /\ Top(v)' = Top(v)
  BY DEF Others, Top
<1> QED BY <1>1 DEF GoneReleased

(* A step that registers nothing of a worker that neither closes nor       *)
(* defers.                                                                 *)
LEMMA PlainClean ==
  ASSUME Clean, NEW w \in Workers, Others(w), UNCHANGED <<cleanups, held>>,
         closing[w].at # "run", ~At(w, "defer"),
         stack'[w] # <<>> => \/ Top(w)'.gone = {}
                             \/ stack[w] # <<>> /\ Top(w)'.gone = Top(w).gone
  PROVE  Clean'
<1>1. Accounted'
  BY PlainKept DEF Clean, Accounted
<1> QED BY <1>1, GoneKept DEF Clean

(* A step at no scope.                                                     *)
LEMMA QuietClean ==
  ASSUME Roles, Clean, NEW w \in Workers, Quiet(w)
  PROVE  Clean'
<1>1. closing[w].at = "none"
  BY NoCloser DEF Quiet
<1> QED BY <1>1, PlainClean DEF Quiet, Others, At

(* A scope whose Close has returned nil holds no resource any more.        *)
LEMMA Released ==
  ASSUME Grounds, Roles, Accounted, NEW w \in Workers,
         closing[w].at = "done", closing[w].failed = <<>>
  PROVE  \A h \in held : h.scope # closing[w].scope
<1> SUFFICES ASSUME NEW h \in held, h.scope = closing[w].scope PROVE FALSE
  OBVIOUS
<1>1. Closer(w) /\ cleanups[h.scope] = <<>> /\ Top(w).at \in ClosingAt
  BY DEF Closer, Roles, CloserOk
<1>2. ~Noted(h)
  <2>1. DOMAIN <<>> = {}
    OBVIOUS
  <2> QED BY <1>1, <2>1 DEF Noted
<1>3. ASSUME NEW v \in Workers, InClose(h, v) \/ InDefer(h, v) PROVE FALSE
  <2>1. v # w
    BY <1>1, <1>3 DEF InClose, InDefer, At, ClosingAt
  <2>2. \/ Closer(v) /\ closing[v].scope = h.scope
        \/ Mounting(v) /\ Top(v).scope = h.scope
    BY <1>3 DEF InClose, InDefer, At, Closer, Mounting, MountingAt
  <2> QED BY <1>1, <2>1, <2>2, Apart
<1> QED BY <1>2, <1>3 DEF Accounted, Kept

(* Mount begins to roll back.                                              *)
LEMMA BackClean ==
  ASSUME Roles, Clean, NEW w \in Workers, Moves(w, "register", "rollback"), Others(w),
         Top(w)'.gone = {}, UNCHANGED <<cleanups, held>>
  PROVE  Clean'
<1>1. closing[w].at = "none" /\ ~At(w, "defer")
  BY NoCloser DEF Moves, ClosingAt, At
<1> QED BY <1>1, PlainClean

(* Mount keeps account of what it registers.                               *)
LEMMA MountClean ==
  ASSUME Grounds, Roles, Clean, NEW w \in Workers, MountStep(w)
  PROVE  Clean'
<1>1. CASE Quiet(w)
  BY <1>1, QuietClean
<1>2. CASE ~Quiet(w) /\ MountReserve(w)
  <2>1. /\ Moves(w, "deps", "register") /\ Others(w) /\ Top(w)'.gone = {}
        /\ UNCHANGED <<cleanups, held>>
    BY <1>2, ReserveEffect DEF Grounds
  <2>2. closing[w].at = "none" /\ ~At(w, "defer")
    BY <2>1, NoCloser DEF Moves, ClosingAt, At
  <2> QED BY <2>1, <2>2, PlainClean
<1>3. CASE MountRegister(w)
  <2> PICK h : h = [id |-> Top(w).id, item |-> Top(w).item, scope |-> Top(w).scope]
    OBVIOUS
  <2>1. /\ UNCHANGED cleanups /\ Others(w) /\ Top(w)'.scope = Top(w).scope /\ Top(w)'.gone = {}
        /\ \/ Moves(w, "register", "rollback") /\ held' = held
           \/ /\ Moves(w, "register", "defer") /\ held' = held \cup {h}
              /\ Top(w)'.item = Top(w).item
    BY <1>3, RegisterEffect DEF Grounds
  <2>2. CASE Moves(w, "register", "rollback") /\ held' = held
    BY <2>1, <2>2, BackClean
  <2>3. CASE /\ Moves(w, "register", "defer") /\ held' = held \cup {h}
             /\ Top(w)'.item = Top(w).item
    <3>1. closing[w].at = "none" /\ ~At(w, "defer")
      BY <2>3, NoCloser DEF Moves, ClosingAt, At
    <3>2. \A k \in held : Kept(k)'
      BY <2>1, <3>1, PlainKept DEF Clean
    <3>3. InDefer(h, w)'
      BY <2>1, <2>3 DEF InDefer, At, Moves
    <3>4. Accounted'
      <4>1. Kept(h)'
        BY <3>3 DEF Kept
      <4> QED BY <2>3, <3>2, <4>1 DEF Accounted
    <3>5. \A v \in Workers \ {w} : stack[v] # <<>> => Top(v).gone = {}
      <4> TAKE v \in Workers \ {w}
      <4> HAVE stack[v] # <<>>
      <4>1. Top(v).at \in MountAt
        BY Company
      <4> QED BY <4>1, TopSound, Parts DEF Grounds, Sound, MountAt
    <3>6. GoneReleased'
      <4>1. \A v \in Workers \ {w} : stack'[v] = stack[v] /\ Top(v)' = Top(v)
        BY <2>1 DEF Others, Top
      <4> QED BY <3>5, <4>1, <2>1 DEF GoneReleased
    <3> QED BY <3>4, <3>6 DEF Clean
  <2> QED BY <2>1, <2>2, <2>3
<1>4. CASE MountDefer(w)
  <2> DEFINE s == Top(w).scope
             item == Top(w).item
  <2>1. /\ Moves(w, "defer", "register") /\ Others(w) /\ Top(w)'.gone = {}
        /\ s \in Scopes /\ item \in 1 .. Items /\ cleanups[s] \in Seq(1 .. Items)
        /\ UNCHANGED held
        /\ cleanups' = IF closed[s] THEN cleanups
                       ELSE [cleanups EXCEPT ![s] = Append(@, item)]
    BY <1>4, DeferEffect DEF Grounds
  <2>2. ~closed[s] /\ closing[w].at = "none"
    BY <2>1, NoCloser DEF Moves, ClosingAt, Roles, MounterOk, Mounting, MountingAt
  <2>3. cleanups \in [Scopes -> Seq(1 .. Items)]
    BY Parts DEF Grounds, ScopeSound
  <2>4. /\ DOMAIN cleanups[s] = 1 .. Len(cleanups[s]) /\ Len(cleanups[s]) \in Nat
        /\ cleanups'[s] = Append(cleanups[s], item)
        /\ \A r \in Scopes \ {s} : cleanups'[r] = cleanups[r]
    <3> HIDE DEF s, item
    <3> QED BY <2>1, <2>2, <2>3, LenProperties
  <2>5. /\ DOMAIN cleanups'[s] = 1 .. Len(cleanups[s]) + 1
        /\ \A i \in 1 .. Len(cleanups[s]) : cleanups'[s][i] = cleanups[s][i]
        /\ cleanups'[s][Len(cleanups[s]) + 1] = item
    <3> HIDE DEF s, item
    <3> QED BY <2>1, <2>4, AppendProperties, LenProperties
  <2>6. ASSUME NEW h \in held, Noted(h) PROVE Noted(h)'
    <3> HIDE DEF s, item
    <3>1. CASE h.scope = s
      BY <3>1, <2>6, <2>4, <2>5 DEF Noted
    <3>2. CASE h.scope # s
      BY <3>2, <2>6, <2>4, HeldOf DEF Noted
    <3> QED BY <3>1, <3>2
  <2>7. ASSUME NEW h \in held, InDefer(h, w) PROVE Noted(h)'
    <3>1. h.scope = s /\ h.item = item
      BY <2>7 DEF InDefer
    <3>2. Len(cleanups[s]) + 1 \in 1 .. Len(cleanups[s]) + 1
      BY <2>4
    <3> HIDE DEF s, item
    <3> QED BY <3>1, <3>2, <2>5 DEF Noted
  <2>8. Accounted'
    <3>1. ASSUME NEW h \in held PROVE Kept(h)'
      <4>1. ~InClose(h, w)
        BY <2>2 DEF InClose
      <4> QED BY <4>1, <2>1, <2>6, <2>7, KeptStep DEF Clean, Accounted, Kept
    <3> QED BY <3>1, <2>1 DEF Accounted
  <2> QED BY <2>1, <2>8, GoneKept DEF Clean
<1>5. CASE MountFails(w)
  <2>1. Moves(w, "register", "rollback") /\ Others(w) /\ Top(w)'.gone = {}
        /\ UNCHANGED <<cleanups, held>>
    BY <1>5, RollBackEffect DEF MountFails, Grounds, scope
  <2> QED BY <2>1, BackClean
<1>6. CASE MountForget(w)
  <2>1. /\ Pops(w, "rollback") /\ Others(w) /\ closing[w].at = "done"
        /\ UNCHANGED <<cleanups, held>>
    BY <1>6, ForgetEffect DEF Grounds
  <2> QED BY <2>1, PlainClean DEF Pops, At
<1> QED BY <1>1, <1>2, <1>3, <1>4, <1>5, <1>6, MountCheckQuiet, MountDepQuiet,
           MountDepReturnedQuiet, MountCommitQuiet DEF MountStep, Grounds

(* Unmount keeps account of the resources.                                 *)
LEMMA UnmountClean ==
  ASSUME Grounds, Roles, Clean, NEW w \in Workers, UnmountStep(w)
  PROVE  Clean'
<1>1. CASE Quiet(w)
  BY <1>1, QuietClean
<1>2. CASE ~Quiet(w) /\ UnmountLookup(w)
  <2>1. /\ Moves(w, "lookup", "unmounting") /\ Others(w) /\ Top(w)'.gone = {}
        /\ UNCHANGED <<cleanups, held>>
    BY <1>2, LookupEffect DEF Grounds
  <2>2. closing[w].at = "none" /\ ~At(w, "defer")
    BY <2>1, NoCloser DEF Moves, ClosingAt, At
  <2> QED BY <2>1, <2>2, PlainClean
<1>3. CASE UnmountFails(w) \/ UnmountRemove(w)
  <2>1. /\ Pops(w, "unmounting") /\ Others(w) /\ closing[w].at = "done"
        /\ UNCHANGED <<cleanups, held>>
    BY <1>3, UnmountEndEffect DEF Grounds
  <2> QED BY <2>1, PlainClean DEF Pops, At
<1> QED BY <1>1, <1>2, <1>3, UnmountDependentsQuiet DEF UnmountStep, Grounds

(* closeMounted notes a module when its scope holds nothing.               *)
LEMMA ShutClean ==
  ASSUME Grounds, Roles, Clean, NEW w \in Workers, ShutStep(w)
  PROVE  Clean'
<1>1. CASE CloseNext(w)
  <2>1. /\ Moves(w, "next", "shutting") /\ Others(w) /\ Top(w)'.gone = Top(w).gone
        /\ UNCHANGED <<cleanups, held>>
    BY <1>1, CloseNextEffect DEF Grounds
  <2>2. closing[w].at = "none" /\ ~At(w, "defer") /\ stack[w] # <<>>
    BY <2>1, NoCloser DEF Moves, ClosingAt, At
  <2> QED BY <2>1, <2>2, PlainClean
<1>2. CASE CloseNoted(w)
  <2>1. /\ Moves(w, "shutting", "next") /\ Others(w) /\ closing[w].at = "done"
        /\ UNCHANGED <<cleanups, held>>
        /\ \/ Top(w)'.gone = Top(w).gone
           \/ /\ closing[w].failed = <<>>
              /\ Top(w)'.gone = Top(w).gone \cup {Head(Top(w).list)}
    BY <1>2, CloseNotedEffect DEF Grounds
  <2>2. ~At(w, "defer") /\ stack[w] # <<>>
    BY <2>1 DEF Moves, At
  <2>3. CASE Top(w)'.gone = Top(w).gone
    BY <2>1, <2>2, <2>3, PlainClean
  <2>4. CASE /\ closing[w].failed = <<>>
             /\ Top(w)'.gone = Top(w).gone \cup {Head(Top(w).list)}
    <3>1. Accounted'
      BY <2>1, <2>2, PlainKept DEF Clean, Accounted
    <3>2. closing[w].scope = Head(Top(w).list).scope
      BY <2>1 DEF Moves, Roles, CloserOk, Closer, Target
    <3>3. \A h \in held : h.scope # Head(Top(w).list).scope
      BY <2>1, <2>4, <3>2, Released DEF Clean
    <3>4. \A v \in Workers \ {w} : stack'[v] = stack[v] /\ Top(v)' = Top(v)
      BY <2>1 DEF Others, Top
    <3>5. \A e \in Top(w)'.gone : \A h \in held : h.scope # e.scope
      BY <2>2, <2>4, <3>3 DEF Clean, GoneReleased
    <3> QED BY <2>1, <3>1, <3>4, <3>5 DEF Clean, GoneReleased
  <2> QED BY <2>1, <2>3, <2>4
<1>3. CASE CloseRemove(w)
  <2>1. Pops(w, "next") /\ Others(w) /\ UNCHANGED <<cleanups, held, closing>>
    BY <1>3, CloseRemoveEffect DEF Grounds
  <2>2. closing[w].at = "none" /\ ~At(w, "defer")
    BY <2>1, NoCloser DEF Pops, ClosingAt, At
  <2> QED BY <2>1, <2>2, PlainClean DEF Pops
<1> QED BY <1>1, <1>2, <1>3 DEF ShutStep

(* scope.Close keeps account of the cleanups it takes, runs and puts back. *)
LEMMA ScopeStepClean ==
  ASSUME Grounds, Roles, Clean, NEW w \in Workers, ScopeStep(w)
  PROVE  Clean'
<1> DEFINE s == closing[w].scope
<1>1. UNCHANGED stack /\ Others(w) /\ Closer(w) /\ s \in Scopes
  BY ScopeStepAlone
<1>2. ~At(w, "defer")
  BY <1>1 DEF Roles, CloserOk, At, ClosingAt
<1>3. cleanups \in [Scopes -> Seq(1 .. Items)]
  BY Parts DEF Grounds, ScopeSound
<1>4. held' \subseteq held /\ Accounted'
  <2>1. CASE CloseTake(w)
    <3>1. held' = held /\ closing[w].at = "begin"
      BY <2>1, CloseTakes DEF Grounds, scope
    <3>2. ASSUME NEW h \in held, Noted(h) PROVE Kept(h)'
      <4>1. CASE cleanups' = cleanups
        BY <3>2, <4>1 DEF Noted, Kept
      <4>2. CASE cleanups' # cleanups
        <5>1. /\ closing'[w].at = "run" /\ closing'[w].todo = cleanups[s]
              /\ closing'[w].scope = s
              /\ cleanups' = [cleanups EXCEPT ![s] = <<>>]
          BY <2>1, <4>2, CloseTakes DEF Grounds, scope
        <5>2. CASE h.scope = s
          <6>1. InClose(h, w)'
            BY <5>1, <5>2, <3>2 DEF InClose, Noted
          <6> QED BY <6>1 DEF Kept
        <5>3. CASE h.scope # s
          <6> HIDE DEF s
          <6>1. cleanups'[h.scope] = cleanups[h.scope]
            BY <5>1, <5>3, <1>3, HeldOf
          <6> QED BY <6>1, <3>2 DEF Noted, Kept
        <5> QED BY <5>2, <5>3
      <4> QED BY <4>1, <4>2
    <3>3. \A h \in held : ~InClose(h, w) /\ ~InDefer(h, w)
      BY <3>1, <1>2 DEF InClose, InDefer
    <3> QED BY <3>1, <3>2, <3>3, <1>1, KeptStep DEF Clean, Accounted
  <2>2. CASE CloseCleanup(w)
    <3> DEFINE n == Len(closing[w].todo)
               item == closing[w].todo[n]
    <3>1. /\ n \in Nat \ {0} /\ item \in 1 .. Items
          /\ closing'[w].scope = s /\ closing'[w].at = "run"
          /\ closing'[w].todo \in Seq(1 .. Items) /\ Len(closing'[w].todo) = n - 1
          /\ \A i \in 1 .. n - 1 : closing'[w].todo[i] = closing[w].todo[i]
          /\ \/ /\ held' = {h \in held : h.scope # s \/ h.item # item}
                /\ closing'[w].failed = closing[w].failed
             \/ /\ held' = held
                /\ closing'[w].failed = <<item>> \o closing[w].failed
      BY <2>2, CloseCleans DEF Grounds
    <3>2. UNCHANGED cleanups
      BY <2>2 DEF CloseCleanup
    <3>3. /\ closing[w].todo \in Seq(1 .. Items) /\ closing[w].failed \in Seq(1 .. Items)
          /\ DOMAIN closing[w].todo = 1 .. n /\ DOMAIN closing'[w].todo = 1 .. n - 1
      BY <3>1, ClosingOf, LenProperties, Parts DEF Grounds
    <3> HIDE DEF n, item, s
    <3>4. \A i \in 1 .. n : i = n \/ i \in 1 .. n - 1
      BY <3>1
    <3>5. ASSUME NEW h \in held', NEW i \in DOMAIN closing[w].todo,
                 closing[w].todo[i] = h.item, h.scope = s
          PROVE  InClose(h, w)'
      <4>1. CASE i \in 1 .. n - 1
        BY <4>1, <3>1, <3>3, <3>5 DEF InClose
      <4>2. CASE i = n
        <5>1. h.item = item
          BY <4>2, <3>5 DEF item
        <5>2. closing'[w].failed = <<item>> \o closing[w].failed
          BY <5>1, <3>1, <3>5
        <5>3. 1 \in DOMAIN closing'[w].failed /\ closing'[w].failed[1] = item
          <6>1. <<item>> \in Seq(1 .. Items) /\ Len(<<item>>) = 1 /\ <<item>>[1] = item
            BY <3>1
          <6> DEFINE one == <<item>>
          <6> HIDE DEF one
          <6>2. /\ Len(closing'[w].failed) = 1 + Len(closing[w].failed)
                /\ closing'[w].failed \in Seq(1 .. Items)
                /\ \A k \in 1 .. Len(closing'[w].failed) : closing'[w].failed[k] =
                     IF k <= Len(one) THEN one[k] ELSE closing[w].failed[k - Len(one)]
            BY <5>2, <6>1, <3>3, ConcatProperties DEF one
          <6>3. 1 \in 1 .. Len(closing'[w].failed) /\ Len(closing[w].failed) \in Nat
            BY <6>2, <3>3, LenProperties
          <6> QED BY <6>1, <6>2, <6>3, LenProperties DEF one
        <5> QED BY <5>1, <5>3, <3>1, <3>5 DEF InClose
      <4> QED BY <4>1, <4>2, <3>3, <3>4, <3>5
    <3>6. ASSUME NEW h \in held', NEW i \in DOMAIN closing[w].failed,
                 closing[w].failed[i] = h.item, h.scope = s
          PROVE  InClose(h, w)'
      <4>1. CASE closing'[w].failed = closing[w].failed
        BY <4>1, <3>1, <3>6 DEF InClose
      <4>2. CASE closing'[w].failed = <<item>> \o closing[w].failed
        <5> DEFINE one == <<item>>
                   old == closing[w].failed
        <5>1. one \in Seq(1 .. Items) /\ Len(one) = 1
          BY <3>1
        <5> HIDE DEF one
        <5>2. /\ Len(closing'[w].failed) = 1 + Len(old)
              /\ closing'[w].failed \in Seq(1 .. Items)
              /\ \A k \in 1 .. Len(one) + Len(old) : closing'[w].failed[k] =
                   IF k <= Len(one) THEN one[k] ELSE old[k - Len(one)]
          BY <4>2, <5>1, <3>3, ConcatProperties DEF one
        <5>3. /\ DOMAIN old = 1 .. Len(old) /\ Len(old) \in Nat
              /\ DOMAIN closing'[w].failed = 1 .. Len(closing'[w].failed)
          BY <3>3, <5>2, LenProperties
        <5>4. i \in 1 .. Len(old)
          BY <3>6, <5>3
        <5> HIDE DEF old
        <5>5. i + 1 \in 1 .. 1 + Len(old) /\ ~(i + 1 <= 1) /\ i + 1 - 1 = i
          BY <5>3, <5>4
        <5>6. i + 1 \in DOMAIN closing'[w].failed /\ closing'[w].failed[i + 1] = h.item
          BY <5>1, <5>2, <5>3, <5>5, <3>6 DEF old
        <5> QED BY <5>6, <3>1, <3>6 DEF InClose
      <4> QED BY <4>1, <4>2, <3>1
    <3>7. ASSUME NEW h \in held' PROVE Kept(h)'
      <4>1. h \in held /\ (Noted(h) => Kept(h)')
        BY <3>1, <3>2, <3>7 DEF Noted, Kept
      <4>2. InClose(h, w) => Kept(h)'
        BY <3>5, <3>6 DEF InClose, Kept, s
      <4>3. ~InDefer(h, w)
        BY <1>2 DEF InDefer
      <4> QED BY <4>1, <4>2, <4>3, <1>1, KeptStep DEF Clean, Accounted
    <3> QED BY <3>1, <3>7 DEF Accounted
  <2>3. CASE CloseKeepFailed(w)
    <3> DEFINE old == cleanups[s]
               fl == closing[w].failed
    <3>1. /\ held' = held /\ closing[w].todo = <<>>
          /\ cleanups' = [cleanups EXCEPT ![s] = old \o fl]
          /\ old \in Seq(1 .. Items) /\ fl \in Seq(1 .. Items)
      BY <2>3, CloseKeeps DEF Grounds, CloseKeepFailed
    <3> HIDE DEF s, old, fl
    <3>2. /\ cleanups'[s] = old \o fl /\ cleanups[s] = old
          /\ \A r \in Scopes \ {s} : cleanups'[r] = cleanups[r]
      BY <3>1, <1>1, <1>3 DEF old
    <3>3. /\ Len(old) \in Nat /\ Len(fl) \in Nat
          /\ DOMAIN old = 1 .. Len(old) /\ DOMAIN fl = 1 .. Len(fl)
          /\ DOMAIN (old \o fl) = 1 .. Len(old) + Len(fl)
          /\ \A k \in 1 .. Len(old) + Len(fl) :
               (old \o fl)[k] = IF k <= Len(old) THEN old[k] ELSE fl[k - Len(old)]
      BY <3>1, LenProperties, ConcatProperties
    <3>4. /\ \A i \in 1 .. Len(old) : i \in 1 .. Len(old) + Len(fl) /\ i <= Len(old)
          /\ \A i \in 1 .. Len(fl) : /\ Len(old) + i \in 1 .. Len(old) + Len(fl)
                                     /\ ~(Len(old) + i <= Len(old)) /\ Len(old) + i - Len(old) = i
      BY <3>3
    <3>5. ASSUME NEW h \in held, Noted(h) PROVE Noted(h)'
      <4>1. CASE h.scope = s
        BY <4>1, <3>2, <3>3, <3>4, <3>5 DEF Noted
      <4>2. CASE h.scope # s
        BY <4>2, <3>2, <3>5, HeldOf DEF Noted
      <4> QED BY <4>1, <4>2
    <3>6. ASSUME NEW h \in held, InClose(h, w) PROVE Noted(h)'
      <4>1. DOMAIN closing[w].todo = {}
        BY <3>1
      <4>2. h.scope = s /\ \E i \in 1 .. Len(fl) : fl[i] = h.item
        BY <4>1, <3>3, <3>6 DEF InClose, s, fl
      <4> QED BY <4>2, <3>2, <3>3, <3>4 DEF Noted
    <3>7. ASSUME NEW h \in held PROVE Kept(h)'
      <4>1. ~InDefer(h, w)
        BY <1>2 DEF InDefer
      <4> QED BY <4>1, <3>5, <3>6, <1>1, KeptStep DEF Clean, Accounted, Kept
    <3> QED BY <3>1, <3>7 DEF Accounted
  <2> QED BY <2>1, <2>2, <2>3 DEF ScopeStep
<1>5. GoneReleased'
  <2>1. Top(w)' = Top(w) /\ stack'[w] = stack[w]
    BY <1>1 DEF Top
  <2> QED BY <2>1, <1>1, <1>4, GoneKept DEF Clean
<1> QED BY <1>4, <1>5 DEF Clean

(* Nothing is registered at first.                                         *)
LEMMA InitClean == Init => Clean
BY DEF Init, Clean, Accounted, GoneReleased

(* Every step keeps account of the resources.                              *)
LEMMA NextClean ==
  ASSUME Grounds, Roles, Clean, [Next]_vars
  PROVE  Clean'
<1>1. CASE UNCHANGED vars
  BY <1>1 DEF vars, kit, scope, Clean, Accounted, GoneReleased, Kept, Noted, InClose, InDefer,
     At, Top
<1>2. ASSUME NEW w \in Workers, NEW id \in Modules, MountCall(w, id) \/ UnmountCall(w, id)
      PROVE  Clean'
  BY <1>2, CallQuiet, QuietClean DEF Grounds
<1>3. ASSUME NEW w \in Workers, CloseCall(w) PROVE Clean'
  BY <1>3, CloseCallQuiet, QuietClean DEF Grounds
<1> QED BY <1>1, <1>2, <1>3, MountClean, ScopeStepClean, UnmountClean, ShutClean DEF Next
-----------------------------------------------------------------------------
(* A Mount that fails can close what it has registered. *)
Recoverable == ~(MayMountFail /\ MayCleanupFail)

(* What a Mount registers is new. *)
Fresh(w) ==
  Mounting(w) => \A h \in held : h.scope = Top(w).scope =>
    /\ Top(w).at = "register" => h.item < Top(w).item
    /\ Top(w).at = "defer" => h.item <= Top(w).item

(* A resource is of the scope that is mounted under its ID.                *)
HeldMounted == \A h \in held : mounted[h.id] = h.scope

(* What the options of the model rule out.                                 *)
BackOnly == ~MayMountFail => \A w \in Workers : ~At(w, "rollback")
ClosedOnly == ~MayCleanupFail => \A w \in Workers : closing[w].failed = <<>>

Owned == (\A w \in Workers : Fresh(w)) /\ HeldMounted /\ BackOnly /\ ClosedOnly

Whole == Grounds /\ Recoverable /\ Roles /\ Clean
-----------------------------------------------------------------------------
(* A step of w that registers nothing at the scope of v.                   *)
LEMMA FreshKept ==
  ASSUME Owned, NEW w \in Workers, Others(w), NEW v \in Workers \ {w},
         Mounting(v) => \A h \in held' : h \in held \/ h.scope # Top(v).scope
  PROVE  Fresh(v)'
<1>1. stack'[v] = stack[v] /\ Top(v)' = Top(v) /\ (Mounting(v)' <=> Mounting(v))
  BY DEF Others, Top, Mounting
<1> QED BY <1>1 DEF Owned, Fresh

(* A step that registers nothing and after which the worker's call is at   *)
(* no place of Mount's.                                                    *)
LEMMA OwnedElse ==
  ASSUME Owned, NEW w \in Workers, Others(w), held' \subseteq held, HeldMounted',
         ~Mounting(w)', ~MayCleanupFail => closing'[w].failed = <<>>
  PROVE  Owned'
<1>1. \A v \in Workers : Fresh(v)'
  <2>1. Fresh(w)'
    BY DEF Fresh
  <2>2. \A v \in Workers \ {w} : Fresh(v)'
    BY FreshKept
  <2> QED BY <2>1, <2>2
<1>2. ~At(w, "rollback")'
  BY DEF Mounting, MountingAt, At
<1>3. \A v \in Workers \ {w} : (At(v, "rollback")' <=> At(v, "rollback")) /\ closing'[v] = closing[v]
  BY DEF Others, At, Top
<1> QED BY <1>1, <1>2, <1>3 DEF Owned, BackOnly, ClosedOnly

(* A step at no scope.                                                     *)
LEMMA QuietOwned ==
  ASSUME Owned, NEW w \in Workers, Quiet(w)
  PROVE  Owned'
<1>1. Others(w) /\ ~Mounting(w)'
  BY DEF Quiet, Others, Mounting
<1>2. HeldMounted'
  BY DEF Quiet, Owned, HeldMounted
<1> QED BY <1>1, <1>2, OwnedElse DEF Quiet, Owned, ClosedOnly

(* No name is taken: a Mount rolls back when it fails on its own.          *)
LEMMA NameFree ==
  ASSUME Whole, Owned, NEW w \in Workers, At(w, "register")
  PROVE  ~\E h \in held : h.id = Top(w).id /\ h.item = Top(w).item
<1> SUFFICES ASSUME NEW h \in held, h.id = Top(w).id, h.item = Top(w).item PROVE FALSE
  OBVIOUS
<1>1. Mounting(w)
  BY DEF At, Mounting, MountingAt
<1>2. mounted[Top(w).id] = Top(w).scope
  BY <1>1 DEF Whole, Roles, MounterOk
<1>3. h.scope = Top(w).scope
  BY <1>2 DEF Owned, HeldMounted
<1>4. h.item < Top(w).item
  BY <1>1, <1>3 DEF Owned, Fresh, At
<1> QED BY <1>4, HeldOf DEF Whole

(* A Mount registers what is new, and gives its ID up when it has closed   *)
(* all of it.                                                              *)
LEMMA MountOwned ==
  ASSUME Whole, Owned, NEW w \in Workers, MountStep(w)
  PROVE  Owned'
<1>1. CASE Quiet(w)
  BY <1>1, QuietOwned
<1>2. CASE ~Quiet(w) /\ MountReserve(w)
  <2> DEFINE id == Top(w).id
  <2>1. /\ Moves(w, "deps", "register") /\ Others(w)
        /\ Top(w)'.scope = made + 1 /\ id \in Modules /\ mounted[id] = 0
        /\ mounted' = [mounted EXCEPT ![id] = made + 1]
        /\ UNCHANGED <<held, closing>>
    BY <1>2, ReserveEffect DEF Whole, Grounds
  <2>2. \A h \in held : h.id \in Modules /\ h.scope \in Scopes /\ h.scope <= made /\ h.id # id
    BY <2>1, HeldOf DEF Whole, Owned, HeldMounted, Scopes
  <2>3. mounted \in [Modules -> 0 .. made] /\ made \in Nat
    BY Parts DEF Whole, Grounds, KitSound
  <2>4. HeldMounted'
    <3> HIDE DEF id
    <3> QED BY <2>1, <2>2, <2>3 DEF Owned, HeldMounted
  <2>5. \A h \in held : h.scope # Top(w)'.scope
    BY <2>1, <2>2, <2>3 DEF Scopes
  <2>6. \A v \in Workers : Fresh(v)'
    <3>1. Fresh(w)'
      BY <2>1, <2>5 DEF Fresh
    <3>2. \A v \in Workers \ {w} : Fresh(v)'
      BY <2>1, FreshKept
    <3> QED BY <3>1, <3>2
  <2>7. BackOnly' /\ ClosedOnly'
    <3>1. ~At(w, "rollback")'
      BY <2>1 DEF Moves, At
    <3>2. \A v \in Workers \ {w} : At(v, "rollback")' <=> At(v, "rollback")
      BY <2>1 DEF Others, At, Top
    <3> QED BY <2>1, <3>1, <3>2 DEF Owned, BackOnly, ClosedOnly
  <2> QED BY <2>4, <2>6, <2>7 DEF Owned
<1>3. CASE MountRegister(w)
  <2> PICK h : h = [id |-> Top(w).id, item |-> Top(w).item, scope |-> Top(w).scope]
    OBVIOUS
  <2>1. At(w, "register")
    BY <1>3 DEF MountRegister
  <2>2. /\ UNCHANGED mounted /\ Others(w) /\ Top(w)'.scope = Top(w).scope
        /\ Moves(w, "register", "defer") /\ held' = held \cup {h}
        /\ Top(w)'.item = Top(w).item /\ closing' = closing
    BY <1>3, <2>1, NameFree, RegisterEffect DEF Whole, Grounds
  <2>3. Mounting(w) /\ mounted[Top(w).id] = Top(w).scope
    BY <2>1 DEF At, Mounting, MountingAt, Whole, Roles, MounterOk
  <2>4. h.id = Top(w).id /\ h.item = Top(w).item /\ h.scope = Top(w).scope
    OBVIOUS
  <2>5. HeldMounted'
    BY <2>2, <2>3, <2>4 DEF Owned, HeldMounted
  <2>6. \A v \in Workers \ {w} : Fresh(v)'
    <3> TAKE v \in Workers \ {w}
    <3>1. Mounting(v) => h.scope # Top(v).scope
      BY <2>3, <2>4 DEF Whole, Roles, ScopeOnce
    <3> QED BY <3>1, <2>2, FreshKept
  <2>7. Fresh(w)'
    <3>1. \A k \in held : k.scope = Top(w).scope => k.item < Top(w).item
      BY <2>1, <2>3 DEF Owned, Fresh, At
    <3>2. \A k \in held : k.item \in Nat
      BY HeldOf DEF Whole
    <3>3. Top(w).item \in Nat
      BY <2>3, TopSound, Parts DEF Whole, Grounds, Mounting, AnyFrame
    <3>4. \A k \in held' : k.scope = Top(w).scope => k.item <= Top(w).item
      BY <3>1, <3>2, <3>3, <2>2, <2>4
    <3> QED BY <3>4, <2>2 DEF Fresh, Moves
  <2>8. BackOnly' /\ ClosedOnly'
    <3>1. ~At(w, "rollback")'
      BY <2>2 DEF Moves, At
    <3>2. \A v \in Workers \ {w} : At(v, "rollback")' <=> At(v, "rollback")
      BY <2>2 DEF Others, At, Top
    <3> QED BY <2>2, <3>1, <3>2 DEF Owned, BackOnly, ClosedOnly
  <2> QED BY <2>5, <2>6, <2>7, <2>8 DEF Owned
<1>4. CASE MountDefer(w)
  <2>1. /\ Moves(w, "defer", "register") /\ Others(w) /\ Top(w)'.scope = Top(w).scope
        /\ Top(w).item \in 1 .. Items /\ Top(w)'.item = Top(w).item + 1
        /\ UNCHANGED <<mounted, held, closing>>
    BY <1>4, DeferEffect DEF Whole, Grounds
  <2>2. HeldMounted'
    BY <2>1 DEF Owned, HeldMounted
  <2>3. \A v \in Workers \ {w} : Fresh(v)'
    BY <2>1, FreshKept
  <2>4. Fresh(w)'
    <3>1. \A k \in held : k.scope = Top(w).scope => k.item <= Top(w).item
      BY <2>1 DEF Owned, Fresh, Moves, Mounting, MountingAt
    <3>2. \A k \in held : k.item \in Nat
      BY HeldOf DEF Whole
    <3>3. \A k \in held : k.scope = Top(w).scope => k.item < Top(w).item + 1
      BY <2>1, <3>1, <3>2
    <3> QED BY <3>3, <2>1 DEF Fresh, Moves
  <2>5. BackOnly' /\ ClosedOnly'
    <3>1. ~At(w, "rollback")'
      BY <2>1 DEF Moves, At
    <3>2. \A v \in Workers \ {w} : At(v, "rollback")' <=> At(v, "rollback")
      BY <2>1 DEF Others, At, Top
    <3> QED BY <2>1, <3>1, <3>2 DEF Owned, BackOnly, ClosedOnly
  <2> QED BY <2>2, <2>3, <2>4, <2>5 DEF Owned
<1>5. CASE MountFails(w)
  <2>1. MayMountFail
    BY <1>5 DEF MountFails
  <2>2. /\ Moves(w, "register", "rollback") /\ Others(w) /\ Begins(w, Top(w).scope)
        /\ UNCHANGED <<mounted, held>>
    BY <1>5, RollBackEffect DEF MountFails, Whole, Grounds, kit, scope
  <2>3. HeldMounted'
    BY <2>2 DEF Owned, HeldMounted
  <2>4. \A v \in Workers \ {w} : Fresh(v)' /\ closing'[v] = closing[v]
    BY <2>2, FreshKept DEF Others
  <2>5. Fresh(w)'
    BY <2>2 DEF Fresh, Moves
  <2>6. BackOnly' /\ ClosedOnly'
    BY <2>1, <2>2, <2>4 DEF Owned, BackOnly, ClosedOnly, Begins
  <2> QED BY <2>3, <2>4, <2>5, <2>6 DEF Owned
<1>6. CASE MountForget(w)
  <2>1. /\ Pops(w, "rollback") /\ Others(w) /\ Top(w).id \in Modules
        /\ closing[w].at = "done" /\ closing'[w] = NoClose
        /\ mounted' = [mounted EXCEPT ![Top(w).id] = 0] /\ UNCHANGED held
    BY <1>6, ForgetEffect DEF Whole, Grounds
  <2>2. MayMountFail
    BY <2>1 DEF Pops, At, Owned, BackOnly
  <2>3. closing[w].failed = <<>>
    BY <2>2 DEF Owned, ClosedOnly, Whole, Recoverable
  <2>4. mounted[Top(w).id] = Top(w).scope /\ closing[w].scope = Top(w).scope
    BY <2>1 DEF Pops, Whole, Roles, MounterOk, CloserOk, Closer, Mounting, MountingAt, Target
  <2>5. \A h \in held : h.scope # closing[w].scope
    BY <2>1, <2>3, Released DEF Whole, Clean
  <2>6. \A h \in held : h.id # Top(w).id
    BY <2>4, <2>5 DEF Owned, HeldMounted
  <2>7. HeldMounted'
    <3>1. mounted \in [Modules -> 0 .. made]
      BY Parts DEF Whole, Grounds, KitSound
    <3>2. \A h \in held : h.id \in Modules
      BY HeldOf DEF Whole
    <3> QED BY <2>1, <2>6, <3>1, <3>2 DEF Owned, HeldMounted
  <2>8. ~Mounting(w)' /\ closing'[w].failed = <<>>
    BY <2>1 DEF Pops, Mounting, MountingAt, NoClose
  <2> QED BY <2>1, <2>7, <2>8, OwnedElse
<1> QED BY <1>1, <1>2, <1>3, <1>4, <1>5, <1>6, MountCheckQuiet, MountDepQuiet,
           MountDepReturnedQuiet, MountCommitQuiet DEF MountStep, Whole, Grounds

(* Unmount gives up the ID of a scope that holds nothing.                  *)
LEMMA UnmountOwned ==
  ASSUME Whole, Owned, NEW w \in Workers, UnmountStep(w)
  PROVE  Owned'
<1>1. CASE Quiet(w)
  BY <1>1, QuietOwned
<1>2. CASE ~Quiet(w) /\ UnmountLookup(w)
  <2>1. /\ Moves(w, "lookup", "unmounting") /\ Others(w) /\ closing'[w].failed = <<>>
        /\ UNCHANGED <<mounted, held>>
    BY <1>2, LookupEffect DEF Whole, Grounds, Begins
  <2>2. HeldMounted' /\ ~Mounting(w)'
    BY <2>1 DEF Owned, HeldMounted, Moves, Mounting, MountingAt
  <2> QED BY <2>1, <2>2, OwnedElse
<1>3. CASE UnmountFails(w) \/ UnmountRemove(w)
  <2>1. /\ Pops(w, "unmounting") /\ Others(w) /\ Top(w).id \in Modules
        /\ closing[w].at = "done" /\ closing'[w] = NoClose /\ UNCHANGED held
        /\ \/ mounted' = mounted
           \/ /\ closing[w].failed = <<>> /\ mounted[Top(w).id] = Top(w).scope
              /\ mounted' = [mounted EXCEPT ![Top(w).id] = 0]
    BY <1>3, UnmountEndEffect DEF Whole, Grounds
  <2>2. HeldMounted'
    <3>1. CASE mounted' = mounted
      BY <2>1, <3>1 DEF Owned, HeldMounted
    <3>2. CASE /\ closing[w].failed = <<>> /\ mounted[Top(w).id] = Top(w).scope
               /\ mounted' = [mounted EXCEPT ![Top(w).id] = 0]
      <4>1. closing[w].scope = Top(w).scope
        BY <2>1 DEF Pops, Whole, Roles, CloserOk, Closer, Target
      <4>2. \A h \in held : h.id # Top(w).id
        BY <2>1, <3>2, <4>1, Released DEF Whole, Clean, Owned, HeldMounted
      <4>3. mounted \in [Modules -> 0 .. made]
        BY Parts DEF Whole, Grounds, KitSound
      <4>4. \A h \in held : h.id \in Modules
        BY HeldOf DEF Whole
      <4> QED BY <2>1, <3>2, <4>2, <4>3, <4>4 DEF Owned, HeldMounted
    <3> QED BY <2>1, <3>1, <3>2
  <2>3. ~Mounting(w)' /\ closing'[w].failed = <<>>
    BY <2>1 DEF Pops, Mounting, MountingAt, NoClose
  <2> QED BY <2>1, <2>2, <2>3, OwnedElse
<1> QED BY <1>1, <1>2, <1>3, UnmountDependentsQuiet DEF UnmountStep, Whole, Grounds

(* closeMounted gives up the IDs of scopes that hold nothing.              *)
LEMMA ShutOwned ==
  ASSUME Whole, Owned, NEW w \in Workers, ShutStep(w)
  PROVE  Owned'
<1>1. CASE CloseNext(w)
  <2>1. /\ Moves(w, "next", "shutting") /\ Others(w) /\ closing'[w].failed = <<>>
        /\ UNCHANGED <<mounted, held>>
    BY <1>1, CloseNextEffect DEF Whole, Grounds, Begins
  <2>2. HeldMounted' /\ ~Mounting(w)'
    BY <2>1 DEF Owned, HeldMounted, Moves, Mounting, MountingAt
  <2> QED BY <2>1, <2>2, OwnedElse
<1>2. CASE CloseNoted(w)
  <2>1. /\ Moves(w, "shutting", "next") /\ Others(w) /\ closing'[w] = NoClose
        /\ UNCHANGED <<mounted, held>>
    BY <1>2, CloseNotedEffect DEF Whole, Grounds
  <2>2. HeldMounted' /\ ~Mounting(w)' /\ closing'[w].failed = <<>>
    BY <2>1 DEF Owned, HeldMounted, Moves, Mounting, MountingAt, NoClose
  <2> QED BY <2>1, <2>2, OwnedElse
<1>3. CASE CloseRemove(w)
  <2>1. /\ Pops(w, "next") /\ Others(w) /\ UNCHANGED <<held, closing>>
        /\ \A id \in Modules :
             \/ mounted'[id] = mounted[id]
             \/ \E e \in Top(w).gone : e.id = id /\ mounted[id] = e.scope
    BY <1>3, CloseRemoveEffect DEF Whole, Grounds
  <2>2. HeldMounted'
    <3>1. \A h \in held : h.id \in Modules
      BY HeldOf DEF Whole
    <3>2. \A h \in held : ~\E e \in Top(w).gone : e.id = h.id /\ mounted[h.id] = e.scope
      BY <2>1 DEF Pops, Whole, Clean, GoneReleased, Owned, HeldMounted
    <3> QED BY <2>1, <3>1, <3>2 DEF Owned, HeldMounted
  <2>3. ~Mounting(w)' /\ (~MayCleanupFail => closing'[w].failed = <<>>)
    BY <2>1 DEF Pops, Mounting, MountingAt, Owned, ClosedOnly
  <2> QED BY <2>1, <2>2, <2>3, OwnedElse
<1> QED BY <1>1, <1>2, <1>3 DEF ShutStep

(* scope.Close registers nothing.                                          *)
LEMMA ScopeStepOwned ==
  ASSUME Whole, Owned, NEW w \in Workers, ScopeStep(w)
  PROVE  Owned'
<1>1. UNCHANGED <<mounted, stack>> /\ Others(w) /\ (Mounting(w) => Top(w).at = "rollback")
  BY ScopeStepAlone DEF Whole
<1>2. held' \subseteq held /\ (~MayCleanupFail => closing'[w].failed = <<>>)
  <2>1. CASE CloseTake(w)
    BY <2>1, CloseTakes DEF Whole, Grounds, scope, Owned, ClosedOnly
  <2>2. CASE CloseCleanup(w)
    BY <2>2, CloseCleans DEF Whole, Grounds, Owned, ClosedOnly
  <2>3. CASE CloseKeepFailed(w)
    BY <2>3, CloseKeeps DEF Whole, Grounds, Owned, ClosedOnly, CloseKeepFailed
  <2> QED BY <2>1, <2>2, <2>3 DEF ScopeStep
<1>3. \A v \in Workers : Top(v)' = Top(v) /\ (Mounting(v)' <=> Mounting(v))
                          /\ (At(v, "rollback")' <=> At(v, "rollback"))
  BY <1>1 DEF Top, Mounting, At
<1>4. \A v \in Workers : Fresh(v)'
  BY <1>2, <1>3 DEF Owned, Fresh
<1>5. HeldMounted' /\ BackOnly'
  BY <1>1, <1>2, <1>3 DEF Owned, HeldMounted, BackOnly
<1>6. ClosedOnly'
  BY <1>1, <1>2 DEF Owned, ClosedOnly, Others
<1> QED BY <1>4, <1>5, <1>6 DEF Owned

(* Nothing is registered at first.                                         *)
LEMMA InitOwned == Init => Owned
<1> SUFFICES ASSUME Init PROVE Owned
  OBVIOUS
<1>1. \A w \in Workers : stack[w] = <<>> /\ closing[w].failed = <<>>
  BY NoCloseFields DEF Init, NoClose
<1> QED BY <1>1 DEF Init, Owned, Fresh, HeldMounted, BackOnly, ClosedOnly, Mounting, At

(* Every step keeps the resources of a scope under the ID they are of.     *)
LEMMA NextOwned ==
  ASSUME Whole, Owned, [Next]_vars
  PROVE  Owned'
<1>1. CASE UNCHANGED vars
  BY <1>1 DEF vars, kit, scope, Owned, Fresh, HeldMounted, BackOnly, ClosedOnly, Mounting, At, Top
<1>2. ASSUME NEW w \in Workers, NEW id \in Modules, MountCall(w, id) \/ UnmountCall(w, id)
      PROVE  Owned'
  BY <1>2, CallQuiet, QuietOwned DEF Whole, Grounds
<1>3. ASSUME NEW w \in Workers, CloseCall(w) PROVE Owned'
  BY <1>3, CloseCallQuiet, QuietOwned DEF Whole, Grounds
<1> QED BY <1>1, <1>2, <1>3, MountOwned, ScopeStepOwned, UnmountOwned, ShutOwned DEF Next
-----------------------------------------------------------------------------
(* Every state has the roles, and an account of the resources.             *)
LEMMA RolesCorrect == ASSUME Exclusive PROVE Spec => [](Grounds /\ Roles /\ Clean)
<1>1. Init => Grounds /\ Roles /\ Clean
  BY TypeInvInit, InitInv, InitRoles, InitClean DEF Grounds
<1>2. Grounds /\ Roles /\ Clean /\ [Next]_vars => (Grounds /\ Roles /\ Clean)'
  <2> SUFFICES ASSUME Grounds, Roles, Clean, [Next]_vars PROVE Grounds' /\ Roles' /\ Clean'
    OBVIOUS
  <2>1. TypeInv' /\ (MountOnly => Inv')
    BY TypeInvNext, NextInv DEF Grounds
  <2>2. Grounds'
    BY <2>1 DEF Grounds, Exclusive, MountOnly, Alone
  <2> QED BY <2>2, NextRoles, NextClean
<1> QED BY <1>1, <1>2, PTL DEF Spec

(* When calls do not overlap, whatever fails: an Unmount that returns nil  *)
(* (module_mount.go) has closed every resource of the scope it found. It   *)
(* is the only one at that scope, so no cleanup was noted since it took    *)
(* them all, and none of them failed.                                      *)
THEOREM ReleasedAfterUnmount == ASSUME Alone PROVE Spec => UnmountReleases
<1> DEFINE A == \A w \in Workers :
       At(w, "unmounting") /\ stack'[w] = <<>> /\ result'[w] = "ok"
         => \A h \in held : h.scope # Top(w).scope
<1>1. Grounds /\ Roles /\ Clean /\ [Next]_vars => [A]_vars
  <2> SUFFICES ASSUME Grounds, Roles, Clean, Next, NEW w \in Workers,
                      At(w, "unmounting"), stack'[w] = <<>>, result'[w] = "ok"
               PROVE  \A h \in held : h.scope # Top(w).scope
    OBVIOUS
  <2>1. stack[w] # <<>> /\ stack'[w] # stack[w]
    BY DEF At
  <2>2. \A v \in Workers : v = w
    BY <2>1, Single DEF At
  <2>3. UnmountRemove(w)
    <3>1. ~ScopeStep(w)
      BY <2>1, ScopeStepAlone
    <3>2. \A id \in Modules : ~MountCall(w, id) /\ ~UnmountCall(w, id)
      BY <2>1 DEF MountCall, UnmountCall
    <3>3. ~CloseCall(w)
      BY <2>1 DEF CloseCall
    <3>4. ~MountStep(w)
      BY DEF At, MountStep, MountCheck, MountReserve, MountDep, MountDepReturned, MountRegister,
         MountDefer, MountFails, MountForget, MountCommit
    <3>5. ~ShutStep(w)
      BY DEF At, ShutStep, CloseNext, CloseNoted, CloseRemove
    <3>6. ~UnmountDependents(w) /\ ~UnmountLookup(w)
      BY DEF At, UnmountDependents, UnmountLookup
    <3>7. ~UnmountFails(w)
      BY UnmountEndEffect DEF Grounds
    <3> QED BY <2>2, <3>1, <3>2, <3>3, <3>4, <3>5, <3>6, <3>7 DEF Next, UnmountStep
  <2>4. closing[w].at = "done" /\ closing[w].failed = <<>>
    BY <2>3, UnmountEndEffect DEF Grounds
  <2>5. closing[w].scope = Top(w).scope
    BY <2>4 DEF At, Roles, CloserOk, Closer, Target
  <2> QED BY <2>4, <2>5, Released DEF Clean
<1>2. Exclusive
  BY DEF Exclusive
<1> QED BY <1>1, <1>2, RolesCorrect, PTL DEF Spec, UnmountReleases

(* When calls do not overlap, whatever fails: Unmount and closeMounted     *)
(* take a module out of the Kit only when nothing of its scope is          *)
(* registered any more; a module with a resource that failed to close      *)
(* stays mounted for a retry.                                              *)
THEOREM ReleasedWhenRemoved == ASSUME Alone PROVE Spec => RemovedIsReleased
<1> DEFINE A == \A id \in Modules :
       /\ mounted[id] # 0 /\ mounted'[id] = 0
       /\ \A w \in Workers : ~At(w, "rollback")
       => \A h \in held : h.scope # mounted[id]
<1>1. Grounds /\ Roles /\ Clean /\ [Next]_vars => [A]_vars
  <2> SUFFICES ASSUME Grounds, Roles, Clean, Next, NEW id \in Modules,
                      mounted[id] # 0, mounted'[id] = 0, \A w \in Workers : ~At(w, "rollback")
               PROVE  \A h \in held : h.scope # mounted[id]
    OBVIOUS
  <2>0. mounted \in [Modules -> 0 .. made] /\ made \in Nat
    BY Parts DEF Grounds, KitSound
  <2>1. PICK w \in Workers : UnmountRemove(w) \/ CloseRemove(w)
    <3>1. ASSUME NEW w \in Workers PROVE ~Quiet(w)
      BY DEF Quiet
    <3>2. ASSUME NEW w \in Workers
          PROVE  /\ ~ScopeStep(w) /\ ~MountStep(w) /\ ~CloseCall(w)
                 /\ \A i \in Modules : ~MountCall(w, i) /\ ~UnmountCall(w, i)
      <4>1. ~ScopeStep(w)
        BY ScopeStepAlone
      <4>2. ~CloseCall(w) /\ \A i \in Modules : ~MountCall(w, i) /\ ~UnmountCall(w, i)
        BY <3>1, CallQuiet, CloseCallQuiet DEF Grounds
      <4>3. ~MountReserve(w)
        <5> SUFFICES ASSUME MountReserve(w) PROVE FALSE
          OBVIOUS
        <5>1. mounted' = [mounted EXCEPT ![Top(w).id] = made + 1]
          BY <3>1, ReserveEffect DEF Grounds
        <5> QED BY <5>1, <2>0
      <4>4. ~MountRegister(w) /\ ~MountDefer(w) /\ ~MountFails(w) /\ ~MountForget(w)
        BY DEF MountRegister, MountDefer, MountFails, MountForget, kit
      <4> QED BY <3>1, <4>1, <4>2, <4>3, <4>4, MountCheckQuiet, MountDepQuiet,
                 MountDepReturnedQuiet, MountCommitQuiet DEF MountStep, Grounds
    <3>3. ASSUME NEW w \in Workers
          PROVE  /\ ~UnmountDependents(w) /\ ~UnmountLookup(w) /\ ~UnmountFails(w)
                 /\ ~CloseNext(w) /\ ~CloseNoted(w)
      BY DEF UnmountDependents, UnmountLookup, UnmountFails, CloseNext, CloseNoted, kit
    <3> QED BY <3>2, <3>3 DEF Next, UnmountStep, ShutStep
  <2>2. CASE UnmountRemove(w)
    <3>1. /\ closing[w].at = "done" /\ closing[w].failed = <<>> /\ Pops(w, "unmounting")
          /\ mounted[Top(w).id] = Top(w).scope
          /\ mounted' = [mounted EXCEPT ![Top(w).id] = 0]
      BY <2>2, UnmountEndEffect DEF Grounds
    <3>2. closing[w].scope = Top(w).scope
      BY <3>1 DEF Pops, Roles, CloserOk, Closer, Target
    <3>3. id = Top(w).id
      BY <3>1, <2>0
    <3> QED BY <3>1, <3>2, <3>3, Released DEF Clean
  <2>3. CASE CloseRemove(w)
    <3>1. /\ Pops(w, "next")
          /\ \E e \in Top(w).gone : e.id = id /\ mounted[id] = e.scope
      BY <2>3, CloseRemoveEffect DEF Grounds
    <3> QED BY <3>1 DEF Pops, Clean, GoneReleased
  <2> QED BY <2>1, <2>2, <2>3
<1>2. Exclusive
  BY DEF Exclusive
<1> QED BY <1>1, <1>2, RolesCorrect, PTL DEF Spec, RemovedIsReleased

(* When calls do not overlap or modules are only mounted, and a Mount that *)
(* fails can close what it registered: while no call runs, every           *)
(* registered resource is of the scope that is mounted under its ID and    *)
(* its cleanup is noted there, so that a later Unmount or Close releases   *)
(* it. (With overlapping calls, or when the cleanup of a failed Mount      *)
(* fails, resources are left that nothing will release.)                   *)
THEOREM NothingIsLeft == ASSUME Exclusive, Recoverable PROVE Spec => []NothingLeaks
<1>1. Init => Owned
  BY InitOwned
<1>2. (Grounds /\ Roles /\ Clean) /\ Owned /\ [Next]_vars => Owned'
  BY NextOwned DEF Whole
<1>3. (Grounds /\ Roles /\ Clean) /\ Owned => NothingLeaks
  <2> SUFFICES ASSUME Grounds, Roles, Clean, Owned, Idle, NEW h \in held
               PROVE  mounted[h.id] = h.scope /\ Noted(h)
    BY DEF NothingLeaks, Noted
  <2>1. \A w \in Workers : ~InClose(h, w) /\ ~InDefer(h, w)
    BY DEF Idle, InClose, InDefer, At, Roles, CloserOk, Closer
  <2> QED BY <2>1 DEF Owned, HeldMounted, Clean, Accounted, Kept
<1> QED BY <1>1, <1>2, <1>3, RolesCorrect, PTL DEF Spec
=============================================================================
