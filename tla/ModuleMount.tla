----------------------------- MODULE ModuleMount -----------------------------
(***************************************************************************)
(* Hot-mounting of modules into a Kit (module_mount.go,                    *)
(* module_lifecycle.go, module/scope.go).                                  *)
(*                                                                         *)
(* Workers are the goroutines that call Kit.Mount, Kit.Unmount (the        *)
(* handlers of kit.module.mount and kit.module.unmount, or the embedding   *)
(* program) and closeMounted (Kit.Close, Kit.Shutdown).  Mount calls       *)
(* itself for the modules a descriptor requires, so a worker has a stack   *)
(* of frames.  One critical section of Kit.mountMu or of scope.mu is one   *)
(* step, and so is what happens between two of them.                       *)
(*                                                                         *)
(* A module's Mount registers `Items` resources (commands, tools,          *)
(* subscriptions, capabilities) under names of its own and defers the      *)
(* close of each to the scope.  k.modules and k.descs change together:     *)
(* `listed` is their common domain.                                        *)
(***************************************************************************)
EXTENDS Naturals, Sequences, FiniteSets

CONSTANTS
  Workers,         \* goroutines that mount and unmount
  Modules,         \* registered module IDs
  Requires,        \* descriptor.Requires of each module
  Items,           \* resources a module registers
  Ops,             \* operations the workers call: mount, unmount, close
  ViaBus,          \* whether Unmount is reached through UnmountModule only
  MayMountFail,    \* whether a module's Mount may fail on its own
  MayCleanupFail,  \* whether closing a resource may fail
  MaxScopes        \* bound: scopes ever created

ASSUME ModuleMountAssumption ==
  /\ IsFiniteSet(Modules) /\ Requires \in [Modules -> SUBSET Modules]
  /\ Items \in Nat /\ MaxScopes \in Nat
  /\ Ops \subseteq {"mount", "unmount", "close"}
  /\ {ViaBus, MayMountFail, MayCleanupFail} \subseteq BOOLEAN

VARIABLES
  mounted,   \* Kit.mounted: the scope of each module, 0 for none
  listed,    \* the modules of Kit.modules and Kit.descs
  order,     \* Kit.mountOrder
  made,      \* number of scopes created
  closed,    \* scope.closed
  cleanups,  \* scope.cleanups: the items to close
  held,      \* resources registered with the Kit
  stack,     \* the calls each worker is in
  result,    \* what its last call returned
  closing    \* its run of scope.Close

kit   == <<mounted, listed, order>>
scope == <<closed, cleanups, held>>
vars  == <<kit, made, scope, stack, result, closing>>

Scopes == 1 .. MaxScopes
Entry  == [id : Modules, scope : Scopes]

NoClose == [scope |-> 0, at |-> "none", todo |-> <<>>, failed |-> <<>>]

Top(w)       == stack[w][Len(stack[w])]
At(w, at)    == stack[w] # <<>> /\ Top(w).at = at
Goto(w, f)   == stack' = [stack EXCEPT ![w] = SubSeq(@, 1, Len(@) - 1) \o <<f>>]
Step(w, at)  == Goto(w, [Top(w) EXCEPT !.at = at])
Call(w, f)   == stack' = [stack EXCEPT ![w] = @ \o <<f>>]
Return(w, x) == /\ stack' = [stack EXCEPT ![w] = SubSeq(@, 1, Len(@) - 1)]
                /\ result' = [result EXCEPT ![w] = x]

Frame(id, at) == [id |-> id, at |-> at, deps |-> {}, dep |-> "none",
                  scope |-> 0, item |-> 1, list |-> <<>>, gone |-> {}]

Dependents(id) == {m \in listed \ {id} : id \in Requires[m]}

(* The worker calls Close of scope s and goes on when closing[w] is done.  *)
CallClose(w, s) ==
  closing' = [closing EXCEPT ![w] = [NoClose EXCEPT !.scope = s, !.at = "begin"]]
Closed(w)   == closing[w].at = "done"
CloseOk(w)  == closing[w].failed = <<>>
CloseRead(w) == closing' = [closing EXCEPT ![w] = NoClose]

-----------------------------------------------------------------------------
(* scope.Close.                                                            *)

(* Under scope.mu: the cleanups are taken out of the scope.  A scope that  *)
(* is closed and has none left reports success.                            *)
CloseTake(w) ==
  LET s == closing[w].scope
  IN /\ closing[w].at = "begin"
     /\ IF closed[s] /\ cleanups[s] = <<>>
        THEN /\ closing' = [closing EXCEPT ![w].at = "done"]
             /\ UNCHANGED scope
        ELSE /\ closing' = [closing EXCEPT ![w] =
                  [@ EXCEPT !.at = "run", !.todo = cleanups[s]]]
             /\ closed' = [closed EXCEPT ![s] = TRUE]
             /\ cleanups' = [cleanups EXCEPT ![s] = <<>>]
             /\ UNCHANGED held
     /\ UNCHANGED <<kit, made, stack, result>>

(* The last cleanup first; one that fails is kept.                         *)
CloseCleanup(w) ==
  LET s    == closing[w].scope
      todo == closing[w].todo
      item == todo[Len(todo)]
      rest == SubSeq(todo, 1, Len(todo) - 1)
  IN /\ closing[w].at = "run" /\ todo # <<>>
     /\ \/ /\ held' = {h \in held : h.scope # s \/ h.item # item}
           /\ closing' = [closing EXCEPT ![w].todo = rest]
        \/ /\ MayCleanupFail
           /\ closing' = [closing EXCEPT ![w] =
                [@ EXCEPT !.todo = rest, !.failed = <<item>> \o closing[w].failed]]
           /\ UNCHANGED held
     /\ UNCHANGED <<kit, made, closed, cleanups, stack, result>>

(* Mutant: the failed cleanups are not put back. *)
CloseForgetsFailed(w) ==
  /\ closing[w].at = "run" /\ closing[w].todo = <<>>
  /\ closing' = [closing EXCEPT ![w].at = "done", ![w].failed = <<>>]
  /\ UNCHANGED <<kit, made, scope, stack, result>>

(* Under scope.mu: the failed cleanups go back, in their order.            *)
CloseKeepFailed(w) ==
  LET s == closing[w].scope
  IN /\ closing[w].at = "run" /\ closing[w].todo = <<>>
     /\ closing' = [closing EXCEPT ![w].at = "done"]
     /\ cleanups' = [cleanups EXCEPT ![s] = @ \o closing[w].failed]
     /\ UNCHANGED <<kit, made, closed, held, stack, result>>

-----------------------------------------------------------------------------
(* Kit.Mount.                                                              *)

MountCall(w, id) ==
  /\ "mount" \in Ops
  /\ stack[w] = <<>>
  /\ Call(w, Frame(id, "check"))
  /\ UNCHANGED <<kit, made, scope, result, closing>>

(* A module that is mounted, or is being mounted, is refused.  (Preflight, *)
(* which follows, changes nothing.)                                        *)
MountCheck(w) ==
  /\ At(w, "check")
  /\ IF mounted[Top(w).id] # 0
     THEN Return(w, "error")
     ELSE /\ Goto(w, [Top(w) EXCEPT !.at = "deps",
                                    !.deps = Requires[Top(w).id] \ {Top(w).id}])
          /\ UNCHANGED result
  /\ UNCHANGED <<kit, made, scope, closing>>

(* The next required module: k.Module finds it, or Mount is called.        *)
MountDep(w, d) ==
  /\ At(w, "deps")
  /\ d \in Top(w).deps
  /\ IF d \in listed
     THEN Goto(w, [Top(w) EXCEPT !.deps = @ \ {d}])
     ELSE stack' = [stack EXCEPT ![w] =
            SubSeq(@, 1, Len(@) - 1)
              \o <<[Top(w) EXCEPT !.at = "dep", !.dep = d], Frame(d, "check")>>]
  /\ UNCHANGED <<kit, made, scope, result, closing>>

(* Mutant: a dependency somebody else is mounting is taken for mounted. *)
MountDepStarted(w) ==
  /\ At(w, "dep")
  /\ IF result[w] = "ok" \/ mounted[Top(w).dep] # 0
     THEN /\ Goto(w, [Top(w) EXCEPT !.at = "deps", !.deps = @ \ {Top(w).dep}])
          /\ UNCHANGED result
     ELSE Return(w, "error")
  /\ UNCHANGED <<kit, made, scope, closing>>

(* Its error counts only if the module is not there: somebody else may     *)
(* have mounted it.                                                        *)
MountDepReturned(w) ==
  /\ At(w, "dep")
  /\ IF result[w] = "ok" \/ Top(w).dep \in listed
     THEN /\ Goto(w, [Top(w) EXCEPT !.at = "deps", !.deps = @ \ {Top(w).dep}])
          /\ UNCHANGED result
     ELSE Return(w, "error")
  /\ UNCHANGED <<kit, made, scope, closing>>

(* Mutant: the second look at Kit.mounted is left out. *)
MountReserveAgain(w) ==
  /\ At(w, "deps")
  /\ Top(w).deps = {}
  /\ made < MaxScopes
  /\ made' = made + 1
  /\ mounted' = [mounted EXCEPT ![Top(w).id] = made + 1]
  /\ Goto(w, [Top(w) EXCEPT !.at = "register", !.scope = made + 1])
  /\ UNCHANGED <<listed, order, scope, result, closing>>

(* Under mountMu: the ID is taken by a new scope, unless it is mounted.    *)
MountReserve(w) ==
  /\ At(w, "deps")
  /\ Top(w).deps = {}
  /\ IF mounted[Top(w).id] # 0
     THEN Return(w, "error") /\ UNCHANGED <<mounted, made>>
     ELSE /\ made < MaxScopes
          /\ made' = made + 1
          /\ mounted' = [mounted EXCEPT ![Top(w).id] = made + 1]
          /\ Goto(w, [Top(w) EXCEPT !.at = "register", !.scope = made + 1])
          /\ UNCHANGED result
  /\ UNCHANGED <<listed, order, scope, closing>>

(* Mount fails: its scope is closed. *)
MountRollBack(w) == Step(w, "rollback") /\ CallClose(w, Top(w).scope)

(* The module registers its next resource, which fails when the name is    *)
(* taken.                                                                  *)
MountRegister(w) ==
  LET f == Top(w)
  IN /\ At(w, "register")
     /\ f.item <= Items
     /\ IF \E h \in held : h.id = f.id /\ h.item = f.item
        THEN MountRollBack(w) /\ UNCHANGED held
        ELSE /\ held' = held \cup {[id |-> f.id, item |-> f.item,
                                    scope |-> f.scope]}
             /\ Step(w, "defer")
             /\ UNCHANGED closing
     /\ UNCHANGED <<kit, made, closed, cleanups, result>>

(* Mutant: the cleanup names the loop variable, which has moved on. *)
MountDeferLate(w) ==
  LET f == Top(w)
  IN /\ At(w, "defer")
     /\ cleanups' = IF closed[f.scope] THEN cleanups
                    ELSE [cleanups EXCEPT ![f.scope] = Append(@, f.item + 1)]
     /\ Goto(w, [f EXCEPT !.at = "register", !.item = @ + 1])
     /\ UNCHANGED <<kit, made, closed, held, result, closing>>

(* scope.Defer, under scope.mu: a closed scope drops the cleanup.          *)
MountDefer(w) ==
  LET f == Top(w)
  IN /\ At(w, "defer")
     /\ cleanups' = IF closed[f.scope] THEN cleanups
                    ELSE [cleanups EXCEPT ![f.scope] = Append(@, f.item)]
     /\ Goto(w, [f EXCEPT !.at = "register", !.item = @ + 1])
     /\ UNCHANGED <<kit, made, closed, held, result, closing>>

(* The module's Mount returns an error of its own. *)
MountFails(w) ==
  /\ MayMountFail
  /\ At(w, "register")
  /\ MountRollBack(w)
  /\ UNCHANGED <<kit, made, scope, result>>

(* The outcome of Close is ignored; the ID is free again.                  *)
MountForget(w) ==
  /\ At(w, "rollback") /\ Closed(w)
  /\ CloseRead(w)
  /\ mounted' = [mounted EXCEPT ![Top(w).id] = 0]
  /\ Return(w, "error")
  /\ UNCHANGED <<listed, order, made, scope>>

(* Mutant: the module is put in front of the modules it requires. *)
MountCommitFront(w) ==
  /\ At(w, "register")
  /\ Top(w).item > Items
  /\ listed' = listed \cup {Top(w).id}
  /\ order' = <<Top(w).id>> \o order
  /\ Return(w, "ok")
  /\ UNCHANGED <<mounted, made, scope, closing>>

(* Under mountMu: the module is listed and joins the mount order.          *)
MountCommit(w) ==
  /\ At(w, "register")
  /\ Top(w).item > Items
  /\ listed' = listed \cup {Top(w).id}
  /\ order' = Append(order, Top(w).id)
  /\ Return(w, "ok")
  /\ UNCHANGED <<mounted, made, scope, closing>>

-----------------------------------------------------------------------------
(* Kit.Unmount.                                                            *)

(* UnmountModule, the handler behind the bus, looks at the dependents and  *)
(* at the descriptor before it calls Unmount.                              *)
UnmountCall(w, id) ==
  /\ "unmount" \in Ops
  /\ stack[w] = <<>>
  /\ ViaBus => id \in listed /\ Dependents(id) = {}
  /\ Call(w, Frame(id, "dependents"))
  /\ UNCHANGED <<kit, made, scope, result, closing>>

UnmountDependents(w) ==
  /\ At(w, "dependents")
  /\ IF Dependents(Top(w).id) # {}
     THEN Return(w, "error")
     ELSE Step(w, "lookup") /\ UNCHANGED result
  /\ UNCHANGED <<kit, made, scope, closing>>

UnmountLookup(w) ==
  LET s == mounted[Top(w).id]
  IN /\ At(w, "lookup")
     /\ IF s = 0
        THEN Return(w, "error") /\ UNCHANGED closing
        ELSE /\ Goto(w, [Top(w) EXCEPT !.at = "unmounting", !.scope = s])
             /\ CallClose(w, s)
             /\ UNCHANGED result
     /\ UNCHANGED <<kit, made, scope>>

UnmountFails(w) ==
  /\ At(w, "unmounting") /\ Closed(w) /\ ~CloseOk(w)
  /\ CloseRead(w)
  /\ Return(w, "error")
  /\ UNCHANGED <<kit, made, scope>>

(* The enumeration of a finite set of numbers, the smallest first, as the  *)
(* only member of a set.                                                   *)
Ascending(S) == {p \in [1 .. Cardinality(S) -> S] :
                   \A i, j \in DOMAIN p : i < j => p[i] < p[j]}

(* removeMountOrderLocked, for each of the ids: its first occurrence goes. *)
Without(seq, ids) ==
  LET gone == {i \in DOMAIN seq :
                 seq[i] \in ids /\ \A j \in 1 .. i - 1 : seq[j] # seq[i]}
  IN {[k \in DOMAIN p |-> seq[p[k]]] : p \in Ascending(DOMAIN seq \ gone)}

(* Mutant: Unmount leaves the descriptor. *)
UnmountKeepsListed(w) ==
  LET f == Top(w)
  IN /\ At(w, "unmounting") /\ Closed(w) /\ CloseOk(w)
     /\ CloseRead(w)
     /\ mounted' = [mounted EXCEPT ![f.id] = 0]
     /\ order' \in Without(order, {f.id})
     /\ Return(w, "ok")
     /\ UNCHANGED <<listed, made, scope>>

(* Under mountMu: the module goes, unless its ID has another scope by now. *)
UnmountRemove(w) ==
  LET f == Top(w)
  IN /\ At(w, "unmounting") /\ Closed(w) /\ CloseOk(w)
     /\ CloseRead(w)
     /\ IF mounted[f.id] = f.scope
        THEN /\ mounted' = [mounted EXCEPT ![f.id] = 0]
             /\ listed' = listed \ {f.id}
             /\ order' \in Without(order, {f.id})
        ELSE UNCHANGED kit
     /\ Return(w, "ok")
     /\ UNCHANGED <<made, scope>>

-----------------------------------------------------------------------------
(* closeMounted.                                                           *)

(* The orders in which closeMounted may find the scopes: the mount order   *)
(* backwards, then the modules that are not in it.  (Sorted by name, which *)
(* the model values are not: any order.)                                   *)
KnownPlaces == {i \in DOMAIN order : mounted[order[i]] # 0}
Remaining   == {id \in Modules : mounted[id] # 0} \ {order[i] : i \in KnownPlaces}

Backwards(p) == [i \in DOMAIN p |-> order[p[Len(p) + 1 - i]]]
AnyOrder(S)  == {t \in [1 .. Cardinality(S) -> S] :
                   \A i, j \in DOMAIN t : t[i] = t[j] => i = j}
ScopesOf(ids) == [i \in DOMAIN ids |-> [id |-> ids[i], scope |-> mounted[ids[i]]]]

CloseLists == {ScopesOf(Backwards(p) \o t) : p \in Ascending(KnownPlaces),
                                             t \in AnyOrder(Remaining)}

(* Under mountMu: the scopes are listed. *)
CloseCall(w) ==
  /\ "close" \in Ops
  /\ stack[w] = <<>>
  /\ \E list \in CloseLists :
       stack' = [stack EXCEPT ![w] =
                   <<[Frame("none", "next") EXCEPT !.list = list]>>]
  /\ UNCHANGED <<kit, made, scope, result, closing>>

CloseNext(w) ==
  /\ At(w, "next")
  /\ Top(w).list # <<>>
  /\ Step(w, "shutting")
  /\ CallClose(w, Head(Top(w).list).scope)
  /\ UNCHANGED <<kit, made, scope, result>>

(* Mutant: the loop does not skip a scope that failed to close. *)
CloseNotedAll(w) ==
  LET f == Top(w)
  IN /\ At(w, "shutting") /\ Closed(w)
     /\ CloseRead(w)
     /\ Goto(w, [f EXCEPT !.at = "next", !.list = Tail(@),
                   !.gone = @ \cup {Head(f.list)}])
     /\ UNCHANGED <<kit, made, scope, result>>

(* A scope that failed to close is left for a retry.                       *)
CloseNoted(w) ==
  LET f == Top(w)
  IN /\ At(w, "shutting") /\ Closed(w)
     /\ CloseRead(w)
     /\ Goto(w, [f EXCEPT !.at = "next", !.list = Tail(@),
                   !.gone = IF CloseOk(w) THEN @ \cup {Head(f.list)} ELSE @])
     /\ UNCHANGED <<kit, made, scope, result>>

(* Under mountMu: every module whose scope was closed goes.                *)
CloseRemove(w) ==
  LET gone == {e.id : e \in {e \in Top(w).gone : mounted[e.id] = e.scope}}
  IN /\ At(w, "next")
     /\ Top(w).list = <<>>
     /\ mounted' = [id \in Modules |-> IF id \in gone THEN 0 ELSE mounted[id]]
     /\ listed' = listed \ gone
     /\ order' \in Without(order, gone)
     /\ Return(w, "ok")
     /\ UNCHANGED <<made, scope, closing>>

-----------------------------------------------------------------------------
Init ==
  /\ mounted = [id \in Modules |-> 0]
  /\ listed = {}
  /\ order = <<>>
  /\ made = 0
  /\ closed = [s \in Scopes |-> FALSE]
  /\ cleanups = [s \in Scopes |-> <<>>]
  /\ held = {}
  /\ stack = [w \in Workers |-> <<>>]
  /\ result = [w \in Workers |-> "none"]
  /\ closing = [w \in Workers |-> NoClose]

ScopeStep(w) == CloseTake(w) \/ CloseCleanup(w) \/ CloseKeepFailed(w)

MountStep(w) ==
  \/ MountCheck(w) \/ MountReserve(w)
  \/ \E d \in Modules : MountDep(w, d)
  \/ MountDepReturned(w) \/ MountRegister(w) \/ MountDefer(w) \/ MountFails(w) \/ MountForget(w)
  \/ MountCommit(w)

UnmountStep(w) == UnmountDependents(w) \/ UnmountLookup(w) \/ UnmountFails(w)
                    \/ UnmountRemove(w)

ShutStep(w) == CloseNext(w) \/ CloseNoted(w) \/ CloseRemove(w)

Next ==
  \E w \in Workers :
    \/ \E id \in Modules : MountCall(w, id) \/ UnmountCall(w, id)
    \/ CloseCall(w)
    \/ ScopeStep(w) \/ MountStep(w) \/ UnmountStep(w) \/ ShutStep(w)

Spec == Init /\ [][Next]_vars

-----------------------------------------------------------------------------
FrameAt == {"check", "deps", "dep", "register", "defer", "rollback",
            "dependents", "lookup", "unmounting", "next", "shutting"}

(* The types; a module has at most one place in the mount order.           *)
TypeOK ==
  /\ mounted \in [Modules -> 0 .. made]
  /\ listed \subseteq Modules
  /\ order \in Seq(Modules)
  /\ made \in 0 .. MaxScopes
  /\ closed \in [Scopes -> BOOLEAN]
  /\ cleanups \in [Scopes -> Seq(1 .. Items)]
  /\ held \subseteq [id : Modules, item : 1 .. Items, scope : 1 .. made]
  /\ stack \in [Workers -> Seq(
       [id : Modules \cup {"none"}, at : FrameAt, deps : SUBSET Modules,
        dep : Modules \cup {"none"}, scope : 0 .. made, item : 1 .. Items + 1,
        list : Seq(Entry), gone : SUBSET Entry])]
  /\ result \in [Workers -> {"none", "ok", "error"}]
  /\ closing \in [Workers ->
       [scope : 0 .. made, at : {"none", "begin", "run", "done"},
        todo : Seq(1 .. Items), failed : Seq(1 .. Items)]]

Idle == \A w \in Workers : stack[w] = <<>>

(* When no call is running, every registered resource belongs to the scope *)
(* that is mounted under its ID and is among the cleanups of that scope: a *)
(* later Unmount or Close can release it.                                  *)
NothingLeaks ==
  Idle => \A h \in held :
            /\ mounted[h.id] = h.scope
            /\ \E i \in DOMAIN cleanups[h.scope] : cleanups[h.scope][i] = h.item

(* What a listed module requires is listed: Unmount does not take it away. *)
RequiredStay == \A id \in listed : Requires[id] \ {id} \subseteq listed

(* A module's dependents come after it in the mount order, which Close     *)
(* walks backwards; every listed module is in it once.                     *)
DependentsLater ==
  /\ {order[i] : i \in DOMAIN order} = listed
  /\ \A i, j \in DOMAIN order :
       /\ order[i] = order[j] => i = j
       /\ order[i] \in Requires[order[j]] => i <= j

(* Of several Mounts of one ID a single one runs the module's Mount.       *)
OneMountRuns ==
  \A v, w \in Workers : v # w =>
    \A i \in DOMAIN stack[v], j \in DOMAIN stack[w] :
      stack[v][i].at \in {"register", "defer"} /\ stack[w][j].at \in {"register", "defer"}
        => stack[v][i].id # stack[w][j].id

(* MountedModules lists mounted modules.                                   *)
ListedIsMounted == \A id \in listed : mounted[id] # 0

(* Unmount that returns nil has closed all resources of the scope it       *)
(* found.                                                                  *)
UnmountReleases ==
  [][\A w \in Workers :
       At(w, "unmounting") /\ stack'[w] = <<>> /\ result'[w] = "ok"
         => \A h \in held : h.scope # Top(w).scope]_vars

(* Unmount and Close take a module out of the Kit when all its resources   *)
(* are closed: one that failed to close stays mounted for a retry.         *)
RemovedIsReleased ==
  [][\A id \in Modules :
       /\ mounted[id] # 0 /\ mounted'[id] = 0
       /\ \A w \in Workers : ~At(w, "rollback")
       => \A h \in held : h.scope # mounted[id]]_vars
=============================================================================
