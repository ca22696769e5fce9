---------------------------- MODULE Compartments ----------------------------
(***************************************************************************)
(* What the code of deployments registers in one JavaScript runtime, and   *)
(* how a teardown releases it.  The JavaScript thread executes one call at *)
(* a time; between the bridges into Go that the call goes through, the     *)
(* thread that holds lifecycleMu takes steps of its own: deploying and     *)
(* tearing down.                                                           *)
(***************************************************************************)
EXTENDS Naturals, FiniteSets

CONSTANTS Sources,
          Ids        \* of subscriptions and schedules, each used once

VARIABLES goReg,     \* resourcehost.Registry: the source of each entry
          refs,      \* __kit_refs: the source of each entry
          live,      \* who made the tool or subscription that is there
          deployed,  \* m.deployments
          running,   \* sources evaluated, and not removed from the registry
          begun,     \* sources ever evaluated
          op,        \* the operation under lifecycleMu
          call,      \* the call the JavaScript thread executes
          used,      \* identities given out
          late,      \* entries made by code of a source already removed
          unregisters  \* whether code calls kit.unregister

vars == <<goReg, refs, live, deployed, running, begun, op, call, used, late, unregisters>>

(* Two sources may register a tool of the same name.                       *)
Tool == <<"tool", 0>>
Keys == {Tool} \cup ({"topic"} \X Sources) \cup ({"subscription"} \X Ids)

NoOne == "none"

ASSUME CompartmentsAssumption == NoOne \notin Sources

Nothing == [k \in Keys |-> NoOne]
None == [at |-> "none"]

Init ==
  /\ goReg = Nothing /\ refs = Nothing /\ live = Nothing
  /\ deployed = {} /\ running = {} /\ begun = {} /\ used = {} /\ late = {}
  /\ op = None /\ call = None
  /\ unregisters \in BOOLEAN

Call(s, key, at) == [at |-> at, source |-> s, key |-> key]
-----------------------------------------------------------------------------
(* The JavaScript thread *)

OwnerIsCurrent(s) == IF op.at = "eval" THEN op.source ELSE "unknown"

(* __withSource: whoever is being evaluated, an entry belongs to the       *)
(* source whose compartment was given the function.                        *)
Owner(s) == s

(* A teardown does not stop code that is under way: handlers, timers.      *)
MayCall(s) == call = None /\ s \in begun

Register(s) ==
  /\ MayCall(s) /\ refs[Tool] = NoOne
  /\ call' = Call(s, Tool, "make")
  /\ UNCHANGED <<goReg, refs, live, deployed, running, begun, op, used, late, unregisters>>

Subscribe(s) ==
  /\ MayCall(s)
  /\ \E id \in Ids \ used :
       /\ used' = used \cup {id}
       /\ call' = Call(s, <<"subscription", id>>, "make")
  /\ UNCHANGED <<goReg, refs, live, deployed, running, begun, op, late, unregisters>>

(* bus.on claims its topic, which is TOPIC_COLLISION the second time, and  *)
(* subscribes.                                                             *)
On(s) ==
  /\ MayCall(s) /\ refs[<<"topic", s>>] = NoOne /\ used # Ids
  /\ call' = Call(s, <<"topic", s>>, "enter")
  /\ UNCHANGED <<goReg, refs, live, deployed, running, begun, op, used, late, unregisters>>

(* kit.unregister of what another source registered throws.                *)
Unregister(s) ==
  /\ unregisters /\ MayCall(s) /\ refs[Tool] = s
  /\ call' = Call(s, Tool, "unmake")
  /\ UNCHANGED <<goReg, refs, live, deployed, running, begun, op, used, late, unregisters>>

Unsubscribe(s) ==
  /\ MayCall(s)
  /\ \E id \in Ids : /\ refs[<<"subscription", id>>] = s
                     /\ call' = Call(s, <<"subscription", id>>, "unmake")
  /\ UNCHANGED <<goReg, refs, live, deployed, running, begun, op, used, late, unregisters>>

(* tools.register, or the subscription itself.                             *)
Make ==
  /\ call.at = "make"
  /\ live' = [live EXCEPT ![call.key] = call.source]
  /\ call' = [call EXCEPT !.at = "enter"]
  /\ UNCHANGED <<goReg, refs, deployed, running, begun, op, used, late, unregisters>>

(* __go_resource_register *)
Enter ==
  /\ call.at = "enter"
  /\ goReg' = [goReg EXCEPT ![call.key] = Owner(call.source)]
  /\ late' = IF call.source \in running THEN late \ {call.key}
             ELSE late \cup {call.key}
  /\ call' = [call EXCEPT !.at = "refer"]
  /\ UNCHANGED <<refs, live, deployed, running, begun, op, used, unregisters>>

Refer ==
  /\ call.at = "refer"
  /\ refs' = [refs EXCEPT ![call.key] = Owner(call.source)]
  /\ IF call.key[1] = "topic"
     THEN \E id \in Ids \ used :
            /\ used' = used \cup {id}
            /\ call' = Call(call.source, <<"subscription", id>>, "make")
     ELSE call' = None /\ UNCHANGED used
  /\ UNCHANGED <<goReg, live, deployed, running, begun, op, late, unregisters>>

(* The cleanup that was registered with the entry is called, and the entry *)
(* of __kit_refs deleted.  That of the Go registry stays.                  *)
Unmake ==
  /\ call.at = "unmake"
  /\ live' = [live EXCEPT ![call.key] = NoOne]
  /\ call' = [call EXCEPT !.at = "unrefer"]
  /\ UNCHANGED <<goReg, refs, deployed, running, begun, op, used, late, unregisters>>

Unrefer ==
  /\ call.at = "unrefer"
  /\ refs' = [refs EXCEPT ![call.key] = NoOne]
  /\ call' = None
  /\ UNCHANGED <<goReg, live, deployed, running, begun, op, used, late, unregisters>>
-----------------------------------------------------------------------------
(* The thread that holds lifecycleMu *)

Lock(s) ==
  /\ op = None
  /\ \E kind \in {"deploy", "teardown"} :
       op' = [kind |-> kind, source |-> s, removed |-> {}, left |-> {}, ok |-> TRUE,
              at |-> IF kind = "teardown" \/ s \in deployed THEN "remove" ELSE "eval"]
  /\ UNCHANGED <<goReg, refs, live, deployed, running, begun, call, used, late, unregisters>>

(* RemoveBySource.  If it finds nothing there is nothing to clean.         *)
Remove ==
  /\ op.at = "remove"
  /\ LET removed == {k \in Keys : goReg[k] = op.source}
     IN  /\ goReg' = [k \in Keys |-> IF k \in removed THEN NoOne ELSE goReg[k]]
         /\ op' = [op EXCEPT !.removed = removed, !.left = removed,
                             !.at = IF removed = {} THEN "drop" ELSE "cleanup"]
  /\ running' = running \ {op.source}
  /\ UNCHANGED <<refs, live, deployed, begun, call, used, late, unregisters>>

CleanupSweeps ==
  /\ op.at = "cleanup"
  /\ \E k \in op.left :
       /\ live' = [live EXCEPT ![k] = NoOne]
       /\ op' = [op EXCEPT !.left = @ \ {k},
                           !.at = IF op.left = {k} THEN "sweep" ELSE "cleanup"]
  /\ refs' = [k \in Keys |-> IF k \in op.removed THEN NoOne ELSE refs[k]]
  /\ UNCHANGED <<goReg, deployed, running, begun, call, used, late, unregisters>>

(* dispatchCleanups: the tool of that name, or the subscription, goes.     *)
Cleanup ==
  /\ op.at = "cleanup"
  /\ \E k \in op.left :
       /\ live' = [live EXCEPT ![k] = NoOne]
       /\ op' = [op EXCEPT !.left = @ \ {k},
                           !.at = IF op.left = {k} THEN "sweep" ELSE "cleanup"]
  /\ UNCHANGED <<goReg, refs, deployed, running, begun, call, used, late, unregisters>>

(* sweepJSRefs waits until the JavaScript thread has finished its call.    *)
Sweep ==
  /\ op.at = "sweep" /\ call = None
  /\ refs' = [k \in Keys |-> IF k \in op.removed THEN NoOne ELSE refs[k]]
  /\ op' = [op EXCEPT !.at = "drop", !.removed = {}]
  /\ UNCHANGED <<goReg, live, deployed, running, begun, call, used, late, unregisters>>

(* The compartment goes, and the deployment.  A deployment that replaces   *)
(* it is evaluated now; one whose evaluation threw is over.                *)
Drop ==
  /\ op.at = "drop" /\ call = None
  /\ deployed' = deployed \ {op.source}
  /\ IF op.kind = "deploy" /\ op.ok THEN op' = [op EXCEPT !.at = "eval"] ELSE op' = None
  /\ UNCHANGED <<goReg, refs, live, running, begun, call, used, late, unregisters>>

(* The evaluation: an asynchronous function, whose calls, and those of     *)
(* other sources, take steps until it is done.                             *)
Evaluate ==
  /\ op.at = "eval" /\ op.source \notin running /\ call = None
  /\ running' = running \cup {op.source}
  /\ begun' = begun \cup {op.source}
  /\ UNCHANGED <<goReg, refs, live, deployed, op, call, used, late, unregisters>>

Evaluated ==
  /\ op.at = "eval" /\ op.source \in running /\ call = None
  /\ \/ deployed' = deployed \cup {op.source} /\ op' = None
     \/ op' = [op EXCEPT !.ok = FALSE, !.at = "remove"] /\ UNCHANGED deployed
  /\ UNCHANGED <<goReg, refs, live, running, begun, call, used, late, unregisters>>

Next ==
  \/ \E s \in Sources : \/ Register(s) \/ Subscribe(s) \/ On(s)
                        \/ Unregister(s) \/ Unsubscribe(s) \/ Lock(s)
  \/ Make \/ Enter \/ Refer \/ Unmake \/ Unrefer
  \/ Remove \/ Cleanup \/ Sweep \/ Drop \/ Evaluate \/ Evaluated

Spec == Init /\ [][Next]_vars
-----------------------------------------------------------------------------
(* A teardown releases everything its source registered before it, be it   *)
(* in a handler that ran while another source was evaluated: nothing of it *)
(* is live, listed in Go or referred to in JavaScript, but what the call   *)
(* in progress is making, or a call ended after the entries were removed.  *)
TeardownReleases ==
  \A s \in Sources :
    (s \notin deployed \cup running /\ (op # None => op.source # s))
      => \A k \in Keys \ late : (call # None => call.key # k)
                                  => s \notin {live[k], goReg[k], refs[k]}

(* A teardown does not take the tool of another source that registered one *)
(* of the same name meanwhile, unless the name was freed by kit.unregister.*)
ForeignSurvives ==
  [][ ~unregisters /\ op.at = "cleanup"
        => \A k \in op.left \ op'.left : live[k] \in {NoOne, op.source} ]_vars
=============================================================================
