------------------------------ MODULE Replicas ------------------------------
(***************************************************************************)
(* Deployments as rows of a store that the replicas of a Kit share.  A     *)
(* replica runs package.deploy and package.teardown commands under its     *)
(* lifecycleMu; it tells the others, who mirror what the store says; it    *)
(* restores the rows when it starts.  What evaluating a deployment does to *)
(* the JavaScript runtime is in Compartments.                              *)
(***************************************************************************)
EXTENDS Naturals

CONSTANTS Replicas, Sources,
          MayFail,        \* whether the store, and what is restored, may fail
          MaxVersions,    \* deploy commands in a behaviour
          MaxStops        \* stops and crashes of replicas

VARIABLES rows,       \* the version of each source in the store, 0: none
          deployed,   \* the version that each replica runs, 0: none
          op,         \* what each thread of a replica is at
          lock,       \* the thread that has the lifecycleMu of a replica
          inbox,      \* events a replica has not handled
          up,         \* "down", "starting" or "subscribed"
          tracked,    \* the packages deployed by commands to a replica
          acked,      \* what the caller of the last command on a source knows
          versions, stops,
          lapsed      \* history: sources of which a failure was ignored since
                      \* the last write of the row that succeeded

vars == <<rows, deployed, op, lock, inbox, up, tracked, acked, versions, stops,
          lapsed>>

(* One thread for commands, one for each event, one that restores.         *)
Threads == {"command", "kit.deployed", "kit.teardowned", "restore"}

Idle == [at |-> "idle"]
NoThread == "none"

(* The caller waits, or the replica stopped before it answered.            *)
Unknown == MaxVersions + 1

Init ==
  /\ rows = [s \in Sources |-> 0]
  /\ deployed = [r \in Replicas |-> [s \in Sources |-> 0]]
  /\ op = [r \in Replicas |-> [t \in Threads |-> Idle]]
  /\ lock = [r \in Replicas |-> NoThread]
  /\ inbox = [r \in Replicas |-> {}]
  /\ up = [r \in Replicas |-> "subscribed"]
  /\ tracked = [r \in Replicas |-> {}]
  /\ acked = [s \in Sources |-> 0]
  /\ versions = 0 /\ stops = 0
  /\ lapsed = {}

(* news: the others are told of it, if it succeeds.                        *)
Operation(kind, s, v, restoring, news) ==
  [at |-> "lock", kind |-> kind, source |-> s, version |-> v,
   restoring |-> restoring, ok |-> TRUE, news |-> news]

Moves(r, t, o) == op' = [op EXCEPT ![r][t] = o]
At(r, t, at) == op[r][t].at = at
GoTo(r, t, at) == Moves(r, t, [op[r][t] EXCEPT !.at = at])

(* SaveDeployment and DeleteDeployment: their errors are reported or       *)
(* dropped, and the command goes on.                                       *)
Write(s, v) ==
  \/ rows' = [rows EXCEPT ![s] = v] /\ lapsed' = lapsed \ {s}
  \/ MayFail /\ rows' = rows /\ lapsed' = lapsed \cup {s}

(* The callers wait for the answer to one command before the next.         *)
NoCommand == \A r \in Replicas : At(r, "command", "idle")

DeployCommand(r, s) ==
  /\ up[r] = "subscribed" /\ NoCommand
  /\ versions < MaxVersions /\ versions' = versions + 1
  /\ acked' = [acked EXCEPT ![s] = Unknown]
  /\ Moves(r, "command", Operation("deploy", s, versions + 1, FALSE, TRUE))
  /\ UNCHANGED <<rows, deployed, lock, inbox, up, tracked, stops, lapsed>>

TeardownCommand(r, s) ==
  /\ up[r] = "subscribed" /\ NoCommand
  /\ acked' = [acked EXCEPT ![s] = Unknown]
  /\ tracked' = [tracked EXCEPT ![r] = @ \ {s}]
  /\ Moves(r, "command", Operation("teardown", s, 0, FALSE, s \in tracked[r]))
  /\ UNCHANGED <<rows, deployed, lock, inbox, up, versions, stops, lapsed>>

(* The row is read before the lock is taken.  Without a row, or when it    *)
(* cannot be read, nothing is mirrored.                                    *)
OnDeployed(r, s) ==
  /\ At(r, "kit.deployed", "idle")
  /\ [topic |-> "kit.deployed", source |-> s] \in inbox[r]
  /\ inbox' = [inbox EXCEPT ![r] = @ \ {[topic |-> "kit.deployed", source |-> s]}]
  /\ \/ rows[s] = 0 /\ UNCHANGED <<op, lapsed>>
     \/ /\ rows[s] # 0 /\ UNCHANGED lapsed
        /\ Moves(r, "kit.deployed", Operation("deploy", s, rows[s], TRUE, FALSE))
     \/ MayFail /\ UNCHANGED op /\ lapsed' = lapsed \cup {s}
  /\ UNCHANGED <<rows, deployed, lock, up, tracked, acked, versions, stops>>

OnTeardowned(r, s) ==
  /\ At(r, "kit.teardowned", "idle")
  /\ [topic |-> "kit.teardowned", source |-> s] \in inbox[r]
  /\ inbox' = [inbox EXCEPT ![r] = @ \ {[topic |-> "kit.teardowned", source |-> s]}]
  /\ Moves(r, "kit.teardowned", Operation("teardown", s, 0, FALSE, FALSE))
  /\ UNCHANGED <<rows, deployed, lock, up, tracked, acked, versions, stops, lapsed>>

(* A deployment that is there already is torn down first.                  *)
Lock(r, t) ==
  /\ At(r, t, "lock") /\ lock[r] = NoThread
  /\ lock' = [lock EXCEPT ![r] = t]
  /\ GoTo(r, t, IF op[r][t].kind = "teardown" \/ deployed[r][op[r][t].source] # 0
                THEN "remove" ELSE "eval")
  /\ UNCHANGED <<rows, deployed, inbox, up, tracked, acked, versions, stops, lapsed>>

(* Whether anything was registered decides, for a package that was not     *)
(* deployed here by a command, whether the others hear of its teardown.    *)
Remove(r, t) ==
  /\ At(r, t, "remove")
  /\ deployed' = [deployed EXCEPT ![r][op[r][t].source] = 0]
  /\ \E removed \in BOOLEAN :
       Moves(r, t, [op[r][t] EXCEPT !.at = "erase", !.news = @ \/ removed])
  /\ UNCHANGED <<rows, lock, inbox, up, tracked, acked, versions, stops, lapsed>>

EraseKeepsRow(r, t) ==
  /\ At(r, t, "erase")
  /\ GoTo(r, t, IF op[r][t].kind = "teardown" THEN "done" ELSE "eval")
  /\ UNCHANGED <<rows, deployed, lock, inbox, up, tracked, acked, versions, stops,
                 lapsed>>

(* The teardown that a deployment begins with deletes the row too, be it   *)
(* one that will not write it again.                                       *)
Erase(r, t) ==
  /\ At(r, t, "erase")
  /\ Write(op[r][t].source, 0)
  /\ GoTo(r, t, IF op[r][t].kind = "teardown" THEN "done" ELSE "eval")
  /\ UNCHANGED <<deployed, lock, inbox, up, tracked, acked, versions, stops>>

Eval(r, t) ==
  /\ At(r, t, "eval")
  /\ deployed' = [deployed EXCEPT ![r][op[r][t].source] = op[r][t].version]
  /\ GoTo(r, t, "save")
  /\ UNCHANGED <<rows, lock, inbox, up, tracked, acked, versions, stops, lapsed>>

(* What was registered is torn down again.  The caller of a command gets   *)
(* the error; of what is restored or mirrored it is reported, and the row  *)
(* stays.                                                                  *)
EvalThrows(r, t) ==
  /\ At(r, t, "eval")
  /\ op[r][t].restoring => MayFail
  /\ Moves(r, t, [op[r][t] EXCEPT !.at = "done", !.ok = FALSE])
  /\ lapsed' = IF op[r][t].restoring THEN lapsed \cup {op[r][t].source} ELSE lapsed
  /\ UNCHANGED <<rows, deployed, lock, inbox, up, tracked, acked, versions, stops>>

Save(r, t) ==
  /\ At(r, t, "save")
  /\ IF op[r][t].restoring THEN UNCHANGED <<rows, lapsed>>
                           ELSE Write(op[r][t].source, op[r][t].version)
  /\ GoTo(r, t, "done")
  /\ UNCHANGED <<deployed, lock, inbox, up, tracked, acked, versions, stops>>

Others(r) == {q \in Replicas \ {r} : up[q] = "subscribed"}

(* A command is answered.  The other replicas are told of a deployment     *)
(* that succeeded, which is tracked, and of the teardown of a package that *)
(* was tracked or had registered something.                                *)
Answer(r, o) ==
  LET news  == o.ok /\ o.news
      event == [topic |-> IF o.kind = "deploy" THEN "kit.deployed"
                                               ELSE "kit.teardowned",
                source |-> o.source]
  IN  /\ acked' = [acked EXCEPT ![o.source] = IF o.ok THEN o.version ELSE 0]
      /\ tracked' = IF o.kind = "deploy" /\ o.ok
                    THEN [tracked EXCEPT ![r] = @ \cup {o.source}] ELSE tracked
      /\ inbox' = [q \in Replicas |-> IF news /\ q \in Others(r)
                                      THEN inbox[q] \cup {event} ELSE inbox[q]]
      /\ lapsed' = IF o.ok /\ ~o.news /\ Others(r) # {}
                   THEN lapsed \cup {o.source} ELSE lapsed

(* The lock is released; restore goes on with the next row.                *)
Done(r, t) ==
  /\ At(r, t, "done")
  /\ lock' = [lock EXCEPT ![r] = NoThread]
  /\ Moves(r, t, IF t = "restore" THEN [at |-> "next", rows |-> op[r][t].rows]
                                  ELSE Idle)
  /\ IF t = "command" THEN Answer(r, op[r][t])
                      ELSE UNCHANGED <<acked, inbox, tracked, lapsed>>
  /\ UNCHANGED <<rows, deployed, up, versions, stops>>

(* A replica stops, or crashes, in the middle of whatever it does.  What   *)
(* it has in memory is gone; the rows stay.                                *)
Stop(r) ==
  /\ up[r] # "down" /\ stops < MaxStops
  /\ up' = [up EXCEPT ![r] = "down"]
  /\ stops' = stops + 1
  /\ deployed' = [deployed EXCEPT ![r] = [s \in Sources |-> 0]]
  /\ op' = [op EXCEPT ![r] = [t \in Threads |-> Idle]]
  /\ lock' = [lock EXCEPT ![r] = NoThread]
  /\ inbox' = [inbox EXCEPT ![r] = {}]
  /\ tracked' = [tracked EXCEPT ![r] = {}]
  /\ UNCHANGED <<rows, acked, versions, lapsed>>

(* When the rows cannot be loaded the replica goes on without.             *)
Start(r) ==
  /\ up[r] = "down"
  /\ up' = [up EXCEPT ![r] = "starting"]
  /\ \/ /\ Moves(r, "restore", [at |-> "next", rows |-> rows])
        /\ UNCHANGED lapsed
     \/ /\ MayFail
        /\ Moves(r, "restore", [at |-> "next", rows |-> [s \in Sources |-> 0]])
        /\ lapsed' = lapsed \cup {s \in Sources : rows[s] # 0}
  /\ UNCHANGED <<rows, deployed, lock, inbox, tracked, acked, versions, stops>>

RestoreNext(r) ==
  /\ At(r, "restore", "next")
  /\ LET left == op[r]["restore"].rows
     IN  \/ /\ \A s \in Sources : left[s] = 0
            /\ up' = [up EXCEPT ![r] = "subscribed"]
            /\ Moves(r, "restore", Idle)
         \/ \E s \in Sources :
              /\ left[s] # 0
              /\ Moves(r, "restore",
                       [at |-> "lock", kind |-> "deploy", source |-> s,
                        version |-> left[s], restoring |-> TRUE, ok |-> TRUE,
                        news |-> FALSE, rows |-> [left EXCEPT ![s] = 0]])
              /\ UNCHANGED up
  /\ UNCHANGED <<rows, deployed, lock, inbox, tracked, acked, versions, stops,
                 lapsed>>

Commands ==
  \E r \in Replicas, s \in Sources : DeployCommand(r, s) \/ TeardownCommand(r, s)

Steps ==
  \/ \E r \in Replicas, s \in Sources : OnDeployed(r, s) \/ OnTeardowned(r, s)
  \/ \E r \in Replicas, t \in Threads :
       \/ Lock(r, t) \/ Remove(r, t) \/ Erase(r, t)
       \/ Eval(r, t) \/ EvalThrows(r, t) \/ Save(r, t) \/ Done(r, t)
  \/ \E r \in Replicas : Stop(r) \/ Start(r) \/ RestoreNext(r)

Next == Commands \/ Steps

Spec == Init /\ [][Next]_vars
-----------------------------------------------------------------------------
Quiet ==
  \A r \in Replicas :
    /\ up[r] = "subscribed" /\ inbox[r] = {}
    /\ \A t \in Threads : At(r, t, "idle")

(* Commands that wait until every replica has mirrored the last.           *)
CalmSpec == Init /\ [][(Quiet /\ Commands) \/ Steps]_vars

(* Whenever nothing is under way a replica runs, and the store holds, what *)
(* the caller of the last command was told, through stops and crashes in   *)
(* the middle of other commands; of a command that was cut short by one it *)
(* runs what the store holds.  Excepted, until a command on the source has *)
(* written its row again, are the sources of which the code ignored a      *)
(* failure: a store call returned an error (deployment.go:237-239, 377;    *)
(* manager.go:124-128, 176-180), the evaluation of what is restored or     *)
(* mirrored threw (manager.go:149-153, 189-192), or a teardown was not     *)
(* announced, as its package was neither tracked nor had registered        *)
(* anything (modules/packages/module.go:287).                              *)
(* Of several replicas it is true when commands wait, and none deploys     *)
(* again what a replica runs: that case is VisibleOnEveryReplica.          *)
RunsWhatItAcknowledged ==
  Quiet => \A r \in Replicas, s \in Sources \ lapsed :
             /\ deployed[r][s] = rows[s]
             /\ acked[s] # Unknown => deployed[r][s] = acked[s]

(* docs/concepts/scaling.md: "A package deployed on one replica becomes    *)
(* visible on every replica in the queue group through the shared          *)
(* persistent store": when a deployment succeeded, and nothing is under    *)
(* way any more, every replica runs it.                                    *)
VisibleOnEveryReplica ==
  Quiet => \A r \in Replicas, s \in Sources :
             acked[s] \notin {0, Unknown} => deployed[r][s] = acked[s]
=============================================================================
