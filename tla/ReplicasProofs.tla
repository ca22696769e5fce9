--------------------------- MODULE ReplicasProofs ---------------------------
(* A replica with a store of its own, through any commands, failing        *)
(* evaluations, store calls that fail, stops and restarts: of every source *)
(* that has not lapsed, as a failure was ignored since its row was last    *)
(* written, it runs what the store holds, and both are what its callers    *)
(* were told.  The hypothesis Single is what the code needs: a replica     *)
(* that mirrors another deletes the other's row (deployment.go, Deploy     *)
(* when restoring).                                                        *)
EXTENDS Replicas, TLAPS

(* At most one replica uses the store.                                     *)
Single == \A q, r \in Replicas : q = r

(* What a thread is at: nothing; the deployment or teardown of a command;  *)
(* Restore between two rows, and with a row.                               *)
Resting == [at : {"idle"}]
Working == [at : {"lock", "remove", "erase", "eval", "save", "done"},
            kind : {"deploy", "teardown"}, source : Sources, version : Nat,
            restoring : {FALSE}, ok : BOOLEAN, news : BOOLEAN]
Pausing == [at : {"next"}, rows : [Sources -> Nat]]
Resuming == [at : {"lock", "eval", "save", "done"}, kind : {"deploy"},
             source : Sources, version : Nat, restoring : {TRUE}, ok : BOOLEAN,
             news : BOOLEAN, rows : [Sources -> Nat]]
Frames == Resting \cup Working \cup Pausing \cup Resuming

TypedOp ==
  /\ op \in [Replicas -> [Threads -> Frames]]
  /\ \A r \in Replicas :
       /\ op[r]["kit.deployed"] \in Resting
       /\ op[r]["kit.teardowned"] \in Resting
       /\ op[r]["command"] \in Resting \cup Working
       /\ op[r]["restore"] \in Resting \cup Pausing \cup Resuming

Types ==
  /\ rows \in [Sources -> Nat]
  /\ deployed \in [Replicas -> [Sources -> Nat]]
  /\ acked \in [Sources -> Nat \cup {Unknown}]
  /\ versions \in Nat
  /\ up \in [Replicas -> {"down", "starting", "subscribed"}]
  /\ inbox \in [Replicas -> {{}}]
  /\ TypedOp

(* Where a command has come with the row of its source and what runs.      *)
Halfway(r, o) ==
  LET s == o.source
  IN  /\ o.at \in {"lock", "remove"} => s \in lapsed \/ deployed[r][s] = rows[s]
      /\ o.at \in {"erase", "eval"} => deployed[r][s] = 0
      /\ o.at \in {"eval", "save"} => o.kind = "deploy" /\ (s \in lapsed \/ rows[s] = 0)
      /\ o.at = "save" => deployed[r][s] = o.version
      /\ o.at = "done" => \/ s \in lapsed
                          \/ /\ deployed[r][s] = rows[s]
                             /\ rows[s] = IF o.ok THEN o.version ELSE 0
      /\ o.at # "done" => o.ok
      /\ o.kind = "teardown" => o.version = 0

(* A command has its replica to itself, and its caller knows nothing yet.  *)
Commanding(r) ==
  LET o == op[r]["command"]
  IN  o.at # "idle" =>
        /\ up[r] = "subscribed" /\ acked[o.source] = Unknown /\ Halfway(r, o)
        /\ \A s \in Sources \ {o.source} : s \in lapsed \/ deployed[r][s] = rows[s]

(* Restore has the rows of its start; what is no longer left of them runs. *)
Restoring(r) ==
  LET o == op[r]["restore"]
  IN  /\ o.at = "idle" <=> up[r] # "starting"
      /\ o.at # "idle" =>
           \A s \in Sources : o.rows[s] # 0 => o.rows[s] = rows[s] /\ deployed[r][s] = 0
      /\ o.at = "next" =>
           \A s \in Sources : o.rows[s] = 0 => s \in lapsed \/ deployed[r][s] = rows[s]
      /\ o.at \notin {"idle", "next"} =>
           /\ o.version = rows[o.source] /\ o.rows[o.source] = 0
           /\ o.at \in {"lock", "eval"} => deployed[r][o.source] = 0
           /\ o.at \in {"save", "done"}
                => o.source \in lapsed \/ deployed[r][o.source] = o.version
           /\ \A s \in Sources \ {o.source} :
                o.rows[s] = 0 => s \in lapsed \/ deployed[r][s] = rows[s]

(* A replica that is down runs nothing, one that is idle what is stored.   *)
Settled(r) ==
  /\ up[r] = "down" => \A s \in Sources : deployed[r][s] = 0
  /\ up[r] = "subscribed" /\ op[r]["command"].at = "idle"
       => \A s \in Sources \ lapsed : deployed[r][s] = rows[s]

(* What a caller was told is in the store.                                 *)
Known == \A s \in Sources \ lapsed : acked[s] # Unknown => rows[s] = acked[s]

Phases == \A r \in Replicas : Commanding(r) /\ Restoring(r) /\ Settled(r)

Inv == Types /\ Phases /\ Known
-----------------------------------------------------------------------------
LEMMA Both == ASSUME NEW r \in Replicas
              PROVE  "command" \in Threads /\ "restore" \in Threads
BY DEF Threads

(* A move changes what one thread is at, and with one replica that is all. *)
LEMMA Moved ==
  ASSUME Types, NEW r \in Replicas, NEW t \in Threads, NEW o, Moves(r, t, o)
  PROVE  /\ op'[r][t] = o
         /\ \A u \in Threads \ {t} : op'[r][u] = op[r][u]
BY DEF Types, TypedOp, Moves

LEMMA TypedCommand ==
  ASSUME Types, Single, NEW r \in Replicas, NEW o, Moves(r, "command", o),
         o \in Resting \/ o \in Working
  PROVE  TypedOp'
<1>1. op' \in [Replicas -> [Threads -> Frames]]
  BY DEF Types, TypedOp, Moves, Frames
<1>2. /\ op'[r]["command"] = o /\ op'[r]["restore"] = op[r]["restore"]
      /\ op'[r]["kit.deployed"] = op[r]["kit.deployed"]
      /\ op'[r]["kit.teardowned"] = op[r]["kit.teardowned"]
  BY Moved DEF Threads
<1>3. \A q \in Replicas : q = r
  BY DEF Single
<1> QED BY <1>1, <1>2, <1>3 DEF Types, TypedOp

LEMMA TypedRestore ==
  ASSUME Types, Single, NEW r \in Replicas, NEW o, Moves(r, "restore", o),
         o \in Resting \/ o \in Pausing \/ o \in Resuming
  PROVE  TypedOp'
<1>1. op' \in [Replicas -> [Threads -> Frames]]
  BY DEF Types, TypedOp, Moves, Frames
<1>2. /\ op'[r]["restore"] = o /\ op'[r]["command"] = op[r]["command"]
      /\ op'[r]["kit.deployed"] = op[r]["kit.deployed"]
      /\ op'[r]["kit.teardowned"] = op[r]["kit.teardowned"]
  BY Moved DEF Threads
<1>3. \A q \in Replicas : q = r
  BY DEF Single
<1> QED BY <1>1, <1>2, <1>3 DEF Types, TypedOp

(* Which frame a thread is at, by its field at.                            *)
LEMMA CommandFrame ==
  ASSUME Types, NEW r \in Replicas, op[r]["command"].at # "idle"
  PROVE  op[r]["command"] \in Working
BY DEF Types, TypedOp, Resting

LEMMA RestoreFrame ==
  ASSUME Types, NEW r \in Replicas,
         op[r]["restore"].at # "idle", op[r]["restore"].at # "next"
  PROVE  op[r]["restore"] \in Resuming
BY DEF Types, TypedOp, Resting, Pausing

LEMMA PausingFrame ==
  ASSUME Types, NEW r \in Replicas, op[r]["restore"].at = "next"
  PROVE  op[r]["restore"] \in Pausing
BY DEF Types, TypedOp, Resting, Resuming

(* Events come from other replicas: only two threads do anything.          *)
LEMMA Workers ==
  ASSUME Types, NEW r \in Replicas, NEW t \in Threads, op[r][t].at # "idle"
  PROVE  t \in {"command", "restore"}
BY DEF Types, TypedOp, Threads, Resting

(* The fields of an operation that goes on.                                *)
LEMMA CommandGoes ==
  ASSUME Types, NEW r \in Replicas, op[r]["command"] \in Working,
         NEW a \in {"lock", "remove", "erase", "eval", "save", "done"},
         NEW o, o = [op[r]["command"] EXCEPT !.at = a]
  PROVE  /\ o \in Working
         /\ o.at = a /\ o.kind = op[r]["command"].kind
         /\ o.source = op[r]["command"].source /\ o.version = op[r]["command"].version
         /\ o.ok = op[r]["command"].ok
BY DEF Working

LEMMA RestoreGoes ==
  ASSUME Types, NEW r \in Replicas, op[r]["restore"] \in Resuming,
         NEW a \in {"lock", "eval", "save", "done"},
         NEW o, o = [op[r]["restore"] EXCEPT !.at = a]
  PROVE  /\ o \in Resuming
         /\ o.at = a /\ o.rows = op[r]["restore"].rows
         /\ o.source = op[r]["restore"].source /\ o.version = op[r]["restore"].version
BY DEF Resuming

(* With one replica, what holds of it is all there is to show.             *)
LEMMA OfTheOne ==
  ASSUME Single, NEW r \in Replicas, Types', Commanding(r)', Restoring(r)', Settled(r)',
         Known'
  PROVE  Inv'
BY DEF Single, Inv, Phases
-----------------------------------------------------------------------------
LEMMA DeployCommandKeeps ==
  ASSUME Single, Inv, NEW r \in Replicas, NEW s \in Sources, DeployCommand(r, s)
  PROVE  Inv'
<1> DEFINE m == Operation("deploy", s, versions + 1, FALSE, TRUE)
<1>1. Types /\ Known /\ Commanding(r) /\ Restoring(r) /\ Settled(r)
  BY DEF Inv, Phases
<1>2. /\ m \in Working /\ m.at = "lock" /\ m.kind = "deploy" /\ m.source = s
      /\ m.ok
  BY <1>1 DEF Types, TypedOp, Operation, Working
<1>3. Moves(r, "command", m)
  BY DEF DeployCommand
<1> HIDE DEF m
<1>4. op'[r]["command"] = m /\ op'[r]["restore"] = op[r]["restore"]
  BY <1>1, <1>3, Moved, Both
<1>5. Types'
  <2>1. /\ rows' \in [Sources -> Nat] /\ versions' \in Nat
        /\ deployed' \in [Replicas -> [Sources -> Nat]]
        /\ acked' \in [Sources -> Nat \cup {Unknown}]
        /\ up' \in [Replicas -> {"down", "starting", "subscribed"}]
        /\ inbox' \in [Replicas -> {{}}]
    BY <1>1 DEF Types, TypedOp, DeployCommand
  <2>2. TypedOp'
    BY <1>1, <1>2, <1>3, TypedCommand
  <2> QED BY <2>1, <2>2 DEF Types, TypedOp
<1>6. /\ up[r] = "subscribed" /\ op[r]["command"].at = "idle"
      /\ acked' = [acked EXCEPT ![s] = Unknown]
      /\ UNCHANGED <<rows, deployed, up, lapsed>>
  BY DEF DeployCommand, NoCommand, At
<1>7. \A x \in Sources \ lapsed : deployed[r][x] = rows[x]
  BY <1>1, <1>6 DEF Settled
<1>8. Commanding(r)'
  <2>1. acked'[s] = Unknown
    BY <1>1, <1>6 DEF Types, TypedOp
  <2> QED BY <1>2, <1>4, <1>6, <1>7, <2>1 DEF Commanding, Halfway
<1>9. Restoring(r)'
  BY <1>1, <1>4, <1>6 DEF Restoring
<1>10. Settled(r)'
  BY <1>2, <1>4, <1>6, <1>7 DEF Settled
<1>11. Known'
  BY <1>1, <1>6 DEF Known, Types
<1> QED BY <1>5, <1>8, <1>9, <1>10, <1>11, OfTheOne

LEMMA TeardownCommandKeeps ==
  ASSUME Single, Inv, NEW r \in Replicas, NEW s \in Sources, TeardownCommand(r, s)
  PROVE  Inv'
<1> DEFINE m == Operation("teardown", s, 0, FALSE, s \in tracked[r])
<1>1. Types /\ Known /\ Commanding(r) /\ Restoring(r) /\ Settled(r)
  BY DEF Inv, Phases
<1>2. /\ m \in Working /\ m.at = "lock" /\ m.kind = "teardown" /\ m.source = s
      /\ m.ok /\ m.version = 0
  BY <1>1 DEF Types, TypedOp, Operation, Working
<1>3. Moves(r, "command", m)
  BY DEF TeardownCommand
<1> HIDE DEF m
<1>4. op'[r]["command"] = m /\ op'[r]["restore"] = op[r]["restore"]
  BY <1>1, <1>3, Moved, Both
<1>5. Types'
  <2>1. /\ rows' \in [Sources -> Nat] /\ versions' \in Nat
        /\ deployed' \in [Replicas -> [Sources -> Nat]]
        /\ acked' \in [Sources -> Nat \cup {Unknown}]
        /\ up' \in [Replicas -> {"down", "starting", "subscribed"}]
        /\ inbox' \in [Replicas -> {{}}]
    BY <1>1 DEF Types, TypedOp, TeardownCommand
  <2>2. TypedOp'
    BY <1>1, <1>2, <1>3, TypedCommand
  <2> QED BY <2>1, <2>2 DEF Types, TypedOp
<1>6. /\ up[r] = "subscribed" /\ op[r]["command"].at = "idle"
      /\ acked' = [acked EXCEPT ![s] = Unknown]
      /\ UNCHANGED <<rows, deployed, up, lapsed>>
  BY DEF TeardownCommand, NoCommand, At
<1>7. \A x \in Sources \ lapsed : deployed[r][x] = rows[x]
  BY <1>1, <1>6 DEF Settled
<1>8. Commanding(r)'
  <2>1. acked'[s] = Unknown
    BY <1>1, <1>6 DEF Types, TypedOp
  <2> QED BY <1>2, <1>4, <1>6, <1>7, <2>1 DEF Commanding, Halfway
<1>9. Restoring(r)'
  BY <1>1, <1>4, <1>6 DEF Restoring
<1>10. Settled(r)'
  BY <1>2, <1>4, <1>6, <1>7 DEF Settled
<1>11. Known'
  BY <1>1, <1>6 DEF Known, Types
<1> QED BY <1>5, <1>8, <1>9, <1>10, <1>11, OfTheOne

(* Nobody announces anything to the only replica.                          *)
LEMMA NoEvents ==
  ASSUME Inv, NEW r \in Replicas, NEW s \in Sources
  PROVE  ~OnDeployed(r, s) /\ ~OnTeardowned(r, s)
BY DEF Inv, Types, OnDeployed, OnTeardowned
-----------------------------------------------------------------------------
(* A step of a command takes its frame to another, for the same source,    *)
(* and leaves the replica subscribed: what is to show is where it is.      *)
LEMMA CommandSteps ==
  ASSUME Single, Inv, NEW r \in Replicas, op[r]["command"] \in Working,
         NEW o \in Working, Moves(r, "command", o), o.source = op[r]["command"].source,
         UNCHANGED <<inbox, up, acked, versions>>,
         rows' \in [Sources -> Nat], deployed' \in [Replicas -> [Sources -> Nat]],
         \A s \in Sources \ {o.source} :
           /\ rows'[s] = rows[s] /\ deployed'[r][s] = deployed[r][s]
           /\ s \in lapsed => s \in lapsed',
         Halfway(r, o)'
  PROVE  Inv'
<1> DEFINE c == op[r]["command"]
<1>1. Types /\ Known /\ Commanding(r) /\ Restoring(r) /\ Settled(r)
  BY DEF Inv, Phases
<1>2. op'[r]["command"] = o /\ op'[r]["restore"] = op[r]["restore"]
  BY <1>1, Moved, Both
<1>3. o.at # "idle" /\ c.at # "idle" /\ o.source \in Sources
  BY DEF Working
<1>4. /\ up[r] = "subscribed" /\ acked[o.source] = Unknown
      /\ \A s \in Sources \ {o.source} : s \in lapsed \/ deployed[r][s] = rows[s]
  BY <1>1, <1>3 DEF Commanding
<1>5. op[r]["restore"].at = "idle"
  BY <1>1, <1>4 DEF Restoring
<1>6. Types'
  <2>1. TypedOp'
    BY <1>1, TypedCommand
  <2> QED BY <1>1, <2>1 DEF Types, TypedOp
<1>7. Commanding(r)'
  BY <1>2, <1>4 DEF Commanding
<1>8. Restoring(r)'
  BY <1>2, <1>4, <1>5 DEF Restoring
<1>9. Settled(r)'
  BY <1>2, <1>3, <1>4 DEF Settled
<1>10. Known'
  BY <1>1, <1>4 DEF Known
<1> QED BY <1>6, <1>7, <1>8, <1>9, <1>10, OfTheOne

(* A store call on one source; afterwards its row is as it should be, or   *)
(* the source has lapsed.                                                  *)
LEMMA Written ==
  ASSUME NEW x \in Sources, NEW v \in Nat, rows \in [Sources -> Nat], Write(x, v)
  PROVE  /\ rows' \in [Sources -> Nat]
         /\ rows'[x] = v \/ x \in lapsed'
         /\ \A s \in Sources \ {x} : rows'[s] = rows[s] /\ (s \in lapsed => s \in lapsed')
BY DEF Write

LEMMA LockCommandKeeps ==
  ASSUME Single, Inv, NEW r \in Replicas, Lock(r, "command")
  PROVE  Inv'
<1> DEFINE c == op[r]["command"]
<1>1. Types /\ Commanding(r)
  BY DEF Inv, Phases
<1>2. c \in Working
  BY <1>1, CommandFrame DEF Lock, At
<1>3. Halfway(r, c) /\ c.source \in Sources
  BY <1>1, <1>2 DEF Commanding, Working
<1>4. PICK a \in {"remove", "eval"} :
        /\ GoTo(r, "command", a)
        /\ a = "eval" => c.kind = "deploy" /\ deployed[r][c.source] = 0
  BY <1>2 DEF Lock, Working
<1>5. PICK o \in Working :
        /\ Moves(r, "command", o) /\ o.at = a /\ o.kind = c.kind
        /\ o.source = c.source /\ o.version = c.version /\ o.ok = c.ok
  BY <1>1, <1>2, <1>4, CommandGoes DEF GoTo
<1>6. c.at = "lock" /\ UNCHANGED <<rows, deployed, inbox, up, acked, versions, lapsed>>
  BY DEF Lock, At
<1>7. Halfway(r, o)'
  BY <1>3, <1>4, <1>5, <1>6 DEF Halfway
<1> QED BY <1>1, <1>2, <1>5, <1>6, <1>7, CommandSteps DEF Types

LEMMA RemoveCommandKeeps ==
  ASSUME Single, Inv, NEW r \in Replicas, Remove(r, "command")
  PROVE  Inv'
<1> DEFINE c == op[r]["command"]
<1>1. Types /\ Commanding(r)
  BY DEF Inv, Phases
<1>2. c \in Working
  BY <1>1, CommandFrame DEF Remove, At
<1>3. Halfway(r, c) /\ c.source \in Sources
  BY <1>1, <1>2 DEF Commanding, Working
<1>4. PICK o \in Working :
        /\ Moves(r, "command", o) /\ o.at = "erase" /\ o.kind = c.kind
        /\ o.source = c.source /\ o.version = c.version /\ o.ok = c.ok
  <2>1. PICK removed \in BOOLEAN :
          Moves(r, "command", [c EXCEPT !.at = "erase", !.news = @ \/ removed])
    BY DEF Remove
  <2>2. PICK o : o = [c EXCEPT !.at = "erase", !.news = @ \/ removed]
    OBVIOUS
  <2>3. /\ o \in Working /\ o.at = "erase" /\ o.kind = c.kind
        /\ o.source = c.source /\ o.version = c.version /\ o.ok = c.ok
    BY <1>2, <2>2 DEF Working
  <2> QED BY <2>1, <2>2, <2>3
<1>5. /\ c.at = "remove" /\ UNCHANGED <<rows, inbox, up, acked, versions, lapsed>>
      /\ deployed' = [deployed EXCEPT ![r][c.source] = 0]
  BY DEF Remove, At
<1>6. /\ deployed' \in [Replicas -> [Sources -> Nat]] /\ deployed'[r][c.source] = 0
      /\ \A s \in Sources \ {c.source} : deployed'[r][s] = deployed[r][s]
  BY <1>1, <1>3, <1>5 DEF Types
<1>7. Halfway(r, o)'
  BY <1>3, <1>4, <1>5, <1>6 DEF Halfway
<1> QED BY <1>1, <1>2, <1>4, <1>5, <1>6, <1>7, CommandSteps DEF Types

LEMMA EraseCommandKeeps ==
  ASSUME Single, Inv, NEW r \in Replicas, Erase(r, "command")
  PROVE  Inv'
<1> DEFINE c == op[r]["command"]
<1>1. Types /\ Commanding(r)
  BY DEF Inv, Phases
<1>2. c \in Working
  BY <1>1, CommandFrame DEF Erase, At
<1>3. Halfway(r, c) /\ c.source \in Sources
  BY <1>1, <1>2 DEF Commanding, Working
<1>4. PICK a \in {"done", "eval"} :
        GoTo(r, "command", a) /\ (a = "eval" <=> c.kind = "deploy")
  BY <1>2 DEF Erase, Working
<1>5. PICK o \in Working :
        /\ Moves(r, "command", o) /\ o.at = a /\ o.kind = c.kind
        /\ o.source = c.source /\ o.version = c.version /\ o.ok = c.ok
  BY <1>1, <1>2, <1>4, CommandGoes DEF GoTo
<1>6. /\ c.at = "erase" /\ UNCHANGED <<deployed, inbox, up, acked, versions>>
      /\ Write(c.source, 0)
  BY DEF Erase, At
<1>7. /\ rows' \in [Sources -> Nat]
      /\ rows'[c.source] = 0 \/ c.source \in lapsed'
      /\ \A s \in Sources \ {c.source} :
           rows'[s] = rows[s] /\ (s \in lapsed => s \in lapsed')
  BY <1>1, <1>3, <1>6, Written DEF Types
<1>8. c.kind \in {"deploy", "teardown"}
  BY <1>2 DEF Working
<1>9. Halfway(r, o)'
  BY <1>3, <1>4, <1>5, <1>6, <1>7, <1>8 DEF Halfway
<1> QED BY <1>1, <1>2, <1>5, <1>6, <1>7, <1>9, CommandSteps DEF Types

LEMMA EvalCommandKeeps ==
  ASSUME Single, Inv, NEW r \in Replicas, Eval(r, "command")
  PROVE  Inv'
<1> DEFINE c == op[r]["command"]
<1>1. Types /\ Commanding(r)
  BY DEF Inv, Phases
<1>2. c \in Working
  BY <1>1, CommandFrame DEF Eval, At
<1>3. Halfway(r, c) /\ c.source \in Sources
  BY <1>1, <1>2 DEF Commanding, Working
<1>4. PICK o \in Working :
        /\ Moves(r, "command", o) /\ o.at = "save" /\ o.kind = c.kind
        /\ o.source = c.source /\ o.version = c.version /\ o.ok = c.ok
  BY <1>1, <1>2, CommandGoes DEF Eval, GoTo
<1>5. /\ c.at = "eval" /\ UNCHANGED <<rows, inbox, up, acked, versions, lapsed>>
      /\ deployed' = [deployed EXCEPT ![r][c.source] = c.version]
      /\ c.version \in Nat
  BY <1>2 DEF Eval, At, Working
<1>6. /\ deployed' \in [Replicas -> [Sources -> Nat]]
      /\ deployed'[r][c.source] = c.version
      /\ \A s \in Sources \ {c.source} : deployed'[r][s] = deployed[r][s]
  BY <1>1, <1>3, <1>5 DEF Types
<1>7. Halfway(r, o)'
  BY <1>3, <1>4, <1>5, <1>6 DEF Halfway
<1> QED BY <1>1, <1>2, <1>4, <1>5, <1>6, <1>7, CommandSteps DEF Types

LEMMA EvalThrowsKeeps ==
  ASSUME Single, Inv, NEW r \in Replicas, EvalThrows(r, "command")
  PROVE  Inv'
<1> DEFINE c == op[r]["command"]
<1>1. Types /\ Commanding(r)
  BY DEF Inv, Phases
<1>2. c \in Working
  BY <1>1, CommandFrame DEF EvalThrows, At
<1>3. Halfway(r, c) /\ c.source \in Sources
  BY <1>1, <1>2 DEF Commanding, Working
<1>4. PICK o : o = [c EXCEPT !.at = "done", !.ok = FALSE]
  OBVIOUS
<1>5. /\ o \in Working /\ o.at = "done" /\ o.ok = FALSE
      /\ o.source = c.source /\ o.kind = c.kind
      /\ Moves(r, "command", o)
  BY <1>2, <1>4 DEF Working, EvalThrows
<1>6. c.at = "eval" /\ UNCHANGED <<rows, deployed, inbox, up, acked, versions, lapsed>>
  BY <1>2 DEF EvalThrows, At, Working
<1>7. Halfway(r, o)'
  BY <1>3, <1>5, <1>6 DEF Halfway
<1> QED BY <1>1, <1>2, <1>5, <1>6, <1>7, CommandSteps DEF Types

LEMMA SaveCommandKeeps ==
  ASSUME Single, Inv, NEW r \in Replicas, Save(r, "command")
  PROVE  Inv'
<1> DEFINE c == op[r]["command"]
<1>1. Types /\ Commanding(r)
  BY DEF Inv, Phases
<1>2. c \in Working
  BY <1>1, CommandFrame DEF Save, At
<1>3. Halfway(r, c) /\ c.source \in Sources
  BY <1>1, <1>2 DEF Commanding, Working
<1>4. PICK o \in Working :
        /\ Moves(r, "command", o) /\ o.at = "done" /\ o.kind = c.kind
        /\ o.source = c.source /\ o.version = c.version /\ o.ok = c.ok
  BY <1>1, <1>2, CommandGoes DEF Save, GoTo
<1>5. /\ c.at = "save" /\ UNCHANGED <<deployed, inbox, up, acked, versions>>
      /\ Write(c.source, c.version)
      /\ c.version \in Nat
  BY <1>2 DEF Save, At, Working
<1>6. /\ rows' \in [Sources -> Nat]
      /\ rows'[c.source] = c.version \/ c.source \in lapsed'
      /\ \A s \in Sources \ {c.source} :
           rows'[s] = rows[s] /\ (s \in lapsed => s \in lapsed')
  BY <1>1, <1>3, <1>5, Written DEF Types
<1>7. Halfway(r, o)'
  BY <1>3, <1>4, <1>5, <1>6 DEF Halfway
<1> QED BY <1>1, <1>2, <1>4, <1>5, <1>6, <1>7, CommandSteps DEF Types

(* The answer says what the store holds now.                               *)
LEMMA DoneCommandKeeps ==
  ASSUME Single, Inv, NEW r \in Replicas, Done(r, "command")
  PROVE  Inv'
<1> DEFINE c == op[r]["command"]
<1>1. Types /\ Known /\ Commanding(r) /\ Restoring(r) /\ Settled(r)
  BY DEF Inv, Phases
<1>2. c \in Working
  BY <1>1, CommandFrame DEF Done, At
<1>3. /\ Halfway(r, c) /\ c.source \in Sources /\ c.at = "done"
      /\ c.version \in Nat /\ up[r] = "subscribed"
      /\ \A s \in Sources \ {c.source} : s \in lapsed \/ deployed[r][s] = rows[s]
  BY <1>1, <1>2 DEF Commanding, Working, Done, At
<1>4. /\ Moves(r, "command", Idle)
      /\ acked' = [acked EXCEPT ![c.source] = IF c.ok THEN c.version ELSE 0]
      /\ inbox' = [q \in Replicas |-> inbox[q]] /\ lapsed' = lapsed
      /\ UNCHANGED <<rows, deployed, up, versions>>
  <2>1. Others(r) = {}
    BY DEF Single, Others
  <2> QED BY <2>1 DEF Done, Answer
<1>5. op'[r]["command"] = Idle /\ op'[r]["restore"] = op[r]["restore"]
  BY <1>1, <1>4, Moved, Both
<1>6. Idle \in Resting /\ Idle.at = "idle"
  BY DEF Idle, Resting
<1>7. Types'
  <2>1. inbox' = [q \in Replicas |-> {}]
    BY <1>1, <1>4 DEF Types
  <2>2. acked' \in [Sources -> Nat \cup {Unknown}]
    BY <1>1, <1>3, <1>4 DEF Types
  <2>3. TypedOp'
    BY <1>1, <1>4, <1>6, TypedCommand
  <2> QED BY <1>1, <1>4, <2>1, <2>2, <2>3 DEF Types
<1>8. Commanding(r)'
  BY <1>5, <1>6 DEF Commanding
<1>9. Restoring(r)'
  BY <1>1, <1>4, <1>5 DEF Restoring
<1>10. \A s \in Sources \ lapsed : deployed[r][s] = rows[s]
  BY <1>3 DEF Halfway
<1>11. Settled(r)'
  BY <1>3, <1>4, <1>10 DEF Settled
<1>12. Known'
  <2>1. acked'[c.source] = IF c.ok THEN c.version ELSE 0
    BY <1>1, <1>3, <1>4 DEF Types
  <2>2. c.source \in lapsed \/ rows[c.source] = IF c.ok THEN c.version ELSE 0
    BY <1>3 DEF Halfway
  <2>3. \A s \in Sources \ {c.source} : acked'[s] = acked[s]
    BY <1>1, <1>4 DEF Types
  <2> QED BY <1>1, <1>4, <2>1, <2>2, <2>3 DEF Known
<1> QED BY <1>7, <1>8, <1>9, <1>11, <1>12, OfTheOne
-----------------------------------------------------------------------------
(* While a replica restores it is given no command.                        *)
LEMMA RestoresAlone ==
  ASSUME Inv, NEW r \in Replicas, op[r]["restore"].at # "idle"
  PROVE  up[r] = "starting" /\ op[r]["command"].at = "idle"
BY DEF Inv, Phases, Types, Commanding, Restoring

(* A step of Restore with a row: the row is the store's, its source is the *)
(* only one that changes, and no row is ever changed.                      *)
LEMMA RestoreSteps ==
  ASSUME Single, Inv, NEW r \in Replicas, op[r]["restore"] \in Resuming,
         NEW o \in Resuming, Moves(r, "restore", o),
         o.source = op[r]["restore"].source, o.version = op[r]["restore"].version,
         o.rows = op[r]["restore"].rows,
         UNCHANGED <<rows, inbox, up, acked, versions>>,
         deployed' \in [Replicas -> [Sources -> Nat]],
         \A s \in Sources \ {o.source} : deployed'[r][s] = deployed[r][s],
         \A s \in lapsed : s \in lapsed',
         o.at \in {"lock", "eval"} => deployed'[r][o.source] = 0,
         o.at \in {"save", "done"}
           => o.source \in lapsed' \/ deployed'[r][o.source] = o.version
  PROVE  Inv'
<1> DEFINE c == op[r]["restore"]
<1>1. Types /\ Known /\ Restoring(r)
  BY DEF Inv, Phases
<1>2. op'[r]["restore"] = o /\ op'[r]["command"] = op[r]["command"]
  BY <1>1, Moved, Both
<1>3. /\ o.at \notin {"idle", "next"} /\ c.at \notin {"idle", "next"}
      /\ o.source \in Sources
  BY DEF Resuming
<1>4. up[r] = "starting" /\ op[r]["command"].at = "idle"
  BY <1>3, RestoresAlone
<1>5. /\ o.version = rows[o.source] /\ o.rows[o.source] = 0
      /\ \A s \in Sources \ {o.source} : o.rows[s] = 0 => s \in lapsed \/ deployed[r][s] = rows[s]
      /\ \A s \in Sources : o.rows[s] # 0 => o.rows[s] = rows[s] /\ deployed[r][s] = 0
  BY <1>1, <1>3 DEF Restoring
<1>6. Types'
  <2>1. TypedOp'
    BY <1>1, TypedRestore
  <2> QED BY <1>1, <2>1 DEF Types
<1>7. Commanding(r)'
  BY <1>2, <1>4 DEF Commanding
<1>8. Restoring(r)'
  <2>1. \A s \in Sources \ {o.source} :
          /\ o.rows[s] # 0 => o.rows[s] = rows[s] /\ deployed'[r][s] = 0
          /\ o.rows[s] = 0 => s \in lapsed' \/ deployed'[r][s] = rows[s]
    BY <1>5
  <2>2. o.rows[o.source] = 0 /\ o.version = rows[o.source]
    BY <1>5
  <2> QED BY <1>2, <1>3, <1>4, <2>1, <2>2 DEF Restoring
<1>9. Settled(r)'
  BY <1>4 DEF Settled
<1>10. Known'
  BY <1>1 DEF Known
<1> QED BY <1>6, <1>7, <1>8, <1>9, <1>10, OfTheOne

(* What is restored was not there: nothing is torn down, no row deleted.   *)
LEMMA LockRestoreKeeps ==
  ASSUME Single, Inv, NEW r \in Replicas, Lock(r, "restore")
  PROVE  Inv'
<1> DEFINE c == op[r]["restore"]
<1>1. Types /\ Restoring(r) /\ c.at = "lock"
  BY DEF Inv, Phases, Lock, At
<1>2. c \in Resuming
  BY <1>1, RestoreFrame
<1>3. c.source \in Sources /\ c.kind = "deploy"
  BY <1>2 DEF Resuming
<1>4. deployed[r][c.source] = 0
  BY <1>1, <1>3 DEF Restoring
<1>5. /\ GoTo(r, "restore", "eval")
      /\ UNCHANGED <<rows, deployed, inbox, up, acked, versions, lapsed>>
  BY <1>3, <1>4 DEF Lock
<1>6. PICK o \in Resuming :
        /\ Moves(r, "restore", o) /\ o.at = "eval" /\ o.rows = c.rows
        /\ o.source = c.source /\ o.version = c.version
  BY <1>1, <1>2, <1>5, RestoreGoes DEF GoTo
<1>7. deployed' \in [Replicas -> [Sources -> Nat]]
  BY <1>1, <1>5 DEF Types
<1> QED BY <1>2, <1>4, <1>5, <1>6, <1>7, RestoreSteps

LEMMA EvalRestoreKeeps ==
  ASSUME Single, Inv, NEW r \in Replicas, Eval(r, "restore")
  PROVE  Inv'
<1> DEFINE c == op[r]["restore"]
<1>1. Types /\ c.at = "eval"
  BY DEF Inv, Eval, At
<1>2. c \in Resuming
  BY <1>1, RestoreFrame
<1>3. c.source \in Sources /\ c.version \in Nat
  BY <1>2 DEF Resuming
<1>4. PICK o \in Resuming :
        /\ Moves(r, "restore", o) /\ o.at = "save" /\ o.rows = c.rows
        /\ o.source = c.source /\ o.version = c.version
  BY <1>1, <1>2, RestoreGoes DEF Eval, GoTo
<1>5. /\ deployed' = [deployed EXCEPT ![r][c.source] = c.version]
      /\ UNCHANGED <<rows, inbox, up, acked, versions, lapsed>>
  BY DEF Eval
<1>6. /\ deployed' \in [Replicas -> [Sources -> Nat]]
      /\ deployed'[r][c.source] = c.version
      /\ \A s \in Sources \ {c.source} : deployed'[r][s] = deployed[r][s]
  BY <1>1, <1>3, <1>5 DEF Types
<1> QED BY <1>2, <1>4, <1>5, <1>6, RestoreSteps

LEMMA SaveRestoreKeeps ==
  ASSUME Single, Inv, NEW r \in Replicas, Save(r, "restore")
  PROVE  Inv'
<1> DEFINE c == op[r]["restore"]
<1>1. Types /\ Restoring(r) /\ c.at = "save"
  BY DEF Inv, Phases, Save, At
<1>2. c \in Resuming
  BY <1>1, RestoreFrame
<1>3. c.source \in Sources /\ c.restoring
  BY <1>2 DEF Resuming
<1>4. PICK o \in Resuming :
        /\ Moves(r, "restore", o) /\ o.at = "done" /\ o.rows = c.rows
        /\ o.source = c.source /\ o.version = c.version
  BY <1>1, <1>2, RestoreGoes DEF Save, GoTo
<1>5. UNCHANGED <<rows, deployed, inbox, up, acked, versions, lapsed>>
  BY <1>3 DEF Save
<1>6. /\ c.source \in lapsed \/ deployed[r][c.source] = c.version
      /\ deployed' \in [Replicas -> [Sources -> Nat]]
  BY <1>1, <1>5 DEF Restoring, Types
<1> QED BY <1>2, <1>4, <1>5, <1>6, RestoreSteps

(* The row is done with; Restore looks for the next.                       *)
LEMMA DoneRestoreKeeps ==
  ASSUME Single, Inv, NEW r \in Replicas, Done(r, "restore")
  PROVE  Inv'
<1> DEFINE c == op[r]["restore"]
<1>1. Types /\ Known /\ Restoring(r) /\ c.at = "done"
  BY DEF Inv, Phases, Done, At
<1>2. c \in Resuming
  BY <1>1, RestoreFrame
<1>3. c.source \in Sources /\ c.rows \in [Sources -> Nat]
  BY <1>2 DEF Resuming
<1>4. PICK o \in Pausing : Moves(r, "restore", o) /\ o.at = "next" /\ o.rows = c.rows
  BY <1>3 DEF Done, Pausing
<1>5. UNCHANGED <<rows, deployed, inbox, up, acked, versions, lapsed>>
  BY DEF Done
<1>6. op'[r]["restore"] = o /\ op'[r]["command"] = op[r]["command"]
  BY <1>1, <1>4, Moved, Both
<1>7. up[r] = "starting" /\ op[r]["command"].at = "idle"
  BY <1>1, RestoresAlone
<1>8. Types'
  <2>1. TypedOp'
    BY <1>1, <1>4, TypedRestore
  <2> QED BY <1>1, <1>5, <2>1 DEF Types
<1>9. Commanding(r)'
  BY <1>6, <1>7 DEF Commanding
<1>10. Restoring(r)'
  <2>1. \A s \in Sources :
          /\ o.rows[s] # 0 => o.rows[s] = rows[s] /\ deployed[r][s] = 0
          /\ o.rows[s] = 0 => s \in lapsed \/ deployed[r][s] = rows[s]
    BY <1>1, <1>3, <1>4 DEF Restoring
  <2> QED BY <1>4, <1>5, <1>6, <1>7, <2>1 DEF Restoring
<1>11. Settled(r)'
  BY <1>5, <1>7 DEF Settled
<1>12. Known'
  BY <1>1, <1>5 DEF Known
<1> QED BY <1>8, <1>9, <1>10, <1>11, <1>12, OfTheOne

(* What throws is not deployed, and its source has lapsed.                 *)
LEMMA EvalThrowsRestoreKeeps ==
  ASSUME Single, Inv, NEW r \in Replicas, EvalThrows(r, "restore")
  PROVE  Inv'
<1> DEFINE c == op[r]["restore"]
<1>1. Types /\ c.at = "eval"
  BY DEF Inv, EvalThrows, At
<1>2. c \in Resuming
  BY <1>1, RestoreFrame
<1>3. c.source \in Sources /\ c.restoring
  BY <1>2 DEF Resuming
<1>4. PICK o : o = [c EXCEPT !.at = "done", !.ok = FALSE]
  OBVIOUS
<1>5. /\ o \in Resuming /\ o.at = "done" /\ o.rows = c.rows
      /\ o.source = c.source /\ o.version = c.version
      /\ Moves(r, "restore", o)
  BY <1>2, <1>4 DEF Resuming, EvalThrows
<1>6. /\ lapsed' = lapsed \cup {c.source}
      /\ UNCHANGED <<rows, deployed, inbox, up, acked, versions>>
  BY <1>3 DEF EvalThrows
<1>7. deployed' \in [Replicas -> [Sources -> Nat]]
  BY <1>1, <1>6 DEF Types
<1> QED BY <1>2, <1>5, <1>6, <1>7, RestoreSteps

(* The other steps are not those of Restore, or of a command.              *)
LEMMA RestoreOnlyAdds ==
  ASSUME Inv, NEW r \in Replicas
  PROVE  ~Remove(r, "restore") /\ ~Erase(r, "restore")
<1> DEFINE c == op[r]["restore"]
<1>1. Types
  BY DEF Inv
<1>2. c.at \notin {"idle", "next"} => c.at \notin {"remove", "erase"}
  BY <1>1, RestoreFrame DEF Resuming
<1> QED BY <1>2 DEF Remove, Erase, At

LEMMA WorkKeeps ==
  ASSUME Single, Inv, NEW r \in Replicas, NEW t \in Threads,
         \/ Lock(r, t) \/ Remove(r, t) \/ Erase(r, t)
         \/ Eval(r, t) \/ EvalThrows(r, t) \/ Save(r, t) \/ Done(r, t)
  PROVE  Inv'
<1>1. op[r][t].at # "idle"
  BY DEF Lock, Remove, Erase, Eval, EvalThrows, Save, Done, At
<1>2. t = "command" \/ t = "restore"
  BY <1>1, Workers DEF Inv
<1>3. CASE t = "command"
  BY <1>3, LockCommandKeeps, RemoveCommandKeeps, EraseCommandKeeps, EvalCommandKeeps,
     EvalThrowsKeeps, SaveCommandKeeps, DoneCommandKeeps
<1>4. CASE t = "restore"
  BY <1>4, LockRestoreKeeps, EvalRestoreKeeps, EvalThrowsRestoreKeeps, SaveRestoreKeeps,
     DoneRestoreKeeps, RestoreOnlyAdds
<1> QED BY <1>2, <1>3, <1>4
-----------------------------------------------------------------------------
(* Whatever a replica was doing, it forgets; the store stays as it was.    *)
LEMMA StopKeeps ==
  ASSUME Single, Inv, NEW r \in Replicas, Stop(r)
  PROVE  Inv'
<1>1. Types /\ Known
  BY DEF Inv
<1>2. /\ up' = [up EXCEPT ![r] = "down"]
      /\ deployed' = [deployed EXCEPT ![r] = [s \in Sources |-> 0]]
      /\ op' = [op EXCEPT ![r] = [t \in Threads |-> Idle]]
      /\ inbox' = [inbox EXCEPT ![r] = {}]
      /\ UNCHANGED <<rows, acked, versions, lapsed>>
  BY DEF Stop
<1>3. Idle \in Resting /\ Idle.at = "idle"
  BY DEF Idle, Resting
<1>4. /\ up'[r] = "down" /\ \A s \in Sources : deployed'[r][s] = 0
      /\ op'[r] = [t \in Threads |-> Idle]
  BY <1>1, <1>2 DEF Types, TypedOp
<1>5. op'[r]["command"] = Idle /\ op'[r]["restore"] = Idle
  BY <1>4, Both
<1>6. Types'
  <2>1. op' \in [Replicas -> [Threads -> Frames]]
    BY <1>1, <1>2, <1>3 DEF Types, TypedOp, Frames
  <2>2. TypedOp'
    <3>1. \A q \in Replicas, t \in Threads : op'[q][t] \in Resting
      BY <1>3, <1>4 DEF Single
    <3> QED BY <2>1, <3>1 DEF TypedOp, Threads
  <2>3. deployed' \in [Replicas -> [Sources -> Nat]]
    BY <1>1, <1>2 DEF Types
  <2>4. /\ up' \in [Replicas -> {"down", "starting", "subscribed"}]
        /\ inbox' \in [Replicas -> {{}}]
    BY <1>1, <1>2 DEF Types
  <2> QED BY <1>1, <1>2, <2>2, <2>3, <2>4 DEF Types
<1>7. Commanding(r)'
  BY <1>3, <1>5 DEF Commanding
<1>8. Restoring(r)'
  BY <1>3, <1>4, <1>5 DEF Restoring
<1>9. Settled(r)'
  BY <1>4 DEF Settled
<1>10. Known'
  BY <1>1, <1>2 DEF Known
<1> QED BY <1>6, <1>7, <1>8, <1>9, <1>10, OfTheOne

LEMMA StartKeeps ==
  ASSUME Single, Inv, NEW r \in Replicas, Start(r)
  PROVE  Inv'
<1>1. Types /\ Known /\ Commanding(r) /\ Restoring(r) /\ Settled(r)
  BY DEF Inv, Phases
<1>2. /\ up[r] = "down" /\ up' = [up EXCEPT ![r] = "starting"]
      /\ UNCHANGED <<rows, deployed, inbox, acked, versions>>
  BY DEF Start
<1>3. PICK o \in Pausing :
        /\ Moves(r, "restore", o) /\ o.at = "next"
        /\ \A s \in Sources : o.rows[s] # 0 => o.rows[s] = rows[s]
        /\ \A s \in Sources : s \in lapsed => s \in lapsed'
        /\ \A s \in Sources : o.rows[s] = 0 => s \in lapsed' \/ rows[s] = 0
  <2>1. CASE /\ Moves(r, "restore", [at |-> "next", rows |-> rows])
             /\ lapsed' = lapsed
    <3>1. [at |-> "next", rows |-> rows] \in Pausing
      BY <1>1 DEF Pausing, Types
    <3> QED BY <2>1, <3>1
  <2>2. CASE /\ Moves(r, "restore", [at |-> "next", rows |-> [s \in Sources |-> 0]])
             /\ lapsed' = lapsed \cup {s \in Sources : rows[s] # 0}
    <3>1. [at |-> "next", rows |-> [s \in Sources |-> 0]] \in Pausing
      BY DEF Pausing
    <3> QED BY <2>2, <3>1
  <2> QED BY <2>1, <2>2 DEF Start
<1>4. op'[r]["restore"] = o /\ op'[r]["command"] = op[r]["command"]
  BY <1>1, <1>3, Moved, Both
<1>5. op[r]["command"].at = "idle" /\ \A s \in Sources : deployed[r][s] = 0
  BY <1>1, <1>2 DEF Commanding, Settled
<1>6. up' \in [Replicas -> {"down", "starting", "subscribed"}] /\ up'[r] = "starting"
  BY <1>1, <1>2 DEF Types
<1>7. Types'
  <2>1. TypedOp'
    BY <1>1, <1>3, TypedRestore
  <2> QED BY <1>1, <1>2, <1>6, <2>1 DEF Types
<1>8. Commanding(r)'
  BY <1>4, <1>5 DEF Commanding
<1>9. Restoring(r)'
  BY <1>2, <1>3, <1>4, <1>5, <1>6 DEF Restoring
<1>10. Settled(r)'
  BY <1>6 DEF Settled
<1>11. Known'
  BY <1>1, <1>2, <1>3 DEF Known
<1> QED BY <1>7, <1>8, <1>9, <1>10, <1>11, OfTheOne

(* No row is left: all that is stored runs, and commands may come.         *)
LEMMA RestoredKeeps ==
  ASSUME Single, Inv, NEW r \in Replicas, op[r]["restore"].at = "next",
         \A s \in Sources : op[r]["restore"].rows[s] = 0,
         up' = [up EXCEPT ![r] = "subscribed"], Moves(r, "restore", Idle),
         UNCHANGED <<rows, deployed, inbox, acked, versions, lapsed>>
  PROVE  Inv'
<1>1. Types /\ Known /\ Restoring(r)
  BY DEF Inv, Phases
<1>2. Idle \in Resting /\ Idle.at = "idle"
  BY DEF Idle, Resting
<1>3. op'[r]["restore"] = Idle /\ op'[r]["command"] = op[r]["command"]
  BY <1>1, Moved, Both
<1>4. /\ op[r]["command"].at = "idle"
      /\ \A s \in Sources \ lapsed : deployed[r][s] = rows[s]
  BY <1>1, RestoresAlone DEF Restoring
<1>5. up' \in [Replicas -> {"down", "starting", "subscribed"}] /\ up'[r] = "subscribed"
  BY <1>1 DEF Types
<1>6. Types'
  <2>1. TypedOp'
    BY <1>1, <1>2, TypedRestore
  <2> QED BY <1>1, <1>5, <2>1 DEF Types
<1>7. Commanding(r)'
  BY <1>3, <1>4 DEF Commanding
<1>8. Restoring(r)'
  BY <1>2, <1>3, <1>5 DEF Restoring
<1>9. Settled(r)'
  BY <1>4, <1>5 DEF Settled
<1>10. Known'
  BY <1>1 DEF Known
<1> QED BY <1>6, <1>7, <1>8, <1>9, <1>10, OfTheOne

(* The next row is the store's still, as no command has come in between.   *)
LEMMA NextRowKeeps ==
  ASSUME Single, Inv, NEW r \in Replicas, NEW s \in Sources,
         op[r]["restore"].at = "next", op[r]["restore"].rows[s] # 0,
         Moves(r, "restore",
               [at |-> "lock", kind |-> "deploy", source |-> s,
                version |-> op[r]["restore"].rows[s], restoring |-> TRUE, ok |-> TRUE,
                news |-> FALSE, rows |-> [op[r]["restore"].rows EXCEPT ![s] = 0]]),
         UNCHANGED <<rows, deployed, inbox, up, acked, versions, lapsed>>
  PROVE  Inv'
<1> DEFINE c == op[r]["restore"]
<1>1. Types /\ Known /\ Restoring(r)
  BY DEF Inv, Phases
<1>2. c.rows \in [Sources -> Nat]
  BY <1>1, PausingFrame DEF Pausing
<1>3. PICK o \in Resuming :
        /\ Moves(r, "restore", o) /\ o.at = "lock" /\ o.source = s
        /\ o.version = c.rows[s] /\ o.rows = [c.rows EXCEPT ![s] = 0]
  <2>1. PICK w \in [Sources -> Nat] : w = [c.rows EXCEPT ![s] = 0]
    BY <1>2
  <2>2. PICK v \in Nat : v = c.rows[s]
    BY <1>2
  <2>3. PICK o : o = [at |-> "lock", kind |-> "deploy", source |-> s, version |-> v,
                      restoring |-> TRUE, ok |-> TRUE, news |-> FALSE, rows |-> w]
    OBVIOUS
  <2>4. /\ o \in Resuming /\ o.at = "lock" /\ o.source = s /\ o.version = v
        /\ o.rows = w
    BY <2>3 DEF Resuming
  <2>5. Moves(r, "restore", o)
    BY <2>1, <2>2, <2>3
  <2> QED BY <2>1, <2>2, <2>4, <2>5
<1>4. op'[r]["restore"] = o /\ op'[r]["command"] = op[r]["command"]
  BY <1>1, <1>3, Moved, Both
<1>5. up[r] = "starting" /\ op[r]["command"].at = "idle"
  BY RestoresAlone
<1>6. Types'
  <2>1. TypedOp'
    BY <1>1, <1>3, TypedRestore
  <2> QED BY <1>1, <2>1 DEF Types
<1>7. Commanding(r)'
  BY <1>4, <1>5 DEF Commanding
<1>8. Restoring(r)'
  <2>1. o.version = rows[s] /\ deployed[r][s] = 0
    BY <1>1, <1>3 DEF Restoring
  <2>2. o.rows[s] = 0 /\ \A x \in Sources \ {s} : o.rows[x] = c.rows[x]
    BY <1>2, <1>3
  <2>3. \A x \in Sources \ {s} :
          /\ o.rows[x] # 0 => o.rows[x] = rows[x] /\ deployed[r][x] = 0
          /\ o.rows[x] = 0 => x \in lapsed \/ deployed[r][x] = rows[x]
    BY <1>1, <2>2 DEF Restoring
  <2> QED BY <1>3, <1>4, <1>5, <2>1, <2>2, <2>3 DEF Restoring
<1>9. Settled(r)'
  BY <1>5 DEF Settled
<1>10. Known'
  BY <1>1 DEF Known
<1> QED BY <1>6, <1>7, <1>8, <1>9, <1>10, OfTheOne

LEMMA RestoreNextKeeps ==
  ASSUME Single, Inv, NEW r \in Replicas, RestoreNext(r)
  PROVE  Inv'
<1>1. /\ op[r]["restore"].at = "next"
      /\ UNCHANGED <<rows, deployed, inbox, acked, versions, lapsed>>
  BY DEF RestoreNext, At
<1>2. CASE /\ \A s \in Sources : op[r]["restore"].rows[s] = 0
           /\ up' = [up EXCEPT ![r] = "subscribed"]
           /\ Moves(r, "restore", Idle)
  BY <1>1, <1>2, RestoredKeeps
<1>3. ASSUME NEW s \in Sources,
             op[r]["restore"].rows[s] # 0, UNCHANGED up,
             Moves(r, "restore",
                   [at |-> "lock", kind |-> "deploy", source |-> s,
                    version |-> op[r]["restore"].rows[s], restoring |-> TRUE, ok |-> TRUE,
                    news |-> FALSE, rows |-> [op[r]["restore"].rows EXCEPT ![s] = 0]])
      PROVE  Inv'
  BY <1>1, <1>3, NextRowKeeps
<1> QED BY <1>2, <1>3 DEF RestoreNext
-----------------------------------------------------------------------------
LEMMA InitInv == Init => Inv
<1> SUFFICES ASSUME Init PROVE Inv
  OBVIOUS
<1>1. Idle \in Resting /\ Idle.at = "idle"
  BY DEF Idle, Resting
<1>2. \A r \in Replicas, t \in Threads : op[r][t] = Idle
  BY DEF Init
<1>3. Types
  <2>1. TypedOp
    BY <1>1, <1>2 DEF Init, TypedOp, Frames, Threads
  <2> QED BY <2>1 DEF Init, Types
<1>4. \A r \in Replicas : op[r]["command"].at = "idle" /\ op[r]["restore"].at = "idle"
  BY <1>1, <1>2, Both
<1>5. Phases
  BY <1>4 DEF Init, Phases, Commanding, Restoring, Settled
<1>6. Known
  BY DEF Init, Known
<1> QED BY <1>3, <1>5, <1>6 DEF Inv

LEMMA StutterKeeps ==
  ASSUME Inv, UNCHANGED vars
  PROVE  Inv'
BY DEF vars, Inv, Types, TypedOp, Phases, Commanding, Halfway, Restoring, Settled, Known

LEMMA NextInv ==
  ASSUME Single, Inv, [Next]_vars
  PROVE  Inv'
<1>1. CASE Commands
  BY <1>1, DeployCommandKeeps, TeardownCommandKeeps DEF Commands
<1>2. CASE Steps
  <2>1. ASSUME NEW r \in Replicas, NEW s \in Sources, OnDeployed(r, s) \/ OnTeardowned(r, s)
        PROVE  Inv'
    BY <2>1, NoEvents
  <2>2. ASSUME NEW r \in Replicas, NEW t \in Threads,
               \/ Lock(r, t) \/ Remove(r, t) \/ Erase(r, t)
               \/ Eval(r, t) \/ EvalThrows(r, t) \/ Save(r, t) \/ Done(r, t)
        PROVE  Inv'
    BY <2>2, WorkKeeps
  <2>3. ASSUME NEW r \in Replicas, Stop(r) \/ Start(r) \/ RestoreNext(r)
        PROVE  Inv'
    BY <2>3, StopKeeps, StartKeeps, RestoreNextKeeps
  <2> QED BY <1>2, <2>1, <2>2, <2>3 DEF Steps
<1>3. CASE UNCHANGED vars
  BY <1>3, StutterKeeps
<1> QED BY <1>1, <1>2, <1>3 DEF Next

(* A replica that shares its store with no other (deployment.go) runs what *)
(* its callers were told, and the store holds it, whenever nothing is      *)
(* under way: whatever commands, failing evaluations, stops and restarts   *)
(* went before, and wherever in them it stopped.  Excepted are the sources *)
(* of which the store refused a write or the loading, or whose restoring   *)
(* threw, until a command has written their row again.                     *)
THEOREM AcknowledgedIsKept ==
  ASSUME Single
  PROVE  Spec => []RunsWhatItAcknowledged
<1>1. Init => Inv
  BY InitInv
<1>2. Inv /\ [Next]_vars => Inv'
  BY NextInv
<1>3. Inv => RunsWhatItAcknowledged
  <2> SUFFICES ASSUME Inv, Quiet, NEW r \in Replicas, NEW s \in Sources \ lapsed
               PROVE  /\ deployed[r][s] = rows[s]
                      /\ acked[s] # Unknown => deployed[r][s] = acked[s]
    BY DEF RunsWhatItAcknowledged
  <2>1. up[r] = "subscribed" /\ op[r]["command"].at = "idle"
    BY Both DEF Quiet, At
  <2>2. deployed[r][s] = rows[s]
    BY <2>1 DEF Inv, Phases, Settled
  <2> QED BY <2>2 DEF Inv, Known
<1> QED BY <1>1, <1>2, <1>3, PTL DEF Spec
=============================================================================
