--------------------------- MODULE MCRuntimeParts ---------------------------
(***************************************************************************)
(* Sequential and small parts of the system, one in each behaviour:        *)
(*   compartments: two deployments, a tool name, two subscriptions, or one *)
(*     when code frees the name with kit.unregister;                       *)
(*   replica: a replica that is stopped twice, two sources;                *)
(*   pair: two replicas, one source, no command while there is something   *)
(*     to mirror, and no deployment of what a replica still runs;          *)
(*   bridge: two tracked goroutines, room for two jobs;                    *)
(*   allocator: pages of 64 bytes, two size classes per power of two;      *)
(*   table: three keys, two of which collide until the table has grown.    *)
(***************************************************************************)
EXTENDS Compartments, TLC

VARIABLES subject,
          rows, running_version, thread, lock, inbox, up, tracked, acked, versions, stops, lapsed,
          kernelClosed, closing, closed, cancelled, freed, mu, queue, pump, worker, closer,
          m, allocations, aborted,
          t

CONSTANTS d1, d2, n1, n2, w1, w2

Alike == Permutations({d1, d2}) \cup Permutations({n1, n2}) \cup Permutations({w1, w2})

Hashes == <<0, 2, 1>>

Single == INSTANCE Replicas WITH
  Replicas <- {"r"}, Sources <- {"p", "q"}, MayFail <- TRUE, MaxVersions <- 4, MaxStops <- 2,
  deployed <- running_version, op <- thread

Pair == INSTANCE Replicas WITH
  Replicas <- {"r1", "r2"}, Sources <- {"p"}, MayFail <- TRUE, MaxVersions <- 4, MaxStops <- 0,
  deployed <- running_version, op <- thread

JSBridge == INSTANCE Bridge WITH Workers <- {w1, w2}, QueueSize <- 2

Allocator == INSTANCE Tlsf WITH
  SlBits <- 1, PageWords <- 16, MaxPages <- 4, Ids <- 1..3, Sizes <- {2, 9, 25},
  live <- allocations

Table == INSTANCE HashTable WITH
  Keys <- 1..3, Values <- 1..2, Hash <- Hashes, InitialCapacity <- 2

replicaVars == <<rows, running_version, thread, lock, inbox, up, tracked, acked,
                 versions, stops, lapsed>>
bridgeVars == <<kernelClosed, closing, closed, cancelled, freed, mu, queue, pump, worker, closer>>
allocatorVars == <<m, allocations, aborted>>

Subjects == {"compartments", "replica", "pair", "bridge", "allocator", "table"}

PartsInit ==
  /\ subject \in Subjects
  /\ Init /\ JSBridge!Init /\ Table!Init
  /\ unregisters => subject = "compartments"
  /\ \/ subject = "pair" /\ Pair!Init
     \/ subject # "pair" /\ Single!Init
  /\ \/ subject = "allocator" /\ Allocator!Init
     \/ subject # "allocator" /\ m = 0 /\ allocations = 0 /\ aborted = FALSE

PartsNext ==
  \/ /\ subject = "compartments" /\ Next
     /\ unregisters => used' # Ids
     /\ UNCHANGED <<subject, replicaVars, bridgeVars, allocatorVars, t>>
  \/ /\ subject = "replica" /\ Single!Next
     /\ UNCHANGED <<subject, vars, bridgeVars, allocatorVars, t>>
  \/ /\ subject = "pair"
     /\ \/ Pair!Steps
        \/ /\ Pair!Quiet /\ Pair!Commands
           /\ (\E r \in {"r1", "r2"} : running_version[r]["p"] # 0) => versions' = versions
     /\ UNCHANGED <<subject, vars, bridgeVars, allocatorVars, t>>
  \/ /\ subject = "bridge" /\ JSBridge!Next
     /\ UNCHANGED <<subject, vars, replicaVars, allocatorVars, t>>
  \/ /\ subject = "allocator" /\ Allocator!Next
     /\ UNCHANGED <<subject, vars, replicaVars, bridgeVars, t>>
  \/ /\ subject = "table" /\ Table!Next
     /\ UNCHANGED <<subject, vars, replicaVars, bridgeVars, allocatorVars>>

PartsSpec ==
  PartsInit /\ [][PartsNext]_<<subject, vars, replicaVars, bridgeVars, allocatorVars, t>>

(* When nothing is under way a replica runs, and the store holds, what the *)
(* caller of the last command was told, except for sources of which a      *)
(* failure was ignored since; two replicas likewise, when no package is    *)
(* deployed again that one of them runs.                                   *)
RunsWhatItAcknowledged ==
  /\ subject = "replica" => Single!RunsWhatItAcknowledged
  /\ subject = "pair" => Pair!RunsWhatItAcknowledged

(* QuickJS is freed when neither a tracked goroutine nor JavaScript is at  *)
(* work, and none starts afterwards.                                       *)
FreedAlone == JSBridge!FreedAlone

(* No word that the program was given is written by the allocator or holds *)
(* what another allocation stored, and no entry of Map is written behind   *)
(* the end of its buffer.                                                  *)
NothingOverruns ==
  /\ subject = "allocator" => Allocator!PayloadsIntact
  /\ subject = "table" => Table!EntriesFit

(* Headers, tags, references back, lists and maps of the allocator agree.  *)
ListsMatchMemory == (subject = "allocator") => Allocator!ListsMatchMemory

(* There is a block for what memory was grown for.                         *)
GrownIsEnough == (subject = "allocator") => Allocator!GrownIsEnough

(* Map keeps every key with its value, in the order of insertion.          *)
IsOrderedMap == Table!IsOrderedMap
=============================================================================
