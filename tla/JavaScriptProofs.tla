-------------------------- MODULE JavaScriptProofs --------------------------
(***************************************************************************)
(* Theorems about Compartments, for any number of sources and identities,  *)
(* and about the Bridge that they run in, for any number of tracked        *)
(* goroutines and any size of the queue.                                   *)
(*                                                                         *)
(* Known: what is live or referred to has an entry in the Go registry, of  *)
(* the same source, unless the call in progress has not come there yet or  *)
(* the teardown in progress still has it on its list; and an entry belongs *)
(* to a source that runs.  So once a source is removed and its teardown is *)
(* over, nothing of it is left: TeardownReleases.                          *)
(*                                                                         *)
(* Owned: as long as nobody calls kit.unregister, all that is known of an  *)
(* entry belongs to one source, so a cleanup removes its own: this gives   *)
(* ForeignSurvives.                                                        *)
(*                                                                         *)
(* BridgeInv: who is at work at each point of the close, so that it frees  *)
(* QuickJS alone: FreedAlone.                                              *)
(***************************************************************************)
EXTENDS Compartments, TLAPS

Owners == Sources \cup {NoOne}

Calls ==
  [at : {"make", "enter", "refer", "unmake", "unrefer"}, source : Sources, key : Keys]

Operations ==
  [kind : {"deploy", "teardown"}, source : Sources,
   removed : SUBSET Keys, left : SUBSET Keys, ok : BOOLEAN,
   at : {"remove", "cleanup", "sweep", "drop", "eval"}]

TypeOK ==
  /\ goReg \in [Keys -> Owners] /\ refs \in [Keys -> Owners]
  /\ live \in [Keys -> Owners]
  /\ call \in Calls \cup {None} /\ op \in Operations \cup {None}
  /\ used \subseteq Ids /\ unregisters \in BOOLEAN

Making(k) == call # None /\ call.key = k

(* What the teardown in progress still has to remove.                      *)
Sweeping(k, s) ==
  op.at \in {"cleanup", "sweep"} /\ op.source = s /\ k \in op.removed
Cleaning(k, s) ==
  op.at = "cleanup" /\ op.source = s /\ k \in op.left

(* An entry of the Go registry is one of a source that runs; what is live  *)
(* or referred to has an entry, or is being removed.                       *)
Entered ==
  \A k \in Keys \ late : goReg[k] # NoOne => goReg[k] \in running
LiveKnown ==
  \A k \in Keys \ late :
    live[k] # NoOne /\ ~Making(k) => goReg[k] = live[k] \/ Cleaning(k, live[k])
RefsKnown ==
  \A k \in Keys \ late :
    refs[k] # NoOne /\ ~Making(k) => goReg[k] = refs[k] \/ Sweeping(k, refs[k])

(* Nothing is made for a topic but its subscription.                       *)
TopicsKnown ==
  /\ call.at = "make" => call.key[1] # "topic"
  /\ \A k \in Keys : k[1] = "topic" => live[k] = NoOne

(* The same of what the call in progress has made so far.                  *)
CallKnown ==
  /\ call.at \in {"enter", "refer"} => live[call.key] \in {NoOne, call.source}
  /\ call.at = "refer" /\ call.key \notin late =>
       /\ goReg[call.key] = call.source \/ Sweeping(call.key, call.source)
       /\ live[call.key] # NoOne =>
            goReg[call.key] = call.source \/ Cleaning(call.key, call.source)
  /\ call.at = "unrefer" => live[call.key] = NoOne

Known == TypeOK /\ Entered /\ LiveKnown /\ RefsKnown /\ TopicsKnown /\ CallKnown
-----------------------------------------------------------------------------
USE DEF Known, TypeOK, Owners, Calls, Operations, None

LEMMA InitKnown == Init => Known
BY CompartmentsAssumption
   DEF Init, Nothing, Entered, LiveKnown, RefsKnown, TopicsKnown, CallKnown

(* A call begins.                                                          *)
LEMMA BeginKnown ==
  ASSUME Known, NEW c \in Calls, call = None, call' = c,
         c.at \in {"make", "unmake", "enter"},
         c.at = "enter" => c.key[1] = "topic", c.at = "make" => c.key[1] # "topic",
         used' \subseteq Ids,
         UNCHANGED <<goReg, refs, live, deployed, running, begun, op, late, unregisters>>
  PROVE  Known'
BY DEF Entered, LiveKnown, RefsKnown, TopicsKnown, CallKnown, Making, Sweeping, Cleaning

(* The steps of the call change what is said of its key only.              *)
LEMMA MakeKnown == Known /\ Make => Known'
BY CompartmentsAssumption
   DEF Make, Entered, LiveKnown, RefsKnown, TopicsKnown, CallKnown, Making, Sweeping, Cleaning

LEMMA EnterKnown == Known /\ Enter => Known'
BY CompartmentsAssumption
   DEF Enter, Owner, Entered, LiveKnown, RefsKnown, TopicsKnown, CallKnown, Making, Sweeping, Cleaning

LEMMA UnmakeKnown == Known /\ Unmake => Known'
BY DEF Unmake, Entered, LiveKnown, RefsKnown, TopicsKnown, CallKnown, Making, Sweeping, Cleaning

LEMMA UnreferKnown == Known /\ Unrefer => Known'
BY DEF Unrefer, Entered, LiveKnown, RefsKnown, TopicsKnown, CallKnown, Making, Sweeping, Cleaning

LEMMA ReferKnown == Known /\ Refer => Known'
BY CompartmentsAssumption
   DEF Refer, Call, Owner, Keys, Entered, LiveKnown, RefsKnown, TopicsKnown, CallKnown, Making,
       Sweeping, Cleaning

(* The steps of the teardown move entries from the registry to removed.    *)
LEMMA RemoveKnown == ASSUME Known, Remove PROVE Known'
<1> DEFINE gone == {k \in Keys : goReg[k] = op.source}
<1>1. /\ op \in Operations /\ op.at = "remove" /\ op.source \in Sources
      /\ goReg' = [k \in Keys |-> IF k \in gone THEN NoOne ELSE goReg[k]]
      /\ op' = [op EXCEPT !.removed = gone, !.left = gone,
                          !.at = IF gone = {} THEN "drop" ELSE "cleanup"]
  BY DEF Remove
<1> HIDE DEF gone
<1>2. TypeOK'
  <2>1. gone \in SUBSET Keys
    BY DEF gone
  <2>2. op' \in Operations
    BY <1>1, <2>1
  <2>3. goReg' \in [Keys -> Owners]
    BY <1>1
  <2>4. UNCHANGED <<refs, live, call, used, unregisters>>
    BY DEF Remove
  <2> QED
    BY <2>2, <2>3, <2>4
<1>3. Entered'
  BY <1>1, CompartmentsAssumption DEF Remove, Entered, gone
<1>4. \A k \in Keys, s \in Sources :
        goReg[k] = s => goReg'[k] = s \/ (Sweeping(k, s)' /\ Cleaning(k, s)')
  BY <1>1 DEF Sweeping, Cleaning, gone
<1>5. \A k \in Keys, s \in Sources : ~Sweeping(k, s) /\ ~Cleaning(k, s)
  BY <1>1 DEF Sweeping, Cleaning
<1>6. UNCHANGED <<refs, live, call, late>>
  BY DEF Remove
<1>7. LiveKnown' /\ RefsKnown'
  BY <1>4, <1>5, <1>6 DEF LiveKnown, RefsKnown, Making
<1>8. CallKnown' /\ TopicsKnown'
  BY <1>4, <1>5, <1>6 DEF CallKnown, TopicsKnown
<1> QED
  BY <1>2, <1>3, <1>7, <1>8

LEMMA CleanupKnown == ASSUME Known, Cleanup PROVE Known'
<1>1. PICK k \in op.left :
        /\ live' = [live EXCEPT ![k] = NoOne]
        /\ op' = [op EXCEPT !.left = @ \ {k},
                            !.at = IF op.left = {k} THEN "sweep" ELSE "cleanup"]
  BY DEF Cleanup
<1>2. op \in Operations /\ op.at = "cleanup" /\ k \in Keys
  BY DEF Cleanup
<1>3. TypeOK' /\ live'[k] = NoOne
  BY <1>1, <1>2 DEF Cleanup
<1>4. \A j \in Keys, s \in Sources :
        /\ Sweeping(j, s) => Sweeping(j, s)'
        /\ Cleaning(j, s) /\ j # k => Cleaning(j, s)'
  BY <1>1, <1>2 DEF Sweeping, Cleaning
<1>5. UNCHANGED <<goReg, refs, running, call, late>>
      /\ \A j \in Keys : live'[j] \in {live[j], NoOne}
  BY <1>1 DEF Cleanup
<1>6. Entered' /\ RefsKnown'
  BY <1>4, <1>5 DEF Entered, RefsKnown, Making
<1>7. LiveKnown'
  BY <1>3, <1>4, <1>5 DEF LiveKnown, Making
<1>8. CallKnown' /\ TopicsKnown'
  BY <1>3, <1>4, <1>5 DEF CallKnown, TopicsKnown
<1> QED
  BY <1>3, <1>6, <1>7, <1>8

LEMMA SweepKnown == ASSUME Known, Sweep PROVE Known'
<1>1. /\ op \in Operations /\ op.at = "sweep" /\ op'.at = "drop"
      /\ UNCHANGED <<goReg, live, running, call, late>>
      /\ call.at = "none"
  BY DEF Sweep
<1>2. TypeOK'
  <2>1. op' \in Operations
    BY <1>1 DEF Sweep
  <2>2. refs' \in [Keys -> Owners]
    BY DEF Sweep
  <2> QED
    BY <1>1, <2>1, <2>2 DEF Sweep
<1>3. \A k \in Keys, s \in Sources :
        /\ ~Cleaning(k, s)
        /\ Sweeping(k, s) => refs'[k] = NoOne
        /\ refs'[k] \in {refs[k], NoOne}
  BY <1>1 DEF Sweep, Sweeping, Cleaning
<1>4. Entered' /\ LiveKnown' /\ RefsKnown'
  BY <1>1, <1>2, <1>3 DEF Entered, LiveKnown, RefsKnown, Making
<1>5. CallKnown' /\ TopicsKnown'
  BY <1>1 DEF CallKnown, TopicsKnown
<1> QED
  BY <1>2, <1>4, <1>5

LEMMA OtherKnown ==
  ASSUME Known,
         Drop \/ Evaluate \/ Evaluated \/ UNCHANGED vars \/ \E s \in Sources : Lock(s)
  PROVE  Known'
<1>1. UNCHANGED <<goReg, refs, live, call, late, used, unregisters>>
      /\ running \subseteq running'
  BY DEF Drop, Evaluate, Evaluated, Lock, vars
<1>4. op' \in Operations \cup {None}
  <2>1. CASE \E s \in Sources : Lock(s)
    BY <2>1 DEF Lock
  <2>2. CASE Drop
    BY <2>2 DEF Drop
  <2>3. CASE Evaluated
    <3>1. op \in Operations
      BY <2>3 DEF Evaluated
    <3>2. [op EXCEPT !.ok = FALSE, !.at = "remove"] \in Operations
      BY <3>1
    <3> QED
      BY <2>3, <3>2 DEF Evaluated
  <2> QED
    BY <2>1, <2>2, <2>3 DEF Evaluate, vars
<1>5. TypeOK'
  BY <1>1, <1>4
<1>2. op' = op \/ op.at \notin {"cleanup", "sweep"}
  BY DEF Drop, Evaluate, Evaluated, Lock, vars
<1>3. \A k, s : /\ Sweeping(k, s) => Sweeping(k, s)'
                /\ Cleaning(k, s) => Cleaning(k, s)'
  BY <1>2 DEF Sweeping, Cleaning
<1> QED
  BY <1>1, <1>3, <1>5
  DEF Entered, LiveKnown, RefsKnown, TopicsKnown, CallKnown, Making

LEMMA NextKnown == Known /\ [Next]_vars => Known'
<1> SUFFICES ASSUME Known, [Next]_vars PROVE Known'
  OBVIOUS
<1>1. ASSUME NEW s \in Sources,
             Register(s) \/ Subscribe(s) \/ On(s) \/ Unregister(s) \/ Unsubscribe(s)
      PROVE  Known'
  <2>1. /\ call = None /\ used' \subseteq Ids
        /\ UNCHANGED <<goReg, refs, live, deployed, running, begun, op, late, unregisters>>
    BY <1>1 DEF Register, Subscribe, On, Unregister, Unsubscribe, MayCall
  <2>2. PICK k \in Keys, at \in {"make", "unmake", "enter"} :
          /\ call' = Call(s, k, at)
          /\ at = "enter" => k[1] = "topic"
          /\ at = "make" => k[1] # "topic"
    <3>1. CASE Register(s) \/ Unregister(s)
      BY <3>1 DEF Register, Unregister, Keys, Tool
    <3>2. CASE Subscribe(s) \/ Unsubscribe(s)
      <4>1. PICK id \in Ids : \/ call' = Call(s, <<"subscription", id>>, "make")
                             \/ call' = Call(s, <<"subscription", id>>, "unmake")
        BY <3>2 DEF Subscribe, Unsubscribe
      <4>2. <<"subscription", id>> \in Keys
        BY DEF Keys
      <4> QED
        BY <4>1, <4>2
    <3>3. CASE On(s)
      BY <3>3 DEF On, Keys
    <3> QED
      BY <1>1, <3>1, <3>2, <3>3
  <2>3. call' \in Calls
    BY <2>2 DEF Call
  <2> QED
    BY <2>1, <2>2, <2>3, BeginKnown DEF Call
<1> QED
  BY <1>1, MakeKnown, EnterKnown, ReferKnown, UnmakeKnown, UnreferKnown, RemoveKnown,
     CleanupKnown, SweepKnown, OtherKnown
  DEF Next

(* A teardown releases everything its source registered before it, for any *)
(* number of sources, subscriptions and schedules.                         *)
THEOREM ReleasesAll == Spec => []TeardownReleases
<1>1. Known => TeardownReleases
  BY CompartmentsAssumption
     DEF Entered, LiveKnown, RefsKnown, Making, Sweeping, Cleaning, TeardownReleases
<1> QED
  BY <1>1, InitKnown, NextKnown, PTL DEF Spec
-----------------------------------------------------------------------------
(***************************************************************************)
(* Whose is an entry?  As long as no code unregisters, an entry and all    *)
(* that is known of it belong to one source.                               *)
(***************************************************************************)
Pending(k) == op.at \in {"cleanup", "sweep"} /\ k \in op.removed

Of(k, s) ==
  \/ s \in {goReg[k], refs[k], live[k]}
  \/ Pending(k) /\ op.source = s
  \/ Making(k) /\ call.source = s

OneSource(k) == \A s, t \in Sources : Of(k, s) /\ Of(k, t) => s = t

(* An identity is given out once.                                          *)
IdsOwned ==
  \A id \in Ids :
    /\ OneSource(<<"subscription", id>>)
    /\ id \notin used => \A s \in Sources : ~Of(<<"subscription", id>>, s)

(* A name is taken again only when nothing is left of the last entry.      *)
ToolOwned ==
  /\ OneSource(Tool)
  /\ \A s \in Sources : Of(Tool, s) => refs[Tool] = s \/ Making(Tool)
  /\ Pending(Tool) => goReg[Tool] = NoOne
  /\ Making(Tool) =>
       /\ call.at \in {"make", "enter", "refer"}
       /\ call.at # "refer" =>
            goReg[Tool] = NoOne /\ refs[Tool] = NoOne /\ ~Pending(Tool)
       /\ call.at = "make" => live[Tool] = NoOne
  /\ live[Tool] # NoOne /\ ~(Making(Tool) /\ call.at = "enter")
       => goReg[Tool] = live[Tool] \/ Cleaning(Tool, live[Tool])

LeftRemoved == op.at = "cleanup" => op.left \subseteq op.removed

Owned ==
  Known /\ LeftRemoved /\ IdsOwned /\ (~unregisters => ToolOwned)

LEMMA InitOwned == Init => Owned
BY InitKnown, CompartmentsAssumption
   DEF Init, Nothing, Owned, LeftRemoved, IdsOwned, ToolOwned, OneSource, Of,
       Pending, Making, Tool, Keys

(* Which steps change what.                                                *)
LEMMA Frames ==
  ASSUME [Next]_vars
  PROVE  /\ goReg' = goReg \/ Enter \/ Remove
         /\ refs' = refs \/ Refer \/ Unrefer \/ Sweep
         /\ live' = live \/ Make \/ Unmake \/ Cleanup
         /\ \/ op' = op \/ Remove \/ Cleanup \/ Sweep \/ Drop \/ Evaluated
            \/ \E t \in Sources : Lock(t)
BY DEF Next, vars, Register, Subscribe, On, Unregister, Unsubscribe, Make, Enter, Refer,
       Unmake, Unrefer, Lock, Remove, Cleanup, Sweep, Drop, Evaluate, Evaluated

(* Only Remove leads to the cleanups, and each but the last to another.    *)
LEMMA OpSteps ==
  ASSUME Known, Sweep \/ Drop \/ Evaluated \/ \E t \in Sources : Lock(t)
  PROVE  op'.at \notin {"cleanup", "sweep"}
<1>1. CASE Sweep
  <2>1. op \in Operations
    BY <1>1 DEF Sweep
  <2> QED
    BY <1>1, <2>1 DEF Sweep
<1>2. CASE Drop
  <2>1. op \in Operations
    BY <1>2 DEF Drop
  <2> QED
    BY <1>2, <2>1 DEF Drop
<1>3. CASE Evaluated
  <2>1. op \in Operations
    BY <1>3 DEF Evaluated
  <2>2. op' = None \/ op'.at = "remove"
    BY <1>3, <2>1 DEF Evaluated
  <2> QED
    BY <2>2
<1>4. CASE \E t \in Sources : Lock(t)
  BY <1>4 DEF Lock
<1> QED
  BY <1>1, <1>2, <1>3, <1>4

LEMMA LeftKept == ASSUME Known, LeftRemoved, [Next]_vars PROVE LeftRemoved'
<1>1. CASE Remove
  BY <1>1 DEF LeftRemoved, Remove
<1>2. CASE Cleanup
  <2>1. op \in Operations
    BY <1>2 DEF Cleanup
  <2> QED
    BY <1>2, <2>1 DEF LeftRemoved, Cleanup
<1>3. CASE op' = op \/ op'.at # "cleanup"
  BY <1>3 DEF LeftRemoved
<1> QED
  BY <1>1, <1>2, <1>3, Frames, OpSteps

(* What a step makes known of an entry was known, but for a call's start.  *)
LEMMA OfKept ==
  ASSUME Known, [Next]_vars, NEW k \in Keys, NEW s \in Sources, Of(k, s)',
         (Making(k) /\ call.source = s)' => Of(k, s)
  PROVE  Of(k, s)
<1>1. goReg'[k] = s => goReg[k] = s \/ (Making(k) /\ call.source = s)
  <2>1. CASE Enter
    BY <2>1 DEF Enter, Owner, Making
  <2>2. CASE Remove
    BY <2>2, CompartmentsAssumption DEF Remove
  <2> QED
    BY <2>1, <2>2, Frames
<1>2. refs'[k] = s => refs[k] = s \/ (Making(k) /\ call.source = s)
  <2>1. CASE Refer
    BY <2>1 DEF Refer, Owner, Making
  <2>2. CASE Unrefer \/ Sweep
    BY <2>2, CompartmentsAssumption DEF Unrefer, Sweep
  <2> QED
    BY <2>1, <2>2, Frames
<1>3. live'[k] = s => live[k] = s \/ (Making(k) /\ call.source = s)
  <2>1. CASE Make
    BY <2>1 DEF Make, Making
  <2>2. CASE Unmake \/ Cleanup
    BY <2>2, CompartmentsAssumption DEF Unmake, Cleanup
  <2> QED
    BY <2>1, <2>2, Frames
<1>4. (Pending(k) /\ op.source = s)' =>
        (Pending(k) /\ op.source = s) \/ goReg[k] = s
  <2>1. CASE Remove
    BY <2>1 DEF Remove, Pending
  <2>2. CASE Cleanup
    <3>1. op \in Operations
      BY <2>2 DEF Cleanup
    <3> QED
      BY <2>2, <3>1 DEF Cleanup, Pending
  <2>3. CASE op' = op \/ op'.at \notin {"cleanup", "sweep"}
    BY <2>3 DEF Pending
  <2> QED
    BY <2>1, <2>2, <2>3, Frames, OpSteps
<1> QED
  BY <1>1, <1>2, <1>3, <1>4 DEF Of

(* A call starts on an entry of its source, or on a new identity.          *)
LEMMA IdBegun ==
  ASSUME Known, [Next]_vars, NEW id \in Ids, NEW s \in Sources,
         (Making(<<"subscription", id>>) /\ call.source = s)'
  PROVE  Of(<<"subscription", id>>, s) \/ (id \notin used /\ id \in used')
<1> DEFINE k == <<"subscription", id>>
<1>1. CASE \E t \in Sources : Register(t) \/ Unregister(t) \/ On(t)
  BY <1>1 DEF Register, Unregister, On, Call, Making, Tool
<1>2. CASE \E t \in Sources : Subscribe(t)
  BY <1>2 DEF Subscribe, Call, Making
<1>3. CASE \E t \in Sources : Unsubscribe(t)
  BY <1>3 DEF Unsubscribe, Call, Making, Of
<1>4. CASE Make \/ Enter \/ Unmake
  <2>1. call \in Calls
    BY <1>4 DEF Make, Enter, Unmake
  <2> QED
    BY <1>4, <2>1 DEF Make, Enter, Unmake, Making, Of
<1>5. CASE Refer
  BY <1>5 DEF Refer, Call, Making
<1>6. CASE call' = call \/ call' = None
  BY <1>6 DEF Making, Of
<1> QED
  BY <1>1, <1>2, <1>3, <1>4, <1>5, <1>6
  DEF Next, vars, Unrefer, Lock, Remove, Cleanup, Sweep, Drop, Evaluate, Evaluated

LEMMA IdsKept == ASSUME Known, IdsOwned, [Next]_vars PROVE IdsOwned'
<1>1. used \subseteq used'
  BY DEF Next, vars, Register, Subscribe, On, Unregister, Unsubscribe, Make, Enter, Refer,
         Unmake, Unrefer, Lock, Remove, Cleanup, Sweep, Drop, Evaluate, Evaluated
<1> SUFFICES ASSUME NEW id \in Ids
             PROVE  /\ OneSource(<<"subscription", id>>)'
                    /\ id \notin used' => \A s \in Sources :
                                             ~Of(<<"subscription", id>>, s)'
  BY DEF IdsOwned
<1> DEFINE k == <<"subscription", id>>
<1>2. k \in Keys
  BY DEF Keys
<1>3. \A s \in Sources :
        Of(k, s)' => Of(k, s) \/ (/\ id \notin used /\ id \in used'
                                  /\ Making(k)' /\ call'.source = s)
  BY <1>2, OfKept, IdBegun
<1>4. OneSource(k) /\ (id \notin used => \A s \in Sources : ~Of(k, s))
  BY DEF IdsOwned
<1> QED
  BY <1>1, <1>3, <1>4 DEF OneSource

LEMMA ToolKey ==
  /\ Tool \in Keys
  /\ \A x : Tool # <<"topic", x>> /\ Tool # <<"subscription", x>>
BY DEF Tool, Keys

(* The name is taken when nothing is left of the last entry.               *)
LEMMA ToolBegun ==
  ASSUME Known, ToolOwned, NEW s \in Sources, Register(s)
  PROVE  ToolOwned'
<1>1. /\ call' = Call(s, Tool, "make") /\ refs[Tool] = NoOne
      /\ UNCHANGED <<goReg, refs, live, op>> /\ ~Making(Tool)
  BY DEF Register, MayCall, Making
<1>2. \A t \in Sources : ~Of(Tool, t)
  BY <1>1, CompartmentsAssumption DEF ToolOwned
<1>3. goReg[Tool] = NoOne /\ live[Tool] = NoOne /\ ~Pending(Tool)
  <2>1. goReg[Tool] \in Owners /\ live[Tool] \in Owners
    BY ToolKey
  <2>2. Pending(Tool) => op.source \in Sources
    BY DEF Pending
  <2> QED
    BY <1>2, <2>1, <2>2 DEF Of
<1>4. Making(Tool)' /\ call'.source = s /\ call'.at = "make"
  BY <1>1 DEF Making, Call
<1>5. \A t \in Sources : Of(Tool, t)' => t = s
  BY <1>1, <1>3, <1>4, CompartmentsAssumption DEF Of, Pending
<1> QED
  BY <1>1, <1>3, <1>4, <1>5 DEF ToolOwned, OneSource, Pending, Cleaning

LEMMA OtherBegun ==
  ASSUME NEW s \in Sources, Subscribe(s) \/ On(s) \/ Unsubscribe(s)
  PROVE  UNCHANGED <<goReg, refs, live, op>> /\ ~Making(Tool) /\ ~Making(Tool)'
<1>1. UNCHANGED <<goReg, refs, live, op>> /\ ~Making(Tool)
  BY DEF Subscribe, On, Unsubscribe, MayCall, Making
<1>2. \/ call'.key = <<"topic", s>>
      \/ \E id \in Ids : call'.key = <<"subscription", id>>
  <2>1. CASE On(s)
    BY <2>1 DEF On, Call
  <2>2. CASE Subscribe(s)
    BY <2>2 DEF Subscribe, Call
  <2>3. CASE Unsubscribe(s)
    BY <2>3 DEF Unsubscribe, Call
  <2> QED
    BY <2>1, <2>2, <2>3
<1>3. call'.key # Tool
  BY <1>2, ToolKey
<1> QED
  BY <1>1, <1>3 DEF Making

(* No other step but kit.unregister starts a call on it.                   *)
LEMMA ToolCalled ==
  ASSUME Known, ~unregisters, [Next]_vars, \A s \in Sources : ~Register(s), Making(Tool)'
  PROVE  /\ Making(Tool) /\ call'.source = call.source
         /\ \/ call' = call
            \/ Make /\ call'.at = "enter"
            \/ Enter /\ call'.at = "refer"
            \/ Unmake
<1>1. CASE \E s \in Sources : Subscribe(s) \/ On(s) \/ Unsubscribe(s)
  BY <1>1, OtherBegun
<1>2. CASE Make \/ Enter \/ Unmake
  <2>1. call \in Calls
    BY <1>2 DEF Make, Enter, Unmake
  <2> QED
    BY <1>2, <2>1 DEF Make, Enter, Unmake, Making
<1>3. CASE Refer
  BY <1>3, ToolKey DEF Refer, Call, Making
<1>4. CASE call' = call \/ call' = None
  BY <1>4 DEF Making
<1>5. \A s \in Sources : ~Unregister(s)
  BY DEF Unregister
<1> QED
  BY <1>1, <1>2, <1>3, <1>4, <1>5
  DEF Next, vars, Unrefer, Lock, Remove, Cleanup, Sweep, Drop, Evaluate, Evaluated

LEMMA ToolKept ==
  ASSUME Known, ~unregisters, ToolOwned, [Next]_vars, \A s \in Sources : ~Register(s)
  PROVE  ToolOwned'
<1>1. \A s \in Sources : Of(Tool, s)' => Of(Tool, s)
  BY ToolCalled, OfKept, ToolKey DEF Of
<1>2. OneSource(Tool)'
  BY <1>1 DEF ToolOwned, OneSource
<1>3. CASE call # None /\ call.key = Tool /\ Refer
  <2>1. /\ refs'[Tool] = call.source /\ call.source \in Sources
        /\ call.at = "refer" /\ UNCHANGED <<goReg, live, op>>
    BY <1>3, ToolKey DEF Refer, Owner
  <2>3. call' = None \/ \E id \in Ids : call'.key = <<"subscription", id>>
    BY <1>3 DEF Refer, Call
  <2>4. ~Making(Tool)'
    BY <2>3, ToolKey DEF Making
  <2>2. \A s \in Sources : Of(Tool, s) => s = call.source
    BY <1>3, <2>1 DEF ToolOwned, OneSource, Of, Making
  <2> QED
    BY <1>1, <1>2, <2>1, <2>2, <2>4 DEF ToolOwned, Pending, Cleaning
<1>4. CASE Sweep
  <2>1. /\ UNCHANGED <<goReg, live, call>> /\ ~Making(Tool) /\ ~Making(Tool)'
        /\ op'.at = "drop"
    <3>1. op \in Operations
      BY <1>4 DEF Sweep
    <3> QED
      BY <1>4, <3>1 DEF Sweep, Making
  <2>2. live[Tool] # NoOne => goReg[Tool] = live[Tool]
    BY <1>4, <2>1 DEF ToolOwned, Cleaning, Sweep
  <2>3. Tool \in op.removed => goReg[Tool] = NoOne /\ live[Tool] = NoOne
    BY <1>4, <2>2 DEF ToolOwned, Pending, Sweep
  <2>4. refs'[Tool] = IF Tool \in op.removed THEN NoOne ELSE refs[Tool]
    BY <1>4, ToolKey DEF Sweep
  <2>5. ASSUME NEW s \in Sources, Of(Tool, s)'
        PROVE  refs'[Tool] = s
    <3>1. Tool \notin op.removed
      BY <2>1, <2>3, <2>4, <2>5, CompartmentsAssumption DEF Of, Pending
    <3> QED
      BY <1>1, <2>1, <2>4, <2>5, <3>1 DEF ToolOwned
  <2> QED
    BY <1>2, <2>1, <2>2, <2>5 DEF ToolOwned, Pending
<1>5. CASE call # None /\ call.key = Tool /\ Make
  <2>1. /\ call' = [call EXCEPT !.at = "enter"] /\ call.at = "make" /\ call \in Calls
        /\ UNCHANGED <<goReg, refs, op>>
    BY <1>5 DEF Make
  <2>2. Making(Tool)' /\ call'.at = "enter"
    BY <1>5, <2>1 DEF Making
  <2> QED
    BY <1>2, <1>5, <2>1, <2>2 DEF ToolOwned, Pending, Making
<1>6. CASE call # None /\ call.key = Tool /\ Enter
  <2>1. /\ call' = [call EXCEPT !.at = "refer"] /\ call.at = "enter" /\ call \in Calls
        /\ UNCHANGED <<live, refs, op>> /\ goReg'[Tool] = call.source
    BY <1>6, ToolKey DEF Enter, Owner
  <2>2. Making(Tool) /\ Making(Tool)' /\ call'.at = "refer"
    BY <1>6, <2>1 DEF Making
  <2>3. ~Pending(Tool)'
    BY <2>1, <2>2 DEF ToolOwned, Pending
  <2>4. live'[Tool] # NoOne => goReg'[Tool] = live'[Tool]
    BY <2>1, <2>2, ToolKey DEF ToolOwned, OneSource, Of
  <2> QED
    BY <1>2, <2>2, <2>3, <2>4 DEF ToolOwned
<1>7. CASE Remove
  <2>1. /\ UNCHANGED <<live, refs, call>> /\ ~Pending(Tool) /\ op.source \in Sources
        /\ \A t : ~Cleaning(Tool, t)
    BY <1>7 DEF Remove, Pending, Cleaning
  <2>2. \/ goReg[Tool] = op.source /\ goReg'[Tool] = NoOne
           /\ op'.at = "cleanup" /\ op'.source = op.source /\ Tool \in op'.left
        \/ goReg[Tool] # op.source /\ goReg'[Tool] = goReg[Tool] /\ ~Pending(Tool)'
    BY <1>7, ToolKey DEF Remove, Pending
  <2>3. Making(Tool)' <=> Making(Tool)
    BY <2>1 DEF Making
  <2>4. (live[Tool] # NoOne /\ ~(Making(Tool) /\ call.at = "enter")
          => goReg[Tool] = live[Tool] \/ Cleaning(Tool, live[Tool]))'
    BY <2>1, <2>2, <2>3 DEF ToolOwned, Cleaning
  <2> QED
    BY <1>1, <1>2, <2>1, <2>2, <2>3, <2>4, CompartmentsAssumption DEF ToolOwned
<1>8. CASE Cleanup
  <2>1. /\ UNCHANGED <<goReg, refs, call>> /\ Pending(Tool)' = Pending(Tool)
        /\ live'[Tool] \in {live[Tool], NoOne}
    BY <1>8 DEF Cleanup, Pending
  <2>2. \A t : Cleaning(Tool, t) => live'[Tool] = NoOne \/ Cleaning(Tool, t)'
    BY <1>8, ToolKey DEF Cleanup, Cleaning
  <2> QED
    BY <1>1, <1>2, <2>1, <2>2 DEF ToolOwned, Making
<1>9. CASE /\ UNCHANGED <<goReg[Tool], refs[Tool], live[Tool]>>
           /\ (Making(Tool)' <=> Making(Tool)) /\ (Making(Tool) => call' = call)
           /\ op' = op \/ (~Pending(Tool)' /\ \A t : ~Cleaning(Tool, t))
  BY <1>1, <1>2, <1>9 DEF ToolOwned, Pending, Cleaning
<1>10. CASE Drop \/ Evaluate \/ Evaluated \/ \E s \in Sources : Lock(s)
  <2>1. UNCHANGED <<goReg, refs, live, call>>
    BY <1>10 DEF Drop, Evaluate, Evaluated, Lock
  <2>2. op' = op \/ (op.at \notin {"cleanup", "sweep"} /\ op'.at \notin {"cleanup", "sweep"})
    BY <1>10, OpSteps DEF Drop, Evaluate, Evaluated, Lock
  <2> QED
    BY <1>9, <2>1, <2>2 DEF Pending, Cleaning, Making
<1>11. CASE \E s \in Sources : Subscribe(s) \/ On(s) \/ Unsubscribe(s)
  BY <1>9, <1>11, OtherBegun
<1>12. CASE ~Making(Tool) /\ (Make \/ Enter \/ Refer \/ Unmake \/ Unrefer)
  <2>1. call \in Calls /\ call.key # Tool
    BY <1>12 DEF Make, Enter, Refer, Unmake, Unrefer, Making
  <2>2. UNCHANGED <<goReg[Tool], refs[Tool], live[Tool], op>>
    BY <1>12, <2>1, ToolKey DEF Make, Enter, Refer, Unmake, Unrefer
  <2>3. ~Making(Tool)'
    BY <1>12, ToolCalled
  <2> QED
    BY <1>9, <1>12, <2>2, <2>3
<1>13. Making(Tool) => ~Unmake /\ ~Unrefer
  BY DEF ToolOwned, Unmake, Unrefer
<1>14. UNCHANGED vars => ToolOwned'
  BY <1>9 DEF vars, Making
<1>15. \A s \in Sources : ~Unregister(s)
  BY DEF Unregister
<1>16. Making(Tool) => call # None /\ call.key = Tool
  BY DEF Making
<1> QED
  BY <1>3, <1>4, <1>5, <1>6, <1>7, <1>8, <1>10, <1>11, <1>12, <1>13, <1>14, <1>15, <1>16
  DEF Next

LEMMA OwnedKept == Owned /\ [Next]_vars => Owned'
<1> SUFFICES ASSUME Owned, [Next]_vars PROVE Owned'
  OBVIOUS
<1>1. Known' /\ LeftRemoved' /\ IdsOwned'
  BY NextKnown, LeftKept, IdsKept DEF Owned
<1>2. unregisters' = unregisters
  BY DEF Next, vars, Register, Subscribe, On, Unregister, Unsubscribe, Make, Enter, Refer,
         Unmake, Unrefer, Lock, Remove, Cleanup, Sweep, Drop, Evaluate, Evaluated
<1>3. ~unregisters => ToolOwned'
  BY ToolBegun, ToolKept DEF Owned
<1> QED
  BY <1>1, <1>2, <1>3 DEF Owned

(* A teardown takes no tool that another source registered under the same  *)
(* name, as long as no code frees the name by kit.unregister.              *)
THEOREM ForeignKept == Spec => ForeignSurvives
<1>1. ASSUME Owned, ~unregisters, op.at = "cleanup", NEW k \in op.left
      PROVE  live[k] \in {NoOne, op.source}
  <2>1. op \in Operations /\ k \in Keys /\ k \in op.removed /\ Pending(k)
    BY <1>1 DEF Owned, LeftRemoved, Pending
  <2>2. live[k] \in Owners /\ op.source \in Sources
    BY <2>1, <1>1 DEF Owned
  <2>3. OneSource(k) => live[k] \in {NoOne, op.source}
    BY <2>1, <2>2 DEF OneSource, Of
  <2>4. k = Tool \/ k[1] = "topic" \/ \E id \in Ids : k = <<"subscription", id>>
    BY <2>1 DEF Keys
  <2> QED
    BY <1>1, <2>1, <2>3, <2>4 DEF Owned, ToolOwned, IdsOwned, TopicsKnown
<1>2. Owned => (~unregisters /\ op.at = "cleanup"
                  => \A k \in op.left \ op'.left : live[k] \in {NoOne, op.source})
  BY <1>1
<1> QED
  BY <1>2, InitOwned, OwnedKept, PTL DEF Spec, ForeignSurvives
-----------------------------------------------------------------------------
(* The bridge *)

CONSTANTS Workers, QueueSize

VARIABLES kernelClosed, closing, closed, cancelled, freed, mu, queue, pump, worker, closer

B == INSTANCE Bridge

(* From wg.Wait on, no tracked goroutine is left.                          *)
NoneLeft == closer \in B!Closers \ {"none", "waiting"} => B!Gone

(* TryGo is refused from CloseContext until QuickJS is freed.              *)
RefusedWhileClosing == closer \in {"waiting", "locking", "freeing", "freed"} => closing

(* mu tells who executes JavaScript, and nobody does in what is freed.     *)
MuHolders ==
  /\ mu = "closer" <=> closer = "freeing"
  /\ mu = "pump" <=> pump = "running"
  /\ freed => mu = "nobody"

FreedBy == freed <=> closer \in {"freed", "reset", "done"}

BridgeInv == B!TypeOK /\ NoneLeft /\ RefusedWhileClosing /\ MuHolders /\ FreedBy

LEMMA InitBridge == B!Init => BridgeInv
<1> SUFFICES ASSUME B!Init PROVE BridgeInv
  OBVIOUS
<1>1. B!TypeOK
  BY DEF B!Init, B!TypeOK, B!Pumps, B!Runs, B!Closers, B!Holders
<1>2. NoneLeft /\ RefusedWhileClosing /\ MuHolders /\ FreedBy
  BY DEF B!Init, NoneLeft, RefusedWhileClosing, MuHolders, FreedBy, B!Closers
<1> QED BY <1>1, <1>2 DEF BridgeInv
-----------------------------------------------------------------------------
(* A goroutine starts: there is none when the close is past wg.Wait, since *)
(* then either closing is still set, or QuickJS is freed and nobody is     *)
(* left to call TryGo.                                                     *)
LEMMA TryGoInv == ASSUME BridgeInv, NEW w \in Workers, B!TryGo(w) PROVE BridgeInv'
<1>1. closer \in {"none", "waiting"}
  <2>1. CASE freed
    <3>1. mu = "nobody" /\ B!Gone
      BY <2>1 DEF BridgeInv, MuHolders, NoneLeft, FreedBy, B!TypeOK
    <3> QED BY <3>1 DEF B!TryGo, B!JavaScriptRuns, B!Gone
  <2>2. CASE ~freed
    BY <2>2 DEF B!TryGo, B!Accepts, BridgeInv, B!TypeOK, B!Closers, RefusedWhileClosing,
                 FreedBy
  <2> QED BY <2>1, <2>2
<1>2. worker' \in [Workers -> B!Runs]
  BY DEF B!TryGo, BridgeInv, B!TypeOK, B!Runs
<1> QED
  BY <1>1, <1>2 DEF B!TryGo, BridgeInv, B!TypeOK, NoneLeft, RefusedWhileClosing,
                    MuHolders, FreedBy

(* The other steps of a tracked goroutine are taken while it is there.     *)
LEMMA WorkerInv ==
  ASSUME BridgeInv, NEW w \in Workers, B!Send(w) \/ B!Sent(w) \/ B!Exit(w)
  PROVE  BridgeInv'
<1>1. closer \in {"none", "waiting"}
  BY DEF B!Send, B!Sent, B!Exit, BridgeInv, B!TypeOK, NoneLeft, B!Gone
<1>2. worker' \in [Workers -> B!Runs] /\ queue' \in Nat
  BY DEF B!Send, B!Sent, B!Exit, BridgeInv, B!TypeOK, B!Runs
<1> QED
  BY <1>1, <1>2 DEF B!Send, B!Sent, B!Exit, BridgeInv, B!TypeOK, NoneLeft,
                    RefusedWhileClosing, MuHolders, FreedBy

LEMMA PumpInv ==
  ASSUME BridgeInv, B!PumpWakes \/ B!PumpLocks \/ B!PumpSkips \/ B!PumpRests \/ B!PumpExits
  PROVE  BridgeInv'
<1>1. closer \in {"none", "waiting"}
  BY DEF B!PumpWakes, B!PumpLocks, B!PumpSkips, B!PumpRests, B!PumpExits, BridgeInv,
         B!TypeOK, NoneLeft, B!Gone
<1> QED
  BY <1>1 DEF B!PumpWakes, B!PumpLocks, B!PumpSkips, B!PumpRests, B!PumpExits, BridgeInv,
              B!TypeOK, B!Pumps, B!Holders, NoneLeft, RefusedWhileClosing, MuHolders, FreedBy

LEMMA JavaScriptInv ==
  ASSUME BridgeInv, B!Deliver \/ B!RunJob \/ B!EvalBegins \/ B!EvalEnds PROVE BridgeInv'
BY DEF B!Deliver, B!RunJob, B!EvalBegins, B!EvalEnds, BridgeInv, B!TypeOK, B!Holders,
       NoneLeft, B!Gone, RefusedWhileClosing, MuHolders, FreedBy

LEMMA CloseInv ==
  ASSUME BridgeInv, B!KernelCloses \/ B!Interrupt \/ B!CloseContext \/ B!Waited \/ B!CloserLocks
                \/ B!Free \/ B!Reset \/ B!MarkClosed
  PROVE  BridgeInv'
<1> USE DEF BridgeInv, B!TypeOK, B!Closers, B!Holders, NoneLeft, B!Gone, RefusedWhileClosing,
            MuHolders, FreedBy
<1>1. CASE B!KernelCloses
  BY <1>1 DEF B!KernelCloses
<1>2. CASE B!Interrupt
  BY <1>2 DEF B!Interrupt
<1>3. CASE B!CloseContext
  BY <1>3 DEF B!CloseContext
<1>4. CASE B!Waited
  BY <1>4 DEF B!Waited
<1>5. CASE B!CloserLocks
  BY <1>5 DEF B!CloserLocks
<1>6. CASE B!Free
  BY <1>6 DEF B!Free
<1>7. CASE B!Reset \/ B!MarkClosed
  BY <1>7 DEF B!Reset, B!MarkClosed
<1> QED BY <1>1, <1>2, <1>3, <1>4, <1>5, <1>6, <1>7

LEMMA NextBridge == BridgeInv /\ [B!Next]_B!vars => BridgeInv'
<1> SUFFICES ASSUME BridgeInv, [B!Next]_B!vars PROVE BridgeInv'
  OBVIOUS
<1>1. CASE \E w \in Workers : B!TryGo(w) \/ B!Send(w) \/ B!Sent(w) \/ B!Exit(w)
  BY <1>1, TryGoInv, WorkerInv
<1>2. CASE B!Deliver \/ B!RunJob \/ B!EvalBegins \/ B!EvalEnds
  BY <1>2, JavaScriptInv
<1>3. CASE B!PumpWakes \/ B!PumpLocks \/ B!PumpSkips \/ B!PumpRests \/ B!PumpExits
  BY <1>3, PumpInv
<1>4. CASE B!KernelCloses \/ B!Interrupt \/ B!CloseContext \/ B!Waited \/ B!CloserLocks
             \/ B!Free \/ B!Reset \/ B!MarkClosed
  BY <1>4, CloseInv
<1>5. CASE UNCHANGED B!vars
  BY <1>5 DEF B!vars, BridgeInv, B!TypeOK, NoneLeft, B!Gone, RefusedWhileClosing, MuHolders,
              FreedBy
<1> QED BY <1>1, <1>2, <1>3, <1>4, <1>5 DEF B!Next

(* QuickJS is freed when no tracked goroutine is left and nobody executes  *)
(* JavaScript, and none starts afterwards, although TryGo would let one    *)
(* start between the reset of closing and the setting of closed.           *)
THEOREM FreesAlone == B!Spec => []B!FreedAlone
<1>1. BridgeInv => B!FreedAlone
  BY DEF BridgeInv, B!FreedAlone, FreedBy, NoneLeft, MuHolders, B!Closers
<1> QED BY <1>1, InitBridge, NextBridge, PTL DEF B!Spec
=============================================================================
