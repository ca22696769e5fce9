-------------------------- MODULE SchedulerProofs --------------------------
(***************************************************************************)
(* Theorems about Scheduler, for any number of replicas, schedules and     *)
(* entries, and any clock.                                                 *)
(*                                                                         *)
(* TypeOK is inductive. OneFirePerClaim follows from Tokens: whoever       *)
(* publishes as the holder of a claim has a row of the table of claims, no *)
(* two have the same, and publishing spends it; a fire whose claim failed  *)
(* is not a holder. NoPublishAfterClose follows from TurnedAway: Close has *)
(* waited for every fire that passed its first critical section.           *)
(* SilencedStaysSilent needs no more than where entries and fires come     *)
(* from: only add makes new ones, and they have a pointer of their own.    *)
(* OneTimeAtLeastOnce follows from Sent: whoever is about to delete a row  *)
(* has published. StoreMatchesMemory follows, for a single replica, from   *)
(* Matches: each periodic row has somebody who lists it or will, and each  *)
(* listed one is stored or about to be. StaysArmed follows from Ready:     *)
(* timers and fires are of the entry whose pointer they carry, and none    *)
(* comes before its time.                                                  *)
(***************************************************************************)
EXTENDS Scheduler, TLAPS

Unique(S) == \A x, y \in S : x.id = y.id => x = y

Timer == [entry : Entry, at : Nat]
Add   == [entry : Entry, save : BOOLEAN]
Fire  == [entry : Entry, at : FireAt, bucket : Nat, held : BOOLEAN]
Write == [op : {"save", "delete"}, row : Row]
Message == [id : Ids, by : Replicas, ptr : Nat, due : Nat, bucket : Nat, held : BOOLEAN]
-----------------------------------------------------------------------------
LEMMA Rounding == \A n \in Nat : Bucket(n) \in Nat /\ n - (n % SecondTicks) \in Nat
<1> SUFFICES ASSUME NEW n \in Nat
             PROVE  Bucket(n) \in Nat /\ n - (n % SecondTicks) \in Nat
  OBVIOUS
<1>1. n % SecondTicks \in 0 .. SecondTicks - 1 /\ n \div SecondTicks \in Nat
  BY SchedulerAssumption
<1>2. n = SecondTicks * (n \div SecondTicks) + (n % SecondTicks)
  BY SchedulerAssumption
<1>3. SecondTicks * (n \div SecondTicks) \in Nat
  BY <1>1, SchedulerAssumption
<1>4. Bucket(n) \in Nat
  BY SchedulerAssumption DEF Bucket
<1> QED
  BY <1>1, <1>2, <1>3, <1>4, SchedulerAssumption

LEMMA PutKeeps ==
  ASSUME NEW S, Unique(S), NEW x
  PROVE  Put(S, x) \subseteq S \cup {x} /\ Unique(Put(S, x))
BY DEF Put, Drop, Unique

LEMMA DropKeeps ==
  ASSUME NEW S, Unique(S), NEW id
  PROVE  Drop(S, id) \subseteq S /\ Unique(Drop(S, id))
BY DEF Drop, Unique

LEMMA SaveTypes ==
  ASSUME TypeOK, NEW row \in Row
  PROVE  SaveSchedule(row) \subseteq Row /\ Unique(SaveSchedule(row))
<1>1. [row EXCEPT !.next = row.next - (row.next % SecondTicks)] \in Row
  BY Rounding DEF Row
<1> QED
  BY <1>1, PutKeeps DEF SaveSchedule, TypeOK, Unique

LEMMA DeleteTypes ==
  ASSUME TypeOK, NEW id
  PROVE  DeleteSchedule(id) \subseteq Row /\ Unique(DeleteSchedule(id))
BY DropKeeps DEF DeleteSchedule, TypeOK, Unique

LEMMA ArmTypes ==
  ASSUME TypeOK, NEW r \in Replicas, NEW row \in Row, NEW save \in BOOLEAN,
         Arm(r, row, save)
  PROVE  /\ adds' \in Nat
         /\ timers' \in [Replicas -> SUBSET Timer]
         /\ adding' \in [Replicas -> SUBSET Add]
<1> DEFINE e == [ptr |-> adds + 1, id |-> row.id, oneTime |-> row.oneTime,
                 dur |-> row.dur, next |-> row.next]
           at == IF row.next < now THEN now ELSE row.next
<1>1. e \in Entry /\ at \in Nat
  BY DEF TypeOK, Row, Entry
<1>2. /\ adds' = adds + 1
      /\ timers' = [timers EXCEPT ![r] = @ \cup {[entry |-> e, at |-> at]}]
      /\ adding' = [adding EXCEPT ![r] = @ \cup {[entry |-> e, save |-> save]}]
  BY DEF Arm
<1> HIDE DEF e, at
<1> QED
  BY <1>1, <1>2 DEF TypeOK, Timer, Add

LEMMA FireTypes ==
  ASSUME TypeOK, NEW r \in Replicas, NEW f \in fires[r], NEW g \in Fire,
         FireOn(r, f, g) \/ FireEnds(r, f)
  PROVE  fires' \in [Replicas -> SUBSET Fire]
BY DEF TypeOK, FireOn, FireEnds, Fire

LEMMA PutEntry ==
  ASSUME TypeOK, NEW r \in Replicas, NEW e \in Entry,
         entries' = [entries EXCEPT ![r] = Put(@, e)]
  PROVE  /\ entries' \in [Replicas -> SUBSET Entry]
         /\ \A q \in Replicas : Unique(entries'[q])
<1>1. Unique(entries[r]) /\ entries[r] \subseteq Entry
  BY DEF TypeOK, Unique
<1>2. Put(entries[r], e) \subseteq Entry /\ Unique(Put(entries[r], e))
  BY <1>1, PutKeeps
<1> QED
  BY <1>2 DEF TypeOK, Unique

LEMMA DropEntry ==
  ASSUME TypeOK, NEW r \in Replicas, NEW id,
         entries' = [entries EXCEPT ![r] = Drop(@, id)]
  PROVE  /\ entries' \in [Replicas -> SUBSET Entry]
         /\ \A q \in Replicas : Unique(entries'[q])
<1>1. Unique(entries[r]) /\ entries[r] \subseteq Entry
  BY DEF TypeOK, Unique
<1>2. Drop(entries[r], id) \subseteq Entry /\ Unique(Drop(entries[r], id))
  BY <1>1, DropKeeps
<1> QED
  BY <1>2 DEF TypeOK, Unique

(* Schedule and add.                                                       *)
LEMMA AddTypes ==
  ASSUME TypeOK, NEW r \in Replicas,
         (\E id \in Ids, k \in Kinds : Schedule(r, id, k))
           \/ (\E a \in adding[r] : AddInsert(r, a))
           \/ (\E e \in entries[r] : Unschedule(r, e))
           \/ (\E w \in writes[r] : StoreWrite(r, w))
  PROVE  TypeOK'
<1>1. ASSUME NEW id \in Ids, NEW k \in Kinds, Schedule(r, id, k)
      PROVE  TypeOK'
  <2> DEFINE row == [id |-> id, oneTime |-> k.oneTime, dur |-> k.dur, next |-> now + k.dur]
  <2>1. row \in Row
    BY SchedulerAssumption DEF Row, TypeOK
  <2>2. Arm(r, row, TRUE)
    BY <1>1 DEF Schedule
  <2> HIDE DEF row
  <2>3. /\ adds' \in Nat /\ timers' \in [Replicas -> SUBSET Timer]
        /\ adding' \in [Replicas -> SUBSET Add]
    BY <2>1, <2>2, ArmTypes
  <2> QED
    BY <1>1, <2>3 DEF Schedule, TypeOK, restore, store, Timer, Add
<1>2. ASSUME NEW a \in adding[r], AddInsert(r, a)
      PROVE  TypeOK'
  <2>1. a.entry \in Entry /\ RowOf(a.entry) \in Row
    BY DEF TypeOK, Entry, Row, RowOf
  <2>2. adding' \in [Replicas -> SUBSET Add]
    BY <1>2 DEF AddInsert, TypeOK, Add
  <2>3. timers' \in [Replicas -> SUBSET Timer]
    BY <1>2 DEF AddInsert, TypeOK, Timer, StopTimer
  <2>4. writes' \in [Replicas -> SUBSET Write]
    BY <1>2, <2>1 DEF AddInsert, TypeOK, Write
  <2>5. /\ entries' \in [Replicas -> SUBSET Entry]
        /\ \A q \in Replicas : Unique(entries'[q])
    <3>1. CASE entries' = [entries EXCEPT ![r] = Put(@, a.entry)]
      BY <2>1, <3>1, PutEntry
    <3>2. CASE entries' = entries
      BY <3>2 DEF TypeOK, Unique
    <3> QED
      BY <1>2, <3>1, <3>2 DEF AddInsert
  <2> QED
    BY <1>2, <2>2, <2>3, <2>4, <2>5
    DEF AddInsert, TypeOK, Unique, Timer, Add, Write, restore, store
<1>3. ASSUME NEW e \in entries[r], Unschedule(r, e)
      PROVE  TypeOK'
  <2>1. e \in Entry /\ RowOf(e) \in Row
    BY DEF TypeOK, Entry, Row, RowOf
  <2>2. timers' \in [Replicas -> SUBSET Timer]
    BY <1>3 DEF Unschedule, TypeOK, Timer, StopTimer
  <2>3. writes' \in [Replicas -> SUBSET Write]
    BY <1>3, <2>1 DEF Unschedule, TypeOK, Write
  <2>4. /\ entries' \in [Replicas -> SUBSET Entry]
        /\ \A q \in Replicas : Unique(entries'[q])
    BY <1>3, DropEntry DEF Unschedule
  <2> QED
    BY <1>3, <2>2, <2>3, <2>4
    DEF Unschedule, TypeOK, Unique, Timer, Write, restore, store
<1>4. ASSUME NEW w \in writes[r], StoreWrite(r, w)
      PROVE  TypeOK'
  <2>1. w.row \in Row
    BY DEF TypeOK
  <2>2. rows' \subseteq Row /\ Unique(rows')
    BY <1>4, <2>1, SaveTypes, DeleteTypes DEF StoreWrite, Save, Delete, TypeOK, Unique
  <2>3. writes' \in [Replicas -> SUBSET Write]
    BY <1>4 DEF StoreWrite, TypeOK, Write
  <2> QED
    BY <1>4, <2>2, <2>3 DEF StoreWrite, TypeOK, Unique, Write, restore
<1> QED
  BY <1>1, <1>2, <1>3, <1>4

(* What a fire is when it goes on.                                         *)
LEMMA FireOnTypes ==
  ASSUME TypeOK, NEW r \in Replicas, NEW f \in fires[r]
  PROVE  /\ f \in Fire /\ f.entry \in Entry /\ RowOf(f.entry) \in Row
         /\ now + f.entry.dur \in Nat
         /\ \A at \in FireAt : [f EXCEPT !.at = at] \in Fire
<1>1. f \in Fire
  BY DEF TypeOK, Fire
<1>2. f.entry \in Entry /\ RowOf(f.entry) \in Row
  BY <1>1 DEF Fire, Entry, Row, RowOf
<1>3. \A at \in FireAt : [f EXCEPT !.at = at] \in Fire
  BY <1>1 DEF Fire
<1>4. f.entry.dur \in Nat /\ now \in Nat
  BY <1>2 DEF Entry, TypeOK
<1> QED
  BY <1>1, <1>2, <1>3, <1>4

(* A claim ends the fire, on a draining kit or when the row is there, or   *)
(* lets it publish, with the row it has inserted or without.               *)
LEMMA ClaimGoes ==
  ASSUME TypeOK, NEW r \in Replicas, NEW f \in fires[r], FireClaim(r, f)
  PROVE  /\ f.at = "claim"
         /\ \/ /\ FireEnds(r, f) /\ claims' = claims
               /\ draining[r] \/ <<f.entry.id, Bucket(now)>> \in claims
            \/ \E g \in Fire :
                 /\ FireOn(r, f, g)
                 /\ g.at = "publish" /\ g.entry = f.entry /\ g.bucket = Bucket(now)
                 /\ claims' \in {claims, claims \cup {<<f.entry.id, Bucket(now)>>}}
                 /\ g.held => /\ <<f.entry.id, Bucket(now)>> \notin claims
                              /\ <<f.entry.id, Bucket(now)>> \in claims'
<1> DEFINE row == <<f.entry.id, Bucket(now)>>
           g(held) == [f EXCEPT !.at = "publish", !.bucket = Bucket(now), !.held = held]
<1>1. f \in Fire /\ Bucket(now) \in Nat /\ "publish" \in FireAt
  BY FireOnTypes, Rounding DEF TypeOK, FireAt
<1>2. \A held \in BOOLEAN :
        /\ g(held) \in Fire /\ g(held).at = "publish" /\ g(held).entry = f.entry
        /\ g(held).bucket = Bucket(now) /\ g(held).held = held
  BY <1>1 DEF Fire
<1>3. /\ f.at = "claim"
      /\ \/ FireEnds(r, f) /\ claims' = claims /\ (draining[r] \/ row \in claims)
         \/ row \notin claims /\ FireOn(r, f, g(TRUE)) /\ claims' = claims \cup {row}
         \/ FireOn(r, f, g(FALSE)) /\ claims' \in {claims, claims \cup {row}}
  BY DEF FireClaim, ClaimScheduleFire, GoPublish
<1> HIDE DEF row, g
<1>4. CASE row \notin claims /\ FireOn(r, f, g(TRUE)) /\ claims' = claims \cup {row}
  <2>1. row \in claims' /\ claims' \in {claims, claims \cup {row}}
    BY <1>4
  <2> QED
    BY <1>2, <1>3, <1>4, <2>1 DEF row
<1>5. CASE FireOn(r, f, g(FALSE)) /\ claims' \in {claims, claims \cup {row}}
  <2>1. ~g(FALSE).held
    BY <1>2
  <2> QED
    BY <1>2, <1>3, <1>5, <2>1 DEF row
<1> QED
  BY <1>3, <1>4, <1>5 DEF row

(* A fire that has published goes on without its claim.                    *)
LEMMA PublishGoes ==
  ASSUME TypeOK, NEW r \in Replicas, NEW f \in fires[r], FirePublish(r, f)
  PROVE  /\ f.at = "publish"
         /\ \E g \in Fire :
              /\ FireOn(r, f, g) /\ g.entry = f.entry
              /\ g.at = IF f.entry.oneTime THEN "forget" ELSE "rearm"
<1> DEFINE at == IF f.entry.oneTime THEN "forget" ELSE "rearm"
           g == [f EXCEPT !.at = at, !.bucket = 0, !.held = FALSE]
<1>1. f \in Fire /\ at \in FireAt
  BY FireOnTypes DEF FireAt
<1>2. f.at = "publish" /\ FireOn(r, f, g)
  BY DEF FirePublish
<1> HIDE DEF at
<1>3. g \in Fire /\ g.entry = f.entry /\ g.at = at
  BY <1>1 DEF Fire
<1> HIDE DEF g
<1> QED
  BY <1>2, <1>3 DEF at

LEMMA FireStepTypes ==
  ASSUME TypeOK, NEW r \in Replicas, FireStep(r)
  PROVE  TypeOK'
<1>1. ASSUME NEW t \in timers[r], TimerFires(r, t)
      PROVE  TypeOK'
  <2>1. [entry |-> t.entry, at |-> "enter", bucket |-> 0, held |-> FALSE] \in Fire
    BY DEF TypeOK, Fire, FireAt
  <2>2. fires' \in [Replicas -> SUBSET Fire]
    BY <1>1, <2>1 DEF TimerFires, TypeOK, Fire
  <2>3. timers' \in [Replicas -> SUBSET Timer]
    BY <1>1 DEF TimerFires, TypeOK, Timer
  <2> QED
    BY <1>1, <2>2, <2>3 DEF TimerFires, TypeOK, Fire, Timer, restore, store
<1> SUFFICES ASSUME NEW f \in fires[r],
                    FireEnter(r, f) \/ FireClaim(r, f) \/ FirePublish(r, f)
                      \/ FireForget(r, f) \/ FireRearm(r, f) \/ FireReset(r, f)
                      \/ FireStore(r, f)
             PROVE  TypeOK'
  BY <1>1 DEF FireStep
<1>2. CASE FireEnter(r, f)
  <2>1. "claim" \in FireAt
    BY DEF FireAt
  <2>2. fires' \in [Replicas -> SUBSET Fire]
    BY <1>2, <2>1, FireTypes, FireOnTypes DEF FireEnter
  <2> QED
    BY <1>2, <2>2 DEF FireEnter, TypeOK, Fire, restore, store
<1>3. CASE FireClaim(r, f)
  <2>4. FireEnds(r, f) \/ \E g \in Fire : FireOn(r, f, g)
    BY <1>3, ClaimGoes
  <2>5. f \in Fire
    BY FireOnTypes
  <2>1. fires' \in [Replicas -> SUBSET Fire]
    BY <2>4, <2>5, FireTypes
  <2>2. <<f.entry.id, Bucket(now)>> \in Ids \X Nat
    BY FireOnTypes, Rounding DEF TypeOK, Entry
  <2>3. claims' \subseteq Ids \X Nat
    BY <1>3, <2>2, ClaimGoes DEF TypeOK
  <2> QED
    BY <1>3, <2>1, <2>3 DEF FireClaim, TypeOK, Fire, restore
<1>4. CASE FirePublish(r, f)
  <2>2. fires' \in [Replicas -> SUBSET Fire]
    BY <1>4, FireTypes, PublishGoes
  <2>3. [id |-> f.entry.id, by |-> r, ptr |-> f.entry.ptr, due |-> f.entry.next,
         bucket |-> f.bucket, held |-> f.held] \in Message
    BY FireOnTypes DEF Fire, Entry, Message
  <2>4. published' \subseteq Message
    BY <1>4, <2>3 DEF FirePublish, Publish, TypeOK, Message
  <2> QED
    BY <1>4, <2>2, <2>4 DEF FirePublish, TypeOK, Fire, Message, restore, store
<1>5. CASE FireForget(r, f)
  <2>1. "delete" \in FireAt
    BY DEF FireAt
  <2>2. fires' \in [Replicas -> SUBSET Fire]
    BY <1>5, <2>1, FireTypes, FireOnTypes DEF FireForget
  <2>3. /\ entries' \in [Replicas -> SUBSET Entry]
        /\ \A q \in Replicas : Unique(entries'[q])
    <3>1. CASE entries' = entries
      BY <3>1 DEF TypeOK, Unique
    <3> QED
      BY <1>5, <3>1, DropEntry DEF FireForget
  <2> QED
    BY <1>5, <2>2, <2>3 DEF FireForget, TypeOK, Unique, Fire, restore, store
<1>6. CASE FireRearm(r, f)
  <2> DEFINE e == [f.entry EXCEPT !.next = now + f.entry.dur]
  <2>1. e \in Entry
    BY FireOnTypes DEF Entry
  <2>3. \/ FireOn(r, f, [f EXCEPT !.at = "reset", !.entry = e])
        \/ FireEnds(r, f)
    BY <1>6 DEF FireRearm
  <2>4. entries' = entries \/ entries' = [entries EXCEPT ![r] = Put(@, e)]
    BY <1>6 DEF FireRearm
  <2> HIDE DEF e
  <2>2. [f EXCEPT !.at = "reset", !.entry = e] \in Fire
    <3>1. f \in Fire /\ "reset" \in FireAt
      BY FireOnTypes DEF FireAt
    <3> QED
      BY <2>1, <3>1 DEF Fire
  <2>5. fires' \in [Replicas -> SUBSET Fire]
    BY <2>2, <2>3, FireTypes
  <2>6. /\ entries' \in [Replicas -> SUBSET Entry]
        /\ \A q \in Replicas : Unique(entries'[q])
    <3>1. CASE entries' = entries
      BY <3>1 DEF TypeOK, Unique
    <3> QED
      BY <2>1, <2>4, <3>1, PutEntry
  <2> QED
    BY <1>6, <2>5, <2>6 DEF FireRearm, TypeOK, Unique, Fire, restore, store
<1>7. CASE FireReset(r, f)
  <2>1. "save" \in FireAt
    BY DEF FireAt
  <2>2. fires' \in [Replicas -> SUBSET Fire]
    BY <1>7, <2>1, FireTypes, FireOnTypes DEF FireReset
  <2>3. [entry |-> f.entry, at |-> now + f.entry.dur] \in Timer
    BY FireOnTypes DEF Timer
  <2>4. timers' \in [Replicas -> SUBSET Timer]
    BY <1>7, <2>3 DEF FireReset, StopTimer, TypeOK, Timer
  <2> QED
    BY <1>7, <2>2, <2>4 DEF FireReset, TypeOK, Fire, Timer, restore, store
<1>8. CASE FireStore(r, f)
  <2>1. fires' \in [Replicas -> SUBSET Fire]
    BY <1>8, FireTypes, FireOnTypes DEF FireStore
  <2>2. rows' \subseteq Row /\ Unique(rows')
    BY <1>8, FireOnTypes, SaveTypes, DeleteTypes
    DEF FireStore, Save, Delete, TypeOK, Unique
  <2> QED
    BY <1>8, <2>1, <2>2 DEF FireStore, TypeOK, Unique, Fire, restore
<1> QED
  BY <1>2, <1>3, <1>4, <1>5, <1>6, <1>7, <1>8

LEMMA RestoreTypes ==
  ASSUME TypeOK, NEW r \in Replicas, RestoreStep(r)
  PROVE  TypeOK'
<1>1. ASSUME NEW row \in todo[r], RestoreCatchUp(r, row)
      PROVE  TypeOK'
  <2>1. row \in Row
    BY DEF TypeOK
  <2>2. [id |-> row.id, by |-> r, ptr |-> 0, due |-> row.next, bucket |-> 0,
         held |-> FALSE] \in Message
    BY <2>1 DEF Row, Message
  <2>3. published' \subseteq Message
    BY <1>1, <2>2 DEF RestoreCatchUp, Publish, TypeOK, Message
  <2> QED
    BY <1>1, <2>1, <2>3 DEF RestoreCatchUp, TypeOK, Message, store
<1>2. ASSUME NEW row \in todo[r], RestoreAdd(r, row)
      PROVE  TypeOK'
  <2>1. row \in Row /\ Arm(r, row, FALSE)
    BY <1>2 DEF TypeOK, RestoreAdd
  <2>2. /\ adds' \in Nat /\ timers' \in [Replicas -> SUBSET Timer]
        /\ adding' \in [Replicas -> SUBSET Add]
    BY <2>1, ArmTypes
  <2> QED
    BY <1>2, <2>2 DEF RestoreAdd, TypeOK, Timer, Add, store
<1>3. ASSUME NEW row \in settling[r], RestoreSettle(r, row)
      PROVE  TypeOK'
  <2> DEFINE moved == [row EXCEPT !.next = since[r] + row.dur]
  <2>1. row \in Row /\ moved \in Row
    BY DEF TypeOK, Row
  <2>2. \/ Delete(row.id) /\ UNCHANGED <<timers, adding, adds>>
        \/ Save(moved) /\ Arm(r, moved, FALSE)
    BY <1>3 DEF RestoreSettle
  <2> HIDE DEF moved
  <2>3. rows' \subseteq Row /\ Unique(rows')
    BY <2>1, <2>2, SaveTypes, DeleteTypes DEF Save, Delete, TypeOK, Unique
  <2>4. /\ adds' \in Nat /\ timers' \in [Replicas -> SUBSET Timer]
        /\ adding' \in [Replicas -> SUBSET Add]
    <3>1. CASE UNCHANGED <<timers, adding, adds>>
      BY <3>1 DEF TypeOK, Timer, Add
    <3> QED
      BY <2>1, <2>2, <3>1, ArmTypes
  <2> QED
    BY <1>3, <2>3, <2>4 DEF RestoreSettle, TypeOK, Unique, Timer, Add
<1>4. CASE RestoreEnds(r)
  BY <1>4 DEF RestoreEnds, TypeOK, restore, store
<1> QED
  BY <1>1, <1>2, <1>3, <1>4 DEF RestoreStep

(* A replica starts, closes, crashes, is drained; time passes.             *)
LEMMA LifeTypes ==
  ASSUME TypeOK,
         \/ \E r \in Replicas : \/ Start(r) \/ CloseBegin(r) \/ CloseReturn(r)
                               \/ Crash(r) \/ SetDraining(r)
         \/ Tick \/ UNCHANGED vars
  PROVE  TypeOK'
<1>1. ASSUME NEW r \in Replicas, Start(r)
      PROVE  TypeOK'
  BY <1>1 DEF Start, TypeOK, store
<1>2. ASSUME NEW r \in Replicas, CloseBegin(r)
      PROVE  TypeOK'
  BY <1>2 DEF CloseBegin, TypeOK, restore, store
<1>3. ASSUME NEW r \in Replicas, CloseReturn(r)
      PROVE  TypeOK'
  BY <1>3 DEF CloseReturn, TypeOK, restore, store
<1>4. ASSUME NEW r \in Replicas, Crash(r)
      PROVE  TypeOK'
  BY <1>4 DEF Crash, TypeOK, store
<1>5. ASSUME NEW r \in Replicas, SetDraining(r)
      PROVE  TypeOK'
  BY <1>5 DEF SetDraining, TypeOK, restore, store
<1>6. CASE Tick
  BY <1>6 DEF Tick, TypeOK, restore, store
<1>7. CASE UNCHANGED vars
  BY <1>7 DEF vars, TypeOK
<1> QED
  BY <1>1, <1>2, <1>3, <1>4, <1>5, <1>6, <1>7

LEMMA InitTypes == Init => TypeOK
BY SchedulerAssumption DEF Init, TypeOK

LEMMA NextTypes == TypeOK /\ [Next]_vars => TypeOK'
BY AddTypes, FireStepTypes, RestoreTypes, LifeTypes DEF Next, Operate, AddStep

(* The tables, the map, the timers and the goroutines of every replica hold *)
(* what they are meant to, and the map and the table one value per ID.      *)
THEOREM TypeCorrect == Spec => []TypeOK
BY InitTypes, NextTypes, PTL DEF Spec
-----------------------------------------------------------------------------
(* A claim is a token: whoever may publish as its holder has one, and no   *)
(* two have the same; publishing spends it.                                *)
Holds(f) == f.at = "publish" /\ f.held

Claimed ==
  /\ \A r \in Replicas : \A f \in fires[r] :
       Holds(f) => <<f.entry.id, f.bucket>> \in claims
  /\ \A p \in published : p.held => <<p.id, p.bucket>> \in claims

OneHolder ==
  \A r, q \in Replicas : \A f \in fires[r], g \in fires[q] :
    (Holds(f) /\ Holds(g) /\ f.entry.id = g.entry.id /\ f.bucket = g.bucket)
      => r = q /\ f = g

Unspent ==
  \A r \in Replicas : \A f \in fires[r], p \in published :
    Holds(f) /\ p.held => ~(f.entry.id = p.id /\ f.bucket = p.bucket)

Tokens == TypeOK /\ Claimed /\ OneHolder /\ Unspent /\ OneFirePerClaim

(* No other step makes a fire that may publish, or publishes by a claim.   *)
LEMMA TokenSteps ==
  ASSUME TypeOK, [Next]_vars,
         \A r \in Replicas : \A f \in fires[r] : ~FireClaim(r, f) /\ ~FirePublish(r, f)
  PROVE  /\ claims' = claims
         /\ \A p \in published' : p \in published \/ ~p.held
         /\ \A r \in Replicas : \A f \in fires'[r] : f \in fires[r] \/ f.at # "publish"
<1>1. claims' = claims /\ \A p \in published' : p \in published \/ ~p.held
  <2>1. ASSUME NEW r \in Replicas, NEW row \in todo[r], RestoreCatchUp(r, row)
        PROVE  claims' = claims /\ \A p \in published' : p \in published \/ ~p.held
    <3> DEFINE m == [id |-> row.id, by |-> r, ptr |-> 0, due |-> row.next, bucket |-> 0,
                     held |-> FALSE]
    <3>1. ~m.held
      OBVIOUS
    <3>2. published' \in {published, published \cup {m}}
      BY <2>1 DEF RestoreCatchUp, Publish
    <3>3. claims' = claims
      BY <2>1 DEF RestoreCatchUp, store
    <3> HIDE DEF m
    <3> QED
      BY <3>1, <3>2, <3>3
  <2>2. CASE UNCHANGED <<claims, published>>
    BY <2>2
  <2>3. ASSUME NEW r \in Replicas,
               \/ AddStep(r)
               \/ \E id \in Ids, k \in Kinds : Schedule(r, id, k)
               \/ \E e \in entries[r] : Unschedule(r, e)
        PROVE  UNCHANGED <<claims, published>>
    BY <2>3 DEF AddStep, Schedule, AddInsert, Unschedule, StoreWrite, store
  <2>4. ASSUME NEW r \in Replicas, FireStep(r)
        PROVE  UNCHANGED <<claims, published>>
    BY <2>4 DEF FireStep, TimerFires, FireEnter, FireForget, FireRearm, FireReset,
                FireStore, store
  <2>5. ASSUME NEW r \in Replicas, RestoreStep(r)
        PROVE  \/ UNCHANGED <<claims, published>>
               \/ \E row \in todo[r] : RestoreCatchUp(r, row)
    BY <2>5 DEF RestoreStep, RestoreAdd, RestoreSettle, RestoreEnds, store
  <2>6. ASSUME \/ \E r \in Replicas : \/ Start(r) \/ CloseBegin(r) \/ CloseReturn(r)
                                     \/ Crash(r) \/ SetDraining(r)
               \/ Tick \/ UNCHANGED vars
        PROVE  UNCHANGED <<claims, published>>
    BY <2>6 DEF Start, CloseBegin, CloseReturn, Crash, SetDraining, Tick, vars, store
  <2> QED
    BY <2>1, <2>2, <2>3, <2>4, <2>5, <2>6 DEF Next, Operate
<1>3. \A r \in Replicas : \A f \in fires'[r] : f \in fires[r] \/ f.at # "publish"
  <2>1. ASSUME NEW r \in Replicas, NEW f \in fires[r], NEW g, g.at # "publish",
               FireOn(r, f, g) \/ FireEnds(r, f)
        PROVE  \A q \in Replicas : \A h \in fires'[q] : h \in fires[q] \/ h.at # "publish"
    BY <2>1 DEF FireOn, FireEnds, TypeOK
  <2>2. ASSUME NEW r \in Replicas, NEW f \in fires[r],
               \/ FireEnter(r, f) \/ FireForget(r, f) \/ FireRearm(r, f)
               \/ FireReset(r, f) \/ FireStore(r, f)
        PROVE  \A q \in Replicas : \A h \in fires'[q] : h \in fires[q] \/ h.at # "publish"
    <3>1. PICK g : g.at # "publish" /\ (FireOn(r, f, g) \/ FireEnds(r, f))
      <4>1. f \in Fire
        BY FireOnTypes
      <4>2. \A at \in FireAt : [f EXCEPT !.at = at].at = at
        BY <4>1 DEF Fire
      <4>3. [f EXCEPT !.at = "reset",
                      !.entry = [f.entry EXCEPT !.next = now + f.entry.dur]].at = "reset"
        BY <4>1 DEF Fire
      <4> QED
        BY <2>2, <4>2, <4>3
        DEF FireEnter, FireForget, FireRearm, FireReset, FireStore, FireAt
    <3> QED
      BY <2>1, <3>1
  <2>3. ASSUME NEW r \in Replicas, NEW t \in timers[r], TimerFires(r, t)
        PROVE  \A q \in Replicas : \A h \in fires'[q] : h \in fires[q] \/ h.at # "publish"
    BY <2>3 DEF TimerFires, TypeOK
  <2>4. ASSUME NEW r \in Replicas, Crash(r)
        PROVE  \A q \in Replicas : \A h \in fires'[q] : h \in fires[q] \/ h.at # "publish"
    BY <2>4 DEF Crash, TypeOK
  <2>5. CASE fires' = fires
    BY <2>5
  <2> QED
    BY <2>2, <2>3, <2>4, <2>5
    DEF Next, Operate, AddStep, FireStep, RestoreStep, vars, restore, store,
        Schedule, AddInsert, Unschedule, StoreWrite, RestoreCatchUp, RestoreAdd,
        RestoreSettle, RestoreEnds, Start, CloseBegin, CloseReturn, SetDraining, Tick
<1> QED
  BY <1>1, <1>3

LEMMA ClaimTokens ==
  ASSUME Tokens, NEW r \in Replicas, NEW f \in fires[r], FireClaim(r, f)
  PROVE  (Claimed /\ OneHolder /\ Unspent /\ OneFirePerClaim)'
<1> DEFINE row == <<f.entry.id, Bucket(now)>>
<1>1. published' = published
  BY DEF FireClaim
<1>2. CASE FireEnds(r, f) /\ claims' = claims
  <2>1. \A q \in Replicas : fires'[q] \subseteq fires[q]
    BY <1>2 DEF FireEnds, Tokens, TypeOK
  <2> QED
    BY <1>1, <1>2, <2>1 DEF Tokens, Claimed, OneHolder, Unspent, OneFirePerClaim
<1>3. ASSUME NEW g \in Fire, FireOn(r, f, g),
             g.at = "publish", g.entry = f.entry, g.bucket = Bucket(now),
             claims' \in {claims, claims \cup {row}},
             g.held => row \notin claims /\ row \in claims'
      PROVE  (Claimed /\ OneHolder /\ Unspent /\ OneFirePerClaim)'
  <2>1. \A q \in Replicas : \A h \in fires'[q] : h \in fires[q] \/ (q = r /\ h = g)
    BY <1>3 DEF FireOn, Tokens, TypeOK
  <2>2. claims \subseteq claims' /\ (Holds(g) => <<g.entry.id, g.bucket>> \in claims')
    BY <1>3 DEF Holds
  <2>3. Claimed'
    BY <1>1, <2>1, <2>2 DEF Tokens, Claimed, Holds
  <2>4. ASSUME NEW q \in Replicas, NEW h \in fires[q], Holds(h), Holds(g)
        PROVE  ~(h.entry.id = g.entry.id /\ h.bucket = g.bucket)
    BY <1>3, <2>4 DEF Tokens, Claimed, Holds
  <2>5. \A p \in published :
          Holds(g) /\ p.held => ~(g.entry.id = p.id /\ g.bucket = p.bucket)
    BY <1>3 DEF Tokens, Claimed, Holds
  <2>6. ASSUME NEW q1 \in Replicas, NEW q2 \in Replicas,
               NEW h1 \in fires'[q1], NEW h2 \in fires'[q2], Holds(h1), Holds(h2),
               h1.entry.id = h2.entry.id, h1.bucket = h2.bucket
        PROVE  q1 = q2 /\ h1 = h2
    <3>1. CASE h1 \in fires[q1] /\ h2 \in fires[q2]
      BY <2>6, <3>1 DEF Tokens, OneHolder
    <3>2. CASE h1 \in fires[q1] /\ q2 = r /\ h2 = g
      BY <2>4, <2>6, <3>2
    <3>3. CASE h2 \in fires[q2] /\ q1 = r /\ h1 = g
      BY <2>4, <2>6, <3>3
    <3> QED
      BY <2>1, <3>1, <3>2, <3>3
  <2>7. Unspent'
    BY <1>1, <2>1, <2>5 DEF Tokens, Unspent, Holds
  <2> QED
    BY <1>1, <2>3, <2>6, <2>7 DEF Tokens, OneHolder, OneFirePerClaim, Holds
<1>4. \/ FireEnds(r, f) /\ claims' = claims
      \/ \E g \in Fire :
           /\ FireOn(r, f, g)
           /\ g.at = "publish" /\ g.entry = f.entry /\ g.bucket = Bucket(now)
           /\ claims' \in {claims, claims \cup {row}}
           /\ g.held => row \notin claims /\ row \in claims'
  BY ClaimGoes DEF Tokens
<1> HIDE DEF row
<1> QED
  BY <1>2, <1>3, <1>4

LEMMA PublishTokens ==
  ASSUME Tokens, NEW r \in Replicas, NEW f \in fires[r], FirePublish(r, f)
  PROVE  (Claimed /\ OneHolder /\ Unspent /\ OneFirePerClaim)'
<1> DEFINE p == [id |-> f.entry.id, by |-> r, ptr |-> f.entry.ptr,
                 due |-> f.entry.next, bucket |-> f.bucket, held |-> f.held]
<1>1. f.at = "publish" /\ claims' = claims
  BY DEF FirePublish, store
<1>2. p.id = f.entry.id /\ p.bucket = f.bucket /\ (p.held => Holds(f))
  BY <1>1 DEF Holds
<1>3. published' \in {published, published \cup {p}}
  BY DEF FirePublish, Publish
<1> HIDE DEF p
<1>4. PICK g \in Fire : FireOn(r, f, g) /\ g.at # "publish"
  BY PublishGoes DEF Tokens
<1>5. \A q \in Replicas : \A h \in fires'[q] :
        Holds(h) => h \in fires[q] /\ ~(q = r /\ h = f)
  BY <1>1, <1>4 DEF FireOn, Tokens, TypeOK, Holds
<1>6. Claimed'
  <2>1. p.held => <<p.id, p.bucket>> \in claims
    BY <1>2 DEF Tokens, Claimed
  <2> QED
    BY <1>1, <1>3, <1>5, <2>1 DEF Tokens, Claimed, Holds
<1>7. ASSUME NEW q1 \in Replicas, NEW q2 \in Replicas,
             NEW h1 \in fires'[q1], NEW h2 \in fires'[q2], Holds(h1), Holds(h2),
             h1.entry.id = h2.entry.id, h1.bucket = h2.bucket
      PROVE  q1 = q2 /\ h1 = h2
  BY <1>5, <1>7 DEF Tokens, OneHolder
<1>8. Unspent'
  <2>1. \A q \in Replicas : \A h \in fires'[q] :
          Holds(h) /\ p.held => ~(h.entry.id = p.id /\ h.bucket = p.bucket)
    BY <1>2, <1>5 DEF Tokens, OneHolder
  <2> QED
    BY <1>3, <1>5, <2>1 DEF Tokens, Unspent, Holds
<1>9. OneFirePerClaim'
  <2>1. \A x \in published :
          x.held /\ p.held => ~(x.id = p.id /\ x.bucket = p.bucket)
    BY <1>2 DEF Tokens, Unspent
  <2> QED
    BY <1>3, <2>1 DEF Tokens, OneFirePerClaim
<1> QED
  BY <1>6, <1>7, <1>8, <1>9 DEF OneHolder, Holds

LEMMA NextTokens == Tokens /\ [Next]_vars => Tokens'
<1> SUFFICES ASSUME Tokens, [Next]_vars PROVE Tokens'
  OBVIOUS
<1>1. TypeOK'
  BY NextTypes DEF Tokens
<1>2. CASE \E r \in Replicas : \E f \in fires[r] : FireClaim(r, f) \/ FirePublish(r, f)
  BY <1>1, <1>2, ClaimTokens, PublishTokens DEF Tokens
<1>3. CASE \A r \in Replicas : \A f \in fires[r] : ~FireClaim(r, f) /\ ~FirePublish(r, f)
  <2>1. /\ claims' = claims
        /\ \A p \in published' : p \in published \/ ~p.held
        /\ \A r \in Replicas : \A f \in fires'[r] : f \in fires[r] \/ f.at # "publish"
    BY <1>3, TokenSteps DEF Tokens
  <2>2. Claimed'
    BY <2>1 DEF Tokens, Claimed, Holds
  <2>3. ASSUME NEW q1 \in Replicas, NEW q2 \in Replicas,
               NEW h1 \in fires'[q1], NEW h2 \in fires'[q2],
               Holds(h1), Holds(h2),
               h1.entry.id = h2.entry.id, h1.bucket = h2.bucket
        PROVE  q1 = q2 /\ h1 = h2
    BY <2>1, <2>3 DEF Tokens, OneHolder, Holds
  <2>4. Unspent'
    BY <2>1 DEF Tokens, Unspent, Holds
  <2>5. OneFirePerClaim'
    BY <2>1 DEF Tokens, OneFirePerClaim
  <2> QED
    BY <1>1, <2>2, <2>3, <2>4, <2>5 DEF Tokens, OneHolder, Holds
<1> QED
  BY <1>2, <1>3

(* Of the publishes of a schedule in one bucket at most one holds its      *)
(* claim, for any number of replicas, whatever their clocks, crashes and   *)
(* restarts do, and whichever calls of the store fail: the others are      *)
(* fires whose claim returned an error.                                    *)
THEOREM OneFire == Spec => []OneFirePerClaim
<1>1. Init => Tokens
  BY InitTypes DEF Init, Tokens, Claimed, OneHolder, Unspent, OneFirePerClaim
<1>2. Tokens => OneFirePerClaim
  BY DEF Tokens
<1> QED
  BY <1>1, <1>2, NextTokens, PTL DEF Spec
-----------------------------------------------------------------------------
(* What Close has waited for: a fire of a closed scheduler is one that its *)
(* first critical section will turn away.                                  *)
TurnedAway ==
  \A r \in Replicas :
    state[r] \in {"closed", "down"} => \A f \in fires[r] : f.at = "enter"

LEMMA NextTurned ==
  ASSUME TypeOK, TurnedAway, [Next]_vars PROVE TurnedAway'
<1> DEFINE Over(q) == state[q] \in {"closed", "down"}
<1>1. ASSUME NEW r \in Replicas, FireStep(r)
      PROVE  TurnedAway'
  <2>1. state' = state
    BY <1>1 DEF FireStep, TimerFires, FireEnter, FireClaim, FirePublish, FireForget,
                FireRearm, FireReset, FireStore
  <2>2. ASSUME Over(r), NEW h \in fires'[r]
        PROVE  h.at = "enter"
    <3>1. ~Running(r)
      BY <2>2 DEF Running
    <3>2. \A f \in fires[r] : f.at = "enter"
      BY <2>2 DEF TurnedAway
    <3>3. CASE \E t \in timers[r] : TimerFires(r, t)
      BY <2>2, <3>2, <3>3 DEF TimerFires, TypeOK
    <3>4. CASE \E f \in fires[r] : FireEnter(r, f)
      BY <2>2, <3>1, <3>2, <3>4 DEF FireEnter, FireEnds, TypeOK
    <3> QED
      BY <1>1, <3>2, <3>3, <3>4
      DEF FireStep, FireClaim, FirePublish, FireForget, FireRearm, FireReset, FireStore
  <2>3. \A q \in Replicas : q # r => fires'[q] = fires[q]
    BY <1>1 DEF FireStep, TimerFires, FireEnter, FireClaim, ClaimScheduleFire, GoPublish,
                FirePublish, FireForget, FireRearm, FireReset, FireStore, FireOn, FireEnds,
                TypeOK
  <2> QED
    BY <2>1, <2>2, <2>3 DEF TurnedAway
<1>2. ASSUME NEW r \in Replicas, Crash(r)
      PROVE  TurnedAway'
  BY <1>2 DEF Crash, TurnedAway, TypeOK
<1>3. ASSUME NEW r \in Replicas, CloseReturn(r)
      PROVE  TurnedAway'
  BY <1>3 DEF CloseReturn, TurnedAway, TypeOK
<1>4. CASE fires' = fires /\ \A q \in Replicas : Over(q)' => Over(q)
  BY <1>4 DEF TurnedAway
<1>5. ASSUME NEW r \in Replicas, Start(r) \/ CloseBegin(r) \/ RestoreEnds(r)
      PROVE  fires' = fires /\ \A q \in Replicas : Over(q)' => Over(q)
  BY <1>5 DEF Start, CloseBegin, RestoreEnds, TypeOK
<1>6. ASSUME \/ \E r \in Replicas :
                  \/ AddStep(r) \/ SetDraining(r)
                  \/ \E id \in Ids, k \in Kinds : Schedule(r, id, k)
                  \/ \E e \in entries[r] : Unschedule(r, e)
                  \/ \E row \in todo[r] : RestoreCatchUp(r, row) \/ RestoreAdd(r, row)
                  \/ \E row \in settling[r] : RestoreSettle(r, row)
             \/ Tick \/ UNCHANGED vars
      PROVE  UNCHANGED <<state, fires>>
  BY <1>6 DEF AddStep, SetDraining, Schedule, Unschedule, AddInsert, StoreWrite,
              RestoreCatchUp, RestoreAdd, RestoreSettle, Tick, vars
<1> QED
  BY <1>1, <1>2, <1>3, <1>4, <1>5, <1>6 DEF Next, Operate, RestoreStep

(* After CloseContext has returned nil, or the process has died, a replica *)
(* publishes nothing: a fire that Close did not wait for finds the         *)
(* scheduler closed.                                                       *)
THEOREM SilentAfterClose == Spec => NoPublishAfterClose
<1> DEFINE Quiet == \A p \in published' \ published : state[p.by] \notin {"closed", "down"}
<1>1. Init => TypeOK /\ TurnedAway
  BY InitTypes DEF Init, TurnedAway
<1>2. ASSUME TypeOK, TurnedAway, [Next]_vars
      PROVE  Quiet
  <2>1. ASSUME NEW r \in Replicas, NEW f \in fires[r], FirePublish(r, f)
        PROVE  Quiet
    BY <1>2, <2>1 DEF FirePublish, Publish, TurnedAway
  <2>2. ASSUME NEW r \in Replicas, NEW row \in todo[r], RestoreCatchUp(r, row)
        PROVE  Quiet
    BY <2>2 DEF RestoreCatchUp, Publish, BetweenRows
  <2>3. CASE published' = published
    BY <2>3
  <2>4. ASSUME NEW r \in Replicas, RestoreStep(r) \/ AddStep(r) \/ FireStep(r)
        PROVE  \/ published' = published
               \/ \E f \in fires[r] : FirePublish(r, f)
               \/ \E row \in todo[r] : RestoreCatchUp(r, row)
    BY <2>4 DEF RestoreStep, AddStep, FireStep, RestoreAdd, RestoreSettle, RestoreEnds,
                AddInsert, StoreWrite, TimerFires, FireEnter, FireClaim, FireForget,
                FireRearm, FireReset, FireStore
  <2>5. ASSUME \/ \E r \in Replicas :
                    \/ \E id \in Ids, k \in Kinds : Schedule(r, id, k)
                    \/ \E e \in entries[r] : Unschedule(r, e)
                    \/ Start(r) \/ CloseBegin(r) \/ CloseReturn(r)
                    \/ Crash(r) \/ SetDraining(r)
               \/ Tick \/ UNCHANGED vars
        PROVE  published' = published
    BY <2>5 DEF Schedule, Unschedule, Start, CloseBegin, CloseReturn, Crash,
                SetDraining, Tick, vars
  <2> QED
    BY <1>2, <2>1, <2>2, <2>3, <2>4, <2>5 DEF Next, Operate
<1>3. TypeOK /\ TurnedAway /\ [Next]_vars => [Quiet]_vars /\ (TypeOK /\ TurnedAway)'
  BY <1>2, NextTypes, NextTurned
<1> QED
  BY <1>1, <1>3, PTL DEF Spec, NoPublishAfterClose
-----------------------------------------------------------------------------
(* Where an entry of the map, one that add holds, and a fire that may      *)
(* publish come from.                                                      *)
EntrySource ==
  \A r \in Replicas : \A e \in entries'[r] :
    \/ e \in entries[r]
    \/ \E a \in adding[r] : e = a.entry
    \/ \E x \in entries[r] : e.ptr = x.ptr

AddSource ==
  \A r \in Replicas : \A a \in adding'[r] : a \in adding[r] \/ a.entry.ptr = adds + 1

FireSource ==
  \A r \in Replicas : \A f \in fires'[r] :
    f.at \in {"claim", "publish"} =>
      \/ f \in fires[r]
      \/ \E g \in fires[r] : g.at = "claim" /\ f.entry = g.entry
      \/ \E x \in entries[r] : f.entry.ptr = x.ptr

LEMMA EntryOrigin == ASSUME TypeOK, [Next]_vars PROVE EntrySource
<1>1. CASE entries' = entries
  BY <1>1 DEF EntrySource
<1>2. ASSUME NEW r \in Replicas, NEW a \in adding[r], AddInsert(r, a)
      PROVE  EntrySource
  BY <1>2 DEF AddInsert, Put, Drop, EntrySource, TypeOK
<1>3. ASSUME NEW r \in Replicas, NEW f \in fires[r], FireRearm(r, f)
      PROVE  EntrySource
  <2> DEFINE e == [f.entry EXCEPT !.next = now + f.entry.dur]
  <2>1. e.ptr = f.entry.ptr
    BY FireOnTypes DEF Entry
  <2>2. \/ entries' = entries
        \/ Current(r, f.entry) /\ entries' = [entries EXCEPT ![r] = Put(@, e)]
    BY <1>3 DEF FireRearm
  <2> HIDE DEF e
  <2> QED
    BY <1>1, <2>1, <2>2 DEF Current, Put, Drop, EntrySource, TypeOK
<1>4. ASSUME NEW r \in Replicas,
             \/ \E e \in entries[r] : Unschedule(r, e)
             \/ \E f \in fires[r] : FireForget(r, f)
             \/ CloseBegin(r) \/ Crash(r)
      PROVE  EntrySource
  <2>1. \A q \in Replicas : entries'[q] \subseteq entries[q]
    <3>1. CASE \E e \in entries[r] : Unschedule(r, e)
      BY <3>1 DEF Unschedule, Drop, TypeOK
    <3>2. CASE \E f \in fires[r] : FireForget(r, f)
      BY <3>2 DEF FireForget, Drop, TypeOK
    <3>3. CASE CloseBegin(r) \/ Crash(r)
      BY <3>3 DEF CloseBegin, Crash, TypeOK
    <3> QED
      BY <1>4, <3>1, <3>2, <3>3
  <2> QED
    BY <2>1 DEF EntrySource
<1>5. ASSUME NEW r \in Replicas, AddStep(r) \/ FireStep(r) \/ RestoreStep(r)
      PROVE  \/ entries' = entries
             \/ \E a \in adding[r] : AddInsert(r, a)
             \/ \E f \in fires[r] : FireRearm(r, f) \/ FireForget(r, f)
  BY <1>5 DEF AddStep, StoreWrite, FireStep, TimerFires, FireEnter, FireClaim, FirePublish,
              FireReset, FireStore, RestoreStep, RestoreCatchUp, RestoreAdd,
              RestoreSettle, RestoreEnds
<1>6. ASSUME \/ \E r \in Replicas :
                  \/ \E id \in Ids, k \in Kinds : Schedule(r, id, k)
                  \/ Start(r) \/ CloseReturn(r) \/ SetDraining(r)
             \/ Tick \/ UNCHANGED vars
      PROVE  entries' = entries
  BY <1>6 DEF Schedule, Start, CloseReturn, SetDraining, Tick, vars
<1> QED
  BY <1>1, <1>2, <1>3, <1>4, <1>5, <1>6 DEF Next, Operate

LEMMA AddOrigin == ASSUME TypeOK, [Next]_vars PROVE AddSource
<1>1. CASE adding' = adding
  BY <1>1 DEF AddSource
<1>2. ASSUME NEW r \in Replicas, NEW row, NEW save, Arm(r, row, save)
      PROVE  AddSource
  BY <1>2 DEF Arm, AddSource, TypeOK
<1>3. ASSUME NEW r \in Replicas, (\E a \in adding[r] : AddInsert(r, a)) \/ Crash(r)
      PROVE  AddSource
  BY <1>3 DEF AddInsert, Crash, AddSource, TypeOK
<1>4. ASSUME NEW r \in Replicas,
             RestoreStep(r) \/ \E id \in Ids, k \in Kinds : Schedule(r, id, k)
      PROVE  adding' = adding \/ \E row, save : Arm(r, row, save)
  BY <1>4 DEF Schedule, RestoreStep, RestoreCatchUp, RestoreAdd, RestoreSettle, RestoreEnds
<1>5. ASSUME NEW r \in Replicas, AddStep(r) \/ FireStep(r)
      PROVE  adding' = adding \/ \E a \in adding[r] : AddInsert(r, a)
  BY <1>5 DEF AddStep, StoreWrite, FireStep, TimerFires, FireEnter, FireClaim, FirePublish,
              FireForget, FireRearm, FireReset, FireStore
<1>6. ASSUME \/ \E r \in Replicas :
                  \/ \E e \in entries[r] : Unschedule(r, e)
                  \/ Start(r) \/ CloseBegin(r) \/ CloseReturn(r) \/ SetDraining(r)
             \/ Tick \/ UNCHANGED vars
      PROVE  adding' = adding
  BY <1>6 DEF Unschedule, Start, CloseBegin, CloseReturn, SetDraining, Tick, vars
<1> QED
  BY <1>1, <1>2, <1>3, <1>4, <1>5, <1>6 DEF Next, Operate

LEMMA FireOrigin == ASSUME TypeOK, [Next]_vars PROVE FireSource
<1>1. CASE \A r \in Replicas : \A f \in fires'[r] : f \in fires[r]
  BY <1>1 DEF FireSource
<1>2. ASSUME NEW r \in Replicas, NEW t \in timers[r], TimerFires(r, t)
      PROVE  FireSource
  BY <1>2 DEF TimerFires, FireSource, TypeOK
<1>3. ASSUME NEW r \in Replicas, NEW f \in fires[r], NEW g,
             FireOn(r, f, g) \/ FireEnds(r, f),
             g.at \in {"claim", "publish"} =>
               \/ f.at = "claim" /\ g.entry = f.entry
               \/ \E x \in entries[r] : g.entry.ptr = x.ptr
      PROVE  FireSource
  BY <1>3 DEF FireOn, FireEnds, FireSource, TypeOK
<1>4. ASSUME NEW r \in Replicas, NEW f \in fires[r],
             \/ FireEnter(r, f) \/ FireClaim(r, f) \/ FirePublish(r, f) \/ FireForget(r, f)
             \/ FireRearm(r, f) \/ FireReset(r, f) \/ FireStore(r, f)
      PROVE  FireSource
  <2>1. f \in Fire
    BY FireOnTypes
  <2>2. \A at \in FireAt : [f EXCEPT !.at = at].at = at /\ [f EXCEPT !.at = at].entry = f.entry
    BY <2>1 DEF Fire
  <2>3. CASE FireEnter(r, f)
    <3>1. FireEnds(r, f) \/ (FireOn(r, f, [f EXCEPT !.at = "claim"]) /\ Current(r, f.entry))
      BY <2>3 DEF FireEnter
    <3>2. Current(r, f.entry) => \E x \in entries[r] : f.entry.ptr = x.ptr
      BY DEF Current
    <3>3. CASE FireEnds(r, f)
      BY <1>1, <3>3 DEF FireEnds, TypeOK
    <3>4. [f EXCEPT !.at = "claim"].entry = f.entry
      BY <2>2 DEF FireAt
    <3>5. CASE FireOn(r, f, [f EXCEPT !.at = "claim"]) /\ Current(r, f.entry)
      <4>1. \E x \in entries[r] : [f EXCEPT !.at = "claim"].entry.ptr = x.ptr
        BY <3>2, <3>4, <3>5
      <4> QED
        BY <1>3, <3>5, <4>1
    <3> QED
      BY <3>1, <3>3, <3>5
  <2>4. CASE FireClaim(r, f)
    <3>1. /\ f.at = "claim"
          /\ FireEnds(r, f) \/ \E g \in Fire : FireOn(r, f, g) /\ g.entry = f.entry
      BY <2>4, ClaimGoes
    <3>2. CASE FireEnds(r, f)
      BY <1>1, <3>2 DEF FireEnds, TypeOK
    <3> QED
      BY <1>3, <3>1, <3>2
  <2>5. CASE FireRearm(r, f)
    <3> DEFINE e == [f.entry EXCEPT !.next = now + f.entry.dur]
               g == [f EXCEPT !.at = "reset", !.entry = e]
    <3>1. g.at = "reset"
      BY <2>1 DEF Fire
    <3>2. FireOn(r, f, g) \/ FireEnds(r, f)
      BY <2>5 DEF FireRearm
    <3> HIDE DEF g
    <3> QED
      BY <1>3, <3>1, <3>2
  <2>6. CASE FireForget(r, f) \/ FireReset(r, f) \/ FireStore(r, f)
    <3>1. PICK at \in {"delete", "save"} :
            FireOn(r, f, [f EXCEPT !.at = at]) \/ FireEnds(r, f)
      BY <2>6 DEF FireForget, FireReset, FireStore
    <3>2. [f EXCEPT !.at = at].at = at
      BY <2>2 DEF FireAt
    <3> QED
      BY <1>3, <3>1, <3>2
  <2>7. CASE FirePublish(r, f)
    <3>1. \E g \in Fire : FireOn(r, f, g) /\ g.at \in {"forget", "rearm"}
      BY <2>7, PublishGoes
    <3> QED
      BY <1>3, <3>1
  <2> QED
    BY <1>4, <2>3, <2>4, <2>5, <2>6, <2>7
<1>5. ASSUME NEW r \in Replicas, Crash(r)
      PROVE  FireSource
  BY <1>1, <1>5 DEF Crash, TypeOK
<1>6. ASSUME \/ \E r \in Replicas :
                  \/ AddStep(r) \/ RestoreStep(r)
                  \/ \E id \in Ids, k \in Kinds : Schedule(r, id, k)
                  \/ \E e \in entries[r] : Unschedule(r, e)
                  \/ Start(r) \/ CloseBegin(r) \/ CloseReturn(r) \/ SetDraining(r)
             \/ Tick \/ UNCHANGED vars
      PROVE  fires' = fires
  BY <1>6 DEF AddStep, AddInsert, StoreWrite, RestoreStep, RestoreCatchUp, RestoreAdd,
              RestoreSettle, RestoreEnds, Schedule, Unschedule, Start, CloseBegin,
              CloseReturn, SetDraining, Tick, vars
<1> QED
  BY <1>1, <1>2, <1>4, <1>5, <1>6 DEF Next, Operate, FireStep

(* Once an entry was cancelled or replaced and its running fire is over it *)
(* never publishes again, although a timer for it may still be armed.      *)
THEOREM SilentForGood == Spec => SilencedStaysSilent
<1> DEFINE Stays == \A ptr \in 1 .. adds : Silenced(ptr) => Silenced(ptr)'
<1>1. ASSUME TypeOK, [Next]_vars
      PROVE  Stays
  <2> SUFFICES ASSUME NEW ptr \in 1 .. adds, Silenced(ptr)
               PROVE  Silenced(ptr)'
    OBVIOUS
  <2>1. EntrySource /\ AddSource /\ FireSource
    BY <1>1, EntryOrigin, AddOrigin, FireOrigin
  <2>2. ptr # adds + 1
    BY <1>1 DEF TypeOK
  <2>3. \A r \in Replicas : \A e \in entries'[r] : e.ptr # ptr
    BY <2>1 DEF EntrySource, Silenced
  <2>4. \A r \in Replicas : \A a \in adding'[r] : a.entry.ptr # ptr
    BY <2>1, <2>2 DEF AddSource, Silenced
  <2>5. \A r \in Replicas : \A f \in fires'[r] :
          f.entry.ptr = ptr => f.at \notin {"claim", "publish"}
    BY <2>1 DEF FireSource, Silenced
  <2> QED
    BY <2>3, <2>4, <2>5 DEF Silenced
<1>2. TypeOK /\ [Next]_vars => [Stays]_vars /\ TypeOK'
  BY <1>1, NextTypes
<1> QED
  BY <1>2, InitTypes, PTL DEF Spec, SilencedStaysSilent
-----------------------------------------------------------------------------
(* What a one-time schedule leaves behind when it goes: a message.  A fire *)
(* that has forgotten its entry has published, and so has Restore before   *)
(* it settles a row; a fire that Close cut short will not reach the store. *)
Told(id) == \E p \in published : p.id = id

Sent ==
  \A r \in Replicas :
    /\ \A f \in fires[r] :
         f.at = "delete" \/ (f.at = "forget" /\ Running(r)) => Told(f.entry.id)
    /\ \A row \in settling[r] : Told(row.id)
    /\ \A w \in writes[r] : w.op = "save"
    /\ state[r] = "down" => fires[r] = {}

(* What a fire that deletes comes from. *)
SentSource ==
  \A r \in Replicas : \A f \in fires'[r] :
    \/ f \in fires[r]
    \/ f.at \notin {"forget", "delete"}
    \/ Told(f.entry.id)'
    \/ f.at = "forget" /\ ~Running(r)'

(* Messages are not taken back. *)
LEMMA PublishedGrows == ASSUME TypeOK, [Next]_vars PROVE published \subseteq published'
<1>1. ASSUME NEW r \in Replicas, NEW f \in fires[r], FirePublish(r, f)
      PROVE  published \subseteq published'
  BY <1>1 DEF FirePublish, Publish
<1>2. ASSUME NEW r \in Replicas, NEW row \in todo[r], RestoreCatchUp(r, row)
      PROVE  published \subseteq published'
  BY <1>2 DEF RestoreCatchUp, Publish
<1>3. ASSUME NEW r \in Replicas, RestoreStep(r) \/ AddStep(r) \/ FireStep(r)
      PROVE  \/ published' = published
             \/ \E f \in fires[r] : FirePublish(r, f)
             \/ \E row \in todo[r] : RestoreCatchUp(r, row)
  BY <1>3 DEF RestoreStep, AddStep, FireStep, RestoreAdd, RestoreSettle, RestoreEnds,
              AddInsert, StoreWrite, TimerFires, FireEnter, FireClaim, FireForget,
              FireRearm, FireReset, FireStore
<1>4. ASSUME \/ \E r \in Replicas :
                  \/ \E id \in Ids, k \in Kinds : Schedule(r, id, k)
                  \/ \E e \in entries[r] : Unschedule(r, e)
                  \/ Start(r) \/ CloseBegin(r) \/ CloseReturn(r)
                  \/ Crash(r) \/ SetDraining(r)
             \/ Tick \/ UNCHANGED vars
      PROVE  published' = published
  BY <1>4 DEF Schedule, Unschedule, Start, CloseBegin, CloseReturn, Crash,
              SetDraining, Tick, vars
<1> QED
  BY <1>1, <1>2, <1>3, <1>4 DEF Next, Operate

(* A fire comes to the point where it forgets its entry by a publish that  *)
(* worked, or on a closed scheduler.                                       *)
LEMMA SentOrigin ==
  ASSUME TypeOK, Sent, ~MayFail, [Next]_vars
  PROVE  SentSource
<1>1. CASE \A r \in Replicas : \A f \in fires'[r] : f \in fires[r]
  BY <1>1 DEF SentSource
<1>2. ASSUME NEW r \in Replicas, NEW t \in timers[r], TimerFires(r, t)
      PROVE  SentSource
  BY <1>2 DEF TimerFires, SentSource, TypeOK
<1>3. ASSUME NEW r \in Replicas, NEW f \in fires[r], NEW g,
             FireOn(r, f, g) \/ FireEnds(r, f),
             \/ g.at \notin {"forget", "delete"} \/ Told(g.entry.id)'
             \/ g.at = "forget" /\ ~Running(r)'
      PROVE  SentSource
  BY <1>3 DEF FireOn, FireEnds, SentSource, TypeOK
<1>4. ASSUME NEW r \in Replicas, NEW f \in fires[r],
             \/ FireEnter(r, f) \/ FireClaim(r, f) \/ FirePublish(r, f) \/ FireForget(r, f)
             \/ FireRearm(r, f) \/ FireReset(r, f) \/ FireStore(r, f)
      PROVE  SentSource
  <2>1. f \in Fire
    BY FireOnTypes
  <2>2. \A at \in FireAt : [f EXCEPT !.at = at].at = at /\ [f EXCEPT !.at = at].entry = f.entry
    BY <2>1 DEF Fire
  <2>3. CASE FireEnter(r, f) \/ FireReset(r, f) \/ FireStore(r, f)
    <3>1. PICK at \in {"claim", "save"} :
            FireOn(r, f, [f EXCEPT !.at = at]) \/ FireEnds(r, f)
      BY <2>3 DEF FireEnter, FireReset, FireStore
    <3>2. [f EXCEPT !.at = at].at = at
      BY <2>2 DEF FireAt
    <3> QED
      BY <1>3, <3>1, <3>2
  <2>4. CASE FireClaim(r, f)
    <3>1. FireEnds(r, f) \/ \E g \in Fire : FireOn(r, f, g) /\ g.at = "publish"
      BY <2>4, ClaimGoes
    <3>2. CASE FireEnds(r, f)
      BY <1>1, <3>2 DEF FireEnds, TypeOK
    <3> QED
      BY <1>3, <3>1, <3>2
  <2>5. CASE FireRearm(r, f)
    <3> DEFINE e == [f.entry EXCEPT !.next = now + f.entry.dur]
               g == [f EXCEPT !.at = "reset", !.entry = e]
    <3>1. g.at = "reset"
      BY <2>1 DEF Fire
    <3>2. FireOn(r, f, g) \/ FireEnds(r, f)
      BY <2>5 DEF FireRearm
    <3> HIDE DEF g
    <3> QED
      BY <1>3, <3>1, <3>2
  <2>6. CASE FirePublish(r, f)
    <3>1. PICK g \in Fire :
            FireOn(r, f, g) /\ g.entry = f.entry /\ g.at \in {"forget", "rearm"}
      BY <2>6, PublishGoes
    <3>2. FireOn(r, f, g) /\ state' = state
      BY <2>6, <3>1 DEF FirePublish
    <3>3. ~Running(r) \/ \E p \in published' : p.id = f.entry.id
      <4> DEFINE m == [id |-> f.entry.id, by |-> r, ptr |-> f.entry.ptr,
                       due |-> f.entry.next, bucket |-> f.bucket, held |-> f.held]
      <4>1. m.id = f.entry.id
        OBVIOUS
      <4>2. ~Running(r) \/ published' = published \cup {m}
        BY <2>6 DEF FirePublish, Publish
      <4> HIDE DEF m
      <4> QED
        BY <4>1, <4>2
    <3>4. ~Running(r)' \/ Told(g.entry.id)'
      BY <3>1, <3>2, <3>3 DEF Told, Running
    <3> QED
      BY <1>3, <3>1, <3>2, <3>4
  <2>7. CASE FireForget(r, f)
    <3> DEFINE g == [f EXCEPT !.at = "delete"]
    <3>1. g.entry = f.entry
      BY <2>2 DEF FireAt
    <3>2. CASE FireEnds(r, f)
      BY <1>1, <3>2 DEF FireEnds, TypeOK
    <3>3. CASE Running(r) /\ FireOn(r, f, g)
      <4>1. f.at = "forget" /\ published' = published
        BY <2>7 DEF FireForget
      <4>2. Told(f.entry.id)
        BY <3>3, <4>1 DEF Sent
      <4> HIDE DEF g
      <4>3. Told(g.entry.id)'
        BY <3>1, <4>1, <4>2 DEF Told
      <4> QED
        BY <1>3, <3>3, <4>3
    <3> QED
      BY <2>7, <3>2, <3>3 DEF FireForget
  <2> QED
    BY <1>4, <2>3, <2>4, <2>5, <2>6, <2>7
<1>5. ASSUME NEW r \in Replicas, Crash(r)
      PROVE  SentSource
  BY <1>1, <1>5 DEF Crash, TypeOK
<1>6. ASSUME \/ \E r \in Replicas :
                  \/ AddStep(r) \/ RestoreStep(r)
                  \/ \E id \in Ids, k \in Kinds : Schedule(r, id, k)
                  \/ \E e \in entries[r] : Unschedule(r, e)
                  \/ Start(r) \/ CloseBegin(r) \/ CloseReturn(r) \/ SetDraining(r)
             \/ Tick \/ UNCHANGED vars
      PROVE  fires' = fires
  BY <1>6 DEF AddStep, AddInsert, StoreWrite, RestoreStep, RestoreCatchUp, RestoreAdd,
              RestoreSettle, RestoreEnds, Schedule, Unschedule, Start, CloseBegin,
              CloseReturn, SetDraining, Tick, vars
<1> QED
  BY <1>1, <1>2, <1>4, <1>5, <1>6 DEF Next, Operate, FireStep

(* Only Restore puts a row in settling, after its publish. *)
LEMMA SettlingSource ==
  ASSUME TypeOK, ~MayFail, [Next]_vars
  PROVE  \A r \in Replicas : \A row \in settling'[r] : row \in settling[r] \/ Told(row.id)'
<1> DEFINE Goal == \A r \in Replicas : \A row \in settling'[r] :
                     row \in settling[r] \/ Told(row.id)'
<1>1. ASSUME NEW r \in Replicas, NEW row \in todo[r], RestoreCatchUp(r, row)
      PROVE  Goal
  <2>1. \E p \in published' : p.id = row.id
    <3> DEFINE m == [id |-> row.id, by |-> r, ptr |-> 0, due |-> row.next, bucket |-> 0,
                     held |-> FALSE]
    <3>1. m.id = row.id
      OBVIOUS
    <3>2. published' = published \cup {m}
      BY <1>1 DEF RestoreCatchUp, Publish
    <3> HIDE DEF m
    <3> QED
      BY <3>1, <3>2
  <2> QED
    BY <1>1, <2>1 DEF RestoreCatchUp, Told, TypeOK
<1>2. ASSUME NEW r \in Replicas, Crash(r) \/ \E row \in settling[r] : RestoreSettle(r, row)
      PROVE  Goal
  BY <1>2 DEF Crash, RestoreSettle, TypeOK
<1>3. ASSUME NEW r \in Replicas, RestoreStep(r)
      PROVE  \/ settling' = settling
             \/ \E row \in todo[r] : RestoreCatchUp(r, row)
             \/ \E row \in settling[r] : RestoreSettle(r, row)
  BY <1>3 DEF RestoreStep, RestoreAdd, RestoreEnds, restore
<1>4. ASSUME NEW r \in Replicas, AddStep(r) \/ FireStep(r)
      PROVE  settling' = settling
  BY <1>4 DEF AddStep, AddInsert, StoreWrite, FireStep, TimerFires, FireEnter, FireClaim,
              FirePublish, FireForget, FireRearm, FireReset, FireStore, restore
<1>5. ASSUME \/ \E r \in Replicas :
                  \/ \E id \in Ids, k \in Kinds : Schedule(r, id, k)
                  \/ \E e \in entries[r] : Unschedule(r, e)
                  \/ Start(r) \/ CloseBegin(r) \/ CloseReturn(r) \/ SetDraining(r)
             \/ Tick \/ UNCHANGED vars
      PROVE  settling' = settling
  BY <1>5 DEF Schedule, Unschedule, Start, CloseBegin, CloseReturn, SetDraining, Tick,
              vars, restore
<1> QED
  BY <1>1, <1>2, <1>3, <1>4, <1>5 DEF Next, Operate

(* Without a cancel, the calls a goroutine still has to make are saves. *)
LEMMA WritesSource ==
  ASSUME TypeOK, ~MayCancel, [Next]_vars
  PROVE  \A r \in Replicas : \A w \in writes'[r] : w \in writes[r] \/ w.op = "save"
<1> DEFINE Goal == \A r \in Replicas : \A w \in writes'[r] : w \in writes[r] \/ w.op = "save"
<1>1. ASSUME NEW r \in Replicas, NEW a \in adding[r], AddInsert(r, a)
      PROVE  Goal
  BY <1>1 DEF AddInsert, TypeOK
<1>2. ASSUME NEW r \in Replicas, Crash(r) \/ \E w \in writes[r] : StoreWrite(r, w)
      PROVE  Goal
  BY <1>2 DEF Crash, StoreWrite, TypeOK
<1>3. ASSUME NEW r \in Replicas, FireStep(r) \/ RestoreStep(r)
      PROVE  writes' = writes
  BY <1>3 DEF FireStep, TimerFires, FireEnter, FireClaim, FirePublish, FireForget,
              FireRearm, FireReset, FireStore, RestoreStep, RestoreCatchUp, RestoreAdd,
              RestoreSettle, RestoreEnds
<1>4. ASSUME \/ \E r \in Replicas :
                  \/ \E id \in Ids, k \in Kinds : Schedule(r, id, k)
                  \/ \E e \in entries[r] : Unschedule(r, e)
                  \/ Start(r) \/ CloseBegin(r) \/ CloseReturn(r) \/ SetDraining(r)
             \/ Tick \/ UNCHANGED vars
      PROVE  writes' = writes
  BY <1>4 DEF Schedule, Unschedule, Start, CloseBegin, CloseReturn, SetDraining, Tick, vars
<1> QED
  BY <1>1, <1>2, <1>3, <1>4 DEF Next, Operate, AddStep

(* A replica comes up from "down" only.                                    *)
LEMMA Rises ==
  ASSUME TypeOK, [Next]_vars
  PROVE  \A r \in Replicas : Running(r)' => Running(r) \/ state[r] = "down"
<1> DEFINE Goal == \A r \in Replicas : Running(r)' => Running(r) \/ state[r] = "down"
<1>1. ASSUME NEW r \in Replicas,
             Start(r) \/ CloseBegin(r) \/ CloseReturn(r) \/ Crash(r) \/ RestoreEnds(r)
      PROVE  Goal
  <2>1. \E s : state' = [state EXCEPT ![r] = s]
                /\ (s \in {"restoring", "up"} => state[r] \in {"down", "restoring"})
    BY <1>1 DEF Start, CloseBegin, CloseReturn, Crash, RestoreEnds, BetweenRows
  <2>2. \A q \in Replicas :
          state'[q] \in {"restoring", "up"} => state[q] \in {"restoring", "up", "down"}
    BY <2>1 DEF TypeOK
  <2> QED
    BY <2>2 DEF Running
<1>2. CASE state' = state
  BY <1>2 DEF Running
<1>5. ASSUME NEW r \in Replicas, AddStep(r) \/ FireStep(r)
      PROVE  state' = state
  BY <1>5 DEF AddStep, AddInsert, StoreWrite, FireStep, TimerFires, FireEnter, FireClaim,
              FirePublish, FireForget, FireRearm, FireReset, FireStore
<1>3. ASSUME \/ \E r \in Replicas :
                  \/ SetDraining(r)
                  \/ \E id \in Ids, k \in Kinds : Schedule(r, id, k)
                  \/ \E e \in entries[r] : Unschedule(r, e)
             \/ Tick \/ UNCHANGED vars
      PROVE  state' = state
  BY <1>3 DEF Schedule, Unschedule, SetDraining, Tick, vars
<1>4. ASSUME NEW r \in Replicas, RestoreStep(r)
      PROVE  state' = state \/ RestoreEnds(r)
  BY <1>4 DEF RestoreStep, RestoreCatchUp, RestoreAdd, RestoreSettle
<1> QED
  BY <1>1, <1>2, <1>3, <1>4, <1>5 DEF Next, Operate

(* Of a process that is down nothing is left but the store. *)
Dead ==
  \A r \in Replicas : state[r] = "down" =>
    /\ entries[r] = {} /\ timers[r] = {} /\ adding[r] = {} /\ fires[r] = {}
    /\ writes[r] = {} /\ todo[r] = {} /\ settling[r] = {}

(* What a process keeps in memory; no step touches another process.        *)
Parts(q) == <<entries[q], timers[q], adding[q], fires[q], writes[q], todo[q], settling[q]>>

LEMMA StepsApart ==
  ASSUME TypeOK, NEW r \in Replicas,
         \/ \E id \in Ids, k \in Kinds : Schedule(r, id, k)
         \/ \E e \in entries[r] : Unschedule(r, e)
         \/ AddStep(r) \/ FireStep(r) \/ RestoreStep(r) \/ Start(r)
         \/ CloseBegin(r) \/ CloseReturn(r) \/ Crash(r) \/ SetDraining(r)
  PROVE  \A q \in Replicas \ {r} : Parts(q)' = Parts(q) /\ state'[q] = state[q]
<1> SUFFICES ASSUME NEW q \in Replicas, q # r
             PROVE  Parts(q)' = Parts(q) /\ state'[q] = state[q]
  OBVIOUS
<1>1. CASE \E id \in Ids, k \in Kinds : Schedule(r, id, k)
  BY <1>1 DEF Schedule, Arm, Parts, TypeOK, restore
<1>2. CASE \E e \in entries[r] : Unschedule(r, e)
  BY <1>2 DEF Unschedule, Parts, TypeOK, restore
<1>3. CASE AddStep(r)
  BY <1>3 DEF AddStep, AddInsert, StoreWrite, Parts, TypeOK, restore
<1>4. CASE FireStep(r)
  <2>1. CASE \E t \in timers[r] : TimerFires(r, t)
    BY <2>1 DEF TimerFires, Parts, TypeOK, restore
  <2>2. CASE \E f \in fires[r] : FireEnter(r, f) \/ FireClaim(r, f) \/ FirePublish(r, f)
    BY <2>2 DEF FireEnter, FireClaim, ClaimScheduleFire, GoPublish, FirePublish, FireOn,
                FireEnds, Parts, TypeOK, restore
  <2>3. CASE \E f \in fires[r] : FireForget(r, f) \/ FireRearm(r, f)
    BY <2>3 DEF FireForget, FireRearm, FireOn, FireEnds, Parts, TypeOK, restore
  <2>4. CASE \E f \in fires[r] : FireReset(r, f) \/ FireStore(r, f)
    BY <2>4 DEF FireReset, FireStore, FireOn, FireEnds, Parts, TypeOK, restore
  <2> QED
    BY <1>4, <2>1, <2>2, <2>3, <2>4 DEF FireStep
<1>5. CASE RestoreStep(r)
  <2>1. CASE \E row \in todo[r] : RestoreCatchUp(r, row)
    BY <2>1 DEF RestoreCatchUp, Parts, TypeOK
  <2>2. CASE \E row \in todo[r] : RestoreAdd(r, row)
    BY <2>2 DEF RestoreAdd, Arm, Parts, TypeOK
  <2>3. ASSUME NEW row \in settling[r], RestoreSettle(r, row)
        PROVE  Parts(q)' = Parts(q) /\ state'[q] = state[q]
    <3>1. \/ UNCHANGED <<timers, adding>>
          \/ Arm(r, [row EXCEPT !.next = since[r] + row.dur], FALSE)
      BY <2>3 DEF RestoreSettle
    <3>2. timers'[q] = timers[q] /\ adding'[q] = adding[q]
      BY <3>1 DEF Arm, TypeOK
    <3> QED
      BY <2>3, <3>2 DEF RestoreSettle, Parts, TypeOK
  <2>4. CASE RestoreEnds(r)
    BY <2>4 DEF RestoreEnds, Parts, TypeOK, restore
  <2> QED
    BY <1>5, <2>1, <2>2, <2>3, <2>4 DEF RestoreStep
<1>6. CASE Start(r) \/ SetDraining(r)
  BY <1>6 DEF Start, SetDraining, Parts, TypeOK, restore
<1>7. CASE CloseBegin(r)
  BY <1>7 DEF CloseBegin, Parts, TypeOK, restore
<1>8. CASE CloseReturn(r) \/ Crash(r)
  BY <1>8 DEF CloseReturn, Crash, Parts, TypeOK, restore
<1> QED
  BY <1>1, <1>2, <1>3, <1>4, <1>5, <1>6, <1>7, <1>8

LEMMA NextDead == ASSUME TypeOK, Dead, [Next]_vars PROVE Dead'
<1>1. ASSUME NEW r \in Replicas, Crash(r)
      PROVE  state'[r] = "down" =>
               /\ entries'[r] = {} /\ timers'[r] = {} /\ adding'[r] = {} /\ fires'[r] = {}
               /\ writes'[r] = {} /\ todo'[r] = {} /\ settling'[r] = {}
  BY <1>1 DEF Crash, TypeOK
<1>2. ASSUME NEW r \in Replicas,
             \/ \E id \in Ids, k \in Kinds : Schedule(r, id, k)
             \/ \E e \in entries[r] : Unschedule(r, e)
             \/ AddStep(r) \/ FireStep(r) \/ RestoreStep(r) \/ Start(r)
             \/ CloseBegin(r) \/ CloseReturn(r) \/ SetDraining(r)
      PROVE  state'[r] # "down"
  <2>1. CASE Start(r) \/ CloseBegin(r) \/ CloseReturn(r) \/ SetDraining(r)
    BY <2>1 DEF Start, CloseBegin, CloseReturn, SetDraining, Running, TypeOK
  <2>2. CASE RestoreStep(r)
    BY <2>2 DEF RestoreStep, RestoreCatchUp, RestoreAdd, RestoreSettle, RestoreEnds,
                BetweenRows, Dead, TypeOK
  <2>3. CASE AddStep(r) \/ \E e \in entries[r] : Unschedule(r, e)
    BY <2>3 DEF AddStep, AddInsert, StoreWrite, Unschedule, Running, Dead, TypeOK
  <2>4. CASE FireStep(r)
    <3>1. state' = state /\ (timers[r] # {} \/ fires[r] # {})
      BY <2>4 DEF FireStep, TimerFires, FireEnter, FireClaim, FirePublish, FireForget,
                  FireRearm, FireReset, FireStore
    <3> QED
      BY <3>1 DEF Dead
  <2>5. CASE \E id \in Ids, k \in Kinds : Schedule(r, id, k)
    BY <2>5 DEF Schedule, Running
  <2> QED
    BY <1>2, <2>1, <2>2, <2>3, <2>4, <2>5
<1>3. CASE Tick \/ UNCHANGED vars
  BY <1>3 DEF Tick, vars, restore, Dead
<1>4. ASSUME NEW r \in Replicas,
             \/ \E id \in Ids, k \in Kinds : Schedule(r, id, k)
             \/ \E e \in entries[r] : Unschedule(r, e)
             \/ AddStep(r) \/ FireStep(r) \/ RestoreStep(r) \/ Start(r)
             \/ CloseBegin(r) \/ CloseReturn(r) \/ Crash(r) \/ SetDraining(r)
      PROVE  Dead'
  <2>1. \A q \in Replicas \ {r} : Parts(q)' = Parts(q) /\ state'[q] = state[q]
    BY <1>4, StepsApart
  <2>2. \A q \in Replicas \ {r} :
          /\ entries'[q] = entries[q] /\ timers'[q] = timers[q] /\ adding'[q] = adding[q]
          /\ fires'[q] = fires[q] /\ writes'[q] = writes[q] /\ todo'[q] = todo[q]
          /\ settling'[q] = settling[q] /\ state'[q] = state[q]
    BY <2>1 DEF Parts
  <2> QED
    BY <1>1, <1>2, <1>4, <2>2 DEF Dead
<1> QED
  BY <1>3, <1>4 DEF Next, Operate

LEMMA NextSent ==
  ASSUME TypeOK, Dead, Sent, ~MayCancel, ~MayFail, [Next]_vars
  PROVE  Sent'
<1>1. \A id : Told(id) => Told(id)'
  BY PublishedGrows DEF Told
<1>2. ASSUME NEW r \in Replicas, NEW f \in fires'[r], f.at = "delete" \/ (f.at = "forget" /\ Running(r)')
      PROVE  Told(f.entry.id)'
  <2>1. CASE f \in fires[r]
    <3>1. Running(r)' => Running(r)
      BY <2>1, Rises DEF Dead
    <3>2. Told(f.entry.id)
      BY <1>2, <2>1, <3>1 DEF Sent
    <3> QED
      BY <1>1, <3>2
  <2> QED
    BY <1>2, <2>1, SentOrigin DEF SentSource
<1>3. ASSUME NEW r \in Replicas, NEW row \in settling'[r]
      PROVE  Told(row.id)'
  BY <1>1, <1>3, SettlingSource DEF Sent
<1>4. \A r \in Replicas : \A w \in writes'[r] : w.op = "save"
  BY WritesSource DEF Sent
<1>5. \A r \in Replicas : state'[r] = "down" => fires'[r] = {}
  BY NextDead DEF Dead
<1> QED
  BY <1>2, <1>3, <1>4, <1>5 DEF Sent

(* Whoever still has to call the store deletes a row only by an ID that    *)
(* was told; a save leaves a row of its ID behind.                         *)
LEMMA RowsStay ==
  ASSUME TypeOK, Sent, [Next]_vars, NEW row \in rows, ~(\E x \in rows' : x.id = row.id)
  PROVE  Told(row.id)
<1>1. ASSUME NEW new \in Row, rows' = SaveSchedule(new)
      PROVE  FALSE
  <2> DEFINE x == [new EXCEPT !.next = new.next - (new.next % SecondTicks)]
  <2>1. x.id = new.id
    BY DEF Row
  <2>2. rows' = Put(rows, x)
    BY <1>1 DEF SaveSchedule
  <2> HIDE DEF x
  <2> QED
    BY <2>1, <2>2 DEF Put, Drop
<1>2. ASSUME NEW id, rows' = DeleteSchedule(id)
      PROVE  row.id = id
  BY <1>2 DEF DeleteSchedule, Drop
<1>3. ASSUME NEW r \in Replicas, NEW w \in writes[r], StoreWrite(r, w)
      PROVE  FALSE
  BY <1>1, <1>3 DEF StoreWrite, Save, Sent, TypeOK
<1>4. ASSUME NEW r \in Replicas, NEW f \in fires[r], FireStore(r, f)
      PROVE  Told(row.id)
  <2>1. RowOf(f.entry) \in Row
    BY FireOnTypes
  <2> QED
    BY <1>1, <1>2, <1>4, <2>1 DEF FireStore, Save, Delete, Sent
<1>5. ASSUME NEW r \in Replicas, NEW s \in settling[r], RestoreSettle(r, s)
      PROVE  Told(row.id)
  <2> DEFINE moved == [s EXCEPT !.next = since[r] + s.dur]
  <2>1. moved \in Row
    BY DEF TypeOK, Row
  <2>2. rows' = DeleteSchedule(s.id) \/ rows' = SaveSchedule(moved) \/ rows' = rows
    BY <1>5 DEF RestoreSettle, Save, Delete
  <2> HIDE DEF moved
  <2> QED
    BY <1>1, <1>2, <2>1, <2>2 DEF Sent
<1>6. rows' # rows
  OBVIOUS
<1>7. ASSUME \/ \E r \in Replicas :
                  \/ \E id \in Ids, k \in Kinds : Schedule(r, id, k)
                  \/ \E e \in entries[r] : Unschedule(r, e)
                  \/ Start(r) \/ CloseBegin(r) \/ CloseReturn(r)
                  \/ Crash(r) \/ SetDraining(r)
             \/ Tick \/ UNCHANGED vars
      PROVE  rows' = rows
  BY <1>7 DEF Schedule, Unschedule, Start, CloseBegin, CloseReturn, Crash, SetDraining,
              Tick, vars, store
<1>8. ASSUME NEW r \in Replicas, AddStep(r) \/ FireStep(r) \/ RestoreStep(r)
      PROVE  \/ rows' = rows
             \/ \E w \in writes[r] : StoreWrite(r, w)
             \/ \E f \in fires[r] : FireStore(r, f)
             \/ \E s \in settling[r] : RestoreSettle(r, s)
  BY <1>8 DEF AddStep, AddInsert, FireStep, TimerFires, FireEnter, FireClaim, FirePublish,
              FireForget, FireRearm, FireReset, RestoreStep, RestoreCatchUp, RestoreAdd,
              RestoreEnds, store
<1> QED
  BY <1>3, <1>4, <1>5, <1>6, <1>7, <1>8 DEF Next, Operate

(* Of a Kit whose schedules nobody cancels and whose transport takes every *)
(* message, a one-time schedule leaves the table only when its message was *)
(* published, whatever replicas crash, close and restart in between.       *)
THEOREM NoOneTimeIsLost ==
  ASSUME ~MayCancel, ~MayFail PROVE Spec => OneTimeAtLeastOnce
<1> DEFINE Kept == \A row \in rows :
                     row.oneTime /\ ~(\E x \in rows' : x.id = row.id)
                       => \E p \in published : p.id = row.id
<1>1. Init => TypeOK /\ Dead /\ Sent
  BY InitTypes DEF Init, Dead, Sent
<1>2. TypeOK /\ Dead /\ Sent /\ [Next]_vars => [Kept]_vars /\ (TypeOK /\ Dead /\ Sent)'
  BY NextTypes, NextDead, NextSent, RowsStay DEF Told
<1> QED
  BY <1>1, <1>2, PTL DEF Spec, OneTimeAtLeastOnce
-----------------------------------------------------------------------------
(* The table and the map of a single replica.  A row of the table is held  *)
(* by somebody who lists it or will (RowsHeld); what is listed, or was read *)
(* by Restore, is stored or about to be (HeldStored); and whoever has a row *)
(* left to save still has its entry in the map (SavesListed).  These speak *)
(* of IDs; that an ID is of one kind wherever it occurs is OneKind, and    *)
(* what each phase of a fire and of Restore implies is Phases.             *)
Alone == \A r, q \in Replicas : r = q

(* An ID, and whether its schedule is a one-time one, wherever it is known. *)
Knows(i, o) ==
  \/ \E x \in rows : x.id = i /\ x.oneTime = o
  \/ \E r \in Replicas :
       \/ \E x \in entries[r] : x.id = i /\ x.oneTime = o
       \/ \E x \in todo[r] : x.id = i /\ x.oneTime = o
       \/ \E x \in settling[r] : x.id = i /\ x.oneTime = o
       \/ \E w \in writes[r] : w.row.id = i /\ w.row.oneTime = o
       \/ \E a \in adding[r] : a.entry.id = i /\ a.entry.oneTime = o
       \/ \E t \in timers[r] : t.entry.id = i /\ t.entry.oneTime = o
       \/ \E f \in fires[r] : f.entry.id = i /\ f.entry.oneTime = o

OneKind ==
  \A i \in Ids, o, p \in BOOLEAN :
    Knows(i, o) => i <= adds /\ (Knows(i, p) => o = p)

Phases ==
  \A r \in Replicas :
    /\ \A f \in fires[r] : f.at \in {"forget", "delete"} => f.entry.oneTime
    /\ \A w \in writes[r] : w.op = "save"
    /\ \A x, y \in settling[r] : x = y
    /\ state[r] = "up" => todo[r] = {} /\ settling[r] = {}

Listed(r, id) == \E e \in entries[r] : e.id = id

Held(r, id) ==
  \/ Listed(r, id)
  \/ \E a \in adding[r] : a.entry.id = id
  \/ \E row \in todo[r] : row.id = id
  \/ \E row \in settling[r] : row.id = id

Stored(r, id) ==
  \/ \E row \in rows : row.id = id
  \/ \E w \in writes[r] : w.row.id = id

RowsHeld(r) == \A row \in rows : ~row.oneTime => Held(r, row.id)

HeldStored(r) ==
  /\ \A e \in entries[r] : ~e.oneTime => Stored(r, e.id)
  /\ \A row \in todo[r] : ~row.oneTime => Stored(r, row.id)
  /\ \A row \in settling[r] : ~row.oneTime => Stored(r, row.id)
  /\ \A a \in adding[r] : ~a.entry.oneTime /\ ~a.save => Stored(r, a.entry.id)

SavesListed(r) ==
  /\ \A w \in writes[r] : ~w.row.oneTime => Listed(r, w.row.id)
  /\ \A f \in fires[r] :
       f.at \in {"reset", "save"} /\ ~f.entry.oneTime => Listed(r, f.entry.id)

Matches ==
  \A r \in Replicas : Running(r) => RowsHeld(r) /\ HeldStored(r) /\ SavesListed(r)

-----------------------------------------------------------------------------
(* SaveSchedule replaces the row of an ID, DeleteSchedule removes it.      *)
LEMMA SavedRows ==
  ASSUME TypeOK, NEW new \in Row, rows' = SaveSchedule(new)
  PROVE  /\ \A x \in rows' : \/ x \in rows /\ x.id # new.id
                             \/ x.id = new.id /\ x.oneTime = new.oneTime
         /\ \E x \in rows' : x.id = new.id
         /\ \A x \in rows : x.id # new.id => x \in rows'
<1> DEFINE x == [new EXCEPT !.next = new.next - (new.next % SecondTicks)]
<1>1. x.id = new.id /\ x.oneTime = new.oneTime
  BY DEF Row
<1>2. rows' = Put(rows, x)
  BY DEF SaveSchedule
<1> HIDE DEF x
<1> QED
  BY <1>1, <1>2 DEF Put, Drop

LEMMA DeletedRows ==
  ASSUME NEW id, rows' = DeleteSchedule(id)
  PROVE  \A x : x \in rows' <=> x \in rows /\ x.id # id
BY DEF DeleteSchedule, Drop

(* The entry and the timer that Arm makes are of the row it is given. *)
LEMMA ArmAdds ==
  ASSUME TypeOK, NEW r \in Replicas, NEW row \in Row, NEW save \in BOOLEAN,
         Arm(r, row, save)
  PROVE  /\ \A q \in Replicas : \A a \in adding'[q] :
              \/ a \in adding[q]
              \/ /\ a.entry.id = row.id /\ a.entry.oneTime = row.oneTime
                 /\ a.save = save
         /\ \A q \in Replicas : \A t \in timers'[q] :
              t \in timers[q] \/ (t.entry.id = row.id /\ t.entry.oneTime = row.oneTime)
         /\ \A q \in Replicas : adding[q] \subseteq adding'[q]
         /\ \E a \in adding'[r] : a.entry.id = row.id
         /\ adds' = adds + 1
<1> DEFINE e == [ptr |-> adds + 1, id |-> row.id, oneTime |-> row.oneTime,
                 dur |-> row.dur, next |-> row.next]
           a == [entry |-> e, save |-> save]
           t == [entry |-> e, at |-> IF row.next < now THEN now ELSE row.next]
<1>1. /\ a.entry.id = row.id /\ a.entry.oneTime = row.oneTime /\ a.save = save
      /\ t.entry.id = row.id /\ t.entry.oneTime = row.oneTime
  OBVIOUS
<1>2. /\ adds' = adds + 1
      /\ timers' = [timers EXCEPT ![r] = @ \cup {t}]
      /\ adding' = [adding EXCEPT ![r] = @ \cup {a}]
  BY DEF Arm
<1> HIDE DEF a, t
<1> QED
  BY <1>1, <1>2 DEF TypeOK

(* A fire that goes on is of the same entry, at its next step. *)
LEMMA FireKin ==
  ASSUME TypeOK, NEW r \in Replicas, NEW f \in fires[r],
         \/ FireEnter(r, f) \/ FireClaim(r, f) \/ FirePublish(r, f) \/ FireForget(r, f)
         \/ FireRearm(r, f) \/ FireReset(r, f) \/ FireStore(r, f)
  PROVE  \A q \in Replicas : \A h \in fires'[q] :
           \/ h \in fires[q]
           \/ /\ q = r /\ h.entry.id = f.entry.id /\ h.entry.oneTime = f.entry.oneTime
              /\ h.at = "forget" => f.entry.oneTime
              /\ h.at = "delete" => f.at = "forget"
              /\ h.at = "save" => f.at = "reset"
              /\ h.at = "reset" => Current(r, f.entry) /\ f.at = "rearm"
<1> DEFINE Kin(h) ==
             /\ h.entry.id = f.entry.id /\ h.entry.oneTime = f.entry.oneTime
             /\ h.at = "forget" => f.entry.oneTime
             /\ h.at = "delete" => f.at = "forget"
             /\ h.at = "save" => f.at = "reset"
             /\ h.at = "reset" => Current(r, f.entry) /\ f.at = "rearm"
<1>1. f \in Fire /\ f.entry \in Entry
  BY FireOnTypes
<1>2. \A at \in FireAt : [f EXCEPT !.at = at].at = at /\ [f EXCEPT !.at = at].entry = f.entry
  BY <1>1 DEF Fire
<1>3. ASSUME NEW g, Kin(g), FireOn(r, f, g)
      PROVE  \A q \in Replicas : \A h \in fires'[q] : h \in fires[q] \/ (q = r /\ Kin(h))
  <2> HIDE DEF Kin
  <2> QED
    BY <1>3 DEF FireOn, TypeOK
<1>4. ASSUME FireEnds(r, f)
      PROVE  \A q \in Replicas : \A h \in fires'[q] : h \in fires[q]
  BY <1>4 DEF FireEnds, TypeOK
<1>5. CASE FireEnter(r, f)
  <2>1. Kin([f EXCEPT !.at = "claim"])
    BY <1>2 DEF FireAt
  <2> HIDE DEF Kin
  <2>2. FireEnds(r, f) \/ FireOn(r, f, [f EXCEPT !.at = "claim"])
    BY <1>5 DEF FireEnter
  <2> QED
    BY <1>3, <1>4, <2>1, <2>2 DEF Kin
<1>6. CASE FireClaim(r, f)
  <2>1. ASSUME NEW g \in Fire, FireOn(r, f, g), g.at = "publish", g.entry = f.entry
        PROVE  \A q \in Replicas : \A h \in fires'[q] :
                 h \in fires[q] \/ (q = r /\ Kin(h))
    <3>1. Kin(g)
      BY <2>1
    <3> HIDE DEF Kin
    <3> QED
      BY <1>3, <2>1, <3>1
  <2>2. \/ FireEnds(r, f)
        \/ \E g \in Fire : FireOn(r, f, g) /\ g.at = "publish" /\ g.entry = f.entry
    BY <1>6, ClaimGoes
  <2> QED
    BY <1>4, <2>1, <2>2
<1>7. CASE FirePublish(r, f)
  <2>1. PICK g \in Fire : /\ FireOn(r, f, g) /\ g.entry = f.entry
                         /\ g.at = IF f.entry.oneTime THEN "forget" ELSE "rearm"
    BY <1>7, PublishGoes
  <2>2. Kin(g)
    BY <2>1
  <2> HIDE DEF Kin
  <2> QED
    BY <1>3, <2>1, <2>2 DEF Kin
<1>8. CASE FireForget(r, f)
  <2>1. f.at = "forget" /\ (FireEnds(r, f) \/ FireOn(r, f, [f EXCEPT !.at = "delete"]))
    BY <1>8 DEF FireForget
  <2>2. Kin([f EXCEPT !.at = "delete"])
    BY <1>2, <2>1 DEF FireAt
  <2> HIDE DEF Kin
  <2> QED
    BY <1>3, <1>4, <2>1, <2>2 DEF Kin
<1>9. CASE FireRearm(r, f)
  <2> DEFINE e == [f.entry EXCEPT !.next = now + f.entry.dur]
             g == [f EXCEPT !.at = "reset", !.entry = e]
  <2>1. g.at = "reset" /\ g.entry = e
    BY <1>1 DEF Fire
  <2>2. e.id = f.entry.id /\ e.oneTime = f.entry.oneTime
    BY <1>1 DEF Entry
  <2>3. FireEnds(r, f) \/ (FireOn(r, f, g) /\ Current(r, f.entry) /\ f.at = "rearm")
    BY <1>9 DEF FireRearm
  <2> HIDE DEF e, g
  <2>4. CASE FireOn(r, f, g) /\ Current(r, f.entry) /\ f.at = "rearm"
    <3>1. Kin(g)
      BY <2>1, <2>2, <2>4
    <3> QED
      BY <1>3, <2>4, <3>1
  <2> QED
    BY <1>4, <2>3, <2>4
<1>10. CASE FireReset(r, f)
  <2>1. f.at = "reset" /\ FireOn(r, f, [f EXCEPT !.at = "save"])
    BY <1>10 DEF FireReset
  <2>2. Kin([f EXCEPT !.at = "save"])
    BY <1>2, <2>1 DEF FireAt
  <2> HIDE DEF Kin
  <2> QED
    BY <1>3, <2>1, <2>2 DEF Kin
<1>11. CASE FireStore(r, f)
  BY <1>4, <1>11 DEF FireStore
<1> QED
  BY <1>5, <1>6, <1>7, <1>8, <1>9, <1>10, <1>11

(* Everything a step leaves behind was known before.                       *)
KnownAfter ==
  /\ \A x \in rows' : Knows(x.id, x.oneTime)
  /\ \A q \in Replicas :
       /\ \A x \in entries'[q] : Knows(x.id, x.oneTime)
       /\ \A x \in todo'[q] : Knows(x.id, x.oneTime)
       /\ \A x \in settling'[q] : Knows(x.id, x.oneTime)
       /\ \A w \in writes'[q] : Knows(w.row.id, w.row.oneTime)
       /\ \A a \in adding'[q] : Knows(a.entry.id, a.entry.oneTime)
       /\ \A t \in timers'[q] : Knows(t.entry.id, t.entry.oneTime)
       /\ \A f \in fires'[q] : Knows(f.entry.id, f.entry.oneTime)

LEMMA KnownBefore ==
  /\ \A x \in rows : Knows(x.id, x.oneTime)
  /\ \A q \in Replicas :
       /\ \A x \in entries[q] : Knows(x.id, x.oneTime)
       /\ \A x \in todo[q] : Knows(x.id, x.oneTime)
       /\ \A x \in settling[q] : Knows(x.id, x.oneTime)
       /\ \A w \in writes[q] : Knows(w.row.id, w.row.oneTime)
       /\ \A a \in adding[q] : Knows(a.entry.id, a.entry.oneTime)
       /\ \A t \in timers[q] : Knows(t.entry.id, t.entry.oneTime)
       /\ \A f \in fires[q] : Knows(f.entry.id, f.entry.oneTime)
BY DEF Knows

(* Only Schedule brings an ID that was not known.                          *)
LEMMA NothingNew ==
  ASSUME TypeOK, [Next]_vars,
         \A r \in Replicas, id \in Ids, k \in Kinds : ~Schedule(r, id, k)
  PROVE  KnownAfter
<1>1. ASSUME NEW r \in Replicas, NEW a \in adding[r], AddInsert(r, a)
      PROVE  KnownAfter
  <2>1. a.entry \in Entry
    BY DEF TypeOK
  <2> DEFINE w == [op |-> "save", row |-> RowOf(a.entry)]
  <2>2. w.row.id = a.entry.id /\ w.row.oneTime = a.entry.oneTime
    BY DEF RowOf
  <2>3. writes' = writes \/ writes' = [writes EXCEPT ![r] = @ \cup {w}]
    BY <1>1 DEF AddInsert
  <2> HIDE DEF w
  <2>4. \A q \in Replicas : \A v \in writes'[q] : Knows(v.row.id, v.row.oneTime)
    BY <2>2, <2>3, KnownBefore DEF TypeOK
  <2>5. \A q \in Replicas : \A x \in entries'[q] : x \in entries[q] \/ (q = r /\ x = a.entry)
    BY <1>1 DEF AddInsert, Put, Drop, TypeOK
  <2>6. \A q \in Replicas : adding'[q] \subseteq adding[q] /\ timers'[q] \subseteq timers[q]
    BY <1>1 DEF AddInsert, StopTimer, TypeOK
  <2>7. UNCHANGED <<rows, todo, settling, fires>>
    BY <1>1 DEF AddInsert, store, restore
  <2> QED
    BY <2>4, <2>5, <2>6, <2>7, KnownBefore DEF KnownAfter
<1>2. ASSUME NEW r \in Replicas, NEW e \in entries[r], Unschedule(r, e)
      PROVE  KnownAfter
  <2> DEFINE w == [op |-> "delete", row |-> RowOf(e)]
  <2>1. w.row.id = e.id /\ w.row.oneTime = e.oneTime
    BY DEF RowOf
  <2>2. writes' = [writes EXCEPT ![r] = @ \cup {w}]
    BY <1>2 DEF Unschedule
  <2> HIDE DEF w
  <2>3. \A q \in Replicas : \A v \in writes'[q] : Knows(v.row.id, v.row.oneTime)
    BY <2>1, <2>2, KnownBefore DEF TypeOK
  <2>4. \A q \in Replicas : entries'[q] \subseteq entries[q] /\ timers'[q] \subseteq timers[q]
    BY <1>2 DEF Unschedule, Drop, StopTimer, TypeOK
  <2>5. UNCHANGED <<rows, todo, settling, adding, fires>>
    BY <1>2 DEF Unschedule, store, restore
  <2> QED
    BY <2>3, <2>4, <2>5, KnownBefore DEF KnownAfter
<1>3. ASSUME NEW r \in Replicas, NEW w \in writes[r], StoreWrite(r, w)
      PROVE  KnownAfter
  <2>1. /\ w.row \in Row
        /\ \/ rows' = SaveSchedule(w.row) \/ rows' = DeleteSchedule(w.row.id)
           \/ rows' = rows
    BY <1>3 DEF StoreWrite, Save, Delete, TypeOK
  <2>2. \A x \in rows' : Knows(x.id, x.oneTime)
    BY <2>1, SavedRows, DeletedRows, KnownBefore
  <2>3. \A q \in Replicas : writes'[q] \subseteq writes[q]
    BY <1>3 DEF StoreWrite, TypeOK
  <2>4. UNCHANGED <<entries, todo, settling, adding, timers, fires>>
    BY <1>3 DEF StoreWrite, restore
  <2> QED
    BY <2>2, <2>3, <2>4, KnownBefore DEF KnownAfter
<1>4. ASSUME NEW r \in Replicas, NEW t \in timers[r], TimerFires(r, t)
      PROVE  KnownAfter
  <2> DEFINE g == [entry |-> t.entry, at |-> "enter", bucket |-> 0, held |-> FALSE]
  <2>1. g.entry = t.entry
    OBVIOUS
  <2>2. /\ fires' = [fires EXCEPT ![r] = @ \cup {g}]
        /\ timers' = [timers EXCEPT ![r] = @ \ {t}]
        /\ UNCHANGED <<rows, entries, todo, settling, adding, writes>>
    BY <1>4 DEF TimerFires, store, restore
  <2> HIDE DEF g
  <2> QED
    BY <2>1, <2>2, KnownBefore DEF KnownAfter, TypeOK
<1>5. ASSUME NEW r \in Replicas, NEW f \in fires[r],
             \/ FireEnter(r, f) \/ FireClaim(r, f) \/ FirePublish(r, f) \/ FireForget(r, f)
             \/ FireRearm(r, f) \/ FireReset(r, f) \/ FireStore(r, f)
      PROVE  KnownAfter
  <2>1. \A q \in Replicas : \A h \in fires'[q] : Knows(h.entry.id, h.entry.oneTime)
    BY <1>5, FireKin, KnownBefore
  <2>2. UNCHANGED <<todo, settling, adding, writes>>
    BY <1>5 DEF FireEnter, FireClaim, FirePublish, FireForget, FireRearm, FireReset,
                FireStore, restore
  <2>3. \A q \in Replicas : \A x \in entries'[q] : Knows(x.id, x.oneTime)
    <3>1. CASE FireRearm(r, f)
      <4> DEFINE e == [f.entry EXCEPT !.next = now + f.entry.dur]
      <4>1. e.id = f.entry.id /\ e.oneTime = f.entry.oneTime
        BY FireOnTypes DEF Entry
      <4>2. entries' = entries \/ entries' = [entries EXCEPT ![r] = Put(@, e)]
        BY <3>1 DEF FireRearm
      <4> HIDE DEF e
      <4> QED
        BY <4>1, <4>2, KnownBefore DEF Put, Drop, TypeOK
    <3>2. CASE FireForget(r, f)
      BY <3>2, KnownBefore DEF FireForget, Drop, TypeOK
    <3>3. CASE entries' = entries
      BY <3>3, KnownBefore
    <3> QED
      BY <1>5, <3>1, <3>2, <3>3 DEF FireEnter, FireClaim, FirePublish, FireReset, FireStore
  <2>4. \A q \in Replicas : \A t \in timers'[q] : Knows(t.entry.id, t.entry.oneTime)
    <3>1. CASE FireReset(r, f)
      <4> DEFINE t == [entry |-> f.entry, at |-> now + f.entry.dur]
      <4>1. t.entry = f.entry
        OBVIOUS
      <4>2. timers' = [timers EXCEPT ![r] = StopTimer(r, f.entry) \cup {t}]
        BY <3>1 DEF FireReset
      <4> HIDE DEF t
      <4> QED
        BY <4>1, <4>2, KnownBefore DEF StopTimer, TypeOK
    <3>2. CASE timers' = timers
      BY <3>2, KnownBefore
    <3> QED
      BY <1>5, <3>1, <3>2
      DEF FireEnter, FireClaim, FirePublish, FireForget, FireRearm, FireStore
  <2>5. \A x \in rows' : Knows(x.id, x.oneTime)
    <3>1. CASE FireStore(r, f)
      <4>1. RowOf(f.entry) \in Row /\ RowOf(f.entry).id = f.entry.id
              /\ RowOf(f.entry).oneTime = f.entry.oneTime
        BY FireOnTypes DEF RowOf
      <4>2. \/ rows' = SaveSchedule(RowOf(f.entry)) \/ rows' = DeleteSchedule(f.entry.id)
            \/ rows' = rows
        BY <3>1 DEF FireStore, Save, Delete
      <4> QED
        BY <4>1, <4>2, SavedRows, DeletedRows, KnownBefore
    <3>2. CASE rows' = rows
      BY <3>2, KnownBefore
    <3> QED
      BY <1>5, <3>1, <3>2
      DEF FireEnter, FireClaim, FirePublish, FireForget, FireRearm, FireReset, store
  <2> QED
    BY <2>1, <2>2, <2>3, <2>4, <2>5, KnownBefore DEF KnownAfter
<1>6. ASSUME NEW r \in Replicas, NEW row \in todo[r], RestoreCatchUp(r, row)
      PROVE  KnownAfter
  BY <1>6, KnownBefore DEF RestoreCatchUp, store, KnownAfter, TypeOK
<1>7. ASSUME NEW r \in Replicas, NEW row \in todo[r], RestoreAdd(r, row)
      PROVE  KnownAfter
  <2>1. Arm(r, row, FALSE) /\ row \in Row
    BY <1>7 DEF RestoreAdd, TypeOK
  <2>2. \A q \in Replicas : todo'[q] \subseteq todo[q]
    BY <1>7 DEF RestoreAdd, TypeOK
  <2>3. UNCHANGED <<rows, entries, fires, writes, settling>>
    BY <1>7 DEF RestoreAdd, store
  <2>4. Knows(row.id, row.oneTime)
    BY KnownBefore
  <2>5. /\ \A q \in Replicas : \A a \in adding'[q] :
             a \in adding[q] \/ (a.entry.id = row.id /\ a.entry.oneTime = row.oneTime)
        /\ \A q \in Replicas : \A t \in timers'[q] :
             t \in timers[q] \/ (t.entry.id = row.id /\ t.entry.oneTime = row.oneTime)
    BY <2>1, ArmAdds
  <2>6. /\ \A q \in Replicas : \A a \in adding'[q] : Knows(a.entry.id, a.entry.oneTime)
        /\ \A q \in Replicas : \A t \in timers'[q] : Knows(t.entry.id, t.entry.oneTime)
    BY <2>4, <2>5, KnownBefore
  <2> QED
    BY <2>2, <2>3, <2>6, KnownBefore DEF KnownAfter
<1>8. ASSUME NEW r \in Replicas, NEW row \in settling[r], RestoreSettle(r, row)
      PROVE  KnownAfter
  <2> DEFINE moved == [row EXCEPT !.next = since[r] + row.dur]
  <2>1. moved \in Row /\ moved.id = row.id /\ moved.oneTime = row.oneTime
    BY DEF TypeOK, Row
  <2>2. \/ rows' \in {DeleteSchedule(row.id), rows} /\ UNCHANGED <<timers, adding>>
        \/ rows' \in {SaveSchedule(moved), rows} /\ Arm(r, moved, FALSE)
    BY <1>8 DEF RestoreSettle, Save, Delete
  <2> HIDE DEF moved
  <2>3. /\ \A x \in rows' : Knows(x.id, x.oneTime)
        /\ \A q \in Replicas : \A a \in adding'[q] : Knows(a.entry.id, a.entry.oneTime)
        /\ \A q \in Replicas : \A t \in timers'[q] : Knows(t.entry.id, t.entry.oneTime)
    <3>1. CASE rows' \in {DeleteSchedule(row.id), rows} /\ UNCHANGED <<timers, adding>>
      BY <3>1, DeletedRows, KnownBefore
    <3>2. CASE rows' \in {SaveSchedule(moved), rows} /\ Arm(r, moved, FALSE)
      <4>1. Knows(row.id, row.oneTime)
        BY KnownBefore
      <4>2. \A x \in rows' : x \in rows \/ (x.id = row.id /\ x.oneTime = row.oneTime)
        BY <2>1, <3>2, SavedRows
      <4>3. /\ \A q \in Replicas : \A a \in adding'[q] :
                 a \in adding[q] \/ (a.entry.id = row.id /\ a.entry.oneTime = row.oneTime)
            /\ \A q \in Replicas : \A t \in timers'[q] :
                 t \in timers[q] \/ (t.entry.id = row.id /\ t.entry.oneTime = row.oneTime)
        <5>1. /\ \A q \in Replicas : \A a \in adding'[q] :
                   \/ a \in adding[q]
                   \/ a.entry.id = moved.id /\ a.entry.oneTime = moved.oneTime
              /\ \A q \in Replicas : \A t \in timers'[q] :
                   \/ t \in timers[q]
                   \/ t.entry.id = moved.id /\ t.entry.oneTime = moved.oneTime
          BY <2>1, <3>2, ArmAdds
        <5> QED
          BY <2>1, <5>1
      <4> QED
        BY <4>1, <4>2, <4>3, KnownBefore
    <3> QED
      BY <2>2, <3>1, <3>2
  <2>4. \A q \in Replicas : settling'[q] \subseteq settling[q]
    BY <1>8 DEF RestoreSettle, TypeOK
  <2>5. UNCHANGED <<entries, fires, writes, todo>>
    BY <1>8 DEF RestoreSettle
  <2> QED
    BY <2>3, <2>4, <2>5, KnownBefore DEF KnownAfter
<1>9. ASSUME NEW r \in Replicas, Start(r)
      PROVE  KnownAfter
  BY <1>9, KnownBefore DEF Start, store, KnownAfter, TypeOK
<1>10. ASSUME NEW r \in Replicas, CloseBegin(r) \/ Crash(r)
       PROVE  KnownAfter
  <2>1. /\ rows' = rows
        /\ \A q \in Replicas :
             /\ entries'[q] \subseteq entries[q] /\ timers'[q] \subseteq timers[q]
             /\ adding'[q] \subseteq adding[q] /\ fires'[q] \subseteq fires[q]
             /\ writes'[q] \subseteq writes[q] /\ todo'[q] \subseteq todo[q]
             /\ settling'[q] \subseteq settling[q]
    <3>1. CASE CloseBegin(r)
      BY <3>1 DEF CloseBegin, store, restore, TypeOK
    <3>2. CASE Crash(r)
      BY <3>2 DEF Crash, store, TypeOK
    <3> QED
      BY <1>10, <3>1, <3>2
  <2> QED
    BY <2>1, KnownBefore DEF KnownAfter
<1>11. ASSUME \/ \E r \in Replicas : RestoreEnds(r) \/ CloseReturn(r) \/ SetDraining(r)
              \/ Tick \/ UNCHANGED vars
       PROVE  KnownAfter
  <2>1. UNCHANGED <<rows, entries, todo, settling, writes, adding, timers, fires>>
    BY <1>11 DEF RestoreEnds, CloseReturn, SetDraining, Tick, vars, store, restore
  <2> QED
    BY <2>1, KnownBefore DEF KnownAfter
<1> QED
  BY <1>1, <1>2, <1>3, <1>4, <1>5, <1>6, <1>7, <1>8, <1>9, <1>10, <1>11
  DEF Next, Operate, AddStep, FireStep, RestoreStep

(* The number of entries only grows, so an ID that was given out stays so. *)
LEMMA AddsGrow == ASSUME TypeOK, [Next]_vars PROVE adds' \in Nat /\ adds <= adds'
<1>1. ASSUME NEW r \in Replicas, NEW row, NEW save, Arm(r, row, save)
      PROVE  adds' = adds + 1
  BY <1>1 DEF Arm
<1>2. ASSUME NEW r \in Replicas,
             RestoreStep(r) \/ \E id \in Ids, k \in Kinds : Schedule(r, id, k)
      PROVE  adds' = adds \/ adds' = adds + 1
  BY <1>1, <1>2 DEF Schedule, RestoreStep, RestoreCatchUp, RestoreAdd, RestoreSettle,
                    RestoreEnds
<1>3. ASSUME NEW r \in Replicas, AddStep(r) \/ FireStep(r)
      PROVE  adds' = adds
  BY <1>3 DEF AddStep, AddInsert, StoreWrite, FireStep, TimerFires, FireEnter, FireClaim,
              FirePublish, FireForget, FireRearm, FireReset, FireStore
<1>4. ASSUME \/ \E r \in Replicas :
                  \/ \E e \in entries[r] : Unschedule(r, e)
                  \/ Start(r) \/ CloseBegin(r) \/ CloseReturn(r) \/ Crash(r) \/ SetDraining(r)
             \/ Tick \/ UNCHANGED vars
      PROVE  adds' = adds
  BY <1>4 DEF Unschedule, Start, CloseBegin, CloseReturn, Crash, SetDraining, Tick, vars
<1>5. adds' = adds \/ adds' = adds + 1
  BY <1>2, <1>3, <1>4 DEF Next, Operate
<1> QED
  BY <1>5 DEF TypeOK

LEMMA StillKnown ==
  ASSUME TypeOK, [Next]_vars
  PROVE  \A i \in Ids : i <= adds => i <= adds'
<1>1. adds' \in Nat /\ adds <= adds' /\ adds \in Nat
  BY AddsGrow DEF TypeOK
<1>2. Ids \subseteq Nat
  BY SchedulerAssumption
<1> QED
  BY <1>1, <1>2

(* A fresh ID is nobody's, so the kinds agree for good.                    *)
LEMMA NextOneKind ==
  ASSUME TypeOK, OneKind, ~Reuse, [Next]_vars
  PROVE  OneKind'
<1>1. CASE \A r \in Replicas, id \in Ids, k \in Kinds : ~Schedule(r, id, k)
  <2>1. KnownAfter
    BY <1>1, NothingNew
  <2>2. ASSUME NEW i \in Ids, NEW o \in BOOLEAN, Knows(i, o)'
        PROVE  Knows(i, o)
    <3>1. \/ \E x \in rows' : x.id = i /\ x.oneTime = o
          \/ \E q \in Replicas :
               \/ \E x \in entries'[q] : x.id = i /\ x.oneTime = o
               \/ \E x \in todo'[q] : x.id = i /\ x.oneTime = o
               \/ \E x \in settling'[q] : x.id = i /\ x.oneTime = o
               \/ \E w \in writes'[q] : w.row.id = i /\ w.row.oneTime = o
               \/ \E a \in adding'[q] : a.entry.id = i /\ a.entry.oneTime = o
               \/ \E t \in timers'[q] : t.entry.id = i /\ t.entry.oneTime = o
               \/ \E f \in fires'[q] : f.entry.id = i /\ f.entry.oneTime = o
      BY <2>2 DEF Knows
    <3> QED
      BY <2>1, <3>1 DEF KnownAfter
  <2>3. \A i \in Ids : i <= adds => i <= adds'
    BY StillKnown
  <2> QED
    BY <2>2, <2>3 DEF OneKind
<1>2. ASSUME NEW r \in Replicas, NEW id \in Ids, NEW k \in Kinds, Schedule(r, id, k)
      PROVE  OneKind'
  <2> DEFINE row == [id |-> id, oneTime |-> k.oneTime, dur |-> k.dur, next |-> now + k.dur]
  <2>0. row \in Row
    BY SchedulerAssumption DEF Row, TypeOK
  <2>1. Arm(r, row, TRUE) /\ row.id = id /\ row.oneTime = k.oneTime
    BY <1>2 DEF Schedule
  <2> HIDE DEF row
  <2>2. id = adds + 1 /\ adds' = adds + 1
    BY <1>2, <2>0, <2>1, ArmAdds DEF Schedule
  <2>3. UNCHANGED <<rows, entries, todo, settling, writes, fires>>
    BY <1>2 DEF Schedule, store, restore
  <2>4. /\ \A q \in Replicas : \A a \in adding'[q] :
             a \in adding[q] \/ (a.entry.id = id /\ a.entry.oneTime = k.oneTime)
        /\ \A q \in Replicas : \A t \in timers'[q] :
             t \in timers[q] \/ (t.entry.id = id /\ t.entry.oneTime = k.oneTime)
    <3>1. /\ \A q \in Replicas : \A a \in adding'[q] :
               a \in adding[q] \/ (a.entry.id = row.id /\ a.entry.oneTime = row.oneTime)
          /\ \A q \in Replicas : \A t \in timers'[q] :
               t \in timers[q] \/ (t.entry.id = row.id /\ t.entry.oneTime = row.oneTime)
      BY <2>0, <2>1, ArmAdds
    <3> QED
      BY <2>1, <3>1
  <2>5. ASSUME NEW i \in Ids, NEW o \in BOOLEAN, Knows(i, o)'
        PROVE  Knows(i, o) \/ (i = id /\ o = k.oneTime)
    BY <2>3, <2>4, <2>5 DEF Knows
  <2>6. \A o \in BOOLEAN : ~Knows(id, o)
    <3>1. adds \in Nat /\ id \in Nat
      BY SchedulerAssumption DEF TypeOK
    <3> QED
      BY <2>2, <3>1 DEF OneKind
  <2>7. \A i \in Ids : i <= adds => i <= adds'
    BY StillKnown
  <2>8. id <= adds'
    BY <2>2, SchedulerAssumption DEF TypeOK
  <2> QED
    BY <2>5, <2>6, <2>7, <2>8 DEF OneKind
<1> QED
  BY <1>1, <1>2

(* What holds an ID that is known as one kind is of that kind.             *)
LEMMA KindOf ==
  ASSUME TypeOK, OneKind, NEW r \in Replicas, NEW i \in Ids, NEW o \in BOOLEAN, Knows(i, o)
  PROVE  /\ \A x \in rows : x.id = i => x.oneTime = o
         /\ \A x \in entries[r] : x.id = i => x.oneTime = o
         /\ \A x \in todo[r] : x.id = i => x.oneTime = o
         /\ \A x \in settling[r] : x.id = i => x.oneTime = o
         /\ \A w \in writes[r] : w.row.id = i => w.row.oneTime = o
         /\ \A a \in adding[r] : a.entry.id = i => a.entry.oneTime = o
         /\ \A f \in fires[r] : f.entry.id = i => f.entry.oneTime = o
<1>1. \A p \in BOOLEAN : Knows(i, p) => p = o
  BY DEF OneKind
<1>2. /\ \A x \in rows : x.oneTime \in BOOLEAN
      /\ \A x \in entries[r] : x.oneTime \in BOOLEAN
      /\ \A x \in todo[r] : x.oneTime \in BOOLEAN
      /\ \A x \in settling[r] : x.oneTime \in BOOLEAN
      /\ \A w \in writes[r] : w.row.oneTime \in BOOLEAN
      /\ \A a \in adding[r] : a.entry.oneTime \in BOOLEAN
      /\ \A f \in fires[r] : f.entry.oneTime \in BOOLEAN
  BY DEF TypeOK, Row, Entry
<1> QED
  BY <1>1, <1>2, KnownBefore

(* A fire forgets only a one-time entry, nothing is left to delete, and    *)
(* Restore settles one row at a time and is over when the replica is up.   *)
LEMMA NextPhases ==
  ASSUME TypeOK, Phases, ~MayCancel, [Next]_vars
  PROVE  Phases'
<1> DEFINE Forgets == \A r \in Replicas : \A f \in fires'[r] :
                        f.at \in {"forget", "delete"} => f.entry.oneTime
           Settles == \A r \in Replicas :
                        /\ \A x, y \in settling'[r] : x = y
                        /\ state'[r] = "up" => todo'[r] = {} /\ settling'[r] = {}
<1>1. \A r \in Replicas : \A w \in writes'[r] : w.op = "save"
  BY WritesSource DEF Phases
<1>2. Forgets
  <2>1. ASSUME NEW q \in Replicas, NEW f \in fires[q],
               \/ FireEnter(q, f) \/ FireClaim(q, f) \/ FirePublish(q, f) \/ FireForget(q, f)
               \/ FireRearm(q, f) \/ FireReset(q, f) \/ FireStore(q, f)
        PROVE  Forgets
    <3>1. \A r \in Replicas : \A h \in fires'[r] :
            \/ h \in fires[r]
            \/ /\ h.entry.oneTime = f.entry.oneTime
               /\ h.at = "forget" => f.entry.oneTime
               /\ h.at = "delete" => f.at = "forget"
      BY <2>1, FireKin
    <3> QED
      BY <3>1 DEF Phases
  <2>2. ASSUME NEW q \in Replicas, NEW t \in timers[q], TimerFires(q, t)
        PROVE  Forgets
    BY <2>2 DEF TimerFires, Phases, TypeOK
  <2>3. ASSUME NEW q \in Replicas, Crash(q)
        PROVE  Forgets
    BY <2>3 DEF Crash, Phases, TypeOK
  <2>4. CASE fires' = fires
    BY <2>4 DEF Phases
  <2>5. ASSUME \/ \E r \in Replicas :
                  \/ AddStep(r) \/ RestoreStep(r)
                  \/ \E id \in Ids, k \in Kinds : Schedule(r, id, k)
                  \/ \E e \in entries[r] : Unschedule(r, e)
                  \/ Start(r) \/ CloseBegin(r) \/ CloseReturn(r) \/ SetDraining(r)
               \/ Tick \/ UNCHANGED vars
        PROVE  fires' = fires
    BY <2>5 DEF AddStep, AddInsert, StoreWrite, RestoreStep, RestoreCatchUp, RestoreAdd,
                RestoreSettle, RestoreEnds, Schedule, Unschedule, Start, CloseBegin,
                CloseReturn, SetDraining, Tick, vars
  <2> QED
    BY <2>1, <2>2, <2>3, <2>4, <2>5 DEF Next, Operate, FireStep
<1>3. Settles
  <2>1. ASSUME NEW q \in Replicas, RestoreStep(q)
        PROVE  Settles
    <3>1. CASE \E row \in todo[q] : RestoreCatchUp(q, row)
      BY <3>1 DEF RestoreCatchUp, BetweenRows, Phases, TypeOK
    <3>2. CASE \E row \in todo[q] : RestoreAdd(q, row)
      BY <3>2 DEF RestoreAdd, BetweenRows, Phases, TypeOK
    <3>3. CASE \E row \in settling[q] : RestoreSettle(q, row)
      BY <3>3 DEF RestoreSettle, Phases, TypeOK
    <3>4. CASE RestoreEnds(q)
      BY <3>4 DEF RestoreEnds, BetweenRows, restore, Phases, TypeOK
    <3> QED
      BY <2>1, <3>1, <3>2, <3>3, <3>4 DEF RestoreStep
  <2>2. ASSUME NEW q \in Replicas, Start(q)
        PROVE  Settles
    BY <2>2 DEF Start, Phases, TypeOK
  <2>3. ASSUME NEW q \in Replicas, Crash(q)
        PROVE  Settles
    BY <2>3 DEF Crash, Phases, TypeOK
  <2>4. ASSUME NEW q \in Replicas, CloseBegin(q) \/ CloseReturn(q)
        PROVE  Settles
    BY <2>4 DEF CloseBegin, CloseReturn, restore, Phases, TypeOK
  <2>5. CASE UNCHANGED <<state, todo, settling>>
    BY <2>5 DEF Phases
  <2>6. ASSUME NEW r \in Replicas, AddStep(r) \/ FireStep(r)
        PROVE  UNCHANGED <<state, todo, settling>>
    BY <2>6 DEF AddStep, AddInsert, StoreWrite, FireStep, TimerFires, FireEnter, FireClaim,
                FirePublish, FireForget, FireRearm, FireReset, FireStore, restore
  <2>7. ASSUME \/ \E r \in Replicas :
                  \/ \E id \in Ids, k \in Kinds : Schedule(r, id, k)
                  \/ \E e \in entries[r] : Unschedule(r, e)
                  \/ SetDraining(r)
               \/ Tick \/ UNCHANGED vars
        PROVE  UNCHANGED <<state, todo, settling>>
    BY <2>7 DEF Schedule, Unschedule, SetDraining, Tick, vars, restore
  <2> QED
    BY <2>1, <2>2, <2>3, <2>4, <2>5, <2>6, <2>7 DEF Next, Operate
<1> QED
  BY <1>1, <1>2, <1>3 DEF Phases

(* Schedule and add: an entry is listed before its row is saved.           *)
LEMMA AddMatches ==
  ASSUME StoreFails \cap {"save", "load"} = {}, TypeOK, Phases, OneKind, NEW r \in Replicas, Running(r),
         RowsHeld(r), HeldStored(r), SavesListed(r),
         \/ \E id \in Ids, k \in Kinds : Schedule(r, id, k)
         \/ \E a \in adding[r] : AddInsert(r, a)
         \/ \E w \in writes[r] : StoreWrite(r, w)
  PROVE  RowsHeld(r)' /\ HeldStored(r)' /\ SavesListed(r)'
<1>1. ASSUME NEW id \in Ids, NEW k \in Kinds, Schedule(r, id, k)
      PROVE  RowsHeld(r)' /\ HeldStored(r)' /\ SavesListed(r)'
  <2> DEFINE row == [id |-> id, oneTime |-> k.oneTime, dur |-> k.dur, next |-> now + k.dur]
  <2>1. row \in Row
    BY SchedulerAssumption DEF Row, TypeOK
  <2>2. Arm(r, row, TRUE)
    BY <1>1 DEF Schedule
  <2> HIDE DEF row
  <2>3. /\ \A a \in adding'[r] : a \in adding[r] \/ a.save
        /\ adding[r] \subseteq adding'[r]
    BY <2>1, <2>2, ArmAdds
  <2>4. UNCHANGED <<rows, entries, todo, settling, writes, fires>>
    BY <1>1 DEF Schedule, store, restore
  <2>5. RowsHeld(r)'
    BY <2>3, <2>4 DEF RowsHeld, Held, Listed
  <2>6. HeldStored(r)'
    BY <2>3, <2>4 DEF HeldStored, Stored
  <2> QED
    BY <2>4, <2>5, <2>6 DEF SavesListed, Listed
<1>2. ASSUME NEW a \in adding[r], AddInsert(r, a)
      PROVE  RowsHeld(r)' /\ HeldStored(r)' /\ SavesListed(r)'
  <2> DEFINE w == [op |-> "save", row |-> RowOf(a.entry)]
  <2>1. w.row.id = a.entry.id
    BY DEF RowOf
  <2>2. /\ entries'[r] = Put(entries[r], a.entry)
        /\ adding'[r] = adding[r] \ {a}
        /\ writes'[r] = IF a.save THEN writes[r] \cup {w} ELSE writes[r]
        /\ UNCHANGED <<rows, todo, settling, fires>>
    BY <1>2 DEF AddInsert, store, restore, TypeOK
  <2> HIDE DEF w
  <2>3. Listed(r, a.entry.id)' /\ \A id : Listed(r, id) => Listed(r, id)'
    BY <2>2 DEF Listed, Put, Drop
  <2>4. \A x \in entries'[r] : x \in entries[r] \/ x = a.entry
    BY <2>2 DEF Put, Drop
  <2>5. \A id : Stored(r, id) => Stored(r, id)'
    BY <2>2 DEF Stored
  <2>6. \A id : Held(r, id) => Held(r, id)'
    BY <2>2, <2>3 DEF Held
  <2>7. RowsHeld(r)'
    BY <2>2, <2>6 DEF RowsHeld
  <2>8. ~a.entry.oneTime => Stored(r, a.entry.id)'
    <3>1. CASE a.save
      BY <2>1, <2>2, <3>1 DEF Stored
    <3>2. CASE ~a.save
      BY <2>5, <3>2 DEF HeldStored
    <3> QED
      BY <3>1, <3>2
  <2>9. HeldStored(r)'
    BY <2>2, <2>4, <2>5, <2>8 DEF HeldStored
  <2>10. SavesListed(r)'
    BY <2>1, <2>2, <2>3 DEF SavesListed
  <2> QED
    BY <2>7, <2>9, <2>10
<1>3. ASSUME NEW w \in writes[r], StoreWrite(r, w)
      PROVE  RowsHeld(r)' /\ HeldStored(r)' /\ SavesListed(r)'
  <2>1. /\ rows' = SaveSchedule(w.row) /\ w.row \in Row
        /\ writes'[r] = writes[r] \ {w}
        /\ UNCHANGED <<entries, todo, settling, adding, fires>>
    BY <1>3 DEF StoreWrite, Save, Phases, restore, TypeOK
  <2>2. /\ \A x \in rows' : x \in rows \/ (x.id = w.row.id /\ x.oneTime = w.row.oneTime)
        /\ \E x \in rows' : x.id = w.row.id
        /\ \A x \in rows : x.id # w.row.id => x \in rows'
    BY <2>1, SavedRows
  <2>3. \A id : Stored(r, id) => Stored(r, id)'
    BY <2>1, <2>2 DEF Stored
  <2>4. \A id : Held(r, id) => Held(r, id)'
    BY <2>1 DEF Held, Listed
  <2>5. ~w.row.oneTime => Held(r, w.row.id)
    BY DEF SavesListed, Held
  <2>6. RowsHeld(r)'
    BY <2>2, <2>4, <2>5 DEF RowsHeld
  <2>7. HeldStored(r)'
    BY <2>1, <2>3 DEF HeldStored
  <2>8. SavesListed(r)'
    BY <2>1 DEF SavesListed, Listed
  <2> QED
    BY <2>6, <2>7, <2>8
<1> QED
  BY <1>1, <1>2, <1>3

(* fire: only one-time entries are forgotten and their rows deleted, and a *)
(* recurring one saves a row whose entry it found in the map.              *)
LEMMA FireMatches ==
  ASSUME StoreFails \cap {"save", "load"} = {}, TypeOK, Phases, OneKind, NEW r \in Replicas, Running(r),
         RowsHeld(r), HeldStored(r), SavesListed(r), FireStep(r)
  PROVE  RowsHeld(r)' /\ HeldStored(r)' /\ SavesListed(r)'
<1>1. UNCHANGED <<todo, settling, adding, writes>>
  BY DEF FireStep, TimerFires, FireEnter, FireClaim, FirePublish, FireForget, FireRearm,
         FireReset, FireStore, restore
<1>2. ASSUME NEW f \in fires[r],
             \/ FireEnter(r, f) \/ FireClaim(r, f) \/ FirePublish(r, f) \/ FireForget(r, f)
             \/ FireRearm(r, f) \/ FireReset(r, f) \/ FireStore(r, f)
      PROVE  RowsHeld(r)' /\ HeldStored(r)' /\ SavesListed(r)'
  <2>1. \A h \in fires'[r] :
          \/ h \in fires[r]
          \/ /\ h.entry.id = f.entry.id /\ h.entry.oneTime = f.entry.oneTime
             /\ h.at = "save" => f.at = "reset"
             /\ h.at = "reset" => Current(r, f.entry)
    BY <1>2, FireKin
  <2>2. /\ f.entry \in Entry /\ f.entry.id \in Ids /\ f.entry.oneTime \in BOOLEAN
        /\ Knows(f.entry.id, f.entry.oneTime)
    BY KnownBefore, FireOnTypes DEF Entry
  <2>3. /\ \A x \in rows : x.id = f.entry.id => x.oneTime = f.entry.oneTime
        /\ \A x \in entries[r] : x.id = f.entry.id => x.oneTime = f.entry.oneTime
        /\ \A x \in todo[r] : x.id = f.entry.id => x.oneTime = f.entry.oneTime
        /\ \A x \in settling[r] : x.id = f.entry.id => x.oneTime = f.entry.oneTime
        /\ \A w \in writes[r] : w.row.id = f.entry.id => w.row.oneTime = f.entry.oneTime
        /\ \A a \in adding[r] : a.entry.id = f.entry.id => a.entry.oneTime = f.entry.oneTime
        /\ \A g \in fires[r] : g.entry.id = f.entry.id => g.entry.oneTime = f.entry.oneTime
    BY <2>2, KindOf
  <2>4. CASE FireForget(r, f)
    <3>1. /\ f.entry.oneTime /\ entries'[r] = Drop(entries[r], f.entry.id) /\ rows' = rows
      BY <2>4 DEF FireForget, Phases, TypeOK, store
    <3>2. \A id : id # f.entry.id => (Listed(r, id) => Listed(r, id)')
      BY <3>1 DEF Listed, Drop
    <3>3. \A id : id # f.entry.id => (Held(r, id) => Held(r, id)')
      BY <1>1, <3>2 DEF Held
    <3>4. RowsHeld(r)'
      BY <2>3, <3>1, <3>3 DEF RowsHeld
    <3>5. \A id : Stored(r, id) => Stored(r, id)'
      BY <1>1, <3>1 DEF Stored
    <3>6. HeldStored(r)'
      BY <1>1, <3>1, <3>5 DEF HeldStored, Drop
    <3>7. \A h \in fires'[r] : h \in fires[r] \/ h.at = "delete"
      <4>1. [f EXCEPT !.at = "delete"].at = "delete"
        BY FireOnTypes DEF Fire
      <4>2. FireOn(r, f, [f EXCEPT !.at = "delete"])
        BY <2>4 DEF FireForget
      <4> QED
        BY <4>1, <4>2 DEF FireOn, TypeOK
    <3>8. SavesListed(r)'
      BY <1>1, <2>3, <3>2, <3>1, <3>7 DEF SavesListed
    <3> QED
      BY <3>4, <3>6, <3>8
  <2>5. CASE FireRearm(r, f)
    <3> DEFINE e == [f.entry EXCEPT !.next = now + f.entry.dur]
    <3>1. e.id = f.entry.id /\ e.oneTime = f.entry.oneTime
      BY <2>2 DEF Entry
    <3>2. /\ rows' = rows
          /\ \/ entries'[r] = entries[r]
             \/ Current(r, f.entry) /\ entries'[r] = Put(entries[r], e)
      BY <2>5 DEF FireRearm, TypeOK, store
    <3> HIDE DEF e
    <3>3. \A id : Listed(r, id) => Listed(r, id)'
      BY <3>1, <3>2 DEF Listed, Put, Drop
    <3>4. \A id : Held(r, id) => Held(r, id)'
      BY <1>1, <3>3 DEF Held
    <3>5. \A id : Stored(r, id) => Stored(r, id)'
      BY <1>1, <3>2 DEF Stored
    <3>6. \A x \in entries'[r] :
            x \in entries[r] \/ (\E y \in entries[r] : y.id = x.id /\ y.oneTime = x.oneTime)
      BY <2>3, <3>1, <3>2 DEF Current, Put, Drop
    <3>7. RowsHeld(r)' /\ HeldStored(r)'
      BY <1>1, <3>2, <3>4, <3>5, <3>6 DEF RowsHeld, HeldStored
    <3>8. Current(r, f.entry) => Listed(r, f.entry.id)
      BY DEF Current, Listed
    <3>9. SavesListed(r)'
      BY <1>1, <2>1, <3>3, <3>8 DEF SavesListed
    <3> QED
      BY <3>7, <3>9
  <2>6. CASE FireStore(r, f)
    <3>1. /\ entries' = entries /\ \A h \in fires'[r] : h \in fires[r]
          /\ RowOf(f.entry) \in Row
          /\ RowOf(f.entry).id = f.entry.id /\ RowOf(f.entry).oneTime = f.entry.oneTime
      BY <2>6, FireOnTypes DEF FireStore, FireEnds, TypeOK, RowOf
    <3>2. /\ \A x \in rows' : x \in rows \/ (x.id = f.entry.id /\ f.at = "save"
                                             /\ x.oneTime = f.entry.oneTime)
          /\ \A x \in rows : x.id # f.entry.id => x \in rows'
          /\ f.at = "save" => \E x \in rows' : x.id = f.entry.id
          /\ f.at = "delete" => f.entry.oneTime
          /\ f.at \in {"save", "delete"}
      <4>1. CASE f.at = "save"
        <5>1. rows' = SaveSchedule(RowOf(f.entry))
          BY <2>6, <4>1 DEF FireStore, Save
        <5> QED
          BY <3>1, <4>1, <5>1, SavedRows
      <4>2. CASE f.at = "delete"
        <5>1. rows' = DeleteSchedule(f.entry.id) \/ rows' = rows
          BY <2>6, <4>2 DEF FireStore, Delete
        <5> QED
          BY <4>2, <5>1, DeletedRows DEF Phases
      <4> QED
        BY <2>6, <4>1, <4>2 DEF FireStore
    <3>3. \A id : Held(r, id) => Held(r, id)'
      BY <1>1, <3>1 DEF Held, Listed
    <3>4. RowsHeld(r)'
      <4>1. f.at = "save" /\ ~f.entry.oneTime => Held(r, f.entry.id)
        BY DEF SavesListed, Held
      <4> QED
        BY <3>2, <3>3, <4>1 DEF RowsHeld
    <3>5. \A id : id # f.entry.id \/ ~f.entry.oneTime => (Stored(r, id) => Stored(r, id)')
      BY <1>1, <3>2 DEF Stored
    <3>6. HeldStored(r)'
      BY <1>1, <2>3, <3>1, <3>5 DEF HeldStored
    <3>7. SavesListed(r)'
      BY <1>1, <3>1 DEF SavesListed, Listed
    <3> QED
      BY <3>4, <3>6, <3>7
  <2>7. CASE FireEnter(r, f) \/ FireClaim(r, f) \/ FirePublish(r, f) \/ FireReset(r, f)
    <3>1. UNCHANGED <<rows, entries>>
      BY <2>7 DEF FireEnter, FireClaim, FirePublish, FireReset, store
    <3>2. RowsHeld(r)' /\ HeldStored(r)'
      BY <1>1, <3>1 DEF RowsHeld, HeldStored, Held, Stored, Listed
    <3>3. \A h \in fires'[r] :
            \/ h \in fires[r]
            \/ h.at \notin {"reset", "save"}
            \/ h.entry.id = f.entry.id /\ h.entry.oneTime = f.entry.oneTime /\ f.at = "reset"
            \/ h.entry.id = f.entry.id /\ Listed(r, f.entry.id)
      BY <2>1 DEF Current, Listed
    <3>4. SavesListed(r)'
      BY <1>1, <3>1, <3>3 DEF SavesListed, Listed
    <3> QED
      BY <3>2, <3>4
  <2> QED
    BY <1>2, <2>4, <2>5, <2>6, <2>7
<1>3. ASSUME NEW t \in timers[r], TimerFires(r, t)
      PROVE  RowsHeld(r)' /\ HeldStored(r)' /\ SavesListed(r)'
  <2>1. /\ UNCHANGED <<rows, entries>>
        /\ \A f \in fires'[r] : f \in fires[r] \/ f.at = "enter"
    BY <1>3 DEF TimerFires, store, TypeOK
  <2>2. RowsHeld(r)' /\ HeldStored(r)'
    BY <1>1, <2>1 DEF RowsHeld, HeldStored, Held, Stored, Listed
  <2> QED
    BY <1>1, <2>1, <2>2 DEF SavesListed, Listed
<1> QED
  BY <1>2, <1>3 DEF FireStep

(* Restore: what it has read goes from todo to settling, or to add, while  *)
(* its row stays, or is replaced by that of the next fire.                 *)
LEMMA RestoreMatches ==
  ASSUME StoreFails \cap {"save", "load"} = {}, TypeOK, Phases, OneKind, NEW r \in Replicas, Running(r),
         RowsHeld(r), HeldStored(r), SavesListed(r), RestoreStep(r)
  PROVE  RowsHeld(r)' /\ HeldStored(r)' /\ SavesListed(r)'
<1>1. UNCHANGED <<entries, writes, fires>>
  BY DEF RestoreStep, RestoreCatchUp, RestoreAdd, RestoreSettle, RestoreEnds
<1>2. SavesListed(r)'
  BY <1>1 DEF SavesListed, Listed
<1>3. ASSUME NEW row \in todo[r], RestoreCatchUp(r, row)
      PROVE  RowsHeld(r)' /\ HeldStored(r)'
  <2>1. /\ UNCHANGED <<rows, adding>> /\ settling[r] = {}
        /\ todo'[r] = todo[r] \ {row} /\ settling'[r] = {row}
    BY <1>3 DEF RestoreCatchUp, BetweenRows, store, TypeOK
  <2>2. \A id : Held(r, id) => Held(r, id)'
    BY <1>1, <2>1 DEF Held, Listed
  <2>3. \A id : Stored(r, id) => Stored(r, id)'
    BY <1>1, <2>1 DEF Stored
  <2> QED
    BY <1>1, <2>1, <2>2, <2>3 DEF RowsHeld, HeldStored
<1>4. ASSUME NEW row \in todo[r], RestoreAdd(r, row)
      PROVE  RowsHeld(r)' /\ HeldStored(r)'
  <2>1. /\ UNCHANGED <<rows, settling>> /\ todo'[r] = todo[r] \ {row}
        /\ Arm(r, row, FALSE) /\ row \in Row
    BY <1>4 DEF RestoreAdd, store, TypeOK
  <2>2. /\ \A a \in adding'[r] : \/ a \in adding[r]
                                 \/ a.entry.id = row.id /\ a.entry.oneTime = row.oneTime
        /\ adding[r] \subseteq adding'[r]
        /\ \E a \in adding'[r] : a.entry.id = row.id
    <3>1. \A q \in Replicas : \A a \in adding'[q] :
            \/ a \in adding[q]
            \/ a.entry.id = row.id /\ a.entry.oneTime = row.oneTime
      BY <2>1, ArmAdds
    <3>2. \A q \in Replicas : adding[q] \subseteq adding'[q]
      BY <2>1, ArmAdds
    <3>3. \E a \in adding'[r] : a.entry.id = row.id
      BY <2>1, ArmAdds
    <3> QED
      BY <3>1, <3>2, <3>3
  <2>3. \A id : Held(r, id) => Held(r, id)'
    BY <1>1, <2>1, <2>2 DEF Held, Listed
  <2>4. \A id : Stored(r, id) => Stored(r, id)'
    BY <1>1, <2>1 DEF Stored
  <2> QED
    BY <1>1, <2>1, <2>2, <2>3, <2>4 DEF RowsHeld, HeldStored
<1>5. ASSUME NEW row \in settling[r], RestoreSettle(r, row)
      PROVE  RowsHeld(r)' /\ HeldStored(r)'
  <2> DEFINE moved == [row EXCEPT !.next = since[r] + row.dur]
  <2>1. /\ moved \in Row /\ moved.id = row.id /\ moved.oneTime = row.oneTime
        /\ row.id \in Ids /\ row.oneTime \in BOOLEAN
    BY DEF TypeOK, Row
  <2>2. /\ todo' = todo
        /\ IF row.oneTime
           THEN rows' \in {DeleteSchedule(row.id), rows} /\ UNCHANGED adding
           ELSE rows' = SaveSchedule(moved) /\ Arm(r, moved, FALSE)
    BY <1>5 DEF RestoreSettle, Save, Delete
  <2>5. settling'[r] = {} /\ \A x \in settling[r] : x = row
    BY <1>5 DEF RestoreSettle, Phases, TypeOK
  <2> HIDE DEF moved
  <2>3. CASE row.oneTime
    <3>1. /\ \A x \in rows' : x \in rows
          /\ \A x \in rows : x.id # row.id => x \in rows'
          /\ UNCHANGED adding
      BY <2>2, <2>3, DeletedRows
    <3>2. /\ \A x \in rows : x.id = row.id => x.oneTime
          /\ \A x \in entries[r] : x.id = row.id => x.oneTime
          /\ \A x \in todo[r] : x.id = row.id => x.oneTime
          /\ \A a \in adding[r] : a.entry.id = row.id => a.entry.oneTime
      <4>1. Knows(row.id, row.oneTime)
        BY KnownBefore
      <4>2. /\ \A x \in rows : x.id = row.id => x.oneTime = row.oneTime
            /\ \A x \in entries[r] : x.id = row.id => x.oneTime = row.oneTime
            /\ \A x \in todo[r] : x.id = row.id => x.oneTime = row.oneTime
            /\ \A a \in adding[r] : a.entry.id = row.id => a.entry.oneTime = row.oneTime
        BY <2>1, <4>1, KindOf
      <4> QED
        BY <2>3, <4>2
    <3>3. \A id : id # row.id => (Held(r, id) => Held(r, id)')
      BY <1>1, <2>2, <2>5, <3>1 DEF Held, Listed
    <3>4. \A id : id # row.id => (Stored(r, id) => Stored(r, id)')
      BY <1>1, <3>1 DEF Stored
    <3>5. RowsHeld(r)'
      BY <3>1, <3>2, <3>3 DEF RowsHeld
    <3>6. HeldStored(r)'
      BY <1>1, <2>2, <2>5, <3>1, <3>2, <3>4 DEF HeldStored
    <3> QED
      BY <3>5, <3>6
  <2>4. CASE ~row.oneTime
    <3>1. /\ \A x \in rows' : x \in rows \/ x.id = row.id
          /\ \E x \in rows' : x.id = row.id
          /\ \A x \in rows : x.id # row.id => x \in rows'
      BY <2>1, <2>2, <2>4, SavedRows
    <3>2. /\ \A a \in adding'[r] : a \in adding[r] \/ a.entry.id = row.id
          /\ adding[r] \subseteq adding'[r]
          /\ \E a \in adding'[r] : a.entry.id = row.id
      <4>1. \A q \in Replicas : \A a \in adding'[q] :
              \/ a \in adding[q]
              \/ a.entry.id = moved.id /\ a.entry.oneTime = moved.oneTime
        BY <2>1, <2>2, <2>4, ArmAdds
      <4>2. \A q \in Replicas : adding[q] \subseteq adding'[q]
        BY <2>1, <2>2, <2>4, ArmAdds
      <4>3. \E a \in adding'[r] : a.entry.id = moved.id
        BY <2>1, <2>2, <2>4, ArmAdds
      <4> QED
        BY <2>1, <4>1, <4>2, <4>3
    <3>3. Held(r, row.id)' /\ \A id : Held(r, id) => Held(r, id)'
      BY <1>1, <2>2, <2>5, <3>2 DEF Held, Listed
    <3>4. Stored(r, row.id)' /\ \A id : Stored(r, id) => Stored(r, id)'
      BY <1>1, <3>1 DEF Stored
    <3>5. RowsHeld(r)'
      BY <3>1, <3>3 DEF RowsHeld
    <3>6. HeldStored(r)'
      BY <1>1, <2>2, <2>5, <3>2, <3>4 DEF HeldStored
    <3> QED
      BY <3>5, <3>6
  <2> QED
    BY <2>3, <2>4
<1>6. CASE RestoreEnds(r)
  <2>1. UNCHANGED <<rows, todo, settling, adding>>
    BY <1>6 DEF RestoreEnds, restore, store
  <2>2. RowsHeld(r)'
    BY <1>1, <2>1 DEF RowsHeld, Held, Listed
  <2>3. HeldStored(r)'
    BY <1>1, <2>1 DEF HeldStored, Stored
  <2> QED
    BY <1>2, <2>2, <2>3
<1> QED
  BY <1>2, <1>3, <1>4, <1>5, <1>6 DEF RestoreStep

(* A replica that starts reads the whole table, and has nothing else.      *)
LEMMA NextMatches ==
  ASSUME StoreFails \cap {"save", "load"} = {}, Alone, ~MayCancel, TypeOK, Dead, Phases, OneKind, Matches, [Next]_vars
  PROVE  Matches'
<1>1. ASSUME NEW r \in Replicas, Running(r)'
      PROVE  RowsHeld(r)' /\ HeldStored(r)' /\ SavesListed(r)'
  <2>1. \A q \in Replicas : q = r
    BY DEF Alone
  <2>2. CASE Start(r)
    <3>1. /\ entries[r] = {} /\ adding[r] = {} /\ fires[r] = {} /\ writes[r] = {}
          /\ settling[r] = {}
      BY <2>2 DEF Start, Dead
    <3>2. /\ todo'[r] = rows
          /\ UNCHANGED <<rows, entries, adding, fires, writes, settling>>
      BY <2>2 DEF Start, store, TypeOK
    <3>3. RowsHeld(r)'
      BY <3>2 DEF RowsHeld, Held
    <3>4. HeldStored(r)'
      BY <3>1, <3>2 DEF HeldStored, Stored
    <3>5. SavesListed(r)'
      BY <3>1, <3>2 DEF SavesListed
    <3> QED
      BY <3>3, <3>4, <3>5
  <2>3. CASE Running(r)
    <3>1. RowsHeld(r) /\ HeldStored(r) /\ SavesListed(r)
      BY <2>3 DEF Matches
    <3>2. CASE \/ \E id \in Ids, k \in Kinds : Schedule(r, id, k)
               \/ AddStep(r)
      BY <2>3, <3>1, <3>2, AddMatches DEF AddStep
    <3>3. CASE FireStep(r)
      BY <2>3, <3>1, <3>3, FireMatches
    <3>4. CASE RestoreStep(r)
      BY <2>3, <3>1, <3>4, RestoreMatches
    <3>5. CASE SetDraining(r) \/ Tick \/ UNCHANGED vars
      <4>1. UNCHANGED <<rows, entries, adding, fires, writes, todo, settling>>
        BY <3>5 DEF SetDraining, Tick, vars, store, restore
      <4> QED
        BY <3>1, <4>1 DEF RowsHeld, HeldStored, SavesListed, Held, Stored, Listed
    <3>6. ~CloseBegin(r) /\ ~CloseReturn(r) /\ ~Crash(r)
      BY <1>1 DEF CloseBegin, CloseReturn, Crash, Running, TypeOK
    <3>7. \A e \in entries[r] : ~Unschedule(r, e)
      BY DEF Unschedule
    <3> QED
      BY <2>1, <2>2, <3>2, <3>3, <3>4, <3>5, <3>6, <3>7 DEF Next, Operate
  <2>4. CASE ~Running(r)
    <3>1. state[r] = "down" /\ state'[r] # "down"
      BY <1>1, <2>4, Rises DEF Running
    <3>2. \A q \in Replicas :
            /\ \A id \in Ids, k \in Kinds : ~Schedule(q, id, k)
            /\ \A e \in entries[q] : ~Unschedule(q, e)
            /\ ~AddStep(q) /\ ~FireStep(q) /\ ~RestoreStep(q)
            /\ ~CloseBegin(q) /\ ~CloseReturn(q) /\ ~Crash(q) /\ ~SetDraining(q)
      <4>1. ~Running(r) /\ entries[r] = {} /\ adding[r] = {} /\ writes[r] = {}
              /\ timers[r] = {} /\ fires[r] = {} /\ todo[r] = {} /\ settling[r] = {}
        BY <2>4, <3>1 DEF Dead
      <4> QED
        BY <2>1, <3>1, <4>1
        DEF Schedule, AddStep, FireStep, RestoreStep, RestoreEnds, BetweenRows, CloseBegin,
            CloseReturn, Crash, SetDraining
    <3>3. ~Tick /\ ~UNCHANGED vars
      BY <3>1 DEF Tick, vars
    <3> QED
      BY <2>1, <2>2, <3>2, <3>3 DEF Next, Operate
  <2> QED
    BY <2>3, <2>4
<1> QED
  BY <1>1 DEF Matches

(* Of a single replica whose IDs are fresh and whose schedules nobody      *)
(* cancels: when every goroutine has finished, the table and the map hold  *)
(* the same periodic schedules, after any closes, crashes and restarts and *)
(* whatever publishes, claims and deletes fail.  (A cancel, or a caller    *)
(* that uses an ID again, races with the save that a fire makes after it   *)
(* has left mu; a save or a load that fails is not made again.)            *)
THEOREM TableMatchesMap ==
  ASSUME Alone, ~Reuse, ~MayCancel, StoreFails \cap {"save", "load"} = {}
  PROVE  Spec => []StoreMatchesMemory
<1> DEFINE I == TypeOK /\ Dead /\ Phases /\ OneKind /\ Matches
<1>1. Init => I
  <2> SUFFICES ASSUME Init PROVE I
    OBVIOUS
  <2>1. TypeOK
    BY InitTypes
  <2>2. Dead /\ Phases
    BY DEF Init, Dead, Phases
  <2>3. OneKind
    BY DEF Init, OneKind, Knows
  <2>4. Matches
    BY DEF Init, Matches, RowsHeld, HeldStored, SavesListed
  <2> QED
    BY <2>1, <2>2, <2>3, <2>4
<1>2. I /\ [Next]_vars => I'
  BY NextTypes, NextDead, NextPhases, NextOneKind, NextMatches
<1>3. I => StoreMatchesMemory
  <2> SUFFICES ASSUME I, NEW r \in Replicas,
                      state[r] = "up", adding[r] = {}, writes[r] = {}, fires[r] = {}
               PROVE  {row.id : row \in {x \in rows : ~x.oneTime}}
                        = {e.id : e \in {x \in entries[r] : ~x.oneTime}}
    BY DEF StoreMatchesMemory
  <2>1. RowsHeld(r) /\ HeldStored(r) /\ todo[r] = {} /\ settling[r] = {}
    BY DEF Matches, Running, Phases
  <2>2. ASSUME NEW row \in rows, ~row.oneTime
        PROVE  \E e \in entries[r] : e.id = row.id /\ ~e.oneTime
    <3>1. PICK e \in entries[r] : e.id = row.id
      BY <2>1, <2>2 DEF RowsHeld, Held, Listed
    <3>2. row.id \in Ids /\ row.oneTime \in BOOLEAN
      BY DEF TypeOK, Row
    <3>3. e.oneTime = row.oneTime
      BY <3>1, <3>2, KindOf, KnownBefore
    <3> QED
      BY <2>2, <3>1, <3>3
  <2>3. ASSUME NEW e \in entries[r], ~e.oneTime
        PROVE  \E row \in rows : row.id = e.id /\ ~row.oneTime
    <3>1. PICK row \in rows : row.id = e.id
      BY <2>1, <2>3 DEF HeldStored, Stored
    <3>2. e.id \in Ids /\ e.oneTime \in BOOLEAN
      BY DEF TypeOK, Entry
    <3>3. row.oneTime = e.oneTime
      BY <3>1, <3>2, KindOf, KnownBefore
    <3> QED
      BY <2>3, <3>1, <3>3
  <2> QED
    BY <2>2, <2>3
<1> QED
  BY <1>1, <1>2, <1>3, PTL DEF Spec
-----------------------------------------------------------------------------
(* What takes the timer of a listed schedule (StaysArmed).  A timer and a  *)
(* fire are of the ID of the entry with their pointer (SameId); a timer is *)
(* never early, and a fire starts when its entry is due (OnTime); and of   *)
(* an entry that add still holds, nobody has more than its timer or a fire *)
(* that will be turned away (Untouched).                                   *)
Numbered(r) ==
  /\ \A x \in entries[r] : x.ptr <= adds
  /\ \A a \in adding[r] : a.entry.ptr <= adds
  /\ \A t \in timers[r] : t.entry.ptr <= adds
  /\ \A f \in fires[r] : f.entry.ptr <= adds

SameId(r) ==
  \A x \in entries[r] :
    /\ \A t \in timers[r] : t.entry.ptr = x.ptr => t.entry.id = x.id
    /\ \A f \in fires[r] : f.entry.ptr = x.ptr => f.entry.id = x.id

OnTime(r) ==
  /\ \A t \in timers[r] : t.entry.next <= t.at
  /\ \A f \in fires[r] :
       /\ f.at = "enter" => f.entry.next <= now
       /\ f.at = "reset" => f.entry.next <= now + f.entry.dur

Untouched(r) ==
  \A a \in adding[r] :
    /\ \A x \in entries[r] : x.ptr # a.entry.ptr
    /\ \A b \in adding[r] : b.entry.ptr = a.entry.ptr => b = a
    /\ \A t \in timers[r] : t.entry.ptr = a.entry.ptr => t.entry = a.entry
    /\ \A f \in fires[r] :
         f.entry.ptr = a.entry.ptr => f.at = "enter" /\ f.entry = a.entry
    /\ Armed(r, a.entry.ptr) \/ a.entry.next <= now

Emptied(r) == ~Running(r) => entries[r] = {}

Ready(r) ==
  Numbered(r) /\ SameId(r) /\ OnTime(r) /\ Untouched(r) /\ Emptied(r)

(* What StaysArmed says of a replica.                                      *)
Kept(r) ==
  \A e \in entries'[r] :
    \/ Armed(r, e.ptr)'
    \/ IF \E x \in entries[r] : x.ptr = e.ptr
       THEN ~Armed(r, e.ptr) \/ TurnedDown(r, e.ptr)
       ELSE e.next <= now

(* A fire takes its next step: its entry, if it stays in the map, has this *)
(* fire or its timer still.                                                *)
LEMMA FireMoves ==
  ASSUME TypeOK, NEW r \in Replicas, Ready(r), NEW f \in fires[r], NEW g \in Fire,
         fires'[r] = (fires[r] \ {f}) \cup {g},
         g.entry.ptr = f.entry.ptr, g.entry.id = f.entry.id, g.at # "enter",
         g.at = "reset" => g.entry.next <= now + g.entry.dur,
         f.at = "enter" => Current(r, f.entry),
         \A x \in entries'[r] :
           \/ x \in entries[r]
           \/ \E y \in entries[r] : y.ptr = x.ptr /\ y.id = x.id,
         \A t \in timers'[r] :
           \/ t \in timers[r]
           \/ t.entry = f.entry /\ t.entry.next <= t.at,
         \A t \in timers[r] : t \in timers'[r] \/ t.entry.ptr = f.entry.ptr,
         g.at \in {"save", "delete"} =>
           \/ \E t \in timers'[r] : t.entry.ptr = f.entry.ptr
           \/ \A x \in entries'[r] : x.ptr # f.entry.ptr,
         Emptied(r)', UNCHANGED <<now, adds, adding>>
  PROVE  Ready(r)' /\ Kept(r)
<1> USE DEF Ready
<1>1. \A h \in fires'[r] : h = g \/ h \in fires[r]
  OBVIOUS
<1>2. \A a \in adding[r] : a.entry.ptr # f.entry.ptr
  BY DEF Untouched, Current
<1>3. g \in fires'[r] /\ \A h \in fires[r] : h \in fires'[r] \/ h = f
  OBVIOUS
<1>4. ASSUME NEW ptr, Armed(r, ptr), ptr # f.entry.ptr
      PROVE  Armed(r, ptr)'
  BY <1>3, <1>4 DEF Armed
<1>5. ASSUME NEW x \in entries'[r], x.ptr = f.entry.ptr
      PROVE  Armed(r, x.ptr)'
  BY <1>3, <1>5 DEF Armed
<1>6. Numbered(r)'
  BY <1>1 DEF Numbered
<1>7. SameId(r)'
  <2>1. \A x \in entries'[r] : \E y \in entries[r] : y.ptr = x.ptr /\ y.id = x.id
    OBVIOUS
  <2>2. \A t \in timers'[r] : t \in timers[r] \/ t.entry = f.entry
    OBVIOUS
  <2> QED
    BY <1>1, <2>1, <2>2 DEF SameId
<1>8. OnTime(r)'
  BY <1>1 DEF OnTime
<1>9. Untouched(r)'
  <2> SUFFICES ASSUME NEW a \in adding[r]
               PROVE  /\ \A x \in entries'[r] : x.ptr # a.entry.ptr
                      /\ \A b \in adding[r] : b.entry.ptr = a.entry.ptr => b = a
                      /\ \A t \in timers'[r] :
                           t.entry.ptr = a.entry.ptr => t.entry = a.entry
                      /\ \A h \in fires'[r] :
                           h.entry.ptr = a.entry.ptr => h.at = "enter" /\ h.entry = a.entry
                      /\ Armed(r, a.entry.ptr)' \/ a.entry.next <= now
    BY DEF Untouched
  <2>1. a.entry.ptr # f.entry.ptr
    BY <1>2
  <2>2. Armed(r, a.entry.ptr)' \/ a.entry.next <= now
    BY <1>4, <2>1 DEF Untouched
  <2> QED
    BY <1>1, <2>1, <2>2 DEF Untouched
<1>10. Kept(r)
  <2> SUFFICES ASSUME NEW e \in entries'[r]
               PROVE  \/ Armed(r, e.ptr)'
                      \/ (\E x \in entries[r] : x.ptr = e.ptr) /\ ~Armed(r, e.ptr)
    BY DEF Kept
  <2> QED
    BY <1>4, <1>5
<1> QED
  BY <1>6, <1>7, <1>8, <1>9, <1>10

(* A fire ends: its entry is not in the map, or it was turned down, or it  *)
(* had armed the timer before.                                             *)
LEMMA FireStops ==
  ASSUME TypeOK, NEW r \in Replicas, Ready(r), NEW f \in fires[r],
         fires'[r] = fires[r] \ {f},
         \/ f.at \in {"save", "delete"} \/ TurnedDown(r, f.entry.ptr)
         \/ \A x \in entries[r] : x.ptr # f.entry.ptr,
         UNCHANGED <<now, adds, state, entries, timers, adding>>
  PROVE  Ready(r)' /\ Kept(r)
<1> USE DEF Ready
<1>1. ASSUME NEW ptr, Armed(r, ptr), ~Armed(r, ptr)'
      PROVE  ptr = f.entry.ptr /\ f.at \notin {"save", "delete"}
  BY <1>1 DEF Armed
<1>2. Numbered(r)' /\ SameId(r)' /\ OnTime(r)' /\ Emptied(r)'
  BY DEF Numbered, SameId, OnTime, Emptied, Running
<1>3. Untouched(r)'
  <2> SUFFICES ASSUME NEW a \in adding[r]
               PROVE  Armed(r, a.entry.ptr)' \/ a.entry.next <= now
    BY DEF Untouched
  <2>1. CASE Armed(r, a.entry.ptr) /\ ~Armed(r, a.entry.ptr)'
    <3>1. f.at = "enter" /\ f.entry = a.entry
      BY <1>1, <2>1 DEF Untouched
    <3> QED
      BY <3>1 DEF OnTime
  <2> QED
    BY <2>1 DEF Untouched
<1>4. Kept(r)
  <2> SUFFICES ASSUME NEW e \in entries[r], Armed(r, e.ptr), ~Armed(r, e.ptr)'
               PROVE  TurnedDown(r, e.ptr)
    BY DEF Kept
  <2> QED
    BY <1>1
<1> QED
  BY <1>2, <1>3, <1>4

(* A fire whose entry is not the one in the map.                           *)
LEMMA NotCurrent ==
  ASSUME NEW r \in Replicas, Ready(r), NEW f \in fires[r],
         ~(Running(r) /\ Current(r, f.entry))
  PROVE  \A x \in entries[r] : x.ptr # f.entry.ptr
BY DEF Ready, SameId, Emptied, Current

LEMMA FireKept ==
  ASSUME TypeOK, NEW r \in Replicas, Ready(r), FireStep(r)
  PROVE  Ready(r)' /\ Kept(r)
<1>1. ASSUME NEW t \in timers[r], TimerFires(r, t)
      PROVE  Ready(r)' /\ Kept(r)
  <2> USE DEF Ready
  <2> DEFINE g == [entry |-> t.entry, at |-> "enter", bucket |-> 0, held |-> FALSE]
  <2>1. /\ timers'[r] = timers[r] \ {t} /\ fires'[r] = fires[r] \cup {g} /\ t.at <= now
        /\ UNCHANGED <<now, adds, state, entries, adding>>
    BY <1>1 DEF TimerFires, TypeOK
  <2>2. g.entry = t.entry /\ g.at = "enter"
    OBVIOUS
  <2> HIDE DEF g
  <2>3. \A ptr : Armed(r, ptr) => Armed(r, ptr)'
    BY <2>1, <2>2 DEF Armed
  <2>4. t.entry.next <= now
    <3>1. t.entry.next \in Nat /\ t.at \in Nat /\ now \in Nat
      BY DEF TypeOK, Entry
    <3> QED
      BY <2>1, <3>1 DEF OnTime
  <2>5. Numbered(r)' /\ SameId(r)' /\ OnTime(r)' /\ Emptied(r)'
    BY <2>1, <2>2, <2>4 DEF Numbered, SameId, OnTime, Emptied, Running
  <2>6. Untouched(r)'
    BY <2>1, <2>2, <2>3 DEF Untouched
  <2> QED
    BY <2>1, <2>3, <2>5, <2>6 DEF Kept
<1> SUFFICES ASSUME NEW f \in fires[r],
                    FireEnter(r, f) \/ FireClaim(r, f) \/ FirePublish(r, f)
                      \/ FireForget(r, f) \/ FireRearm(r, f) \/ FireReset(r, f)
                      \/ FireStore(r, f)
             PROVE  Ready(r)' /\ Kept(r)
  BY <1>1 DEF FireStep
<1>2. /\ f \in Fire /\ f.entry \in Entry
      /\ \A at \in FireAt : /\ [f EXCEPT !.at = at] \in Fire
                            /\ [f EXCEPT !.at = at].at = at
                            /\ [f EXCEPT !.at = at].entry = f.entry
  BY FireOnTypes DEF Fire
<1>3. UNCHANGED <<now, adds, state, adding>>
  BY DEF FireEnter, FireClaim, FirePublish, FireForget, FireRearm, FireReset, FireStore
<1>4. /\ FireEnds(r, f) => fires'[r] = fires[r] \ {f}
      /\ \A g : FireOn(r, f, g) => fires'[r] = (fires[r] \ {f}) \cup {g}
  BY DEF FireEnds, FireOn, TypeOK
<1>5. ASSUME NEW g \in Fire, FireOn(r, f, g), g.entry = f.entry,
             g.at \notin {"enter", "reset", "save", "delete"},
             f.at = "enter" => Current(r, f.entry), UNCHANGED <<entries, timers>>
      PROVE  Ready(r)' /\ Kept(r)
  <2>1. Emptied(r)'
    BY <1>3, <1>5 DEF Ready, Emptied, Running
  <2> QED
    BY <1>3, <1>4, <1>5, <2>1, FireMoves
<1>6. CASE FireEnter(r, f)
  <2>1. CASE Running(r) /\ Current(r, f.entry)
    <3>1. FireOn(r, f, [f EXCEPT !.at = "claim"]) /\ UNCHANGED <<entries, timers>>
      BY <1>6, <2>1 DEF FireEnter
    <3>2. "claim" \in FireAt
      BY DEF FireAt
    <3> QED
      BY <1>2, <1>5, <2>1, <3>1, <3>2
  <2>2. CASE ~(Running(r) /\ Current(r, f.entry))
    <3>1. FireEnds(r, f) /\ UNCHANGED <<entries, timers>>
      BY <1>6, <2>2 DEF FireEnter
    <3> QED
      BY <1>3, <1>4, <2>2, <3>1, NotCurrent, FireStops
  <2> QED
    BY <2>1, <2>2
<1>7. CASE FireClaim(r, f)
  <2>1. UNCHANGED <<entries, timers>>
    BY <1>7 DEF FireClaim
  <2>2. CASE FireEnds(r, f) /\ (draining[r] \/ <<f.entry.id, Bucket(now)>> \in claims)
    <3>1. TurnedDown(r, f.entry.ptr)
      BY <1>7, <2>2 DEF FireClaim, TurnedDown
    <3> QED
      BY <1>3, <1>4, <2>1, <2>2, <3>1, FireStops
  <2>3. CASE \E g \in Fire : FireOn(r, f, g) /\ g.at = "publish" /\ g.entry = f.entry
    <3>1. f.at # "enter"
      BY <1>7 DEF FireClaim
    <3> QED
      BY <1>5, <2>1, <2>3, <3>1
  <2> QED
    BY <1>7, <2>2, <2>3, ClaimGoes
<1>8. CASE FirePublish(r, f)
  <2>1. UNCHANGED <<entries, timers>> /\ f.at # "enter"
    BY <1>8 DEF FirePublish
  <2>2. PICK g \in Fire : /\ FireOn(r, f, g) /\ g.entry = f.entry
                          /\ g.at \in {"forget", "rearm"}
    BY <1>8, PublishGoes
  <2> QED
    BY <1>5, <2>1, <2>2
<1>9. CASE FireForget(r, f)
  <2>1. CASE Running(r)
    <3> DEFINE g == [f EXCEPT !.at = "delete"]
    <3>1. g \in Fire /\ g.at = "delete" /\ g.entry = f.entry
      BY <1>2 DEF FireAt
    <3>2. /\ FireOn(r, f, g) /\ timers' = timers /\ f.at = "forget"
          /\ entries'[r] = Drop(entries[r], f.entry.id)
      BY <1>9, <2>1 DEF FireForget, TypeOK
    <3> HIDE DEF g
    <3>3. entries'[r] \subseteq entries[r] /\ \A x \in entries'[r] : x.ptr # f.entry.ptr
      BY <3>2 DEF Drop, Ready, SameId
    <3>4. Emptied(r)'
      BY <1>3, <3>3 DEF Ready, Emptied, Running
    <3> QED
      BY <1>3, <1>4, <3>1, <3>2, <3>3, <3>4, FireMoves
  <2>2. CASE ~Running(r)
    <3>1. FireEnds(r, f) /\ UNCHANGED <<entries, timers>>
      BY <1>9, <2>2 DEF FireForget
    <3> QED
      BY <1>3, <1>4, <2>2, <3>1, NotCurrent, FireStops
  <2> QED
    BY <2>1, <2>2
<1>10. CASE FireRearm(r, f)
  <2>1. CASE Running(r) /\ Current(r, f.entry)
    <3> DEFINE e == [f.entry EXCEPT !.next = now + f.entry.dur]
               g == [f EXCEPT !.at = "reset", !.entry = e]
    <3>1. e \in Entry /\ e.ptr = f.entry.ptr /\ e.id = f.entry.id
            /\ e.next = now + e.dur
      BY <1>2, FireOnTypes DEF Entry
    <3>2. /\ FireOn(r, f, g) /\ timers' = timers /\ f.at = "rearm"
          /\ entries'[r] = Put(entries[r], e)
      BY <1>10, <2>1 DEF FireRearm, TypeOK
    <3> HIDE DEF e
    <3>3. g \in Fire /\ g.at = "reset" /\ g.entry = e
      BY <1>2, <3>1 DEF Fire, FireAt
    <3> HIDE DEF g
    <3>4. \A x \in entries'[r] :
            \/ x \in entries[r]
            \/ \E y \in entries[r] : y.ptr = x.ptr /\ y.id = x.id
      BY <2>1, <3>1, <3>2 DEF Put, Drop, Current
    <3>5. Emptied(r)'
      BY <1>3, <2>1 DEF Emptied, Running
    <3>6. g.entry.next <= now + g.entry.dur
      BY <3>1, <3>3 DEF Entry
    <3> QED
      BY <1>3, <1>4, <3>1, <3>2, <3>3, <3>4, <3>5, <3>6, FireMoves
  <2>2. CASE ~(Running(r) /\ Current(r, f.entry))
    <3>1. FireEnds(r, f) /\ UNCHANGED <<entries, timers>>
      BY <1>10, <2>2 DEF FireRearm
    <3> QED
      BY <1>3, <1>4, <2>2, <3>1, NotCurrent, FireStops
  <2> QED
    BY <2>1, <2>2
<1>11. CASE FireReset(r, f)
  <2> DEFINE g == [f EXCEPT !.at = "save"]
             t == [entry |-> f.entry, at |-> now + f.entry.dur]
  <2>1. g \in Fire /\ g.at = "save" /\ g.entry = f.entry
    BY <1>2 DEF FireAt
  <2>2. t.entry = f.entry /\ t.at = now + f.entry.dur
    OBVIOUS
  <2>3. /\ FireOn(r, f, g) /\ entries' = entries /\ f.at = "reset"
        /\ timers'[r] = StopTimer(r, f.entry) \cup {t}
    BY <1>11 DEF FireReset, TypeOK
  <2> HIDE DEF g, t
  <2>4. t.entry.next <= t.at
    BY <2>2, <2>3 DEF Ready, OnTime
  <2>5. /\ \A u \in timers'[r] :
             u \in timers[r] \/ (u.entry = f.entry /\ u.entry.next <= u.at)
        /\ \A u \in timers[r] : u \in timers'[r] \/ u.entry.ptr = f.entry.ptr
        /\ \E u \in timers'[r] : u.entry.ptr = f.entry.ptr
    BY <2>2, <2>3, <2>4 DEF StopTimer
  <2>6. Emptied(r)'
    BY <1>3, <2>3 DEF Ready, Emptied, Running
  <2> QED
    BY <1>3, <1>4, <2>1, <2>3, <2>5, <2>6, FireMoves
<1>12. CASE FireStore(r, f)
  <2>1. FireEnds(r, f) /\ f.at \in {"save", "delete"} /\ UNCHANGED <<entries, timers>>
    BY <1>12 DEF FireStore
  <2> QED
    BY <1>3, <1>4, <2>1, FireStops
<1> QED
  BY <1>6, <1>7, <1>8, <1>9, <1>10, <1>11, <1>12

(* A step that leaves the entry, the timers and the fires of r alone.      *)
LEMMA LeftAlone ==
  ASSUME TypeOK, NEW r \in Replicas, Ready(r), now' \in Nat, now <= now',
         adds' \in Nat, adds <= adds', Running(r) => Running(r)',
         entries'[r] = entries[r], timers'[r] = timers[r], adding'[r] = adding[r],
         fires'[r] = fires[r]
  PROVE  Ready(r)' /\ Kept(r)
<1> USE DEF Ready
<1>1. \A ptr : Armed(r, ptr)' <=> Armed(r, ptr)
  BY DEF Armed
<1>2. Numbered(r)'
  BY DEF Numbered, TypeOK, Entry
<1>3. OnTime(r)'
  BY DEF OnTime, TypeOK, Entry
<1>4. Untouched(r)'
  BY <1>1 DEF Untouched, TypeOK, Entry
<1>5. SameId(r)' /\ Emptied(r)'
  BY DEF SameId, Emptied, Running
<1>6. Kept(r)
  BY <1>1 DEF Kept
<1> QED
  BY <1>2, <1>3, <1>4, <1>5, <1>6

(* A new entry has a pointer of its own and its timer.                     *)
LEMMA ArmKept ==
  ASSUME TypeOK, NEW r \in Replicas, Ready(r), NEW row \in Row, NEW save \in BOOLEAN,
         Arm(r, row, save), UNCHANGED <<now, state, entries, fires>>
  PROVE  Ready(r)' /\ Kept(r)
<1> USE DEF Ready
<1>1. PICK e, t, a :
        /\ e.ptr = adds + 1 /\ t.entry = e /\ e.next <= t.at /\ a.entry = e
        /\ timers'[r] = timers[r] \cup {t} /\ adding'[r] = adding[r] \cup {a}
  <2> DEFINE e == [ptr |-> adds + 1, id |-> row.id, oneTime |-> row.oneTime,
                   dur |-> row.dur, next |-> row.next]
             t == [entry |-> e, at |-> IF row.next < now THEN now ELSE row.next]
             a == [entry |-> e, save |-> save]
  <2>1. e.ptr = adds + 1 /\ t.entry = e /\ e.next <= t.at /\ a.entry = e
    BY DEF TypeOK, Row
  <2>2. timers'[r] = timers[r] \cup {t} /\ adding'[r] = adding[r] \cup {a}
    BY DEF Arm, TypeOK
  <2> HIDE DEF e, t, a
  <2> QED
    BY <2>1, <2>2
<1>2. adds' = adds + 1
  BY DEF Arm
<1>3. /\ \A x \in entries[r] : x.ptr < adds'
      /\ \A b \in adding[r] : b.entry.ptr < adds'
      /\ \A u \in timers[r] : u.entry.ptr < adds'
      /\ \A f \in fires[r] : f.entry.ptr < adds'
  BY <1>2 DEF Numbered, TypeOK, Entry
<1>4. \A ptr : Armed(r, ptr) => Armed(r, ptr)'
  BY <1>1 DEF Armed
<1>5. Armed(r, e.ptr)'
  BY <1>1 DEF Armed
<1>6. Numbered(r)'
  BY <1>1, <1>2, <1>3 DEF Numbered, TypeOK, Entry
<1>7. SameId(r)'
  BY <1>1, <1>2, <1>3 DEF SameId, TypeOK, Entry
<1>8. OnTime(r)'
  BY <1>1 DEF OnTime
<1>9. Untouched(r)'
  <2> SUFFICES ASSUME NEW b \in adding'[r]
               PROVE  /\ \A x \in entries[r] : x.ptr # b.entry.ptr
                      /\ \A c \in adding'[r] : c.entry.ptr = b.entry.ptr => c = b
                      /\ \A u \in timers'[r] :
                           u.entry.ptr = b.entry.ptr => u.entry = b.entry
                      /\ \A f \in fires[r] :
                           f.entry.ptr = b.entry.ptr => f.at = "enter" /\ f.entry = b.entry
                      /\ Armed(r, b.entry.ptr)' \/ b.entry.next <= now
    BY DEF Untouched
  <2>1. CASE b = a
    BY <1>1, <1>2, <1>3, <1>5, <2>1 DEF TypeOK, Entry
  <2>2. CASE b \in adding[r]
    <3>1. b.entry.ptr # e.ptr
      BY <1>1, <1>2, <1>3, <2>2 DEF TypeOK, Entry
    <3>2. Armed(r, b.entry.ptr)' \/ b.entry.next <= now
      BY <1>4, <2>2 DEF Untouched
    <3> QED
      BY <1>1, <1>2, <2>2, <3>1, <3>2 DEF Untouched
  <2> QED
    BY <1>1, <2>1, <2>2
<1>10. Emptied(r)'
  BY DEF Emptied, Running
<1>11. Kept(r)
  BY <1>4 DEF Kept
<1> QED
  BY <1>6, <1>7, <1>8, <1>9, <1>10, <1>11

(* The timer of one entry is stopped, and the entry with its ID, if there  *)
(* is one in the map, goes: StopTimer can hit no other entry.              *)
LEMMA StopKept ==
  ASSUME TypeOK, NEW r \in Replicas, Ready(r), NEW e,
         timers'[r] = StopTimer(r, e), entries'[r] = Drop(entries[r], e.id),
         adding'[r] \subseteq adding[r], \A b \in adding'[r] : b.entry.ptr # e.ptr,
         \A t \in timers[r] : t.entry.ptr = e.ptr => t.entry.id = e.id,
         UNCHANGED <<now, state, fires, adds>>
  PROVE  Ready(r)' /\ Kept(r)
<1> USE DEF Ready
<1>1. /\ timers'[r] \subseteq timers[r] /\ entries'[r] \subseteq entries[r]
      /\ \A x \in entries'[r] : x.id # e.id
      /\ \A t \in timers[r] : t \in timers'[r] \/ t.entry.ptr = e.ptr
  BY DEF StopTimer, Drop
<1>2. ASSUME NEW ptr, Armed(r, ptr), ~Armed(r, ptr)'
      PROVE  ptr = e.ptr /\ \E t \in timers[r] : t.entry.ptr = ptr
  BY <1>1, <1>2 DEF Armed
<1>3. \A x \in entries'[r] : Armed(r, x.ptr) => Armed(r, x.ptr)'
  BY <1>1, <1>2 DEF SameId
<1>4. \A b \in adding'[r] : Armed(r, b.entry.ptr) => Armed(r, b.entry.ptr)'
  BY <1>2
<1>5. Numbered(r)'
  BY <1>1 DEF Numbered
<1>6. SameId(r)'
  BY <1>1 DEF SameId
<1>7. OnTime(r)'
  BY <1>1 DEF OnTime
<1>8. Untouched(r)'
  BY <1>1, <1>4 DEF Untouched
<1>9. Emptied(r)'
  BY <1>1 DEF Emptied, Running
<1>10. Kept(r)
  BY <1>1, <1>3 DEF Kept
<1> QED
  BY <1>5, <1>6, <1>7, <1>8, <1>9, <1>10

(* Only Tick moves the clock.                                              *)
LEMMA ClockStays ==
  ASSUME NEW q \in Replicas,
         \/ \E id \in Ids, k \in Kinds : Schedule(q, id, k)
         \/ \E e \in entries[q] : Unschedule(q, e)
         \/ AddStep(q) \/ FireStep(q) \/ RestoreStep(q) \/ Start(q)
         \/ CloseBegin(q) \/ CloseReturn(q) \/ Crash(q) \/ SetDraining(q)
  PROVE  now' = now
<1>1. CASE FireStep(q)
  <2>1. ASSUME NEW f \in fires[q],
               FireEnter(q, f) \/ FireClaim(q, f) \/ FirePublish(q, f) \/ FireForget(q, f)
        PROVE  now' = now
    BY <2>1 DEF FireEnter, FireClaim, FirePublish, FireForget
  <2>2. ASSUME NEW f \in fires[q], FireRearm(q, f) \/ FireReset(q, f) \/ FireStore(q, f)
        PROVE  now' = now
    BY <2>2 DEF FireRearm, FireReset, FireStore
  <2>3. ASSUME NEW t \in timers[q], TimerFires(q, t)
        PROVE  now' = now
    BY <2>3 DEF TimerFires
  <2> QED
    BY <1>1, <2>1, <2>2, <2>3 DEF FireStep
<1>2. CASE RestoreStep(q)
  BY <1>2 DEF RestoreStep, RestoreCatchUp, RestoreAdd, RestoreSettle, RestoreEnds
<1>3. CASE \/ \E id \in Ids, k \in Kinds : Schedule(q, id, k)
           \/ \E e \in entries[q] : Unschedule(q, e)
           \/ AddStep(q)
  BY <1>3 DEF Schedule, Unschedule, AddStep, AddInsert, StoreWrite
<1>4. CASE Start(q) \/ CloseBegin(q) \/ CloseReturn(q) \/ Crash(q) \/ SetDraining(q)
  BY <1>4 DEF Start, CloseBegin, CloseReturn, Crash, SetDraining
<1> QED
  BY <1>1, <1>2, <1>3, <1>4

(* add, under mu.                                                          *)
LEMMA InsertKept ==
  ASSUME TypeOK, NEW r \in Replicas, Ready(r), NEW a \in adding[r], AddInsert(r, a)
  PROVE  Ready(r)' /\ Kept(r)
<1>1. /\ adding'[r] = adding[r] \ {a}
      /\ UNCHANGED <<now, state, fires, adds>>
      /\ \A b \in adding'[r] : b.entry.ptr # a.entry.ptr
  BY DEF AddInsert, TypeOK, Ready, Untouched
<1>2. CASE Running(r)
  <2> USE DEF Ready
  <2>1. entries'[r] = Put(entries[r], a.entry) /\ timers' = timers
    BY <1>2 DEF AddInsert, TypeOK
  <2>2. \A x \in entries'[r] : x \in entries[r] \/ x = a.entry
    BY <2>1 DEF Put, Drop
  <2>3. \A ptr : Armed(r, ptr)' <=> Armed(r, ptr)
    BY <1>1, <2>1 DEF Armed
  <2>4. Numbered(r)' /\ OnTime(r)' /\ Emptied(r)'
    BY <1>1, <1>2, <2>1, <2>2 DEF Numbered, OnTime, Emptied, Running
  <2>5. SameId(r)'
    BY <1>1, <2>1, <2>2 DEF SameId, Untouched
  <2>6. Untouched(r)'
    BY <1>1, <2>1, <2>2, <2>3 DEF Untouched
  <2>7. Kept(r)
    <3> SUFFICES ASSUME NEW e \in entries'[r], ~Armed(r, e.ptr)'
                 PROVE  IF \E x \in entries[r] : x.ptr = e.ptr
                        THEN ~Armed(r, e.ptr) ELSE e.next <= now
      BY DEF Kept
    <3>1. CASE e \in entries[r]
      BY <2>3, <3>1
    <3>2. CASE e = a.entry
      BY <2>3, <3>2 DEF Untouched
    <3> QED
      BY <2>2, <3>1, <3>2
  <2> QED
    BY <2>4, <2>5, <2>6, <2>7
<1>3. CASE ~Running(r)
  <2>1. timers'[r] = StopTimer(r, a.entry) /\ entries' = entries
    BY <1>3 DEF AddInsert, TypeOK
  <2>2. entries[r] = {} /\ Drop(entries[r], a.entry.id) = {}
    BY <1>3 DEF Ready, Emptied, Drop
  <2>3. \A t \in timers[r] : t.entry.ptr = a.entry.ptr => t.entry.id = a.entry.id
    BY DEF Ready, Untouched
  <2> QED
    BY <1>1, <2>1, <2>2, <2>3, StopKept
<1> QED
  BY <1>2, <1>3

LEMMA RestoreKept ==
  ASSUME TypeOK, NEW r \in Replicas, Ready(r), RestoreStep(r)
  PROVE  Ready(r)' /\ Kept(r)
<1>1. ASSUME NEW row \in todo[r], RestoreCatchUp(r, row)
      PROVE  Ready(r)' /\ Kept(r)
  <2>1. UNCHANGED <<now, state, entries, timers, adding, fires, adds>>
    BY <1>1 DEF RestoreCatchUp
  <2> QED
    BY <2>1, LeftAlone DEF TypeOK, Running
<1>2. ASSUME NEW row \in todo[r], RestoreAdd(r, row)
      PROVE  Ready(r)' /\ Kept(r)
  BY <1>2, ArmKept DEF RestoreAdd, TypeOK
<1>3. ASSUME NEW row \in settling[r], RestoreSettle(r, row)
      PROVE  Ready(r)' /\ Kept(r)
  <2>1. UNCHANGED <<now, state, entries, fires>>
    BY <1>3 DEF RestoreSettle
  <2>2. CASE UNCHANGED <<timers, adding, adds>>
    BY <2>1, <2>2, LeftAlone DEF TypeOK, Running
  <2>3. ASSUME Arm(r, [row EXCEPT !.next = since[r] + row.dur], FALSE)
        PROVE  Ready(r)' /\ Kept(r)
    <3>1. [row EXCEPT !.next = since[r] + row.dur] \in Row
      BY DEF TypeOK, Row
    <3> QED
      BY <2>1, <2>3, <3>1, ArmKept
  <2> QED
    BY <1>3, <2>2, <2>3 DEF RestoreSettle
<1>4. CASE RestoreEnds(r)
  <2>1. UNCHANGED <<now, entries, timers, adding, fires, adds>> /\ Running(r)'
    BY <1>4 DEF RestoreEnds, Running, TypeOK
  <2> QED
    BY <2>1, LeftAlone DEF TypeOK
<1> QED
  BY <1>1, <1>2, <1>3, <1>4 DEF RestoreStep

(* Close and a crash empty the map; Start finds it empty.                  *)
LEMMA LifeKept ==
  ASSUME TypeOK, NEW r \in Replicas, Ready(r),
         Start(r) \/ CloseBegin(r) \/ CloseReturn(r) \/ Crash(r) \/ SetDraining(r)
  PROVE  Ready(r)' /\ Kept(r)
<1>1. CASE Start(r) \/ CloseReturn(r) \/ SetDraining(r)
  <2>1. /\ UNCHANGED <<now, entries, timers, adding, fires, adds>>
        /\ Running(r) => Running(r)'
    BY <1>1 DEF Start, CloseReturn, SetDraining, Running, TypeOK
  <2> QED
    BY <2>1, LeftAlone DEF TypeOK
<1>2. CASE CloseBegin(r)
  <2> USE DEF Ready
  <2>1. /\ entries'[r] = {} /\ UNCHANGED <<now, adding, fires, adds>>
        /\ timers'[r] = {t \in timers[r] : \A e \in entries[r] : e.ptr # t.entry.ptr}
    BY <1>2 DEF CloseBegin, TypeOK
  <2>2. \A a \in adding[r] : Armed(r, a.entry.ptr) => Armed(r, a.entry.ptr)'
    BY <2>1 DEF Armed, Untouched
  <2>3. Numbered(r)' /\ SameId(r)' /\ OnTime(r)' /\ Emptied(r)'
    BY <2>1 DEF Numbered, SameId, OnTime, Emptied
  <2>4. Untouched(r)'
    BY <2>1, <2>2 DEF Untouched
  <2> QED
    BY <2>1, <2>3, <2>4 DEF Kept
<1>3. CASE Crash(r)
  <2>1. entries'[r] = {} /\ timers'[r] = {} /\ adding'[r] = {} /\ fires'[r] = {}
    BY <1>3 DEF Crash, TypeOK
  <2> QED
    BY <2>1 DEF Ready, Numbered, SameId, OnTime, Untouched, Emptied, Kept
<1> QED
  BY <1>1, <1>2, <1>3

(* Whatever step is taken, by r, by another replica or by the clock.       *)
LEMMA NextReady ==
  ASSUME TypeOK, [Next]_vars, NEW r \in Replicas, Ready(r)
  PROVE  Ready(r)' /\ Kept(r)
<1>1. adds' \in Nat /\ adds <= adds'
  BY AddsGrow
<1>2. CASE Tick \/ UNCHANGED vars
  <2>1. /\ UNCHANGED <<state, entries, timers, adding, fires>>
        /\ now' \in Nat /\ now <= now'
    BY <1>2 DEF Tick, vars, TypeOK
  <2> QED
    BY <1>1, <2>1, LeftAlone DEF Running
<1>3. ASSUME NEW q \in Replicas,
             \/ \E id \in Ids, k \in Kinds : Schedule(q, id, k)
             \/ \E e \in entries[q] : Unschedule(q, e)
             \/ AddStep(q) \/ FireStep(q) \/ RestoreStep(q) \/ Start(q)
             \/ CloseBegin(q) \/ CloseReturn(q) \/ Crash(q) \/ SetDraining(q)
      PROVE  Ready(r)' /\ Kept(r)
  <2>1. CASE q # r
    <3>1. Parts(r)' = Parts(r) /\ state'[r] = state[r]
      BY <1>3, <2>1, StepsApart
    <3>2. now' = now
      BY <1>3, ClockStays
    <3> QED
      BY <1>1, <3>1, <3>2, LeftAlone DEF Parts, Running, TypeOK
  <2>2. CASE q = r
    <3>1. ASSUME NEW id \in Ids, NEW k \in Kinds, Schedule(r, id, k)
          PROVE  Ready(r)' /\ Kept(r)
      <4> DEFINE row == [id |-> id, oneTime |-> k.oneTime, dur |-> k.dur,
                         next |-> now + k.dur]
      <4>1. row \in Row
        BY SchedulerAssumption DEF Row, TypeOK
      <4>2. Arm(r, row, TRUE) /\ UNCHANGED <<now, state, entries, fires>>
        BY <3>1 DEF Schedule
      <4> HIDE DEF row
      <4> QED
        BY <4>1, <4>2, ArmKept
    <3>2. ASSUME NEW e \in entries[r], Unschedule(r, e)
          PROVE  Ready(r)' /\ Kept(r)
      <4>1. /\ timers'[r] = StopTimer(r, e) /\ entries'[r] = Drop(entries[r], e.id)
            /\ UNCHANGED <<now, state, adding, fires, adds>>
        BY <3>2 DEF Unschedule, TypeOK
      <4>2. /\ \A b \in adding'[r] : b.entry.ptr # e.ptr
            /\ \A t \in timers[r] : t.entry.ptr = e.ptr => t.entry.id = e.id
        BY <4>1 DEF Ready, Untouched, SameId
      <4> QED
        BY <4>1, <4>2, StopKept
    <3>3. ASSUME NEW w \in writes[r], StoreWrite(r, w)
          PROVE  Ready(r)' /\ Kept(r)
      <4>1. UNCHANGED <<now, state, entries, timers, adding, fires, adds>>
        BY <3>3 DEF StoreWrite
      <4> QED
        BY <4>1, LeftAlone DEF TypeOK, Running
    <3> QED
      BY <1>3, <2>2, <3>1, <3>2, <3>3, InsertKept, FireKept, RestoreKept, LifeKept
      DEF AddStep
  <2> QED
    BY <2>1, <2>2
<1> QED
  BY <1>2, <1>3 DEF Next, Operate

(* StaysArmed: nothing but the draining flag and another claim of the      *)
(* bucket takes the timer of a listed schedule for good, in any order of   *)
(* cancels, replacements, closes, crashes and restarts, with any store.    *)
THEOREM TimersAreKept == Spec => StaysArmed
<1>1. Init => \A r \in Replicas : Ready(r)
  BY DEF Init, Ready, Numbered, SameId, OnTime, Untouched, Emptied
<1>2. TypeOK /\ (\A r \in Replicas : Ready(r)) /\ [Next]_vars
        => (\A r \in Replicas : Ready(r))' /\ \A r \in Replicas : Kept(r)
  BY NextReady
<1>3. (\A r \in Replicas : Kept(r))
        <=> \A r \in Replicas : \A e \in entries'[r] :
              \/ Armed(r, e.ptr)'
              \/ IF \E x \in entries[r] : x.ptr = e.ptr
                 THEN ~Armed(r, e.ptr) \/ TurnedDown(r, e.ptr)
                 ELSE e.next <= now
  BY DEF Kept
<1> QED
  BY <1>1, <1>2, <1>3, TypeCorrect, PTL DEF Spec, StaysArmed
=============================================================================
