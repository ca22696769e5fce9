------------------------------ MODULE Scheduler ------------------------------
(***************************************************************************)
(* The schedules module (modules/schedules/scheduler.go): replicas of one  *)
(* Kit that share a store, each with its timers and fire goroutines.       *)
(*                                                                         *)
(* A critical section of Scheduler.mu is one step, and so is each thing a  *)
(* goroutine does after it unlocked: a store call, a publish, Timer.Reset. *)
(* An entry of the Go map is a pointer, `ptr`; a fire compares the entry   *)
(* it was started for with the one the map holds by then.                  *)
(*                                                                         *)
(* Time is counted in ticks.  A claim row holds the bucket of the moment   *)
(* of the claim (100 ms), a schedule row its next fire rounded down to the *)
(* second.                                                                 *)
(***************************************************************************)
EXTENDS Naturals, FiniteSets

CONSTANTS
  Replicas,    \* processes that share the store
  Late,        \* the replicas that start later than the others
  Ids,         \* schedule IDs, 1 .. some bound
  Kinds,       \* the calls of Schedule: a set of [oneTime, dur]
  Reuse,       \* whether callers name schedules (else IDs are fresh UUIDs)
  BucketTicks, \* ticks per claim bucket
  SecondTicks, \* ticks per stored second
  MayCancel,   \* whether schedules.cancel is called
  MayFail,     \* whether PublishRaw may return an error
  StoreFails,  \* the calls of the store that may return an error
  Prompt,      \* whether add inserts before the clock moves
  MaxNow,      \* bound: ticks
  MaxAdds      \* bound: entries ever created

ASSUME SchedulerAssumption ==
  /\ Late \subseteq Replicas /\ Ids \subseteq Nat
  /\ Kinds \subseteq [oneTime : BOOLEAN, dur : Nat]
  /\ BucketTicks \in Nat \ {0} /\ SecondTicks \in Nat \ {0}
  /\ {Reuse, MayCancel, MayFail, Prompt} \subseteq BOOLEAN
  /\ StoreFails \subseteq {"claim", "save", "delete", "load"}
  /\ MaxNow \in Nat /\ MaxAdds \in Nat

VARIABLES
  now,       \* the clock the replicas share
  rows,      \* table schedules
  claims,    \* table schedule_fires: pairs of an ID and a bucket
  state,     \* each replica: down, restoring, up, closing, closed
  draining,  \* each replica's draining flag
  entries,   \* Scheduler.schedules of each replica
  timers,    \* armed timers
  adding,    \* entries whose timer is armed and that wait for mu in add
  fires,     \* goroutines running fire
  writes,    \* store calls to be made by goroutines that left mu
  todo,      \* the rows Restore has loaded and not yet looked at
  settling,  \* the row Restore has published and not yet settled
  since,     \* the time.Now of Restore
  adds,      \* number of entries created
  published  \* history: the messages published

vars == <<now, rows, claims, state, draining, entries, timers, adding, fires,
          writes, todo, settling, since, adds, published>>

restore == <<todo, settling, since>>
store   == <<rows, claims>>

Row   == [id : Ids, oneTime : BOOLEAN, dur : Nat, next : Nat]
Entry == [ptr : Nat, id : Ids, oneTime : BOOLEAN, dur : Nat, next : Nat]

RowOf(e) == [id |-> e.id, oneTime |-> e.oneTime, dur |-> e.dur, next |-> e.next]
Bucket(t) == t \div BucketTicks

(* A map keyed by ID is the set of its values; a table likewise. *)
Drop(S, id) == {x \in S : x.id # id}
Put(S, x)   == Drop(S, x.id) \cup {x}

(* SaveSchedule: time.RFC3339 drops the fraction of a second. *)
SaveSchedule(row) == Put(rows, [row EXCEPT !.next = @ - (@ % SecondTicks)])
DeleteSchedule(id) == Drop(rows, id)

(* The callers ignore or report the error of a write, and go on.           *)
Save(row)  == rows' = SaveSchedule(row)  \/ ("save" \in StoreFails /\ rows' = rows)
Delete(id) == rows' = DeleteSchedule(id) \/ ("delete" \in StoreFails /\ rows' = rows)

Running(r)    == state[r] \in {"restoring", "up"}
Current(r, e) == \E x \in entries[r] : x.id = e.id /\ x.ptr = e.ptr
StopTimer(r, e) == {t \in timers[r] : t.entry.ptr # e.ptr}

-----------------------------------------------------------------------------
(* Schedule and add.                                                       *)

(* The first half of add: the entry exists and time.AfterFunc has armed    *)
(* its timer, which runs from here on.                                     *)
Arm(r, row, save) ==
  LET e == [ptr |-> adds + 1, id |-> row.id, oneTime |-> row.oneTime,
            dur |-> row.dur, next |-> row.next]
  IN /\ adds < MaxAdds
     /\ adds' = adds + 1
     /\ timers' = [timers EXCEPT ![r] = @ \cup
                     {[entry |-> e, at |-> IF row.next < now THEN now
                                                             ELSE row.next]}]
     /\ adding' = [adding EXCEPT ![r] = @ \cup {[entry |-> e, save |-> save]}]

(* Schedule on an open scheduler, for an expression that parses and a      *)
(* topic that is not a command.                                            *)
Schedule(r, id, k) ==
  /\ Running(r)
  /\ Reuse \/ id = adds + 1
  /\ Arm(r, [id |-> id, oneTime |-> k.oneTime, dur |-> k.dur,
             next |-> now + k.dur], TRUE)
  /\ UNCHANGED <<now, store, state, draining, entries, fires, writes, restore,
                 published>>

(* Mutant: schedules is appended to, as if it were a list. *)
AddAppend(r, a) ==
  /\ a \in adding[r]
  /\ adding' = [adding EXCEPT ![r] = @ \ {a}]
  /\ entries' = [entries EXCEPT ![r] = @ \cup {a.entry}]
  /\ writes' = [writes EXCEPT ![r] = @ \cup
                  {[op |-> "save", row |-> RowOf(a.entry)]}]
  /\ UNCHANGED <<now, store, state, draining, timers, fires, restore, adds,
                 published>>

(* The second half of add, under mu: a closed scheduler stops the timer    *)
(* and refuses; otherwise the map gets the entry, whatever it held before. *)
(* Schedule then saves the row; Restore does not.                          *)
AddInsert(r, a) ==
  /\ a \in adding[r]
  /\ adding' = [adding EXCEPT ![r] = @ \ {a}]
  /\ IF Running(r)
     THEN /\ entries' = [entries EXCEPT ![r] = Put(@, a.entry)]
          /\ writes' = IF a.save
               THEN [writes EXCEPT ![r] = @ \cup
                       {[op |-> "save", row |-> RowOf(a.entry)]}]
               ELSE writes
          /\ UNCHANGED timers
     ELSE /\ timers' = [timers EXCEPT ![r] = StopTimer(r, a.entry)]
          /\ UNCHANGED <<entries, writes>>
  /\ UNCHANGED <<now, store, state, draining, fires, restore, adds, published>>

(* Unschedule, under mu: stop the timer and forget the entry; the row is   *)
(* deleted after the unlock.                                               *)
Unschedule(r, e) ==
  /\ MayCancel
  /\ Running(r)
  /\ e \in entries[r]
  /\ timers' = [timers EXCEPT ![r] = StopTimer(r, e)]
  /\ entries' = [entries EXCEPT ![r] = Drop(@, e.id)]
  /\ writes' = [writes EXCEPT ![r] = @ \cup
                  {[op |-> "delete", row |-> RowOf(e)]}]
  /\ UNCHANGED <<now, store, state, draining, adding, fires, restore, adds,
                 published>>

(* A goroutine that left mu makes its store call.  *)
StoreWrite(r, w) ==
  /\ w \in writes[r]
  /\ writes' = [writes EXCEPT ![r] = @ \ {w}]
  /\ IF w.op = "save" THEN Save(w.row) ELSE Delete(w.row.id)
  /\ UNCHANGED <<now, claims, state, draining, entries, timers, adding, fires,
                 restore, adds, published>>

-----------------------------------------------------------------------------
(* fire.                                                                   *)

(* A timer is due and starts its goroutine. *)
TimerFires(r, t) ==
  /\ t \in timers[r]
  /\ t.at <= now
  /\ timers' = [timers EXCEPT ![r] = @ \ {t}]
  /\ fires' = [fires EXCEPT ![r] = @ \cup
                 {[entry |-> t.entry, at |-> "enter", bucket |-> 0,
                   held |-> FALSE]}]
  /\ UNCHANGED <<now, store, state, draining, entries, adding, writes, restore,
                 adds, published>>

FireOn(r, f, g) == fires' = [fires EXCEPT ![r] = (@ \ {f}) \cup {g}]
FireEnds(r, f)  == fires' = [fires EXCEPT ![r] = @ \ {f}]

(* Mutant: fire looks only at closed. *)
FireEnterAny(r, f) ==
  /\ f \in fires[r] /\ f.at = "enter"
  /\ IF Running(r) THEN FireOn(r, f, [f EXCEPT !.at = "claim"])
                   ELSE FireEnds(r, f)
  /\ UNCHANGED <<now, store, state, draining, entries, timers, adding, writes,
                 restore, adds, published>>

(* Under mu: a closed scheduler, or an entry that is not the one in the    *)
(* map, ends the fire; otherwise Close will wait for it.                   *)
FireEnter(r, f) ==
  /\ f \in fires[r] /\ f.at = "enter"
  /\ IF Running(r) /\ Current(r, f.entry)
     THEN FireOn(r, f, [f EXCEPT !.at = "claim"])
     ELSE FireEnds(r, f)
  /\ UNCHANGED <<now, store, state, draining, entries, timers, adding, writes,
                 restore, adds, published>>

(* The fire goes on to publish, as the holder of a claim row or without.   *)
GoPublish(r, f, held) ==
  FireOn(r, f, [f EXCEPT !.at = "publish", !.bucket = Bucket(now),
                         !.held = held])

(* Mutant: INSERT OR REPLACE, which always affects a row. *)
FireClaimReplace(r, f) ==
  /\ f \in fires[r] /\ f.at = "claim"
  /\ GoPublish(r, f, TRUE)
  /\ claims' = claims \cup {<<f.entry.id, Bucket(now)>>}
  /\ UNCHANGED <<now, rows, state, draining, entries, timers, adding, writes,
                 restore, adds, published>>

(* Mutant: the claim is for the next bucket, not for the one of now. *)
FireClaimNeighbour(r, f) ==
  /\ f \in fires[r] /\ f.at = "claim"
  /\ IF draining[r] \/ <<f.entry.id, Bucket(now)>> \in claims
     THEN FireEnds(r, f) /\ UNCHANGED claims
     ELSE /\ GoPublish(r, f, TRUE)
          /\ claims' = claims \cup {<<f.entry.id, Bucket(now) + 1>>}
  /\ UNCHANGED <<now, rows, state, draining, entries, timers, adding, writes,
                 restore, adds, published>>

(* ClaimScheduleFire inserts the bucket of now.  The replica that finds it *)
(* there has lost; one whose call returns an error publishes all the same, *)
(* whether or not the row was inserted.                                    *)
ClaimScheduleFire(r, f) ==
  LET row == <<f.entry.id, Bucket(now)>>
  IN \/ /\ row \in claims
        /\ FireEnds(r, f) /\ UNCHANGED claims
     \/ /\ row \notin claims
        /\ GoPublish(r, f, TRUE) /\ claims' = claims \cup {row}
     \/ /\ "claim" \in StoreFails
        /\ GoPublish(r, f, FALSE) /\ claims' \in {claims, claims \cup {row}}

(* A draining kit is silent; the others claim.                             *)
FireClaim(r, f) ==
  /\ f \in fires[r] /\ f.at = "claim"
  /\ IF draining[r] THEN FireEnds(r, f) /\ UNCHANGED claims
                    ELSE ClaimScheduleFire(r, f)
  /\ UNCHANGED <<now, rows, state, draining, entries, timers, adding, writes,
                 restore, adds, published>>

Publish(id, r, ptr, due, bucket, held) ==
  published' = published \cup
    {[id |-> id, by |-> r, ptr |-> ptr, due |-> due, bucket |-> bucket,
      held |-> held]}

(* PublishRaw; its result is ignored.  Close cancels its context.          *)
FirePublish(r, f) ==
  /\ f \in fires[r] /\ f.at = "publish"
  /\ FireOn(r, f, [f EXCEPT !.at = IF f.entry.oneTime THEN "forget"
                                                      ELSE "rearm",
                            !.bucket = 0, !.held = FALSE])
  /\ \/ Publish(f.entry.id, r, f.entry.ptr, f.entry.next, f.bucket, f.held)
     \/ (MayFail \/ ~Running(r)) /\ UNCHANGED published
  /\ UNCHANGED <<now, store, state, draining, entries, timers, adding, writes,
                 restore, adds>>

(* A one-time entry is deleted by its ID, under mu, then from the store.   *)
FireForget(r, f) ==
  /\ f \in fires[r] /\ f.at = "forget"
  /\ IF Running(r)
     THEN /\ entries' = [entries EXCEPT ![r] = Drop(@, f.entry.id)]
          /\ FireOn(r, f, [f EXCEPT !.at = "delete"])
     ELSE FireEnds(r, f) /\ UNCHANGED entries
  /\ UNCHANGED <<now, store, state, draining, timers, adding, writes, restore,
                 adds, published>>

(* Mutant: the fire that finds the scheduler closed does not return. *)
FireRearmOpen(r, f) ==
  /\ f \in fires[r] /\ f.at = "rearm"
  /\ Running(r)
  /\ IF Current(r, f.entry)
     THEN LET e == [f.entry EXCEPT !.next = now + f.entry.dur]
          IN /\ entries' = [entries EXCEPT ![r] = Put(@, e)]
             /\ FireOn(r, f, [f EXCEPT !.at = "reset", !.entry = e])
     ELSE FireEnds(r, f) /\ UNCHANGED entries
  /\ UNCHANGED <<now, store, state, draining, timers, adding, writes, restore,
                 adds, published>>

(* A recurring entry that is still current gets its next fire, under mu.   *)
FireRearm(r, f) ==
  /\ f \in fires[r] /\ f.at = "rearm"
  /\ IF Running(r) /\ Current(r, f.entry)
     THEN LET e == [f.entry EXCEPT !.next = now + f.entry.dur]
          IN /\ entries' = [entries EXCEPT ![r] = Put(@, e)]
             /\ FireOn(r, f, [f EXCEPT !.at = "reset", !.entry = e])
     ELSE FireEnds(r, f) /\ UNCHANGED entries
  /\ UNCHANGED <<now, store, state, draining, timers, adding, writes, restore,
                 adds, published>>

(* Mutant: the timer is not armed again, as if it were a ticker. *)
FireNoReset(r, f) ==
  /\ f \in fires[r] /\ f.at = "reset"
  /\ FireOn(r, f, [f EXCEPT !.at = "save"])
  /\ UNCHANGED <<now, store, state, draining, entries, timers, adding, writes,
                 restore, adds, published>>

(* Timer.Reset, after the unlock: the delay counts from here. *)
FireReset(r, f) ==
  /\ f \in fires[r] /\ f.at = "reset"
  /\ timers' = [timers EXCEPT ![r] = StopTimer(r, f.entry) \cup
                  {[entry |-> f.entry, at |-> now + f.entry.dur]}]
  /\ FireOn(r, f, [f EXCEPT !.at = "save"])
  /\ UNCHANGED <<now, store, state, draining, entries, adding, writes, restore,
                 adds, published>>

(* Last, the store call. *)
FireStore(r, f) ==
  /\ f \in fires[r] /\ f.at \in {"save", "delete"}
  /\ IF f.at = "save" THEN Save(RowOf(f.entry)) ELSE Delete(f.entry.id)
  /\ FireEnds(r, f)
  /\ UNCHANGED <<now, claims, state, draining, entries, timers, adding, writes,
                 restore, adds, published>>

-----------------------------------------------------------------------------
(* Restore, Close and crashes.                                             *)

(* A new process loads the rows; when it cannot, it goes on without. *)
Start(r) ==
  /\ state[r] = "down"
  /\ state' = [state EXCEPT ![r] = "restoring"]
  /\ \/ todo' = [todo EXCEPT ![r] = rows]
     \/ "load" \in StoreFails /\ UNCHANGED todo
  /\ since' = [since EXCEPT ![r] = now]
  /\ UNCHANGED <<now, store, draining, entries, timers, adding, fires, writes,
                 settling, adds, published>>

(* Restore handles one row after the other. *)
BetweenRows(r) ==
  /\ state[r] = "restoring"
  /\ settling[r] = {}
  /\ \A a \in adding[r] : a.save

(* Mutant: a one-time row that was missed is deleted without a publish. *)
CatchUpNotSent(r, row) ==
  /\ BetweenRows(r)
  /\ row \in todo[r] /\ row.next < since[r]
  /\ todo' = [todo EXCEPT ![r] = @ \ {row}]
  /\ settling' = [settling EXCEPT ![r] = {row}]
  /\ UNCHANGED <<now, store, state, draining, entries, timers, adding, fires,
                 writes, since, adds, published>>

(* A missed fire is published at once, without a claim.                    *)
RestoreCatchUp(r, row) ==
  /\ BetweenRows(r)
  /\ row \in todo[r] /\ row.next < since[r]
  /\ todo' = [todo EXCEPT ![r] = @ \ {row}]
  /\ settling' = [settling EXCEPT ![r] = {row}]
  /\ \/ Publish(row.id, r, 0, row.next, 0, FALSE)
     \/ MayFail /\ UNCHANGED published
  /\ UNCHANGED <<now, store, state, draining, entries, timers, adding, fires,
                 writes, since, adds>>

(* Mutant: every row that was missed is deleted. *)
SettleDeletes(r, row) ==
  /\ row \in settling[r]
  /\ settling' = [settling EXCEPT ![r] = {}]
  /\ rows' = DeleteSchedule(row.id)
  /\ IF row.oneTime
     THEN UNCHANGED <<timers, adding, adds>>
     ELSE Arm(r, [row EXCEPT !.next = since[r] + row.dur], FALSE)
  /\ UNCHANGED <<now, claims, state, draining, entries, fires, writes, todo,
                 since, published>>

(* Then a one-time row is deleted, a recurring one saved with a new next   *)
(* fire and added.                                                         *)
RestoreSettle(r, row) ==
  /\ row \in settling[r]
  /\ settling' = [settling EXCEPT ![r] = {}]
  /\ IF row.oneTime
     THEN /\ Delete(row.id)
          /\ UNCHANGED <<timers, adding, adds>>
     ELSE LET moved == [row EXCEPT !.next = since[r] + row.dur]
          IN Save(moved) /\ Arm(r, moved, FALSE)
  /\ UNCHANGED <<now, claims, state, draining, entries, fires, writes, todo,
                 since, published>>

RestoreAdd(r, row) ==
  /\ BetweenRows(r)
  /\ row \in todo[r] /\ row.next >= since[r]
  /\ todo' = [todo EXCEPT ![r] = @ \ {row}]
  /\ Arm(r, row, FALSE)
  /\ UNCHANGED <<now, store, state, draining, entries, fires, writes, settling,
                 since, published>>

RestoreEnds(r) ==
  /\ BetweenRows(r)
  /\ todo[r] = {}
  /\ state' = [state EXCEPT ![r] = "up"]
  /\ UNCHANGED <<now, store, draining, entries, timers, adding, fires, writes,
                 restore, adds, published>>

(* CloseContext, under mu: closed is set, the timers of the map stopped    *)
(* and the map emptied.                                                    *)
CloseBegin(r) ==
  /\ state[r] = "up"
  /\ state' = [state EXCEPT ![r] = "closing"]
  /\ timers' = [timers EXCEPT ![r] =
                  {t \in @ : \A e \in entries[r] : e.ptr # t.entry.ptr}]
  /\ entries' = [entries EXCEPT ![r] = {}]
  /\ UNCHANGED <<now, store, draining, adding, fires, writes, restore, adds,
                 published>>

(* Mutant: Close returns without waiting for fireWG. *)
CloseReturnEarly(r) ==
  /\ state[r] = "closing"
  /\ state' = [state EXCEPT ![r] = "closed"]
  /\ UNCHANGED <<now, store, draining, entries, timers, adding, fires, writes,
                 restore, adds, published>>

(* fireWG counts the fires that passed their first critical section.       *)
CloseReturn(r) ==
  /\ state[r] = "closing"
  /\ \A f \in fires[r] : f.at = "enter"
  /\ state' = [state EXCEPT ![r] = "closed"]
  /\ UNCHANGED <<now, store, draining, entries, timers, adding, fires, writes,
                 restore, adds, published>>

(* The process dies, after a Close or without one: only the store stays.   *)
Crash(r) ==
  /\ state[r] # "down"
  /\ state' = [state EXCEPT ![r] = "down"]
  /\ draining' = [draining EXCEPT ![r] = FALSE]
  /\ entries' = [entries EXCEPT ![r] = {}]
  /\ timers' = [timers EXCEPT ![r] = {}]
  /\ adding' = [adding EXCEPT ![r] = {}]
  /\ fires' = [fires EXCEPT ![r] = {}]
  /\ writes' = [writes EXCEPT ![r] = {}]
  /\ todo' = [todo EXCEPT ![r] = {}]
  /\ settling' = [settling EXCEPT ![r] = {}]
  /\ UNCHANGED <<now, store, since, adds, published>>

(* kit.set-draining turns draining on, and off again.                      *)
SetDraining(r) ==
  /\ Running(r)
  /\ draining' = [draining EXCEPT ![r] = ~@]
  /\ UNCHANGED <<now, store, state, entries, timers, adding, fires, writes,
                 restore, adds, published>>

Tick ==
  /\ now < MaxNow
  /\ Prompt => \A r \in Replicas : adding[r] = {}
  /\ now' = now + 1
  /\ UNCHANGED <<store, state, draining, entries, timers, adding, fires,
                 writes, restore, adds, published>>

-----------------------------------------------------------------------------
Init ==
  /\ now = 0
  /\ rows = {} /\ claims = {} /\ published = {}
  /\ state = [r \in Replicas |-> IF r \in Late THEN "down" ELSE "up"]
  /\ draining = [r \in Replicas |-> FALSE]
  /\ entries = [r \in Replicas |-> {}]
  /\ timers = [r \in Replicas |-> {}]
  /\ adding = [r \in Replicas |-> {}]
  /\ fires = [r \in Replicas |-> {}]
  /\ writes = [r \in Replicas |-> {}]
  /\ todo = [r \in Replicas |-> {}]
  /\ settling = [r \in Replicas |-> {}]
  /\ since = [r \in Replicas |-> 0]
  /\ adds = 0

AddStep(r) ==
  \/ \E a \in adding[r] : AddInsert(r, a)
  \/ \E w \in writes[r] : StoreWrite(r, w)

FireStep(r) ==
  \/ \E t \in timers[r] : TimerFires(r, t)
  \/ \E f \in fires[r] :
       \/ FireEnter(r, f) \/ FireClaim(r, f) \/ FirePublish(r, f)
       \/ FireForget(r, f) \/ FireRearm(r, f) \/ FireReset(r, f)
       \/ FireStore(r, f)

RestoreStep(r) ==
  \/ \E row \in todo[r] : RestoreCatchUp(r, row) \/ RestoreAdd(r, row)
  \/ \E row \in settling[r] : RestoreSettle(r, row)
  \/ RestoreEnds(r)

(* What happens while every replica that was started stays up.             *)
Operate ==
  \/ Tick
  \/ \E r \in Replicas :
       \/ \E id \in Ids, k \in Kinds : Schedule(r, id, k)
       \/ \E e \in entries[r] : Unschedule(r, e)
       \/ AddStep(r) \/ FireStep(r) \/ RestoreStep(r) \/ Start(r)

Next ==
  \/ Operate
  \/ \E r \in Replicas :
       CloseBegin(r) \/ CloseReturn(r) \/ Crash(r) \/ SetDraining(r)

Spec == Init /\ [][Next]_vars

(* The runtime runs timers and goroutines, and the clock moves.            *)
Fairness ==
  /\ WF_vars(Tick)
  /\ \A r \in Replicas :
       /\ WF_vars(AddStep(r)) /\ WF_vars(FireStep(r))
       /\ WF_vars(RestoreStep(r)) /\ WF_vars(CloseReturn(r))

FairSpec == Spec /\ Fairness

-----------------------------------------------------------------------------
FireAt == {"enter", "claim", "publish", "forget", "rearm", "reset", "save",
           "delete"}

(* The types; the map and the table hold one value per ID.                 *)
TypeOK ==
  /\ now \in Nat /\ adds \in Nat
  /\ rows \subseteq Row
  /\ \A x, y \in rows : x.id = y.id => x = y
  /\ claims \subseteq Ids \X Nat
  /\ state \in [Replicas -> {"down", "restoring", "up", "closing", "closed"}]
  /\ draining \in [Replicas -> BOOLEAN]
  /\ entries \in [Replicas -> SUBSET Entry]
  /\ \A r \in Replicas : \A x, y \in entries[r] : x.id = y.id => x = y
  /\ timers \in [Replicas -> SUBSET [entry : Entry, at : Nat]]
  /\ adding \in [Replicas -> SUBSET [entry : Entry, save : BOOLEAN]]
  /\ fires \in [Replicas -> SUBSET [entry : Entry, at : FireAt, bucket : Nat,
                                    held : BOOLEAN]]
  /\ writes \in [Replicas -> SUBSET [op : {"save", "delete"}, row : Row]]
  /\ todo \in [Replicas -> SUBSET Row]
  /\ settling \in [Replicas -> SUBSET Row]
  /\ since \in [Replicas -> Nat]
  /\ published \subseteq
       [id : Ids, by : Replicas, ptr : Nat, due : Nat, bucket : Nat,
        held : BOOLEAN]

(* "Only one claimant per fire" (scheduler.go:284), whatever the replicas' *)
(* clocks and timers do: of two publishes of a schedule in one bucket at   *)
(* most one holds the claim.  The other, if there is one, is a fire whose  *)
(* claim returned an error: fire returns early on err == nil && !claimed   *)
(* only (287), so with a failing store a bucket may have several publishes *)
(* and the model lets it.  A catch-up of Restore does not claim.           *)
OneFirePerClaim ==
  \A p, q \in published :
    p.held /\ q.held /\ p.id = q.id /\ p.bucket = q.bucket => p = q

(* No schedule publishes after CloseContext has returned nil.              *)
NoPublishAfterClose ==
  [][\A p \in published' \ published : state[p.by] \notin {"closed", "down"}]_vars

(* An entry nobody holds: not in a map, not about to be, and no fire of it *)
(* has passed its first critical section.                                  *)
Silenced(ptr) ==
  \A r \in Replicas :
    /\ \A e \in entries[r] : e.ptr # ptr
    /\ \A a \in adding[r] : a.entry.ptr # ptr
    /\ \A f \in fires[r] : f.entry.ptr = ptr => f.at \notin {"claim", "publish"}

(* Once cancelled or replaced, and its running fire over, an entry never   *)
(* publishes again, although its timer may still be armed: a timer that    *)
(* was not stopped or was reset after Unschedule does no harm.             *)
SilencedStaysSilent ==
  [][\A ptr \in 1 .. adds : Silenced(ptr) => Silenced(ptr)']_vars

(* An entry has a timer, or a fire that will arm it or forget it.          *)
Armed(r, ptr) ==
  \/ \E t \in timers[r] : t.entry.ptr = ptr
  \/ \E f \in fires[r] : f.entry.ptr = ptr /\ f.at \notin {"save", "delete"}

(* What List returns fires.                                                *)
ListedIsArmed ==
  \A r \in Replicas : state[r] = "up" =>
    \A e \in entries[r] : Armed(r, e.ptr)

(* A fire that is about to find its kit draining or its bucket claimed.    *)
TurnedDown(r, ptr) ==
  \E f \in fires[r] :
    /\ f.entry.ptr = ptr /\ f.at = "claim"
    /\ draining[r] \/ <<f.entry.id, Bucket(now)>> \in claims

(* Nothing else leaves a listed schedule without a timer, in any order of  *)
(* cancels, replacements, closes, crashes and the steps of fires: an entry *)
(* of the map has lost its timer earlier, or loses it here to the draining *)
(* flag or to another claim of its bucket, or enters the map after it was  *)
(* due, its fire having found nothing.                                     *)
StaysArmed ==
  [][\A r \in Replicas : \A e \in entries'[r] :
       \/ Armed(r, e.ptr)'
       \/ IF \E x \in entries[r] : x.ptr = e.ptr
          THEN ~Armed(r, e.ptr) \/ TurnedDown(r, e.ptr)
          ELSE e.next <= now]_vars

(* When every goroutine of a single replica has finished, the table and    *)
(* the map hold the same periodic schedules, also after crashes and        *)
(* restarts, as long as no save or load of the store fails: their errors   *)
(* are reported, and what was lost is not done again.  (A one-time fire    *)
(* may delete its row before Schedule saves it, and the row then stays     *)
(* behind.)                                                                *)
StoreMatchesMemory ==
  \A r \in Replicas :
    state[r] = "up" /\ adding[r] = {} /\ writes[r] = {} /\ fires[r] = {}
      => {row.id : row \in {x \in rows : ~x.oneTime}}
           = {e.id : e \in {x \in entries[r] : ~x.oneTime}}

(* A one-time schedule that nobody cancels leaves the table only when its  *)
(* message was published: a crash in between repeats it, never loses it.   *)
OneTimeAtLeastOnce ==
  [][\A row \in rows :
       row.oneTime /\ ~(\E x \in rows' : x.id = row.id)
         => \E p \in published : p.id = row.id]_vars

-----------------------------------------------------------------------------
(* Liveness, under FairSpec.                                               *)

(* Every fire a single replica has a timer for is published, unless the    *)
(* replica is closed or crashes first.                                     *)
EveryDueFires ==
  \A ptr \in 1 .. MaxAdds, due \in 1 .. MaxNow, r \in Replicas :
    (\E t \in timers[r] :
       t.entry.ptr = ptr /\ t.entry.next = due /\ t.at <= MaxNow)
      ~> \/ \E p \in published : p.ptr = ptr /\ p.due = due
         \/ state[r] # "up"

(* Close waits for fires that end.                                         *)
CloseReturns ==
  \A r \in Replicas : (state[r] = "closing") ~> (state[r] \in {"closed", "down"})
=============================================================================
