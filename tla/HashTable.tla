----------------------------- MODULE HashTable ------------------------------
(***************************************************************************)
(* The hash table of AssemblyScript's Map (Set is the same code without    *)
(* values): entries in insertion order in one buffer, chained from buckets *)
(* by their next field, whose lowest bit marks a deleted entry.  A full    *)
(* buffer, or a deletion that leaves it mostly empty, makes a new one.     *)
(***************************************************************************)
EXTENDS Naturals, Sequences, FiniteSets

CONSTANTS Keys, Values,       \* positive numbers
          Hash,               \* HASH of each key
          InitialCapacity     \* INITIAL_CAPACITY, 4 in the code

VARIABLE t      \* the fields of the Map

Nil == 0

Empty ==
  [buckets |-> [b \in 0 .. InitialCapacity - 1 |-> Nil],
   entries |-> <<>>, capacity |-> InitialCapacity, count |-> 0]

Init == t = Empty

NumBuckets(s) == Cardinality(DOMAIN s.buckets)
Bucket(s, k) == Hash[k] % NumBuckets(s)

(* The entries chained from e on, deleted ones among them.                 *)
Chain(s, e) ==
  LET from[n \in 0 .. Len(s.entries)] ==
        IF n = 0 THEN {e}
        ELSE LET near == from[n - 1]
             IN  near \cup {s.entries[i].next : i \in near \ {Nil}}
  IN  from[Len(s.entries)] \ {Nil}

Find(s, k) ==
  {i \in Chain(s, s.buckets[Bucket(s, k)]) :
     ~s.entries[i].deleted /\ s.entries[i].key = k}

(* A new entry goes to the end of the buffer and the front of its chain.   *)
Link(s, k, v) ==
  [s EXCEPT !.entries = Append(@, [key |-> k, value |-> v, deleted |-> FALSE,
                                   next |-> s.buckets[Bucket(s, k)]]),
            !.buckets[Bucket(s, k)] = Len(s.entries) + 1,
            !.count = @ + 1]

Fresh(buckets) ==
  [buckets |-> [b \in 0 .. buckets - 1 |-> Nil], entries |-> <<>>,
   capacity |-> (buckets * 8) \div 3, count |-> 0]

RehashKeepsDeleted(s, buckets) ==
  LET copied[n \in 0 .. Len(s.entries)] ==
        IF n = 0 THEN Fresh(buckets)
        ELSE Link(copied[n - 1], s.entries[n].key, s.entries[n].value)
  IN  [copied[Len(s.entries)] EXCEPT !.count = s.count]

(* What is not deleted is copied, in order.                                *)
Rehash(s, buckets) ==
  LET copied[n \in 0 .. Len(s.entries)] ==
        IF n = 0 THEN Fresh(buckets)
        ELSE IF s.entries[n].deleted THEN copied[n - 1]
        ELSE Link(copied[n - 1], s.entries[n].key, s.entries[n].value)
  IN  [copied[Len(s.entries)] EXCEPT !.count = s.count]

(* At least a quarter of the buffer is taken by deleted entries.           *)
MostlyEmpty(s) == s.count < (s.capacity * 3) \div 4

Roomy(s) ==
  IF Len(s.entries) # s.capacity THEN s
  ELSE Rehash(s, IF MostlyEmpty(s) THEN NumBuckets(s) ELSE 2 * NumBuckets(s))

Set(k, v) ==
  t' = IF Find(t, k) = {} THEN Link(Roomy(t), k, v)
       ELSE [t EXCEPT !.entries = [i \in DOMAIN @ |->
               IF i \in Find(t, k) THEN [@[i] EXCEPT !.value = v] ELSE @[i]]]

Delete(k) ==
  LET marked == [t EXCEPT !.count = @ - 1,
                          !.entries = [i \in DOMAIN @ |->
                            IF i \in Find(t, k) THEN [@[i] EXCEPT !.deleted = TRUE]
                            ELSE @[i]]]
      half == NumBuckets(t) \div 2
  IN  /\ Find(t, k) # {}
      /\ t' = IF half >= InitialCapacity /\ half >= marked.count /\ MostlyEmpty(marked)
              THEN Rehash(marked, half) ELSE marked

Clear == t' = Empty

Next == \E k \in Keys : (\E v \in Values : Set(k, v)) \/ Delete(k) \/ Clear

Spec == Init /\ [][Next]_t
-----------------------------------------------------------------------------
(* What keys() and values() give of a buffer.                              *)
Pairs(entries) ==
  LET upto[n \in 0 .. Len(entries)] ==
        IF n = 0 THEN <<>>
        ELSE IF entries[n].deleted THEN upto[n - 1]
        ELSE Append(upto[n - 1], [key |-> entries[n].key, value |-> entries[n].value])
  IN  upto[Len(entries)]

Present == Pairs(t.entries)

OM == INSTANCE OrderedMap WITH map <- Present

(* Through collisions, deletions, growth and shrinking the table is a map  *)
(* in insertion order: every key is found, once, and keeps its value and   *)
(* its place.                                                              *)
IsOrderedMap == OM!Spec

(* No entry is written behind the end of its buffer, and the count that    *)
(* decides about rehashing is that of the live entries.                    *)
EntriesFit ==
  /\ Len(t.entries) <= t.capacity
  /\ t.count = Len(Present)
=============================================================================
