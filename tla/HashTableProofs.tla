--------------------------- MODULE HashTableProofs ---------------------------
(***************************************************************************)
(* For any keys, values and hashes, and any initial capacity: the hash     *)
(* table implements OrderedMap, within its buffer.                         *)
(***************************************************************************)
EXTENDS HashTable, SequencesExt, FiniteSetTheorems, WellFoundedInduction, TLAPS

(* HASH gives a number for each key; the first buffer has room.            *)
Given == Hash \in [Keys -> Nat] /\ InitialCapacity \in Nat \ {0}

(* A set of naturals with 0 and the successor of each of its members is    *)
(* Nat.                                                                    *)
LEMMA NatSetInduction ==
  ASSUME NEW U \in SUBSET Nat, 0 \in U, \A n \in U : n + 1 \in U
  PROVE  U = Nat
<1> SUFFICES ASSUME Nat \ U # {} PROVE FALSE
  OBVIOUS
<1> DEFINE Less == OpToRel(<, Nat)
<1>1. IsWellFoundedOn(Less, Nat)
  BY NatLessThanWellFounded
<1> HIDE DEF Less
<1>2. PICK n \in Nat \ U : \A m \in Nat \ U : ~(<<m, n>> \in Less)
  BY <1>1, WFMin
<1>3. \A m \in Nat \ U : ~(m < n)
  BY <1>2 DEF Less, OpToRel
<1>4. n # 0 /\ n - 1 \in Nat /\ n - 1 < n
  BY <1>2
<1>5. n - 1 \in U
  BY <1>3, <1>4
<1> QED BY <1>2, <1>4, <1>5

(* f is the recursive function over the first naturals that starts with    *)
(* base and goes on by step; its values are in H.                          *)
IsRecursive(f, N, H, base, step) ==
  /\ f = [n \in 0 .. N |-> f[n]]
  /\ f[0] = base
  /\ \A n \in 1 .. N : f[n] = step[<<n, f[n - 1]>>]
  /\ \A n \in 0 .. N : f[n] \in H[n]

(* There is such a function, when step stays in H.                         *)
LEMMA Recursion ==
  ASSUME NEW N \in Nat, NEW H, NEW base, base \in H[0],
         NEW step, \A n \in 1 .. N : \A h \in H[n - 1] : step[<<n, h>>] \in H[n]
  PROVE  \E f : IsRecursive(f, N, H, base, step)
<1> DEFINE Upto(f, m) == IsRecursive(f, m, H, base, step)
           Done == {m \in Nat : m <= N => \E f : Upto(f, m)}
<1> USE DEF IsRecursive
<1>1. 0 \in Done
  <2> DEFINE f == [n \in 0 .. 0 |-> base]
  <2>1. 0 .. 0 = {0} /\ 1 .. 0 = {}
    OBVIOUS
  <2>2. Upto(f, 0)
    BY <2>1
  <2> QED BY <2>2
<1>2. ASSUME NEW m \in Done, m + 1 <= N PROVE \E f : Upto(f, m + 1)
  <2>1. m \in Nat /\ m <= N
    BY <1>2
  <2>2. PICK f : Upto(f, m)
    BY <1>2, <2>1
  <2> DEFINE g == [n \in 0 .. (m + 1) |-> IF n = m + 1 THEN step[<<m + 1, f[m]>>] ELSE f[n]]
  <2>3. \A n \in 0 .. m : g[n] = f[n]
    BY <2>1
  <2>4. g[m + 1] = step[<<m + 1, f[m]>>]
    BY <2>1
  <2>5. g = [n \in 0 .. (m + 1) |-> g[n]]
    OBVIOUS
  <2> HIDE DEF g
  <2>6. 0 \in 0 .. m /\ m \in 0 .. m /\ m + 1 \in 1 .. N /\ (m + 1) - 1 = m
    BY <1>2, <2>1
  <2>7. f[m] \in H[m]
    BY <2>2, <2>6
  <2>8. g[m + 1] \in H[m + 1]
    BY <2>4, <2>6, <2>7
  <2>9. \A n \in 1 .. m : g[n] = step[<<n, g[n - 1]>>]
    <3> SUFFICES ASSUME NEW n \in 1 .. m PROVE g[n] = step[<<n, g[n - 1]>>]
      OBVIOUS
    <3>1. n \in 0 .. m /\ n - 1 \in 0 .. m
      BY <2>1
    <3>2. g[n] = f[n] /\ g[n - 1] = f[n - 1]
      BY <3>1, <2>3
    <3> QED BY <3>2, <2>2
  <2>10. g[0] = base
    BY <2>2, <2>3, <2>6
  <2>11. \A n \in 0 .. (m + 1) : n \in 0 .. m \/ n = m + 1
    BY <2>1
  <2>12. \A n \in 1 .. (m + 1) : n \in 1 .. m \/ n = m + 1
    BY <2>1
  <2>13. \A n \in 0 .. (m + 1) : g[n] \in H[n]
    BY <2>2, <2>3, <2>8, <2>11
  <2>14. g[m + 1] = step[<<m + 1, g[m]>>]
    BY <2>3, <2>4, <2>6
  <2>15. \A n \in 1 .. (m + 1) : g[n] = step[<<n, g[n - 1]>>]
    BY <2>6, <2>9, <2>12, <2>14
  <2>16. Upto(g, m + 1)
    BY <2>5, <2>10, <2>13, <2>15
  <2> QED BY <2>16
<1>3. \A m \in Done : m + 1 \in Done
  <2> HIDE DEF Upto
  <2> SUFFICES ASSUME NEW m \in Done PROVE m + 1 \in Done
    OBVIOUS
  <2>1. m \in Nat
    OBVIOUS
  <2> QED BY <1>2, <2>1
<1> HIDE DEF Upto
<1>4. Done \subseteq Nat
  OBVIOUS
<1> HIDE DEF Done
<1>5. Done = Nat
  BY <1>1, <1>3, <1>4, NatSetInduction
<1>6. \E f : Upto(f, N)
  BY <1>5 DEF Done
<1> QED BY <1>6 DEF Upto
-----------------------------------------------------------------------------
(* An entry of a buffer, and what keys() and values() give of it.          *)
Entry == [key : Keys, value : Values, deleted : BOOLEAN, next : Nat]
Pair == [key : Keys, value : Values]
PairOf(e) == [key |-> e.key, value |-> e.value]

(* f gives the pairs of the first entries.                                 *)
Listing(f, es) ==
  /\ f[0] = <<>>
  /\ \A n \in 1 .. Len(es) :
       f[n] = IF es[n].deleted THEN f[n - 1] ELSE Append(f[n - 1], PairOf(es[n]))
  /\ \A n \in 0 .. Len(es) : f[n] \in Seq(Pair)

(* Pairs is such a listing.                                                *)
LEMMA Listed ==
  ASSUME NEW es \in Seq(Entry)
  PROVE  \E f : Listing(f, es) /\ Pairs(es) = f[Len(es)]
<1> DEFINE N == Len(es)
           H == [n \in 0 .. N |-> Seq(Pair)]
           step == [p \in (1 .. N) \X Seq(Pair) |->
                      IF es[p[1]].deleted THEN p[2] ELSE Append(p[2], PairOf(es[p[1]]))]
           Folds(f) == f = [n \in 0 .. N |->
                              IF n = 0 THEN <<>>
                              ELSE IF es[n].deleted THEN f[n - 1]
                              ELSE Append(f[n - 1], [key |-> es[n].key, value |-> es[n].value])]
<1>1. N \in Nat /\ \A n \in 1 .. N : es[n] \in Entry /\ n \in 0 .. N /\ n - 1 \in 0 .. N
  OBVIOUS
<1>2. \A n \in 1 .. N : PairOf(es[n]) \in Pair
  BY <1>1 DEF PairOf, Entry, Pair
<1>3. <<>> \in H[0]
  BY <1>1
<1>4. \A n \in 1 .. N : \A h \in Seq(Pair) :
        /\ step[<<n, h>>] = IF es[n].deleted THEN h ELSE Append(h, PairOf(es[n]))
        /\ step[<<n, h>>] \in Seq(Pair)
  BY <1>2
<1>5. \A n \in 0 .. N : H[n] = Seq(Pair)
  OBVIOUS
<1> HIDE DEF N, H, step
<1>6. \A n \in 1 .. N : \A h \in H[n - 1] : step[<<n, h>>] \in H[n]
  BY <1>1, <1>4, <1>5
<1> DEFINE none == <<>>
<1>20. none \in H[0]
  BY <1>3
<1> HIDE DEF none
<1>7. PICK f : /\ f = [n \in 0 .. N |-> f[n]]
               /\ f[0] = none
               /\ \A n \in 1 .. N : f[n] = step[<<n, f[n - 1]>>]
               /\ \A n \in 0 .. N : f[n] \in H[n]
  <2>1. \E f : IsRecursive(f, N, H, none, step)
    BY <1>1, <1>20, <1>6, Recursion
  <2> QED BY <2>1 DEF IsRecursive
<1>8. \A n \in 0 .. N : f[n] \in Seq(Pair)
  BY <1>5, <1>7
<1>9. \A n \in 1 .. N :
        f[n] = IF es[n].deleted THEN f[n - 1] ELSE Append(f[n - 1], PairOf(es[n]))
  BY <1>1, <1>4, <1>7, <1>8
<1>10. \A n \in 0 .. N : n = 0 \/ n \in 1 .. N
  BY <1>1
<1>11. f = [n \in 0 .. N |->
              IF n = 0 THEN <<>>
              ELSE IF es[n].deleted THEN f[n - 1]
              ELSE Append(f[n - 1], [key |-> es[n].key, value |-> es[n].value])]
  BY <1>7, <1>9, <1>10 DEF PairOf, none
<1>12. Folds(f)
  BY <1>11
<1> DEFINE u == CHOOSE f_1 : Folds(f_1)
<1>13. Folds(u)
  BY <1>12
<1>14. Pairs(es) = u[N]
  BY DEF Pairs, N
<1> HIDE DEF u
<1>21. N \in 0 .. N /\ 0 \in 0 .. N
  BY <1>1
<1>22. u[0] = <<>>
  BY <1>13, <1>21
<1>15. ASSUME NEW n \in 1 .. N
       PROVE  u[n] = IF es[n].deleted THEN u[n - 1] ELSE Append(u[n - 1], PairOf(es[n]))
  <2>1. n \in 0 .. N /\ n # 0
    BY <1>1
  <2>2. u[n] = IF n = 0 THEN <<>>
               ELSE IF es[n].deleted THEN u[n - 1]
               ELSE Append(u[n - 1], [key |-> es[n].key, value |-> es[n].value])
    BY <1>13, <2>1
  <2> QED BY <2>1, <2>2 DEF PairOf
<1> HIDE DEF Folds
<1> DEFINE Done == {n \in Nat : n <= N => u[n] \in Seq(Pair)}
<1>16. 0 \in Done
  <2>1. u[0] \in Seq(Pair)
    BY <1>22
  <2> QED BY <2>1
<1>17. \A n \in Done : n + 1 \in Done
  <2> SUFFICES ASSUME NEW n \in Done, n + 1 <= N PROVE u[n + 1] \in Seq(Pair)
    OBVIOUS
  <2>1. n + 1 \in 1 .. N /\ n <= N /\ (n + 1) - 1 = n
    BY <1>1
  <2>2. u[n] \in Seq(Pair)
    BY <2>1
  <2> HIDE DEF Done
  <2>3. u[n + 1] = IF es[n + 1].deleted THEN u[n] ELSE Append(u[n], PairOf(es[n + 1]))
    BY <1>15, <2>1
  <2>4. PairOf(es[n + 1]) \in Pair
    BY <1>2, <2>1
  <2>5. Append(u[n], PairOf(es[n + 1])) \in Seq(Pair)
    BY <2>2, <2>4
  <2> QED BY <2>2, <2>3, <2>5
<1>18. Done = Nat
  <2>1. Done \subseteq Nat
    OBVIOUS
  <2> HIDE DEF Done
  <2> QED BY <1>16, <1>17, <2>1, NatSetInduction
<1>19. Listing(u, es)
  BY <1>1, <1>15, <1>18, <1>22 DEF Listing, N
<1> QED BY <1>14, <1>19 DEF N
-----------------------------------------------------------------------------
(* What two buffers have alike is listed alike.                            *)
LEMMA ListedAlike ==
  ASSUME NEW es \in Seq(Entry), NEW other \in Seq(Entry),
         NEW f, Listing(f, es), NEW g, Listing(g, other),
         NEW m \in Nat, m <= Len(es), m <= Len(other),
         \A n \in 1 .. m : other[n].deleted = es[n].deleted /\ PairOf(other[n]) = PairOf(es[n])
  PROVE  \A n \in 0 .. m : g[n] = f[n]
<1> DEFINE Done == {n \in Nat : n <= m => g[n] = f[n]}
<1>1. 0 \in Done
  BY DEF Listing
<1>2. \A n \in Done : n + 1 \in Done
  <2> SUFFICES ASSUME NEW n \in Done, n + 1 <= m PROVE g[n + 1] = f[n + 1]
    OBVIOUS
  <2>1. n + 1 \in 1 .. m /\ n + 1 \in 1 .. Len(es) /\ n + 1 \in 1 .. Len(other) /\ (n + 1) - 1 = n
    OBVIOUS
  <2>2. g[n] = f[n]
    OBVIOUS
  <2> HIDE DEF Done
  <2>3. /\ f[n + 1] = IF es[n + 1].deleted THEN f[n] ELSE Append(f[n], PairOf(es[n + 1]))
        /\ g[n + 1] = IF other[n + 1].deleted THEN g[n] ELSE Append(g[n], PairOf(other[n + 1]))
    BY <2>1 DEF Listing
  <2> QED BY <2>1, <2>2, <2>3
<1>3. Done = Nat
  <2>1. Done \subseteq Nat
    OBVIOUS
  <2> HIDE DEF Done
  <2> QED BY <1>1, <1>2, <2>1, NatSetInduction
<1> QED BY <1>3

(* A new entry is listed last.                                             *)
LEMMA PairsAppended ==
  ASSUME NEW es \in Seq(Entry), NEW e \in Entry, ~e.deleted
  PROVE  Pairs(Append(es, e)) = Append(Pairs(es), PairOf(e))
<1> DEFINE other == Append(es, e)
<1>1. /\ other \in Seq(Entry) /\ Len(es) \in Nat /\ Len(other) = Len(es) + 1
      /\ \A n \in 1 .. Len(es) : other[n] = es[n]
      /\ other[Len(es) + 1] = e
  OBVIOUS
<1> HIDE DEF other
<1>2. PICK f : Listing(f, es) /\ Pairs(es) = f[Len(es)]
  BY Listed
<1>3. PICK g : Listing(g, other) /\ Pairs(other) = g[Len(other)]
  BY <1>1, Listed
<1>4. g[Len(es)] = f[Len(es)]
  <2>2. \A n \in 1 .. Len(es) : other[n].deleted = es[n].deleted /\ PairOf(other[n]) = PairOf(es[n])
    BY <1>1
  <2>3. Len(es) <= Len(es) /\ Len(es) <= Len(other)
    BY <1>1
  <2>1. \A n \in 0 .. Len(es) : g[n] = f[n]
    BY <1>1, <1>2, <1>3, <2>2, <2>3, ListedAlike
  <2> QED BY <1>1, <2>1
<1>5. Len(other) \in 1 .. Len(other) /\ Len(other) - 1 = Len(es)
  BY <1>1
<1>6. g[Len(other)] = IF other[Len(other)].deleted THEN g[Len(other) - 1]
                      ELSE Append(g[Len(other) - 1], PairOf(other[Len(other)]))
  BY <1>3, <1>5 DEF Listing
<1>7. other[Len(other)] = e
  BY <1>1
<1>8. g[Len(other)] = Append(g[Len(es)], PairOf(e))
  BY <1>5, <1>6, <1>7
<1> QED BY <1>2, <1>3, <1>4, <1>8 DEF other

(* What is listed are the live entries.                                    *)
LEMMA ListedAreLive ==
  ASSUME NEW es \in Seq(Entry), NEW f, Listing(f, es)
  PROVE  \A n \in 0 .. Len(es) :
           /\ \A j \in 1 .. Len(f[n]) : \E i \in 1 .. n : ~es[i].deleted /\ f[n][j] = PairOf(es[i])
           /\ \A i \in 1 .. n : ~es[i].deleted => \E j \in 1 .. Len(f[n]) : f[n][j] = PairOf(es[i])
<1> DEFINE From(n) == \A j \in 1 .. Len(f[n]) : \E i \in 1 .. n :
                        ~es[i].deleted /\ f[n][j] = PairOf(es[i])
           To(n) == \A i \in 1 .. n : ~es[i].deleted =>
                      \E j \in 1 .. Len(f[n]) : f[n][j] = PairOf(es[i])
           Done == {n \in Nat : n <= Len(es) => From(n) /\ To(n)}
<1>1. 0 \in Done
  <2>1. From(0) /\ To(0)
    BY DEF Listing
  <2> QED BY <2>1
<1>2. \A n \in Done : n + 1 \in Done
  <2> SUFFICES ASSUME NEW n \in Done, n + 1 <= Len(es) PROVE From(n + 1) /\ To(n + 1)
    <3> HIDE DEF From, To
    <3> QED OBVIOUS
  <2>1. /\ n \in Nat /\ n + 1 \in 1 .. Len(es) /\ (n + 1) - 1 = n /\ n \in 0 .. Len(es)
        /\ n + 1 \in 1 .. (n + 1)
        /\ \A i \in 1 .. n : i \in 1 .. (n + 1)
        /\ \A i \in 1 .. (n + 1) : i \in 1 .. n \/ i = n + 1
    OBVIOUS
  <2>2. From(n) /\ To(n)
    BY <2>1
  <2> HIDE DEF Done
  <2>3. f[n] \in Seq(Pair) /\ Len(f[n]) \in Nat
    BY <2>1 DEF Listing
  <2>4. f[n + 1] = IF es[n + 1].deleted THEN f[n] ELSE Append(f[n], PairOf(es[n + 1]))
    BY <2>1 DEF Listing
  <2>5. CASE es[n + 1].deleted
    <3>1. f[n + 1] = f[n]
      BY <2>4, <2>5
    <3>2. From(n + 1)
      BY <3>1, <2>1, <2>2
    <3>3. To(n + 1)
      BY <3>1, <2>1, <2>2, <2>5
    <3> QED BY <3>2, <3>3
  <2>6. CASE ~es[n + 1].deleted
    <3> DEFINE q == f[n + 1]
    <3>1. q = Append(f[n], PairOf(es[n + 1]))
      BY <2>4, <2>6
    <3> HIDE DEF q
    <3>2. /\ Len(q) = Len(f[n]) + 1 /\ \A j \in 1 .. Len(f[n]) : q[j] = f[n][j]
          /\ q[Len(f[n]) + 1] = PairOf(es[n + 1])
      BY <3>1, <2>3
    <3>3. /\ Len(f[n]) + 1 \in 1 .. Len(q)
          /\ \A j \in 1 .. Len(f[n]) : j \in 1 .. Len(q)
          /\ \A j \in 1 .. Len(q) : j \in 1 .. Len(f[n]) \/ j = Len(f[n]) + 1
      BY <3>2, <2>3
    <3>4. \A j \in 1 .. Len(q) : \E i \in 1 .. (n + 1) : ~es[i].deleted /\ q[j] = PairOf(es[i])
      <4> SUFFICES ASSUME NEW j \in 1 .. Len(q)
                   PROVE  \E i \in 1 .. (n + 1) : ~es[i].deleted /\ q[j] = PairOf(es[i])
        OBVIOUS
      <4>1. CASE j = Len(f[n]) + 1
        BY <4>1, <3>2, <2>1, <2>6
      <4>2. CASE j \in 1 .. Len(f[n])
        <5>1. PICK i \in 1 .. n : ~es[i].deleted /\ f[n][j] = PairOf(es[i])
          BY <4>2, <2>2
        <5> QED BY <5>1, <4>2, <3>2, <2>1
      <4> QED BY <4>1, <4>2, <3>3
    <3>5. \A i \in 1 .. (n + 1) : ~es[i].deleted => \E j \in 1 .. Len(q) : q[j] = PairOf(es[i])
      <4> SUFFICES ASSUME NEW i \in 1 .. (n + 1), ~es[i].deleted
                   PROVE  \E j \in 1 .. Len(q) : q[j] = PairOf(es[i])
        OBVIOUS
      <4>1. CASE i = n + 1
        BY <4>1, <3>2, <3>3
      <4>2. CASE i \in 1 .. n
        <5>1. PICK j \in 1 .. Len(f[n]) : f[n][j] = PairOf(es[i])
          BY <4>2, <2>2
        <5> QED BY <5>1, <3>2, <3>3
      <4> QED BY <4>1, <4>2, <2>1
    <3> QED BY <3>4, <3>5 DEF q
  <2> QED BY <2>5, <2>6
<1>3. Done = Nat
  <2>1. Done \subseteq Nat
    OBVIOUS
  <2> HIDE DEF Done
  <2> QED BY <1>1, <1>2, <2>1, NatSetInduction
<1>4. \A n \in 0 .. Len(es) : From(n) /\ To(n)
  BY <1>3
<1> QED BY <1>4

HasPair(q, k) == \E j \in DOMAIN q : q[j].key = k
HasEntry(es, k) == \E i \in 1 .. Len(es) : ~es[i].deleted /\ es[i].key = k

(* A key is listed when a live entry has it.                               *)
LEMMA PairsHave ==
  ASSUME NEW es \in Seq(Entry), NEW k
  PROVE  Pairs(es) \in Seq(Pair) /\ (HasPair(Pairs(es), k) <=> HasEntry(es, k))
<1>1. PICK f : Listing(f, es) /\ Pairs(es) = f[Len(es)]
  BY Listed
<1>2. Len(es) \in 0 .. Len(es) /\ \A i \in 1 .. Len(es) : PairOf(es[i]).key = es[i].key
  BY DEF PairOf
<1>3. Pairs(es) \in Seq(Pair)
  BY <1>1, <1>2 DEF Listing
<1>4. DOMAIN Pairs(es) = 1 .. Len(Pairs(es))
  BY <1>3
<1>5. /\ \A j \in 1 .. Len(Pairs(es)) : \E i \in 1 .. Len(es) :
           ~es[i].deleted /\ Pairs(es)[j] = PairOf(es[i])
      /\ \A i \in 1 .. Len(es) : ~es[i].deleted =>
           \E j \in 1 .. Len(Pairs(es)) : Pairs(es)[j] = PairOf(es[i])
  BY <1>1, <1>2, ListedAreLive
<1>6. ASSUME NEW j \in DOMAIN Pairs(es), Pairs(es)[j].key = k
      PROVE  \E i \in 1 .. Len(es) : ~es[i].deleted /\ es[i].key = k
  BY <1>2, <1>4, <1>5, <1>6
<1>7. ASSUME NEW i \in 1 .. Len(es), ~es[i].deleted, es[i].key = k
      PROVE  \E j \in DOMAIN Pairs(es) : Pairs(es)[j].key = k
  <2>1. PICK j \in 1 .. Len(Pairs(es)) : Pairs(es)[j] = PairOf(es[i])
    BY <1>5, <1>7
  <2>2. Pairs(es)[j].key = k
    BY <1>2, <1>7, <2>1
  <2> QED BY <1>4, <2>1, <2>2
<1> QED BY <1>3, <1>6, <1>7 DEF HasPair, HasEntry
-----------------------------------------------------------------------------
(* A new value for a key, in a buffer and in what is listed of it.         *)
Updated(es, k, v) ==
  [i \in DOMAIN es |-> IF ~es[i].deleted /\ es[i].key = k
                       THEN [es[i] EXCEPT !.value = v] ELSE es[i]]
Renewed(q, k, v) ==
  [j \in DOMAIN q |-> IF q[j].key = k THEN [key |-> k, value |-> v] ELSE q[j]]

(* Renewing goes entry by entry.                                           *)
LEMMA RenewedAppend ==
  ASSUME NEW q \in Seq(Pair), NEW p \in Pair, NEW k \in Keys, NEW v \in Values
  PROVE  /\ Renewed(q, k, v) \in Seq(Pair)
         /\ Renewed(Append(q, p), k, v) =
              Append(Renewed(q, k, v), IF p.key = k THEN [key |-> k, value |-> v] ELSE p)
<1> DEFINE new == [key |-> k, value |-> v]
           r == Renewed(q, k, v)
           last == IF p.key = k THEN new ELSE p
           w == Renewed(Append(q, p), k, v)
<1>1. new \in Pair /\ last \in Pair
  BY DEF Pair
<1>2. Len(q) \in Nat /\ DOMAIN q = 1 .. Len(q) /\ \A j \in 1 .. Len(q) : q[j] \in Pair
  OBVIOUS
<1> DEFINE b == Append(q, p)
<1>3. /\ b \in Seq(Pair) /\ Len(b) = Len(q) + 1 /\ DOMAIN b = 1 .. (Len(q) + 1)
      /\ \A j \in 1 .. Len(q) : b[j] = q[j]
      /\ b[Len(q) + 1] = p
  BY <1>2
<1>4. /\ r \in Seq(Pair) /\ Len(r) = Len(q)
      /\ r = [j \in 1 .. Len(q) |-> IF q[j].key = k THEN new ELSE q[j]]
  <2>1. r = [j \in 1 .. Len(q) |-> IF q[j].key = k THEN new ELSE q[j]]
    BY <1>2 DEF Renewed
  <2> HIDE DEF new
  <2>2. r \in [1 .. Len(q) -> Pair]
    <3> HIDE DEF r
    <3> QED BY <1>1, <1>2, <2>1
  <2> HIDE DEF r
  <2> QED BY <1>2, <2>1, <2>2
<1>5. w = [j \in 1 .. (Len(q) + 1) |-> IF b[j].key = k THEN new ELSE b[j]]
  BY <1>3 DEF Renewed
<1> HIDE DEF new, w, b, r
<1> DEFINE a == Append(r, last)
<1>6. /\ a \in Seq(Pair) /\ Len(a) = Len(q) + 1
      /\ \A j \in 1 .. Len(q) : a[j] = r[j]
      /\ a[Len(q) + 1] = last
  <2> HIDE DEF last
  <2> QED BY <1>1, <1>4
<1>7. a = [j \in 1 .. (Len(q) + 1) |-> a[j]]
  <2> HIDE DEF a
  <2> QED BY <1>6
<1> HIDE DEF a
<1>8. \A j \in 1 .. (Len(q) + 1) : j \in 1 .. Len(q) \/ j = Len(q) + 1
  BY <1>2
<1>9. \A j \in 1 .. (Len(q) + 1) : w[j] = a[j]
  BY <1>3, <1>4, <1>5, <1>6, <1>8
<1>10. w = a
  BY <1>5, <1>7, <1>9
<1> QED BY <1>4, <1>10 DEF w, a, r, new, last, b

(* A new value shows at the place of the key.                              *)
LEMMA PairsUpdated ==
  ASSUME NEW es \in Seq(Entry), NEW k \in Keys, NEW v \in Values
  PROVE  /\ Updated(es, k, v) \in Seq(Entry)
         /\ Pairs(Updated(es, k, v)) = Renewed(Pairs(es), k, v)
<1> DEFINE other == Updated(es, k, v)
<1>1. Len(es) \in Nat /\ DOMAIN es = 1 .. Len(es) /\ \A i \in 1 .. Len(es) : es[i] \in Entry
  OBVIOUS
<1>2. \A i \in 1 .. Len(es) :
        /\ [es[i] EXCEPT !.value = v] \in Entry
        /\ [es[i] EXCEPT !.value = v].deleted = es[i].deleted
        /\ PairOf([es[i] EXCEPT !.value = v]) = [key |-> es[i].key, value |-> v]
        /\ PairOf(es[i]) \in Pair /\ PairOf(es[i]).key = es[i].key
  BY <1>1 DEF Entry, PairOf, Pair
<1>3. other = [i \in 1 .. Len(es) |-> IF ~es[i].deleted /\ es[i].key = k
                                     THEN [es[i] EXCEPT !.value = v] ELSE es[i]]
  BY <1>1 DEF Updated
<1> HIDE DEF other
<1>4. other \in [1 .. Len(es) -> Entry]
  BY <1>1, <1>2, <1>3
<1>5. other \in Seq(Entry) /\ Len(other) = Len(es)
  BY <1>1, <1>4
<1>6. PICK f : Listing(f, es) /\ Pairs(es) = f[Len(es)]
  BY Listed
<1>7. PICK g : Listing(g, other) /\ Pairs(other) = g[Len(other)]
  BY <1>5, Listed
<1> DEFINE Done == {n \in Nat : n <= Len(es) => g[n] = Renewed(f[n], k, v)}
<1>8. 0 \in Done
  <2>1. f[0] = <<>> /\ g[0] = <<>>
    BY <1>6, <1>7 DEF Listing
  <2>2. Renewed(<<>>, k, v) = <<>>
    BY DEF Renewed
  <2> QED BY <2>1, <2>2
<1>9. \A n \in Done : n + 1 \in Done
  <2> SUFFICES ASSUME NEW n \in Done, n + 1 <= Len(es) PROVE g[n + 1] = Renewed(f[n + 1], k, v)
    OBVIOUS
  <2>1. /\ n \in Nat /\ n + 1 \in 1 .. Len(es) /\ (n + 1) - 1 = n /\ n \in 0 .. Len(es)
        /\ n + 1 \in 1 .. Len(other)
    BY <1>5
  <2>2. g[n] = Renewed(f[n], k, v)
    BY <2>1
  <2> HIDE DEF Done
  <2> DEFINE e == es[n + 1]
             e2 == other[n + 1]
  <2>3. /\ f[n + 1] = IF e.deleted THEN f[n] ELSE Append(f[n], PairOf(e))
        /\ g[n + 1] = IF e2.deleted THEN g[n] ELSE Append(g[n], PairOf(e2))
        /\ f[n] \in Seq(Pair)
    BY <1>6, <1>7, <2>1 DEF Listing
  <2>4. e2 = IF ~e.deleted /\ e.key = k THEN [e EXCEPT !.value = v] ELSE e
    BY <1>3, <2>1
  <2>5. /\ [e EXCEPT !.value = v].deleted = e.deleted
        /\ PairOf([e EXCEPT !.value = v]) = [key |-> e.key, value |-> v]
        /\ PairOf(e) \in Pair /\ PairOf(e).key = e.key
    BY <1>2, <2>1
  <2> HIDE DEF e, e2
  <2>6. CASE e.deleted
    BY <2>2, <2>3, <2>4, <2>6
  <2>7. CASE ~e.deleted
    <3>1. PairOf(e2) = IF PairOf(e).key = k THEN [key |-> k, value |-> v] ELSE PairOf(e)
      BY <2>4, <2>5, <2>7
    <3>2. ~e2.deleted
      BY <2>4, <2>5, <2>7
    <3>3. g[n + 1] = Append(g[n], PairOf(e2)) /\ f[n + 1] = Append(f[n], PairOf(e))
      BY <2>3, <2>7, <3>2
    <3>4. Renewed(Append(f[n], PairOf(e)), k, v) = Append(Renewed(f[n], k, v), PairOf(e2))
      BY <2>3, <2>5, <3>1, RenewedAppend
    <3> QED BY <2>2, <3>3, <3>4
  <2> QED BY <2>6, <2>7
<1>10. Done = Nat
  <2>1. Done \subseteq Nat
    OBVIOUS
  <2> HIDE DEF Done
  <2> QED BY <1>8, <1>9, <2>1, NatSetInduction
<1>11. g[Len(es)] = Renewed(f[Len(es)], k, v)
  BY <1>1, <1>10
<1> QED BY <1>5, <1>6, <1>7, <1>11 DEF other
-----------------------------------------------------------------------------
(* What RemoveAt leaves of a sequence of pairs.                            *)
LEMMA Removed ==
  ASSUME NEW q \in Seq(Pair), NEW p \in 1 .. Len(q)
  PROVE  /\ RemoveAt(q, p) \in Seq(Pair) /\ Len(RemoveAt(q, p)) = Len(q) - 1
         /\ RemoveAt(q, p) = [j \in 1 .. (Len(q) - 1) |-> IF j < p THEN q[j] ELSE q[j + 1]]
<1> DEFINE before == SubSeq(q, 1, p - 1)
           after == SubSeq(q, p + 1, Len(q))
           r == before \o after
<1>1. Len(q) \in Nat /\ p \in Nat /\ 1 <= p /\ p <= Len(q)
  OBVIOUS
<1>2. /\ before \in Seq(Pair) /\ Len(before) = p - 1
      /\ \A i \in 1 .. (p - 1) : before[i] = q[i]
  BY <1>1
<1>3. /\ after \in Seq(Pair) /\ Len(after) = Len(q) - p
      /\ \A i \in 1 .. (Len(q) - p) : after[i] = q[p + i]
  <2>1. Len(after) = Len(q) - (p + 1) + 1
    BY <1>1
  <2>2. Len(after) = Len(q) - p
    <3> HIDE DEF after
    <3> QED BY <2>1, <1>1
  <2>3. after \in Seq(Pair)
    BY <1>1
  <2>4. \A i \in 1 .. (Len(q) - p) : after[i] = q[p + i]
    BY <1>1
  <2> QED BY <2>2, <2>3, <2>4
<1>4. RemoveAt(q, p) = r
  BY DEF RemoveAt
<1> HIDE DEF before, after
<1>5. r \in Seq(Pair) /\ Len(r) = Len(q) - 1
  <2>1. r \in Seq(Pair) /\ Len(r) = Len(before) + Len(after)
    BY <1>2, <1>3
  <2>2. (p - 1) + (Len(q) - p) = Len(q) - 1
    BY <1>1
  <2> HIDE DEF r
  <2> QED BY <1>2, <1>3, <2>1, <2>2
<1>6. \A i \in 1 .. (Len(q) - 1) : r[i] = IF i <= p - 1 THEN before[i] ELSE after[i - (p - 1)]
  BY <1>1, <1>2, <1>3, <1>5
<1>7. r = [i \in 1 .. (Len(q) - 1) |-> r[i]]
  <2> HIDE DEF r
  <2> QED BY <1>1, <1>5
<1> HIDE DEF r
<1>8. \A i \in 1 .. (Len(q) - 1) : r[i] = IF i < p THEN q[i] ELSE q[i + 1]
  <2> SUFFICES ASSUME NEW i \in 1 .. (Len(q) - 1)
               PROVE  r[i] = IF i < p THEN q[i] ELSE q[i + 1]
    OBVIOUS
  <2>1. CASE i < p
    BY <1>1, <1>2, <1>6, <2>1
  <2>2. CASE ~(i < p)
    <3>1. i - (p - 1) \in 1 .. (Len(q) - p) /\ p + (i - (p - 1)) = i + 1 /\ ~(i <= p - 1)
      BY <1>1, <2>2
    <3>2. after[i - (p - 1)] = q[i + 1]
      BY <1>3, <3>1
    <3> QED BY <1>6, <2>2, <3>1, <3>2
  <2> QED BY <2>1, <2>2
<1> QED BY <1>4, <1>5, <1>7, <1>8

(* Removing goes with appending.                                           *)
LEMMA RemovedAppend ==
  ASSUME NEW q \in Seq(Pair), NEW e \in Pair
  PROVE  /\ RemoveAt(Append(q, e), Len(q) + 1) = q
         /\ \A p \in 1 .. Len(q) : RemoveAt(Append(q, e), p) = Append(RemoveAt(q, p), e)
<1> DEFINE b == Append(q, e)
<1>1. /\ Len(q) \in Nat /\ b \in Seq(Pair) /\ Len(b) = Len(q) + 1
      /\ \A j \in 1 .. Len(q) : b[j] = q[j]
      /\ b[Len(q) + 1] = e /\ Len(b) - 1 = Len(q)
  OBVIOUS
<1> HIDE DEF b
<1>2. RemoveAt(b, Len(q) + 1) = q
  <2> DEFINE r == RemoveAt(b, Len(q) + 1)
  <2>1. Len(q) + 1 \in 1 .. Len(b)
    BY <1>1
  <2>2. r = [j \in 1 .. (Len(b) - 1) |-> IF j < Len(q) + 1 THEN b[j] ELSE b[j + 1]]
    BY <1>1, <2>1, Removed
  <2> HIDE DEF r
  <2>3. r = [j \in 1 .. Len(q) |-> q[j]]
    BY <1>1, <2>2
  <2>4. q = [j \in 1 .. Len(q) |-> q[j]]
    OBVIOUS
  <2> QED BY <2>3, <2>4 DEF r
<1>3. ASSUME NEW p \in 1 .. Len(q) PROVE RemoveAt(b, p) = Append(RemoveAt(q, p), e)
  <2> DEFINE r == RemoveAt(b, p)
             c == RemoveAt(q, p)
             a == Append(c, e)
  <2>1. p \in 1 .. Len(b) /\ p \in Nat /\ p <= Len(q) /\ 1 <= p
    BY <1>1
  <2>2. r = [j \in 1 .. (Len(b) - 1) |-> IF j < p THEN b[j] ELSE b[j + 1]]
    BY <1>1, <2>1, Removed
  <2>3. /\ c \in Seq(Pair) /\ Len(c) = Len(q) - 1
        /\ c = [j \in 1 .. (Len(q) - 1) |-> IF j < p THEN q[j] ELSE q[j + 1]]
    BY Removed
  <2> HIDE DEF r, c
  <2>4. /\ a \in Seq(Pair) /\ Len(a) = Len(q)
        /\ \A j \in 1 .. (Len(q) - 1) : a[j] = c[j]
        /\ a[Len(q)] = e
    BY <1>1, <2>3
  <2>5. a = [j \in 1 .. Len(q) |-> a[j]]
    <3> HIDE DEF a
    <3> QED BY <2>4
  <2> HIDE DEF a
  <2>6. \A j \in 1 .. Len(q) : r[j] = a[j]
    <3> SUFFICES ASSUME NEW j \in 1 .. Len(q) PROVE r[j] = a[j]
      OBVIOUS
    <3>1. r[j] = IF j < p THEN b[j] ELSE b[j + 1]
      BY <1>1, <2>2
    <3>2. CASE j = Len(q)
      BY <3>1, <3>2, <1>1, <2>1, <2>4
    <3>3. CASE j # Len(q)
      <4>1. j \in 1 .. (Len(q) - 1) /\ j + 1 \in 1 .. Len(q)
        <5>1. Len(q) \in Nat
          BY <1>1
        <5> QED BY <3>3, <5>1
      <4>2. a[j] = IF j < p THEN q[j] ELSE q[j + 1]
        BY <4>1, <2>3, <2>4
      <4> QED BY <4>1, <4>2, <3>1, <1>1
    <3> QED BY <3>2, <3>3
  <2>7. r = [j \in 1 .. Len(q) |-> r[j]]
    BY <1>1, <2>2
  <2>8. r = a
    BY <2>5, <2>6, <2>7
  <2> QED BY <2>8 DEF r, a, c
<1> QED BY <1>2, <1>3 DEF b

(* Marking the entries of a key as deleted.                                *)
Marked(es, k) ==
  [i \in DOMAIN es |-> IF ~es[i].deleted /\ es[i].key = k
                       THEN [es[i] EXCEPT !.deleted = TRUE] ELSE es[i]]

(* The one pair of the key goes.                                           *)
LEMMA PairsMarked ==
  ASSUME NEW es \in Seq(Entry), NEW at \in 1 .. Len(es), ~es[at].deleted,
         \A i \in 1 .. Len(es) : ~es[i].deleted /\ es[i].key = es[at].key => i = at
  PROVE  /\ Marked(es, es[at].key) \in Seq(Entry)
         /\ Len(Marked(es, es[at].key)) = Len(es)
         /\ \E p \in DOMAIN Pairs(es) :
              /\ Pairs(es)[p].key = es[at].key
              /\ Pairs(Marked(es, es[at].key)) = RemoveAt(Pairs(es), p)
              /\ Len(Pairs(Marked(es, es[at].key))) = Len(Pairs(es)) - 1
<1> DEFINE k == es[at].key
           other == Marked(es, k)
<1>1. Len(es) \in Nat /\ DOMAIN es = 1 .. Len(es) /\ \A i \in 1 .. Len(es) : es[i] \in Entry
  OBVIOUS
<1>2. \A i \in 1 .. Len(es) :
        /\ [es[i] EXCEPT !.deleted = TRUE] \in Entry
        /\ [es[i] EXCEPT !.deleted = TRUE].deleted
        /\ PairOf(es[i]) \in Pair /\ PairOf(es[i]).key = es[i].key
  BY <1>1 DEF Entry, PairOf, Pair
<1>3. other = [i \in 1 .. Len(es) |-> IF i = at THEN [es[i] EXCEPT !.deleted = TRUE] ELSE es[i]]
  BY <1>1 DEF Marked
<1> HIDE DEF other
<1>4. other \in [1 .. Len(es) -> Entry]
  BY <1>1, <1>2, <1>3
<1>5. other \in Seq(Entry) /\ Len(other) = Len(es)
  BY <1>1, <1>4
<1>6. PICK f : Listing(f, es) /\ Pairs(es) = f[Len(es)]
  BY Listed
<1>7. PICK g : Listing(g, other) /\ Pairs(other) = g[Len(other)]
  BY <1>5, Listed
<1>8. at - 1 \in Nat /\ at - 1 <= Len(es) /\ at - 1 \in 0 .. (at - 1) /\ at - 1 \in 0 .. Len(es)
  BY <1>1
<1>9. g[at - 1] = f[at - 1]
  <2>1. \A n \in 1 .. (at - 1) : other[n] = es[n]
    BY <1>1, <1>3
  <2>2. \A n \in 1 .. (at - 1) :
          other[n].deleted = es[n].deleted /\ PairOf(other[n]) = PairOf(es[n])
    BY <2>1
  <2>3. at - 1 <= Len(other)
    BY <1>5, <1>8
  <2> DEFINE m == at - 1
  <2>5. /\ m \in Nat /\ m <= Len(es) /\ m <= Len(other) /\ m \in 0 .. m
        /\ \A n \in 1 .. m : other[n].deleted = es[n].deleted /\ PairOf(other[n]) = PairOf(es[n])
    BY <1>8, <2>2, <2>3
  <2> HIDE DEF m
  <2>4. \A n \in 0 .. m : g[n] = f[n]
    BY <1>5, <1>6, <1>7, <2>5, ListedAlike
  <2>6. g[m] = f[m]
    BY <2>4, <2>5
  <2> QED BY <2>6 DEF m
<1> DEFINE p == Len(f[at - 1]) + 1
           Rest(n) == /\ p \in 1 .. Len(f[n]) /\ f[n][p] = PairOf(es[at])
                      /\ g[n] = RemoveAt(f[n], p)
           Done == {n \in Nat : at + n <= Len(es) => Rest(at + n)}
<1>10. p \in Nat /\ 1 <= p /\ f[at - 1] \in Seq(Pair)
  <2>1. f[at - 1] \in Seq(Pair)
    BY <1>6, <1>8 DEF Listing
  <2> QED BY <2>1
<1>11. 0 \in Done
  <2>1. f[at] = Append(f[at - 1], PairOf(es[at]))
    BY <1>6 DEF Listing
  <2>2. other[at].deleted
    BY <1>2, <1>3
  <2>3. g[at] = g[at - 1]
    BY <1>5, <1>7, <2>2 DEF Listing
  <2>4. PairOf(es[at]) \in Pair
    BY <1>2
  <2>5. RemoveAt(f[at], p) = f[at - 1]
    BY <1>10, <2>1, <2>4, RemovedAppend
  <2>6. p \in 1 .. Len(f[at]) /\ f[at][p] = PairOf(es[at])
    BY <1>10, <2>1, <2>4
  <2>7. Rest(at)
    BY <1>9, <2>3, <2>5, <2>6
  <2>8. at + 0 = at
    OBVIOUS
  <2> HIDE DEF Rest
  <2> QED BY <2>7, <2>8
<1> HIDE DEF p
<1>12. \A n \in Done : n + 1 \in Done
  <2> SUFFICES ASSUME NEW n \in Done, at + (n + 1) <= Len(es) PROVE Rest(at + (n + 1))
    <3> HIDE DEF Rest
    <3> QED OBVIOUS
  <2> DEFINE m == at + n
  <2>1. /\ m \in Nat /\ m + 1 \in 1 .. Len(es) /\ (m + 1) - 1 = m /\ m \in 0 .. Len(es)
        /\ m + 1 # at /\ m + 1 = at + (n + 1) /\ m <= Len(es)
    BY <1>1
  <2>2. Rest(m)
    <3> HIDE DEF Rest
    <3> QED BY <2>1
  <2> HIDE DEF Done, m
  <2>3. other[m + 1] = es[m + 1] /\ PairOf(es[m + 1]) \in Pair
    BY <1>2, <1>3, <2>1
  <2>4. /\ f[m + 1] = IF es[m + 1].deleted THEN f[m] ELSE Append(f[m], PairOf(es[m + 1]))
        /\ g[m + 1] = IF es[m + 1].deleted THEN g[m] ELSE Append(g[m], PairOf(es[m + 1]))
        /\ f[m] \in Seq(Pair)
    BY <1>5, <1>6, <1>7, <2>1, <2>3 DEF Listing
  <2>5. CASE es[m + 1].deleted
    <3>1. f[m + 1] = f[m] /\ g[m + 1] = g[m]
      BY <2>4, <2>5
    <3> QED BY <3>1, <2>1, <2>2
  <2>6. CASE ~es[m + 1].deleted
    <3>1. f[m + 1] = Append(f[m], PairOf(es[m + 1])) /\ g[m + 1] = Append(g[m], PairOf(es[m + 1]))
      BY <2>4, <2>6
    <3>2. RemoveAt(f[m + 1], p) = Append(RemoveAt(f[m], p), PairOf(es[m + 1]))
      BY <2>2, <2>3, <2>4, <3>1, RemovedAppend
    <3>3. p \in 1 .. Len(f[m + 1]) /\ f[m + 1][p] = f[m][p]
      BY <2>2, <2>3, <2>4, <3>1
    <3> QED BY <2>1, <2>2, <3>1, <3>2, <3>3
  <2> QED BY <2>5, <2>6
<1>13. Rest(Len(es))
  <2>1. Done \subseteq Nat
    OBVIOUS
  <2>2. Done = Nat
    <3> HIDE DEF Done
    <3> QED BY <1>11, <1>12, <2>1, NatSetInduction
  <2> DEFINE d == Len(es) - at
  <2>3. d \in Nat /\ at + d = Len(es) /\ at + d <= Len(es)
    BY <1>1
  <2> HIDE DEF Rest, d
  <2>4. d \in Done
    <3> HIDE DEF Done
    <3> QED BY <2>2, <2>3
  <2>5. Rest(at + d)
    BY <2>3, <2>4
  <2> QED BY <2>3, <2>5
<1>14. Pairs(es) \in Seq(Pair) /\ DOMAIN Pairs(es) = 1 .. Len(Pairs(es))
  BY PairsHave
<1>15. Pairs(es)[p].key = k
  BY <1>2, <1>6, <1>13
<1>16. Pairs(other) = RemoveAt(Pairs(es), p) /\ p \in 1 .. Len(Pairs(es))
  BY <1>5, <1>6, <1>7, <1>13
<1>17. Len(Pairs(other)) = Len(Pairs(es)) - 1
  BY <1>14, <1>16, Removed
<1> QED BY <1>5, <1>14, <1>15, <1>16, <1>17 DEF other
-----------------------------------------------------------------------------
(* A table with n buckets, whose links lead to entries.                    *)
Table(n) == [buckets : [0 .. n - 1 -> Nat], entries : Seq(Entry), capacity : Nat, count : Nat]

Shape(s, n) ==
  /\ n \in Nat \ {0} /\ s \in Table(n)
  /\ \A b \in 0 .. n - 1 : s.buckets[b] \in 0 .. Len(s.entries)
  /\ \A i \in 1 .. Len(s.entries) : s.entries[i].next \in 0 .. Len(s.entries)

Class(s, n, i) == Hash[s.entries[i].key] % n

(* A bucket, or a later entry of it, leads to each entry.                  *)
Linked(s, n) ==
  \A i \in 1 .. Len(s.entries) :
    \/ s.buckets[Class(s, n, i)] = i
    \/ \E j \in 1 .. Len(s.entries) :
         j > i /\ Class(s, n, j) = Class(s, n, i) /\ s.entries[j].next = i

(* A key has one live entry.                                               *)
Live(s, i) == ~s.entries[i].deleted
Unique(s) ==
  \A i, j \in 1 .. Len(s.entries) :
    Live(s, i) /\ Live(s, j) /\ s.entries[i].key = s.entries[j].key => i = j

Sound(s, n) == Shape(s, n) /\ Linked(s, n) /\ Unique(s)

(* The buckets are counted right.                                          *)
LEMMA Counted ==
  ASSUME NEW n \in Nat \ {0}, NEW s \in Table(n)
  PROVE  NumBuckets(s) = n
<1>1. DOMAIN s.buckets = 0 .. n - 1
  BY DEF Table
<1>2. n - 1 \in Int /\ 0 \in Int
  OBVIOUS
<1>3. Cardinality(0 .. n - 1) = IF 0 > n - 1 THEN 0 ELSE (n - 1) - 0 + 1
  BY <1>2, FS_Interval
<1>4. Cardinality(0 .. n - 1) = n
  BY <1>3
<1> QED BY <1>1, <1>4 DEF NumBuckets

(* The bucket of a key.                                                    *)
LEMMA BucketOf ==
  ASSUME Given, NEW n \in Nat \ {0}, NEW s \in Table(n), NEW k \in Keys
  PROVE  Bucket(s, k) = Hash[k] % n /\ Hash[k] % n \in 0 .. n - 1
<1>1. NumBuckets(s) = n
  BY Counted
<1>2. Hash[k] \in Nat
  BY DEF Given
<1>3. Hash[k] % n \in 0 .. n - 1
  BY <1>2
<1> QED BY <1>1, <1>3 DEF Bucket

(* Following the links from a bucket comes by all of its entries.          *)
LEMMA ChainHasAll ==
  ASSUME NEW n, NEW s, Sound(s, n), NEW b \in 0 .. n - 1
  PROVE  /\ Chain(s, s.buckets[b]) \subseteq 1 .. Len(s.entries)
         /\ \A i \in 1 .. Len(s.entries) : Class(s, n, i) = b => i \in Chain(s, s.buckets[b])
<1> DEFINE N == Len(s.entries)
           e == s.buckets[b]
           Follow(h) == h \cup {s.entries[i].next : i \in h \ {Nil}}
           H == [x \in 0 .. N |-> SUBSET (0 .. N)]
           step == [p \in (1 .. N) \X SUBSET (0 .. N) |-> Follow(p[2])]
           base == {e}
           Folds(f) ==
             f = [x \in 0 .. N |->
                    IF x = 0 THEN {e}
                    ELSE LET near == f[x - 1]
                         IN  near \cup {s.entries[i].next : i \in near \ {Nil}}]
<1>1. N \in Nat /\ e \in 0 .. N /\ \A i \in 1 .. N : s.entries[i].next \in 0 .. N
  BY DEF Sound, Shape, Table
<1>2. \A h \in SUBSET (0 .. N) : Follow(h) \in SUBSET (0 .. N)
  <2> HIDE DEF N
  <2> SUFFICES ASSUME NEW h \in SUBSET (0 .. N), NEW i \in h \ {Nil}
               PROVE  s.entries[i].next \in 0 .. N
    OBVIOUS
  <2>1. i \in 1 .. N
    BY <1>1 DEF Nil
  <2> QED BY <1>1, <2>1
<1> HIDE DEF N, e
<1>3. \A x \in 0 .. N : H[x] = SUBSET (0 .. N)
  OBVIOUS
<1>4. base \in H[0]
  BY <1>1, <1>3
<1>5. \A x \in 1 .. N : x - 1 \in 0 .. N /\ x \in 0 .. N
  BY <1>1
<1>6. \A x \in 1 .. N : \A h \in SUBSET (0 .. N) : step[<<x, h>>] = Follow(h)
  <2> HIDE DEF Follow
  <2> QED OBVIOUS
<1> HIDE DEF H, step, base, Follow
<1>7. \A x \in 1 .. N : \A h \in H[x - 1] : step[<<x, h>>] \in H[x]
  <2> SUFFICES ASSUME NEW x \in 1 .. N, NEW h \in H[x - 1] PROVE step[<<x, h>>] \in H[x]
    OBVIOUS
  <2>1. H[x - 1] = SUBSET (0 .. N) /\ H[x] = SUBSET (0 .. N)
    BY <1>3, <1>5
  <2>2. h \in SUBSET (0 .. N)
    BY <2>1
  <2>3. step[<<x, h>>] = Follow(h) /\ Follow(h) \in SUBSET (0 .. N)
    BY <1>2, <1>6, <2>2
  <2> QED BY <2>1, <2>3
<1>8. PICK f : IsRecursive(f, N, H, base, step)
  BY <1>1, <1>4, <1>7, Recursion
<1>9. /\ f = [x \in 0 .. N |-> f[x]] /\ f[0] = {e}
      /\ \A x \in 1 .. N : f[x] = Follow(f[x - 1])
      /\ \A x \in 0 .. N : f[x] \in SUBSET (0 .. N)
  <2>1. f = [x \in 0 .. N |-> f[x]] /\ f[0] = {e}
    BY <1>8 DEF IsRecursive, base
  <2>2. \A x \in 0 .. N : f[x] \in SUBSET (0 .. N)
    BY <1>3, <1>8 DEF IsRecursive
  <2>3. ASSUME NEW x \in 1 .. N PROVE f[x] = Follow(f[x - 1])
    <3>1. f[x] = step[<<x, f[x - 1]>>]
      BY <1>8 DEF IsRecursive
    <3>2. f[x - 1] \in SUBSET (0 .. N)
      BY <1>5, <2>2
    <3> QED BY <1>6, <3>1, <3>2
  <2> QED BY <2>1, <2>2, <2>3
<1>10. \A x \in 0 .. N : x = 0 \/ x \in 1 .. N
  BY <1>1
<1>11. Folds(f)
  BY <1>9, <1>10 DEF Follow
<1> DEFINE u == CHOOSE g : Folds(g)
<1>12. Folds(u)
  BY <1>11
<1>13. Chain(s, e) = u[N] \ {Nil}
  BY DEF Chain, N
<1> HIDE DEF u
<1>14. u[0] = {e} /\ \A x \in 1 .. N : u[x] = Follow(u[x - 1])
  <2>1. 0 \in 0 .. N
    BY <1>1
  <2>2. u[0] = {e}
    BY <1>12, <2>1
  <2>3. ASSUME NEW x \in 1 .. N PROVE u[x] = Follow(u[x - 1])
    <3>1. x \in 0 .. N /\ x # 0
      BY <1>1
    <3>2. u[x] = IF x = 0 THEN {e}
                 ELSE LET near == u[x - 1]
                      IN  near \cup {s.entries[i].next : i \in near \ {Nil}}
      BY <1>12, <3>1
    <3> QED BY <3>1, <3>2 DEF Follow
  <2> QED BY <2>2, <2>3
<1> HIDE DEF Folds
<1> DEFINE Done == {x \in Nat : x <= N =>
                      /\ u[x] \in SUBSET (0 .. N)
                      /\ \A i \in 1 .. N : Class(s, n, i) = b /\ i > N - x => i \in u[x]}
<1>15. 0 \in Done
  BY <1>1, <1>14
<1>16. \A x \in Done : x + 1 \in Done
  <2> SUFFICES ASSUME NEW x \in Done, x + 1 <= N
               PROVE  /\ u[x + 1] \in SUBSET (0 .. N)
                      /\ \A i \in 1 .. N : Class(s, n, i) = b /\ i > N - (x + 1) => i \in u[x + 1]
    OBVIOUS
  <2>1. x \in Nat /\ x + 1 \in 1 .. N /\ (x + 1) - 1 = x /\ x <= N
    BY <1>1
  <2>2. /\ u[x] \in SUBSET (0 .. N)
        /\ \A i \in 1 .. N : Class(s, n, i) = b /\ i > N - x => i \in u[x]
    BY <2>1
  <2> HIDE DEF Done
  <2>3. u[x + 1] = Follow(u[x])
    BY <1>14, <2>1
  <2>4. u[x + 1] \in SUBSET (0 .. N)
    BY <1>2, <2>2, <2>3
  <2>5. ASSUME NEW i \in 1 .. N, Class(s, n, i) = b, i > N - (x + 1) PROVE i \in u[x + 1]
    <3>1. CASE i > N - x
      BY <3>1, <2>2, <2>3, <2>5 DEF Follow
    <3>2. CASE ~(i > N - x)
      <4>1. i = N - x
        BY <1>1, <2>1, <2>5, <3>2
      <4>2. CASE s.buckets[b] = i
        <5>1. i \in u[0]
          BY <4>2, <1>14 DEF e
        <5> DEFINE Kept == {y \in Nat : y <= N => i \in u[y]}
        <5>2. 0 \in Kept
          BY <5>1
        <5>3. \A y \in Kept : y + 1 \in Kept
          <6> SUFFICES ASSUME NEW y \in Kept, y + 1 <= N PROVE i \in u[y + 1]
            OBVIOUS
          <6>1. y \in Nat /\ y + 1 \in 1 .. N /\ (y + 1) - 1 = y /\ y <= N
            BY <1>1
          <6>2. i \in u[y]
            BY <6>1
          <6> HIDE DEF Kept
          <6>3. u[y + 1] = Follow(u[y])
            BY <1>14, <6>1
          <6> QED BY <6>2, <6>3 DEF Follow
        <5>4. Kept \subseteq Nat
          OBVIOUS
        <5>5. Kept = Nat
          <6> HIDE DEF Kept
          <6> QED BY <5>2, <5>3, <5>4, NatSetInduction
        <5> QED BY <2>1, <5>5
      <4>3. CASE s.buckets[b] # i
        <5>1. PICK j \in 1 .. N : j > i /\ Class(s, n, j) = b /\ s.entries[j].next = i
          BY <4>3, <2>5 DEF Sound, Linked, N
        <5>2. j > N - x
          BY <4>1, <5>1, <1>1, <2>1
        <5>3. j \in u[x] /\ j # Nil
          BY <5>1, <5>2, <2>2 DEF Nil
        <5> QED BY <5>1, <5>3, <2>3 DEF Follow
      <4> QED BY <4>2, <4>3
    <3> QED BY <3>1, <3>2
  <2> QED BY <2>4, <2>5
<1>17. N \in Done
  <2>1. Done \subseteq Nat
    OBVIOUS
  <2> HIDE DEF Done
  <2> QED BY <1>1, <1>15, <1>16, <2>1, NatSetInduction
<1>18. u[N] \in SUBSET (0 .. N) /\ \A i \in 1 .. N : Class(s, n, i) = b => i \in u[N]
  <2>1. \A i \in 1 .. N : i > N - N
    BY <1>1
  <2>2. N <= N
    BY <1>1
  <2> QED BY <1>17, <2>1, <2>2
<1>19. Chain(s, e) \subseteq 1 .. N
  BY <1>1, <1>13, <1>18 DEF Nil
<1>20. \A i \in 1 .. N : Class(s, n, i) = b => i \in Chain(s, e)
  BY <1>13, <1>18 DEF Nil
<1> QED BY <1>19, <1>20 DEF N, e

(* find gives the live entry of the key.                                   *)
LEMMA FindIs ==
  ASSUME Given, NEW n, NEW s, Sound(s, n), NEW k \in Keys
  PROVE  Find(s, k) = {i \in 1 .. Len(s.entries) : Live(s, i) /\ s.entries[i].key = k}
<1> DEFINE b == Hash[k] % n
<1>1. n \in Nat \ {0} /\ s \in Table(n)
  BY DEF Sound, Shape
<1>2. Bucket(s, k) = b /\ b \in 0 .. n - 1
  BY <1>1, BucketOf
<1>3. \A i \in 1 .. Len(s.entries) : s.entries[i].key = k => Class(s, n, i) = b
  BY DEF Class
<1> HIDE DEF b
<1>4. /\ Chain(s, s.buckets[b]) \subseteq 1 .. Len(s.entries)
      /\ \A i \in 1 .. Len(s.entries) : Class(s, n, i) = b => i \in Chain(s, s.buckets[b])
  BY <1>2, ChainHasAll
<1> QED BY <1>2, <1>3, <1>4 DEF Find, Live
-----------------------------------------------------------------------------
(* Appending the entry of a new key.                                       *)
LEMMA LinkSound ==
  ASSUME Given, NEW n, NEW s, Sound(s, n), NEW k \in Keys, NEW v \in Values,
         \A i \in 1 .. Len(s.entries) : Live(s, i) => s.entries[i].key # k
  PROVE  LET r == Link(s, k, v)
         IN  /\ Sound(r, n)
             /\ Len(r.entries) = Len(s.entries) + 1
             /\ \A i \in 1 .. Len(s.entries) : r.entries[i] = s.entries[i]
             /\ r.entries[Len(s.entries) + 1].key = k /\ ~r.entries[Len(s.entries) + 1].deleted
             /\ r.capacity = s.capacity /\ r.count = s.count + 1
             /\ Pairs(r.entries) = Append(Pairs(s.entries), [key |-> k, value |-> v])
<1> DEFINE N == Len(s.entries)
           b == Hash[k] % n
           e == [key |-> k, value |-> v, deleted |-> FALSE, next |-> s.buckets[b]]
           r == Link(s, k, v)
<1>1. /\ n \in Nat \ {0} /\ s \in Table(n) /\ N \in Nat /\ s.entries \in Seq(Entry)
      /\ s.count \in Nat /\ s.capacity \in Nat
      /\ s.buckets \in [0 .. n - 1 -> Nat]
      /\ \A c \in 0 .. n - 1 : s.buckets[c] \in 0 .. N
      /\ \A i \in 1 .. N : s.entries[i].next \in 0 .. N /\ s.entries[i] \in Entry
  BY DEF Sound, Shape, Table
<1>2. Bucket(s, k) = b /\ b \in 0 .. n - 1
  BY <1>1, BucketOf
<1> HIDE DEF b
<1>3. e \in Entry /\ ~e.deleted /\ PairOf(e) = [key |-> k, value |-> v] /\ e.key = k
      /\ e.next = s.buckets[b]
  BY <1>1, <1>2 DEF Entry, PairOf
<1>4. /\ r \in Table(n)
      /\ r.entries = Append(s.entries, e) /\ r.count = s.count + 1 /\ r.capacity = s.capacity
      /\ r.buckets = [s.buckets EXCEPT ![b] = N + 1]
  <2> HIDE DEF e
  <2>1. r = [s EXCEPT !.entries = Append(@, e), !.buckets[b] = N + 1, !.count = @ + 1]
    BY <1>2 DEF Link, e
  <2>2. Append(s.entries, e) \in Seq(Entry)
    BY <1>1, <1>3
  <2>3. [s.buckets EXCEPT ![b] = N + 1] \in [0 .. n - 1 -> Nat]
    BY <1>1, <1>2
  <2>4. r = [s EXCEPT !.entries = Append(s.entries, e), !.buckets = [s.buckets EXCEPT ![b] = N + 1],
                      !.count = s.count + 1]
    BY <1>1, <2>1 DEF Table
  <2> DEFINE row == Append(s.entries, e)
             front == [s.buckets EXCEPT ![b] = N + 1]
             more == s.count + 1
  <2>5. r = [s EXCEPT !.entries = row, !.buckets = front, !.count = more]
    BY <2>4
  <2>6. row \in Seq(Entry) /\ front \in [0 .. n - 1 -> Nat] /\ more \in Nat
    BY <1>1, <2>2, <2>3
  <2> HIDE DEF r, row, front, more
  <2>7. /\ r \in Table(n) /\ r.entries = row /\ r.count = more
        /\ r.capacity = s.capacity /\ r.buckets = front
    BY <1>1, <2>5, <2>6 DEF Table
  <2> QED BY <2>7 DEF row, front, more
<1> HIDE DEF e, r
<1>5. /\ Len(r.entries) = N + 1 /\ r.entries[N + 1] = e
      /\ \A i \in 1 .. N : r.entries[i] = s.entries[i]
  BY <1>1, <1>3, <1>4
<1> HIDE DEF N
<1>6. /\ \A i \in 1 .. N + 1 : i \in 1 .. N \/ i = N + 1
      /\ N + 1 \in 1 .. N + 1
      /\ \A i \in 1 .. N : i \in 1 .. N + 1 /\ i < N + 1 /\ i # N + 1
  BY <1>1
<1>7. Shape(r, n)
  <2>1. \A c \in 0 .. n - 1 : r.buckets[c] = IF c = b THEN N + 1 ELSE s.buckets[c]
    BY <1>1, <1>4
  <2>4. N + 1 \in 0 .. N + 1 /\ \A x \in 0 .. N : x \in 0 .. N + 1
    BY <1>1
  <2>5. /\ \A c \in 0 .. n - 1 : s.buckets[c] \in 0 .. N + 1
        /\ \A i \in 1 .. N : s.entries[i].next \in 0 .. N + 1
    BY <1>1, <2>4
  <2>2. \A c \in 0 .. n - 1 : r.buckets[c] \in 0 .. N + 1
    BY <2>1, <2>4, <2>5
  <2>3. \A i \in 1 .. N + 1 : r.entries[i].next \in 0 .. N + 1
    BY <1>2, <1>3, <1>5, <1>6, <2>5
  <2> QED BY <1>1, <1>4, <1>5, <2>2, <2>3 DEF Shape
<1>8. Linked(r, n)
  <2>1. Class(r, n, N + 1) = b
    BY <1>3, <1>5 DEF Class, b
  <2>2. \A i \in 1 .. N : Class(r, n, i) = Class(s, n, i)
    BY <1>5 DEF Class
  <2>3. \A i \in 1 .. N : Class(s, n, i) \in 0 .. n - 1
    <3> SUFFICES ASSUME NEW i \in 1 .. N PROVE Class(s, n, i) \in 0 .. n - 1
      OBVIOUS
    <3>1. s.entries[i].key \in Keys
      BY <1>1 DEF Entry
    <3> QED BY <1>1, <3>1, BucketOf DEF Class
  <2> SUFFICES ASSUME NEW i \in 1 .. N + 1
               PROVE  \/ r.buckets[Class(r, n, i)] = i
                      \/ \E j \in 1 .. N + 1 :
                           j > i /\ Class(r, n, j) = Class(r, n, i) /\ r.entries[j].next = i
    BY <1>5 DEF Linked
  <2>4. CASE i = N + 1
    <3>1. r.buckets[b] = N + 1
      BY <1>1, <1>2, <1>4
    <3> QED BY <2>1, <2>4, <3>1
  <2>5. CASE i \in 1 .. N
    <3>1. CASE s.buckets[Class(s, n, i)] = i /\ Class(s, n, i) = b
      <4>1. r.entries[N + 1].next = i
        BY <1>3, <1>5, <3>1
      <4>2. N + 1 > i /\ Class(r, n, N + 1) = Class(r, n, i)
        BY <1>6, <2>1, <2>2, <2>5, <3>1
      <4> QED BY <1>6, <4>1, <4>2
    <3>2. CASE s.buckets[Class(s, n, i)] = i /\ Class(s, n, i) # b
      <4>1. r.buckets[Class(s, n, i)] = s.buckets[Class(s, n, i)]
        BY <1>1, <1>4, <2>3, <2>5, <3>2
      <4> QED BY <2>2, <2>5, <3>2, <4>1
    <3>3. CASE s.buckets[Class(s, n, i)] # i
      <4>1. PICK j \in 1 .. N : j > i /\ Class(s, n, j) = Class(s, n, i) /\ s.entries[j].next = i
        BY <2>5, <3>3 DEF Sound, Linked, N
      <4>2. r.entries[j].next = i /\ Class(r, n, j) = Class(r, n, i)
        BY <1>5, <2>2, <2>5, <4>1
      <4> QED BY <1>6, <4>1, <4>2
    <3> QED BY <3>1, <3>2, <3>3
  <2> QED BY <1>6, <2>4, <2>5
<1>9. Unique(r)
  <2> SUFFICES ASSUME NEW i \in 1 .. N + 1, NEW j \in 1 .. N + 1,
                      Live(r, i), Live(r, j), r.entries[i].key = r.entries[j].key
               PROVE  i = j
    BY <1>5 DEF Unique
  <2>1. \A x \in 1 .. N : Live(r, x) => Live(s, x) /\ r.entries[x].key # k
    BY <1>5 DEF Live, N
  <2>2. r.entries[N + 1].key = k
    BY <1>3, <1>5
  <2>3. CASE i \in 1 .. N /\ j \in 1 .. N
    <3>1. Live(s, i) /\ Live(s, j) /\ s.entries[i].key = s.entries[j].key
      BY <1>5, <2>1, <2>3
    <3> QED BY <2>3, <3>1 DEF Sound, Unique, N
  <2> QED BY <1>6, <2>1, <2>2, <2>3
<1>10. Pairs(r.entries) = Append(Pairs(s.entries), [key |-> k, value |-> v])
  BY <1>1, <1>3, <1>4, PairsAppended
<1> QED BY <1>3, <1>4, <1>5, <1>7, <1>8, <1>9, <1>10 DEF Sound, N, r

(* New values, and marks, leave a table sound.                             *)
LEMMA RewrittenSound ==
  ASSUME NEW n, NEW s, Sound(s, n), NEW other \in Seq(Entry), Len(other) = Len(s.entries),
         \A i \in 1 .. Len(other) : /\ other[i].key = s.entries[i].key
                                    /\ other[i].next = s.entries[i].next
                                    /\ s.entries[i].deleted => other[i].deleted,
         NEW count \in Nat
  PROVE  Sound([s EXCEPT !.entries = other, !.count = count], n)
<1> DEFINE r == [s EXCEPT !.entries = other, !.count = count]
<1>1. n \in Nat \ {0} /\ s \in Table(n)
  BY DEF Sound, Shape
<1>2. r \in Table(n) /\ r.entries = other /\ r.buckets = s.buckets
  BY <1>1 DEF Table
<1> HIDE DEF r
<1>3. Shape(r, n)
  BY <1>1, <1>2 DEF Sound, Shape
<1>4. \A i \in 1 .. Len(other) : Class(r, n, i) = Class(s, n, i)
  BY <1>2 DEF Class
<1>5. Linked(r, n)
  BY <1>2, <1>4 DEF Sound, Linked
<1>6. \A i \in 1 .. Len(other) : Live(r, i) => Live(s, i)
  BY <1>2 DEF Live
<1>7. Unique(r)
  BY <1>2, <1>6 DEF Sound, Unique
<1> QED BY <1>3, <1>5, <1>7 DEF Sound, r

(* There are no more pairs than entries.                                   *)
LEMMA FewPairs ==
  ASSUME NEW es \in Seq(Entry), NEW f, Listing(f, es)
  PROVE  \A n \in 0 .. Len(es) : Len(f[n]) \in Nat /\ Len(f[n]) <= n
<1> DEFINE Done == {n \in Nat : n <= Len(es) => Len(f[n]) \in Nat /\ Len(f[n]) <= n}
<1>1. 0 \in Done
  <2>1. Len(f[0]) = 0
    BY DEF Listing
  <2> QED BY <2>1
<1>2. \A n \in Done : n + 1 \in Done
  <2> SUFFICES ASSUME NEW n \in Done, n + 1 <= Len(es)
               PROVE  Len(f[n + 1]) \in Nat /\ Len(f[n + 1]) <= n + 1
    OBVIOUS
  <2>1. /\ n \in Nat /\ n + 1 \in 1 .. Len(es) /\ (n + 1) - 1 = n
        /\ n \in 0 .. Len(es) /\ n <= Len(es)
    OBVIOUS
  <2>2. Len(f[n]) \in Nat /\ Len(f[n]) <= n
    BY <2>1
  <2> HIDE DEF Done
  <2>3. /\ f[n + 1] = f[n] \/ f[n + 1] = Append(f[n], PairOf(es[n + 1]))
        /\ f[n] \in Seq(Pair)
    BY <2>1 DEF Listing
  <2>4. f[n + 1] = f[n] \/ Len(f[n + 1]) = Len(f[n]) + 1
    BY <2>3
  <2> QED BY <2>1, <2>2, <2>4
<1>3. Done = Nat
  <2>1. Done \subseteq Nat
    OBVIOUS
  <2> HIDE DEF Done
  <2> QED BY <1>1, <1>2, <2>1, NatSetInduction
<1> QED BY <1>3
-----------------------------------------------------------------------------
(* The capacity for a number of buckets.                                   *)
LEMMA Capacity ==
  ASSUME NEW m \in Nat \ {0}
  PROVE  /\ (m * 8) \div 3 \in Nat
         /\ 3 * ((m * 8) \div 3) <= 8 * m /\ 8 * m <= 3 * ((m * 8) \div 3) + 2
OBVIOUS

(* What is copied is sound, and what was listed: none of its keys is that  *)
(* of an entry still to come.                                              *)
Copied(c, s, m, f, n) ==
  /\ Sound(c, m)
  /\ c.capacity = (m * 8) \div 3
  /\ Pairs(c.entries) = f[n] /\ Len(c.entries) = Len(f[n])
  /\ \A i \in 1 .. Len(c.entries) : \E x \in 1 .. n :
       Live(s, x) /\ s.entries[x].key = c.entries[i].key

(* rehash starts from an empty table.                                      *)
LEMMA FreshSound ==
  ASSUME NEW m \in Nat \ {0}
  PROVE  /\ Sound(Fresh(m), m) /\ Fresh(m).entries = <<>>
         /\ Fresh(m).capacity = (m * 8) \div 3 /\ Pairs(<<>>) = <<>>
<1> DEFINE r == Fresh(m)
<1>1. /\ r.entries = <<>> /\ r.capacity = (m * 8) \div 3
      /\ r.buckets = [b \in 0 .. m - 1 |-> Nil]
      /\ r = [buckets |-> r.buckets, entries |-> <<>>, capacity |-> r.capacity, count |-> 0]
  BY DEF Fresh
<1> HIDE DEF r
<1>2. r.capacity \in Nat
  BY <1>1, Capacity
<1>3. r.buckets \in [0 .. m - 1 -> Nat] /\ \A b \in 0 .. m - 1 : r.buckets[b] \in 0 .. 0
  BY <1>1 DEF Nil
<1>4. <<>> \in Seq(Entry) /\ Len(<<>>) = 0
  OBVIOUS
<1>5. r \in Table(m)
  <2> DEFINE none == <<>>
  <2>1. none \in Seq(Entry)
    OBVIOUS
  <2>2. r = [buckets |-> r.buckets, entries |-> none, capacity |-> r.capacity, count |-> 0]
    BY <1>1
  <2> HIDE DEF none
  <2> QED BY <1>2, <1>3, <2>1, <2>2 DEF Table
<1>6. Shape(r, m)
  BY <1>1, <1>3, <1>4, <1>5 DEF Shape
<1>7. Linked(r, m) /\ Unique(r)
  BY <1>1, <1>4 DEF Linked, Unique
<1>8. Pairs(<<>>) = <<>>
  <2>1. PICK f : Listing(f, <<>>) /\ Pairs(<<>>) = f[Len(<<>>)]
    BY <1>4, Listed
  <2> QED BY <1>4, <2>1 DEF Listing
<1> QED BY <1>1, <1>6, <1>7, <1>8 DEF Sound, r

(* Copying an entry.                                                       *)
LEMMA CopySound ==
  ASSUME Given, NEW l, NEW s, Sound(s, l), NEW m \in Nat \ {0},
         NEW f, Listing(f, s.entries), NEW n \in 1 .. Len(s.entries),
         NEW c, Copied(c, s, m, f, n - 1)
  PROVE  Copied(IF s.entries[n].deleted THEN c ELSE Link(c, s.entries[n].key, s.entries[n].value),
                s, m, f, n)
<1> DEFINE e == s.entries[n]
<1>1. s.entries \in Seq(Entry) /\ Len(s.entries) \in Nat
  BY DEF Sound, Shape, Table
<1>2. e \in Entry /\ e.key \in Keys /\ e.value \in Values
  <2>1. e \in Entry
    BY <1>1
  <2> HIDE DEF e
  <2> QED BY <2>1 DEF Entry
<1>3. /\ n \in Nat /\ \A x \in 1 .. (n - 1) : x \in 1 .. n /\ x # n /\ x \in 1 .. Len(s.entries)
      /\ n \in 1 .. n /\ n - 1 \in 0 .. Len(s.entries)
  BY <1>1
<1>4. f[n] = IF e.deleted THEN f[n - 1] ELSE Append(f[n - 1], PairOf(e))
  BY DEF Listing
<1> HIDE DEF e
<1>5. CASE e.deleted
  <2>1. Copied(c, s, m, f, n)
    BY <1>3, <1>4, <1>5 DEF Copied
  <2> QED BY <1>5, <2>1 DEF e
<1>6. CASE ~e.deleted
  <2> DEFINE r == Link(c, e.key, e.value)
  <2>1. \A i \in 1 .. Len(c.entries) : Live(c, i) => c.entries[i].key # e.key
    <3> SUFFICES ASSUME NEW i \in 1 .. Len(c.entries), c.entries[i].key = e.key PROVE FALSE
      OBVIOUS
    <3>1. PICK x \in 1 .. (n - 1) : Live(s, x) /\ s.entries[x].key = c.entries[i].key
      BY DEF Copied
    <3>2. Live(s, n)
      BY <1>6 DEF Live, e
    <3> QED BY <1>3, <3>1, <3>2 DEF Sound, Unique, e
  <2>2. /\ Sound(r, m) /\ Len(r.entries) = Len(c.entries) + 1
        /\ \A i \in 1 .. Len(c.entries) : r.entries[i] = c.entries[i]
        /\ r.entries[Len(c.entries) + 1].key = e.key
        /\ r.capacity = c.capacity
        /\ Pairs(r.entries) = Append(Pairs(c.entries), [key |-> e.key, value |-> e.value])
    <3> DEFINE k == e.key
               v == e.value
    <3>1. k \in Keys /\ v \in Values /\ Sound(c, m)
      BY <1>2 DEF Copied
    <3>2. \A i \in 1 .. Len(c.entries) : Live(c, i) => c.entries[i].key # k
      BY <2>1
    <3> HIDE DEF k, v
    <3> DEFINE w == Link(c, k, v)
    <3>3. /\ Sound(w, m) /\ Len(w.entries) = Len(c.entries) + 1
          /\ \A i \in 1 .. Len(c.entries) : w.entries[i] = c.entries[i]
          /\ w.entries[Len(c.entries) + 1].key = k
          /\ w.capacity = c.capacity
          /\ Pairs(w.entries) = Append(Pairs(c.entries), [key |-> k, value |-> v])
      BY <3>1, <3>2, LinkSound
    <3> QED BY <3>3 DEF k, v
  <2> HIDE DEF r
  <2>3. f[n] = Append(f[n - 1], PairOf(e)) /\ f[n - 1] \in Seq(Pair)
    BY <1>3, <1>4, <1>6 DEF Listing
  <2>4. Len(f[n]) = Len(f[n - 1]) + 1
    BY <2>3
  <2>5. Pairs(r.entries) = f[n] /\ Len(r.entries) = Len(f[n])
    BY <2>2, <2>3, <2>4 DEF Copied, PairOf
  <2>6. Len(c.entries) \in Nat
    BY DEF Copied, Sound, Shape, Table
  <2>7. ASSUME NEW i \in 1 .. Len(r.entries)
        PROVE  \E x \in 1 .. n : Live(s, x) /\ s.entries[x].key = r.entries[i].key
    <3>1. i \in 1 .. Len(c.entries) \/ i = Len(c.entries) + 1
      BY <2>2, <2>6
    <3>2. CASE i \in 1 .. Len(c.entries)
      <4>1. PICK x \in 1 .. (n - 1) : Live(s, x) /\ s.entries[x].key = c.entries[i].key
        BY <3>2 DEF Copied
      <4> QED BY <1>3, <2>2, <3>2, <4>1
    <3>3. CASE i = Len(c.entries) + 1
      <4>1. Live(s, n) /\ s.entries[n].key = e.key
        BY <1>6 DEF Live, e
      <4> QED BY <1>3, <2>2, <3>3, <4>1
    <3> QED BY <3>1, <3>2, <3>3
  <2>8. Copied(r, s, m, f, n)
    BY <2>2, <2>5, <2>7 DEF Copied
  <2> QED BY <1>6, <2>8 DEF r, e
<1> QED BY <1>5, <1>6

(* rehash keeps what is listed, and nothing else.                          *)
LEMMA RehashSound ==
  ASSUME Given, NEW l, NEW s, Sound(s, l), NEW m \in Nat \ {0}
  PROVE  LET r == Rehash(s, m)
         IN  /\ Sound(r, m) /\ r.capacity = (m * 8) \div 3 /\ r.count = s.count
             /\ Pairs(r.entries) = Pairs(s.entries)
             /\ Len(r.entries) = Len(Pairs(s.entries))
<1> DEFINE N == Len(s.entries)
           Next1(n, c) == IF s.entries[n].deleted THEN c
                          ELSE Link(c, s.entries[n].key, s.entries[n].value)
           base == Fresh(m)
<1>1. s.entries \in Seq(Entry) /\ N \in Nat /\ s.count \in Nat
  BY DEF Sound, Shape, Table
<1>2. PICK f : Listing(f, s.entries) /\ Pairs(s.entries) = f[Len(s.entries)]
  BY <1>1, Listed
<1> DEFINE H == [n \in 0 .. N |-> {c \in Table(m) : Copied(c, s, m, f, n)}]
           step == [p \in (1 .. N) \X Table(m) |-> Next1(p[1], p[2])]
           Folds(g) == g = [n \in 0 .. N |->
                              IF n = 0 THEN Fresh(m)
                              ELSE IF s.entries[n].deleted THEN g[n - 1]
                              ELSE Link(g[n - 1], s.entries[n].key, s.entries[n].value)]
<1>3. \A n \in 1 .. N : n \in 0 .. N /\ n - 1 \in 0 .. N /\ n # 0
  BY <1>1
<1>4. \A c : \A n \in 0 .. N : Copied(c, s, m, f, n) => c \in Table(m)
  BY DEF Copied, Sound, Shape
<1>5. Copied(base, s, m, f, 0)
  <2>1. /\ Sound(base, m) /\ base.entries = <<>>
        /\ base.capacity = (m * 8) \div 3 /\ Pairs(base.entries) = <<>>
    BY FreshSound
  <2>2. f[0] = <<>> /\ Len(<<>>) = 0
    BY <1>2 DEF Listing
  <2> HIDE DEF base
  <2> QED BY <2>1, <2>2 DEF Copied
<1>6. \A n \in 1 .. N : \A c : Copied(c, s, m, f, n - 1) => Copied(Next1(n, c), s, m, f, n)
  BY <1>2, CopySound
<1>7. \A n \in 0 .. N : \A c : c \in H[n] <=> Copied(c, s, m, f, n)
  BY <1>4
<1>8. \A n \in 1 .. N : \A c \in Table(m) : step[<<n, c>>] = Next1(n, c)
  <2> HIDE DEF Next1
  <2> QED OBVIOUS
<1> HIDE DEF N, H, step, base, Next1
<1>9. \A n \in 1 .. N : \A c \in H[n - 1] : step[<<n, c>>] \in H[n]
  <2> SUFFICES ASSUME NEW n \in 1 .. N, NEW c \in H[n - 1] PROVE step[<<n, c>>] \in H[n]
    OBVIOUS
  <2>1. Copied(c, s, m, f, n - 1) /\ c \in Table(m)
    BY <1>3, <1>4, <1>7
  <2>2. step[<<n, c>>] = Next1(n, c)
    BY <1>8, <2>1
  <2>3. Copied(step[<<n, c>>], s, m, f, n)
    BY <1>6, <2>1, <2>2
  <2> QED BY <1>3, <1>7, <2>3
<1>10. base \in H[0] /\ 0 \in 0 .. N /\ N \in 0 .. N
  BY <1>1, <1>5, <1>7
<1>11. PICK g : IsRecursive(g, N, H, base, step)
  BY <1>1, <1>9, <1>10, Recursion
<1>12. g = [n \in 0 .. N |-> g[n]] /\ g[0] = base
  BY <1>11 DEF IsRecursive
<1>13. \A n \in 0 .. N : Copied(g[n], s, m, f, n)
  BY <1>7, <1>11 DEF IsRecursive
<1>14. \A n \in 1 .. N : g[n] = Next1(n, g[n - 1])
  <2> SUFFICES ASSUME NEW n \in 1 .. N PROVE g[n] = Next1(n, g[n - 1])
    OBVIOUS
  <2>1. g[n] = step[<<n, g[n - 1]>>]
    BY <1>11 DEF IsRecursive
  <2>2. g[n - 1] \in Table(m)
    BY <1>3, <1>4, <1>13
  <2> QED BY <1>8, <2>1, <2>2
<1>15. Folds(g)
  <2>1. \A n \in 0 .. N : n = 0 \/ n \in 1 .. N
    BY <1>1
  <2> QED BY <1>12, <1>14, <2>1 DEF Next1, base
<1> DEFINE u == CHOOSE g_1 : Folds(g_1)
<1>16. Folds(u)
  BY <1>15
<1>17. Rehash(s, m) = [u[N] EXCEPT !.count = s.count]
  BY DEF Rehash, N
<1> HIDE DEF u
<1>18. u[0] = base
  BY <1>10, <1>16 DEF base
<1>19. ASSUME NEW n \in 1 .. N PROVE u[n] = Next1(n, u[n - 1])
  <2>1. n \in 0 .. N /\ n # 0
    BY <1>3
  <2>2. u[n] = IF n = 0 THEN Fresh(m)
               ELSE IF s.entries[n].deleted THEN u[n - 1]
               ELSE Link(u[n - 1], s.entries[n].key, s.entries[n].value)
    BY <1>16, <2>1
  <2> QED BY <2>1, <2>2 DEF Next1
<1> HIDE DEF Folds
<1> DEFINE Done == {n \in Nat : n <= N => u[n] = g[n]}
<1>20. 0 \in Done
  BY <1>12, <1>18
<1>21. \A n \in Done : n + 1 \in Done
  <2> SUFFICES ASSUME NEW n \in Done, n + 1 <= N PROVE u[n + 1] = g[n + 1]
    OBVIOUS
  <2>1. n + 1 \in 1 .. N /\ (n + 1) - 1 = n /\ n <= N
    BY <1>1
  <2>2. u[n] = g[n]
    BY <2>1
  <2> HIDE DEF Done
  <2>3. u[n + 1] = Next1(n + 1, u[n]) /\ g[n + 1] = Next1(n + 1, g[n])
    BY <1>14, <1>19, <2>1
  <2> QED BY <2>2, <2>3
<1>22. u[N] = g[N]
  <2>1. Done \subseteq Nat
    OBVIOUS
  <2>2. Done = Nat
    <3> HIDE DEF Done
    <3> QED BY <1>20, <1>21, <2>1, NatSetInduction
  <2>3. N <= N
    BY <1>1
  <2> QED BY <1>1, <2>2, <2>3
<1> DEFINE c == g[N]
           r == [c EXCEPT !.entries = c.entries, !.count = s.count]
<1>23. Copied(c, s, m, f, N)
  BY <1>10, <1>13
<1> HIDE DEF c
<1>24. c \in Table(m) /\ c.entries \in Seq(Entry)
  BY <1>23 DEF Copied, Sound, Shape, Table
<1>25. Rehash(s, m) = r
  BY <1>17, <1>22, <1>24 DEF Table, c
<1>26. r.entries = c.entries /\ r.capacity = c.capacity /\ r.count = s.count
  BY <1>24 DEF Table
<1>27. Sound(r, m)
  BY <1>1, <1>23, <1>24, RewrittenSound DEF Copied
<1> HIDE DEF r
<1> QED BY <1>2, <1>23, <1>25, <1>26, <1>27 DEF Copied, N
-----------------------------------------------------------------------------
(* A table with n buckets whose entries fit, counted.                      *)
Holds(s, n) ==
  /\ Sound(s, n) /\ InitialCapacity <= n
  /\ Len(s.entries) <= s.capacity /\ 3 * s.capacity <= 8 * n
  /\ s.count = Len(Pairs(s.entries))

(* The inductive invariant.                                                *)
Inv == \E n \in Nat \ {0} : Holds(t, n)

(* The numbers of a sound table.                                           *)
LEMMA Numbers ==
  ASSUME NEW n, NEW s, Sound(s, n)
  PROVE  /\ n \in Nat \ {0} /\ s \in Table(n) /\ s.entries \in Seq(Entry)
         /\ Len(s.entries) \in Nat /\ s.capacity \in Nat /\ s.count \in Nat
         /\ Pairs(s.entries) \in Seq(Pair)
         /\ Len(Pairs(s.entries)) \in Nat /\ Len(Pairs(s.entries)) <= Len(s.entries)
<1>1. /\ n \in Nat \ {0} /\ s \in Table(n) /\ s.entries \in Seq(Entry)
      /\ Len(s.entries) \in Nat /\ s.capacity \in Nat /\ s.count \in Nat
  BY DEF Sound, Shape, Table
<1>2. PICK f : Listing(f, s.entries) /\ Pairs(s.entries) = f[Len(s.entries)]
  BY <1>1, Listed
<1>3. Len(s.entries) \in 0 .. Len(s.entries)
  BY <1>1
<1>4. Len(f[Len(s.entries)]) \in Nat /\ Len(f[Len(s.entries)]) <= Len(s.entries)
  BY <1>1, <1>2, <1>3, FewPairs
<1>5. Pairs(s.entries) \in Seq(Pair)
  BY <1>1, PairsHave
<1> QED BY <1>1, <1>2, <1>4, <1>5

(* A key that find does not find has no live entry, and is not listed.     *)
LEMMA NotFound ==
  ASSUME Given, NEW n, NEW s, Sound(s, n), NEW k \in Keys
  PROVE  /\ Find(s, k) = {} <=> \A i \in 1 .. Len(s.entries) : Live(s, i) => s.entries[i].key # k
         /\ Find(s, k) = {} <=> ~HasPair(Pairs(s.entries), k)
<1>1. Find(s, k) = {i \in 1 .. Len(s.entries) : Live(s, i) /\ s.entries[i].key = k}
  BY FindIs
<1>2. HasPair(Pairs(s.entries), k) <=> HasEntry(s.entries, k)
  BY Numbers, PairsHave
<1>3. Find(s, k) = {} <=> \A i \in 1 .. Len(s.entries) : Live(s, i) => s.entries[i].key # k
  BY <1>1
<1>4. Find(s, k) = {} <=> ~HasEntry(s.entries, k)
  BY <1>1 DEF HasEntry, Live
<1> QED BY <1>2, <1>3, <1>4

(* rehash leaves room for an entry, if it makes more buckets, or as many   *)
(* and fewer entries than there was room for.                              *)
LEMMA RoomyHolds ==
  ASSUME Given, NEW n \in Nat \ {0}, NEW s, Holds(s, n)
  PROVE  \E m \in Nat \ {0} : /\ Holds(Roomy(s), m)
                              /\ Len(Roomy(s).entries) < Roomy(s).capacity
                              /\ Pairs(Roomy(s).entries) = Pairs(s.entries)
<1>1. Sound(s, n)
  BY DEF Holds
<1>2. NumBuckets(s) = n
  BY <1>1, Numbers, Counted
<1>3. CASE Len(s.entries) # s.capacity
  <2>1. Roomy(s) = s
    BY <1>3 DEF Roomy
  <2>2. Len(s.entries) < s.capacity
    BY <1>1, <1>3, Numbers DEF Holds
  <2> QED BY <2>1, <2>2
<1>4. CASE Len(s.entries) = s.capacity
  <2> DEFINE m == IF MostlyEmpty(s) THEN n ELSE 2 * n
             r == Rehash(s, m)
             c == Len(Pairs(s.entries))
             room == (m * 8) \div 3
  <2>1. Roomy(s) = r
    BY <1>2, <1>4 DEF Roomy
  <2>2. m \in Nat \ {0} /\ n <= m
    OBVIOUS
  <2> HIDE DEF m
  <2>3. /\ Sound(r, m) /\ r.capacity = room /\ r.count = s.count
        /\ Pairs(r.entries) = Pairs(s.entries)
        /\ Len(r.entries) = c
    BY <1>1, <2>2, RehashSound
  <2>4. /\ c \in Nat /\ c <= Len(s.entries) /\ s.capacity \in Nat /\ 3 * s.capacity <= 8 * n
        /\ s.count = c /\ InitialCapacity <= n
    BY <1>1, Numbers DEF Holds
  <2>5. room \in Nat /\ 3 * room <= 8 * m /\ 8 * m <= 3 * room + 2
    BY <2>2, Capacity
  <2> HIDE DEF r, c, room
  <2>6. c < room
    <3>1. CASE MostlyEmpty(s)
      <4>1. m = n
        BY <3>1 DEF m
      <4>2. c < (s.capacity * 3) \div 4
        BY <2>4, <3>1 DEF MostlyEmpty
      <4>3. (s.capacity * 3) \div 4 <= s.capacity
        BY <2>4
      <4>4. c < s.capacity
        BY <2>4, <4>2, <4>3
      <4> QED BY <2>4, <2>5, <4>1, <4>4
    <3>2. CASE ~MostlyEmpty(s)
      <4>1. m = 2 * n
        BY <3>2 DEF m
      <4> QED BY <1>4, <2>4, <2>5, <4>1
    <3> QED BY <3>1, <3>2
  <2>7. InitialCapacity <= m
    BY <2>2, <2>4 DEF Given
  <2>8. Holds(r, m)
    BY <2>3, <2>4, <2>5, <2>6, <2>7 DEF Holds, c
  <2> QED BY <2>1, <2>2, <2>3, <2>6, <2>8
<1> QED BY <1>3, <1>4

(* The empty table.                                                        *)
LEMMA EmptyHolds == ASSUME Given PROVE Holds(Empty, InitialCapacity) /\ Pairs(Empty.entries) = <<>>
<1> DEFINE r == Empty
           none == <<>>
<1>1. /\ r.entries = none /\ r.capacity = InitialCapacity /\ r.count = 0
      /\ r.buckets = [b \in 0 .. InitialCapacity - 1 |-> Nil]
      /\ r = [buckets |-> r.buckets, entries |-> none, capacity |-> r.capacity, count |-> 0]
  BY DEF Empty
<1>2. InitialCapacity \in Nat \ {0}
  BY DEF Given
<1>3. none \in Seq(Entry) /\ Len(none) = 0 /\ Pairs(none) = none
  BY <1>2, FreshSound
<1> HIDE DEF r, none
<1>4. /\ r.buckets \in [0 .. InitialCapacity - 1 -> Nat]
      /\ \A b \in 0 .. InitialCapacity - 1 : r.buckets[b] \in 0 .. 0
  BY <1>1 DEF Nil
<1>5. r \in Table(InitialCapacity)
  BY <1>1, <1>2, <1>3, <1>4 DEF Table
<1>6. Shape(r, InitialCapacity)
  BY <1>1, <1>2, <1>3, <1>4, <1>5 DEF Shape
<1>7. Linked(r, InitialCapacity) /\ Unique(r)
  BY <1>1, <1>3 DEF Linked, Unique
<1>8. Holds(r, InitialCapacity)
  BY <1>1, <1>2, <1>3, <1>6, <1>7 DEF Holds, Sound
<1> QED BY <1>1, <1>3, <1>8 DEF r, none
-----------------------------------------------------------------------------
(* set, of a new key and of one that the table has.                        *)
LEMMA SetMaps ==
  ASSUME Given, Inv, NEW k \in Keys, NEW v \in Values, Set(k, v)
  PROVE  Inv' /\ OM!Set(k, v)
<1>1. PICK n \in Nat \ {0} : Holds(t, n)
  BY DEF Inv
<1>2. Sound(t, n)
  BY <1>1 DEF Holds
<1>3. OM!Has(k) <=> Find(t, k) # {}
  BY <1>2, NotFound DEF OM!Has, Present, HasPair
<1>4. CASE Find(t, k) = {}
  <2> DEFINE r == Roomy(t)
  <2>1. PICK m \in Nat \ {0} : /\ Holds(r, m) /\ Len(r.entries) < r.capacity
                               /\ Pairs(r.entries) = Pairs(t.entries)
    BY <1>1, RoomyHolds
  <2>2. t' = Link(r, k, v)
    BY <1>4 DEF Set
  <2> HIDE DEF r
  <2>3. Sound(r, m)
    BY <2>1 DEF Holds
  <2>4. \A i \in 1 .. Len(r.entries) : Live(r, i) => r.entries[i].key # k
    <3>1. ~HasPair(Pairs(r.entries), k)
      BY <1>2, <1>4, <2>1, NotFound
    <3> QED BY <2>3, <3>1, NotFound
  <2> DEFINE w == Link(r, k, v)
  <2>5. /\ Sound(w, m) /\ Len(w.entries) = Len(r.entries) + 1
        /\ w.capacity = r.capacity /\ w.count = r.count + 1
        /\ Pairs(w.entries) = Append(Pairs(r.entries), [key |-> k, value |-> v])
    BY <2>3, <2>4, LinkSound
  <2> HIDE DEF w
  <2>6. /\ Len(r.entries) \in Nat /\ r.capacity \in Nat /\ Pairs(r.entries) \in Seq(Pair)
        /\ [key |-> k, value |-> v] \in Pair
    BY <2>3, Numbers DEF Pair
  <2>7. Len(Pairs(w.entries)) = Len(Pairs(r.entries)) + 1
    BY <2>5, <2>6
  <2>8. Len(w.entries) <= w.capacity
    BY <2>1, <2>5, <2>6
  <2>9. Holds(w, m)
    BY <2>1, <2>5, <2>7, <2>8 DEF Holds
  <2>10. t' = w
    BY <2>2 DEF w
  <2>11. Inv'
    BY <2>9, <2>10 DEF Inv
  <2>12. Present' = Append(Present, [key |-> k, value |-> v])
    BY <2>1, <2>5, <2>10 DEF Present
  <2> QED BY <1>3, <1>4, <2>11, <2>12 DEF OM!Set
<1>5. CASE Find(t, k) # {}
  <2> DEFINE other == Updated(t.entries, k, v)
             r == [t EXCEPT !.entries = other, !.count = t.count]
  <2>1. /\ t \in Table(n) /\ t.entries \in Seq(Entry) /\ DOMAIN t.entries = 1 .. Len(t.entries)
        /\ Len(t.entries) \in Nat /\ t.count \in Nat
    BY <1>2, Numbers
  <2>2. other = [i \in DOMAIN t.entries |->
                   IF i \in Find(t, k) THEN [t.entries[i] EXCEPT !.value = v] ELSE t.entries[i]]
    BY <1>2, <2>1, FindIs DEF Updated, Live
  <2>3. other \in Seq(Entry) /\ Pairs(other) = Renewed(Pairs(t.entries), k, v)
    BY <2>1, PairsUpdated
  <2>4. Len(other) = Len(t.entries)
    BY <2>1, <2>2, <2>3
  <2>5. \A i \in 1 .. Len(other) : /\ other[i].key = t.entries[i].key
                                   /\ other[i].next = t.entries[i].next
                                   /\ t.entries[i].deleted => other[i].deleted
    <3> SUFFICES ASSUME NEW i \in 1 .. Len(other)
                 PROVE  /\ other[i].key = t.entries[i].key
                        /\ other[i].next = t.entries[i].next
                        /\ t.entries[i].deleted => other[i].deleted
      OBVIOUS
    <3>1. t.entries[i] \in Entry
      BY <2>1, <2>4
    <3>2. other[i] = t.entries[i] \/ other[i] = [t.entries[i] EXCEPT !.value = v]
      BY <2>1, <2>2, <2>4
    <3> HIDE DEF other
    <3> QED BY <3>1, <3>2 DEF Entry
  <2>6. t' = r
    BY <1>5, <2>1, <2>2 DEF Set, Table
  <2> HIDE DEF other
  <2>7. Sound(r, n)
    BY <1>2, <2>1, <2>3, <2>4, <2>5, RewrittenSound
  <2>8. r.entries = other /\ r.capacity = t.capacity /\ r.count = t.count
    BY <2>1 DEF Table
  <2> HIDE DEF r
  <2>9. Len(Pairs(other)) = Len(Pairs(t.entries))
    <3>1. Pairs(t.entries) \in Seq(Pair)
      BY <1>2, Numbers
    <3> DEFINE q == Pairs(t.entries)
               w == Renewed(q, k, v)
    <3> HIDE DEF q
    <3>2. q \in Seq(Pair) /\ DOMAIN q = 1 .. Len(q) /\ Len(q) \in Nat
      BY <3>1 DEF q
    <3>3. DOMAIN w = 1 .. Len(q)
      BY <3>2 DEF Renewed
    <3>5. k \in Keys /\ [key |-> k, value |-> v] \in Pair
      BY DEF Pair
    <3>4. w \in Seq(Pair)
      BY <2>3, Numbers, <2>7, <2>8 DEF q
    <3> HIDE DEF w
    <3>6. Len(w) = Len(q)
      BY <3>2, <3>3, <3>4
    <3> QED BY <2>3, <3>6 DEF q, w
  <2>10. Holds(r, n)
    BY <1>1, <2>4, <2>7, <2>8, <2>9 DEF Holds
  <2>11. Inv'
    BY <2>6, <2>10 DEF Inv
  <2>12. Present' = Renewed(Present, k, v)
    BY <2>3, <2>6, <2>8 DEF Present
  <2> QED BY <1>3, <1>5, <2>11, <2>12 DEF OM!Set, Renewed
<1> QED BY <1>4, <1>5

(* delete, with and without a rehash.                                      *)
LEMMA DeleteMaps ==
  ASSUME Given, Inv, NEW k \in Keys, Delete(k)
  PROVE  Inv' /\ OM!Delete(k)
<1>1. PICK n \in Nat \ {0} : Holds(t, n)
  BY DEF Inv
<1>2. Sound(t, n) /\ NumBuckets(t) = n
  BY <1>1, Numbers, Counted DEF Holds
<1>3. /\ t \in Table(n) /\ t.entries \in Seq(Entry) /\ DOMAIN t.entries = 1 .. Len(t.entries)
      /\ Len(t.entries) \in Nat /\ t.count \in Nat /\ t.capacity \in Nat
  BY <1>2, Numbers
<1>4. Find(t, k) = {i \in 1 .. Len(t.entries) : Live(t, i) /\ t.entries[i].key = k}
  BY <1>2, FindIs
<1>5. PICK at \in 1 .. Len(t.entries) : Live(t, at) /\ t.entries[at].key = k
  BY <1>4 DEF Delete
<1> DEFINE other == Marked(t.entries, k)
           less == t.count - 1
           marked == [t EXCEPT !.count = less, !.entries = other]
           half == n \div 2
<1>6. PICK p \in DOMAIN Pairs(t.entries) :
        /\ Pairs(t.entries)[p].key = k
        /\ Pairs(other) = RemoveAt(Pairs(t.entries), p)
        /\ Len(Pairs(other)) = Len(Pairs(t.entries)) - 1
        /\ other \in Seq(Entry) /\ Len(other) = Len(t.entries)
  <2>1. ~t.entries[at].deleted
    BY <1>5 DEF Live
  <2>2. \A i \in 1 .. Len(t.entries) :
          ~t.entries[i].deleted /\ t.entries[i].key = t.entries[at].key => i = at
    BY <1>2, <1>5 DEF Sound, Unique, Live
  <2> QED BY <1>3, <1>5, <2>1, <2>2, PairsMarked
<1>7. other = [i \in DOMAIN t.entries |->
                 IF i \in Find(t, k) THEN [t.entries[i] EXCEPT !.deleted = TRUE] ELSE t.entries[i]]
  BY <1>3, <1>4 DEF Marked, Live
<1>8. t' = IF half >= InitialCapacity /\ half >= marked.count /\ MostlyEmpty(marked)
           THEN Rehash(marked, half) ELSE marked
  BY <1>2, <1>7 DEF Delete
<1>9. \A i \in 1 .. Len(other) : /\ other[i].key = t.entries[i].key
                                 /\ other[i].next = t.entries[i].next
                                 /\ t.entries[i].deleted => other[i].deleted
  <2> SUFFICES ASSUME NEW i \in 1 .. Len(other)
               PROVE  /\ other[i].key = t.entries[i].key
                      /\ other[i].next = t.entries[i].next
                      /\ t.entries[i].deleted => other[i].deleted
    OBVIOUS
  <2>1. t.entries[i] \in Entry
    BY <1>3, <1>6
  <2>2. other[i] = t.entries[i] \/ other[i] = [t.entries[i] EXCEPT !.deleted = TRUE]
    BY <1>3, <1>6, <1>7
  <2> HIDE DEF other
  <2> QED BY <2>1, <2>2 DEF Entry
<1> HIDE DEF other
<1>10. less \in Nat /\ less = Len(Pairs(other))
  <2>1. DOMAIN Pairs(t.entries) = 1 .. Len(Pairs(t.entries)) /\ Len(Pairs(t.entries)) \in Nat
    BY <1>2, Numbers
  <2>2. t.count = Len(Pairs(t.entries))
    BY <1>1 DEF Holds
  <2>3. Len(Pairs(t.entries)) >= 1
    BY <1>6, <2>1
  <2> QED BY <1>6, <2>1, <2>2, <2>3
<1> HIDE DEF less
<1>11. marked = [t EXCEPT !.entries = other, !.count = less]
  BY <1>3 DEF Table
<1>12. /\ Sound(marked, n) /\ marked.entries = other
       /\ marked.count = less /\ marked.capacity = t.capacity
  <2>1. /\ marked.entries = other /\ marked.count = less /\ marked.capacity = t.capacity
    BY <1>3 DEF Table
  <2> HIDE DEF marked
  <2>2. Sound([t EXCEPT !.entries = other, !.count = less], n)
    BY <1>2, <1>6, <1>9, <1>10, RewrittenSound
  <2> QED BY <1>11, <2>1, <2>2
<1> HIDE DEF marked
<1>13. \E m \in Nat \ {0} : Holds(t', m) /\ Pairs(t'.entries) = Pairs(other)
  <2>1. CASE half >= InitialCapacity /\ half >= less /\ MostlyEmpty(marked)
    <3> DEFINE r == Rehash(marked, half)
               room == (half * 8) \div 3
    <3>1. half \in Nat \ {0} /\ InitialCapacity <= half
      BY <2>1 DEF Given
    <3> HIDE DEF half
    <3>2. /\ Sound(r, half) /\ r.capacity = room /\ r.count = less
          /\ Pairs(r.entries) = Pairs(other) /\ Len(r.entries) = Len(Pairs(other))
      BY <1>12, <3>1, RehashSound
    <3>3. room \in Nat /\ 3 * room <= 8 * half /\ 8 * half <= 3 * room + 2
      BY <3>1, Capacity
    <3>4. t' = r
      BY <1>8, <1>12, <2>1
    <3> HIDE DEF r, room
    <3>5. less <= room
      BY <1>10, <2>1, <3>1, <3>3
    <3>6. Holds(r, half)
      BY <1>10, <3>1, <3>2, <3>3, <3>5 DEF Holds
    <3> QED BY <3>1, <3>2, <3>4, <3>6
  <2>2. CASE ~(half >= InitialCapacity /\ half >= less /\ MostlyEmpty(marked))
    <3>1. t' = marked
      BY <1>8, <1>12, <2>2
    <3>2. Holds(marked, n)
      BY <1>1, <1>6, <1>10, <1>12 DEF Holds
    <3> QED BY <1>12, <3>1, <3>2
  <2> QED BY <2>1, <2>2
<1>14. Inv'
  BY <1>13 DEF Inv
<1>15. Present' = RemoveAt(Present, p) /\ p \in DOMAIN Present /\ Present[p].key = k
  BY <1>6, <1>13 DEF Present
<1> QED BY <1>14, <1>15 DEF OM!Delete, OM!RemoveAt, RemoveAt

(* clear.                                                                  *)
LEMMA ClearMaps == ASSUME Given, Clear PROVE Inv' /\ OM!Clear
<1>1. t' = Empty /\ InitialCapacity \in Nat \ {0}
  BY DEF Clear, Given
<1> QED BY <1>1, EmptyHolds DEF Inv, Present, OM!Clear

(* The table is sound at any time.                                         *)
LEMMA InvHolds == ASSUME Given PROVE Spec => []Inv
<1>1. Init => Inv
  BY EmptyHolds DEF Init, Inv, Given
<1>2. Inv /\ [Next]_t => Inv'
  <2> SUFFICES ASSUME Inv, [Next]_t PROVE Inv'
    OBVIOUS
  <2>1. CASE Next
    BY <2>1, SetMaps, DeleteMaps, ClearMaps DEF Next
  <2>2. CASE UNCHANGED t
    BY <2>2 DEF Inv
  <2> QED BY <2>1, <2>2
<1> QED BY <1>1, <1>2, PTL DEF Spec

(* Whatever collides, and whenever the table is made larger or smaller, it *)
(* is a map that keeps the order of insertion: find finds a key exactly    *)
(* when it was set and not deleted since, and rehash loses nothing.        *)
THEOREM KeepsOrder == ASSUME Given PROVE Spec => IsOrderedMap
<1>1. Init => OM!Init
  BY EmptyHolds DEF Init, OM!Init, Present
<1>2. Inv /\ [Next]_t => [OM!Next]_Present
  <2> SUFFICES ASSUME Inv, [Next]_t PROVE [OM!Next]_Present
    OBVIOUS
  <2>1. CASE Next
    BY <2>1, SetMaps, DeleteMaps, ClearMaps DEF Next, OM!Next
  <2>2. CASE UNCHANGED t
    BY <2>2 DEF Present
  <2> QED BY <2>1, <2>2
<1>3. Spec => []Inv
  BY InvHolds
<1> QED BY <1>1, <1>2, <1>3, PTL DEF Spec, IsOrderedMap, OM!Spec

(* No entry is written behind the end of the buffer: after rehash there is *)
(* room for the entry that set appends, and delete makes no buffer smaller *)
(* than what is left.  entriesCount is the number of live entries.         *)
THEOREM FitsItsBuffer == ASSUME Given PROVE Spec => []EntriesFit
<1>1. Inv => EntriesFit
  BY DEF Inv, Holds, EntriesFit, Present
<1>2. Spec => []Inv
  BY InvHolds
<1> QED BY <1>1, <1>2, PTL
=============================================================================
