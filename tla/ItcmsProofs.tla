---------------------------- MODULE ItcmsProofs ----------------------------
(***************************************************************************)
(* Proofs about Itcms, for any finite set of objects, whichever of them    *)
(* have no references, and any bounds: it implements TriColour, frees      *)
(* nothing the program can get at, and frees the rest in a full collection.*)
(***************************************************************************)
EXTENDS Itcms, FiniteSetTheorems, SequenceTheorems, WellFoundedInduction, TLAPS

(* Induction over the naturals, and over the subsets of a finite set.      *)
LEMMA SmallestOne ==
  ASSUME NEW U \in SUBSET Nat, U # {}
  PROVE  \E n \in U : \A m \in U : n <= m
<1> DEFINE Less == OpToRel(<, Nat)
<1>1. IsWellFoundedOn(Less, Nat)
  BY NatLessThanWellFounded
<1> HIDE DEF Less
<1>2. PICK n \in U : \A m \in U : ~(<<m, n>> \in Less)
  BY <1>1, WFMin
<1>3. \A m \in U : m < n => <<m, n>> \in Less
  BY DEF Less, OpToRel
<1>4. \A m \in U : ~(m < n)
  BY <1>2, <1>3
<1>5. \A m \in U : m \in Nat /\ n \in Nat
  OBVIOUS
<1> QED
  <2> SUFFICES ASSUME NEW m \in U PROVE n <= m
    OBVIOUS
  <2> QED BY <1>4, <1>5

(* A set of naturals with 0 and the successor of each of its members is    *)
(* Nat.                                                                    *)
LEMMA NatSetInduction ==
  ASSUME NEW U \in SUBSET Nat, 0 \in U, \A n \in U : n + 1 \in U
  PROVE  U = Nat
<1> SUFFICES ASSUME Nat \ U # {} PROVE FALSE
  OBVIOUS
<1>1. PICK n \in Nat \ U : \A m \in Nat \ U : n <= m
  BY SmallestOne
<1>2. n # 0 /\ n - 1 \in Nat
  BY <1>1
<1>3. n - 1 \in U
  BY <1>1, <1>2
<1> QED BY <1>1, <1>2, <1>3

(* A family of subsets of S that has each subset from which it has every   *)
(* subset with one member less has all of them.                            *)
LEMMA SubsetInduction ==
  ASSUME NEW S, IsFiniteSet(S), NEW U \in SUBSET (SUBSET S), {} \in U,
         \A s \in SUBSET S : s # {} /\ (\A x \in s : s \ {x} \in U) => s \in U
  PROVE  U = SUBSET S
<1> SUFFICES ASSUME (SUBSET S) \ U # {} PROVE FALSE
  OBVIOUS
<1>1. \A s \in SUBSET S : IsFiniteSet(s) /\ Cardinality(s) \in Nat
  BY FS_Subset, FS_CardinalityType
<1> DEFINE Sizes == {n \in Nat : \E s \in (SUBSET S) \ U : Cardinality(s) = n}
<1>2. Sizes \subseteq Nat /\ Sizes # {}
  BY <1>1
<1> HIDE DEF Sizes
<1>3. PICK n \in Sizes : \A m \in Sizes : n <= m
  BY <1>2, SmallestOne
<1>4. PICK s \in (SUBSET S) \ U : Cardinality(s) = n
  BY <1>3 DEF Sizes
<1>5. PICK x \in s : s \ {x} \notin U
  BY <1>4
<1>6. Cardinality(s \ {x}) = n - 1
  BY <1>1, <1>4, FS_RemoveElement
<1>7. s \ {x} \in (SUBSET S) \ U
  BY <1>4, <1>5
<1>8. Cardinality(s \ {x}) \in Sizes
  BY <1>1, <1>7 DEF Sizes
<1> QED BY <1>3, <1>6, <1>8, <1>2

(* it[s] is what folding step over s gives, for the subsets s of S: H[s]   *)
(* says what is true of the result.                                        *)
IsFold(it, S, pick, H, base, step) ==
  /\ it = [s \in SUBSET S |-> it[s]]
  /\ it[{}] = base
  /\ \A s \in SUBSET S :
       /\ s # {} => it[s] = step[<<pick[s], it[s \ {pick[s]}]>>]
       /\ it[s] \in H[s]

(* A fold over a finite set exists: one step of it, and what it keeps.     *)
LEMMA FoldExists ==
  ASSUME NEW S, IsFiniteSet(S),
         NEW pick, \A s \in SUBSET S : s # {} => pick[s] \in s,
         NEW H, NEW base, base \in H[{}],
         NEW step,
         \A s \in SUBSET S : \A x \in S \ s : \A h \in H[s] :
           step[<<x, h>>] \in H[s \cup {x}]
  PROVE  \E it : IsFold(it, S, pick, H, base, step)
<1> DEFINE Small(n) == {s \in SUBSET S : Cardinality(s) <= n}
           Fold(it, n) == /\ it = [s \in Small(n) |->
                                     IF s = {} THEN base
                                     ELSE step[<<pick[s], it[s \ {pick[s]}]>>]]
                          /\ \A s \in Small(n) : it[s] \in H[s]
           Done == {n \in Nat : \E it : Fold(it, n)}
<1>1. \A s \in SUBSET S : /\ IsFiniteSet(s) /\ Cardinality(s) \in Nat
                          /\ Cardinality(s) = 0 <=> s = {}
                          /\ s # {} => Cardinality(s \ {pick[s]}) = Cardinality(s) - 1
  BY FS_Subset, FS_CardinalityType, FS_EmptySet, FS_RemoveElement
<1>2. 0 \in Done
  <2>1. \A s \in Small(0) : s = {} /\ s \in SUBSET S
    <3> SUFFICES ASSUME NEW s \in SUBSET S, Cardinality(s) <= 0 PROVE s = {}
      OBVIOUS
    <3>1. Cardinality(s) \in Nat /\ (Cardinality(s) = 0 <=> s = {})
      BY <1>1
    <3>2. Cardinality(s) = 0
      <4> HIDE DEF Small, Fold, Done
      <4> QED BY <3>1
    <3> QED BY <3>1, <3>2
  <2> HIDE DEF Small
  <2> DEFINE first == [s \in Small(0) |-> base]
  <2>2. first = [s \in Small(0) |->
                   IF s = {} THEN base ELSE step[<<pick[s], first[s \ {pick[s]}]>>]]
    BY <2>1
  <2>3. \A s \in Small(0) : first[s] \in H[s]
    BY <2>1
  <2>4. Fold(first, 0)
    BY <2>2, <2>3
  <2> QED BY <2>4
<1>3. ASSUME NEW n \in Done PROVE n + 1 \in Done
  <2>1. PICK it : Fold(it, n)
    BY <1>3
  <2> DEFINE more == [s \in Small(n + 1) |->
                        IF s \in Small(n) THEN it[s]
                        ELSE step[<<pick[s], it[s \ {pick[s]}]>>]]
  <2>2. n \in Nat /\ {} \in Small(n)
    BY <1>1
  <2>3. ASSUME NEW s \in Small(n + 1), s # {}
        PROVE  s \ {pick[s]} \in Small(n) /\ pick[s] \in s /\ s \in SUBSET S
    <3>1. s \in SUBSET S /\ Cardinality(s) <= n + 1 /\ Cardinality(s) \in Nat
      BY <1>1
    <3>2. Cardinality(s \ {pick[s]}) = Cardinality(s) - 1
      BY <1>1, <2>3, <3>1
    <3>3. Cardinality(s \ {pick[s]}) <= n
      BY <2>2, <3>1, <3>2
    <3> QED BY <2>3, <3>1, <3>3
  <2>4. ASSUME NEW s \in Small(n) PROVE s \in Small(n + 1)
    <3>1. s \in SUBSET S /\ Cardinality(s) <= n
      OBVIOUS
    <3>2. Cardinality(s) \in Nat
      BY <1>1, <3>1
    <3>3. Cardinality(s) <= n + 1
      BY <2>2, <3>1, <3>2
    <3> QED BY <3>1, <3>3
  <2> HIDE DEF Small
  <2>5. \A s \in Small(n) : it[s] = IF s = {} THEN base
                                    ELSE step[<<pick[s], it[s \ {pick[s]}]>>]
    BY <2>1
  <2>6. \A s \in Small(n + 1) :
          more[s] = IF s = {} THEN base ELSE step[<<pick[s], more[s \ {pick[s]}]>>]
    BY <2>2, <2>3, <2>4, <2>5
  <2>7. \A s \in Small(n + 1) : more[s] \in H[s]
    <3> SUFFICES ASSUME NEW s \in Small(n + 1), s \notin Small(n) PROVE more[s] \in H[s]
      BY <2>1
    <3>1. s # {} /\ s \ {pick[s]} \in Small(n) /\ pick[s] \in s /\ s \in SUBSET S
      BY <2>2, <2>3
    <3>2. it[s \ {pick[s]}] \in H[s \ {pick[s]}]
      BY <2>1, <3>1
    <3>3. step[<<pick[s], it[s \ {pick[s]}]>>] \in H[(s \ {pick[s]}) \cup {pick[s]}]
      BY <3>1, <3>2
    <3>4. (s \ {pick[s]}) \cup {pick[s]} = s
      BY <3>1
    <3> QED BY <3>3, <3>4
  <2>8. more = [s \in Small(n + 1) |->
                  IF s = {} THEN base ELSE step[<<pick[s], more[s \ {pick[s]}]>>]]
    <3> DEFINE again == [s \in Small(n + 1) |->
                  IF s = {} THEN base ELSE step[<<pick[s], more[s \ {pick[s]}]>>]]
    <3>1. \A s \in Small(n + 1) : more[s] = again[s]
      <4> HIDE DEF more
      <4> QED BY <2>6
    <3>2. DOMAIN more = Small(n + 1) /\ DOMAIN again = Small(n + 1)
      OBVIOUS
    <3>3. more = [s \in Small(n + 1) |-> more[s]] /\ again = [s \in Small(n + 1) |-> again[s]]
      OBVIOUS
    <3> HIDE DEF more, again
    <3>4. more = again
      BY <3>1, <3>3
    <3> QED BY <3>4 DEF again
  <2> HIDE DEF more
  <2>9. Fold(more, n + 1)
    BY <2>7, <2>8
  <2>10. n + 1 \in Nat
    BY <2>2
  <2> HIDE DEF Fold
  <2> QED BY <2>9, <2>10
<1>4. Done = Nat
  <2> HIDE DEF Done
  <2>1. Done \subseteq Nat
    BY DEF Done
  <2> QED BY <1>2, <1>3, <2>1, NatSetInduction
<1>5. Cardinality(S) \in Nat /\ Small(Cardinality(S)) = SUBSET S
  BY <1>1, FS_Subset, FS_CardinalityType
<1>6. PICK it : Fold(it, Cardinality(S))
  BY <1>4, <1>5
<1>7. it = [s \in SUBSET S |->
              IF s = {} THEN base ELSE step[<<pick[s], it[s \ {pick[s]}]>>]]
  BY <1>5, <1>6
<1>8. \A s \in SUBSET S : it[s] \in H[s]
  BY <1>5, <1>6
<1> HIDE DEF Fold, Done, Small
<1>9. \A s \in SUBSET S :
        it[s] = IF s = {} THEN base ELSE step[<<pick[s], it[s \ {pick[s]}]>>]
  BY <1>7
<1>10. it = [s \in SUBSET S |-> it[s]]
  BY <1>7
<1> QED BY <1>8, <1>9, <1>10 DEF IsFold

(* What each visit of an object keeps, visiting the objects of S keeps:    *)
(* VisitAll is a fold, whose recursion FoldExists gives a solution.        *)
LEMMA VisitAllFold ==
  ASSUME NEW g, NEW S, IsFiniteSet(S), NEW H, g \in H[{}],
         \A s \in SUBSET S : \A x \in S \ s : \A h \in H[s] : Visit(h, x) \in H[s \cup {x}]
  PROVE  VisitAll(g, S) \in H[S]
<1> DEFINE pick == [s \in SUBSET S |-> CHOOSE x \in s : TRUE]
           States == UNION {H[s] : s \in SUBSET S}
           step == [p \in S \X States |-> Visit(p[2], p[1])]
           Folds(it) == it = [s \in SUBSET S |->
                                IF s = {} THEN g
                                ELSE Visit(it[s \ {CHOOSE x \in s : TRUE}],
                                           CHOOSE x \in s : TRUE)]
<1>1. \A s \in SUBSET S : s # {} => pick[s] \in s
  OBVIOUS
<1>2. \A s \in SUBSET S : \A x \in S \ s : \A h \in H[s] :
        step[<<x, h>>] = Visit(h, x) /\ step[<<x, h>>] \in H[s \cup {x}]
  OBVIOUS
<1>3. \E it : IsFold(it, S, pick, H, g, step)
  <2> HIDE DEF pick, step, States, Folds
  <2>1. \A s \in SUBSET S : \A x \in S \ s : \A h \in H[s] : step[<<x, h>>] \in H[s \cup {x}]
    BY <1>2
  <2> QED BY <1>1, <2>1, FoldExists
<1>4. \E it : Folds(it)
  <2> HIDE DEF step, pick
  <2>1. PICK it : /\ it = [s \in SUBSET S |-> it[s]]
                  /\ it[{}] = g
                  /\ \A s \in SUBSET S :
                       /\ s # {} => it[s] = step[<<pick[s], it[s \ {pick[s]}]>>]
                       /\ it[s] \in H[s]
    BY <1>3 DEF IsFold
  <2>2. ASSUME NEW s \in SUBSET S, s # {}
        PROVE  it[s] = Visit(it[s \ {CHOOSE x \in s : TRUE}], CHOOSE x \in s : TRUE)
    <3>1. pick[s] = CHOOSE x \in s : TRUE
      BY DEF pick
    <3>2. pick[s] \in s /\ it[s \ {pick[s]}] \in H[s \ {pick[s]}]
      BY <1>1, <2>1, <2>2
    <3>5. s \ {pick[s]} \in SUBSET S /\ pick[s] \in S \ (s \ {pick[s]})
      BY <3>2
    <3>3. step[<<pick[s], it[s \ {pick[s]}]>>] = Visit(it[s \ {pick[s]}], pick[s])
      <4> HIDE DEF Folds, States
      <4> QED BY ONLY <1>2, <3>2, <3>5
    <3>4. it[s] = step[<<pick[s], it[s \ {pick[s]}]>>]
      BY <2>1, <2>2
    <3> QED BY <3>1, <3>3, <3>4, <2>2
  <2>3. it[{}] = g /\ it = [s \in SUBSET S |-> it[s]]
    BY <2>1
  <2>4. [s \in SUBSET S |-> it[s]] = [s \in SUBSET S |->
                                IF s = {} THEN g
                                ELSE Visit(it[s \ {CHOOSE x \in s : TRUE}],
                                           CHOOSE x \in s : TRUE)]
    BY <2>2, <2>3
  <2> QED BY <2>3, <2>4
<1> DEFINE fold == CHOOSE it : Folds(it)
<1>5. Folds(fold)
  <2> HIDE DEF Folds
  <2> QED BY <1>4
<1>6. VisitAll(g, S) = fold[S]
  BY DEF VisitAll, FoldSet, MapThenFoldSet
<1> HIDE DEF fold, step
<1>7. {s \in SUBSET S : fold[s] \in H[s]} = SUBSET S
  <2> DEFINE Kept == {s \in SUBSET S : fold[s] \in H[s]}
  <2>1. {} \in Kept
    BY <1>5
  <2>2. ASSUME NEW s \in SUBSET S, s # {}, \A x \in s : s \ {x} \in Kept
        PROVE  s \in Kept
    <3>1. pick[s] \in s /\ pick[s] = CHOOSE x \in s : TRUE
      BY <1>1, <2>2
    <3> HIDE DEF pick
    <3>2. fold[s] = Visit(fold[s \ {pick[s]}], pick[s])
      BY <1>5, <2>2, <3>1
    <3>3. fold[s \ {pick[s]}] \in H[s \ {pick[s]}]
      BY <2>2, <3>1
    <3>4. Visit(fold[s \ {pick[s]}], pick[s]) \in H[(s \ {pick[s]}) \cup {pick[s]}]
      BY <3>1, <3>3
    <3>5. (s \ {pick[s]}) \cup {pick[s]} = s
      BY <3>1
    <3> QED BY <3>2, <3>4, <3>5
  <2>3. Kept \in SUBSET (SUBSET S)
    OBVIOUS
  <2> HIDE DEF Kept
  <2>4. Kept = SUBSET S
    BY <2>1, <2>2, <2>3, SubsetInduction
  <2> QED BY <2>4 DEF Kept
<1> QED BY <1>6, <1>7
-----------------------------------------------------------------------------
(* A space is a doubly linked list, which an object is in at most once.    *)
IsList(list) == list \in Seq(Objects) /\ IsInjective(list)

(* A list and the set of its objects.                                      *)
LEMMA InList ==
  ASSUME NEW list, IsList(list)
  PROVE  /\ Len(list) \in Nat /\ DOMAIN list = 1 .. Len(list)
         /\ \A i \in 1 .. Len(list) : list[i] \in Objects /\ list[i] \in ToSet(list)
         /\ \A o \in ToSet(list) : \E i \in 1 .. Len(list) : list[i] = o
         /\ \A i, j \in 1 .. Len(list) : list[i] = list[j] => i = j
         /\ ToSet(list) \subseteq Objects
         /\ \A o : Contains(list, o) <=> o \in ToSet(list)
<1>1. Len(list) \in Nat /\ DOMAIN list = 1 .. Len(list) /\ list \in [1 .. Len(list) -> Objects]
  BY DEF IsList
<1> QED BY <1>1 DEF IsList, IsInjective, ToSet, Contains

(* Min finds the smallest member.                                          *)
LEMMA MinIs ==
  ASSUME NEW U \in SUBSET Nat, NEW n \in U, \A m \in U : n <= m
  PROVE  Min(U) = n
<1>1. \A m \in U : (\A y \in U : m <= y) => m = n
  <2> SUFFICES ASSUME NEW m \in U, m <= n, n <= m PROVE m = n
    OBVIOUS
  <2>1. m \in Nat /\ n \in Nat
    OBVIOUS
  <2> QED BY <2>1
<1> QED BY <1>1 DEF Min

(* Index finds the place of an object.                                     *)
LEMMA IndexIs ==
  ASSUME NEW list, IsList(list), NEW k \in 1 .. Len(list)
  PROVE  Index(list, list[k]) = k
BY InList DEF Index

(* Unlinking what is not linked changes nothing.                           *)
LEMMA RemovedNone ==
  ASSUME NEW list, IsList(list), NEW o, o \notin ToSet(list)
  PROVE  RemoveFirst(list, o) = list
<1>1. ~ \E i \in 1 .. Len(list) : list[i] = o
  BY InList
<1> QED BY <1>1 DEF RemoveFirst

(* Unlinking closes the gap, in order.                                     *)
LEMMA RemovedOne ==
  ASSUME NEW list, IsList(list), NEW k \in 1 .. Len(list)
  PROVE  LET r == RemoveFirst(list, list[k])
         IN  /\ IsList(r) /\ Len(r) = Len(list) - 1
             /\ \A i \in 1 .. Len(r) : r[i] = IF i < k THEN list[i] ELSE list[i + 1]
             /\ ToSet(r) = ToSet(list) \ {list[k]}
<1> DEFINE r == RemoveFirst(list, list[k])
           places == {i \in 1 .. Len(list) : list[i] = list[k]}
<1>1. places = {k} /\ k \in Nat
  BY InList
<1>2. Min(places) = k
  BY <1>1, MinIs
<1>3. SelectInSeq(list, LAMBDA v : v = list[k]) = k
  BY <1>1, <1>2 DEF SelectInSeq
<1>4. r = SubSeq(list, 1, k - 1) \o SubSeq(list, k + 1, Len(list))
  BY <1>3 DEF RemoveFirst, RemoveAt
<1> HIDE DEF r, places
<1>5. list \in Seq(Objects) /\ Len(list) \in Nat /\ k \in Nat /\ k >= 1 /\ k <= Len(list)
  BY InList DEF IsList
<1> DEFINE before == SubSeq(list, 1, k - 1)
           after == SubSeq(list, k + 1, Len(list))
<1>14. /\ before \in Seq(Objects) /\ Len(before) = k - 1
       /\ \A i \in 1 .. (k - 1) : before[i] = list[i]
  BY <1>5
<1>15. /\ after \in Seq(Objects) /\ Len(after) = Len(list) - k
       /\ \A i \in 1 .. (Len(list) - k) : after[i] = list[k + i]
  <2>1. k + 1 \in 1 .. (Len(list) + 1) /\ Len(list) \in (k + 1) - 1 .. Len(list)
    BY <1>5
  <2>2. Len(after) = Len(list) - (k + 1) + 1
    BY <1>5
  <2>3. Len(after) = Len(list) - k
    <3> HIDE DEF after
    <3> QED BY <2>2, <1>5
  <2>4. after \in Seq(Objects)
    BY <1>5
  <2>5. \A i \in 1 .. (Len(list) - k) : after[i] = list[k + i]
    BY <1>5
  <2> QED BY <2>3, <2>4, <2>5
<1>17. r = before \o after
  BY <1>4
<1> HIDE DEF before, after
<1>6. r \in Seq(Objects) /\ Len(r) = Len(list) - 1
  BY <1>5, <1>14, <1>15, <1>17
<1>16. \A i \in 1 .. Len(r) : r[i] = IF i <= k - 1 THEN before[i] ELSE after[i - (k - 1)]
  BY <1>5, <1>6, <1>14, <1>15, <1>17
<1>7. \A i \in 1 .. Len(r) : r[i] = IF i < k THEN list[i] ELSE list[i + 1]
  <2> SUFFICES ASSUME NEW i \in 1 .. Len(r) PROVE r[i] = IF i < k THEN list[i] ELSE list[i + 1]
    OBVIOUS
  <2>1. CASE i < k
    BY <1>5, <1>6, <1>14, <1>16, <2>1
  <2>2. CASE i >= k
    <3>1. i - (k - 1) \in 1 .. (Len(list) - k) /\ k + (i - (k - 1)) = i + 1
      BY <1>5, <1>6, <2>2
    <3>2. after[i - (k - 1)] = list[i + 1]
      BY <1>15, <3>1
    <3> QED BY <1>5, <1>6, <1>16, <2>2, <3>2
  <2> QED BY <2>1, <2>2, <1>5, <1>6
<1>8. DOMAIN r = 1 .. Len(r) /\ DOMAIN r = 1 .. (Len(list) - 1)
  BY <1>6
<1>9. ASSUME NEW i \in 1 .. Len(r), NEW j \in 1 .. Len(r), r[i] = r[j]
      PROVE  i = j
  <2> DEFINE at(x) == IF x < k THEN x ELSE x + 1
  <2>1. at(i) \in 1 .. Len(list) /\ at(j) \in 1 .. Len(list)
    BY <1>5, <1>6
  <2>2. list[at(i)] = list[at(j)]
    BY <1>7, <1>9
  <2>3. at(i) = at(j)
    <3> HIDE DEF at
    <3> QED BY <2>1, <2>2, InList
  <2> QED BY <2>3, <1>5, <1>6
<1>10. IsList(r)
  BY <1>6, <1>8, <1>9 DEF IsList, IsInjective
<1>11. ASSUME NEW o \in ToSet(r) PROVE o \in ToSet(list) \ {list[k]}
  <2>1. PICK i \in 1 .. Len(r) : r[i] = o
    BY <1>10, InList
  <2> DEFINE at == IF i < k THEN i ELSE i + 1
  <2>2. at \in 1 .. Len(list) /\ at # k /\ o = list[at]
    BY <1>5, <1>6, <1>7, <2>1
  <2> HIDE DEF at
  <2> QED BY <2>2, InList
<1>12. ASSUME NEW o \in ToSet(list) \ {list[k]} PROVE o \in ToSet(r)
  <2>1. PICK i \in 1 .. Len(list) : list[i] = o
    BY InList
  <2> DEFINE at == IF i < k THEN i ELSE i - 1
  <2>2. at \in 1 .. Len(r) /\ o = r[at]
    BY <1>5, <1>6, <1>7, <2>1
  <2> HIDE DEF at
  <2> QED BY <2>2, <1>10, InList
<1>13. ToSet(r) = ToSet(list) \ {list[k]}
  BY <1>11, <1>12
<1> QED BY <1>6, <1>7, <1>10, <1>13 DEF r

(* Linking at the end of a list, where its header points back to.          *)
LEMMA Appended ==
  ASSUME NEW list, IsList(list), NEW o \in Objects, o \notin ToSet(list)
  PROVE  LET r == Append(list, o)
         IN  /\ IsList(r) /\ Len(r) = Len(list) + 1
             /\ \A i \in 1 .. Len(list) : r[i] = list[i]
             /\ r[Len(list) + 1] = o
             /\ ToSet(r) = ToSet(list) \cup {o}
<1> DEFINE r == Append(list, o)
<1>1. list \in Seq(Objects) /\ Len(list) \in Nat
  BY InList DEF IsList
<1>2. /\ r \in Seq(Objects) /\ Len(r) = Len(list) + 1
      /\ \A i \in 1 .. Len(list) : r[i] = list[i]
      /\ r[Len(list) + 1] = o
  BY <1>1
<1> HIDE DEF r
<1>3. DOMAIN r = 1 .. (Len(list) + 1)
  BY <1>2
<1>4. \A i, j \in 1 .. (Len(list) + 1) : r[i] = r[j] => i = j
  <2> SUFFICES ASSUME NEW i \in 1 .. (Len(list) + 1), NEW j \in 1 .. (Len(list) + 1),
                      r[i] = r[j]
               PROVE  i = j
    OBVIOUS
  <2>1. CASE i \in 1 .. Len(list) /\ j \in 1 .. Len(list)
    BY <1>2, <2>1, InList
  <2>2. CASE i \in 1 .. Len(list) /\ j = Len(list) + 1
    BY <1>2, <2>2, InList
  <2>3. CASE i = Len(list) + 1 /\ j \in 1 .. Len(list)
    BY <1>2, <2>3, InList
  <2> QED BY <1>1, <2>1, <2>2, <2>3
<1>5. IsList(r)
  BY <1>2, <1>3, <1>4 DEF IsList, IsInjective
<1>6. ToSet(r) \subseteq ToSet(list) \cup {o}
  <2> SUFFICES ASSUME NEW i \in 1 .. (Len(list) + 1) PROVE r[i] \in ToSet(list) \cup {o}
    BY <1>3 DEF ToSet
  <2> QED BY <1>1, <1>2, InList
<1>7. ToSet(list) \cup {o} \subseteq ToSet(r)
  <2>1. \A i \in 1 .. Len(list) : r[i] \in ToSet(r)
    BY <1>1, <1>3 DEF ToSet
  <2>2. r[Len(list) + 1] \in ToSet(r)
    BY <1>1, <1>3 DEF ToSet
  <2> QED BY <1>2, <2>1, <2>2, InList
<1> QED BY <1>2, <1>5, <1>6, <1>7 DEF r
-----------------------------------------------------------------------------
(* The type of the state of the collector.                                 *)
GcType ==
  [state : {"IDLE", "MARK", "SWEEP"}, white : {0, 1},
   iter : Objects \cup {TOSPACE},
   fromSpace : Seq(Objects), toSpace : Seq(Objects), pinSpace : Seq(Objects),
   color : [Objects \cup {PINSPACE} -> 0 .. 3]]

(* The objects of A are in the lists, each in one of them, and once.       *)
Placed(g, A) ==
  /\ IsList(g.fromSpace) /\ IsList(g.toSpace) /\ IsList(g.pinSpace)
  /\ ToSet(g.fromSpace) \cap ToSet(g.toSpace) = {}
  /\ ToSet(g.fromSpace) \cap ToSet(g.pinSpace) = {}
  /\ ToSet(g.toSpace) \cap ToSet(g.pinSpace) = {}
  /\ A = ToSet(g.fromSpace) \cup ToSet(g.toSpace) \cup ToSet(g.pinSpace)

(* An object has the colour of the space it is linked in.                  *)
Coloured(g) ==
  /\ \A o \in ToSet(g.fromSpace) : g.color[o] = g.white
  /\ \A o \in ToSet(g.pinSpace) : g.color[o] = TRANSPARENT
  /\ \A o \in ToSet(g.toSpace) :
       g.color[o] = Black(g) \/ (g.color[o] = GRAY /\ g.state = "MARK")

(* The walk has come to the n-th object of toSpace: what is not black is   *)
(* ahead of it.                                                            *)
WalkAt(g, n) ==
  /\ n \in 0 .. Len(g.toSpace)
  /\ g.iter = IF n = 0 THEN TOSPACE ELSE g.toSpace[n]
  /\ \A i \in 1 .. n : g.color[g.toSpace[i]] = Black(g)

(* Where iter is, in each state of the collector.                          *)
Walking(g) ==
  /\ g.state = "IDLE" => g.toSpace = <<>> /\ g.iter = TOSPACE
  /\ g.state = "MARK" => \E n \in Nat : WalkAt(g, n)
  /\ g.state = "SWEEP" => g.iter = IF g.toSpace = <<>> THEN TOSPACE ELSE Head(g.toSpace)

(* What marking keeps of the spaces, from one object it looks at to the    *)
(* next.                                                                   *)
Marking(g, A) ==
  /\ g \in GcType /\ g.state = "MARK"
  /\ Placed(g, A) /\ Coloured(g)

(* Unlinking takes one object out, if it is there.                         *)
LEMMA RemovedAny ==
  ASSUME NEW list, IsList(list), NEW o
  PROVE  /\ IsList(RemoveFirst(list, o))
         /\ ToSet(RemoveFirst(list, o)) = ToSet(list) \ {o}
<1>1. CASE o \in ToSet(list)
  <2>1. PICK k \in 1 .. Len(list) : list[k] = o
    BY <1>1, InList
  <2> QED BY <2>1, RemovedOne
<1>2. CASE o \notin ToSet(list)
  BY <1>2, RemovedNone
<1> QED BY <1>1, <1>2

(* The empty list is the one of no length, and the one with no object.     *)
LEMMA EmptyList ==
  ASSUME NEW list, IsList(list)
  PROVE  /\ list = <<>> <=> Len(list) = 0
         /\ list = <<>> <=> ToSet(list) = {}
<1>1. list = <<>> <=> Len(list) = 0
  BY DEF IsList
<1>2. list # <<>> => 1 \in 1 .. Len(list)
  BY <1>1, InList
<1>3. ToSet(<<>>) = {}
  BY DEF ToSet
<1> QED BY <1>1, <1>2, <1>3, InList

(* A state of the collector, of its fields.                                *)
Collector(state, white, iter, fromSpace, toSpace, pinSpace, color) ==
  [state |-> state, white |-> white, iter |-> iter, fromSpace |-> fromSpace,
   toSpace |-> toSpace, pinSpace |-> pinSpace, color |-> color]

(* A state of the collector is made of its fields.                         *)
LEMMA Fields ==
  ASSUME NEW g \in GcType
  PROVE  g = Collector(g.state, g.white, g.iter, g.fromSpace, g.toSpace, g.pinSpace, g.color)
BY DEF GcType, Collector

(* What has moved to another list, with the fields that say so.            *)
LEMMA UnlinkIs ==
  ASSUME NEW g \in GcType, NEW o
  PROVE  LET r == Unlink(g, o)
         IN  /\ r.state = g.state /\ r.white = g.white /\ r.iter = g.iter
             /\ r.color = g.color
             /\ r.fromSpace = RemoveFirst(g.fromSpace, o)
             /\ r.toSpace = RemoveFirst(g.toSpace, o)
             /\ r.pinSpace = RemoveFirst(g.pinSpace, o)
             /\ r = Collector(r.state, r.white, r.iter, r.fromSpace, r.toSpace, r.pinSpace, r.color)
<1>1. Unlink(g, o) = [g EXCEPT !.fromSpace = RemoveFirst(g.fromSpace, o), !.toSpace = RemoveFirst(g.toSpace, o),
            !.pinSpace = RemoveFirst(g.pinSpace, o)]
  BY DEF Unlink
<1>2. g = Collector(g.state, g.white, g.iter, g.fromSpace, g.toSpace, g.pinSpace, g.color)
  BY Fields
<1> QED BY <1>1, <1>2 DEF Collector

(* makeGray moves an object to the end of toSpace, and iter to the one     *)
(* before it if it was there.                                              *)
LEMMA MakeGrayIs ==
  ASSUME NEW g \in GcType, NEW A, Placed(g, A), NEW o \in A,
         g.iter = o => Prev(g, o) \in Objects \cup {TOSPACE}
  PROVE  LET r == MakeGray(g, o)
         IN  /\ r \in GcType
             /\ r.state = g.state /\ r.white = g.white
             /\ r.iter = IF g.iter = o THEN Prev(g, o) ELSE g.iter
             /\ r.color = [g.color EXCEPT ![o] = IF o \in Pointerfree THEN Black(g) ELSE GRAY]
             /\ r.fromSpace = RemoveFirst(g.fromSpace, o)
             /\ r.toSpace = Append(RemoveFirst(g.toSpace, o), o)
             /\ r.pinSpace = RemoveFirst(g.pinSpace, o)
             /\ Placed(r, A)
<1> DEFINE r == MakeGray(g, o)
    fields ==
      /\ r.state = g.state /\ r.white = g.white
      /\ r.iter = (IF g.iter = o THEN Prev(g, o) ELSE g.iter)
      /\ r.color = [g.color EXCEPT ![o] = IF o \in Pointerfree THEN Black(g) ELSE GRAY]
      /\ r.fromSpace = RemoveFirst(g.fromSpace, o)
      /\ r.toSpace = Append(RemoveFirst(g.toSpace, o), o)
      /\ r.pinSpace = RemoveFirst(g.pinSpace, o)
<1> DEFINE u == Unlink(g, o)
<1>11. u = Collector(u.state, u.white, u.iter, u.fromSpace, u.toSpace, u.pinSpace, u.color)
  BY UnlinkIs
<1>12. r = [u EXCEPT !.iter = IF @ = o THEN Prev(g, o) ELSE @,
                     !.toSpace = Append(@, o),
                     !.color[o] = IF o \in Pointerfree THEN Black(g) ELSE GRAY]
  BY DEF MakeGray
<1>13. /\ r.state = u.state /\ r.white = u.white
       /\ r.iter = (IF u.iter = o THEN Prev(g, o) ELSE u.iter)
       /\ r.color = [u.color EXCEPT ![o] = IF o \in Pointerfree THEN Black(g) ELSE GRAY]
       /\ r.fromSpace = u.fromSpace
       /\ r.toSpace = Append(u.toSpace, o)
       /\ r.pinSpace = u.pinSpace
       /\ r = Collector(r.state, r.white, r.iter, r.fromSpace, r.toSpace, r.pinSpace, r.color)
  <2> HIDE DEF u, r
  <2> QED BY <1>11, <1>12 DEF Collector
<1> HIDE DEF r
<1>1. fields
  BY <1>13, UnlinkIs
<1>2. /\ IsList(RemoveFirst(g.fromSpace, o)) /\ IsList(RemoveFirst(g.toSpace, o))
      /\ IsList(RemoveFirst(g.pinSpace, o))
      /\ ToSet(RemoveFirst(g.fromSpace, o)) = ToSet(g.fromSpace) \ {o}
      /\ ToSet(RemoveFirst(g.toSpace, o)) = ToSet(g.toSpace) \ {o}
      /\ ToSet(RemoveFirst(g.pinSpace, o)) = ToSet(g.pinSpace) \ {o}
  BY RemovedAny DEF Placed
<1>3. o \in Objects
  BY InList DEF Placed
<1>4. /\ IsList(r.toSpace)
      /\ ToSet(r.toSpace) = (ToSet(g.toSpace) \ {o}) \cup {o}
  <2>1. r.toSpace = Append(RemoveFirst(g.toSpace, o), o)
    BY <1>1
  <2> QED BY <2>1, <1>2, <1>3, Appended
<1>5. Placed(r, A)
  <2>1. /\ IsList(r.fromSpace) /\ IsList(r.pinSpace)
        /\ ToSet(r.fromSpace) = ToSet(g.fromSpace) \ {o}
        /\ ToSet(r.pinSpace) = ToSet(g.pinSpace) \ {o}
    BY <1>1, <1>2
  <2> HIDE DEF fields
  <2> QED BY <2>1, <1>4 DEF Placed
<1>6. r.color \in [Objects \cup {PINSPACE} -> 0 .. 3]
  BY <1>1, <1>3 DEF GcType, Black, GRAY
<1>7. r.state \in {"IDLE", "MARK", "SWEEP"} /\ r.white \in {0, 1} /\ r.iter \in Objects \cup {TOSPACE}
  BY <1>1 DEF GcType
<1>8. r.fromSpace \in Seq(Objects) /\ r.toSpace \in Seq(Objects) /\ r.pinSpace \in Seq(Objects)
  BY <1>5 DEF Placed, IsList
<1>9. r = Collector(r.state, r.white, r.iter, r.fromSpace, r.toSpace, r.pinSpace, r.color)
  BY <1>13
<1> HIDE DEF fields
<1>10. r \in GcType
  BY <1>6, <1>7, <1>8, <1>9 DEF GcType, Collector
<1> QED BY <1>1, <1>5, <1>10 DEF r, fields
-----------------------------------------------------------------------------
(* The object iter points at: the header, or the n-th of the list.         *)
At(list, n) == IF n = 0 THEN TOSPACE ELSE list[n]

(* Where iter goes when o is unlinked: to the one before it, if it was there.*)
Stepped(list, n, o) ==
  IF At(list, n) # o THEN At(list, n)
  ELSE IF Head(list) = o THEN TOSPACE ELSE list[Index(list, o) - 1]

(* r: what is left of list without o, which the walk has come to the n-th  *)
(* object of.                                                              *)
Shrinks(list, n, o, r) ==
  \E m \in 0 .. Len(r) :
    /\ At(r, m) = Stepped(list, n, o)
    /\ \A i \in 1 .. m : \E j \in 1 .. n : r[i] = list[j]

(* Unlinking o moves the walk to where Stepped says, and what is behind it *)
(* was behind it.                                                          *)
LEMMA WalkShrinks ==
  ASSUME NEW list, IsList(list), NEW n \in 0 .. Len(list), NEW o \in Objects
  PROVE  Shrinks(list, n, o, RemoveFirst(list, o))
<1> DEFINE r == RemoveFirst(list, o)
<1> USE DEF Stepped, Shrinks
<1>1. CASE o \notin ToSet(list)
  <2>1. r = list
    BY <1>1, RemovedNone
  <2>2. At(list, n) # o
    BY <1>1, InList, ItcmsAssumption DEF At
  <2> QED BY <2>1, <2>2
<1>2. ASSUME NEW k \in 1 .. Len(list), list[k] = o
      PROVE  \E m \in 0 .. Len(r) :
               /\ At(r, m) = Stepped(list, n, o)
               /\ \A i \in 1 .. m : \E j \in 1 .. n : r[i] = list[j]
  <2>1. /\ Len(r) = Len(list) - 1
        /\ \A i \in 1 .. Len(r) : r[i] = IF i < k THEN list[i] ELSE list[i + 1]
    BY <1>2, RemovedOne
  <2> HIDE DEF r
  <2>2. Len(list) \in Nat /\ k \in Nat /\ n \in Nat /\ k >= 1 /\ k <= Len(list) /\ n <= Len(list)
    BY InList
  <2>3. CASE k < n
    <3>1. n - 1 \in 0 .. Len(r) /\ n - 1 # 0
      BY <2>1, <2>2, <2>3
    <3>2. At(r, n - 1) = list[n]
      BY <3>1, <2>1, <2>2, <2>3 DEF At
    <3>3. At(list, n) = list[n] /\ list[n] # o
      BY <2>2, <2>3, <1>2, InList DEF At
    <3>4. \A i \in 1 .. (n - 1) : \E j \in 1 .. n : r[i] = list[j]
      <4> SUFFICES ASSUME NEW i \in 1 .. (n - 1) PROVE \E j \in 1 .. n : r[i] = list[j]
        OBVIOUS
      <4>1. i \in 1 .. Len(r) /\ i \in 1 .. n /\ i + 1 \in 1 .. n
        BY <2>1, <2>2
      <4> QED BY <4>1, <2>1
    <3> QED BY <3>1, <3>2, <3>3, <3>4
  <2>4. CASE k > n
    <3>1. n \in 0 .. Len(r)
      BY <2>1, <2>2, <2>4
    <3>2. At(r, n) = At(list, n)
      BY <3>1, <2>1, <2>2, <2>4 DEF At
    <3>3. At(list, n) # o
      BY <2>2, <2>4, <1>2, InList, ItcmsAssumption DEF At
    <3>4. \A i \in 1 .. n : r[i] = list[i]
      BY <3>1, <2>1, <2>2, <2>4
    <3> QED BY <3>1, <3>2, <3>3, <3>4
  <2>5. CASE k = n
    <3>1. n - 1 \in 0 .. Len(r)
      BY <2>1, <2>2, <2>5
    <3>2. At(list, n) = o
      BY <2>2, <2>5, <1>2 DEF At
    <3>3. Index(list, o) = n
      BY <1>2, <2>5, IndexIs
    <3>4. Head(list) = list[1] /\ 1 \in 1 .. Len(list)
      BY <2>2 DEF IsList
    <3>5. Head(list) = o <=> n = 1
      BY <3>4, <1>2, <2>5, InList
    <3>6. At(r, n - 1) = IF n = 1 THEN TOSPACE ELSE list[n - 1]
      BY <3>1, <2>1, <2>2, <2>5 DEF At
    <3>7. \A i \in 1 .. (n - 1) : \E j \in 1 .. n : r[i] = list[j]
      <4> SUFFICES ASSUME NEW i \in 1 .. (n - 1) PROVE \E j \in 1 .. n : r[i] = list[j]
        OBVIOUS
      <4>1. i \in 1 .. Len(r) /\ i \in 1 .. n /\ i < k
        BY <2>1, <2>2, <2>5
      <4> QED BY <4>1, <2>1
    <3> QED BY <3>1, <3>2, <3>3, <3>5, <3>6, <3>7
  <2> QED BY <2>2, <2>3, <2>4, <2>5
<1> QED BY <1>1, <1>2, InList

(* Where the walk is: at toSpace, or at an object of it.                   *)
LEMMA IterIs ==
  ASSUME NEW g, NEW A, Marking(g, A), NEW n, WalkAt(g, n)
  PROVE  /\ n \in 0 .. Len(g.toSpace) /\ n \in Nat /\ g.iter = At(g.toSpace, n)
         /\ g.iter # TOSPACE => g.iter \in ToSet(g.toSpace)
         /\ g.iter \notin ToSet(g.fromSpace) \cup ToSet(g.pinSpace)
<1>1. n \in 0 .. Len(g.toSpace) /\ n \in Nat /\ g.iter = At(g.toSpace, n) /\ IsList(g.toSpace)
  BY InList DEF WalkAt, At, Marking, Placed
<1>2. g.iter # TOSPACE => g.iter \in ToSet(g.toSpace)
  BY <1>1, InList DEF At
<1>3. TOSPACE \notin ToSet(g.fromSpace) \cup ToSet(g.pinSpace)
  BY InList, ItcmsAssumption DEF Marking, Placed
<1> QED BY <1>1, <1>2, <1>3 DEF Marking, Placed

(* r is g with o gray, or black if it needs no scan, where the walk has    *)
(* come to the n-th object: o is at the end of toSpace, and what the walk  *)
(* has gone past is as black as before.                                    *)
Grayed(g, A, n, o, r) ==
  /\ Marking(r, A) /\ r.white = g.white
  /\ r.color = [g.color EXCEPT ![o] = IF o \in Pointerfree THEN Black(g) ELSE GRAY]
  /\ \E m \in Nat : WalkAt(r, m)
  /\ o \notin ToSet(g.toSpace) =>
       /\ r.iter = g.iter /\ r.toSpace = Append(g.toSpace, o)
       /\ WalkAt(r, n)
  /\ o \notin ToSet(g.pinSpace) => r.pinSpace = g.pinSpace
  /\ r.pinSpace = RemoveFirst(g.pinSpace, o)

(* Shading an object, wherever it is.                                      *)
LEMMA GrayMarking ==
  ASSUME NEW g, NEW A, Marking(g, A), NEW n, WalkAt(g, n), NEW o \in A
  PROVE  Grayed(g, A, n, o, MakeGray(g, o))
<1> DEFINE r == MakeGray(g, o)
           shorter == RemoveFirst(g.toSpace, o)
<1>1. g \in GcType /\ Placed(g, A) /\ Coloured(g) /\ o \in Objects
      /\ IsList(g.toSpace) /\ IsList(g.pinSpace) /\ IsList(g.fromSpace)
  BY InList DEF Marking, Placed
<1>2. /\ n \in 0 .. Len(g.toSpace) /\ n \in Nat /\ g.iter = At(g.toSpace, n)
      /\ g.iter # TOSPACE => g.iter \in ToSet(g.toSpace)
      /\ g.iter \notin ToSet(g.fromSpace) \cup ToSet(g.pinSpace)
  BY IterIs
<1>3. Shrinks(g.toSpace, n, o, shorter)
  BY <1>1, <1>2, WalkShrinks
<1>4. PICK m \in 0 .. Len(shorter) :
        /\ At(shorter, m) = IF g.iter # o THEN g.iter
                            ELSE IF Head(g.toSpace) = o THEN TOSPACE
                            ELSE g.toSpace[Index(g.toSpace, o) - 1]
        /\ \A i \in 1 .. m : \E j \in 1 .. n : shorter[i] = g.toSpace[j]
  BY <1>2, <1>3 DEF Shrinks, Stepped
<1>5. g.iter = o => Prev(g, o) = IF Head(g.toSpace) = o THEN TOSPACE
                                 ELSE g.toSpace[Index(g.toSpace, o) - 1]
  BY <1>1, <1>2, InList DEF Prev
<1>6. IsList(shorter) /\ ToSet(shorter) = ToSet(g.toSpace) \ {o}
  BY <1>1, RemovedAny
<1>7. At(shorter, m) \in Objects \cup {TOSPACE} /\ m \in Nat
  BY <1>4, <1>6, InList DEF At
<1>8. g.iter = o => Prev(g, o) \in Objects \cup {TOSPACE}
  BY <1>4, <1>5, <1>7
<1>9. /\ r \in GcType
      /\ r.state = g.state /\ r.white = g.white
      /\ r.iter = IF g.iter = o THEN Prev(g, o) ELSE g.iter
      /\ r.color = [g.color EXCEPT ![o] = IF o \in Pointerfree THEN Black(g) ELSE GRAY]
      /\ r.fromSpace = RemoveFirst(g.fromSpace, o)
      /\ r.toSpace = Append(RemoveFirst(g.toSpace, o), o)
      /\ r.pinSpace = RemoveFirst(g.pinSpace, o)
      /\ Placed(r, A)
  <2> HIDE DEF shorter
  <2> QED BY ONLY o \in A, <1>1, <1>8, MakeGrayIs
<1> HIDE DEF r
<1>10. /\ r \in GcType
       /\ r.state = g.state /\ r.white = g.white
       /\ r.iter = IF g.iter = o THEN Prev(g, o) ELSE g.iter
  BY <1>9
<1>11. r.color = [g.color EXCEPT ![o] = IF o \in Pointerfree THEN Black(g) ELSE GRAY]
  BY <1>9
<1>12. /\ r.fromSpace = RemoveFirst(g.fromSpace, o)
       /\ r.toSpace = Append(shorter, o)
       /\ r.pinSpace = RemoveFirst(g.pinSpace, o)
       /\ Placed(r, A)
  BY <1>9
<1> HIDE DEF shorter
<1>13. /\ \A x \in ToSet(r.fromSpace) : x \in ToSet(g.fromSpace) /\ x # o
       /\ \A x \in ToSet(r.pinSpace) : x \in ToSet(g.pinSpace) /\ x # o
       /\ \A x \in ToSet(r.toSpace) : x # o => x \in ToSet(g.toSpace)
  <2>1. ToSet(r.toSpace) = ToSet(shorter) \cup {o}
    BY <1>1, <1>6, <1>12, Appended
  <2> QED BY <2>1, <1>1, <1>6, <1>12, RemovedAny
<1>14. \A x \in Objects : r.color[x] = IF x = o THEN (IF o \in Pointerfree THEN Black(g) ELSE GRAY) ELSE g.color[x]
  BY <1>1, <1>11 DEF GcType
<1>15. Black(r) = Black(g) /\ r.state = "MARK" /\ g.state = "MARK"
  BY <1>10 DEF Black, Marking
<1>16. Coloured(r)
  <2>1. \A x \in ToSet(r.fromSpace) \cup ToSet(r.pinSpace) \cup ToSet(r.toSpace) : x \in Objects
    BY <1>12, InList DEF Placed
  <2> QED BY <2>1, <1>1, <1>10, <1>13, <1>14, <1>15 DEF Coloured
<1>17. Marking(r, A)
  BY <1>10, <1>12, <1>15, <1>16 DEF Marking
<1>18. ASSUME NEW l \in 0 .. Len(shorter), r.iter = At(shorter, l),
              \A i \in 1 .. l : \E j \in 1 .. n : shorter[i] = g.toSpace[j]
       PROVE  WalkAt(r, l)
  <2>1. /\ Len(r.toSpace) = Len(shorter) + 1
        /\ \A i \in 1 .. Len(shorter) : r.toSpace[i] = shorter[i]
    BY <1>1, <1>6, <1>12, Appended
  <2>2. Len(shorter) \in Nat /\ l \in Nat /\ l <= Len(shorter)
    BY <1>6, InList
  <2>3. ASSUME NEW i \in 1 .. l PROVE r.color[r.toSpace[i]] = Black(r)
    <3>1. i \in 1 .. Len(shorter)
      BY <2>2
    <3>2. PICK j \in 1 .. n : shorter[i] = g.toSpace[j]
      BY <1>18
    <3>3. shorter[i] \in Objects /\ shorter[i] # o
      BY <3>1, <1>6, InList
    <3>4. g.color[g.toSpace[j]] = Black(g)
      BY DEF WalkAt
    <3> QED BY <3>1, <3>2, <3>3, <3>4, <2>1, <1>14, <1>15
  <2>4. r.iter = IF l = 0 THEN TOSPACE ELSE r.toSpace[l]
    BY <1>18, <2>1, <2>2 DEF At
  <2>5. l \in 0 .. Len(r.toSpace)
    BY <2>1, <2>2
  <2> QED BY <2>3, <2>4, <2>5 DEF WalkAt
<1>19. WalkAt(r, m)
  BY <1>4, <1>5, <1>10, <1>18
<1>20. ASSUME o \notin ToSet(g.toSpace)
       PROVE  r.iter = g.iter /\ r.toSpace = Append(g.toSpace, o) /\ WalkAt(r, n)
  <2>1. shorter = g.toSpace
    BY <1>1, <1>20, RemovedNone DEF shorter
  <2>2. g.iter # o
    BY <1>1, <1>2, <1>20, ItcmsAssumption
  <2> QED BY <2>1, <2>2, <1>2, <1>10, <1>12, <1>18
<1>21. o \notin ToSet(g.pinSpace) => r.pinSpace = g.pinSpace
  BY <1>1, <1>12, RemovedNone
<1> QED BY <1>7, <1>10, <1>11, <1>12, <1>17, <1>19, <1>20, <1>21 DEF r, Grayed
-----------------------------------------------------------------------------
(* The colour makeGray gives: what has no references needs no scan.        *)
ShadeOf(g, o) == IF o \in Pointerfree THEN Black(g) ELSE GRAY

(* What visiting the objects of S makes of g.                              *)
Visits(g, A, S, h) ==
  /\ Marking(h, A)
  /\ h.white = g.white /\ h.iter = g.iter /\ h.pinSpace = g.pinSpace
  /\ h.color = [o \in Objects \cup {PINSPACE} |->
                  IF o \in S /\ g.color[o] = g.white THEN ShadeOf(g, o) ELSE g.color[o]]
  /\ Len(h.toSpace) >= Len(g.toSpace)
  /\ \A i \in 1 .. Len(g.toSpace) : h.toSpace[i] = g.toSpace[i]
  /\ \A n \in Nat : WalkAt(g, n) => WalkAt(h, n)

(* While marking, the colour of an object says which space it is in.       *)
LEMMA InSpaces ==
  ASSUME NEW g, NEW A, Marking(g, A)
  PROVE  /\ A \subseteq Objects
         /\ \A o \in A : o \in ToSet(g.fromSpace) <=> g.color[o] = g.white
         /\ \A o \in A : o \in ToSet(g.pinSpace) <=> g.color[o] = TRANSPARENT
         /\ \A o \in A : o \in ToSet(g.toSpace) <=> g.color[o] \in {Black(g), GRAY}
         /\ g.white \in {0, 1} /\ Black(g) \in {0, 1} /\ Black(g) # g.white
<1>1. /\ g.white \in {0, 1}
      /\ Placed(g, A) /\ Coloured(g)
  BY DEF Marking, GcType
<1>2. g.white \in {0, 1} /\ Black(g) \in {0, 1} /\ Black(g) # g.white
  BY <1>1 DEF Black
<1>3. A \subseteq Objects
  BY <1>1, InList DEF Placed
<1> QED BY <1>1, <1>2, <1>3 DEF Placed, Coloured, GRAY, TRANSPARENT

(* Visiting one more object.                                               *)
LEMMA VisitOne ==
  ASSUME NEW g, NEW A, NEW S, NEW h, Visits(g, A, S, h), NEW n \in Nat, WalkAt(g, n),
         g \in GcType, NEW x \in A \ S
  PROVE  Visits(g, A, S \cup {x}, Visit(h, x))
<1>1. /\ Marking(h, A) /\ WalkAt(h, n) /\ h \in GcType
      /\ A \subseteq Objects /\ x \in Objects
  BY InSpaces DEF Visits, Marking
<1>2. /\ \A o \in Objects \cup {PINSPACE} :
           h.color[o] = IF o \in S /\ g.color[o] = g.white THEN ShadeOf(g, o) ELSE g.color[o]
      /\ Black(h) = Black(g) /\ h.white = g.white
  BY DEF Visits, Black
<1>3. CASE h.color[x] # h.white
  <2>1. Visit(h, x) = h
    BY <1>3 DEF Visit
  <2>2. g.color[x] # g.white
    BY <1>1, <1>2, <1>3
  <2>3. h.color = [o \in Objects \cup {PINSPACE} |->
                  IF o \in S \cup {x} /\ g.color[o] = g.white THEN ShadeOf(g, o) ELSE g.color[o]]
    BY <2>2 DEF Visits
  <2> QED BY <2>1, <2>3 DEF Visits
<1>4. CASE h.color[x] = h.white
  <2> DEFINE r == MakeGray(h, x)
  <2>1. Visit(h, x) = r
    BY <1>4 DEF Visit
  <2>2. x \notin ToSet(h.toSpace) /\ x \notin ToSet(h.pinSpace)
    BY <1>1, <1>4, InSpaces DEF GRAY, TRANSPARENT
  <2>3. /\ Marking(r, A) /\ r.white = h.white
        /\ r.color = [h.color EXCEPT ![x] = IF x \in Pointerfree THEN Black(h) ELSE GRAY]
        /\ r.iter = h.iter /\ r.toSpace = Append(h.toSpace, x)
        /\ WalkAt(r, n) /\ r.pinSpace = h.pinSpace
    <3>1. Grayed(h, A, n, x, r)
      BY ONLY <1>1, x \in A, GrayMarking
    <3> HIDE DEF r
    <3> QED BY <2>2, <3>1 DEF Grayed
  <2>4. ASSUME NEW m \in Nat, WalkAt(h, m) PROVE WalkAt(r, m)
    <3>1. Grayed(h, A, m, x, r)
      BY ONLY <1>1, <2>4, x \in A, GrayMarking
    <3> HIDE DEF r
    <3> QED BY <2>2, <3>1 DEF Grayed
  <2> HIDE DEF r
  <2>5. g.color[x] = g.white /\ x \notin S
    BY <1>1, <1>2, <1>4
  <2>6. r.color = [o \in Objects \cup {PINSPACE} |->
                  IF o \in S \cup {x} /\ g.color[o] = g.white THEN ShadeOf(g, o) ELSE g.color[o]]
    <3>1. r.color = [o \in Objects \cup {PINSPACE} |-> r.color[o]] /\ h.color = [o \in Objects \cup {PINSPACE} |-> h.color[o]]
      BY <1>1, <2>3 DEF Marking, GcType
    <3>2. \A o \in Objects \cup {PINSPACE} : r.color[o] = IF o = x THEN ShadeOf(g, x) ELSE h.color[o]
      BY <2>3, <1>1, <1>2, <3>1 DEF ShadeOf
    <3>3. \A o \in Objects \cup {PINSPACE} :
            r.color[o] = IF o \in S \cup {x} /\ g.color[o] = g.white THEN ShadeOf(g, o) ELSE g.color[o]
      BY <3>2, <1>2, <2>5
    <3> QED BY <3>1, <3>3
  <2>7. /\ Len(r.toSpace) = Len(h.toSpace) + 1
        /\ \A i \in 1 .. Len(h.toSpace) : r.toSpace[i] = h.toSpace[i]
        /\ Len(h.toSpace) \in Nat
    <3>1. IsList(h.toSpace)
      BY <1>1 DEF Marking, Placed
    <3> QED BY <3>1, <2>2, <2>3, <1>1, Appended, InList
  <2>8. Len(g.toSpace) \in Nat
    BY DEF GcType
  <2>9. /\ Len(r.toSpace) >= Len(g.toSpace)
        /\ \A i \in 1 .. Len(g.toSpace) : r.toSpace[i] = g.toSpace[i]
    BY <2>7, <2>8 DEF Visits
  <2> QED BY <2>1, <2>3, <2>4, <2>6, <2>9 DEF Visits
<1> QED BY <1>3, <1>4

(* Visiting the objects of S shades the white ones among them, and moves   *)
(* nothing the walk has come past.                                         *)
LEMMA VisitAllIs ==
  ASSUME NEW g, NEW A, Marking(g, A), NEW n \in Nat, WalkAt(g, n), NEW S \in SUBSET A
  PROVE  Visits(g, A, S, VisitAll(g, S))
<1>1. g \in GcType /\ A \subseteq Objects
  BY InSpaces DEF Marking
<1>2. IsFiniteSet(S)
  BY <1>1, ItcmsAssumption, FS_Subset
<1> DEFINE H == [s \in SUBSET S |-> {h \in GcType : Visits(g, A, s, h)}]
<1>3. g \in H[{}]
  <2>1. g.color = [o \in Objects \cup {PINSPACE} |-> g.color[o]]
    BY <1>1 DEF GcType
  <2>2. Len(g.toSpace) \in Nat
    BY <1>1 DEF GcType
  <2>3. Visits(g, A, {}, g)
    BY <2>1, <2>2 DEF Visits
  <2> QED BY <1>1, <2>3
<1>4. \A s \in SUBSET S : \A x \in S \ s : \A h \in H[s] : Visit(h, x) \in H[s \cup {x}]
  <2> SUFFICES ASSUME NEW s \in SUBSET S, NEW x \in S \ s, NEW h \in H[s]
               PROVE  Visit(h, x) \in H[s \cup {x}]
    OBVIOUS
  <2>1. Visits(g, A, s, h) /\ x \in A \ s
    OBVIOUS
  <2>2. Visits(g, A, s \cup {x}, Visit(h, x))
    BY <1>1, <2>1, VisitOne
  <2>3. Visit(h, x) \in GcType
    BY <2>2 DEF Visits, Marking
  <2>4. s \cup {x} \in SUBSET S
    OBVIOUS
  <2> QED BY <2>2, <2>3, <2>4
<1> HIDE DEF H
<1>5. VisitAll(g, S) \in H[S]
  BY <1>2, <1>3, <1>4, VisitAllFold
<1> QED BY <1>5 DEF H
-----------------------------------------------------------------------------
(* Visiting R after S is visiting both.                                    *)
LEMMA VisitsTwice ==
  ASSUME NEW g, NEW A, g \in GcType, NEW S, NEW R, NEW h, NEW k,
         Visits(g, A, S, h), Visits(h, A, R, k)
  PROVE  Visits(g, A, S \cup R, k)
<1>1. /\ \A o \in Objects \cup {PINSPACE} :
           h.color[o] = IF o \in S /\ g.color[o] = g.white THEN ShadeOf(g, o) ELSE g.color[o]
      /\ h.white = g.white /\ Black(h) = Black(g) /\ \A o : ShadeOf(h, o) = ShadeOf(g, o)
  BY DEF Visits, ShadeOf, Black
<1>2. g.white \in {0, 1} /\ \A o : ShadeOf(g, o) # g.white
  BY DEF GcType, ShadeOf, Black, GRAY
<1>3. k.color = [o \in Objects \cup {PINSPACE} |->
                  IF o \in R /\ h.color[o] = h.white THEN ShadeOf(h, o) ELSE h.color[o]]
  BY DEF Visits
<1>4. k.color = [o \in Objects \cup {PINSPACE} |->
                  IF o \in S \cup R /\ g.color[o] = g.white THEN ShadeOf(g, o) ELSE g.color[o]]
  BY <1>1, <1>2, <1>3
<1>5. Len(g.toSpace) \in Nat /\ Len(h.toSpace) \in Nat /\ Len(k.toSpace) \in Nat
  BY DEF GcType, Visits, Marking
<1>6. /\ Len(k.toSpace) >= Len(g.toSpace)
      /\ \A i \in 1 .. Len(g.toSpace) : k.toSpace[i] = g.toSpace[i]
  BY <1>5 DEF Visits
<1> QED BY <1>4, <1>6 DEF Visits

(* visitRoots visits the globals and what the pinned objects refer to.     *)
LEMMA VisitRootsIs ==
  ASSUME NEW g, NEW A, Marking(g, A), NEW n \in Nat, WalkAt(g, n),
         globals \subseteq A, RefsOf(pinned) \subseteq A
  PROVE  Visits(g, A, globals \cup RefsOf(pinned), VisitRoots(g))
<1> DEFINE h == VisitAll(g, globals)
<1>1. Visits(g, A, globals, h)
  BY VisitAllIs
<1>2. Marking(h, A) /\ WalkAt(h, n)
  BY <1>1 DEF Visits
<1> HIDE DEF h
<1>3. Visits(h, A, RefsOf(pinned), VisitAll(h, RefsOf(pinned)))
  BY <1>2, VisitAllIs
<1>4. g \in GcType
  BY DEF Marking
<1> QED BY <1>1, <1>3, <1>4, VisitsTwice DEF VisitRoots, h

(* What is ahead of the walk is the rest of toSpace.                       *)
LEMMA AheadIs ==
  ASSUME NEW g, NEW A, Marking(g, A), NEW n \in Nat, WalkAt(g, n)
  PROVE  /\ Len(Ahead(g)) = Len(g.toSpace) - n
         /\ \A i \in 1 .. (Len(g.toSpace) - n) : Ahead(g)[i] = g.toSpace[n + i]
<1>1. /\ n \in 0 .. Len(g.toSpace) /\ n \in Nat /\ g.iter = At(g.toSpace, n)
      /\ g.iter # TOSPACE => g.iter \in ToSet(g.toSpace)
  BY IterIs
<1>2. IsList(g.toSpace) /\ Len(g.toSpace) \in Nat
  BY InList DEF Marking, Placed
<1>3. CASE n = 0
  BY <1>1, <1>2, <1>3 DEF Ahead, At
<1>4. CASE n # 0
  <2>1. n \in 1 .. Len(g.toSpace) /\ g.iter = g.toSpace[n] /\ n <= Len(g.toSpace)
    BY <1>1, <1>2, <1>4 DEF At
  <2>2. g.iter # TOSPACE /\ Contains(g.toSpace, g.iter) /\ Index(g.toSpace, g.iter) = n
    BY <1>2, <2>1, InList, IndexIs, ItcmsAssumption
  <2>3. Ahead(g) = SubSeq(g.toSpace, n + 1, Len(g.toSpace))
    BY <2>2 DEF Ahead
  <2>4. n + 1 \in 1 .. (Len(g.toSpace) + 1) /\ g.toSpace \in Seq(Objects)
    BY <1>2, <2>1 DEF IsList
  <2>5. Len(Ahead(g)) = Len(g.toSpace) - (n + 1) + 1
    BY <2>3, <2>4, <1>2, <2>1
  <2>6. \A i \in 1 .. (Len(g.toSpace) - n) : Ahead(g)[i] = g.toSpace[n + i]
    BY <2>3, <2>4, <1>2, <2>1
  <2> QED BY <2>5, <2>6, <1>2
<1> QED BY <1>3, <1>4

(* What the walk has still to scan is the first gray object ahead of it.   *)
LEMMA UnscannedIs ==
  ASSUME NEW g, NEW A, Marking(g, A), NEW n \in Nat, WalkAt(g, n)
  PROVE  LET u == Unscanned(g)  o == Ahead(g)[u]
         IN  /\ u = 0 => \A x \in ToSet(g.toSpace) : g.color[x] = Black(g)
             /\ u # 0 => /\ o \in ToSet(g.toSpace) /\ g.color[o] = GRAY
                         /\ \E k \in 1 .. Len(g.toSpace) :
                              /\ g.toSpace[k] = o
                              /\ \A i \in 1 .. (k - 1) : g.color[g.toSpace[i]] = Black(g)
<1>1. /\ n \in 0 .. Len(g.toSpace) /\ n \in Nat /\ Len(g.toSpace) \in Nat
      /\ IsList(g.toSpace)
  BY IterIs, InList DEF Marking, Placed
<1>2. /\ Len(Ahead(g)) = Len(g.toSpace) - n
      /\ \A i \in 1 .. (Len(g.toSpace) - n) : Ahead(g)[i] = g.toSpace[n + i]
  BY AheadIs
<1>3. \A i \in 1 .. n : g.color[g.toSpace[i]] = Black(g)
  BY DEF WalkAt
<1> DEFINE left == {i \in 1 .. Len(Ahead(g)) : g.color[Ahead(g)[i]] # Black(g)}
<1>4. Unscanned(g) = IF left # {} THEN Min(left) ELSE 0
  BY DEF Unscanned, SelectInSeq
<1>5. left \subseteq Nat /\ \A i \in left : i >= 1 /\ i <= Len(g.toSpace) - n
  BY <1>1, <1>2
<1>6. CASE left = {}
  <2>1. \A i \in 1 .. Len(g.toSpace) : g.color[g.toSpace[i]] = Black(g)
    <3> SUFFICES ASSUME NEW i \in 1 .. Len(g.toSpace), i > n
                 PROVE  g.color[g.toSpace[i]] = Black(g)
      BY <1>1, <1>3
    <3>1. i - n \in 1 .. Len(Ahead(g)) /\ i - n \in 1 .. (Len(g.toSpace) - n) /\ n + (i - n) = i
      BY <1>1, <1>2
    <3>2. g.color[Ahead(g)[i - n]] = Black(g)
      BY <1>6, <3>1
    <3> QED BY <3>1, <3>2, <1>2
  <2>2. Unscanned(g) = 0
    BY <1>4, <1>6
  <2> QED BY <2>1, <2>2, <1>1, InList
<1>7. CASE left # {}
  <2> HIDE DEF left
  <2>1. PICK u \in left : \A m \in left : u <= m
    BY <1>5, <1>7, SmallestOne
  <2>2. Unscanned(g) = u
    BY <1>4, <1>5, <1>7, <2>1, MinIs
  <2>3. /\ u \in Nat /\ u >= 1 /\ u <= Len(g.toSpace) - n
        /\ u \in 1 .. Len(Ahead(g)) /\ g.color[Ahead(g)[u]] # Black(g)
    BY <1>5, <2>1 DEF left
  <2> DEFINE k == n + u
  <2>4. k \in 1 .. Len(g.toSpace) /\ g.toSpace[k] = Ahead(g)[u]
    BY <2>3, <1>1, <1>2
  <2>5. \A i \in 1 .. (k - 1) : g.color[g.toSpace[i]] = Black(g)
    <3> SUFFICES ASSUME NEW i \in 1 .. (k - 1), i > n
                 PROVE  g.color[g.toSpace[i]] = Black(g)
      BY <1>1, <1>3, <2>3
    <3>1. i - n \in 1 .. Len(Ahead(g)) /\ i - n \in 1 .. (Len(g.toSpace) - n) /\ n + (i - n) = i
          /\ i - n < u /\ i - n \in Nat
      BY <1>1, <1>2, <2>3
    <3>2. i - n \notin left
      BY <2>1, <2>3, <3>1, <1>5
    <3>3. g.color[Ahead(g)[i - n]] = Black(g)
      BY <3>1, <3>2 DEF left
    <3> QED BY <3>1, <3>3, <1>2
  <2>6. g.toSpace[k] \in ToSet(g.toSpace)
    BY <2>4, <1>1, InList
  <2>7. g.color[g.toSpace[k]] = GRAY
    BY <2>3, <2>4, <2>6 DEF Marking, Coloured
  <2>8. u # 0
    BY <2>3
  <2> HIDE DEF k
  <2> QED BY <2>2, <2>4, <2>5, <2>6, <2>7, <2>8
<1> QED BY <1>6, <1>7

(* An object of toSpace that becomes black moves nowhere.                  *)
LEMMA BlackenIs ==
  ASSUME NEW g, NEW A, Marking(g, A), NEW o \in ToSet(g.toSpace)
  PROVE  LET b == [g EXCEPT !.color[o] = Black(g)]
         IN  /\ Marking(b, A) /\ b.white = g.white /\ b.toSpace = g.toSpace
             /\ b.iter = g.iter /\ b.pinSpace = g.pinSpace
             /\ b.color = [g.color EXCEPT ![o] = Black(g)]
             /\ \A n \in Nat : WalkAt(g, n) => WalkAt(b, n)
<1> DEFINE b == [g EXCEPT !.color[o] = Black(g)]
<1>1. g \in GcType /\ Placed(g, A) /\ Coloured(g) /\ o \in Objects /\ g.state = "MARK"
  BY InList DEF Marking, Placed
<1>2. /\ b.state = g.state /\ b.white = g.white /\ b.iter = g.iter
      /\ b.fromSpace = g.fromSpace /\ b.toSpace = g.toSpace /\ b.pinSpace = g.pinSpace
      /\ b.color = [g.color EXCEPT ![o] = Black(g)]
  BY <1>1 DEF GcType
<1>3. b = Collector(b.state, b.white, b.iter, b.fromSpace, b.toSpace, b.pinSpace, b.color)
  BY <1>1, Fields DEF Collector
<1> HIDE DEF b
<1>4. \A x \in Objects : b.color[x] = IF x = o THEN Black(g) ELSE g.color[x]
  BY <1>1, <1>2 DEF GcType
<1>5. b.color \in [Objects \cup {PINSPACE} -> 0 .. 3]
  BY <1>1, <1>2 DEF GcType, Black
<1>6. b \in GcType
  BY <1>1, <1>2, <1>3, <1>5 DEF GcType, Collector
<1>7. Placed(b, A)
  BY <1>1, <1>2 DEF Placed
<1>8. Black(b) = Black(g)
  BY <1>2 DEF Black
<1>9. Coloured(b)
  <2>1. \A x \in ToSet(g.fromSpace) \cup ToSet(g.pinSpace) : x # o /\ x \in Objects
    BY <1>1, InList DEF Placed
  <2>2. ToSet(g.toSpace) \subseteq Objects
    BY <1>1, InList DEF Placed
  <2> QED BY <1>1, <1>2, <1>4, <1>8, <2>1, <2>2 DEF Coloured
<1>10. \A n \in Nat : WalkAt(g, n) => WalkAt(b, n)
  <2> SUFFICES ASSUME NEW n \in Nat, WalkAt(g, n) PROVE WalkAt(b, n)
    OBVIOUS
  <2>1. \A i \in 1 .. n : g.toSpace[i] \in Objects
    BY <1>1, InList DEF Placed, WalkAt
  <2> QED BY <2>1, <1>2, <1>4, <1>8 DEF WalkAt
<1> QED BY <1>1, <1>2, <1>6, <1>7, <1>9, <1>10 DEF Marking, b
-----------------------------------------------------------------------------
(* What each scan keeps, the scans of the last walk keep: as VisitAllFold. *)
LEMMA ScanRestFold ==
  ASSUME NEW g, NEW S, IsFiniteSet(S), S = Objects, NEW H, g \in H[{}],
         \A s \in SUBSET S : \A x \in S \ s : \A h \in H[s] : ScanNext(h) \in H[s \cup {x}]
  PROVE  ScanRest(g) \in H[S]
<1> DEFINE pick == [s \in SUBSET S |-> CHOOSE x \in s : TRUE]
           States == UNION {H[s] : s \in SUBSET S}
           step == [p \in S \X States |-> ScanNext(p[2])]
           Folds(it) == it = [s \in SUBSET S |->
                                IF s = {} THEN g
                                ELSE ScanNext(it[s \ {CHOOSE x \in s : TRUE}])]
<1>1. \A s \in SUBSET S : s # {} => pick[s] \in s
  OBVIOUS
<1>2. \A s \in SUBSET S : \A x \in S \ s : \A h \in H[s] :
        step[<<x, h>>] = ScanNext(h) /\ step[<<x, h>>] \in H[s \cup {x}]
  OBVIOUS
<1>3. \E it : IsFold(it, S, pick, H, g, step)
  <2> HIDE DEF pick, step, States, Folds
  <2>1. \A s \in SUBSET S : \A x \in S \ s : \A h \in H[s] : step[<<x, h>>] \in H[s \cup {x}]
    BY <1>2
  <2> QED BY <1>1, <2>1, FoldExists
<1>4. \E it : Folds(it)
  <2> HIDE DEF step, pick
  <2>1. PICK it : /\ it = [s \in SUBSET S |-> it[s]]
                  /\ it[{}] = g
                  /\ \A s \in SUBSET S :
                       /\ s # {} => it[s] = step[<<pick[s], it[s \ {pick[s]}]>>]
                       /\ it[s] \in H[s]
    BY <1>3 DEF IsFold
  <2>2. ASSUME NEW s \in SUBSET S, s # {}
        PROVE  it[s] = ScanNext(it[s \ {CHOOSE x \in s : TRUE}])
    <3>1. pick[s] = CHOOSE x \in s : TRUE
      BY DEF pick
    <3>2. pick[s] \in s /\ it[s \ {pick[s]}] \in H[s \ {pick[s]}]
      BY <1>1, <2>1, <2>2
    <3>5. s \ {pick[s]} \in SUBSET S /\ pick[s] \in S \ (s \ {pick[s]})
      BY <3>2
    <3>3. step[<<pick[s], it[s \ {pick[s]}]>>] = ScanNext(it[s \ {pick[s]}])
      <4> HIDE DEF Folds, States
      <4> QED BY ONLY <1>2, <3>2, <3>5
    <3>4. it[s] = step[<<pick[s], it[s \ {pick[s]}]>>]
      BY <2>1, <2>2
    <3> QED BY <3>1, <3>3, <3>4, <2>2
  <2>3. it[{}] = g /\ it = [s \in SUBSET S |-> it[s]]
    BY <2>1
  <2>4. [s \in SUBSET S |-> it[s]] = [s \in SUBSET S |->
                                IF s = {} THEN g
                                ELSE ScanNext(it[s \ {CHOOSE x \in s : TRUE}])]
    BY <2>2, <2>3
  <2> QED BY <2>3, <2>4
<1> DEFINE fold == CHOOSE it : Folds(it)
<1>5. Folds(fold)
  <2> HIDE DEF Folds
  <2> QED BY <1>4
<1>6. ScanRest(g) = fold[S]
  BY DEF ScanRest, FoldSet, MapThenFoldSet
<1> HIDE DEF fold, step
<1>7. {s \in SUBSET S : fold[s] \in H[s]} = SUBSET S
  <2> DEFINE Kept == {s \in SUBSET S : fold[s] \in H[s]}
  <2>1. {} \in Kept
    BY <1>5
  <2>2. ASSUME NEW s \in SUBSET S, s # {}, \A x \in s : s \ {x} \in Kept
        PROVE  s \in Kept
    <3>1. pick[s] \in s /\ pick[s] = CHOOSE x \in s : TRUE
      BY <1>1, <2>2
    <3> HIDE DEF pick
    <3>2. fold[s] = ScanNext(fold[s \ {pick[s]}])
      BY <1>5, <2>2, <3>1
    <3>3. fold[s \ {pick[s]}] \in H[s \ {pick[s]}]
      BY <2>2, <3>1
    <3>4. ScanNext(fold[s \ {pick[s]}]) \in H[(s \ {pick[s]}) \cup {pick[s]}]
      BY <3>1, <3>3
    <3>5. (s \ {pick[s]}) \cup {pick[s]} = s
      BY <3>1
    <3> QED BY <3>2, <3>4, <3>5
  <2>3. Kept \in SUBSET (SUBSET S)
    OBVIOUS
  <2> HIDE DEF Kept
  <2>4. Kept = SUBSET S
    BY <2>1, <2>2, <2>3, SubsetInduction
  <2> QED BY <2>4 DEF Kept
<1> QED BY <1>6, <1>7

(* Scanning an object of toSpace blackens it and shades the white objects  *)
(* it refers to.                                                           *)
LEMMA ScanIs ==
  ASSUME NEW g, NEW A, Marking(g, A), NEW n \in Nat, WalkAt(g, n),
         NEW o \in ToSet(g.toSpace), refs[o] \subseteq A
  PROVE  LET r == ScanObject(g, o)
         IN  /\ Marking(r, A)
             /\ r.white = g.white /\ r.iter = g.iter /\ r.pinSpace = g.pinSpace
             /\ r.color = [x \in Objects \cup {PINSPACE} |->
                             IF x = o THEN Black(g)
                             ELSE IF x \in refs[o] /\ g.color[x] = g.white THEN ShadeOf(g, x)
                             ELSE g.color[x]]
             /\ \A m \in Nat : WalkAt(g, m) => WalkAt(r, m)
             /\ \A m \in Nat : WalkAt([g EXCEPT !.color[o] = Black(g)], m) => WalkAt(r, m)
<1> DEFINE b == [g EXCEPT !.color[o] = Black(g)]
           r == ScanObject(g, o)
<1>1. /\ Marking(b, A) /\ b.white = g.white
      /\ b.iter = g.iter /\ b.pinSpace = g.pinSpace
      /\ b.color = [g.color EXCEPT ![o] = Black(g)]
      /\ \A m \in Nat : WalkAt(g, m) => WalkAt(b, m)
  BY BlackenIs
<1>2. o \in Objects /\ o # PINSPACE /\ g \in GcType
  BY InList, ItcmsAssumption DEF Marking, Placed
<1>3. r = VisitAll(b, refs[o])
  BY <1>2 DEF ScanObject, Members
<1> HIDE DEF r, b
<1>4. Visits(b, A, refs[o], r)
  BY <1>1, <1>3, VisitAllIs
<1>5. /\ Black(b) = Black(g) /\ \A x : ShadeOf(b, x) = ShadeOf(g, x)
      /\ Black(g) # g.white
  BY <1>1, <1>2 DEF Black, ShadeOf, GcType
<1>6. \A x \in Objects \cup {PINSPACE} : b.color[x] = IF x = o THEN Black(g) ELSE g.color[x]
  BY <1>1, <1>2 DEF GcType
<1>7. r.color = [x \in Objects \cup {PINSPACE} |->
                   IF x \in refs[o] /\ b.color[x] = b.white THEN ShadeOf(b, x) ELSE b.color[x]]
  BY <1>4 DEF Visits
<1>8. r.color = [x \in Objects \cup {PINSPACE} |->
                             IF x = o THEN Black(g)
                             ELSE IF x \in refs[o] /\ g.color[x] = g.white THEN ShadeOf(g, x)
                             ELSE g.color[x]]
  BY <1>1, <1>5, <1>6, <1>7
<1> QED BY <1>1, <1>4, <1>8 DEF Visits, r, b

(* What the stack leads to, as far as it has been followed.  W: what was   *)
(* white.                                                                  *)
Kept(g, A, W, h) ==
  /\ Marking(h, A)
  /\ h.white = g.white /\ h.pinSpace = g.pinSpace
  /\ \E n \in Nat : WalkAt(h, n)
  /\ \A o \in A \ W : h.color[o] = g.color[o]
  /\ \A o \in W \cap stack : h.color[o] # h.white
  /\ \A o \in W : h.color[o] = Black(h) => \A c \in refs[o] : h.color[c] # h.white
  /\ \A o \in W : h.color[o] # h.white => o \in Reachable

(* The black objects: each scan adds to them, which bounds the walk.       *)
Blacks(h) == {o \in Objects : h.color[o] = Black(h)}

(* The roots are reachable, and so is what a reachable object refers to.   *)
LEMMA ReachableClosed ==
  ASSUME HeapTypeOK
  PROVE  /\ Roots \subseteq Reachable /\ Reachable \subseteq Objects
         /\ \A o \in Reachable : refs[o] \subseteq Reachable
<1>1. Roots \subseteq Objects
  BY DEF HeapTypeOK, Roots
<1>2. Roots \subseteq Reachable
  BY <1>1 DEF Reachable
<1>3. \A o \in Reachable : refs[o] \subseteq Reachable
  <2> SUFFICES ASSUME NEW o \in Reachable, NEW c \in refs[o] PROVE c \in Reachable
    OBVIOUS
  <2>1. o \in Objects /\ c \in Objects
    BY DEF HeapTypeOK, Reachable
  <2>2. ASSUME NEW S \in SUBSET Objects, Roots \subseteq S, RefsOf(S) \subseteq S PROVE c \in S
    <3>1. o \in S
      BY <2>2 DEF Reachable
    <3> QED BY <2>2, <3>1 DEF RefsOf
  <2> QED BY <2>1, <2>2 DEF Reachable
<1> QED BY <1>2, <1>3 DEF Reachable

(* One scan of the last walk follows what the stack leads to one step      *)
(* further, and blackens one object more.                                  *)
LEMMA KeptNext ==
  ASSUME NEW g, NEW A, NEW W \in SUBSET A, NEW h, Kept(g, A, W, h), Unscanned(h) # 0,
         \A o \in A \ W : g.color[o] \in {Black(g), TRANSPARENT},
         HeapTypeOK, \A o \in A : refs[o] \subseteq A,
         \A o \in Objects \cap Pointerfree : refs[o] = {}
  PROVE  /\ Kept(g, A, W, ScanNext(h))
         /\ \E o \in Objects \ Blacks(h) : Blacks(h) \cup {o} \subseteq Blacks(ScanNext(h))
<1> DEFINE o == Ahead(h)[Unscanned(h)]
           r == ScanObject(h, o)
<1>1. PICK n \in Nat : WalkAt(h, n)
  BY DEF Kept
<1>2. Marking(h, A) /\ h.white = g.white /\ Black(h) = Black(g)
  BY DEF Kept, Black
<1>3. o \in ToSet(h.toSpace) /\ h.color[o] = GRAY
  BY <1>1, <1>2, UnscannedIs
<1>4. o \in A /\ A \subseteq Objects /\ Black(h) \in {0, 1} /\ h.white \in {0, 1} /\ Black(h) # h.white
  BY <1>2, <1>3, InSpaces DEF Marking, Placed
<1>5. ScanNext(h) = r
  BY DEF ScanNext
<1> HIDE DEF o
<1>6. /\ Marking(r, A) /\ r.white = h.white /\ r.pinSpace = h.pinSpace
      /\ r.color = [x \in Objects \cup {PINSPACE} |->
                             IF x = o THEN Black(h)
                             ELSE IF x \in refs[o] /\ h.color[x] = h.white THEN ShadeOf(h, x)
                             ELSE h.color[x]]
      /\ \A m \in Nat : WalkAt(h, m) => WalkAt(r, m)
  <2> HIDE DEF r
  <2>1. refs[o] \subseteq A
    BY <1>4
  <2>2. LET r_ == ScanObject(h, o)
        IN  /\ Marking(r_, A)
            /\ r_.white = h.white /\ r_.iter = h.iter /\ r_.pinSpace = h.pinSpace
            /\ r_.color = [x \in Objects \cup {PINSPACE} |->
                             IF x = o THEN Black(h)
                             ELSE IF x \in refs[o] /\ h.color[x] = h.white THEN ShadeOf(h, x)
                             ELSE h.color[x]]
            /\ \A m \in Nat : WalkAt(h, m) => WalkAt(r_, m)
            /\ \A m \in Nat : WalkAt([h EXCEPT !.color[o] = Black(h)], m) => WalkAt(r_, m)
    BY ONLY <1>1, <1>2, <1>3, <2>1, ScanIs
  <2> QED BY <2>2 DEF r
<1> HIDE DEF r
<1>7. Black(r) = Black(h)
  BY <1>6 DEF Black
<1>8. \A x \in Objects :
        r.color[x] = IF x = o THEN Black(h)
                     ELSE IF x \in refs[o] /\ h.color[x] = h.white THEN ShadeOf(h, x)
                     ELSE h.color[x]
  BY <1>6
<1>9. o \in W
  BY <1>2, <1>3, <1>4 DEF Kept, GRAY, TRANSPARENT
<1>10. \A x \in Objects : ShadeOf(h, x) # h.white
  BY <1>4 DEF ShadeOf, GRAY
<1>11. \A x \in A \ W : r.color[x] = g.color[x]
  BY <1>2, <1>4, <1>8, <1>9 DEF Kept, TRANSPARENT
<1>12. \A x \in Objects : h.color[x] # h.white => r.color[x] # h.white
  BY <1>4, <1>8
<1>13. ASSUME NEW x \in W, r.color[x] = Black(h), NEW c \in refs[x] PROVE r.color[c] # h.white
  <2>1. c \in Objects /\ x \in Objects
    BY <1>4
  <2>2. CASE x = o
    BY <2>1, <2>2, <1>4, <1>8, <1>10
  <2>3. CASE x # o /\ x \in refs[o] /\ h.color[x] = h.white
    <3>1. ShadeOf(h, x) = Black(h)
      BY <1>8, <1>13, <2>1, <2>3
    <3>2. x \in Pointerfree
      BY <3>1, <1>4 DEF ShadeOf, GRAY
    <3> QED BY <3>2, <2>1
  <2>4. CASE x # o /\ ~(x \in refs[o] /\ h.color[x] = h.white)
    <3>1. h.color[x] = Black(h)
      BY <1>8, <1>13, <2>1, <2>4
    <3>2. h.color[c] # h.white
      BY <3>1, <1>13 DEF Kept
    <3> QED BY <3>2, <2>1, <1>12
  <2> QED BY <2>2, <2>3, <2>4
<1>14. ASSUME NEW x \in W, r.color[x] # h.white PROVE x \in Reachable
  <2>1. o \in Reachable /\ refs[o] \subseteq Reachable
    BY <1>3, <1>4, <1>9, ReachableClosed DEF Kept, GRAY
  <2>2. x \in Objects
    BY <1>4
  <2> QED BY <2>1, <2>2, <1>8, <1>14 DEF Kept
<1>15. Kept(g, A, W, r)
  <2>1. \A x \in W \cap stack : r.color[x] # r.white
    BY <1>4, <1>6, <1>12 DEF Kept
  <2>2. \A x \in W : r.color[x] = Black(r) => \A c \in refs[x] : r.color[c] # r.white
    BY <1>6, <1>7, <1>13
  <2>3. \A x \in W : r.color[x] # r.white => x \in Reachable
    BY <1>6, <1>14
  <2> QED BY <2>1, <2>2, <2>3, <1>1, <1>2, <1>6, <1>11 DEF Kept
<1>16. o \in Objects \ Blacks(h) /\ Blacks(h) \cup {o} \subseteq Blacks(r)
  BY <1>3, <1>4, <1>7, <1>8 DEF Blacks, GRAY
<1> QED BY <1>5, <1>15, <1>16

(* The last walk ends with nothing left to scan: there are as many scans   *)
(* in it as objects, and each that finds something to do blackens one      *)
(* more.                                                                   *)
LEMMA ScanRestIs ==
  ASSUME NEW g, NEW A, NEW W \in SUBSET A, NEW v, Kept(g, A, W, v),
         \A o \in A \ W : g.color[o] \in {Black(g), TRANSPARENT},
         HeapTypeOK, \A o \in A : refs[o] \subseteq A,
         \A o \in Objects \cap Pointerfree : refs[o] = {}
  PROVE  Kept(g, A, W, ScanRest(v)) /\ Unscanned(ScanRest(v)) = 0
<1> DEFINE Far(s, h) == Unscanned(h) = 0 \/ Cardinality(Blacks(h)) >= Cardinality(s)
           H == [s \in SUBSET Objects |-> {h \in GcType : Kept(g, A, W, h) /\ Far(s, h)}]
<1>1. IsFiniteSet(Objects) /\ \A s \in SUBSET Objects : IsFiniteSet(s) /\ Cardinality(s) \in Nat
  BY ItcmsAssumption, FS_Subset, FS_CardinalityType
<1>2. \A h : Blacks(h) \in SUBSET Objects
  BY DEF Blacks
<1>3. v \in H[{}]
  <2>1. Cardinality({}) = 0 /\ Cardinality(Blacks(v)) \in Nat
    BY <1>1, <1>2, FS_EmptySet
  <2>2. v \in GcType
    BY DEF Kept, Marking
  <2> QED BY <2>1, <2>2
<1>4. \A s \in SUBSET Objects : \A x \in Objects \ s : \A h \in H[s] : ScanNext(h) \in H[s \cup {x}]
  <2> SUFFICES ASSUME NEW s \in SUBSET Objects, NEW x \in Objects \ s, NEW h \in H[s]
               PROVE  ScanNext(h) \in H[s \cup {x}]
    OBVIOUS
  <2>1. h \in GcType /\ Kept(g, A, W, h) /\ Far(s, h)
    OBVIOUS
  <2>2. s \cup {x} \in SUBSET Objects
    OBVIOUS
  <2>3. CASE Unscanned(h) = 0
    <3>1. ScanNext(h) = h
      BY <2>3 DEF ScanNext
    <3> QED BY <2>1, <2>2, <2>3, <3>1
  <2>4. CASE Unscanned(h) # 0
    <3>1. Kept(g, A, W, ScanNext(h))
      BY <2>1, <2>4, KeptNext
    <3>2. PICK o \in Objects \ Blacks(h) : Blacks(h) \cup {o} \subseteq Blacks(ScanNext(h))
      BY <2>1, <2>4, KeptNext
    <3>3. Cardinality(Blacks(h) \cup {o}) = Cardinality(Blacks(h)) + 1
      BY <1>1, <1>2, <3>2, FS_AddElement
    <3>4. Cardinality(Blacks(h) \cup {o}) <= Cardinality(Blacks(ScanNext(h)))
      BY <1>1, <1>2, <3>2, FS_Subset
    <3>5. Cardinality(s \cup {x}) = Cardinality(s) + 1
      BY <1>1, FS_AddElement
    <3>6. Cardinality(Blacks(h)) >= Cardinality(s)
      BY <2>1, <2>4
    <3>7. /\ Cardinality(Blacks(h)) \in Nat /\ Cardinality(s) \in Nat
          /\ Cardinality(Blacks(ScanNext(h))) \in Nat
      BY <1>1, <1>2
    <3>8. Cardinality(Blacks(ScanNext(h))) >= Cardinality(s \cup {x})
      <4> HIDE DEF H, Far
      <4> QED BY <3>3, <3>4, <3>5, <3>6, <3>7
    <3>9. ScanNext(h) \in GcType
      BY <3>1 DEF Kept, Marking
    <3> QED BY <2>2, <3>1, <3>8, <3>9
  <2> QED BY <2>3, <2>4
<1> HIDE DEF H
<1>5. ScanRest(v) \in H[Objects]
  BY <1>1, <1>3, <1>4, ScanRestFold
<1> DEFINE r == ScanRest(v)
<1>6. Kept(g, A, W, r) /\ Far(Objects, r)
  BY <1>5 DEF H
<1> HIDE DEF r
<1>7. Unscanned(r) = 0
  <2> SUFFICES ASSUME Unscanned(r) # 0 PROVE FALSE
    OBVIOUS
  <2>1. PICK o \in Objects \ Blacks(r) : TRUE
    BY <1>6, KeptNext
  <2>2. Cardinality(Blacks(r) \cup {o}) = Cardinality(Blacks(r)) + 1
    BY <1>1, <1>2, FS_AddElement
  <2>3. Cardinality(Blacks(r) \cup {o}) <= Cardinality(Objects)
    BY <1>1, <1>2, FS_Subset
  <2>4. /\ Cardinality(Blacks(r)) \in Nat /\ Cardinality(Objects) \in Nat
        /\ Cardinality(Blacks(r)) >= Cardinality(Objects)
    BY <1>1, <1>2, <1>6
  <2> HIDE DEF Far
  <2> QED BY <2>2, <2>3, <2>4
<1> QED BY <1>6, <1>7 DEF r
-----------------------------------------------------------------------------
P == INSTANCE TriColourProofs WITH colour <- Colouring, phase <- Phase

(* The invariant of the spaces: each allocated object is in one of them,   *)
(* with the colour that space is for, and iter is where the collector can  *)
(* go on from.                                                             *)
Lists ==
  /\ gc \in GcType /\ Placed(gc, allocated) /\ Coloured(gc) /\ Walking(gc)
  /\ pinned = ToSet(gc.pinSpace)

(* Abstracted, of a state of the collector and a set of objects.           *)
Tint(g, A, o) ==
  IF o \notin A THEN "white"
  ELSE CASE g.color[o] = TRANSPARENT -> "pinned"
         [] g.color[o] = GRAY        -> "gray"
         [] g.color[o] = g.white     -> "white"
         [] OTHER -> IF g.state = "SWEEP" THEN "dead" ELSE "black"

(* The abstract colours are the tints of the state of the collector.       *)
LEMMA TintOfGc ==
  /\ \A o : Abstracted(o) = Tint(gc, allocated, o)
  /\ \A o : Abstracted(o)' = Tint(gc', allocated', o)
  /\ \A o \in Objects : Colouring[o] = Tint(gc, allocated, o)
  /\ \A o \in Objects : Colouring'[o] = Tint(gc', allocated', o)
  /\ Colouring = [o \in Objects |-> Tint(gc, allocated, o)]
  /\ Colouring' = [o \in Objects |-> Tint(gc', allocated', o)]
BY DEF Abstracted, Tint, Colouring

(* The tint of an object follows from the space it is in.                  *)
LEMMA TintIs ==
  ASSUME NEW g, NEW A, g \in GcType, Placed(g, A), Coloured(g), NEW o
  PROVE  /\ o \notin A => Tint(g, A, o) = "white"
         /\ o \in ToSet(g.pinSpace) => Tint(g, A, o) = "pinned"
         /\ o \in ToSet(g.fromSpace) => Tint(g, A, o) = "white"
         /\ o \in ToSet(g.toSpace) =>
              /\ g.state = "SWEEP" => Tint(g, A, o) = "dead"
              /\ g.state # "SWEEP" /\ g.color[o] = GRAY => Tint(g, A, o) = "gray"
              /\ g.state # "SWEEP" /\ g.color[o] # GRAY => Tint(g, A, o) = "black"
              /\ g.color[o] # g.white
         /\ Tint(g, A, o) \in {"white", "gray", "black", "pinned", "dead"}
<1>1. g.white \in {0, 1} /\ Black(g) # g.white /\ Black(g) \in {0, 1}
  BY DEF GcType, Black
<1>2. Tint(g, A, o) \in {"white", "gray", "black", "pinned", "dead"}
  BY DEF Tint
<1>3. o \notin A => Tint(g, A, o) = "white"
  BY DEF Tint
<1>4. o \in ToSet(g.pinSpace) => Tint(g, A, o) = "pinned"
  BY <1>1 DEF Tint, Placed, Coloured, GRAY, TRANSPARENT
<1>5. o \in ToSet(g.fromSpace) => Tint(g, A, o) = "white"
  BY <1>1 DEF Tint, Placed, Coloured, GRAY, TRANSPARENT
<1>6. o \in ToSet(g.toSpace) =>
              /\ g.state = "SWEEP" => Tint(g, A, o) = "dead"
              /\ g.state # "SWEEP" /\ g.color[o] = GRAY => Tint(g, A, o) = "gray"
              /\ g.state # "SWEEP" /\ g.color[o] # GRAY => Tint(g, A, o) = "black"
              /\ g.color[o] # g.white
  BY <1>1 DEF Tint, Placed, Coloured, GRAY, TRANSPARENT
<1> QED BY <1>2, <1>3, <1>4, <1>5, <1>6

(* What the invariant of the abstract collector says of the heap.          *)
LEMMA HeapFacts ==
  ASSUME Lists, P!Inv
  PROVE  /\ HeapTypeOK
         /\ Roots \subseteq allocated
         /\ \A o \in Roots : Tint(gc, allocated, o) # "dead"
         /\ \A o \in allocated : Tint(gc, allocated, o) # "dead" => refs[o] \subseteq allocated
         /\ \A o \in allocated : Tint(gc, allocated, o) # "dead" =>
              \A c \in refs[o] : Tint(gc, allocated, c) # "dead"
         /\ \A o \in Objects \cap Pointerfree : refs[o] = {}
<1>1. HeapTypeOK
  BY DEF P!Inv, P!TypeOK, P!HeapTypeOK, HeapTypeOK
<1>2. P!Live = {o \in allocated : Tint(gc, allocated, o) # "dead"}
  BY <1>1, TintOfGc DEF P!Live, HeapTypeOK
<1>3. P!Roots = Roots /\ P!Roots \subseteq P!Live
  BY DEF P!Roots, Roots, P!Inv, P!Closed
<1>4. P!RefsOf(P!Live) \subseteq P!Live
  BY DEF P!Inv, P!Closed
<1>5. \A o \in P!Live : refs[o] \subseteq P!Live
  BY <1>4 DEF P!RefsOf
<1>6. \A o \in Objects \cap Pointerfree : refs[o] = {}
  BY DEF P!Inv, P!StringsHoldNothing
<1> QED BY <1>1, <1>2, <1>3, <1>5, <1>6

(* While nothing is dead, what is allocated refers to what is allocated.   *)
LEMMA MarkFacts ==
  ASSUME Lists, P!Inv, gc.state # "SWEEP"
  PROVE  /\ \A o \in allocated : refs[o] \subseteq allocated
         /\ globals \subseteq allocated /\ stack \subseteq allocated
         /\ RefsOf(pinned) \subseteq allocated /\ pinned \subseteq allocated
<1>1. \A o \in allocated : Tint(gc, allocated, o) # "dead"
  BY DEF Tint
<1>2. \A o \in allocated : refs[o] \subseteq allocated
  BY <1>1, HeapFacts
<1>3. globals \subseteq allocated /\ stack \subseteq allocated /\ pinned \subseteq allocated
  BY HeapFacts DEF Roots
<1> QED BY <1>2, <1>3 DEF RefsOf

(* Visiting shades: the abstract colours after a visit.                    *)
LEMMA VisitsTint ==
  ASSUME NEW g, NEW A, Marking(g, A), NEW S, NEW h, Visits(g, A, S, h), NEW o \in Objects
  PROVE  Tint(h, A, o) = IF o \in S /\ o \in A /\ Tint(g, A, o) = "white"
                         THEN IF o \in Pointerfree THEN "black" ELSE "gray"
                         ELSE Tint(g, A, o)
<1>1. /\ g.white \in {0, 1} /\ Black(g) \in {0, 1} /\ Black(g) # g.white
      /\ h.white = g.white /\ g.state = "MARK" /\ h.state = "MARK"
  BY DEF Marking, GcType, Black, Visits
<1>2. h.color[o] = IF o \in S /\ g.color[o] = g.white THEN ShadeOf(g, o) ELSE g.color[o]
  BY DEF Visits
<1>3. o \in A => (Tint(g, A, o) = "white" <=> g.color[o] = g.white)
  BY <1>1 DEF Tint, GRAY, TRANSPARENT
<1>4. CASE o \in S /\ o \in A /\ g.color[o] = g.white
  BY <1>1, <1>2, <1>3, <1>4 DEF Tint, ShadeOf, GRAY, TRANSPARENT
<1>5. CASE o \notin A
  BY <1>5 DEF Tint
<1>6. CASE o \in A /\ ~(o \in S /\ g.color[o] = g.white)
  BY <1>1, <1>2, <1>3, <1>6 DEF Tint
<1> QED BY <1>4, <1>5, <1>6

(* The colours of the abstract collector after it has shaded S.            *)
LEMMA ShadedIs ==
  ASSUME NEW S
  PROVE  P!Shaded(S) =
           [o \in Objects |->
              IF o \in S /\ o \in allocated /\ Tint(gc, allocated, o) = "white"
              THEN IF o \in Pointerfree THEN "black" ELSE "gray"
              ELSE Tint(gc, allocated, o)]
BY TintOfGc DEF P!Shaded, P!Shade, P!Whites
-----------------------------------------------------------------------------
(* The step that begins a cycle visits the roots: Begin.                   *)
LEMMA IdleMark ==
  ASSUME Lists, P!Inv, StepIdle
  PROVE  Lists' /\ P!Begin
<1> DEFINE g == [gc EXCEPT !.state = "MARK"]
           r == VisitRoots(g)
           S == globals \cup RefsOf(pinned)
<1>1. /\ gc \in GcType /\ gc.state = "IDLE" /\ gc.toSpace = <<>> /\ gc.iter = TOSPACE
      /\ UNCHANGED heapVars /\ gc' = [r EXCEPT !.iter = TOSPACE]
  BY DEF Lists, Walking, StepIdle
<1>2. /\ g \in GcType /\ g.state = "MARK" /\ g.white = gc.white /\ g.iter = gc.iter
      /\ g.fromSpace = gc.fromSpace /\ g.toSpace = gc.toSpace /\ g.pinSpace = gc.pinSpace
      /\ g.color = gc.color
  BY <1>1 DEF GcType
<1> HIDE DEF g
<1>3. Black(g) = Black(gc)
  BY <1>2 DEF Black
<1>4. Marking(g, allocated)
  BY <1>1, <1>2, <1>3 DEF Lists, Placed, Coloured, Marking
<1>5. WalkAt(g, 0)
  BY <1>1, <1>2 DEF WalkAt
<1>6. Visits(g, allocated, S, r)
  BY <1>1, <1>4, <1>5, MarkFacts, VisitRootsIs
<1> HIDE DEF r
<1>7. Marking(r, allocated) /\ WalkAt(r, 0) /\ r.iter = TOSPACE /\ r.pinSpace = gc.pinSpace
  BY <1>1, <1>2, <1>5, <1>6 DEF Visits
<1>8. gc' = r
  <2>1. r \in GcType
    BY <1>7 DEF Marking
  <2>2. [r EXCEPT !.iter = TOSPACE] = r
    BY <1>7, <2>1 DEF GcType
  <2> QED BY <1>1, <2>2
<1>9. allocated' = allocated /\ pinned' = pinned
  BY <1>1 DEF heapVars
<1>10. Lists'
  <2>1. /\ r \in GcType /\ Placed(r, allocated) /\ Coloured(r) /\ Walking(r)
    BY <1>7 DEF Marking, Walking
  <2>2. (gc \in GcType /\ Placed(gc, allocated) /\ Coloured(gc) /\ Walking(gc))'
    BY <1>8, <1>9, <2>1 DEF Placed, Coloured, Walking, WalkAt, Black
  <2>3. (pinned = ToSet(gc.pinSpace))'
    BY <1>7, <1>8, <1>9 DEF Lists
  <2> QED BY <2>2, <2>3 DEF Lists
<1>11. \A o \in Objects : Tint(g, allocated, o) = Tint(gc, allocated, o)
  BY <1>1, <1>2 DEF Tint
<1>12. Colouring' = P!Shaded(S)
  <2>1. \A o \in Objects :
          Tint(r, allocated, o) =
             IF o \in S /\ o \in allocated /\ Tint(gc, allocated, o) = "white"
             THEN IF o \in Pointerfree THEN "black" ELSE "gray"
             ELSE Tint(gc, allocated, o)
    BY <1>4, <1>6, <1>11, VisitsTint
  <2> QED BY <2>1, <1>8, <1>9, TintOfGc, ShadedIs
<1>13. P!Visited = S
  BY DEF P!Visited, P!RefsOf, RefsOf
<1>14. Phase = "idle" /\ Phase' = "mark"
  BY <1>1, <1>7, <1>8 DEF Phase, Marking
<1>15. UNCHANGED P!heapVars
  BY <1>1 DEF heapVars, P!heapVars
<1> QED BY <1>10, <1>12, <1>13, <1>14, <1>15 DEF P!Begin
-----------------------------------------------------------------------------
(* What a state of the lists says of the abstract colours, for a step that *)
(* keeps collecting.                                                       *)
LEMMA MarkingLists ==
  ASSUME NEW r, Marking(r, allocated'), NEW n \in Nat, WalkAt(r, n), gc' = r,
         pinned' = ToSet(r.pinSpace)
  PROVE  Lists' /\ Phase' = "mark"
<1>1. /\ r \in GcType /\ Placed(r, allocated') /\ Coloured(r) /\ Walking(r)
  BY DEF Marking, Walking
<1>2. (gc \in GcType /\ Placed(gc, allocated) /\ Coloured(gc) /\ Walking(gc))'
  BY <1>1 DEF Placed, Coloured, Walking, WalkAt, Black
<1>3. Phase' = "mark"
  BY DEF Phase, Marking
<1> QED BY <1>2, <1>3 DEF Lists

(* A step of the walk scans one gray object: Scan.                         *)
LEMMA ScanMark ==
  ASSUME Lists, P!Inv, StepScan
  PROVE  Lists' /\ \E o \in Objects : P!Scan(o)
<1> DEFINE o == Ahead(gc)[Unscanned(gc)]
           g == [gc EXCEPT !.iter = o]
           r == ScanObject(g, o)
<1>1. /\ gc.state = "MARK" /\ Unscanned(gc) # 0 /\ gc' = r /\ UNCHANGED heapVars
      /\ gc \in GcType
  BY DEF StepScan, Lists
<1>2. PICK n \in Nat : WalkAt(gc, n)
  BY <1>1 DEF Lists, Walking
<1>3. Marking(gc, allocated)
  BY <1>1 DEF Marking, Lists
<1>4. /\ o \in ToSet(gc.toSpace) /\ gc.color[o] = GRAY
      /\ \E k \in 1 .. Len(gc.toSpace) :
                              /\ gc.toSpace[k] = o
                              /\ \A i \in 1 .. (k - 1) : gc.color[gc.toSpace[i]] = Black(gc)
  BY <1>1, <1>2, <1>3, UnscannedIs
<1> HIDE DEF o
<1>5. PICK k \in 1 .. Len(gc.toSpace) :
        gc.toSpace[k] = o /\ \A i \in 1 .. (k - 1) : gc.color[gc.toSpace[i]] = Black(gc)
  BY <1>4
<1>6. o \in allocated /\ o \in Objects /\ allocated \subseteq Objects
  <2>1. allocated \subseteq Objects
    BY <1>3, InSpaces
  <2> QED BY <2>1, <1>3, <1>4 DEF Marking, Placed
<1>7. /\ g \in GcType /\ g.state = "MARK" /\ g.white = gc.white /\ g.iter = o
      /\ g.fromSpace = gc.fromSpace /\ g.toSpace = gc.toSpace /\ g.pinSpace = gc.pinSpace
      /\ g.color = gc.color
  BY <1>1, <1>6 DEF GcType
<1> HIDE DEF g, r
<1>8. Black(g) = Black(gc) /\ Black(g) \in 0 .. 1 /\ GRAY \notin 0 .. 1 /\ Black(g) # g.white
  BY <1>7 DEF Black, GRAY, GcType
<1>9. Marking(g, allocated)
  BY <1>3, <1>7, <1>8 DEF Placed, Coloured, Marking
<1> DEFINE b == [g EXCEPT !.color[o] = Black(g)]
<1>10. /\ b.color = [gc.color EXCEPT ![o] = Black(g)] /\ b.white = gc.white
       /\ b.iter = o /\ b.toSpace = gc.toSpace
  BY <1>7 DEF GcType
<1>11. WalkAt(b, k)
  <2> HIDE DEF b
  <2>1. Black(b) = Black(gc)
    BY <1>10 DEF Black
  <2>2. \A x \in Objects : b.color[x] = IF x = o THEN Black(gc) ELSE gc.color[x]
    BY <1>1, <1>8, <1>10 DEF GcType
  <2>3. IsList(gc.toSpace) /\ Len(gc.toSpace) \in Nat
    BY <1>3, InList DEF Marking, Placed
  <2>4. \A i \in 1 .. k : b.color[b.toSpace[i]] = Black(b)
    <3> SUFFICES ASSUME NEW i \in 1 .. k PROVE b.color[b.toSpace[i]] = Black(b)
      OBVIOUS
    <3>1. gc.toSpace[i] \in Objects
      BY <2>3, InList
    <3>2. i = k \/ i \in 1 .. (k - 1)
      BY <2>3
    <3> QED BY <3>1, <3>2, <1>5, <1>10, <2>1, <2>2
  <2> QED BY <2>3, <2>4, <1>5, <1>10 DEF WalkAt
<1>12. refs[o] \subseteq allocated
  BY <1>1, <1>6, MarkFacts
<1>13. /\ Marking(b, allocated) /\ b.iter = g.iter /\ b.pinSpace = g.pinSpace
  <2>1. o \in ToSet(g.toSpace)
    BY <1>4, <1>7
  <2>2. LET b_ == [g EXCEPT !.color[o] = Black(g)]
        IN  /\ Marking(b_, allocated) /\ b_.white = g.white /\ b_.toSpace = g.toSpace
            /\ b_.iter = g.iter /\ b_.pinSpace = g.pinSpace
            /\ b_.color = [g.color EXCEPT ![o] = Black(g)]
            /\ \A m \in Nat : WalkAt(g, m) => WalkAt(b_, m)
    BY ONLY <1>9, <2>1, BlackenIs
  <2> QED BY <2>2
<1>14. r = VisitAll(b, refs[o])
  BY <1>6, ItcmsAssumption DEF r, ScanObject, Members
<1>15. k \in Nat
  BY <1>3, InList DEF Marking, Placed
<1>16. Visits(b, allocated, refs[o], r)
  <2> HIDE DEF b
  <2> QED BY <1>11, <1>12, <1>13, <1>14, <1>15, VisitAllIs
<1>17. Marking(r, allocated) /\ WalkAt(r, k) /\ r.pinSpace = gc.pinSpace
  BY <1>7, <1>11, <1>13, <1>15, <1>16 DEF Visits
<1>18. allocated' = allocated /\ pinned' = pinned /\ pinned = ToSet(gc.pinSpace)
  BY <1>1 DEF heapVars, Lists
<1>19. Lists' /\ Phase' = "mark" /\ Phase = "mark"
  BY <1>1, <1>15, <1>17, <1>18, MarkingLists DEF r, Phase
<1>20. \A x \in Objects : Tint(b, allocated, x) = IF x = o THEN "black" ELSE Tint(gc, allocated, x)
  <2> HIDE DEF b
  <2>1. \A x \in Objects : b.color[x] = IF x = o THEN Black(gc) ELSE gc.color[x]
    BY <1>1, <1>8, <1>10 DEF GcType
  <2>2. b.state = "MARK"
    BY <1>13 DEF Marking
  <2> QED BY <2>1, <2>2, <1>1, <1>6, <1>7, <1>8, <1>10 DEF Tint, GRAY, TRANSPARENT
<1>21. \A x \in Objects :
         Tint(r, allocated, x) =
           IF x = o THEN "black"
           ELSE IF x \in refs[o] /\ x \in allocated /\ Tint(gc, allocated, x) = "white"
             THEN IF x \in Pointerfree THEN "black" ELSE "gray"
             ELSE Tint(gc, allocated, x)
  <2> HIDE DEF b
  <2> QED BY <1>13, <1>16, <1>20, VisitsTint
<1>22. Colouring' = [P!Shaded(refs[o]) EXCEPT ![o] = "black"]
  <2>1. \A x \in Objects : P!Shaded(refs[o])[x] =
           IF x \in refs[o] /\ x \in allocated /\ Tint(gc, allocated, x) = "white"
              THEN IF x \in Pointerfree THEN "black" ELSE "gray"
              ELSE Tint(gc, allocated, x)
    BY ShadedIs
  <2>2. P!Shaded(refs[o]) = [x \in Objects |-> P!Shaded(refs[o])[x]]
    BY DEF P!Shaded
  <2>3. Colouring' = [x \in Objects |-> Tint(r, allocated, x)]
    BY <1>1, <1>18, TintOfGc DEF r
  <2> QED BY <1>21, <2>1, <2>2, <2>3
<1>23. Colouring[o] = "gray"
  <2>1. gc.state # "SWEEP" /\ Placed(gc, allocated) /\ Coloured(gc)
    BY <1>1, <1>3 DEF Marking
  <2> QED BY <1>1, <1>4, <1>6, <2>1, TintOfGc, TintIs
<1>24. UNCHANGED P!heapVars
  BY <1>1 DEF heapVars, P!heapVars
<1> QED BY <1>6, <1>19, <1>22, <1>23, <1>24 DEF P!Scan

(* The walk at its end, with the roots visited again.                      *)
LEMMA AtEndIs ==
  ASSUME Lists, P!Inv, gc.state = "MARK", Unscanned(gc) = 0
  PROVE  LET r == VisitRoots(AtEnd)
         IN  /\ Marking(r, allocated) /\ r.white = gc.white /\ r.pinSpace = gc.pinSpace
             /\ WalkAt(r, Len(gc.toSpace)) /\ Len(gc.toSpace) \in Nat
             /\ \A i \in 1 .. Len(gc.toSpace) : r.toSpace[i] = gc.toSpace[i]
             /\ \A o \in ToSet(gc.toSpace) : gc.color[o] = Black(gc)
             /\ \A o \in Objects :
                  /\ Tint(r, allocated, o) =
                       IF o \in globals \cup RefsOf(pinned) /\ o \in allocated
                          /\ Tint(gc, allocated, o) = "white"
                       THEN IF o \in Pointerfree THEN "black" ELSE "gray"
                       ELSE Tint(gc, allocated, o)
                  /\ r.color[o] = IF o \in globals \cup RefsOf(pinned) /\ gc.color[o] = gc.white
                                  THEN ShadeOf(gc, o) ELSE gc.color[o]
<1> DEFINE S == globals \cup RefsOf(pinned)
           g == AtEnd
           r == VisitRoots(AtEnd)
           l == Len(gc.toSpace)
<1>1. Marking(gc, allocated) /\ gc \in GcType
  BY DEF Marking, Lists
<1>2. PICK n \in Nat : WalkAt(gc, n)
  BY DEF Lists, Walking
<1>3. \A o \in ToSet(gc.toSpace) : gc.color[o] = Black(gc)
  BY <1>1, <1>2, UnscannedIs
<1>4. IsList(gc.toSpace) /\ l \in Nat /\ gc.toSpace \in Seq(Objects)
  BY <1>1, InList DEF Marking, Placed, IsList
<1>5. gc.toSpace = <<>> => gc.iter = TOSPACE
  BY <1>2, <1>4 DEF WalkAt
<1>6. gc.toSpace # <<>> => l \in 1 .. l /\ Last(gc.toSpace) = gc.toSpace[l] /\ gc.toSpace[l] \in Objects
  BY <1>4, EmptyList, InList DEF Last
<1>7. g = [gc EXCEPT !.iter = IF gc.toSpace = <<>> THEN TOSPACE ELSE gc.toSpace[l]]
  BY <1>5, <1>6 DEF AtEnd
<1> HIDE DEF g
<1>8. /\ g \in GcType /\ g.state = "MARK" /\ g.white = gc.white
      /\ g.iter = IF gc.toSpace = <<>> THEN TOSPACE ELSE gc.toSpace[l]
      /\ g.fromSpace = gc.fromSpace /\ g.toSpace = gc.toSpace /\ g.pinSpace = gc.pinSpace
      /\ g.color = gc.color
  BY <1>1, <1>6, <1>7 DEF GcType
<1>9. Black(g) = Black(gc) /\ \A o : ShadeOf(g, o) = ShadeOf(gc, o)
  BY <1>8 DEF Black, ShadeOf
<1>10. Marking(g, allocated)
  BY <1>1, <1>8, <1>9 DEF Placed, Coloured, Marking
<1>11. WalkAt(g, l)
  <2>1. \A i \in 1 .. l : g.color[g.toSpace[i]] = Black(g)
    BY <1>3, <1>4, <1>8, <1>9, InList
  <2>2. gc.toSpace = <<>> <=> l = 0
    BY <1>4, EmptyList
  <2> QED BY <2>1, <2>2, <1>4, <1>8 DEF WalkAt
<1>12. Visits(g, allocated, S, r)
  BY <1>4, <1>10, <1>11, MarkFacts, VisitRootsIs DEF g
<1> HIDE DEF r
<1>13. /\ Marking(r, allocated) /\ r.white = gc.white /\ r.pinSpace = gc.pinSpace
       /\ WalkAt(r, l)
       /\ \A i \in 1 .. l : r.toSpace[i] = gc.toSpace[i]
  BY <1>4, <1>8, <1>11, <1>12 DEF Visits
<1>14. \A o \in Objects : Tint(g, allocated, o) = Tint(gc, allocated, o)
  BY <1>8 DEF Tint
<1>15. ASSUME NEW o \in Objects
       PROVE  /\ Tint(r, allocated, o) =
                       IF o \in S /\ o \in allocated /\ Tint(gc, allocated, o) = "white"
                       THEN IF o \in Pointerfree THEN "black" ELSE "gray"
                       ELSE Tint(gc, allocated, o)
              /\ r.color[o] = IF o \in S /\ gc.color[o] = gc.white
                              THEN ShadeOf(gc, o) ELSE gc.color[o]
  <2>1. Tint(r, allocated, o) =
                       IF o \in S /\ o \in allocated /\ Tint(gc, allocated, o) = "white"
                       THEN IF o \in Pointerfree THEN "black" ELSE "gray"
                       ELSE Tint(gc, allocated, o)
    BY <1>10, <1>12, <1>14, VisitsTint
  <2>2. r.color[o] = IF o \in S /\ gc.color[o] = gc.white THEN ShadeOf(gc, o) ELSE gc.color[o]
    BY <1>8, <1>9, <1>12 DEF Visits
  <2> QED BY <2>1, <2>2
<1> QED BY <1>3, <1>4, <1>13, <1>15 DEF r

(* The step at the end of the walk that visits the roots again: Revisit.   *)
LEMMA RevisitMark ==
  ASSUME Lists, P!Inv, StepRevisit
  PROVE  Lists' /\ P!Revisit
<1> DEFINE r == VisitRoots(AtEnd)
           S == globals \cup RefsOf(pinned)
<1>1. /\ gc.state = "MARK" /\ Unscanned(gc) = 0 /\ gc' = r /\ UNCHANGED heapVars
  BY DEF StepRevisit
<1>2. /\ Marking(r, allocated) /\ r.pinSpace = gc.pinSpace
      /\ WalkAt(r, Len(gc.toSpace)) /\ Len(gc.toSpace) \in Nat
      /\ \A o \in Objects :
           Tint(r, allocated, o) =
                       IF o \in S /\ o \in allocated
                          /\ Tint(gc, allocated, o) = "white"
                       THEN IF o \in Pointerfree THEN "black" ELSE "gray"
                       ELSE Tint(gc, allocated, o)
  BY <1>1, AtEndIs
<1> HIDE DEF r
<1>3. allocated' = allocated /\ pinned' = pinned /\ pinned = ToSet(gc.pinSpace)
  BY <1>1 DEF heapVars, Lists
<1>4. Lists' /\ Phase' = "mark" /\ Phase = "mark"
  BY <1>1, <1>2, <1>3, MarkingLists DEF Phase
<1>5. Colouring' = P!Shaded(S)
  BY <1>1, <1>2, <1>3, TintOfGc, ShadedIs
<1>6. P!Visited = S
  BY DEF P!Visited, P!RefsOf, RefsOf
<1>7. UNCHANGED P!heapVars
  BY <1>1 DEF heapVars, P!heapVars
<1> QED BY <1>4, <1>5, <1>6, <1>7 DEF P!Revisit
-----------------------------------------------------------------------------
(* What marking ends with: h, from which the flip makes the next state.    *)
LEMMA EndOfMarking ==
  ASSUME Lists, P!Inv, StepFlip
  PROVE  LET h == ScanRest(VisitAll(VisitRoots(AtEnd), stack))
         IN  /\ Marking(h, allocated) /\ h.white = gc.white /\ h.pinSpace = gc.pinSpace
             /\ \A o \in ToSet(h.toSpace) : h.color[o] = Black(gc)
             /\ (globals \cup RefsOf(pinned)) \cap ToSet(gc.fromSpace) = {}
             /\ \A o \in ToSet(gc.toSpace) : gc.color[o] = Black(gc)
             /\ ToSet(gc.toSpace) \subseteq ToSet(h.toSpace)
             /\ \A o \in ToSet(gc.fromSpace) \cap ToSet(h.toSpace) :
                  /\ refs[o] \cap ToSet(h.fromSpace) = {}
                  /\ o \in Reachable
             /\ stack \cap ToSet(h.fromSpace) = {}
<1> DEFINE r == VisitRoots(AtEnd)
           v == VisitAll(r, stack)
           h == ScanRest(v)
           A == allocated
           l == Len(gc.toSpace)
           S == globals \cup RefsOf(pinned)
           W == {o \in A : r.color[o] = r.white}
<1>1. gc.state = "MARK" /\ Unscanned(gc) = 0 /\ Ahead(r) = <<>> /\ UNCHANGED heapVars
  BY DEF StepFlip
<1>2. /\ Marking(r, A) /\ r.white = gc.white /\ r.pinSpace = gc.pinSpace
      /\ WalkAt(r, l) /\ l \in Nat
      /\ \A i \in 1 .. l : r.toSpace[i] = gc.toSpace[i]
      /\ \A o \in ToSet(gc.toSpace) : gc.color[o] = Black(gc)
      /\ \A o \in Objects :
           r.color[o] = IF o \in S /\ gc.color[o] = gc.white THEN ShadeOf(gc, o) ELSE gc.color[o]
  BY <1>1, AtEndIs
<1>3. Marking(gc, A) /\ A \subseteq Objects
  BY <1>1, InSpaces DEF Lists, Marking
<1> HIDE DEF r
<1>4. /\ IsList(r.toSpace) /\ IsList(gc.toSpace) /\ Len(r.toSpace) \in Nat
  BY <1>2, <1>3, InList DEF Marking, Placed
<1>5. Len(r.toSpace) = l
  <2>1. Len(Ahead(r)) = Len(r.toSpace) - l
    BY <1>2, AheadIs
  <2>2. Len(Ahead(r)) = 0
    BY <1>1
  <2> QED BY <2>1, <2>2, <1>2, <1>4
<1>6. ToSet(r.toSpace) = ToSet(gc.toSpace)
  <2>1. \A o \in ToSet(r.toSpace) : o \in ToSet(gc.toSpace)
    BY <1>2, <1>4, <1>5, InList
  <2>2. \A o \in ToSet(gc.toSpace) : o \in ToSet(r.toSpace)
    BY <1>2, <1>4, <1>5, InList
  <2> QED BY <2>1, <2>2
<1>7. /\ gc.white \in {0, 1} /\ Black(gc) \in {0, 1} /\ Black(gc) # gc.white
      /\ Black(r) = Black(gc) /\ \A o : ShadeOf(gc, o) \in {Black(gc), GRAY}
  BY <1>2, <1>3, InSpaces DEF Black, ShadeOf
<1>8. S \cap ToSet(gc.fromSpace) = {}
  <2> SUFFICES ASSUME NEW o \in S, o \in ToSet(gc.fromSpace) PROVE FALSE
    OBVIOUS
  <2>1. o \in A /\ o \in Objects /\ gc.color[o] = gc.white
    BY <1>3 DEF Marking, Placed, Coloured
  <2>2. r.color[o] \in {Black(r), GRAY}
    BY <1>2, <1>7, <2>1
  <2>3. o \in ToSet(r.toSpace)
    BY <1>2, <2>1, <2>2, InSpaces
  <2> QED BY <1>6, <2>3, <1>3 DEF Marking, Placed
<1>9. \A o \in A : r.color[o] = gc.color[o]
  <2> SUFFICES ASSUME NEW o \in A, o \in S, gc.color[o] = gc.white PROVE FALSE
    BY <1>2, <1>3
  <2>1. o \in ToSet(gc.fromSpace)
    BY <1>3, InSpaces
  <2> QED BY <1>8, <2>1
<1>10. W = ToSet(gc.fromSpace) /\ W \in SUBSET A
  <2>1. \A o \in A : o \in W <=> o \in ToSet(gc.fromSpace)
    BY <1>2, <1>3, <1>9, InSpaces
  <2>2. ToSet(gc.fromSpace) \subseteq A
    BY <1>3 DEF Marking, Placed
  <2> QED BY <2>1, <2>2
<1>11. \A o \in A \ W : r.color[o] \in {Black(r), TRANSPARENT}
  <2> SUFFICES ASSUME NEW o \in A, o \notin ToSet(gc.fromSpace)
               PROVE  gc.color[o] \in {Black(gc), TRANSPARENT}
    BY <1>7, <1>9, <1>10
  <2>1. o \in ToSet(gc.toSpace) \/ o \in ToSet(gc.pinSpace)
    BY <1>3 DEF Marking, Placed
  <2> QED BY <2>1, <1>2, <1>3 DEF Marking, Coloured
<1>12. Visits(r, A, stack, v)
  BY <1>1, <1>2, VisitAllIs, MarkFacts
<1> HIDE DEF v, W
<1>13. /\ HeapTypeOK /\ \A o \in A : refs[o] \subseteq A
       /\ \A o \in Objects \cap Pointerfree : refs[o] = {}
       /\ stack \subseteq Reachable
  BY <1>1, HeapFacts, MarkFacts, ReachableClosed DEF Roots
<1>14. Kept(r, A, W, v)
  <2>1. /\ Marking(v, A) /\ v.white = r.white /\ v.pinSpace = r.pinSpace /\ WalkAt(v, l)
        /\ \A o \in Objects :
             v.color[o] = IF o \in stack /\ r.color[o] = r.white THEN ShadeOf(r, o) ELSE r.color[o]
    BY <1>2, <1>12 DEF Visits
  <2>2. Black(v) = Black(r) /\ \A o : ShadeOf(r, o) = IF o \in Pointerfree THEN Black(gc) ELSE GRAY
    BY <2>1, <1>7 DEF Black, ShadeOf
  <2>3. \A o \in A \ W : v.color[o] = r.color[o]
    BY <2>1, <1>3 DEF W
  <2>4. \A o \in W : r.color[o] = r.white /\ o \in Objects
    BY <1>3, <1>10 DEF W
  <2>5. \A o \in W : v.color[o] # v.white <=> o \in stack
    BY <2>1, <2>2, <2>4, <1>2, <1>7 DEF GRAY
  <2>6. \A o \in W : v.color[o] = Black(v) => o \in Pointerfree
    BY <2>1, <2>2, <2>4, <1>2, <1>7 DEF GRAY
  <2>7. \A o \in W : v.color[o] = Black(v) => \A c \in refs[o] : v.color[c] # v.white
    BY <2>4, <2>6, <1>13
  <2>8. \A o \in W : v.color[o] # v.white => o \in Reachable
    BY <2>5, <1>13
  <2> QED BY <2>1, <2>3, <2>5, <2>7, <2>8, <1>2 DEF Kept
<1>15. Kept(r, A, W, h) /\ Unscanned(h) = 0
  BY <1>10, <1>11, <1>13, <1>14, ScanRestIs
<1> HIDE DEF h
<1>16. PICK n \in Nat : WalkAt(h, n)
  BY <1>15 DEF Kept
<1>17. /\ Marking(h, A) /\ h.white = gc.white /\ h.pinSpace = gc.pinSpace
       /\ Black(h) = Black(gc)
  BY <1>2, <1>15 DEF Kept, Black
<1>18. \A o \in ToSet(h.toSpace) : h.color[o] = Black(gc)
  BY <1>15, <1>16, <1>17, UnscannedIs
<1>19. \A o \in A : /\ o \in ToSet(h.fromSpace) <=> h.color[o] = gc.white
                    /\ o \in ToSet(h.toSpace) <=> h.color[o] \in {Black(gc), GRAY}
  BY <1>17, InSpaces
<1>20. ToSet(h.fromSpace) \subseteq A /\ ToSet(h.toSpace) \subseteq A /\ ToSet(gc.toSpace) \subseteq A
       /\ ToSet(gc.toSpace) \cap W = {}
  BY <1>3, <1>10, <1>17 DEF Marking, Placed
<1>21. ToSet(gc.toSpace) \subseteq ToSet(h.toSpace)
  <2> SUFFICES ASSUME NEW o \in ToSet(gc.toSpace) PROVE o \in ToSet(h.toSpace)
    OBVIOUS
  <2>1. h.color[o] = gc.color[o]
    BY <1>9, <1>15, <1>20 DEF Kept
  <2> QED BY <2>1, <1>2, <1>19, <1>20
<1>22. ASSUME NEW o \in ToSet(gc.fromSpace) \cap ToSet(h.toSpace)
       PROVE  refs[o] \cap ToSet(h.fromSpace) = {} /\ o \in Reachable
  <2>1. o \in W /\ h.color[o] = Black(gc) /\ Black(gc) # h.white
    BY <1>7, <1>10, <1>17, <1>18
  <2>2. o \in Reachable /\ \A c \in refs[o] : h.color[c] # h.white
    BY <2>1, <1>15, <1>17 DEF Kept
  <2> QED BY <2>2, <1>17, <1>19, <1>20
<1>23. stack \cap ToSet(h.fromSpace) = {}
  <2> SUFFICES ASSUME NEW o \in stack, o \in ToSet(h.fromSpace) PROVE FALSE
    OBVIOUS
  <2>1. o \in A /\ h.color[o] = gc.white
    BY <1>19, <1>20
  <2>2. CASE o \in W
    BY <2>1, <2>2, <1>15, <1>17 DEF Kept
  <2>3. CASE o \notin W
    BY <2>1, <2>3, <1>7, <1>11, <1>15 DEF Kept, TRANSPARENT
  <2> QED BY <2>2, <2>3
<1> QED BY <1>2, <1>8, <1>17, <1>18, <1>21, <1>22, <1>23 DEF h, v, r

(* The step that finds the roots with nothing new to visit, scans the      *)
(* stack and flips: Finish. What it keeps that was white is what the stack *)
(* leads to.                                                               *)
LEMMA FlipMark ==
  ASSUME Lists, P!Inv, StepFlip
  PROVE  /\ Lists' /\ P!Finish
         /\ \A o \in allocated :
              Tint(gc, allocated, o) = "white" /\ Tint(gc', allocated', o) = "white" => o \in Reachable
<1> DEFINE h == ScanRest(VisitAll(VisitRoots(AtEnd), stack))
           S == globals \cup RefsOf(pinned)
<1>1. /\ Marking(h, allocated) /\ h.white = gc.white /\ h.pinSpace = gc.pinSpace
      /\ \A o \in ToSet(h.toSpace) : h.color[o] = Black(gc)
      /\ S \cap ToSet(gc.fromSpace) = {}
      /\ \A o \in ToSet(gc.toSpace) : gc.color[o] = Black(gc)
      /\ ToSet(gc.toSpace) \subseteq ToSet(h.toSpace)
      /\ \A o \in ToSet(gc.fromSpace) \cap ToSet(h.toSpace) :
           /\ refs[o] \cap ToSet(h.fromSpace) = {}
           /\ o \in Reachable
      /\ stack \cap ToSet(h.fromSpace) = {}
  BY EndOfMarking
<1>2. /\ gc' = [h EXCEPT
                  !.state = "SWEEP", !.white = Black(h),
                  !.fromSpace = h.toSpace, !.toSpace = h.fromSpace,
                  !.iter = IF h.fromSpace = <<>> THEN TOSPACE ELSE Head(h.fromSpace)]
      /\ gc.state = "MARK" /\ UNCHANGED heapVars
  BY DEF StepFlip
<1> HIDE DEF h
<1>3. h \in GcType /\ Placed(h, allocated) /\ Coloured(h) /\ h.state = "MARK"
  BY <1>1 DEF Marking
<1>4. /\ gc'.state = "SWEEP" /\ gc'.white = Black(h)
      /\ gc'.fromSpace = h.toSpace /\ gc'.toSpace = h.fromSpace /\ gc'.pinSpace = h.pinSpace
      /\ gc'.iter = IF h.fromSpace = <<>> THEN TOSPACE ELSE Head(h.fromSpace)
      /\ gc'.color = h.color
      /\ gc' = Collector(gc'.state, gc'.white, gc'.iter, gc'.fromSpace, gc'.toSpace, gc'.pinSpace, gc'.color)
  <2>1. h = Collector(h.state, h.white, h.iter, h.fromSpace, h.toSpace, h.pinSpace, h.color)
    BY <1>3, Fields
  <2> QED BY <1>2, <2>1 DEF Collector
<1>5. h.white \in {0, 1} /\ Black(h) \in {0, 1} /\ Black(h) = Black(gc) /\ Black(h) # h.white
      /\ Black(gc') = h.white
  BY <1>1, <1>3, <1>4 DEF GcType, Black
<1>6. gc' \in GcType
  <2>1. IsList(h.fromSpace)
    BY <1>3 DEF Placed
  <2>2. h.fromSpace # <<>> => Head(h.fromSpace) = h.fromSpace[1] /\ 1 \in 1 .. Len(h.fromSpace)
    BY <2>1, EmptyList, InList DEF IsList
  <2>3. gc'.iter \in Objects \cup {TOSPACE}
    BY <1>4, <2>1, <2>2, InList
  <2> QED BY <1>3, <1>4, <1>5, <2>3 DEF GcType, Collector
<1>7. allocated' = allocated /\ pinned' = pinned /\ pinned = ToSet(gc.pinSpace)
      /\ allocated \subseteq Objects
  BY <1>1, <1>2, InSpaces DEF heapVars, Lists
<1>8. Placed(gc', allocated)
  BY <1>3, <1>4 DEF Placed
<1>9. Coloured(gc')
  BY <1>1, <1>3, <1>4, <1>5 DEF Coloured
<1>10. Lists'
  <2>1. Walking(gc')
    BY <1>4 DEF Walking
  <2> QED BY <2>1, <1>1, <1>4, <1>6, <1>7, <1>8, <1>9 DEF Lists, Placed, Coloured,
        Walking, WalkAt, Black
<1> DEFINE whites == ToSet(gc.fromSpace)
           kept == ToSet(gc.fromSpace) \cap ToSet(h.toSpace)
<1>11. gc \in GcType /\ Placed(gc, allocated) /\ Coloured(gc)
  BY DEF Lists
<1>12. ASSUME NEW o \in Objects
       PROVE  /\ Tint(gc, allocated, o) = IF o \in ToSet(gc.toSpace) THEN "black"
                                          ELSE IF o \in ToSet(gc.pinSpace) THEN "pinned" ELSE "white"
              /\ Tint(gc', allocated', o) = IF o \in ToSet(h.fromSpace) THEN "dead"
                                            ELSE IF o \in ToSet(gc.pinSpace) THEN "pinned" ELSE "white"
  <2>1. Tint(gc, allocated, o) = IF o \in ToSet(gc.toSpace) THEN "black"
                                          ELSE IF o \in ToSet(gc.pinSpace) THEN "pinned" ELSE "white"
    <3>1. \A x \in ToSet(gc.toSpace) : gc.color[x] # GRAY
      BY <1>1, <1>5 DEF GRAY
    <3>2. gc.state # "SWEEP"
      BY <1>2
    <3>3. o \in ToSet(gc.toSpace) \/ o \in ToSet(gc.pinSpace) \/ o \in ToSet(gc.fromSpace) \/ o \notin allocated
      BY <1>11 DEF Placed
    <3>4. ToSet(gc.toSpace) \cap ToSet(gc.pinSpace) = {} /\ ToSet(gc.toSpace) \cup ToSet(gc.pinSpace) \subseteq allocated
          /\ ToSet(gc.fromSpace) \cap (ToSet(gc.toSpace) \cup ToSet(gc.pinSpace)) = {}
      BY <1>11 DEF Placed
    <3> QED BY <3>1, <3>2, <3>3, <3>4, <1>11, TintIs
  <2>2. Tint(gc', allocated, o) = IF o \in ToSet(h.fromSpace) THEN "dead"
                                            ELSE IF o \in ToSet(gc.pinSpace) THEN "pinned" ELSE "white"
    <3>1. gc'.state = "SWEEP" /\ gc'.pinSpace = gc.pinSpace
      BY <1>1, <1>4
    <3>3. o \in ToSet(gc'.toSpace) \/ o \in ToSet(gc'.pinSpace) \/ o \in ToSet(gc'.fromSpace) \/ o \notin allocated
      BY <1>8 DEF Placed
    <3>4. ToSet(gc'.toSpace) \cap ToSet(gc'.pinSpace) = {} /\ ToSet(gc'.toSpace) \cup ToSet(gc'.pinSpace) \subseteq allocated
          /\ ToSet(gc'.fromSpace) \cap (ToSet(gc'.toSpace) \cup ToSet(gc'.pinSpace)) = {}
      BY <1>8 DEF Placed
    <3>5. /\ o \notin allocated => Tint(gc', allocated, o) = "white"
          /\ o \in ToSet(gc'.pinSpace) => Tint(gc', allocated, o) = "pinned"
          /\ o \in ToSet(gc'.fromSpace) => Tint(gc', allocated, o) = "white"
          /\ o \in ToSet(gc'.toSpace) => Tint(gc', allocated, o) = "dead"
      BY <3>1, <1>6, <1>8, <1>9, TintIs
    <3> QED BY <3>1, <3>3, <3>4, <3>5, <1>4
  <2> QED BY <2>1, <2>2, <1>7
<1>13. P!Whites = whites
  <2>1. whites = {o \in allocated : Tint(gc, allocated, o) = "white"}
    BY <1>7, <1>11, <1>12 DEF Placed
  <2> QED BY <2>1, <1>7, TintOfGc DEF P!Whites
<1>14. kept \subseteq whites
  OBVIOUS
<1>15. (stack \cup P!RefsOf(kept)) \cap whites \subseteq kept
  <2>1. \A o \in whites : o \in ToSet(h.toSpace) \/ o \in ToSet(h.fromSpace)
    <3> SUFFICES ASSUME NEW o \in whites, o \in ToSet(h.pinSpace) PROVE FALSE
      BY <1>3, <1>11 DEF Placed
    <3> QED BY <1>1, <1>11 DEF Placed
  <2> QED BY <2>1, <1>1 DEF P!RefsOf
<1>16. \A o \in Objects :
         Tint(gc', allocated', o) = IF o \in whites \ kept THEN "dead"
                                    ELSE IF o \in kept \/ Tint(gc, allocated, o) = "black" THEN "white"
                                    ELSE Tint(gc, allocated, o)
  <2> SUFFICES ASSUME NEW o \in Objects
      PROVE  Tint(gc', allocated', o) = IF o \in whites \ kept THEN "dead"
                                    ELSE IF o \in kept \/ Tint(gc, allocated, o) = "black" THEN "white"
                                    ELSE Tint(gc, allocated, o)
    OBVIOUS
  <2>1. o \in whites \ kept <=> o \in ToSet(h.fromSpace)
    <3>1. ToSet(h.fromSpace) \cap (ToSet(h.toSpace) \cup ToSet(gc.pinSpace)) = {}
          /\ allocated = ToSet(h.fromSpace) \cup ToSet(h.toSpace) \cup ToSet(gc.pinSpace)
      BY <1>1, <1>3 DEF Placed
    <3>2. whites \cap (ToSet(gc.toSpace) \cup ToSet(gc.pinSpace)) = {}
          /\ allocated = whites \cup ToSet(gc.toSpace) \cup ToSet(gc.pinSpace)
      BY <1>11 DEF Placed
    <3> QED BY <3>1, <3>2, <1>1
  <2>2. ToSet(gc.toSpace) \cap (whites \cup ToSet(gc.pinSpace)) = {} /\ ToSet(gc.pinSpace) \cap whites = {}
    BY <1>11 DEF Placed
  <2> QED BY <2>1, <2>2, <1>12
<1>17. Colouring' = [o \in Objects |->
                       IF o \in whites \ kept THEN "dead"
                       ELSE IF o \in kept \/ Colouring[o] = "black" THEN "white"
                       ELSE Colouring[o]]
  <2>1. Colouring' = [o \in Objects |-> Tint(gc', allocated',
          o)] /\ \A o \in Objects : Colouring[o] = Tint(gc, allocated, o)
    BY TintOfGc
  <2> HIDE DEF whites, kept
  <2> QED BY <2>1, <1>16
<1>18. /\ Phase = "mark" /\ Phase' = "sweep" /\ UNCHANGED P!heapVars
       /\ \A o \in allocated : Colouring[o] # "gray"
       /\ P!Visited \cap P!Whites = {}
  <2>1. Phase = "mark" /\ Phase' = "sweep" /\ UNCHANGED P!heapVars
    BY <1>2, <1>4 DEF Phase, heapVars, P!heapVars
  <2>2. \A o \in allocated : Colouring[o] # "gray"
    BY <1>7, <1>12, TintOfGc
  <2>3. P!Visited = S
    BY DEF P!Visited, P!RefsOf, RefsOf
  <2> QED BY <2>1, <2>2, <2>3, <1>1, <1>13
<1>19. P!Finish
  <2> HIDE DEF kept, whites
  <2> QED BY <1>13, <1>14, <1>15, <1>17, <1>18 DEF P!Finish
<1>20. \A o \in allocated :
         Tint(gc, allocated, o) = "white" /\ Tint(gc', allocated', o) = "white" => o \in Reachable
  <2> SUFFICES ASSUME NEW o \in allocated, Tint(gc, allocated, o) = "white",
                      Tint(gc', allocated', o) = "white"
               PROVE  o \in Reachable
    OBVIOUS
  <2>1. o \in Objects /\ o \in ToSet(gc.fromSpace)
    BY <1>7, <1>11, <1>12 DEF Placed
  <2>2. o \in ToSet(h.toSpace)
    BY <2>1, <1>1, <1>3, <1>11, <1>12 DEF Placed
  <2> QED BY <2>1, <2>2, <1>1
<1> QED BY <1>10, <1>19, <1>20
-----------------------------------------------------------------------------
(* Taking the first object off toSpace leaves the second one first.        *)
LEMMA HeadOfList ==
  ASSUME NEW list, IsList(list), list # <<>>
  PROVE  /\ Head(list) \in ToSet(list) /\ Head(list) \in Objects
         /\ IsList(Tail(list)) /\ ToSet(Tail(list)) = ToSet(list) \ {Head(list)}
<1>1. /\ list \in Seq(Objects) /\ Len(list) \in Nat /\ Len(list) >= 1
      /\ \A i \in 1 .. Len(list) : list[i] \in ToSet(list) /\ list[i] \in Objects
  BY EmptyList, InList DEF IsList
<1>2. Head(list) = list[1] /\ 1 \in 1 .. Len(list)
  BY <1>1
<1> DEFINE t == Tail(list)
<1>3. /\ t \in Seq(Objects) /\ Len(t) = Len(list) - 1
      /\ \A i \in 1 .. (Len(list) - 1) : t[i] = list[i + 1]
  BY <1>1
<1> HIDE DEF t
<1>4. DOMAIN t = 1 .. (Len(list) - 1)
  BY <1>3, <1>1
<1>5. \A i \in 1 .. (Len(list) - 1) : i + 1 \in 1 .. Len(list) /\ i + 1 # 1
  BY <1>1
<1>6. IsInjective(t)
  <2> SUFFICES ASSUME NEW i \in 1 .. (Len(list) - 1), NEW j \in 1 .. (Len(list) - 1), t[i] = t[j]
               PROVE  i = j
    BY <1>4 DEF IsInjective
  <2>1. i + 1 = j + 1
    BY <1>3, <1>5, InList
  <2> QED BY <2>1
<1>7. IsList(t)
  BY <1>3, <1>6 DEF IsList
<1>8. \A o \in ToSet(t) : o \in ToSet(list) \ {Head(list)}
  <2> SUFFICES ASSUME NEW i \in 1 .. (Len(list) - 1) PROVE t[i] \in ToSet(list) \ {Head(list)}
    BY <1>4 DEF ToSet
  <2> QED BY <1>1, <1>2, <1>3, <1>5, InList
<1>9. \A o \in ToSet(list) \ {Head(list)} : o \in ToSet(t)
  <2> SUFFICES ASSUME NEW i \in 1 .. Len(list), list[i] # list[1] PROVE list[i] \in ToSet(t)
    BY <1>2, InList
  <2>1. i - 1 \in 1 .. (Len(list) - 1) /\ (i - 1) + 1 = i
    BY <1>1
  <2> QED BY <2>1, <1>3, <1>4 DEF ToSet
<1> QED BY <1>1, <1>2, <1>7, <1>8, <1>9 DEF t

(* A step of the sweep frees one object of toSpace: Sweep.                 *)
LEMMA FreeSweep ==
  ASSUME Lists, P!Inv, StepFree
  PROVE  /\ Lists'
         /\ \E o \in Objects : P!Sweep(o) /\ gc.state = "SWEEP" /\ gc'.state = "SWEEP"
<1> DEFINE o == gc.iter
           rest == Tail(gc.toSpace)
<1>1. /\ gc.state = "SWEEP" /\ o # TOSPACE /\ FreeObject(o)
      /\ gc' = [gc EXCEPT !.toSpace = rest, !.color[gc.iter] = 0,
                          !.iter = IF rest = <<>> THEN TOSPACE ELSE Head(rest)]
  BY DEF StepFree
<1>2. gc \in GcType /\ Placed(gc, allocated) /\ Coloured(gc) /\ pinned = ToSet(gc.pinSpace)
  BY DEF Lists
<1>3. gc.toSpace # <<>> /\ o = Head(gc.toSpace)
  BY <1>1 DEF Lists, Walking
<1>4. /\ o \in ToSet(gc.toSpace) /\ o \in Objects
      /\ IsList(rest) /\ ToSet(rest) = ToSet(gc.toSpace) \ {o}
  BY <1>2, <1>3, HeadOfList DEF Placed
<1>5. /\ gc'.state = gc.state /\ gc'.white = gc.white
      /\ gc'.fromSpace = gc.fromSpace /\ gc'.toSpace = rest /\ gc'.pinSpace = gc.pinSpace
      /\ gc'.iter = IF rest = <<>> THEN TOSPACE ELSE Head(rest)
      /\ gc'.color = [gc.color EXCEPT ![o] = 0]
      /\ gc' = Collector(gc'.state, gc'.white, gc'.iter, gc'.fromSpace, gc'.toSpace, gc'.pinSpace, gc'.color)
  <2>1. gc = Collector(gc.state, gc.white, gc.iter, gc.fromSpace, gc.toSpace, gc.pinSpace, gc.color)
    BY <1>2, Fields
  <2> HIDE DEF rest
  <2> QED BY <1>1, <2>1 DEF Collector
<1> HIDE DEF rest, o
<1>6. rest # <<>> => Head(rest) \in Objects
  BY <1>4, HeadOfList
<1>7. gc' \in GcType
  <2>1. gc'.iter \in Objects \cup {TOSPACE} /\ gc'.toSpace \in Seq(Objects)
    BY <1>4, <1>5, <1>6 DEF IsList
  <2>2. gc'.color \in [Objects \cup {PINSPACE} -> 0 .. 3]
    BY <1>2, <1>4, <1>5 DEF GcType
  <2> QED BY <2>1, <2>2, <1>2, <1>5 DEF GcType, Collector
<1>8. /\ allocated' = allocated \ {o} /\ pinned' = pinned /\ Black(gc') = Black(gc)
      /\ refs' = [refs EXCEPT ![o] = {}] /\ o \in allocated
      /\ UNCHANGED <<globals, stack>>
  BY <1>1, <1>5 DEF FreeObject, Black
<1>9. Placed(gc', allocated')
  BY <1>2, <1>4, <1>5, <1>8 DEF Placed
<1>10. \A x \in Objects : gc'.color[x] = IF x = o THEN 0 ELSE gc.color[x]
  BY <1>2, <1>5 DEF GcType
<1>11. Coloured(gc')
  <2>1. \A x \in ToSet(gc.fromSpace) \cup ToSet(gc.pinSpace) \cup ToSet(rest) : x # o /\ x \in Objects
    BY <1>2, <1>4, InList DEF Placed
  <2> QED BY <2>1, <1>2, <1>4, <1>5, <1>8, <1>10 DEF Coloured
<1>12. Lists'
  <2>1. Walking(gc')
    BY <1>1, <1>5 DEF Walking
  <2> QED BY <2>1, <1>2, <1>5, <1>7, <1>8, <1>9, <1>11 DEF Lists, Placed, Coloured,
        Walking, WalkAt, Black
<1>13. Colouring[o] = "dead"
  BY <1>1, <1>2, <1>4, TintOfGc, TintIs
<1>14. \A x \in Objects : Tint(gc', allocated', x) = IF x = o THEN "white" ELSE Tint(gc, allocated, x)
  BY <1>5, <1>8, <1>10 DEF Tint
<1>15. Colouring' = [Colouring EXCEPT ![o] = "white"]
  <2>1. Colouring' = [x \in Objects |-> Tint(gc', allocated',
          x)] /\ Colouring = [x \in Objects |-> Tint(gc, allocated, x)]
    BY TintOfGc
  <2> QED BY <2>1, <1>14
<1>16. Phase = "sweep" /\ Phase' = "sweep"
  BY <1>1, <1>5 DEF Phase
<1>17. P!FreeObject(o)
  BY <1>8 DEF P!FreeObject
<1>18. P!Sweep(o)
  BY <1>13, <1>15, <1>16, <1>17 DEF P!Sweep
<1> QED BY <1>1, <1>4, <1>5, <1>12, <1>18

(* The step that finds toSpace empty ends the cycle: EndSweep.             *)
LEMMA SweptEnd ==
  ASSUME Lists, P!Inv, StepSwept
  PROVE  Lists' /\ P!EndSweep
<1>1. /\ gc.state = "SWEEP" /\ gc.iter = TOSPACE /\ UNCHANGED heapVars
      /\ gc' = [gc EXCEPT !.state = "IDLE", !.toSpace = <<>>]
  BY DEF StepSwept
<1>2. gc \in GcType /\ Placed(gc, allocated) /\ Coloured(gc) /\ pinned = ToSet(gc.pinSpace)
  BY DEF Lists
<1>3. gc.toSpace = <<>>
  <2> SUFFICES ASSUME gc.toSpace # <<>> PROVE FALSE
    OBVIOUS
  <2>1. TOSPACE = Head(gc.toSpace)
    BY <1>1 DEF Lists, Walking
  <2> QED BY <2>1, <1>2, HeadOfList, ItcmsAssumption DEF Placed
<1>4. /\ gc'.state = "IDLE" /\ gc'.white = gc.white /\ gc'.iter = gc.iter
      /\ gc'.fromSpace = gc.fromSpace /\ gc'.toSpace = gc.toSpace /\ gc'.pinSpace = gc.pinSpace
      /\ gc'.color = gc.color /\ gc' \in GcType
  BY <1>1, <1>2, <1>3 DEF GcType
<1>5. allocated' = allocated /\ pinned' = pinned /\ Black(gc') = Black(gc)
  BY <1>1, <1>4 DEF heapVars, Black
<1>6. ToSet(gc.toSpace) = {}
  BY <1>3 DEF ToSet
<1>7. Lists'
  <2>1. Placed(gc', allocated) /\ Coloured(gc') /\ Walking(gc')
    BY <1>1, <1>2, <1>3, <1>4, <1>5, <1>6 DEF Placed, Coloured, Walking
  <2> QED BY <2>1, <1>2, <1>4, <1>5 DEF Lists, Placed, Coloured, Walking, WalkAt, Black
<1>8. \A o \in Objects : Tint(gc, allocated, o) # "dead"
  <2> SUFFICES ASSUME NEW o \in Objects, Tint(gc, allocated, o) = "dead" PROVE FALSE
    OBVIOUS
  <2>1. o \in ToSet(gc.fromSpace) \/ o \in ToSet(gc.pinSpace) \/ o \notin allocated
    BY <1>2, <1>6 DEF Placed
  <2> QED BY <2>1, <1>2, TintIs
<1>9. \A o \in Objects : Tint(gc', allocated', o) = Tint(gc, allocated, o)
  <2> SUFFICES ASSUME NEW o \in Objects PROVE Tint(gc', allocated', o) = Tint(gc, allocated, o)
    OBVIOUS
  <2>1. Tint(gc, allocated, o) # "dead"
    BY <1>8
  <2> QED BY <2>1, <1>1, <1>4, <1>5 DEF Tint
<1>10. UNCHANGED Colouring /\ \A o \in allocated : o \in Objects /\ Colouring[o] # "dead"
  <2>1. \A o \in allocated : o \in Objects
    BY <1>2, InList DEF Placed
  <2> QED BY <2>1, <1>8, <1>9, TintOfGc
<1>11. Phase = "sweep" /\ Phase' = "idle" /\ UNCHANGED P!heapVars
  BY <1>1, <1>4 DEF Phase, heapVars, P!heapVars
<1> QED BY <1>7, <1>10, <1>11 DEF P!EndSweep

(* What leaves the collector and what is allocated and pinned alone.       *)
LEMMA SameLists ==
  ASSUME Lists, UNCHANGED <<gc, allocated, pinned>>
  PROVE  Lists' /\ UNCHANGED <<Colouring, Phase>>
<1>1. Lists'
  BY DEF Lists, Placed, Coloured, Walking, WalkAt, Black
<1>2. UNCHANGED Phase
  BY DEF Phase
<1>3. UNCHANGED Colouring
  BY TintOfGc
<1> QED BY <1>1, <1>2, <1>3
-----------------------------------------------------------------------------
(* A new object is linked in fromSpace, white.                             *)
LEMMA NewLists ==
  ASSUME Lists, NEW o \in Objects \ allocated, LinkNew(o),
         allocated' = allocated \cup {o}, pinned' = pinned
  PROVE  Lists' /\ Colouring' = [Colouring EXCEPT ![o] = "white"] /\ UNCHANGED Phase
<1>1. gc \in GcType /\ Placed(gc, allocated) /\ Coloured(gc) /\ pinned = ToSet(gc.pinSpace) /\ Walking(gc)
  BY DEF Lists
<1>2. /\ gc'.state = gc.state /\ gc'.white = gc.white /\ gc'.iter = gc.iter
      /\ gc'.fromSpace = Append(gc.fromSpace, o)
      /\ gc'.toSpace = gc.toSpace /\ gc'.pinSpace = gc.pinSpace
      /\ gc'.color = [gc.color EXCEPT ![o] = gc.white]
      /\ gc' = Collector(gc'.state, gc'.white, gc'.iter, gc'.fromSpace, gc'.toSpace, gc'.pinSpace, gc'.color)
  <2>1. gc = Collector(gc.state, gc.white, gc.iter, gc.fromSpace, gc.toSpace, gc.pinSpace, gc.color)
    BY <1>1, Fields
  <2> QED BY <2>1 DEF LinkNew, Collector
<1>3. o \notin ToSet(gc.fromSpace) \cup ToSet(gc.toSpace) \cup ToSet(gc.pinSpace)
  BY <1>1 DEF Placed
<1>4. /\ IsList(gc'.fromSpace) /\ ToSet(gc'.fromSpace) = ToSet(gc.fromSpace) \cup {o}
  <2>1. IsList(gc.fromSpace)
    BY <1>1 DEF Placed
  <2> QED BY <2>1, <1>2, <1>3, Appended
<1>5. \A x \in Objects : gc'.color[x] = IF x = o THEN gc.white ELSE gc.color[x]
  BY <1>1, <1>2 DEF GcType
<1>6. gc' \in GcType
  <2>1. gc'.color \in [Objects \cup {PINSPACE} -> 0 .. 3]
    BY <1>1, <1>2 DEF GcType
  <2>2. gc'.fromSpace \in Seq(Objects)
    BY <1>4 DEF IsList
  <2> QED BY <2>1, <2>2, <1>1, <1>2 DEF GcType, Collector
<1>7. Placed(gc', allocated')
  BY <1>1, <1>2, <1>3, <1>4 DEF Placed
<1>8. Black(gc') = Black(gc)
  BY <1>2 DEF Black
<1>9. ToSet(gc.fromSpace) \cup ToSet(gc.toSpace) \cup ToSet(gc.pinSpace) \subseteq Objects
  BY <1>1, InList DEF Placed
<1>10. Coloured(gc')
  BY <1>1, <1>2, <1>3, <1>4, <1>5, <1>8, <1>9 DEF Coloured
<1>11. Walking(gc')
  <2>1. ASSUME NEW n \in Nat, WalkAt(gc, n) PROVE WalkAt(gc', n)
    <3>1. \A i \in 1 .. n : gc.toSpace[i] \in Objects /\ gc.toSpace[i] # o
      BY <1>1, <1>3, <2>1, InList DEF Placed, WalkAt
    <3> QED BY <3>1, <2>1, <1>2, <1>5, <1>8 DEF WalkAt
  <2> QED BY <2>1, <1>1, <1>2 DEF Walking
<1>12. Lists'
  BY <1>1, <1>2, <1>6, <1>7, <1>10, <1>11 DEF Lists, Placed, Coloured, Walking, WalkAt,
    Black
<1>13. gc.white \in {0, 1}
  BY <1>1 DEF GcType
<1>14. \A x \in Objects : Tint(gc', allocated', x) = IF x = o THEN "white" ELSE Tint(gc, allocated, x)
  BY <1>2, <1>5, <1>13 DEF Tint, GRAY, TRANSPARENT
<1>15. Colouring' = [Colouring EXCEPT ![o] = "white"]
  <2>1. Colouring' = [x \in Objects |-> Tint(gc', allocated',
          x)] /\ Colouring = [x \in Objects |-> Tint(gc, allocated, x)]
    BY TintOfGc
  <2> QED BY <2>1, <1>14
<1>16. UNCHANGED Phase
  BY <1>2 DEF Phase
<1> QED BY <1>12, <1>15, <1>16

(* __new is Alloc.                                                         *)
LEMMA NewStep == ASSUME Lists, NEW o \in Objects, New(o) PROVE Lists' /\ P!Alloc(o)
<1>1. Lists' /\ Colouring' = [Colouring EXCEPT ![o] = "white"] /\ UNCHANGED Phase
  BY NewLists DEF New, AllocObject
<1> QED BY <1>1 DEF New, AllocObject, P!Alloc, P!AllocObject

(* __renew to another block is Renew: the old object stays for the sweep.  *)
LEMMA RenewStep ==
  ASSUME Lists, NEW o \in Objects, NEW n \in Objects, Renew(o, n) PROVE Lists' /\ P!Renew(o, n)
<1>1. Lists' /\ Colouring' = [Colouring EXCEPT ![n] = "white"] /\ UNCHANGED Phase
  BY NewLists DEF Renew, RenewObject
<1> QED BY <1>1 DEF Renew, RenewObject, P!Renew, P!RenewObject, Roots, P!Roots

(* The barrier goes back, or forward.                                      *)
LEMMA GrayStep ==
  ASSUME Lists, gc.state = "MARK", NEW o \in allocated, gc' = MakeGray(gc, o),
         allocated' = allocated, pinned' = pinned \ {o}
  PROVE  /\ Lists' /\ UNCHANGED Phase
         /\ Colouring' = [Colouring EXCEPT ![o] = IF o \in Pointerfree THEN "black" ELSE "gray"]
<1>1. /\ Marking(gc, allocated) /\ pinned = ToSet(gc.pinSpace) /\ gc \in GcType /\ IsList(gc.pinSpace)
  BY DEF Lists, Marking, Placed
<1>2. PICK n \in Nat : WalkAt(gc, n)
  BY DEF Lists, Walking
<1>3. /\ Marking(gc', allocated) /\ gc'.white = gc.white
      /\ gc'.color = [gc.color EXCEPT ![o] = IF o \in Pointerfree THEN Black(gc) ELSE GRAY]
      /\ \E m \in Nat : WalkAt(gc', m)
      /\ gc'.pinSpace = RemoveFirst(gc.pinSpace, o)
  BY <1>1, <1>2, GrayMarking DEF Grayed
<1>4. ToSet(gc'.pinSpace) = ToSet(gc.pinSpace) \ {o}
  BY <1>1, <1>3, RemovedAny
<1>5. Lists' /\ Phase' = "mark" /\ Phase = "mark"
  BY <1>1, <1>3, <1>4, MarkingLists DEF Phase
<1>6. o \in Objects /\ gc.white \in {0, 1} /\ Black(gc) \in {0, 1} /\ Black(gc) # gc.white /\ gc'.state = "MARK"
  BY <1>1, <1>3, InSpaces DEF Marking
<1>7. \A x \in Objects : gc'.color[x] = IF x = o THEN (IF o \in Pointerfree THEN Black(gc) ELSE GRAY) ELSE gc.color[x]
  BY <1>1, <1>3 DEF GcType
<1>8. \A x \in Objects :
        Tint(gc', allocated', x) = IF x = o THEN (IF o \in Pointerfree THEN "black" ELSE "gray")
                                   ELSE Tint(gc, allocated, x)
  <2> SUFFICES ASSUME NEW x \in Objects
      PROVE Tint(gc', allocated', x) = IF x = o THEN (IF o \in Pointerfree THEN "black" ELSE "gray")
                                   ELSE Tint(gc, allocated, x)
    OBVIOUS
  <2>1. CASE x = o
    BY <2>1, <1>3, <1>6, <1>7 DEF Tint, GRAY, TRANSPARENT
  <2>2. CASE x # o
    BY <2>2, <1>3, <1>6, <1>7 DEF Tint
  <2> QED BY <2>1, <2>2
<1>9. Colouring' = [Colouring EXCEPT ![o] = IF o \in Pointerfree THEN "black" ELSE "gray"]
  <2>1. Colouring' = [x \in Objects |-> Tint(gc', allocated',
          x)] /\ Colouring = [x \in Objects |-> Tint(gc, allocated, x)]
    BY TintOfGc
  <2> QED BY <2>1, <1>8
<1> QED BY <1>5, <1>9

(* __link and the store it comes with are Store, whichever way the barrier *)
(* shades.                                                                 *)
LEMMA LinkStep ==
  ASSUME Lists, P!Inv, NEW p \in Objects, NEW c \in Objects, NEW multiple \in BOOLEAN,
         Link(p, c, multiple)
  PROVE  Lists' /\ P!Store(p, c)
<1>1. /\ StoreRef(p, c) /\ gc' = Barrier(p, c, multiple)
      /\ UNCHANGED <<allocated, globals, stack, pinned>>
      /\ p \in Roots \ Pointerfree /\ c \in Roots
  BY DEF Link, StoreRef
<1>2. P!StoreRef(p, c)
  <2>1. P!Roots = Roots
    BY DEF P!Roots, Roots
  <2>2. /\ p \in Roots \ Pointerfree /\ c \in Roots
        /\ c \notin refs[p] /\ Cardinality(refs[p]) < MaxRefs
        /\ refs' = [refs EXCEPT ![p] = @ \cup {c}]
        /\ UNCHANGED <<allocated, globals, stack, pinned>>
    BY ONLY <1>1 DEF StoreRef
  <2>3. P!Cardinality(refs[p]) = Cardinality(refs[p])
    BY ONLY DEF P!Cardinality, Cardinality
  <2> QED BY ONLY <2>1, <2>2, <2>3 DEF P!StoreRef
<1>3. /\ p \in allocated /\ c \in allocated
      /\ Tint(gc, allocated, p) # "dead" /\ Tint(gc, allocated, c) # "dead"
  BY <1>1, HeapFacts
<1>4. gc \in GcType /\ Placed(gc, allocated) /\ Coloured(gc) /\ pinned = ToSet(gc.pinSpace) /\ Walking(gc)
  BY DEF Lists
<1>5. /\ gc.white \in {0, 1} /\ Black(gc) \in {0, 1} /\ Black(gc) # gc.white
  BY <1>4 DEF GcType, Black
<1>6. /\ Colouring[c] = "white" <=> gc.color[c] = gc.white
      /\ Colouring[p] = "pinned" <=> gc.color[p] = TRANSPARENT
      /\ Phase = "mark" <=> gc.state = "MARK"
      /\ Colouring[p] = "black" <=> gc.color[p] = Black(gc)
      /\ gc.color[p] = Black(gc) => gc.state = "MARK" /\ p \in ToSet(gc.toSpace)
  <2>1. /\ Tint(gc, allocated, c) = "white" <=> gc.color[c] = gc.white
        /\ Tint(gc, allocated, p) = "pinned" <=> gc.color[p] = TRANSPARENT
    BY <1>3, <1>5 DEF Tint, GRAY, TRANSPARENT
  <2>2. gc.color[p] = Black(gc) => p \in ToSet(gc.toSpace)
    BY <1>3, <1>4, <1>5 DEF Placed, Coloured, TRANSPARENT
  <2>3. gc.color[p] = Black(gc) => gc.state = "MARK"
    <3> SUFFICES ASSUME p \in ToSet(gc.toSpace), gc.state # "MARK" PROVE FALSE
      BY <2>2
    <3>1. CASE gc.state = "SWEEP"
      BY <3>1, <1>3, <1>4, TintIs
    <3>2. CASE gc.state = "IDLE"
      BY <3>2, <1>4 DEF Walking, ToSet
    <3> QED BY <3>1, <3>2, <1>4 DEF GcType
  <2>4. Tint(gc, allocated, p) = "black" <=> gc.color[p] = Black(gc)
    BY <1>3, <1>4, <1>5, <2>2, <2>3, TintIs DEF Tint, Placed, Coloured, GRAY, TRANSPARENT
  <2>5. Phase = "mark" <=> gc.state = "MARK"
    BY DEF Phase
  <2> QED BY <2>1, <2>2, <2>3, <2>4, <2>5, TintOfGc
<1>7. \A o : P!Shade(o) = IF o \in Pointerfree THEN "black" ELSE "gray"
  BY DEF P!Shade
<1>8. CASE gc.color[c] = gc.white /\ gc.color[p] = Black(gc) /\ multiple
  <2>1. gc' = MakeGray(gc, p)
    BY <1>1, <1>8 DEF Barrier
  <2>2. p \notin pinned
    BY <1>4, <1>6, <1>8 DEF Placed
  <2>3. Lists' /\ UNCHANGED Phase
        /\ Colouring' = [Colouring EXCEPT ![p] = IF p \in Pointerfree THEN "black" ELSE "gray"]
    BY <1>1, <1>3, <1>6, <1>8, <2>1, <2>2, GrayStep
  <2>4. Colouring' = [Colouring EXCEPT ![p] = "gray"]
    BY <2>3, <1>1
  <2> QED BY <1>2, <1>6, <1>8, <2>3, <2>4 DEF P!Store
<1>9. CASE gc.color[c] = gc.white /\ ~(gc.color[p] = Black(gc) /\ multiple)
           /\ (gc.color[p] = Black(gc) \/ (gc.color[p] = TRANSPARENT /\ gc.state = "MARK"))
  <2>1. gc' = MakeGray(gc, c)
    BY <1>1, <1>5, <1>9 DEF Barrier, TRANSPARENT
  <2>2. c \notin pinned
    BY <1>4, <1>5, <1>9 DEF Coloured, TRANSPARENT
  <2>3. Lists' /\ UNCHANGED Phase
        /\ Colouring' = [Colouring EXCEPT ![c] = IF c \in Pointerfree THEN "black" ELSE "gray"]
    BY <1>1, <1>3, <1>6, <1>9, <2>1, <2>2, GrayStep
  <2>4. Colouring' = [Colouring EXCEPT ![c] = P!Shade(c)]
    BY <2>3, <1>7
  <2> QED BY <1>2, <1>6, <1>9, <2>3, <2>4 DEF P!Store
<1>10. CASE ~(/\ gc.color[c] = gc.white
              /\ gc.color[p] = Black(gc) \/ (gc.color[p] = TRANSPARENT /\ gc.state = "MARK"))
  <2>1. gc' = gc
    BY <1>1, <1>10 DEF Barrier
  <2>2. Lists' /\ UNCHANGED <<Colouring, Phase>>
    BY <1>1, <2>1, SameLists
  <2> QED BY <1>2, <1>6, <1>10, <2>2 DEF P!Store
<1> QED BY <1>8, <1>9, <1>10

(* __pin is Pin, unless it unlinks the object iter points at.              *)
LEMMA PinStep ==
  ASSUME Lists, P!Inv, ~MayPinIter, NEW o \in Objects, Pin(o)
  PROVE  Lists' /\ P!Pin(o)
<1>1. /\ o # gc.iter /\ gc.color[o] # TRANSPARENT /\ PinObject(o)
      /\ gc' = [Unlink(gc, o) EXCEPT !.pinSpace = Append(@, o), !.color[o] = TRANSPARENT]
  BY DEF Pin
<1>2. gc \in GcType /\ Placed(gc, allocated) /\ Coloured(gc) /\ pinned = ToSet(gc.pinSpace) /\ Walking(gc)
  BY DEF Lists
<1>3. /\ allocated' = allocated /\ pinned' = pinned \cup {o} /\ o \in Roots
      /\ o \in allocated /\ Tint(gc, allocated, o) # "dead"
  BY <1>1, HeapFacts DEF PinObject
<1> DEFINE u == Unlink(gc, o)
<1>4. /\ u.state = gc.state /\ u.white = gc.white /\ u.iter = gc.iter
      /\ u.color = gc.color
      /\ u.fromSpace = RemoveFirst(gc.fromSpace, o)
      /\ u.toSpace = RemoveFirst(gc.toSpace, o)
      /\ u.pinSpace = RemoveFirst(gc.pinSpace, o)
      /\ u = Collector(u.state, u.white, u.iter, u.fromSpace, u.toSpace, u.pinSpace, u.color)
  BY <1>2, UnlinkIs
<1> HIDE DEF u
<1>5. o \notin ToSet(gc.pinSpace)
  BY <1>1, <1>2 DEF Coloured
<1>6. /\ gc'.state = gc.state /\ gc'.white = gc.white /\ gc'.iter = gc.iter
      /\ gc'.color = [gc.color EXCEPT ![o] = TRANSPARENT]
      /\ gc'.fromSpace = RemoveFirst(gc.fromSpace, o)
      /\ gc'.toSpace = RemoveFirst(gc.toSpace, o)
      /\ gc'.pinSpace = Append(RemoveFirst(gc.pinSpace, o), o)
      /\ gc' = Collector(gc'.state, gc'.white, gc'.iter, gc'.fromSpace, gc'.toSpace, gc'.pinSpace, gc'.color)
  BY <1>1, <1>4 DEF Collector, u
<1>7. /\ IsList(gc'.fromSpace) /\ ToSet(gc'.fromSpace) = ToSet(gc.fromSpace) \ {o}
      /\ IsList(gc'.toSpace) /\ ToSet(gc'.toSpace) = ToSet(gc.toSpace) \ {o}
      /\ IsList(gc'.pinSpace) /\ ToSet(gc'.pinSpace) = ToSet(gc.pinSpace) \cup {o}
  <2>1. IsList(gc.fromSpace) /\ IsList(gc.toSpace) /\ IsList(gc.pinSpace)
    BY <1>2 DEF Placed
  <2>2. RemoveFirst(gc.pinSpace, o) = gc.pinSpace
    BY <2>1, <1>5, RemovedNone
  <2>3. IsList(gc'.pinSpace) /\ ToSet(gc'.pinSpace) = ToSet(gc.pinSpace) \cup {o}
    BY <2>1, <2>2, <1>5, <1>6, Appended
  <2> QED BY <2>1, <2>3, <1>6, RemovedAny
<1>8. Placed(gc', allocated)
  BY <1>2, <1>3, <1>7 DEF Placed
<1>9. \A x \in Objects : gc'.color[x] = IF x = o THEN TRANSPARENT ELSE gc.color[x]
  BY <1>2, <1>6 DEF GcType
<1>10. Black(gc') = Black(gc)
  BY <1>6 DEF Black
<1>11. Coloured(gc')
  <2>1. ToSet(gc.fromSpace) \cup ToSet(gc.toSpace) \cup ToSet(gc.pinSpace) \subseteq Objects
    BY <1>2, InList DEF Placed
  <2> QED BY <2>1, <1>2, <1>6, <1>7, <1>9, <1>10 DEF Coloured
<1>12. gc' \in GcType
  <2>1. gc'.color \in [Objects \cup {PINSPACE} -> 0 .. 3]
    BY <1>2, <1>6 DEF GcType, TRANSPARENT
  <2>2. gc'.fromSpace \in Seq(Objects) /\ gc'.toSpace \in Seq(Objects) /\ gc'.pinSpace \in Seq(Objects)
    BY <1>7 DEF IsList
  <2> QED BY <2>1, <2>2, <1>2, <1>6 DEF GcType, Collector
<1>13. gc.state # "MARK" => gc'.toSpace = gc.toSpace
  <2> SUFFICES ASSUME gc.state # "MARK" PROVE gc'.toSpace = gc.toSpace
    OBVIOUS
  <2>1. o \notin ToSet(gc.toSpace)
    <3>1. CASE gc.state = "SWEEP"
      BY <3>1, <1>2, <1>3, TintIs
    <3>2. CASE gc.state = "IDLE"
      BY <3>2, <1>2 DEF Walking, ToSet
    <3> QED BY <3>1, <3>2, <1>2 DEF GcType
  <2> QED BY <2>1, <1>2, <1>6, RemovedNone DEF Placed
<1>14. ASSUME gc.state = "MARK" PROVE \E m \in Nat : WalkAt(gc', m)
  <2>1. PICK n \in Nat : WalkAt(gc, n)
    BY <1>2, <1>14 DEF Walking
  <2>2. /\ IsList(gc.toSpace) /\ n \in 0 .. Len(gc.toSpace) /\ gc.iter = At(gc.toSpace, n)
    BY <1>2, <2>1 DEF WalkAt, At, Placed
  <2>3. Shrinks(gc.toSpace, n, o, gc'.toSpace)
    <3>1. Shrinks(gc.toSpace, n, o, RemoveFirst(gc.toSpace, o))
      BY ONLY <2>2, o \in Objects, WalkShrinks
    <3>2. gc'.toSpace = RemoveFirst(gc.toSpace, o)
      BY <1>6
    <3> QED BY ONLY <3>1, <3>2
  <2>4. PICK m \in 0 .. Len(gc'.toSpace) :
          /\ At(gc'.toSpace, m) = gc.iter
          /\ \A i \in 1 .. m : \E j \in 1 .. n : gc'.toSpace[i] = gc.toSpace[j]
    BY <2>2, <2>3, <1>1 DEF Shrinks, Stepped
  <2>5. Len(gc'.toSpace) \in Nat /\ m \in Nat
    BY <1>7, InList
  <2>6. ASSUME NEW i \in 1 .. m PROVE gc'.color[gc'.toSpace[i]] = Black(gc')
    <3>1. PICK j \in 1 .. n : gc'.toSpace[i] = gc.toSpace[j]
      BY <2>4
    <3>2. gc.color[gc.toSpace[j]] = Black(gc)
      BY <2>1 DEF WalkAt
    <3>3. i \in 1 .. Len(gc'.toSpace)
      BY <2>5
    <3>4. gc'.toSpace[i] \in Objects /\ gc'.toSpace[i] # o
      BY <3>3, <1>7, InList
    <3> QED BY <3>1, <3>2, <3>4, <1>9, <1>10
  <2>7. gc'.iter = IF m = 0 THEN TOSPACE ELSE gc'.toSpace[m]
    BY <2>4, <1>6 DEF At
  <2> QED BY <2>5, <2>6, <2>7 DEF WalkAt
<1>15. Walking(gc')
  BY <1>2, <1>6, <1>13, <1>14 DEF Walking
<1>16. Lists'
  BY <1>2, <1>3, <1>7, <1>8, <1>11, <1>12, <1>15 DEF Lists, Placed, Coloured, Walking,
    WalkAt, Black
<1>17. \A x \in Objects : Tint(gc', allocated', x) = IF x = o THEN "pinned" ELSE Tint(gc, allocated, x)
  <2>1. gc.white \in {0, 1}
    BY <1>2 DEF GcType
  <2> QED BY <2>1, <1>3, <1>6, <1>9 DEF Tint, GRAY, TRANSPARENT
<1>18. Colouring' = [Colouring EXCEPT ![o] = "pinned"]
  <2>1. Colouring' = [x \in Objects |-> Tint(gc', allocated',
          x)] /\ Colouring = [x \in Objects |-> Tint(gc, allocated, x)]
    BY TintOfGc
  <2> QED BY <2>1, <1>17
<1>19. UNCHANGED Phase
  BY <1>6 DEF Phase
<1>20. P!PinObject(o)
  BY <1>1 DEF PinObject, P!PinObject, Roots, P!Roots
<1> QED BY <1>16, <1>18, <1>19, <1>20 DEF P!Pin

(* What is unpinned while nothing is marked is white again.                *)
LEMMA WhiteAgain ==
  ASSUME Lists, gc.state # "MARK", NEW o \in ToSet(gc.pinSpace),
         gc' = [Unlink(gc, o) EXCEPT !.fromSpace = Append(@, o), !.color[o] = gc.white],
         allocated' = allocated, pinned' = pinned \ {o}
  PROVE  Lists' /\ Colouring' = [Colouring EXCEPT ![o] = "white"] /\ UNCHANGED Phase
<1>1. gc \in GcType /\ Placed(gc, allocated) /\ Coloured(gc) /\ pinned = ToSet(gc.pinSpace) /\ Walking(gc)
  BY DEF Lists
<1>2. /\ IsList(gc.fromSpace) /\ IsList(gc.toSpace) /\ IsList(gc.pinSpace)
      /\ o \notin ToSet(gc.fromSpace) /\ o \notin ToSet(gc.toSpace) /\ o \in Objects /\ o \in allocated
  BY <1>1, InList DEF Placed
<1> DEFINE u == Unlink(gc, o)
<1>4. /\ u.state = gc.state /\ u.white = gc.white /\ u.iter = gc.iter
      /\ u.color = gc.color
      /\ u.fromSpace = gc.fromSpace
      /\ u.toSpace = gc.toSpace
      /\ u.pinSpace = RemoveFirst(gc.pinSpace, o)
      /\ u = Collector(u.state, u.white, u.iter, u.fromSpace, u.toSpace, u.pinSpace, u.color)
  BY <1>1, <1>2, UnlinkIs, RemovedNone
<1> HIDE DEF u
<1>6. /\ gc'.state = gc.state /\ gc'.white = gc.white /\ gc'.iter = gc.iter
      /\ gc'.color = [gc.color EXCEPT ![o] = gc.white]
      /\ gc'.fromSpace = Append(gc.fromSpace, o)
      /\ gc'.toSpace = gc.toSpace
      /\ gc'.pinSpace = RemoveFirst(gc.pinSpace, o)
      /\ gc' = Collector(gc'.state, gc'.white, gc'.iter, gc'.fromSpace, gc'.toSpace, gc'.pinSpace, gc'.color)
  BY <1>4 DEF Collector, u
<1>7. /\ IsList(gc'.fromSpace) /\ ToSet(gc'.fromSpace) = ToSet(gc.fromSpace) \cup {o}
      /\ IsList(gc'.pinSpace) /\ ToSet(gc'.pinSpace) = ToSet(gc.pinSpace) \ {o}
  <2>1. IsList(Append(gc.fromSpace, o)) /\ ToSet(Append(gc.fromSpace, o)) = ToSet(gc.fromSpace) \cup {o}
    BY <1>2, Appended
  <2>2. /\ IsList(RemoveFirst(gc.pinSpace, o))
        /\ ToSet(RemoveFirst(gc.pinSpace, o)) = ToSet(gc.pinSpace) \ {o}
    BY <1>2, RemovedAny
  <2> QED BY <1>6, <2>1, <2>2
<1>8. Placed(gc', allocated)
  BY <1>1, <1>2, <1>6, <1>7 DEF Placed
<1>9. \A x \in Objects : gc'.color[x] = IF x = o THEN gc.white ELSE gc.color[x]
  BY <1>1, <1>6 DEF GcType
<1>10. Black(gc') = Black(gc)
  BY <1>6 DEF Black
<1>11. Coloured(gc')
  <2>1. ToSet(gc.fromSpace) \cup ToSet(gc.toSpace) \cup ToSet(gc.pinSpace) \subseteq Objects
    BY <1>1, InList DEF Placed
  <2> QED BY <2>1, <1>1, <1>2, <1>6, <1>7, <1>9, <1>10 DEF Coloured
<1>12. gc' \in GcType
  <2>1. gc'.color \in [Objects \cup {PINSPACE} -> 0 .. 3]
    <3>1. gc.color \in [Objects \cup {PINSPACE} -> 0 .. 3] /\ gc.white \in 0 .. 3
      BY <1>1 DEF GcType
    <3>2. o \in Objects \cup {PINSPACE} /\ gc'.color = [gc.color EXCEPT ![o] = gc.white]
      BY <1>2, <1>6
    <3> QED BY ONLY <3>1, <3>2
  <2>2. gc'.fromSpace \in Seq(Objects) /\ gc'.pinSpace \in Seq(Objects)
    BY <1>7 DEF IsList
  <2> QED BY <2>1, <2>2, <1>1, <1>6 DEF GcType, Collector
<1>15. Walking(gc')
  BY <1>1, <1>6 DEF Walking
<1>16. Lists'
  BY <1>1, <1>6, <1>7, <1>8, <1>11, <1>12, <1>15 DEF Lists, Placed, Coloured, Walking,
    WalkAt, Black
<1>17. \A x \in Objects : Tint(gc', allocated', x) = IF x = o THEN "white" ELSE Tint(gc, allocated, x)
  <2>1. gc.white \in {0, 1}
    BY <1>1 DEF GcType
  <2> QED BY <2>1, <1>2, <1>6, <1>9 DEF Tint, GRAY, TRANSPARENT
<1>18. Colouring' = [Colouring EXCEPT ![o] = "white"]
  <2>1. Colouring' = [x \in Objects |-> Tint(gc', allocated',
          x)] /\ Colouring = [x \in Objects |-> Tint(gc, allocated, x)]
    BY TintOfGc
  <2> QED BY <2>1, <1>17
<1>19. UNCHANGED Phase
  BY <1>6 DEF Phase
<1> QED BY <1>16, <1>18, <1>19

(* __unpin is Unpin: gray while marking, white otherwise.                  *)
LEMMA UnpinStep == ASSUME Lists, P!Inv, NEW o \in Objects, Unpin(o) PROVE Lists' /\ P!Unpin(o)
<1>1. /\ UnpinObject(o) /\ o \in ToSet(gc.pinSpace) /\ o \in allocated
      /\ allocated' = allocated /\ pinned' = pinned \ {o}
  BY DEF Unpin, UnpinObject, Lists, Placed
<1>2. P!UnpinObject(o)
  BY <1>1 DEF UnpinObject, P!UnpinObject
<1>3. Phase = "mark" <=> gc.state = "MARK"
  BY DEF Phase
<1>4. CASE gc.state = "MARK"
  <2>1. gc' = MakeGray(gc, o)
    BY <1>4 DEF Unpin
  <2>2. /\ Lists' /\ UNCHANGED Phase
        /\ Colouring' = [Colouring EXCEPT ![o] = IF o \in Pointerfree THEN "black" ELSE "gray"]
    BY <1>1, <1>4, <2>1, GrayStep
  <2> QED BY <2>2, <1>2, <1>3, <1>4 DEF P!Unpin, P!Shade
<1>5. CASE gc.state # "MARK"
  <2>1. gc' = [Unlink(gc, o) EXCEPT !.fromSpace = Append(@, o), !.color[o] = gc.white]
    BY <1>5 DEF Unpin
  <2>2. Lists' /\ Colouring' = [Colouring EXCEPT ![o] = "white"] /\ UNCHANGED Phase
    BY <1>1, <1>5, <2>1, WhiteAgain
  <2> QED BY <2>2, <1>2, <1>3, <1>5 DEF P!Unpin
<1> QED BY <1>4, <1>5

(* What the program does with references without a call of the runtime.    *)
LEMMA UnseenStep ==
  ASSUME Lists, Unseen, UNCHANGED gc
  PROVE  Lists' /\ P!Unseen /\ UNCHANGED <<Colouring, Phase>>
<1>1. UNCHANGED <<allocated, pinned>>
  BY DEF Unseen, EraseRef, LoadRef, SetGlobal, ClearGlobal, PopStack
<1>2. Lists' /\ UNCHANGED <<Colouring, Phase>>
  BY <1>1, SameLists
<1>3. P!Roots = Roots
  BY DEF P!Roots, Roots
<1>4. /\ \A p, c \in Objects : EraseRef(p, c) => P!EraseRef(p, c)
      /\ \A p, c \in Objects : LoadRef(p, c) => P!LoadRef(p, c)
  BY <1>3 DEF EraseRef, P!EraseRef, LoadRef, P!LoadRef
<1>5. /\ \A o \in Objects : SetGlobal(o) => P!SetGlobal(o)
      /\ \A o \in Objects : ClearGlobal(o) => P!ClearGlobal(o)
      /\ \A o \in Objects : PopStack(o) => P!PopStack(o)
  BY <1>3 DEF SetGlobal, P!SetGlobal, ClearGlobal, P!ClearGlobal, PopStack, P!PopStack
<1>6. P!Unseen
  BY <1>4, <1>5 DEF Unseen, P!Unseen
<1> QED BY <1>2, <1>6
-----------------------------------------------------------------------------
(* The inductive invariant: the spaces, and the invariant of the abstract  *)
(* collector of the colours they stand for.                                *)
IInv == Lists /\ P!Inv

(* The steps of the collector.                                             *)
Steps == StepIdle \/ StepScan \/ StepRevisit \/ StepFlip \/ StepFree \/ StepSwept

(* Each step of the collector is a step of the abstract one.               *)
LEMMA StepsMap == ASSUME Lists, P!Inv, Steps PROVE Lists' /\ P!Collect
BY IdleMark, ScanMark, RevisitMark, FlipMark, FreeSweep, SweptEnd DEF Steps, P!Collect

(* Each step of the program is a step of the abstract one.                 *)
LEMMA MutateMaps ==
  ASSUME Lists, P!Inv, ~MayPinIter, Mutate
  PROVE  Lists' /\ P!Mutate
<1>1. CASE Unseen /\ UNCHANGED gc
  BY <1>1, UnseenStep DEF P!Mutate
<1>2. CASE \E o \in Objects : New(o) \/ Pin(o) \/ Unpin(o)
  BY <1>2, NewStep, PinStep, UnpinStep DEF P!Mutate
<1>3. CASE \E o, n \in Objects : Renew(o, n)
  BY <1>3, RenewStep DEF P!Mutate
<1>4. CASE \E p, c \in Objects, multiple \in BOOLEAN : Link(p, c, multiple)
  BY <1>4, LinkStep DEF P!Mutate
<1> QED BY <1>1, <1>2, <1>3, <1>4 DEF Mutate

(* Each step keeps the spaces as they should be, and is a step of the      *)
(* abstract collector or none.                                             *)
LEMMA StepMaps ==
  ASSUME ~MayPinIter, IInv, [Next]_vars
  PROVE  Lists' /\ [P!Next]_P!vars
<1> USE DEF IInv
<1>1. CASE Mutate
  BY <1>1, MutateMaps DEF P!Next
<1>2. CASE Step
  BY <1>2, StepsMap DEF P!Next, Step, Steps
<1>3. CASE Collect \/ UNCHANGED vars
  <2>1. UNCHANGED heapVars /\ UNCHANGED gc
    BY <1>3 DEF Collect, vars
  <2>2. Lists' /\ UNCHANGED <<Colouring, Phase>>
    BY <2>1, SameLists DEF heapVars
  <2> QED BY <2>1, <2>2 DEF P!vars, P!heapVars, heapVars
<1> QED BY <1>1, <1>2, <1>3 DEF Next

(* The first state is a first state of the abstract collector.             *)
LEMMA InitIInv == Init => IInv /\ P!Init
<1> SUFFICES ASSUME Init PROVE IInv /\ P!Init
  OBVIOUS
<1>1. /\ gc.state = "IDLE" /\ gc.white = 0 /\ gc.iter = TOSPACE
      /\ gc.fromSpace = <<>> /\ gc.toSpace = <<>> /\ gc.pinSpace = <<>>
      /\ gc.color = [o \in Objects \cup {PINSPACE} |-> 0]
      /\ gc = Collector(gc.state, gc.white, gc.iter, gc.fromSpace, gc.toSpace, gc.pinSpace, gc.color)
      /\ HeapInit
  BY DEF Init, Collector
<1>2. gc \in GcType
  <2>1. gc.color \in [Objects \cup {PINSPACE} -> 0 .. 3]
    BY ONLY <1>1
  <2>2. <<>> \in Seq(Objects)
    OBVIOUS
  <2> QED BY <1>1, <2>1, <2>2 DEF GcType, Collector
<1>3. IsList(<<>>) /\ ToSet(<<>>) = {}
  BY DEF IsList, IsInjective, ToSet
<1>4. Lists
  BY <1>1, <1>2, <1>3 DEF Lists, Placed, Coloured, Walking, HeapInit
<1>5. P!Init
  <2>1. Colouring = [o \in Objects |-> "white"]
    BY <1>1 DEF Colouring, Abstracted, HeapInit
  <2>2. Phase = "idle"
    BY <1>1 DEF Phase
  <2>3. P!HeapInit
    BY <1>1 DEF HeapInit, P!HeapInit
  <2> QED BY <2>1, <2>2, <2>3 DEF P!Init
<1> QED BY <1>4, <1>5, P!InitInv DEF IInv

(* IInv is inductive.                                                      *)
LEMMA NextIInv ==
  ASSUME ~MayPinIter, IInv, [Next]_vars
  PROVE  IInv'
<1>1. Lists' /\ [P!Next]_P!vars
  BY StepMaps
<1>2. P!Inv
  BY DEF IInv
<1> QED BY <1>1, <1>2, P!NextInv DEF IInv

(* IInv holds of every behaviour.                                          *)
LEMMA IInvCorrect == ASSUME ~MayPinIter PROVE Spec => []IInv
BY InitIInv, NextIInv, PTL DEF Spec

(* The invariant of the abstract collector is enough for Safe.             *)
LEMMA SafeOfIInv == IInv => Safe
<1> SUFFICES ASSUME IInv PROVE Safe
  OBVIOUS
<1>1. P!Safe
  BY P!ClosedSafe DEF IInv, P!Inv
<1> QED BY <1>1 DEF P!Safe, Safe, P!Reachable, Reachable, P!Roots, Roots, P!RefsOf, RefsOf

(* What the program can get at is allocated: whatever the order of the     *)
(* calls of the runtime and of the steps of its collector, nothing         *)
(* reachable is freed (Free in rt/itcms.ts). MayPinIter is FALSE where     *)
(* __pin never meets the object the walk is at.                            *)
THEOREM ItcmsSafe == ASSUME ~MayPinIter PROVE Spec => []Safe
BY IInvCorrect, SafeOfIInv, PTL

(* P, which has the lemmas of TriColourProofs, is T, the refinement TLC    *)
(* checks: their variables,                                                *)
LEMMA SameVars == UNCHANGED P!vars => UNCHANGED T!vars
BY DEF T!vars, T!heapVars, P!vars, P!heapVars

(* their operators on the heap,                                            *)
LEMMA SameHeap ==
  /\ P!heapVars = T!heapVars /\ P!Roots = T!Roots /\ P!Visited = T!Visited
  /\ P!Whites = T!Whites
  /\ \A S : P!RefsOf(S) = T!RefsOf(S) /\ P!Shaded(S) = T!Shaded(S)
  /\ \A o : P!Shade(o) = T!Shade(o) /\ P!FreeObject(o) = T!FreeObject(o)
  /\ \A S : P!Cardinality(S) = T!Cardinality(S)
<1>1. /\ P!heapVars = T!heapVars /\ P!Roots = T!Roots /\ P!Visited = T!Visited
      /\ P!Whites = T!Whites
  BY DEF P!heapVars, T!heapVars, P!Roots, T!Roots, P!Visited, T!Visited, P!RefsOf,
    T!RefsOf,
         P!Whites, T!Whites
<1>2. \A o : P!Shade(o) = T!Shade(o) /\ P!FreeObject(o) = T!FreeObject(o)
  BY DEF P!Shade, T!Shade, P!FreeObject, T!FreeObject
<1>3. \A S : P!RefsOf(S) = T!RefsOf(S) /\ P!Shaded(S) = T!Shaded(S)
  BY <1>1, <1>2 DEF P!RefsOf, T!RefsOf, P!Shaded, T!Shaded
<1>4. \A S : P!Cardinality(S) = T!Cardinality(S)
  BY DEF P!Cardinality, T!Cardinality
<1> QED BY <1>1, <1>2, <1>3, <1>4

(* the steps of the program,                                               *)
LEMMA SameMutate == P!Mutate => T!Mutate
<1>1. P!Unseen => T!Unseen
  BY SameHeap
  DEF P!Unseen, T!Unseen, P!EraseRef, T!EraseRef, P!LoadRef, T!LoadRef,
      P!SetGlobal, T!SetGlobal, P!ClearGlobal, T!ClearGlobal, P!PopStack, T!PopStack
<1>2. ASSUME NEW o \in Objects
      PROVE  /\ P!Alloc(o) => T!Alloc(o)
             /\ P!Pin(o) => T!Pin(o)
             /\ P!Unpin(o) => T!Unpin(o)
  BY SameHeap
  DEF P!Alloc, T!Alloc, P!AllocObject, T!AllocObject, P!Pin, T!Pin, P!PinObject,
    T!PinObject,
      P!Unpin, T!Unpin, P!UnpinObject, T!UnpinObject
<1>3. ASSUME NEW o \in Objects, NEW n \in Objects PROVE P!Renew(o, n) => T!Renew(o, n)
  BY SameHeap DEF P!Renew, T!Renew, P!RenewObject, T!RenewObject
<1>4. ASSUME NEW p \in Objects, NEW c \in Objects PROVE P!Store(p, c) => T!Store(p, c)
  BY SameHeap DEF P!Store, T!Store, P!StoreRef, T!StoreRef
<1> QED BY <1>1, <1>2, <1>3, <1>4 DEF P!Mutate, T!Mutate

(* the steps of the collector,                                             *)
LEMMA SameCollect == P!Collect => T!Collect
<1>1. /\ P!Begin => T!Begin
      /\ P!Revisit => T!Revisit
      /\ P!EndSweep => T!EndSweep
  BY SameHeap DEF P!Begin, T!Begin, P!Revisit, T!Revisit, P!EndSweep, T!EndSweep,
    P!heapVars, T!heapVars
<1>2. P!Finish => T!Finish
  BY SameHeap DEF P!Finish, T!Finish, P!heapVars, T!heapVars
<1>3. ASSUME NEW o \in Objects PROVE (P!Scan(o) => T!Scan(o)) /\ (P!Sweep(o) => T!Sweep(o))
  BY SameHeap DEF P!Scan, T!Scan, P!Sweep, T!Sweep, P!heapVars, T!heapVars
<1> QED BY <1>1, <1>2, <1>3 DEF P!Collect, T!Collect

(* the next-state relation                                                 *)
LEMMA SameNext == [P!Next]_P!vars => [T!Next]_T!vars
BY SameVars, SameMutate, SameCollect DEF P!Next, T!Next

(* and the first states.                                                   *)
LEMMA SameInit == P!Init => T!Init
BY DEF P!Init, T!Init, P!HeapInit, T!HeapInit

(* The incremental collector of rt/itcms.ts, with its three lists, its     *)
(* flipped white and its iterator, implements the tri-colour collector:    *)
(* each call of the runtime, and each step of the collector, is one of its *)
(* steps or none.                                                          *)
THEOREM Implements == ASSUME ~MayPinIter PROVE Spec => TriColourMarking
<1>1. Init => T!Init
  BY InitIInv, SameInit
<1>2. IInv /\ [Next]_vars => [T!Next]_T!vars
  BY StepMaps, SameNext
<1> QED BY <1>1, <1>2, IInvCorrect, PTL DEF Spec, TriColourMarking, T!Spec

(* The colour of pinSpace is transparent.                                  *)
LEMMA PinnedOfIInv == IInv => PinnedAreTransparent
<1> SUFFICES ASSUME IInv PROVE PinnedAreTransparent
  OBVIOUS
<1>1. IsList(gc.pinSpace) /\ Coloured(gc)
  BY DEF IInv, Lists, Placed
<1> QED BY <1>1, InList DEF PinnedAreTransparent, Coloured

(* What __pin has pinned stays transparent in pinSpace until __unpin       *)
(* (rt/itcms.ts): the refusal of a second __pin, and of an __unpin of what *)
(* is not pinned, see the truth.                                           *)
THEOREM PinnedStay == ASSUME ~MayPinIter PROVE Spec => []PinnedAreTransparent
BY IInvCorrect, PinnedOfIInv, PTL
-----------------------------------------------------------------------------
(* What is reachable depends on the heap alone.                            *)
LEMMA SameReachable == UNCHANGED heapVars => Reachable' = Reachable
BY DEF heapVars, Reachable, Roots, RefsOf

(* What is freed was not reachable, and what was reachable still is.       *)
LEMMA FreedAside ==
  ASSUME Lists, P!Inv, NEW o \in Objects, P!Sweep(o)
  PROVE  Reachable \subseteq Reachable'
<1>1. /\ Colouring[o] = "dead" /\ allocated' = allocated \ {o}
      /\ refs' = [refs EXCEPT ![o] = {}] /\ UNCHANGED <<globals, stack, pinned>>
  BY DEF P!Sweep, P!FreeObject
<1>2. /\ HeapTypeOK /\ Roots \subseteq allocated
      /\ \A x \in Roots : Tint(gc, allocated, x) # "dead"
      /\ \A x \in allocated : Tint(gc, allocated, x) # "dead" =>
           refs[x] \subseteq allocated /\ \A c \in refs[x] : Tint(gc, allocated, c) # "dead"
  BY HeapFacts
<1> DEFINE live == {x \in allocated : Tint(gc, allocated, x) # "dead"}
<1>3. o \notin live /\ Roots \subseteq live
  BY <1>1, <1>2, TintOfGc
<1>4. \A x \in live : refs[x] \subseteq live
  BY <1>2
<1> HIDE DEF live
<1>5. \A x \in Objects : refs'[x] = IF x = o THEN {} ELSE refs[x]
  BY <1>1, <1>2 DEF HeapTypeOK
<1>6. ASSUME NEW x \in Reachable, NEW S \in SUBSET Objects, Roots' \subseteq S, RefsOf(S)' \subseteq S
      PROVE  x \in S
  <2>1. Roots \subseteq S \cap live
    BY <1>1, <1>3, <1>6 DEF Roots
  <2>2. RefsOf(S \cap live) \subseteq S \cap live
    <3> SUFFICES ASSUME NEW p \in S \cap live, NEW c \in refs[p] PROVE c \in S \cap live
      BY DEF RefsOf
    <3>1. p \in Objects /\ p # o
      BY <1>3
    <3>2. c \in refs'[p]
      BY <3>1, <1>5
    <3>3. c \in S
      BY <3>2, <1>6 DEF RefsOf
    <3> QED BY <3>3, <1>4
  <2>3. S \cap live \in SUBSET Objects
    OBVIOUS
  <2> QED BY <2>1, <2>2, <2>3 DEF Reachable
<1>7. ASSUME NEW x \in Reachable PROVE x \in Reachable'
  <2>1. x \in Objects
    BY DEF Reachable
  <2> QED BY <2>1, <1>6 DEF Reachable
<1> QED BY <1>7

(* In a call of __collect that goes through its own cycle: what is marked  *)
(* is reachable, and so is what the sweep will leave.                      *)
OnlyReachable ==
  collect = "full" =>
    /\ \A o \in allocated : Tint(gc, allocated, o) \in {"gray", "black"} => o \in Reachable
    /\ gc.state = "SWEEP" =>
         \A o \in allocated : Tint(gc, allocated, o) # "dead" => o \in Reachable
    /\ gc.state # "IDLE"

(* A step of a full collection marks only what is reachable, and keeps it  *)
(* so.                                                                     *)
LEMMA FullStep ==
  ASSUME IInv, OnlyReachable, Step, collect' = "full"
  PROVE  OnlyReachable'
<1>1. Lists /\ P!Inv /\ HeapTypeOK /\ gc.state \in {"IDLE", "MARK", "SWEEP"}
  BY HeapFacts DEF IInv, Lists, GcType
<1>2. /\ allocated \subseteq Objects
      /\ \A o \in Objects : Colouring[o] = Tint(gc, allocated, o) /\ Colouring'[o] = Tint(gc', allocated', o)
      /\ \A o \in Objects : Colouring[o] \in {"white", "gray", "black", "pinned", "dead"}
  BY <1>1, TintOfGc DEF HeapTypeOK, P!Inv, P!TypeOK, P!Colours
<1>3. /\ Roots \subseteq Reachable /\ Reachable \subseteq Objects
      /\ \A o \in Reachable : refs[o] \subseteq Reachable
  BY <1>1, ReachableClosed
<1>4. CASE StepIdle
  <2>1. P!Begin /\ gc.state = "IDLE" /\ UNCHANGED heapVars
    BY <1>1, <1>4, IdleMark DEF StepIdle
  <2>2. \A o \in Objects : Colouring[o] \notin {"gray", "black"}
    BY <1>1, <2>1 DEF P!Inv, P!ColoursOfPhase, P!Begin
  <2>3. P!Visited \subseteq Reachable
    BY <1>3 DEF P!Visited, P!RefsOf, Roots
  <2>4. \A o \in Objects : Colouring'[o] \in {"gray", "black"} => o \in Reachable
    BY <2>1, <2>2, <2>3 DEF P!Begin, P!Shaded
  <2>5. gc'.state = "MARK"
    BY <2>1 DEF P!Begin, Phase
  <2>6. allocated' = allocated /\ Reachable' = Reachable
    BY <2>1, SameReachable DEF heapVars
  <2> QED BY <2>4, <2>5, <2>6, <1>2 DEF OnlyReachable
<1>5. ASSUME ~StepIdle
      PROVE  /\ collect = "full" /\ gc.state # "IDLE"
             /\ \A o \in allocated : Colouring[o] \in {"gray", "black"} => o \in Reachable
             /\ gc.state = "SWEEP" =>
                  \A o \in allocated : Colouring[o] # "dead" => o \in Reachable
  <2>1. gc.state # "IDLE"
    BY <1>5 DEF Step, StepIdle, StepScan, StepRevisit, StepFlip, StepFree, StepSwept
  <2>2. collect = "full"
    BY <2>1 DEF Step
  <2> QED BY <2>1, <2>2, <1>2 DEF OnlyReachable
<1>6. CASE StepScan
  <2>1. PICK o \in Objects : P!Scan(o)
    BY <1>1, <1>6, ScanMark
  <2>2. gc.state = "MARK" /\ UNCHANGED heapVars /\ ~StepIdle
    BY <1>6 DEF StepScan, StepIdle
  <2>3. o \in Reachable /\ refs[o] \subseteq Reachable
    BY <1>3, <1>5, <2>1, <2>2 DEF P!Scan
  <2>4. \A x \in allocated : Colouring'[x] \in {"gray", "black"} => x \in Reachable
    BY <1>2, <1>5, <2>1, <2>2, <2>3 DEF P!Scan, P!Shaded
  <2>5. gc'.state = "MARK"
    BY <2>1 DEF P!Scan, Phase
  <2>6. allocated' = allocated /\ Reachable' = Reachable
    BY <2>2, SameReachable DEF heapVars
  <2> QED BY <2>4, <2>5, <2>6, <1>2 DEF OnlyReachable
<1>7. CASE StepRevisit
  <2>1. P!Revisit /\ gc.state = "MARK" /\ UNCHANGED heapVars /\ ~StepIdle
    BY <1>1, <1>7, RevisitMark DEF StepRevisit, StepIdle
  <2>3. P!Visited \subseteq Reachable
    BY <1>3 DEF P!Visited, P!RefsOf, Roots
  <2>4. \A x \in allocated : Colouring'[x] \in {"gray", "black"} => x \in Reachable
    BY <1>2, <1>5, <2>1, <2>3 DEF P!Revisit, P!Shaded
  <2>5. gc'.state = "MARK"
    BY <2>1 DEF P!Revisit, Phase
  <2>6. allocated' = allocated /\ Reachable' = Reachable
    BY <2>1, SameReachable DEF heapVars
  <2> QED BY <2>4, <2>5, <2>6, <1>2 DEF OnlyReachable
<1>8. CASE StepFlip
  <2>1. /\ P!Finish /\ gc.state = "MARK" /\ UNCHANGED heapVars /\ ~StepIdle
        /\ \A o \in allocated :
             Tint(gc, allocated, o) = "white" /\ Tint(gc', allocated', o) = "white" => o \in Reachable
    BY <1>1, <1>8, FlipMark DEF StepFlip, StepIdle
  <2>2. PICK kept \in SUBSET P!Whites :
          Colouring' = [o \in Objects |->
                       IF o \in P!Whites \ kept THEN "dead"
                       ELSE IF o \in kept \/ Colouring[o] = "black" THEN "white"
                       ELSE Colouring[o]]
    BY <2>1 DEF P!Finish
  <2>3. \A x \in allocated : Colouring[x] \notin {"gray", "dead"}
    BY <1>1, <1>2, <2>1 DEF P!Finish, P!Inv, P!ColoursOfPhase
  <2>4. \A x \in allocated : Colouring[x] = "pinned" => x \in Reachable
    BY <1>1, <1>2, <1>3 DEF P!Inv, P!PinnedColour, Roots
  <2>5. ASSUME NEW x \in allocated, Colouring'[x] # "dead" PROVE x \in Reachable
    <3>1. x \in Objects
      BY <1>2
    <3>2. CASE Colouring[x] = "white"
      <4>1. Colouring'[x] = "white"
        BY <3>1, <3>2, <2>2, <2>5
      <4> QED BY <4>1, <3>1, <3>2, <2>1, <1>2
    <3>3. CASE Colouring[x] \in {"black", "pinned"}
      BY <3>3, <1>5, <2>1, <2>4
    <3> QED BY <3>1, <3>2, <3>3, <2>3, <1>2
  <2>6. gc'.state = "SWEEP" /\ \A x \in Objects : Colouring'[x] \notin {"gray", "black"}
    <3>1. gc'.state = "SWEEP"
      BY <1>8 DEF StepFlip
    <3>2. \A x \in Objects : Colouring[x] = "gray" => x \in allocated
      BY <1>1 DEF P!Inv, P!FreeAreWhite
    <3> QED BY <3>1, <3>2, <2>2, <2>3
  <2>7. allocated' = allocated /\ Reachable' = Reachable
    BY <2>1, SameReachable DEF heapVars
  <2> QED BY <2>5, <2>6, <2>7, <1>2 DEF OnlyReachable
<1>9. CASE StepFree
  <2>1. PICK o \in Objects : P!Sweep(o) /\ gc.state = "SWEEP" /\ gc'.state = "SWEEP"
    BY <1>1, <1>9, FreeSweep
  <2>2. ~StepIdle
    BY <2>1 DEF StepIdle
  <2>3. Reachable \subseteq Reachable'
    BY <1>1, <2>1, FreedAside
  <2>4. /\ allocated' = allocated \ {o} /\ Colouring' = [Colouring EXCEPT ![o] = "white"]
    BY <2>1 DEF P!Sweep, P!FreeObject
  <2>5. \A x \in allocated' : Colouring'[x] = Colouring[x] /\ x \in allocated /\ x \in Objects
    BY <2>4, <1>2 DEF Colouring
  <2>6. \A x \in allocated' : Colouring'[x] # "dead" => x \in Reachable'
    BY <2>1, <2>2, <2>3, <2>5, <1>5
  <2> QED BY <2>1, <2>5, <2>6, <1>2 DEF OnlyReachable
<1>10. CASE StepSwept
  <2>1. gc'.state = "IDLE" /\ ~StepIdle
    BY <1>1, <1>10, SweptEnd DEF P!EndSweep, Phase, StepSwept, StepIdle
  <2> QED BY <2>1, <1>5 DEF Step
<1> QED BY <1>4, <1>6, <1>7, <1>8, <1>9, <1>10 DEF Step

(* OnlyReachable is inductive with IInv.                                   *)
LEMMA FullInv ==
  ASSUME IInv, OnlyReachable, [Next]_vars
  PROVE  OnlyReachable'
<1>1. CASE Step
  BY <1>1, FullStep DEF OnlyReachable
<1>2. CASE Mutate \/ Collect
  BY <1>2 DEF Mutate, Collect, OnlyReachable
<1>3. CASE UNCHANGED vars
  <2>1. Reachable' = Reachable
    BY <1>3, SameReachable DEF vars
  <2> QED BY <1>3, <2>1 DEF vars, heapVars, OnlyReachable, Tint
<1> QED BY <1>1, <1>2, <1>3 DEF Next

(* The step that ends a full collection leaves what is reachable, no more  *)
(* and no less.                                                            *)
LEMMA LastStep ==
  ASSUME IInv, OnlyReachable, Next, collect = "full", collect' = "no"
  PROVE  allocated' = Reachable'
<1>1. Step
  BY DEF Next, Mutate, Collect
<1>2. gc'.state = "IDLE" /\ gc.state # "IDLE" /\ Lists /\ P!Inv
  BY <1>1 DEF Step, OnlyReachable, IInv
<1>3. StepSwept
  <2>1. ~StepIdle
    BY <1>2 DEF StepIdle
  <2>2. ~StepScan /\ ~StepRevisit
    BY <1>2, ScanMark, RevisitMark DEF P!Scan, P!Revisit, Phase
  <2>3. ~StepFlip
    BY <1>2, FlipMark DEF P!Finish, Phase
  <2>4. ~StepFree
    BY <1>2, FreeSweep
  <2> QED BY <1>1, <2>1, <2>2, <2>3, <2>4 DEF Step
<1>4. P!EndSweep /\ gc.state = "SWEEP" /\ UNCHANGED heapVars
  BY <1>2, <1>3, SweptEnd DEF StepSwept
<1>5. \A o \in allocated : o \in Objects /\ Colouring[o] # "dead"
  BY <1>2, <1>4, HeapFacts DEF P!EndSweep, HeapTypeOK
<1>6. allocated \subseteq Reachable
  BY <1>4, <1>5, TintOfGc DEF OnlyReachable
<1>7. Reachable \subseteq allocated
  BY SafeOfIInv DEF Safe
<1> QED BY <1>4, <1>6, <1>7, SameReachable DEF heapVars

(* A call of __collect that starts its own cycle, whatever was done before *)
(* it, frees everything that was not reachable, and nothing else           *)
(* (__collect in rt/itcms.ts).                                             *)
THEOREM CollectIsPrecise == ASSUME ~MayPinIter PROVE Spec => CollectFreesGarbage
<1>1. Init => OnlyReachable
  BY DEF Init, OnlyReachable
<1>2. IInv /\ OnlyReachable /\ [Next]_vars => OnlyReachable'
  BY FullInv
<1>3. IInv /\ OnlyReachable /\ [Next]_vars =>
        [collect = "full" /\ collect' = "no" => allocated' = Reachable']_vars
  BY LastStep
<1> QED BY <1>1, <1>2, <1>3, IInvCorrect, PTL DEF Spec, CollectFreesGarbage
=============================================================================
