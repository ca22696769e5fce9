-------------------------------- MODULE Tlsf --------------------------------
(***************************************************************************)
(* The allocator of AssemblyScript programs: memory is tiled by blocks, a  *)
(* header word each, and the free ones are kept in lists by size class.    *)
(* The lists, the headers and what the program stores share one array of   *)
(* words, as they do in the linear memory.  Words stand for 4 bytes, so    *)
(* blocks are aligned to 4 words; sizes stay below half of the maximum.    *)
(***************************************************************************)
EXTENDS Integers, FiniteSets, TLC

CONSTANTS SlBits,       \* SL_BITS, 4 in the code
          PageWords,    \* words of a page of memory, a multiple of 4
          MaxPages,     \* the limit of the engine
          Ids,          \* allocations alive at a time, positive numbers
          Sizes         \* words that the program asks for

VARIABLES m,            \* the memory and the allocator's root
          live,         \* what the program holds: where and how much
          aborted       \* an assertion of the allocator failed

vars == <<m, live, aborted>>

Nil == 0
None == [ptr |-> Nil, size |-> 0]

AL_SIZE == 4
BLOCK_OVERHEAD == 1
BLOCK_MINSIZE == 3

(* A header: the size of the payload and the two tags below it.            *)
Info(size, free, leftFree) ==
  4 * size + (IF free THEN 1 ELSE 0) + (IF leftFree THEN 2 ELSE 0)
SizeOf(info) == info \div 4
IsFree(info) == info % 2 = 1
IsLeftFree(info) == (info \div 2) % 2 = 1

AlignDown(n) == n - (n % AL_SIZE)
AlignUp(n) == AlignDown(n + AL_SIZE - 1)
HeaderAt(n) == AlignUp(n + BLOCK_OVERHEAD) - BLOCK_OVERHEAD

Log2(n) == CHOOSE k \in 0..20 : 2^k <= n /\ n < 2^(k + 1)

(* Classes count whole alignments: one per size for small blocks, then     *)
(* 2^SlBits per power of two.                                              *)
ClassOf(n) ==
  IF n < 2^SlBits THEN <<0, n>>
  ELSE LET fl == Log2(n)
       IN  <<fl - SlBits + 1, n \div 2^(fl - SlBits) - 2^SlBits>>
Class(size) == ClassOf(size \div AL_SIZE)

(* One step up in the classes of a power of two, less one byte, which no   *)
(* header leaves unused: n + step alignments and a rest of less than one.  *)
Rounded(size) ==
  LET n == size \div AL_SIZE
  IN  IF n < 2^SlBits THEN n ELSE n + 2^(Log2(n) - SlBits)

Levels == 0 .. Log2(MaxPages * PageWords)
Seconds == 0 .. 2^SlBits - 1

Right(s, b) == b + BLOCK_OVERHEAD + SizeOf(s.w[b])
Prev(b) == b + 1
NextOf(b) == b + 2
Put(s, a, v) == [s EXCEPT !.w[a] = v]
PutIf(condition, s, a, v) == IF condition THEN Put(s, a, v) ELSE s
Fill(s, from, to, v) == [s EXCEPT !.w = [a \in from .. to |-> v] @@ @]

(* What nobody may rely on: the rest of a free block and of an allocation. *)
Junk == -1000

RemoveBlockKeepsMap(s, b) ==
  LET c == Class(SizeOf(s.w[b]))
      prev == s.w[Prev(b)]
      next == s.w[NextOf(b)]
      linked == PutIf(next # Nil, PutIf(prev # Nil, s, NextOf(prev), next),
                      Prev(next), prev)
  IN  IF s.head[c] = b THEN [linked EXCEPT !.head[c] = next] ELSE linked

RemoveBlock(s, b) ==
  LET c == Class(SizeOf(s.w[b]))
      prev == s.w[Prev(b)]
      next == s.w[NextOf(b)]
      linked == PutIf(next # Nil, PutIf(prev # Nil, s, NextOf(prev), next),
                      Prev(next), prev)
      sl == s.slMap[c[1]] \ {c[2]}
  IN  IF s.head[c] # b THEN linked
      ELSE IF next # Nil THEN [linked EXCEPT !.head[c] = next]
      ELSE [linked EXCEPT !.head[c] = Nil, !.slMap[c[1]] = sl,
                          !.flMap = IF sl = {} THEN @ \ {c[1]} ELSE @]

MergeRight(s, b) ==
  LET right == Right(s, b)
  IN  IF IsFree(s.w[right])
      THEN Put(RemoveBlock(s, right), b,
               s.w[b] + 4 * (BLOCK_OVERHEAD + SizeOf(s.w[right])))
      ELSE s

(* The left neighbour, found through the word before the header.           *)
LeftOf(s, b) == IF IsLeftFree(s.w[b]) THEN s.w[b - 1] ELSE b

MergeLeft(s, b) ==
  LET left == LeftOf(s, b)
  IN  IF left = b THEN s
      ELSE Put(RemoveBlock(s, left), left,
               s.w[left] + 4 * (BLOCK_OVERHEAD + SizeOf(s.w[b])))

Enlist(s, b) ==
  LET c == Class(SizeOf(s.w[b]))
      head == s.head[c]
      linked == Put(Put(PutIf(head # Nil, s, Prev(head), b), Prev(b), Nil),
                    NextOf(b), head)
  IN  [linked EXCEPT !.head[c] = b,
                     !.slMap[c[1]] = @ \cup {c[2]}, !.flMap = @ \cup {c[1]}]

InsertBlock(s, b) ==
  LET merged == MergeRight(s, b)
      left == LeftOf(merged, b)
      whole == MergeLeft(merged, b)
      right == Right(whole, left)
      info == whole.w[right]
      tagged == Put(whole, right, Info(SizeOf(info), IsFree(info), TRUE))
  IN  Enlist(Put(Fill(tagged, left + 1, right - 1, Junk), right - 1, left), left)

Least(S) == CHOOSE x \in S : \A y \in S : x <= y

SearchBlock(s, size) ==
  LET c == ClassOf(Rounded(size))
      sl == {k \in s.slMap[c[1]] : k >= c[2]}
      above == {f \in s.flMap : f > c[1]}
  IN  IF sl # {} THEN s.head[<<c[1], Least(sl)>>]
      ELSE IF above = {} THEN Nil
      ELSE s.head[<<Least(above), Least(s.slMap[Least(above)])>>]

PrepareBlock(s, b, size) ==
  LET info == s.w[b]
      remaining == SizeOf(info) - size
      spare == b + BLOCK_OVERHEAD + size
      right == s.w[Right(s, b)]
  IN  IF remaining >= BLOCK_OVERHEAD + BLOCK_MINSIZE
      THEN InsertBlock(Put(Put(s, b, Info(size, FALSE, IsLeftFree(info))),
                           spare, Info(remaining - BLOCK_OVERHEAD, TRUE, FALSE)),
                       spare)
      ELSE Put(Put(s, b, Info(SizeOf(info), FALSE, IsLeftFree(info))),
               Right(s, b), Info(SizeOf(right), IsFree(right), FALSE))

(* More memory is merged with the tail, an empty block that is in use,     *)
(* when it is adjacent.                                                    *)
AddMemory(s, from, to) ==
  LET adjacent == s.tail # Nil /\ HeaderAt(from) - AL_SIZE = s.tail
      start == IF adjacent THEN s.tail ELSE HeaderAt(from)
      size == AlignDown(to) - start - 2 * BLOCK_OVERHEAD
      tail == start + BLOCK_OVERHEAD + size
      leftFree == adjacent /\ IsLeftFree(s.w[s.tail])
  IN  IF size < BLOCK_MINSIZE THEN s
      ELSE InsertBlock([Put(Put(s, start, Info(size, TRUE, leftFree)),
                            tail, Info(0, FALSE, TRUE)) EXCEPT !.tail = tail],
                       start)

PagesFor(words) == (words + PageWords - 1) \div PageWords

PagesNeededUnrounded(s, size) == PagesFor(size + BLOCK_OVERHEAD)

(* The tail is always at the end of memory here: nobody else grows it.     *)
PagesNeeded(s, size) ==
  PagesFor(IF size < 2^SlBits * AL_SIZE THEN size + BLOCK_OVERHEAD
           ELSE (Rounded(size) + 1) * AL_SIZE)

CanGrow(s, size) == s.pages + PagesNeeded(s, size) <= MaxPages

(* Memory is doubled if the engine lets it.                                *)
GrowMemory(s, size) ==
  LET needed == PagesNeeded(s, size)
      wanted == IF s.pages > needed THEN s.pages ELSE needed
      after == s.pages + (IF s.pages + wanted <= MaxPages THEN wanted ELSE needed)
  IN  AddMemory([s EXCEPT !.pages = after], s.pages * PageWords, after * PageWords)

ComputeSize(size) ==
  IF size <= BLOCK_MINSIZE THEN BLOCK_MINSIZE ELSE HeaderAt(size)

Empty ==
  [w |-> [a \in 0 .. MaxPages * PageWords |-> 0],
   head |-> [c \in Levels \X Seconds |-> Nil],
   slMap |-> [f \in Levels |-> {}], flMap |-> {}, tail |-> Nil, pages |-> 1]

Init ==
  /\ m = AddMemory(Empty, 0, PageWords)
  /\ live = [i \in Ids |-> None]
  /\ aborted = FALSE

(* Memory with room for a block of that size, when there is any.           *)
MustGrow(s, size) == SearchBlock(s, size) = Nil
Roomy(s, size) == IF MustGrow(s, size) THEN GrowMemory(s, size) ELSE s

AllocateBlock(s, size) ==
  LET b == SearchBlock(s, size)
  IN  [at |-> b, s |-> PrepareBlock(RemoveBlock(s, b), b, size)]

FreeBlock(s, b) ==
  InsertBlock(Put(s, b, Info(SizeOf(s.w[b]), TRUE, IsLeftFree(s.w[b]))), b)

CopyNothing(s, from, to) == s

(* memory.copy of the whole payload of the old block.                      *)
CopyPayload(s, from, to) ==
  [s EXCEPT !.w = [a \in to + 1 .. to + SizeOf(s.w[from]) |-> @[a - to + from]] @@ @]

(* Where a block can be resized without moving it.                         *)
InPlace(s, b, size) ==
  LET right == Right(s, b)
      merged == SizeOf(s.w[b]) + BLOCK_OVERHEAD + SizeOf(s.w[right])
  IN  IF size <= SizeOf(s.w[b]) THEN {PrepareBlock(s, b, size)}
      ELSE IF IsFree(s.w[right]) /\ merged >= size
      THEN {PrepareBlock(Put(RemoveBlock(s, right), b,
                             Info(merged, FALSE, IsLeftFree(s.w[b]))), b, size)}
      ELSE {}

(* The program writes its number to the words it asked for and did not     *)
(* have before.                                                            *)
Holds(i, s, b, from, size) ==
  LET ptr == b + BLOCK_OVERHEAD
      written == Fill(s, ptr + from, ptr + size - 1, -i)
  IN  /\ live' = [live EXCEPT ![i] = [ptr |-> ptr, size |-> size]]
      /\ m' = Fill(written, ptr + size, b + SizeOf(s.w[b]), Junk)

Abort == aborted' = TRUE /\ UNCHANGED <<m, live>>

(* Numbers are given out in order: they are only names.                    *)
Alloc(i, size) ==
  LET payload == ComputeSize(size)
      room == Roomy(m, payload)
  IN  /\ live[i] = None /\ \A j \in Ids : live[j] = None => i <= j
      /\ ~aborted
      /\ MustGrow(m, payload) => CanGrow(m, payload)
      /\ IF SearchBlock(room, payload) = Nil THEN Abort
         ELSE LET new == AllocateBlock(room, payload)
              IN  Holds(i, new.s, new.at, 0, size) /\ UNCHANGED aborted

BlockOf(i) == live[i].ptr - BLOCK_OVERHEAD

ReallocInPlace(i, size) ==
  /\ live[i] # None /\ ~aborted
  /\ \E s \in InPlace(m, BlockOf(i), ComputeSize(size)) :
       Holds(i, s, BlockOf(i), live[i].size, size)
  /\ UNCHANGED aborted

Move(i, size) ==
  LET payload == ComputeSize(size)
      room == Roomy(m, payload)
  IN  /\ live[i] # None /\ ~aborted
      /\ InPlace(m, BlockOf(i), payload) = {}
      /\ MustGrow(m, payload) => CanGrow(m, payload)
      /\ IF SearchBlock(room, payload) = Nil THEN Abort
         ELSE LET new == AllocateBlock(room, payload)
                  copied == CopyPayload(new.s, BlockOf(i), new.at)
              IN  /\ Holds(i, FreeBlock(copied, BlockOf(i)), new.at,
                           live[i].size, size)
                  /\ UNCHANGED aborted

Free(i) ==
  /\ live[i] # None /\ ~aborted
  /\ m' = FreeBlock(m, BlockOf(i))
  /\ live' = [live EXCEPT ![i] = None]
  /\ UNCHANGED aborted

Next ==
  \E i \in Ids :
    \/ Free(i)
    \/ \E size \in Sizes : Alloc(i, size) \/ ReallocInPlace(i, size) \/ Move(i, size)

Spec == Init /\ [][Next]_vars
-----------------------------------------------------------------------------
(* No write of the allocator, to a header, a link or a reference back, nor *)
(* of another allocation reaches what the program was given, and __realloc *)
(* keeps it.                                                               *)
PayloadsIntact ==
  \A i \in Ids : \A a \in live[i].ptr .. live[i].ptr + live[i].size - 1 :
    m.w[a] = -i

(* The first header, and those found from it by size, up to the tail.      *)
Blocks ==
  LET first == HeaderAt(0)
      from[n \in 0 .. (MaxPages * PageWords) \div AL_SIZE] ==
        IF n = 0 THEN {first}
        ELSE LET near == from[n - 1]
             IN  near \cup {Right(m, b) : b \in near \ {m.tail}}
  IN  from[(m.pages * PageWords) \div AL_SIZE]

Listed(c) ==
  LET upTo[n \in 0 .. Cardinality(Ids) + 1] ==
        IF n = 0 THEN {m.head[c]}
        ELSE LET near == upTo[n - 1]
             IN  near \cup {m.w[NextOf(b)] : b \in near \ {Nil}}
  IN  upTo[Cardinality(Ids) + 1] \ {Nil}

(* The blocks tile the memory; what is in use is what the program holds;   *)
(* free neighbours were merged, each free block is tagged in the next one  *)
(* with a reference back, and is in the list of its class, of which the    *)
(* maps know.                                                              *)
ListsMatchMemory ==
  LET blocks == Blocks
      free == {b \in blocks : IsFree(m.w[b])}
  IN  /\ m.tail = m.pages * PageWords - BLOCK_OVERHEAD /\ m.tail \in blocks
      /\ blocks \ (free \cup {m.tail}) = {BlockOf(i) : i \in {j \in Ids : live[j] # None}}
      /\ \A b \in blocks \ {m.tail} :
           LET right == Right(m, b)
           IN  /\ IsLeftFree(m.w[right]) <=> b \in free
               /\ b \in free => ~IsFree(m.w[right]) /\ m.w[right - 1] = b
      /\ \A c \in Levels \X Seconds :
           LET listed == Listed(c)
           IN  /\ listed = {b \in free : Class(SizeOf(m.w[b])) = c}
               /\ c[2] \in m.slMap[c[1]] <=> listed # {}
      /\ \A f \in Levels : f \in m.flMap <=> m.slMap[f] # {}

(* assert(block); // must be found now: after memory was grown there is a  *)
(* block for what it was grown for.                                        *)
GrownIsEnough == ~aborted
=============================================================================
