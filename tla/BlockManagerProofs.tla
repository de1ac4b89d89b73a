------------------------- MODULE BlockManagerProofs -------------------------
(***************************************************************************)
(* Theorems about BlockManager, for any arena, size of a pointer and sizes *)
(* of objects.                                                             *)
(*                                                                         *)
(* Tidy is the inductive invariant of orderly use: objects and links lie   *)
(* in blocks of their own, and the free list is an enumeration of the      *)
(* blocks no object is in.  LayoutInv says where block_size_ comes from.   *)
(***************************************************************************)
EXTENDS BlockManager, FiniteSetTheorems, SequenceTheorems, WellFoundedInduction, TLAPS

USE BlockAssumption

LayoutInv ==
  /\ arenaBlockSize = 0 => starved = {} /\ stride = 0
  /\ arenaBlockSize # 0 /\ stride = 0 => starved # {}
  /\ stride # 0 => blockSize = stride \/ blockSize \in starved

HeldInBlocks ==
  \A object \in held :
    /\ object.at \in Blocks
    /\ object.size <= stride
    /\ \A other \in held : other.at = object.at => other = object

LinksInFreeBlocks == DOMAIN link \subseteq FreeBlocks

HasFreeList == \E n \in Nat : \E list \in [1 .. n -> FreeBlocks] : IsFreeList(list, n)

(* A list without its first block, and with one more in front.             *)
Rest(list, n) == [i \in 1 .. n - 1 |-> list[i + 1]]
Pushed(p, list, n) == [i \in 1 .. n + 1 |-> IF i = 1 THEN p ELSE list[i - 1]]

(* The list of an arena that was laid out for its first request.           *)
Others(size) == [i \in 1 .. Capacity(size) - 1 |-> i * size]

Tidy == HeldInBlocks /\ LinksInFreeBlocks /\ HasFreeList

Inv == TypeOK /\ LayoutInv /\ (Orderly => Tidy)

-----------------------------------------------------------------------------
(* The arithmetic of the layout. *)

LEMMA Quotient ==
  ASSUME NEW a \in Nat, NEW s \in Nat \ {0}
  PROVE  /\ a \div s \in Nat
         /\ (a \div s) * s <= a
         /\ a \div s = 0 <=> s > a
<1>1. a \div s \in Nat /\ (a \div s) * s <= a
  BY SMT
<1>2. a \div s = 0 <=> s > a
  BY SMT
<1> QED
  BY <1>1, <1>2

LEMMA Products ==
  ASSUME NEW j \in Nat, NEW k \in Nat, NEW s \in Nat \ {0}, j < k
  PROVE  j * s \in Nat /\ k * s \in Nat /\ j * s + s <= k * s
<1>1. PICK d \in Nat : k = j + 1 + d
  BY SMT
<1>2. k * s = j * s + s + d * s
  BY <1>1, SMT
<1>3. d * s \in Nat /\ j * s \in Nat /\ k * s \in Nat
  BY SMT
<1> QED
  BY <1>2, <1>3, SMT

(* Two blocks are a stride apart, and no block reaches out of the arena. *)
LEMMA BlocksApart ==
  ASSUME TypeOK, Orderly, NEW p \in Blocks
  PROVE  /\ stride \in Nat \ {0}
         /\ stride >= Word
         /\ p \in Nat
         /\ p + stride <= ArenaSize
         /\ \A q \in Blocks : p # q => p + stride <= q \/ q + stride <= p
<1>1. stride \in Nat \ {0} /\ stride >= Word /\ Padded(stride) = stride
  BY DEF TypeOK, Orderly, Blocks, Padded
<1>2. Capacity(stride) \in Nat /\ Capacity(stride) * stride <= ArenaSize
  BY <1>1, Quotient DEF Capacity
<1> DEFINE C == Capacity(stride)
<1>3. PICK k \in 0 .. C - 1 : p = k * stride
  BY <1>1 DEF Blocks
<1> HIDE DEF C
<1>4. C \in Nat /\ C * stride <= ArenaSize
  BY <1>2 DEF C
<1>5. k * stride \in Nat /\ k * stride + stride <= C * stride
  BY <1>1, <1>3, <1>4, Products
<1>6. C * stride \in Nat
  BY <1>1, <1>4, SMT
<1>7. p \in Nat /\ p + stride <= ArenaSize
  BY <1>1, <1>3, <1>4, <1>5, <1>6, SMT
<1>8. ASSUME NEW q \in Blocks, p # q PROVE p + stride <= q \/ q + stride <= p
  <2>1. PICK j \in 0 .. C - 1 : q = j * stride
    BY <1>1 DEF Blocks, C
  <2>2. CASE j < k
    BY <1>1, <1>3, <2>1, <2>2, <1>4, Products
  <2>3. CASE k < j
    BY <1>1, <1>3, <2>1, <2>3, <1>4, Products
  <2>4. j # k
    BY <1>3, <1>8, <2>1
  <2> QED
    BY <1>3, <1>4, <2>1, <2>2, <2>3, <2>4, SMT
<1> QED
  BY <1>1, <1>7, <1>8

(* What LaidOut makes of the arena for a size it has room for. *)
LEMMA Layout ==
  ASSUME NEW size \in Sizes, Capacity(size) # 0
  PROVE  /\ Capacity(size) \in Nat \ {0}
         /\ DOMAIN LaidOut(size) \subseteq {k * size : k \in 0 .. Capacity(size) - 1}
         /\ \A p \in DOMAIN LaidOut(size) : LaidOut(size)[p] \in Nat \cup {Null}
         /\ size >= Word =>
              \A k \in 0 .. Capacity(size) - 1 :
                LinkAt(LaidOut(size), k * size) =
                  IF k = Capacity(size) - 1 THEN Null ELSE (k + 1) * size
<1> DEFINE C == Capacity(size)
          last == (C - 1) * size
          blocks == {k * size : k \in 0 .. C - 1}
<1>1. size \in Nat \ {0}
  OBVIOUS
<1>2. C \in Nat \ {0}
  <2>1. Padded(size) \in Nat \ {0}
    BY <1>1 DEF Padded
  <2> QED
    BY <2>1, Quotient DEF Capacity
<1>3. LaidOut(size) =
        [q \in {q \in blocks : q = last \/ size >= Word} |-> IF q = last THEN Null ELSE q + size]
  BY DEF LaidOut
<1> HIDE DEF C
<1>4. \A k \in 0 .. C - 1 : k * size \in Nat /\ (k = C - 1 <=> k * size = last)
  <2> SUFFICES ASSUME NEW k \in 0 .. C - 1 PROVE k * size \in Nat /\ (k = C - 1 <=> k * size = last)
    OBVIOUS
  <2>1. k * size \in Nat
    BY <1>1, <1>2, SMT
  <2>2. CASE k = C - 1
    BY <2>1, <2>2
  <2>3. CASE k < C - 1
    <3>1. k * size + size <= (C - 1) * size /\ (C - 1) * size \in Nat
      BY <1>1, <1>2, <2>3, Products
    <3> QED
      BY <1>1, <2>1, <2>3, <3>1, SMT
  <2> QED
    BY <1>2, <2>2, <2>3, SMT
<1>5. ASSUME NEW q \in DOMAIN LaidOut(size) PROVE LaidOut(size)[q] \in Nat \cup {Null}
  <2>1. q \in Nat /\ LaidOut(size)[q] = IF q = last THEN Null ELSE q + size
    BY <1>3, <1>4, <1>5
  <2> QED
    BY <1>1, <2>1, SMT
<1>6. ASSUME size >= Word, NEW k \in 0 .. C - 1
      PROVE  LinkAt(LaidOut(size), k * size) = IF k = C - 1 THEN Null ELSE (k + 1) * size
  <2>1. k * size \in DOMAIN LaidOut(size)
    BY <1>3, <1>6
  <2>2. LinkAt(LaidOut(size), k * size) = IF k * size = last THEN Null ELSE k * size + size
    BY <2>1, <1>3 DEF LinkAt
  <2>3. (k + 1) * size = k * size + size
    BY <1>1, <1>2, SMT
  <2> QED
    BY <1>4, <2>2, <2>3
<1> QED
  BY <1>2, <1>3, <1>5, <1>6 DEF C

-----------------------------------------------------------------------------
(* Every step keeps the types. *)
LEMMA TypeStep == TypeOK /\ LayoutInv /\ [Next]_vars => TypeOK'
<1> SUFFICES ASSUME TypeOK, LayoutInv, [Next]_vars PROVE TypeOK'
  OBVIOUS
<1>0. \A size \in Sizes : Padded(size) \in Nat
  BY DEF Padded
<1>a. /\ freePtr \in Nat \cup {Null, Wild}
      /\ DOMAIN link \subseteq Nat
      /\ \A p \in DOMAIN link : link[p] \in Nat \cup {Null, Wild}
      /\ held \subseteq Objects
  BY DEF TypeOK
<1>b. ASSUME NEW p, NEW n PROVE
        /\ DOMAIN Overwritten(p, n) \subseteq DOMAIN link
        /\ \A q \in DOMAIN Overwritten(p, n) : Overwritten(p, n)[q] = link[q]
  BY DEF Overwritten
<1>1. ASSUME NEW size \in Sizes, NewInFreshArena(size) PROVE TypeOK'
  <2>1. Capacity(size) # 0
    BY <1>1 DEF NewInFreshArena, Refuses
  <2>2. LinkAt(LaidOut(size), 0) \in Nat \cup {Null, Wild}
    BY <2>1, Layout DEF LinkAt
  <2>3. \A p \in DOMAIN LaidOut(size) : p \in Nat
    <3>1. \A k \in 0 .. Capacity(size) - 1 : k * size \in Nat
      BY <2>1, Layout, SMT
    <3> QED
      BY <2>1, <3>1, Layout
  <2>4. /\ DOMAIN link' \subseteq DOMAIN LaidOut(size)
        /\ \A p \in DOMAIN link' : link'[p] = LaidOut(size)[p]
    BY <1>1 DEF NewInFreshArena
  <2>5. /\ DOMAIN link' \subseteq Nat
        /\ \A p \in DOMAIN link' : link'[p] \in Nat \cup {Null, Wild}
    BY <2>1, <2>3, <2>4, Layout
  <2>6. held' \subseteq Objects
    BY <1>1, <1>a DEF NewInFreshArena, Construct, Objects
  <2> QED
    BY <1>1, <1>0, <2>1, <2>2, <2>5, <2>6 DEF TypeOK, NewInFreshArena
<1>2. ASSUME NEW size \in Sizes, New(size) PROVE TypeOK'
  <2>1. freePtr \in Nat
    BY <1>2, <1>a DEF New
  <2>2. held' \subseteq Objects
    BY <1>2, <1>a, <2>1 DEF New, Construct, Objects
  <2>3. freePtr' \in Nat \cup {Null, Wild}
    BY <1>2, <1>a DEF New, LinkAt
  <2>4. DOMAIN link' \subseteq Nat /\ \A p \in DOMAIN link' : link'[p] \in Nat \cup {Null, Wild}
    BY <1>2, <1>a, <1>b DEF New
  <2>5. stride # 0
    BY <1>2 DEF New, TypeOK
  <2> QED
    BY <1>2, <2>2, <2>3, <2>4, <2>5 DEF TypeOK, New
<1>3. ASSUME NEW size \in Sizes, RefusedWhenEmpty(size) PROVE TypeOK'
  <2>1. stride # 0 => arenaBlockSize # 0
    BY DEF LayoutInv
  <2> QED
    BY <1>3, <1>0, <2>1 DEF TypeOK, RefusedWhenEmpty
<1>4. ASSUME NEW object \in held, Delete(object) PROVE TypeOK'
  <2>1. object.at \in Nat
    BY <1>a DEF Objects
  <2>2. DOMAIN link' \subseteq Nat /\ \A p \in DOMAIN link' : link'[p] \in Nat \cup {Null, Wild}
    BY <1>4, <1>a, <1>b, <2>1 DEF Delete
  <2>3. stride # 0
    BY DEF TypeOK
  <2> QED
    BY <1>4, <2>1, <2>2, <2>3 DEF TypeOK, Delete
<1>5. ASSUME NEW object \in held, Use(object) PROVE TypeOK'
  <2>1. DOMAIN link' \subseteq Nat /\ \A p \in DOMAIN link' : link'[p] \in Nat \cup {Null, Wild}
    BY <1>5, <1>a, <1>b DEF Use
  <2> QED
    BY <1>5, <2>1 DEF TypeOK, Use
<1>6. CASE Clear
  BY <1>6 DEF TypeOK, Clear
<1>7. CASE UNCHANGED vars
  BY <1>7 DEF TypeOK, vars
<1> QED
  BY <1>1, <1>2, <1>3, <1>4, <1>5, <1>6, <1>7 DEF Next

(* Every step keeps LayoutInv: block_size_ changes only with the layout or  *)
(* with a refusal.                                                          *)
LEMMA LayoutStep == TypeOK /\ LayoutInv /\ [Next]_vars => LayoutInv'
<1> SUFFICES ASSUME TypeOK, LayoutInv, [Next]_vars PROVE LayoutInv'
  OBVIOUS
<1>0. \A size \in Sizes : Padded(size) # 0
  BY DEF Padded
<1> USE DEF LayoutInv
<1>1. ASSUME NEW size \in Sizes, NewInFreshArena(size) PROVE LayoutInv'
  BY <1>1, <1>0 DEF NewInFreshArena
<1>2. ASSUME NEW size \in Sizes, New(size) PROVE LayoutInv'
  BY <1>2 DEF New
<1>3. ASSUME NEW size \in Sizes, RefusedWhenEmpty(size) PROVE LayoutInv'
  BY <1>3, <1>0 DEF RefusedWhenEmpty
<1>4. ASSUME NEW object \in held, Delete(object) PROVE LayoutInv'
  BY <1>4 DEF Delete
<1>5. ASSUME NEW object \in held, Use(object) PROVE LayoutInv'
  BY <1>5 DEF Use
<1>6. CASE Clear
  BY <1>6 DEF Clear
<1>7. CASE UNCHANGED vars
  BY <1>7 DEF vars
<1> QED
  BY <1>1, <1>2, <1>3, <1>4, <1>5, <1>6, <1>7 DEF Next

-----------------------------------------------------------------------------
(* The first request: all blocks but the first are on the list. *)
LEMMA FreshTidy ==
  ASSUME TypeOK, NEW size \in Sizes, NewInFreshArena(size), Orderly'
  PROVE  /\ Tidy' /\ held = {} /\ stride = 0
         /\ Capacity(size) \in Nat \ {0} /\ Padded(size) = size
         /\ Others(size) \in [1 .. Capacity(size) - 1 -> FreeBlocks']
         /\ IsFreeList(Others(size), Capacity(size) - 1)'
<1> DEFINE C == Capacity(size)
<1>1. C # 0 /\ held = {} /\ stride = 0
  <2>1. arenaBlockSize = 0 /\ C # 0
    BY DEF NewInFreshArena, Refuses
  <2>2. stride = 0
    <3>1. stride # 0 => Padded(stride) # 0
      BY DEF TypeOK, Padded
    <3> QED
      BY <2>1, <3>1 DEF TypeOK
  <2> QED
    BY <2>1, <2>2 DEF TypeOK
<1>2. size \in Nat \ {0} /\ size >= Word /\ stride' = size
  BY DEF NewInFreshArena, Orderly
<1>3. C \in Nat \ {0}
  BY <1>1, Layout
<1>4. Blocks' = {k * size : k \in 0 .. C - 1}
  BY <1>2 DEF Blocks, Capacity, Padded
<1>5. held' = {[at |-> 0, size |-> size]}
  BY <1>1 DEF NewInFreshArena, Construct
<1>6. FreeBlocks' = Blocks' \ {0}
  BY <1>5 DEF FreeBlocks
<1>7. /\ DOMAIN link' = {q \in DOMAIN LaidOut(size) : ~Overlap(0, size, q, Word)}
      /\ \A q \in DOMAIN link' : link'[q] = LaidOut(size)[q]
      /\ freePtr' = LinkAt(LaidOut(size), 0)
  BY DEF NewInFreshArena
<1>8. DOMAIN LaidOut(size) \subseteq Blocks'
  BY <1>1, <1>4, Layout
<1>9. \A k \in 0 .. C - 1 : LinkAt(LaidOut(size), k * size) = IF k = C - 1 THEN Null ELSE (k + 1) * size
  BY <1>1, <1>2, Layout
<1> DEFINE list == [i \in 1 .. C - 1 |-> i * size]
<1>13. list = Others(size) /\ Padded(size) = size
  BY <1>2 DEF Others, Padded
<1> HIDE DEF C
<1>10. HeldInBlocks'
  <2>1. 0 * size = 0 /\ 0 \in 0 .. C - 1
    BY <1>2, <1>3
  <2>2. 0 \in Blocks'
    BY <1>4, <2>1
  <2> QED
    BY <1>2, <1>5, <2>2 DEF HeldInBlocks
<1>11. LinksInFreeBlocks'
  <2>1. 0 \notin DOMAIN link'
    BY <1>2, <1>7 DEF Overlap
  <2> QED
    BY <1>6, <1>7, <1>8, <2>1 DEF LinksInFreeBlocks
<1>12. HasFreeList' /\ list \in [1 .. C - 1 -> FreeBlocks'] /\ IsFreeList(list, C - 1)'
  <2>1. \A i \in 1 .. C - 1 : i * size \in Nat /\ i * size >= size
    <3> SUFFICES ASSUME NEW i \in 1 .. C - 1 PROVE i * size \in Nat /\ i * size >= size
      OBVIOUS
    <3>1. 0 * size + size <= i * size /\ i * size \in Nat
      BY <1>2, <1>3, Products
    <3> QED
      BY <1>2, <3>1
  <2>2. list \in [1 .. C - 1 -> FreeBlocks']
    BY <1>2, <1>3, <1>4, <1>6, <2>1
  <2>3. \A i, j \in 1 .. C - 1 : i # j => list[i] # list[j]
    <3> SUFFICES ASSUME NEW i \in 1 .. C - 1, NEW j \in 1 .. C - 1, i < j
                 PROVE  list[i] # list[j]
      BY <1>3
    <3>1. i * size + size <= j * size
      BY <1>2, <1>3, Products
    <3> QED
      BY <1>2, <2>1, <3>1
  <2>4. \A p \in FreeBlocks' : \E i \in 1 .. C - 1 : list[i] = p
    <3> SUFFICES ASSUME NEW k \in 0 .. C - 1, k * size # 0
                 PROVE  \E i \in 1 .. C - 1 : list[i] = k * size
      BY <1>4, <1>6
    <3>1. k # 0
      BY <1>2
    <3> QED
      BY <1>3, <3>1
  <2>5. freePtr' = IF C - 1 = 0 THEN Null ELSE list[1]
    <3>1. freePtr' = IF 0 = C - 1 THEN Null ELSE (0 + 1) * size
      <4>1. 0 \in 0 .. C - 1 /\ 0 * size = 0
        BY <1>2, <1>3
      <4> QED
        BY <1>7, <1>9, <4>1
    <3> QED
      BY <1>3, <3>1
  <2>6. ASSUME NEW i \in 1 .. C - 1
        PROVE  LinkAt(link, list[i])' = IF i = C - 1 THEN Null ELSE list[i + 1]
    <3>1. LinkAt(LaidOut(size), i * size) = IF i = C - 1 THEN Null ELSE (i + 1) * size
      BY <1>3, <1>9
    <3>2. ~Overlap(0, size, i * size, Word)
      BY <1>2, <2>1 DEF Overlap
    <3>3. LinkAt(link, i * size)' = LinkAt(LaidOut(size), i * size)
      BY <1>7, <3>2 DEF LinkAt
    <3> QED
      BY <1>3, <3>1, <3>3
  <2> HIDE DEF list
  <2>7. IsFreeList(list, C - 1)'
    BY <2>3, <2>4, <2>5, <2>6 DEF IsFreeList
  <2> QED
    BY <1>3, <2>2, <2>7 DEF HasFreeList
<1> HIDE DEF list
<1> QED
  BY <1>1, <1>3, <1>10, <1>11, <1>12, <1>13 DEF Tidy, C

(* Something that is written into a block of its own touches no link in     *)
(* another block.                                                           *)
LEMMA WriteApart ==
  ASSUME TypeOK, Orderly, NEW p \in Blocks, NEW q \in Blocks, p # q,
         NEW n \in Nat, n <= stride
  PROVE  ~Overlap(p, n, q, Word)
<1>1. /\ stride \in Nat \ {0} /\ stride >= Word
      /\ p \in Nat /\ q \in Nat
      /\ p + stride <= q \/ q + stride <= p
  BY BlocksApart
<1> QED
  BY <1>1 DEF Overlap

LEMMA NewTidy ==
  ASSUME TypeOK, LayoutInv, Orderly, Tidy, NEW size \in Sizes, New(size),
         NEW n \in Nat, NEW list \in [1 .. n -> FreeBlocks], IsFreeList(list, n)
  PROVE  /\ Tidy' /\ n # 0 /\ freePtr = list[1]
         /\ Rest(list, n) \in [1 .. n - 1 -> FreeBlocks']
         /\ IsFreeList(Rest(list, n), n - 1)'
<1>1. n \in Nat
  OBVIOUS
<1>2. list \in [1 .. n -> FreeBlocks] /\ IsFreeList(list, n)
  OBVIOUS
<1>3. n # 0 /\ freePtr = list[1] /\ freePtr \in FreeBlocks
  BY <1>2 DEF IsFreeList, New
<1> DEFINE p == freePtr
<1>4. /\ p \in Blocks
      /\ \A object \in held : object.at # p
  BY <1>3 DEF FreeBlocks
<1>5. stride \in Nat \ {0} /\ stride >= Word /\ p \in Nat
  BY <1>4, BlocksApart
<1>6. size \in Nat \ {0} /\ size <= stride
  BY <1>5 DEF New, Refuses, LayoutInv, Orderly, TypeOK
<1>7. /\ Blocks' = Blocks
      /\ held' = held \cup {[at |-> p, size |-> size]}
      /\ freePtr' = LinkAt(link, p)
      /\ DOMAIN link' = {q \in DOMAIN link : ~Overlap(p, size, q, Word)}
      /\ \A q \in DOMAIN link' : link'[q] = link[q]
  BY DEF New, Construct, Overwritten, Blocks, Capacity
<1>8. FreeBlocks' = FreeBlocks \ {p}
  <2>1. {object.at : object \in held'} = {object.at : object \in held} \cup {p}
    <3>1. [at |-> p, size |-> size].at = p
      OBVIOUS
    <3> HIDE DEF p
    <3> QED
      BY <1>7, <3>1
  <2> QED
    BY <1>7, <2>1 DEF FreeBlocks
<1> HIDE DEF p
<1>9. HeldInBlocks'
  BY <1>4, <1>6, <1>7 DEF New, Tidy, HeldInBlocks
<1>10. LinksInFreeBlocks'
  <2>1. p \notin DOMAIN link'
    BY <1>5, <1>6, <1>7 DEF Overlap
  <2> QED
    BY <1>7, <1>8, <2>1 DEF Tidy, LinksInFreeBlocks
<1> DEFINE rest == [i \in 1 .. n - 1 |-> list[i + 1]]
<1>12. rest = Rest(list, n)
  BY DEF Rest
<1>11. HasFreeList' /\ rest \in [1 .. n - 1 -> FreeBlocks'] /\ IsFreeList(rest, n - 1)'
  <2>1. \A i \in 1 .. n - 1 : i + 1 \in 1 .. n /\ i + 1 # 1
    BY <1>1
  <2>2. 1 \in 1 .. n /\ list[1] = p
    BY <1>1, <1>3 DEF p
  <2>3. rest \in [1 .. n - 1 -> FreeBlocks']
    BY <1>2, <1>8, <2>1, <2>2 DEF IsFreeList
  <2>4. \A i, j \in 1 .. n - 1 : i # j => rest[i] # rest[j]
    BY <1>2, <2>1 DEF IsFreeList
  <2>5. ASSUME NEW q \in FreeBlocks' PROVE \E i \in 1 .. n - 1 : rest[i] = q
    <3>1. PICK i \in 1 .. n : list[i] = q
      BY <1>2, <1>8 DEF IsFreeList
    <3>2. i # 1
      BY <1>8, <2>2, <3>1
    <3>3. i - 1 \in 1 .. n - 1 /\ i - 1 + 1 = i
      BY <1>1, <3>2
    <3> QED
      BY <3>1, <3>3
  <2>6. freePtr' = IF n - 1 = 0 THEN Null ELSE rest[1]
    <3>1. LinkAt(link, list[1]) = IF 1 = n THEN Null ELSE list[1 + 1]
      BY <1>2, <2>2 DEF IsFreeList
    <3> QED
      BY <1>1, <1>3, <1>7, <2>2, <3>1
  <2>7. ASSUME NEW i \in 1 .. n - 1
        PROVE  LinkAt(link, rest[i])' = IF i = n - 1 THEN Null ELSE rest[i + 1]
    <3>1. LinkAt(link, list[i + 1]) = IF i + 1 = n THEN Null ELSE list[i + 1 + 1]
      BY <1>2, <2>1 DEF IsFreeList
    <3>2. list[i + 1] \in Blocks /\ list[i + 1] # p
      BY <1>2, <2>1, <2>2 DEF IsFreeList, FreeBlocks
    <3>3. ~Overlap(p, size, list[i + 1], Word)
      BY <1>4, <1>6, <3>2, WriteApart DEF p
    <3>4. LinkAt(link, rest[i])' = LinkAt(link, list[i + 1])
      BY <1>7, <3>3 DEF LinkAt
    <3>5. i # n - 1 => i + 1 \in 1 .. n - 1
      BY <1>1
    <3> QED
      BY <1>1, <3>1, <3>4, <3>5
  <2> HIDE DEF rest
  <2>8. IsFreeList(rest, n - 1)'
    BY <2>4, <2>5, <2>6, <2>7 DEF IsFreeList
  <2> QED
    BY <1>1, <1>3, <2>3, <2>8 DEF HasFreeList
<1> HIDE DEF rest
<1> QED
  BY <1>3, <1>9, <1>10, <1>11, <1>12 DEF Tidy

LEMMA DeleteTidy ==
  ASSUME TypeOK, Orderly, Tidy, NEW object \in held, Delete(object),
         NEW n \in Nat, NEW list \in [1 .. n -> FreeBlocks], IsFreeList(list, n)
  PROVE  /\ Tidy'
         /\ Pushed(object.at, list, n) \in [1 .. n + 1 -> FreeBlocks']
         /\ IsFreeList(Pushed(object.at, list, n), n + 1)'
<1>1. n \in Nat
  OBVIOUS
<1>2. list \in [1 .. n -> FreeBlocks] /\ IsFreeList(list, n)
  OBVIOUS
<1> DEFINE p == object.at
<1>3. p \in Blocks /\ \A other \in held : other.at = p => other = object
  BY DEF Tidy, HeldInBlocks
<1>4. p \in Nat /\ stride \in Nat \ {0} /\ stride >= Word
  BY <1>3, BlocksApart
<1>5. /\ Blocks' = Blocks
      /\ held' = held \ {object}
      /\ freePtr' = p
      /\ DOMAIN link' = {q \in DOMAIN link : ~Overlap(p, Word, q, Word)} \cup {p}
      /\ \A q \in DOMAIN link' : link'[q] = IF q = p THEN freePtr ELSE link[q]
  BY DEF Delete, Overwritten, Blocks, Capacity
<1>6. p \notin FreeBlocks
  BY DEF FreeBlocks
<1>7. FreeBlocks' = FreeBlocks \cup {p}
  BY <1>3, <1>5 DEF FreeBlocks
<1>8. HeldInBlocks'
  BY <1>5 DEF Delete, Tidy, HeldInBlocks
<1> HIDE DEF p
<1>9. LinksInFreeBlocks'
  BY <1>5, <1>7 DEF Tidy, LinksInFreeBlocks
<1> DEFINE longer == [i \in 1 .. n + 1 |-> IF i = 1 THEN p ELSE list[i - 1]]
<1>11. longer = Pushed(object.at, list, n)
  BY DEF Pushed, p
<1>10. HasFreeList' /\ longer \in [1 .. n + 1 -> FreeBlocks'] /\ IsFreeList(longer, n + 1)'
  <2>1. \A i \in 1 .. n + 1 : i # 1 => i - 1 \in 1 .. n
    BY <1>1
  <2>2. longer \in [1 .. n + 1 -> FreeBlocks']
    BY <1>2, <1>7, <2>1
  <2>3. ASSUME NEW i \in 1 .. n + 1, NEW j \in 1 .. n + 1, i # j PROVE longer[i] # longer[j]
    <3>1. i # 1 => i - 1 \in 1 .. n /\ longer[i] = list[i - 1] /\ longer[i] \in FreeBlocks
      BY <1>2, <2>1
    <3>2. j # 1 => j - 1 \in 1 .. n /\ longer[j] = list[j - 1] /\ longer[j] \in FreeBlocks
      BY <1>2, <2>1
    <3>3. CASE i # 1 /\ j # 1
      <4>1. i - 1 # j - 1
        BY <1>1, <2>3
      <4> QED
        BY <1>2, <3>1, <3>2, <3>3, <4>1 DEF IsFreeList
    <3>4. CASE i = 1
      BY <1>6, <2>3, <3>2, <3>4 DEF p
    <3>5. CASE j = 1
      BY <1>6, <2>3, <3>1, <3>5 DEF p
    <3> QED
      BY <3>3, <3>4, <3>5
  <2>4. ASSUME NEW q \in FreeBlocks' PROVE \E i \in 1 .. n + 1 : longer[i] = q
    <3>1. CASE q = p
      BY <1>1, <3>1
    <3>2. CASE q # p
      <4>1. PICK i \in 1 .. n : list[i] = q
        BY <1>2, <1>7, <3>2 DEF IsFreeList
      <4>2. i + 1 \in 1 .. n + 1 /\ i + 1 # 1 /\ i + 1 - 1 = i
        BY <1>1
      <4> QED
        BY <4>1, <4>2
    <3> QED
      BY <3>1, <3>2
  <2>5. freePtr' = IF n + 1 = 0 THEN Null ELSE longer[1]
    BY <1>1, <1>5
  <2>6. ASSUME NEW i \in 1 .. n + 1
        PROVE  LinkAt(link, longer[i])' = IF i = n + 1 THEN Null ELSE longer[i + 1]
    <3>0. freePtr = IF n = 0 THEN Null ELSE list[1]
      BY <1>2 DEF IsFreeList
    <3>1. CASE i = 1
      <4>1. LinkAt(link, longer[i])' = freePtr
        BY <1>5, <3>1 DEF LinkAt
      <4>2. n # 0 => 2 \in 1 .. n + 1 /\ longer[i + 1] = list[1]
        BY <1>1, <3>1
      <4> QED
        BY <1>1, <3>0, <3>1, <4>1, <4>2
    <3>2. CASE i # 1
      <4>1. i - 1 \in 1 .. n /\ longer[i] = list[i - 1]
        BY <2>1, <3>2
      <4>2. LinkAt(link, list[i - 1]) = IF i - 1 = n THEN Null ELSE list[i - 1 + 1]
        BY <1>2, <4>1 DEF IsFreeList
      <4>3. list[i - 1] \in Blocks /\ list[i - 1] # p
        BY <1>2, <1>6, <4>1 DEF FreeBlocks
      <4>4. ~Overlap(p, Word, list[i - 1], Word)
        BY <1>3, <1>4, <4>3, WriteApart DEF p
      <4>5. LinkAt(link, longer[i])' = LinkAt(link, list[i - 1])
        BY <1>5, <4>1, <4>3, <4>4 DEF LinkAt
      <4>6. i # n + 1 => i + 1 \in 1 .. n + 1 /\ longer[i + 1] = list[i]
        BY <1>1, <3>2
      <4> QED
        BY <1>1, <4>2, <4>5, <4>6
    <3> QED
      BY <3>1, <3>2
  <2> HIDE DEF longer
  <2>7. IsFreeList(longer, n + 1)'
    BY <2>3, <2>4, <2>5, <2>6 DEF IsFreeList
  <2> QED
    BY <1>1, <2>2, <2>7 DEF HasFreeList
<1> HIDE DEF longer
<1> QED
  BY <1>8, <1>9, <1>10, <1>11 DEF Tidy

(* The list does not depend on anything but its links, its head and the     *)
(* free blocks.                                                             *)
LEMMA UseTidy ==
  ASSUME TypeOK, Orderly, Tidy, NEW object \in held, Use(object),
         NEW n \in Nat, NEW list \in [1 .. n -> FreeBlocks], IsFreeList(list, n)
  PROVE  /\ Tidy'
         /\ list \in [1 .. n -> FreeBlocks'] /\ IsFreeList(list, n)'
<1>1. object.at \in Blocks /\ object.size \in Nat /\ object.size <= stride
  BY DEF Tidy, HeldInBlocks, TypeOK, Objects
<1>2. /\ Blocks' = Blocks /\ FreeBlocks' = FreeBlocks
      /\ DOMAIN link' = {q \in DOMAIN link : ~Overlap(object.at, object.size, q, Word)}
      /\ \A q \in DOMAIN link' : link'[q] = link[q]
  BY DEF Use, Overwritten, Blocks, FreeBlocks, Capacity
<1>3. ASSUME NEW q \in FreeBlocks PROVE LinkAt(link, q)' = LinkAt(link, q)
  <2>1. q \in Blocks /\ q # object.at
    BY DEF FreeBlocks
  <2>2. ~Overlap(object.at, object.size, q, Word)
    BY <1>1, <2>1, WriteApart
  <2> QED
    BY <1>2, <2>2 DEF LinkAt
<1>4. HeldInBlocks' /\ LinksInFreeBlocks'
  BY <1>2 DEF Use, Tidy, HeldInBlocks, LinksInFreeBlocks
<1>5. IsFreeList(list, n)'
  BY <1>2, <1>3 DEF Use, IsFreeList
<1> QED
  BY <1>2, <1>4, <1>5 DEF Tidy, HasFreeList

(* An arena that is not laid out has no blocks and an empty list. *)
LEMMA NoArenaTidy ==
  ASSUME stride = 0, freePtr = Null, held = {}, DOMAIN link = {}
  PROVE  Tidy
<1>1. Blocks = {} /\ FreeBlocks = {}
  BY DEF Blocks, FreeBlocks
<1> DEFINE list == [i \in 1 .. 0 |-> 0]
<1>2. list \in [1 .. 0 -> FreeBlocks] /\ IsFreeList(list, 0)
  BY <1>1 DEF IsFreeList
<1> QED
  BY <1>1, <1>2 DEF Tidy, HeldInBlocks, LinksInFreeBlocks, HasFreeList

(* Tidy does not depend on block_size_ or on what was refused. *)
LEMMA StillTidy ==
  ASSUME Tidy, UNCHANGED <<freePtr, link, held, stride>>
  PROVE  Tidy'
<1>1. Blocks' = Blocks /\ FreeBlocks' = FreeBlocks
  BY DEF Blocks, FreeBlocks, Capacity
<1>2. HeldInBlocks' /\ LinksInFreeBlocks'
  BY <1>1 DEF Tidy, HeldInBlocks, LinksInFreeBlocks
<1>3. PICK n \in Nat : \E list \in [1 .. n -> FreeBlocks] : IsFreeList(list, n)
  BY DEF Tidy, HasFreeList
<1>4. PICK list \in [1 .. n -> FreeBlocks] : IsFreeList(list, n)
  BY <1>3
<1>5. \A q : LinkAt(link, q)' = LinkAt(link, q)
  BY DEF LinkAt
<1>6. IsFreeList(list, n)'
  BY <1>1, <1>4, <1>5 DEF IsFreeList
<1> QED
  BY <1>1, <1>2, <1>4, <1>6 DEF Tidy, HasFreeList

(* Any state of orderly use has a list of its free blocks.                 *)
LEMMA SomeFreeList ==
  ASSUME Tidy
  PROVE  \E n \in Nat : \E list \in [1 .. n -> FreeBlocks] : IsFreeList(list, n)
BY DEF Tidy, HasFreeList

LEMMA TidyStep == TypeOK /\ LayoutInv /\ (Orderly => Tidy) /\ [Next]_vars => (Orderly => Tidy)'
<1> SUFFICES ASSUME TypeOK, LayoutInv, Orderly => Tidy, [Next]_vars, Orderly' PROVE Tidy'
  OBVIOUS
<1>1. ASSUME NEW size \in Sizes, NewInFreshArena(size) PROVE Tidy'
  BY <1>1, FreshTidy
<1>2. ASSUME NEW size \in Sizes, New(size) PROVE Tidy'
  <2>1. Orderly
    BY <1>2 DEF New, Orderly
  <2> QED
    BY <1>2, <2>1, SomeFreeList, NewTidy
<1>3. ASSUME NEW size \in Sizes, RefusedWhenEmpty(size) PROVE Tidy'
  <2>1. Orderly
    BY <1>3 DEF RefusedWhenEmpty, Orderly
  <2> QED
    BY <1>3, <2>1, StillTidy DEF RefusedWhenEmpty
<1>4. ASSUME NEW object \in held, Delete(object) PROVE Tidy'
  <2>1. Orderly
    BY <1>4 DEF Delete, Orderly
  <2> QED
    BY <1>4, <2>1, SomeFreeList, DeleteTidy
<1>5. ASSUME NEW object \in held, Use(object) PROVE Tidy'
  <2>1. Orderly
    BY <1>5 DEF Use, Orderly
  <2> QED
    BY <1>5, <2>1, SomeFreeList, UseTidy
<1>6. CASE Clear
  <2>1. (stride = 0 /\ freePtr = Null /\ held = {} /\ DOMAIN link = {})'
    BY <1>6 DEF Clear
  <2>2. Blocks' = {} /\ FreeBlocks' = {}
    BY <2>1 DEF Blocks, FreeBlocks
  <2> DEFINE list == [i \in 1 .. 0 |-> 0]
  <2>3. list \in [1 .. 0 -> FreeBlocks'] /\ IsFreeList(list, 0)'
    BY <2>1, <2>2 DEF IsFreeList
  <2> QED
    BY <2>1, <2>2, <2>3 DEF Tidy, HeldInBlocks, LinksInFreeBlocks, HasFreeList
<1>7. CASE UNCHANGED vars
  <2>1. Orderly
    BY <1>7 DEF vars, Orderly
  <2> QED
    BY <1>7, <2>1, StillTidy DEF vars
<1> QED
  BY <1>1, <1>2, <1>3, <1>4, <1>5, <1>6, <1>7 DEF Next

LEMMA InitInv == Init => Inv
<1> SUFFICES ASSUME Init PROVE Inv
  OBVIOUS
<1>1. TypeOK /\ LayoutInv
  BY DEF Init, TypeOK, LayoutInv
<1>2. Tidy
  BY NoArenaTidy DEF Init
<1> QED
  BY <1>1, <1>2 DEF Inv

LEMMA Invariance == Spec => []Inv
<1>1. Inv /\ [Next]_vars => Inv'
  BY TypeStep, LayoutStep, TidyStep DEF Inv
<1> QED
  BY InitInv, <1>1, PTL DEF Spec

-----------------------------------------------------------------------------
(* The types, and that a list and objects exist only in an arena that is   *)
(* laid out.                                                               *)
THEOREM TypeCorrect == Spec => []TypeOK
BY Invariance, PTL DEF Inv

(* allocate() gives out memory inside the arena and no byte of it twice,   *)
(* whatever the sizes and the order of new, delete and clear().            *)
THEOREM ObjectsApart == Spec => []ObjectsDoNotOverlap
<1>1. Inv => ObjectsDoNotOverlap
  <2> SUFFICES ASSUME TypeOK, Tidy, Orderly, NEW object \in held
               PROVE  /\ object.at + object.size <= ArenaSize
                      /\ \A other \in held \ {object} :
                           ~Overlap(object.at, object.size, other.at, other.size)
    BY DEF Inv, ObjectsDoNotOverlap
  <2>1. \A o \in held : o.at \in Blocks /\ o.size \in Nat /\ o.size <= stride
    BY DEF Tidy, HeldInBlocks, TypeOK, Objects
  <2>2. stride \in Nat /\ object.at \in Nat /\ object.at + stride <= ArenaSize
    BY <2>1, BlocksApart
  <2>3. ASSUME NEW other \in held \ {object}
        PROVE  ~Overlap(object.at, object.size, other.at, other.size)
    <3>1. object.at # other.at
      BY DEF Tidy, HeldInBlocks
    <3>2. other.at \in Nat
      BY <2>1, BlocksApart
    <3>3. object.at + stride <= other.at \/ other.at + stride <= object.at
      BY <2>1, <3>1, BlocksApart
    <3> QED
      BY <2>1, <2>2, <3>2, <3>3 DEF Overlap
  <2> QED
    BY <2>1, <2>2, <2>3
<1> QED
  BY Invariance, <1>1, PTL

-----------------------------------------------------------------------------
(* The list of the free blocks, as the pool sees it. *)

(* A free list has no more blocks than the arena.                          *)
LEMMA FreeListIsOne ==
  ASSUME TypeOK, Orderly,
         NEW n \in Nat, NEW list \in [1 .. n -> FreeBlocks], IsFreeList(list, n)
  PROVE  list \in FreeLists
<1>1. n \in Nat
  OBVIOUS
<1>2. list \in [1 .. n -> FreeBlocks] /\ IsFreeList(list, n)
  OBVIOUS
<1>0. n \in 0 .. (IF stride = 0 THEN 0 ELSE Capacity(stride))
  <2>3. CASE stride = 0
    <3>1. FreeBlocks = {}
      BY <2>3 DEF FreeBlocks, Blocks
    <3>2. n = 0
      <4>1. n # 0 => 1 \in 1 .. n
        BY <1>1
      <4> QED
        BY <1>2, <3>1, <4>1
    <3>3. n \in 0 .. (IF stride = 0 THEN 0 ELSE Capacity(stride))
      BY <2>3, <3>2
    <3> QED
      BY <3>3
  <2>4. CASE stride # 0
    <3> DEFINE C == Capacity(stride)
               index(i) == CHOOSE k \in 0 .. C - 1 : list[i] = k * stride
               f == [i \in 1 .. n |-> index(i)]
    <3>1. C \in Nat
      <4>1. stride \in Sizes
        BY <2>4 DEF TypeOK
      <4> QED
        BY <2>4, <4>1, Layout DEF TypeOK
    <3>2. \A i \in 1 .. n : index(i) \in 0 .. C - 1 /\ list[i] = index(i) * stride
      <4> SUFFICES ASSUME NEW i \in 1 .. n
                   PROVE  \E k \in 0 .. C - 1 : list[i] = k * stride
        OBVIOUS
      <4>1. list[i] \in Blocks
        BY <1>2 DEF FreeBlocks
      <4> QED
        BY <2>4, <4>1 DEF Blocks
    <3> HIDE DEF C, index
    <3>3. f \in [1 .. n -> 0 .. C - 1]
      BY <3>2
    <3>4. \A i, j \in 1 .. n : f[i] = f[j] => i = j
      BY <1>2, <3>2 DEF IsFreeList
    <3>5. f \in Injection(1 .. n, 0 .. C - 1)
      BY <3>3, <3>4 DEF Injection, IsInjective
    <3>6. /\ IsFiniteSet(1 .. n) /\ Cardinality(1 .. n) = n
          /\ IsFiniteSet(0 .. C - 1) /\ Cardinality(0 .. C - 1) = C
      <4>1. /\ IsFiniteSet(1 .. n) /\ Cardinality(1 .. n) = IF 1 > n THEN 0 ELSE n - 1 + 1
        BY <1>1, FS_Interval
      <4>2. /\ IsFiniteSet(0 .. C - 1) /\ Cardinality(0 .. C - 1) = IF 0 > C - 1 THEN 0 ELSE C - 1 - 0 + 1
        BY <3>1, FS_Interval
      <4> QED
        BY <1>1, <3>1, <4>1, <4>2
    <3>7. n <= C
      <4>1. Cardinality(1 .. n) <= Cardinality(0 .. C - 1)
        BY <3>5, <3>6, FS_Injection
      <4> QED
        BY <3>6, <4>1
    <3> QED
      BY <2>4, <3>1, <3>7 DEF C
  <2> QED
    BY <2>3, <2>4
<1>3. Len(list) = n
  BY <1>2, IsASeq, LenProperties
<1> QED
  BY <1>0, <1>2, <1>3 DEF FreeLists

(* The n entries of list are those that head and the links next lead to.   *)
IsChain(list, n, head, next) ==
  /\ head = IF n = 0 THEN Null ELSE list[1]
  /\ \A i \in 1 .. n : next[list[i]] = IF i = n THEN Null ELSE list[i + 1]

(* A list is determined by its head and its links.                         *)
LEMMA OneList ==
  ASSUME NEW S \in SUBSET Nat, NEW head, NEW next,
         NEW n \in Nat, NEW a \in [1 .. n -> S], IsChain(a, n, head, next),
         NEW m \in Nat, NEW b \in [1 .. m -> S], IsChain(b, m, head, next)
  PROVE  \A i \in 1 .. n : i \in 1 .. m /\ a[i] = b[i]
<1> USE DEF IsChain
<1> DEFINE Bad == {i \in 1 .. n : ~(i \in 1 .. m /\ a[i] = b[i])}
<1>1. SUFFICES ASSUME Bad # {} PROVE FALSE
  OBVIOUS
<1>2. PICK i \in Bad : \A j \in Bad : ~(j < i)
  <2>1. Bad \subseteq Nat
    OBVIOUS
  <2> HIDE DEF Bad
  <2>2. \E x \in Bad : \A y \in Bad : ~(<<y, x>> \in OpToRel(<, Nat))
    BY <1>1, <2>1, NatLessThanWellFounded, WFMin
  <2> QED
    BY <2>1, <2>2 DEF OpToRel
<1>3. \A k \in S : k # Null
  BY DEF Null
<1>4. CASE i = 1
  <2>0. i \in 1 .. n
    BY <1>2
  <2>1. n # 0 /\ 1 \in 1 .. n /\ head = a[1] /\ head # Null
    <3>1. n # 0 /\ 1 \in 1 .. n
      BY <1>4, <2>0
    <3>2. a[1] \in S
      BY <3>1
    <3> QED
      BY <1>3, <3>1, <3>2
  <2>2. m # 0 /\ 1 \in 1 .. m /\ head = b[1]
    BY <2>1
  <2> QED
    BY <1>2, <1>4, <2>1, <2>2
<1>5. CASE i # 1
  <2>1. i - 1 \in 1 .. n /\ i - 1 < i /\ i - 1 # n /\ i - 1 + 1 = i
    BY <1>2, <1>5
  <2>2. i - 1 \in 1 .. m /\ a[i - 1] = b[i - 1]
    BY <1>2, <2>1
  <2>3. next[a[i - 1]] = a[i] /\ a[i] # Null
    BY <1>2, <1>3, <2>1
  <2>4. next[b[i - 1]] = IF i - 1 = m THEN Null ELSE b[i]
    BY <2>1, <2>2
  <2>5. i \in 1 .. m /\ a[i] = b[i]
    BY <2>1, <2>2, <2>3, <2>4
  <2> QED
    BY <1>2, <2>5
<1> QED
  BY <1>4, <1>5

LEMMA SameList ==
  ASSUME NEW S \in SUBSET Nat, NEW head, NEW next,
         NEW n \in Nat, NEW a \in [1 .. n -> S], IsChain(a, n, head, next),
         NEW m \in Nat, NEW b \in [1 .. m -> S], IsChain(b, m, head, next)
  PROVE  a = b
<1>1. \A i \in 1 .. n : i \in 1 .. m /\ a[i] = b[i]
  BY OneList
<1>2. n <= m
  <2>1. n # 0 => n \in 1 .. n
    OBVIOUS
  <2> QED
    BY <1>1, <2>1
<1>3. ~(n < m)
  <2> SUFFICES ASSUME n < m PROVE FALSE
    OBVIOUS
  <2>1. n + 1 \in 1 .. m /\ b[n + 1] # Null
    BY DEF Null
  <2>2. CASE n = 0
    BY <2>1, <2>2 DEF IsChain
  <2>3. CASE n # 0
    <3>1. n \in 1 .. n /\ n \in 1 .. m /\ n # m /\ a[n] = b[n]
      BY <1>1, <2>3
    <3>2. next[a[n]] = Null /\ next[b[n]] = b[n + 1]
      BY <3>1 DEF IsChain
    <3> QED
      BY <2>1, <3>1, <3>2
  <2> QED
    BY <2>2, <2>3
<1>4. m = n
  BY <1>2, <1>3
<1> QED
  BY <1>1, <1>4

(* In orderly use the pool's list is the one the links make.               *)
LEMMA FreeListIs ==
  TypeOK /\ Orderly =>
    \A n \in Nat : \A list \in [1 .. n -> FreeBlocks] :
      IsFreeList(list, n) => FreeList = list
<1> SUFFICES ASSUME TypeOK, Orderly,
                    NEW n \in Nat, NEW list \in [1 .. n -> FreeBlocks],
                    IsFreeList(list, n)
             PROVE  FreeList = list
  OBVIOUS
<1>1. FreeBlocks \subseteq Nat
  BY BlocksApart DEF FreeBlocks
<1>2. ASSUME NEW other \in FreeLists PROVE other = list
  <2>1. PICK m \in Nat : other \in [1 .. m -> FreeBlocks]
    <3>1. stride # 0 => Capacity(stride) \in Nat
      BY Quotient DEF TypeOK, Capacity, Padded
    <3> QED
      BY <3>1 DEF FreeLists
  <2>2. Len(other) = m
    BY <2>1, IsASeq, LenProperties
  <2>3. IsFreeList(other, m)
    BY <2>2 DEF FreeLists
  <2>4. PICK next : next = [p \in FreeBlocks |-> LinkAt(link, p)]
    OBVIOUS
  <2>5. IsChain(list, n, freePtr, next) /\ IsChain(other, m, freePtr, next)
    BY <2>1, <2>3, <2>4 DEF IsFreeList, IsChain
  <2> QED
    BY <1>1, <2>1, <2>5, SameList
<1>3. list \in FreeLists
  BY FreeListIsOne
<1> QED
  BY <1>2, <1>3 DEF FreeList

LEMMA FreeListIsNext ==
  (TypeOK /\ Orderly =>
     \A n \in Nat : \A list \in [1 .. n -> FreeBlocks] :
       IsFreeList(list, n) => FreeList = list)'
BY FreeListIs, PTL

(* allocate() and deallocate() keep every block that is not held on the    *)
(* list, once: none is lost and none can be given out twice.               *)
THEOREM ListIsWhole == Spec => []FreeListIsWhole
<1>1. Inv => FreeListIsWhole
  BY SomeFreeList, FreeListIsOne DEF Inv, FreeListIsWhole
<1> QED
  BY Invariance, <1>1, PTL

(* No link is stored in memory that somebody holds, so objects and the     *)
(* list cannot spoil each other.                                           *)
THEOREM LinksKeptOut == Spec => []LinksOutsideObjects
<1>1. Inv => LinksOutsideObjects
  <2> SUFFICES ASSUME TypeOK, Tidy, Orderly, NEW p \in DOMAIN link, NEW object \in held
               PROVE  ~Overlap(p, Word, object.at, object.size)
    BY DEF Inv, LinksOutsideObjects
  <2>1. p \in Blocks /\ p # object.at
    BY DEF Tidy, LinksInFreeBlocks, FreeBlocks
  <2>2. object.at \in Blocks /\ object.size \in Nat /\ object.size <= stride
    BY DEF Tidy, HeldInBlocks, TypeOK, Objects
  <2>3. ~Overlap(object.at, object.size, p, Word)
    BY <2>1, <2>2, WriteApart
  <2> QED
    BY <2>3 DEF Overlap
<1> QED
  BY Invariance, <1>1, PTL

(* bad_alloc is thrown only when there is no block left or the request is  *)
(* larger than a block.                                                    *)
THEOREM RefusalsJustified == Spec => []NoNeedlessRefusal
<1>1. Inv => NoNeedlessRefusal
  <2> SUFFICES ASSUME TypeOK, LayoutInv, Tidy, Orderly, starved \subseteq {stride},
                      NEW size \in Sizes, Refuses(size)
               PROVE  IF stride = 0 THEN Padded(size) > ArenaSize
                                    ELSE FreeBlocks = {} \/ size > stride
    BY DEF Inv, NoNeedlessRefusal
  <2>1. CASE stride = 0
    <3>1. freePtr = Null
      BY <2>1 DEF TypeOK
    <3>2. starved = {}
      BY <2>1 DEF TypeOK
    <3>3. Capacity(size) = 0
      BY <2>1, <3>1, <3>2 DEF LayoutInv, Refuses
    <3>4. Padded(size) \in Nat \ {0}
      BY DEF Padded
    <3> QED
      BY <2>1, <3>3, <3>4, Quotient DEF Capacity
  <2>2. CASE stride # 0 /\ freePtr = Null
    <3>1. PICK n \in Nat : \E list \in [1 .. n -> FreeBlocks] : IsFreeList(list, n)
      BY DEF Tidy, HasFreeList
    <3>2. PICK list \in [1 .. n -> FreeBlocks] : IsFreeList(list, n)
      BY <3>1
    <3>3. n = 0
      <4>1. n # 0 => 1 \in 1 .. n /\ list[1] \in FreeBlocks /\ freePtr = list[1]
        BY <3>1, <3>2 DEF IsFreeList
      <4>2. \A q \in FreeBlocks : q \in Nat
        BY BlocksApart DEF FreeBlocks
      <4> QED
        BY <2>2, <4>1, <4>2 DEF Null
    <3>4. FreeBlocks = {}
      BY <3>2, <3>3 DEF IsFreeList
    <3> QED
      BY <2>2, <3>4
  <2>3. CASE stride # 0 /\ freePtr # Null
    BY <2>3 DEF Refuses, LayoutInv, TypeOK
  <2> QED
    BY <2>1, <2>2, <2>3
<1> QED
  BY Invariance, <1>1, PTL

-----------------------------------------------------------------------------
(* The manager as a pool. *)

Taken == {object.at : object \in held}

(* The first request cuts the arena up.                                    *)
LEMMA FreshOpens ==
  ASSUME TypeOK, NEW size \in Sizes, NewInFreshArena(size), TypeOK', Orderly'
  PROVE  Pool!Open(size)
<1> DEFINE C == Capacity(size)
<1>1. /\ held = {} /\ stride = 0 /\ C \in Nat \ {0} /\ Padded(size) = size
      /\ Others(size) \in [1 .. C - 1 -> FreeBlocks']
      /\ IsFreeList(Others(size), C - 1)'
  BY FreshTidy
<1>2. FreeList' = Others(size)
  <2>1. C - 1 \in Nat
    BY <1>1
  <2> HIDE DEF C
  <2> QED
    BY <1>1, <2>1, FreeListIsNext
<1>3. C = ArenaSize \div size
  BY <1>1 DEF Capacity
<1>4. size <= ArenaSize
  BY <1>1, <1>3, Quotient
<1>5. stride' = size /\ Taken' = {0}
  BY <1>1 DEF NewInFreshArena, Construct, Taken
<1> QED
  BY <1>1, <1>2, <1>3, <1>4, <1>5 DEF Pool!Open, Others, Taken

(* A request takes the block at the head of the list.                      *)
LEMMA NewTakes ==
  ASSUME TypeOK, LayoutInv, Orderly, Tidy, NEW size \in Sizes, New(size), TypeOK', Orderly'
  PROVE  Pool!Take
<1>1. PICK n \in Nat : \E list \in [1 .. n -> FreeBlocks] : IsFreeList(list, n)
  BY SomeFreeList
<1>2. PICK list \in [1 .. n -> FreeBlocks] : IsFreeList(list, n)
  BY <1>1
<1>3. /\ n # 0 /\ freePtr = list[1]
      /\ Rest(list, n) \in [1 .. n - 1 -> FreeBlocks']
      /\ IsFreeList(Rest(list, n), n - 1)'
  BY <1>2, NewTidy
<1>4. FreeList = list
  BY <1>2, FreeListIs
<1>5. FreeList' = Rest(list, n)
  <2>1. n - 1 \in Nat
    BY <1>3
  <2> QED
    BY <1>3, <2>1, FreeListIsNext
<1>6. list \in Seq(FreeBlocks) /\ Len(list) = n /\ list # <<>>
  <2>1. list \in Seq(FreeBlocks) /\ Len(list) = n
    BY <1>2, IsASeq, LenProperties
  <2> QED
    BY <1>3, <2>1
<1>7. Head(list) = list[1] /\ Tail(list) = Rest(list, n)
  <2>1. /\ Tail(list) \in Seq(FreeBlocks) /\ Len(Tail(list)) = n - 1
        /\ \A i \in 1 .. n - 1 : Tail(list)[i] = list[i + 1]
    BY <1>6, HeadTailProperties
  <2>2. Rest(list, n) \in [1 .. n - 1 -> FreeBlocks] /\ n - 1 \in Nat
    BY <1>2, <1>3 DEF Rest
  <2>3. Rest(list, n) \in Seq(FreeBlocks) /\ Len(Rest(list, n)) = n - 1
    BY <2>2, IsASeq, LenProperties
  <2>4. Tail(list) = Rest(list, n)
    BY <2>1, <2>3, SeqEqual DEF Rest
  <2> QED
    BY <1>6, <2>4
<1>8. UNCHANGED stride /\ Taken' = Taken \cup {freePtr}
  <2> DEFINE p == freePtr
  <2>1. [at |-> p, size |-> size].at = p
    OBVIOUS
  <2>2. UNCHANGED stride /\ held' = held \cup {[at |-> p, size |-> size]}
    BY DEF New, Construct
  <2> HIDE DEF p
  <2>3. Taken' = Taken \cup {p}
    BY <2>1, <2>2 DEF Taken
  <2> QED
    BY <2>2, <2>3 DEF p
<1> QED
  BY <1>3, <1>4, <1>5, <1>6, <1>7, <1>8 DEF Pool!Take, Taken

(* An object that is deleted leaves its block to the next request.         *)
LEMMA DeleteGivesBack ==
  ASSUME TypeOK, Orderly, Tidy, NEW object \in held, Delete(object), TypeOK', Orderly'
  PROVE  object.at \in Taken /\ Pool!GiveBack(object.at)
<1>1. PICK n \in Nat : \E list \in [1 .. n -> FreeBlocks] : IsFreeList(list, n)
  BY SomeFreeList
<1>2. PICK list \in [1 .. n -> FreeBlocks] : IsFreeList(list, n)
  BY <1>1
<1> DEFINE p == object.at
           new == Pushed(p, list, n)
<1>3. new \in [1 .. n + 1 -> FreeBlocks'] /\ IsFreeList(new, n + 1)'
  BY <1>2, DeleteTidy
<1>4. FreeList = list /\ FreeList' = new
  <2>1. FreeList = list
    BY <1>2, FreeListIs
  <2>2. n + 1 \in Nat
    OBVIOUS
  <2> HIDE DEF new
  <2>3. FreeList' = new
    BY <1>3, <2>2, FreeListIsNext
  <2> QED
    BY <2>1, <2>3
<1>5. new = <<p>> \o list
  <2>1. list \in Seq(FreeBlocks) /\ Len(list) = n
    BY <1>2, IsASeq, LenProperties
  <2>2. <<p>> \in Seq({p}) /\ Len(<<p>>) = 1 /\ <<p>>[1] = p
    OBVIOUS
  <2>3. <<p>> \o list = [i \in 1 .. n + 1 |-> IF i <= 1 THEN <<p>>[i] ELSE list[i - 1]]
    BY <2>1, <2>2
  <2>4. \A i \in 1 .. n + 1 : i <= 1 <=> i = 1
    OBVIOUS
  <2> QED
    BY <2>2, <2>3, <2>4 DEF Pushed
<1>6. UNCHANGED stride /\ Taken' = Taken \ {p} /\ p \in Taken
  BY DEF Delete, Taken, Tidy, HeldInBlocks
<1> HIDE DEF new, p
<1> QED
  BY <1>4, <1>5, <1>6 DEF Pool!GiveBack, Taken, p

(* What is left of the steps shows nothing of the pool.                    *)
LEMMA ListStays ==
  ASSUME TypeOK, Orderly, Tidy, TypeOK', Orderly', UNCHANGED <<held, stride>>,
         \/ UNCHANGED <<freePtr, link>>
         \/ \E object \in held : Use(object)
  PROVE  UNCHANGED Pool!vars
<1>1. PICK n \in Nat : \E list \in [1 .. n -> FreeBlocks] : IsFreeList(list, n)
  BY SomeFreeList
<1>2. PICK list \in [1 .. n -> FreeBlocks] : IsFreeList(list, n)
  BY <1>1
<1>3. list \in [1 .. n -> FreeBlocks'] /\ IsFreeList(list, n)'
  <2>1. CASE UNCHANGED <<freePtr, link>>
    BY <1>2, <2>1 DEF FreeBlocks, Blocks, Capacity, IsFreeList, LinkAt
  <2>2. CASE \E object \in held : Use(object)
    BY <1>2, <2>2, UseTidy
  <2> QED
    BY <2>1, <2>2
<1>4. FreeList = list /\ FreeList' = list
  BY <1>2, <1>3, FreeListIs, FreeListIsNext
<1> QED
  BY <1>4 DEF Pool!vars

LEMMA ClearClears ==
  ASSUME Clear, TypeOK', Orderly'
  PROVE  Pool!Clear
<1>1. (stride = 0 /\ freePtr = Null /\ held = {})'
  BY DEF Clear
<1>2. FreeBlocks' = {}
  BY <1>1 DEF FreeBlocks, Blocks
<1>3. <<>> \in [1 .. 0 -> FreeBlocks'] /\ IsFreeList(<<>>, 0)'
  BY <1>1, <1>2 DEF IsFreeList
<1>4. FreeList' = <<>>
  BY <1>3, FreeListIsNext
<1> QED
  BY <1>1, <1>4 DEF Pool!Clear

LEMMA PoolStep ==
  Inv /\ Inv' /\ [Next]_vars => [Orderly' => Pool!Next \/ UNCHANGED Pool!vars]_vars
<1> SUFFICES ASSUME Inv, Inv', Next, Orderly'
             PROVE  Pool!Next \/ UNCHANGED Pool!vars
  OBVIOUS
<1>0. TypeOK /\ LayoutInv /\ TypeOK' /\ (Orderly => Tidy)
  BY DEF Inv
<1>1. ASSUME NEW size \in Sizes, NewInFreshArena(size) PROVE Pool!Next
  BY <1>0, <1>1, FreshOpens DEF Pool!Next
<1>2. ASSUME NEW size \in Sizes, New(size) PROVE Pool!Next
  <2>1. Orderly
    BY <1>2 DEF New, Orderly
  <2> QED
    BY <1>0, <1>2, <2>1, NewTakes DEF Pool!Next
<1>3. ASSUME NEW size \in Sizes, RefusedWhenEmpty(size) PROVE UNCHANGED Pool!vars
  <2>1. Orderly
    BY <1>3 DEF RefusedWhenEmpty, Orderly
  <2> QED
    BY <1>0, <1>3, <2>1, ListStays DEF RefusedWhenEmpty
<1>4. ASSUME NEW object \in held, Delete(object) PROVE Pool!Next
  <2>1. Orderly
    BY <1>4 DEF Delete, Orderly
  <2> QED
    BY <1>0, <1>4, <2>1, DeleteGivesBack DEF Pool!Next, Taken
<1>5. ASSUME NEW object \in held, Use(object) PROVE UNCHANGED Pool!vars
  <2>1. Orderly /\ UNCHANGED <<held, stride>>
    BY <1>5 DEF Use, Orderly
  <2> QED
    BY <1>0, <1>5, <2>1, ListStays
<1>6. CASE Clear
  BY <1>0, <1>6, ClearClears DEF Pool!Next
<1> QED
  BY <1>1, <1>2, <1>3, <1>4, <1>5, <1>6 DEF Next

(* In orderly use the manager is a pool of blocks, for any arena and sizes: *)
(* the links it keeps inside the blocks are the pool's list.               *)
THEOREM ManagerIsPool == Spec => ImplementsPool
<1>1. Init => Pool!Init
  <2> SUFFICES ASSUME Init PROVE Pool!Init
    OBVIOUS
  <2>1. TypeOK /\ Orderly /\ FreeBlocks = {}
    BY InitInv DEF Init, Inv, Orderly, FreeBlocks, Blocks
  <2>2. <<>> \in [1 .. 0 -> FreeBlocks] /\ IsFreeList(<<>>, 0)
    BY <2>1 DEF Init, IsFreeList
  <2>3. FreeList = <<>>
    BY <2>1, <2>2, FreeListIs
  <2> QED
    BY <2>3 DEF Init, Pool!Init
<1> QED
  BY <1>1, PoolStep, Invariance, PTL DEF Spec, ImplementsPool

(* So a program that only uses it orderly has a pool.                      *)
THEOREM OrderlyUseIsPool == Spec /\ []Orderly => Pool!Spec
<1>1. ASSUME UNCHANGED vars PROVE UNCHANGED Pool!vars
  <2>1. FreeBlocks' = FreeBlocks /\ Capacity(stride)' = Capacity(stride)
    BY <1>1 DEF vars, FreeBlocks, Blocks, Capacity
  <2>2. \A list, n : IsFreeList(list, n)' <=> IsFreeList(list, n)
    BY <1>1, <2>1 DEF vars, IsFreeList, LinkAt
  <2>3. FreeLists' = FreeLists
    BY <1>1, <2>1, <2>2 DEF vars, FreeLists
  <2>4. Orderly' <=> Orderly
    BY <1>1 DEF vars, Orderly
  <2>5. FreeList' = FreeList
    BY <2>3, <2>4 DEF FreeList
  <2> QED
    BY <1>1, <2>5 DEF vars, Pool!vars
<1>2. Orderly' /\ [Orderly' => Pool!Next \/ UNCHANGED Pool!vars]_vars
        => [Pool!Next]_(Pool!vars)
  BY <1>1
<1> QED
  BY <1>2, ManagerIsPool, PTL DEF ImplementsPool, Pool!Spec
=============================================================================
