---------------------------- MODULE BlockManager ----------------------------
(***************************************************************************)
(* fixed_block_memory_manager over a fixed_arena_controller                *)
(* (antelope/block_mgr.h, block_mgr.inl), as operator new and delete of a  *)
(* class use it.  Addresses are offsets into the arena.                    *)
(***************************************************************************)
EXTENDS Integers, Sequences

CONSTANTS
  ArenaSize,  \* bytes in the arena
  Word,       \* sizeof(void*)
  Sizes       \* the sizes that are asked for

ASSUME BlockAssumption ==
  /\ ArenaSize \in Nat
  /\ Word \in Nat \ {0}
  /\ Sizes \subseteq Nat \ {0}

VARIABLES
  freePtr,        \* free_ptr_
  blockSize,      \* block_size_ of the manager
  arenaBlockSize, \* block_size_ of the controller, 0 if the arena is not in use
  link,           \* the links that are whole, by the address they are stored at
  held,           \* the objects that were given out and not taken back
  stride,         \* history: the distance at which the blocks were laid out
  starved         \* history: the sizes refused with an empty list

vars == <<freePtr, blockSize, arenaBlockSize, link, held, stride, starved>>

Null == -1   \* nullptr
Wild == -2   \* what is read where a link was overwritten

Overlap(p, n, q, m) == p < q + m /\ q < p + n

(* The links that survive a write of n bytes at p.                         *)
Overwritten(p, n) ==
  [q \in {q \in DOMAIN link : ~Overlap(p, n, q, Word)} |-> link[q]]

Objects == [at : Nat, size : Sizes]

Init ==
  /\ freePtr = Null
  /\ blockSize = 0
  /\ arenaBlockSize = 0
  /\ link = <<>>
  /\ held = {}
  /\ stride = 0
  /\ starved = {}

-----------------------------------------------------------------------------
(* What fixed_arena_controller::allocate(size) makes of block_size_, and    *)
(* the number of blocks that fit.                                          *)
Padded(size) == IF size > Word THEN size ELSE Word
Capacity(size) == ArenaSize \div Padded(size)

(* A mutant: the last link is not set to null.                             *)
LaidOutOpen(size) ==
  LET blocks == {k * size : k \in 0 .. Capacity(size) - 1}
  IN  [p \in {p \in blocks : size >= Word} |-> p + size]

(* The loop that links the blocks: it goes in steps of size, and a link    *)
(* wider than that is spoilt by the next one.                              *)
LaidOut(size) ==
  LET last == (Capacity(size) - 1) * size
      blocks == {k * size : k \in 0 .. Capacity(size) - 1}
  IN  [p \in {p \in blocks : p = last \/ size >= Word} |->
         IF p = last THEN Null ELSE p + size]

LinkAt(links, p) == IF p \in DOMAIN links THEN links[p] ELSE Wild

(* A mutant: the size is not compared with that of the blocks.             *)
RefusesWhenEmptyOnly(size) ==
  /\ freePtr = Null
  /\ arenaBlockSize # 0 \/ Capacity(size) = 0

(* allocate() has to throw bad_alloc.                                      *)
Refuses(size) ==
  IF freePtr = Null
    THEN arenaBlockSize # 0 \/ Capacity(size) = 0
    ELSE size > blockSize

(* The object at p is constructed as soon as allocate() returns.           *)
Construct(p, size) == held' = held \cup {[at |-> p, size |-> size]}

(* The first request lays the arena out and gets its first block.          *)
NewInFreshArena(size) ==
  /\ freePtr = Null
  /\ ~Refuses(size)
  /\ arenaBlockSize' = Padded(size)
  /\ blockSize' = size
  /\ stride' = size
  /\ freePtr' = LinkAt(LaidOut(size), 0)
  /\ link' = [q \in {q \in DOMAIN LaidOut(size) : ~Overlap(0, size, q, Word)}
                |-> LaidOut(size)[q]]
  /\ Construct(0, size)
  /\ UNCHANGED starved

(* A mutant: the head stays in the list.                                   *)
NewKeepsHead(size) ==
  /\ freePtr \notin {Null, Wild}
  /\ ~Refuses(size)
  /\ link' = Overwritten(freePtr, size)
  /\ Construct(freePtr, size)
  /\ UNCHANGED <<freePtr, blockSize, arenaBlockSize, stride, starved>>

(* Any other request takes the head of the list; without one of its own    *)
(* link to follow the program is lost.                                     *)
New(size) ==
  /\ freePtr \notin {Null, Wild}
  /\ ~Refuses(size)
  /\ freePtr' = LinkAt(link, freePtr)
  /\ link' = Overwritten(freePtr, size)
  /\ Construct(freePtr, size)
  /\ UNCHANGED <<blockSize, arenaBlockSize, stride, starved>>

(* bad_alloc with an empty list: block_size_ has become that of the        *)
(* request, in the controller too if the arena was not in use.             *)
RefusedWhenEmpty(size) ==
  /\ freePtr = Null
  /\ Refuses(size)
  /\ blockSize' = size
  /\ arenaBlockSize' = IF arenaBlockSize = 0 THEN Padded(size) ELSE arenaBlockSize
  /\ starved' = starved \cup {size}
  /\ UNCHANGED <<freePtr, link, held, stride>>

(* operator delete of an object that is held.                              *)
Delete(object) ==
  /\ link' = [q \in DOMAIN Overwritten(object.at, Word) \cup {object.at} |->
                IF q = object.at THEN freePtr ELSE link[q]]
  /\ freePtr' = object.at
  /\ held' = held \ {object}
  /\ UNCHANGED <<blockSize, arenaBlockSize, stride, starved>>

(* An object writes to its own bytes.                                      *)
Use(object) ==
  /\ link' = Overwritten(object.at, object.size)
  /\ UNCHANGED <<freePtr, blockSize, arenaBlockSize, held, stride, starved>>

(* A mutant: the list is kept.                                             *)
ClearKeepsList ==
  /\ arenaBlockSize' = 0
  /\ held' = {}
  /\ stride' = 0
  /\ starved' = {}
  /\ UNCHANGED <<freePtr, link, blockSize>>

(* A mutant: the arena is not given back.                                  *)
ClearKeepsArena ==
  /\ freePtr' = Null
  /\ held' = {}
  /\ stride' = 0
  /\ starved' = {}
  /\ link' = <<>>
  /\ UNCHANGED <<blockSize, arenaBlockSize>>

(* clear(), by a program that does not use its objects any more: no link   *)
(* is followed again.                                                      *)
Clear ==
  /\ freePtr' = Null
  /\ arenaBlockSize' = 0
  /\ held' = {}
  /\ stride' = 0
  /\ starved' = {}
  /\ link' = <<>>
  /\ UNCHANGED blockSize

Next ==
  \/ \E size \in Sizes : NewInFreshArena(size) \/ New(size) \/ RefusedWhenEmpty(size)
  \/ \E object \in held : Delete(object) \/ Use(object)
  \/ Clear

Spec == Init /\ [][Next]_vars

-----------------------------------------------------------------------------
(* Types; a list and objects exist only in an arena that is laid out, and  *)
(* the controller's block_size_ is that of the layout.                     *)
TypeOK ==
  /\ freePtr \in Nat \cup {Null, Wild}
  /\ blockSize \in Sizes \cup {0}
  /\ arenaBlockSize \in Nat
  /\ DOMAIN link \subseteq Nat
  /\ \A p \in DOMAIN link : link[p] \in Nat \cup {Null, Wild}
  /\ held \subseteq Objects
  /\ stride \in Sizes \cup {0}
  /\ starved \subseteq Sizes
  /\ stride = 0 => freePtr = Null /\ held = {}
  /\ stride # 0 => arenaBlockSize = Padded(stride) /\ Capacity(stride) # 0

(* The blocks of the arena, and those of them that no object is in.        *)
Blocks == IF stride = 0 THEN {} ELSE {k * stride : k \in 0 .. Capacity(stride) - 1}
FreeBlocks == Blocks \ {object.at : object \in held}

(* The use the manager is made for: blocks that can hold a link, and no    *)
(* request for more than a block when the list is empty, which allocate()  *)
(* has nothing to compare with.                                            *)
Orderly ==
  /\ stride = 0 \/ stride >= Word
  /\ stride # 0 => \A size \in starved : size <= stride

(* No two objects that are held share a byte and none reaches out of the   *)
(* arena (allocate(), lines 23-27, against the layout of lines 61-72).     *)
ObjectsDoNotOverlap ==
  Orderly =>
    \A object \in held :
      /\ object.at + object.size <= ArenaSize
      /\ \A other \in held \ {object} :
           ~Overlap(object.at, object.size, other.at, other.size)

(* The list that starts at free_ptr_ is list: it visits every block that is *)
(* not held, once, and ends.                                               *)
IsFreeList(list, n) ==
  /\ \A i, j \in 1 .. n : i # j => list[i] # list[j]
  /\ \A p \in FreeBlocks : \E i \in 1 .. n : list[i] = p
  /\ freePtr = IF n = 0 THEN Null ELSE list[1]
  /\ \A i \in 1 .. n : LinkAt(link, list[i]) = IF i = n THEN Null ELSE list[i + 1]

FreeLists ==
  {list \in UNION {[1 .. n -> FreeBlocks] :
                     n \in 0 .. (IF stride = 0 THEN 0 ELSE Capacity(stride))} :
     IsFreeList(list, Len(list))}

(* allocate() and deallocate() lose no block and give none out twice: the  *)
(* links that start at free_ptr_ are always a list of the free blocks.     *)
FreeListIsWhole == Orderly => FreeLists # {}

(* The list that the links make, of which there is only one.               *)
FreeList ==
  IF Orderly /\ FreeLists # {} THEN CHOOSE list \in FreeLists : TRUE ELSE <<>>

Pool ==
  INSTANCE BlockPool
  WITH size <- stride, free <- FreeList, taken <- {object.at : object \in held}

(* In orderly use the manager is a pool of blocks, with all it knows of    *)
(* them kept inside the blocks: allocate() takes the first of the list and *)
(* deallocate() puts there what it is given (block_mgr.inl:16-40).          *)
ImplementsPool ==
  Pool!Init /\ [][Orderly' => Pool!Next \/ UNCHANGED Pool!vars]_vars

(* deallocate() writes no link into an object that somebody else holds,    *)
(* and no object writes over a link.                                       *)
LinksOutsideObjects ==
  Orderly =>
    \A p \in DOMAIN link : \A object \in held :
      ~Overlap(p, Word, object.at, object.size)

(* bad_alloc (line 24 and, with an empty list, line 21) means that every   *)
(* block is taken or that the request is larger than a block, unless       *)
(* requests of different sizes have met an empty list.                     *)
NoNeedlessRefusal ==
  Orderly /\ starved \subseteq {stride} =>
    \A size \in Sizes : Refuses(size) =>
      IF stride = 0 THEN Padded(size) > ArenaSize
                    ELSE FreeBlocks = {} \/ size > stride
=============================================================================
