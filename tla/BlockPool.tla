------------------------------ MODULE BlockPool ------------------------------
(***************************************************************************)
(* What a pool of blocks promises: the arena is cut into blocks of the     *)
(* first size that is asked for; a block is free or taken; the free ones   *)
(* are given out from the lowest address up, but those that came back      *)
(* first, the last of them before the others.                              *)
(***************************************************************************)
EXTENDS Naturals, Sequences

CONSTANTS
  ArenaSize,
  Sizes

VARIABLES
  size,    (* of a block, 0 when the arena is not cut up                     *)
  free,    (* the free blocks, the next one to be given out first            *)
  taken    (* the blocks that are given out                                  *)

vars == <<size, free, taken>>

Init == size = 0 /\ free = <<>> /\ taken = {}

(* The first request cuts the arena up, and gets the first block.          *)
Open(n) ==
  /\ size = 0
  /\ n <= ArenaSize
  /\ size' = n
  /\ free' = [i \in 1 .. (ArenaSize \div n) - 1 |-> i * n]
  /\ taken' = {0}

Take ==
  /\ free # <<>>
  /\ free' = Tail(free)
  /\ taken' = taken \cup {Head(free)}
  /\ UNCHANGED size

GiveBack(block) ==
  /\ free' = <<block>> \o free
  /\ taken' = taken \ {block}
  /\ UNCHANGED size

(* The arena and all its blocks are dropped.                               *)
Clear == size' = 0 /\ free' = <<>> /\ taken' = {}

Next ==
  \/ \E n \in Sizes : Open(n)
  \/ Take
  \/ \E block \in taken : GiveBack(block)
  \/ Clear

Spec == Init /\ [][Next]_vars
=============================================================================
