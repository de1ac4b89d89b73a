------------------------- MODULE MCHierarchicalMutex -------------------------
(***************************************************************************)
(* The three mutexes of the program with their order of levels, and a      *)
(* fourth with the level of the middle one.                                *)
(***************************************************************************)
EXTENDS HierarchicalMutex, TLC

CONSTANTS high_level_mutex, low_level_mutex, same_level_mutex, other_mutex

MCMutexes ==
  {high_level_mutex, low_level_mutex, same_level_mutex, other_mutex}

MCLevels ==
  [m \in MCMutexes |->
    CASE m = high_level_mutex -> 3
      [] m \in {low_level_mutex, same_level_mutex} -> 2
      [] m = other_mutex -> 1]

Symmetry == Permutations(Threads)
=============================================================================
