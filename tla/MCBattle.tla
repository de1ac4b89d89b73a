------------------------------ MODULE MCBattle ------------------------------
(***************************************************************************)
(* Battle with two monster types: a phantom, which attacks, and a golem,   *)
(* which does not and whose attack of 1 can never hit.                     *)
(***************************************************************************)
EXTENDS Battle

MCKinds == {"phantom", "golem"}

Stats(hero, phantom, golem) ==
  [k \in MCKinds \cup {"hero"} |->
    CASE k = "hero" -> hero [] k = "phantom" -> phantom [] k = "golem" -> golem]

MCAttack   == Stats(3, 3, 1)
MCDamage   == Stats(2, 2, 1)
MCDefense  == Stats(2, 2, 3)
MCHealth   == Stats(4, 2, 3)
MCMovement == Stats(1, 3, 1)
=============================================================================
