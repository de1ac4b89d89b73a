SPECIFICATION Spec
CONSTANTS
  MonsterCount = 2
  Kinds <- MCKinds
  Chasers = {"phantom"}
  HeroKind = "hero"
  Attack <- MCAttack
  Damage <- MCDamage
  Defense <- MCDefense
  Health <- MCHealth
  Movement <- MCMovement
INVARIANT MonstersFightHero
