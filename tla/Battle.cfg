SPECIFICATION FairSpec
CONSTANTS
  MonsterCount = 4
  Kinds <- MCKinds
  Chasers = {"phantom"}
  HeroKind = "hero"
  Attack <- MCAttack
  Damage <- MCDamage
  Defense <- MCDefense
  Health <- MCHealth
  Movement <- MCMovement
INVARIANTS
  TypeOK
  PhantomFindsFoe
  StrikerIsAlive
  FactionIsTheLiving
  VictoryIsReal
  HeroFightsTheWeakest
PROPERTIES
  OnlyMissesDelay
  BattleEnds
