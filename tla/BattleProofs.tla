----------------------------- MODULE BattleProofs -----------------------------
(***************************************************************************)
(* Proofs about Battle, for every number of monsters and all their stats.  *)
(***************************************************************************)
EXTENDS Battle, SequenceTheorems, FunctionTheorems, FiniteSetTheorems, TLAPS

USE BattleAssumption

(* The monsters are numbers, and the hero is not one of them. *)
LEMMA ActorFacts ==
  /\ Hero \in Actors /\ Hero \notin Monsters /\ Monsters \subseteq Actors
  /\ NoActor \notin Actors /\ Actors \subseteq Int
  /\ MonsterCount \in Nat /\ MonsterCount >= 1
  BY DEF Hero, Monsters, Actors, NoActor

(* A faction is a sequence of monsters, each of them once. *)
LEMMA FactionIsSeq ==
  ASSUME NEW s \in Factions
  PROVE  /\ s \in Seq(Monsters) /\ Len(s) \in Nat
         /\ Members(s) \subseteq Monsters
         /\ \A i, j \in 1..Len(s) : s[i] = s[j] => i = j
  <1>1. PICK n \in 0..MonsterCount : s \in [1..n -> Monsters]
    BY DEF Factions
  <1>2. s \in Seq(Monsters) /\ Len(s) = n
    BY <1>1, IsASeq, LenProperties
  <1>3. \A i \in 1..Len(s) : s[i] \in Monsters
    BY <1>1, <1>2
  <1>4. \A i, j \in 1..Len(s) : i < j => s[i] < s[j]
    BY DEF Factions
  <1> QED
    BY <1>2, <1>3, <1>4 DEF Members, Monsters

LEMMA CreatedIsFaction == Created \in Factions /\ Members(Created) = Monsters
  <1>1. Created \in [1..MonsterCount -> Monsters]
    BY DEF Created, Monsters
  <1>2. Len(Created) = MonsterCount
    BY <1>1, IsASeq, LenProperties, ActorFacts
  <1>3. \A i, j \in 1..Len(Created) : i < j => Created[i] < Created[j]
    BY <1>2 DEF Created, Monsters
  <1>4. Created \in Factions
    BY <1>1, <1>3, ActorFacts DEF Factions
  <1>5. Members(Created) = Monsters
    BY <1>2 DEF Members, Created, Monsters
  <1> QED
    BY <1>4, <1>5

(* The length of a faction is the number of its members. *)
LEMMA FactionSize ==
  ASSUME NEW s \in Factions
  PROVE  IsFiniteSet(Members(s)) /\ Cardinality(Members(s)) = Len(s)
  <1> DEFINE T == 1..Len(s)
             f == [i \in T |-> s[i]]
  <1>1. f \in Bijection(T, Members(s))
    BY FactionIsSeq, Fun_IsBij DEF Members
  <1>2. IsFiniteSet(T) /\ Cardinality(T) = Len(s)
    <2>1. Len(s) \in Nat
      BY FactionIsSeq
    <2>2. /\ IsFiniteSet(1..Len(s))
          /\ Cardinality(1..Len(s)) = IF 1 > Len(s) THEN 0 ELSE Len(s) - 1 + 1
      BY <2>1, FS_Interval
    <2> QED
      BY <2>1, <2>2
  <1> QED
    BY <1>1, <1>2, FS_Bijection DEF ExistsBijection

(* A faction that loses a member gets shorter. *)
LEMMA SmallerFaction ==
  ASSUME NEW s \in Factions, NEW t \in Factions,
         Members(t) \subseteq Members(s), Members(t) # Members(s)
  PROVE  Len(t) < Len(s)
  <1>1. Cardinality(Members(t)) < Cardinality(Members(s))
    BY FactionSize, FS_Subset
  <1> QED
    BY <1>1, FactionSize
-----------------------------------------------------------------------------
(* Type correctness. *)

LEMMA KindFacts ==
  ASSUME SetupOK, NEW a \in Actors
  PROVE  /\ KindOf(a) \in AllKinds
         /\ Movement[KindOf(a)] \in Nat
         /\ Health[KindOf(a)] \in Nat \ {0}
         /\ Damage[KindOf(a)] \in Nat \ {0}
  BY DEF SetupOK, KindOf, AllKinds, Actors

LEMMA InitTypes == Init => TypeOK
  <1> SUFFICES ASSUME Init PROVE TypeOK
    OBVIOUS
  <1>1. SetupOK
    BY DEF Init, SetupOK, Orders
  <1>2. health \in [Actors -> Nat]
    BY <1>1, KindFacts DEF Init
  <1>3. location \in [Actors -> Int]
    BY DEF Init
  <1>4. TurnOK
    BY CreatedIsFaction, ActorFacts DEF Init, TurnOK
  <1>5. FightOK
    BY ActorFacts DEF Init, FightOK
  <1> QED
    BY <1>1, <1>2, <1>3, <1>4, <1>5 DEF Init, TypeOK, ActorsOK

(* A place of the closest distance is a number. *)
LEMMA ClosestIsInt ==
  ASSUME NEW p \in Int, NEW q \in Int, NEW m \in Nat
  PROVE  Closest(p, q, m) \in Int
  BY DEF Closest

(* A chase leaves the actors, the iterator and the fight well typed, and   *)
(* either is over or has found its foe.                                    *)
LEMMA ChaseTypes ==
  ASSUME TypeOK, NEW a \in Actors, NEW f \in Actors,
         NEW fs \in Seq(Actors), NEW i \in 0..Len(fs),
         cursor <= MonsterCount, Chase(a, f, fs, i)
  PROVE  /\ location' \in [Actors -> Int]
         /\ index' \in 0..Len(fs)
         /\ cursor' \in 0..(MonsterCount + 1)
         /\ FightOK'
         /\ pc' \in {"actors", "fight"}
         /\ pc' = "fight" => /\ f \in Members(fs) /\ UNCHANGED cursor
                             /\ self' = a /\ foe' = f /\ retaliates' = FALSE
         /\ pc' = "actors" => cursor' = cursor + 1
  <1> DEFINE c == Closest(location[a], location[f], Movement[KindOf(a)])
  <1>1. /\ location \in [Actors -> Int] /\ FightOK /\ Len(fs) \in Nat
        /\ cursor \in 0..(MonsterCount + 1)
    BY DEF TypeOK, ActorsOK, TurnOK
  <1>2. c \in Int
    BY <1>1, ClosestIsInt, KindFacts DEF TypeOK
  <1>3. location' = [location EXCEPT ![a] = @ + c]
    BY DEF Chase
  <1>a. location' \in [Actors -> Int]
    <2>1. location[a] \in Int /\ location[a] + c \in Int
      BY <1>1, <1>2
    <2> QED
      BY <1>1, <1>3, <2>1
  <1>b. ASSUME Advance, UNCHANGED fight
        PROVE  /\ cursor' \in 0..(MonsterCount + 1) /\ cursor' = cursor + 1
               /\ FightOK' /\ pc' = "actors"
    <2>1. cursor' = cursor + 1 /\ pc' = "actors"
      BY <1>b DEF Advance
    <2>2. FightOK'
      BY <1>1, <1>b DEF FightOK, fight
    <2> QED
      BY <1>1, <2>1, <2>2, ActorFacts
  <1> HIDE DEF c
  <1>4. CASE AttackFoe(a, f, fs) /\ f \in Members(fs)
    <2>1. index' \in 1..Len(fs) /\ pc' = "fight" /\ self' = a /\ foe' = f
          /\ retaliates' = FALSE /\ UNCHANGED cursor
      BY <1>4 DEF AttackFoe
    <2>2. index' \in 0..Len(fs)
      BY <1>1, <2>1
    <2>3. FightOK'
      BY <2>1 DEF FightOK
    <2>4. cursor' \in 0..(MonsterCount + 1)
      BY <1>1, <2>1
    <2> QED
      BY <1>a, <1>4, <2>1, <2>2, <2>3, <2>4
  <1>5. CASE AttackFoe(a, f, fs) /\ f \notin Members(fs)
    BY <1>1, <1>a, <1>b, <1>5 DEF AttackFoe
  <1>6. CASE index' = i /\ Advance /\ UNCHANGED fight
    BY <1>a, <1>b, <1>6
  <1> QED
    BY <1>4, <1>5, <1>6 DEF Chase
LEMMA StrikeTypes ==
  ASSUME TypeOK, Hit \/ Miss
  PROVE  /\ health' \in [Actors -> Nat]
         /\ Striker \in Actors /\ Target \in Actors
         /\ AfterStrike /\ FightOK'
         /\ UNCHANGED <<setup, location, enemyFaction, turn>>
         /\ pc = "fight" /\ pc' \in {"fight", "actors"}
         /\ cursor' \in 0..(MonsterCount + 1)
         /\ pc' = "fight" => UNCHANGED cursor
  <1>1. /\ health \in [Actors -> Nat] /\ FightOK
        /\ cursor \in 0..MonsterCount /\ pc = "fight"
    BY ActorFacts DEF TypeOK, ActorsOK, TurnOK, Hit, Miss
  <1>2. Striker \in Actors /\ Target \in Actors
    BY <1>1 DEF Striker, Target, FightOK
  <1>3. health' \in [Actors -> Nat]
    <2>1. CASE Hit
      <3>1. PICK damage \in 1..Damage[KindOf(Striker)] :
              health' = [health EXCEPT ![Target] = IF @ < damage THEN 0 ELSE @ - damage]
        BY <2>1 DEF Hit
      <3>2. damage \in Nat
        BY <1>2, KindFacts DEF TypeOK
      <3>3. (IF health[Target] < damage THEN 0 ELSE health[Target] - damage) \in Nat
        BY <1>1, <1>2, <3>2
      <3> QED
        BY <1>1, <3>1, <3>3
    <2>2. CASE Miss
      BY <1>1, <2>2 DEF Miss
    <2> QED
      BY <2>1, <2>2
  <1>4. AfterStrike /\ UNCHANGED <<setup, location, enemyFaction, turn>>
    BY DEF Hit, Miss
  <1>5. CASE health'[Target] = 0
    <2>1. cursor' = cursor + 1 /\ pc' = "actors" /\ UNCHANGED fight
      BY <1>4, <1>5 DEF AfterStrike, Advance
    <2>2. FightOK'
      BY <1>1, <2>1 DEF FightOK, fight
    <2> QED
      BY <1>1, <1>2, <1>3, <1>4, <2>1, <2>2, ActorFacts
  <1>6. CASE health'[Target] # 0
    <2>1. retaliates' = ~retaliates /\ UNCHANGED <<pc, cursor, self, foe>>
      BY <1>4, <1>6 DEF AfterStrike
    <2>2. FightOK'
      BY <1>1, <2>1, Zenon DEF FightOK
    <2> QED
      BY <1>1, <1>2, <1>3, <1>4, <2>1, <2>2, ActorFacts
  <1> QED
    BY <1>5, <1>6

(* The arguments of the hero's chase: a weakest enemy. *)
LEMMA HeroChases ==
  ASSUME TypeOK, HeroPlays, enemyFaction # <<>>
  PROVE  \E i \in 1..Len(enemyFaction) :
           /\ IsWeakest(i, enemyFaction)
           /\ enemyFaction[i] \in Monsters
           /\ enemyFaction[i] \in Members(enemyFaction)
           /\ Chase(Hero, enemyFaction[i], enemyFaction, Len(enemyFaction))
  BY FactionIsSeq DEF HeroPlays, Members, TypeOK, TurnOK

LEMMA HeroPlaysTypes == TypeOK /\ HeroPlays => TypeOK'
  <1> SUFFICES ASSUME TypeOK, HeroPlays PROVE TypeOK'
    OBVIOUS
  <1>1. /\ enemyFaction \in Factions /\ enemyFaction \in Seq(Monsters)
        /\ enemyFaction \in Seq(Actors) /\ Len(enemyFaction) \in Nat
    <2>1. enemyFaction \in Factions
      BY DEF TypeOK, TurnOK
    <2>2. enemyFaction \in Seq(Monsters) /\ Len(enemyFaction) \in Nat
      BY <2>1, FactionIsSeq
    <2> QED
      BY <2>1, <2>2, ActorFacts, SeqMonotonic
  <1>2. /\ pc = "turn" /\ cursor <= MonsterCount /\ cursor \in 0..MonsterCount
        /\ foes' = enemyFaction /\ UNCHANGED <<setup, health, enemyFaction>>
    BY ActorFacts DEF HeroPlays, TypeOK, TurnOK
  <1>3. SetupOK' /\ health' \in [Actors -> Nat]
    BY <1>2 DEF TypeOK, SetupOK, ActorsOK, setup
  <1>4. CASE enemyFaction = <<>>
    <2>1. index' = 0 /\ Advance /\ UNCHANGED <<location, fight>>
      BY <1>4 DEF HeroPlays
    <2>2. cursor' \in 0..(MonsterCount + 1) /\ pc' = "actors"
      BY <1>2, <2>1, ActorFacts DEF Advance
    <2>3. FightOK' /\ location' \in [Actors -> Int]
      BY <2>1 DEF TypeOK, FightOK, ActorsOK, fight
    <2> QED
      BY <1>1, <1>2, <1>3, <2>1, <2>2, <2>3 DEF TypeOK, ActorsOK, TurnOK
  <1>5. CASE enemyFaction # <<>>
    <2>1. PICK i \in 1..Len(enemyFaction) :
            /\ enemyFaction[i] \in Monsters
            /\ Chase(Hero, enemyFaction[i], enemyFaction, Len(enemyFaction))
      BY <1>5, HeroChases
    <2>2. /\ location' \in [Actors -> Int] /\ FightOK'
          /\ index' \in 0..Len(enemyFaction)
          /\ cursor' \in 0..(MonsterCount + 1) /\ pc' \in {"actors", "fight"}
          /\ pc' = "fight" => UNCHANGED cursor
      <3>1. Len(enemyFaction) \in 0..Len(enemyFaction) /\ enemyFaction[i] \in Actors
        BY <1>1, <2>1, ActorFacts
      <3> QED
        BY <1>1, <1>2, <2>1, <3>1, ChaseTypes, ActorFacts
    <2> QED
      BY <1>1, <1>2, <1>3, <2>2 DEF TypeOK, ActorsOK, TurnOK
  <1> QED
    BY <1>4, <1>5

(* The monster that plays: it does nothing, or chases the foe it finds.    *)
LEMMA MonsterFindsFoe ==
  ASSUME TypeOK, MonsterPlays
  PROVE  /\ pc = "actors" /\ cursor \in Monsters
         /\ order[cursor] \in Monsters /\ health[order[cursor]] > 0
         /\ foes' \in Seq(Actors) /\ Len(foes') = Len(foes) + 1
         /\ UNCHANGED <<setup, health, enemyFaction>>
         /\ \/ Advance /\ UNCHANGED <<location, index, fight>>
            \/ /\ NextFoe(foes', index) \in Actors
               /\ Chase(order[cursor], NextFoe(foes', index), foes', index + 1)
  <1>1. /\ foes \in Seq(Actors) /\ Len(foes) \in Nat /\ index \in 0..Len(foes)
        /\ health \in [Actors -> Nat] /\ order \in [Monsters -> Monsters]
    BY DEF TypeOK, TurnOK, ActorsOK, SetupOK
  <1>2. /\ pc = "actors" /\ cursor \in Monsters /\ foes' = Append(foes, Hero)
        /\ ~IsDead(order[cursor]) /\ UNCHANGED <<setup, health, enemyFaction>>
    BY DEF MonsterPlays
  <1>3. order[cursor] \in Monsters /\ health[order[cursor]] > 0
    <2>1. order[cursor] \in Monsters
      BY <1>1, <1>2
    <2>2. health[order[cursor]] \in Nat
      BY <1>1, <2>1, ActorFacts
    <2> QED
      BY <1>2, <2>1, <2>2 DEF IsDead
  <1>4. foes' \in Seq(Actors) /\ Len(foes') = Len(foes) + 1
    BY <1>1, <1>2, ActorFacts
  <1>5. NextFoe(foes', index) \in Actors /\ NextFoe(foes', index) # NoActor
    <2>1. index + 1 \in 1..Len(foes') /\ ~(index >= Len(foes'))
      BY <1>1, <1>4
    <2>2. foes'[index + 1] \in Actors
      BY <1>4, <2>1
    <2> QED
      BY <2>1, <2>2, ActorFacts DEF NextFoe
  <1>6. \/ Advance /\ UNCHANGED <<location, index, fight>>
        \/ Chase(order[cursor], NextFoe(foes', index), foes', index + 1)
    BY <1>5 DEF MonsterPlays
  <1> QED
    BY <1>2, <1>3, <1>4, <1>5, <1>6
LEMMA MonsterPlaysTypes == TypeOK /\ MonsterPlays => TypeOK'
  <1> SUFFICES ASSUME TypeOK, MonsterPlays PROVE TypeOK'
    OBVIOUS
  <1>1. /\ pc = "actors" /\ cursor \in 1..MonsterCount
        /\ order[cursor] \in Actors
        /\ foes' \in Seq(Actors) /\ Len(foes') = Len(foes) + 1
        /\ UNCHANGED <<setup, health, enemyFaction>>
    BY MonsterFindsFoe, ActorFacts DEF Monsters
  <1>2. /\ SetupOK' /\ health' \in [Actors -> Nat] /\ enemyFaction' \in Factions
        /\ index \in 0..Len(foes) /\ Len(foes) \in Nat
    BY <1>1 DEF TypeOK, SetupOK, ActorsOK, TurnOK, setup
  <1>3. CASE Advance /\ UNCHANGED <<location, index, fight>>
    <2>1. cursor' \in 0..(MonsterCount + 1) /\ pc' = "actors"
      BY <1>1, <1>3, ActorFacts DEF Advance
    <2>2. index' \in 0..Len(foes')
      BY <1>1, <1>2, <1>3
    <2>3. FightOK' /\ location' \in [Actors -> Int]
      BY <1>3 DEF TypeOK, FightOK, ActorsOK, fight
    <2> QED
      BY <1>1, <1>2, <2>1, <2>2, <2>3 DEF TypeOK, ActorsOK, TurnOK
  <1>4. CASE /\ NextFoe(foes', index) \in Actors
             /\ Chase(order[cursor], NextFoe(foes', index), foes', index + 1)
    <2>1. index + 1 \in 0..Len(foes') /\ cursor <= MonsterCount
      BY <1>1, <1>2, ActorFacts
    <2>2. /\ location' \in [Actors -> Int] /\ FightOK'
          /\ index' \in 0..Len(foes')
          /\ cursor' \in 0..(MonsterCount + 1) /\ pc' \in {"actors", "fight"}
          /\ pc' = "fight" => UNCHANGED cursor
      BY <1>1, <1>4, <2>1, ChaseTypes
    <2> QED
      BY <1>1, <1>2, <2>1, <2>2 DEF TypeOK, ActorsOK, TurnOK
  <1> QED
    BY <1>3, <1>4, MonsterFindsFoe

LEMMA EndTurnTypes == TypeOK /\ EndTurn => TypeOK'
  <1> SUFFICES ASSUME TypeOK, EndTurn PROVE TypeOK'
    OBVIOUS
  <1>1. SetupOK' /\ ActorsOK'
    BY DEF TypeOK, EndTurn, TurnIsReset, SetupOK, ActorsOK, setup
  <1>2. foes' = <<>> /\ index' = 0 /\ cursor' = 0 /\ enemyFaction' \in Factions
    BY DEF EndTurn, TurnIsReset
  <1>3. TurnOK'
    BY <1>2, ActorFacts DEF TurnOK
  <1>4. FightOK'
    BY ActorFacts DEF EndTurn, TurnIsReset, FightOK
  <1>5. pc' \in {"over", "turn"}
    BY DEF EndTurn
  <1> QED
    BY <1>1, <1>3, <1>4, <1>5 DEF TypeOK

LEMMA NextTypes == TypeOK /\ [Next]_vars => TypeOK'
  <1> SUFFICES ASSUME TypeOK, [Next]_vars PROVE TypeOK'
    OBVIOUS
  <1>1. CASE HeroPlays
    BY <1>1, HeroPlaysTypes
  <1>2. CASE DeadIsSkipped
    <2>1. /\ cursor' = cursor + 1 /\ pc' = "actors" /\ cursor \in 1..MonsterCount
          /\ UNCHANGED <<setup, health, location, enemyFaction, turn, fight>>
      BY <1>2 DEF DeadIsSkipped, Advance, Monsters
    <2>2. cursor' \in 0..(MonsterCount + 1)
      BY <2>1, ActorFacts
    <2> QED
      BY <2>1, <2>2 DEF TypeOK, SetupOK, ActorsOK, TurnOK, FightOK, setup, turn,
                        fight
  <1>3. CASE MonsterPlays
    BY <1>3, MonsterPlaysTypes
  <1>4. CASE Hit \/ Miss
    <2>1. /\ health' \in [Actors -> Nat] /\ FightOK'
          /\ UNCHANGED <<setup, location, enemyFaction, turn>>
          /\ pc = "fight" /\ pc' \in {"fight", "actors"}
          /\ cursor' \in 0..(MonsterCount + 1)
          /\ pc' = "fight" => UNCHANGED cursor
      BY <1>4, StrikeTypes
    <2> QED
      BY <2>1 DEF TypeOK, SetupOK, ActorsOK, TurnOK, setup, turn
  <1>5. CASE EndTurn
    BY <1>5, EndTurnTypes
  <1>6. CASE UNCHANGED vars
    BY <1>6 DEF TypeOK, SetupOK, ActorsOK, TurnOK, FightOK, vars, setup, turn,
                fight
  <1> QED
    BY <1>1, <1>2, <1>3, <1>4, <1>5, <1>6 DEF Next, Ended

(* The type invariant holds. *)
THEOREM TypeCorrect == Spec => []TypeOK
  BY InitTypes, NextTypes, PTL DEF Spec

-----------------------------------------------------------------------------
(* The pointer the phantom dereferences. *)

LEMMA NextFindsFoe == TypeOK /\ PhantomFindsFoe /\ [Next]_vars => PhantomFindsFoe'
  <1> SUFFICES ASSUME TypeOK, PhantomFindsFoe, [Next]_vars
               PROVE  pc' # "crashed"
    BY DEF PhantomFindsFoe
  <1>1. CASE HeroPlays
    <2>1. CASE enemyFaction = <<>>
      BY <1>1, <2>1 DEF HeroPlays, Advance
    <2>2. CASE enemyFaction # <<>>
      BY <1>1, <2>2 DEF HeroPlays, Chase, AttackFoe, Advance
    <2> QED
      BY <2>1, <2>2
  <1>2. CASE MonsterPlays
    BY <1>2, MonsterFindsFoe DEF Chase, AttackFoe, Advance
  <1>3. CASE Hit \/ Miss
    BY <1>3, StrikeTypes
  <1> QED
    BY <1>1, <1>2, <1>3 DEF Next, DeadIsSkipped, Advance, EndTurn, Ended, vars,
                            PhantomFindsFoe

(* A phantom never dereferences a null foe. *)
THEOREM FoesDoNotRunOut == Spec => []PhantomFindsFoe
  <1>1. Init => PhantomFindsFoe
    BY DEF Init, PhantomFindsFoe
  <1> QED
    BY <1>1, NextFindsFoe, TypeCorrect, PTL DEF Spec
-----------------------------------------------------------------------------
(* The living and the dead. *)

(* A living monster is in the faction; at the start of a turn the faction   *)
(* has no one else and the hero is alive; the one who strikes is alive; and *)
(* the end is decided.                                                     *)
LivingInv ==
  /\ \A m \in Monsters : health[m] > 0 => m \in Members(enemyFaction)
  /\ pc = "turn" => /\ \A m \in Members(enemyFaction) : health[m] > 0
                    /\ enemyFaction # <<>>
                    /\ health[Hero] > 0
  /\ StrikerIsAlive
  /\ pc = "over" => health[Hero] = 0 \/ enemyFaction = <<>>

LEMMA MembersOfNone == Members(<<>>) = {}
  BY DEF Members

LEMMA InitLiving == Init => LivingInv
  <1> SUFFICES ASSUME Init PROVE LivingInv
    OBVIOUS
  <1>1. Members(enemyFaction) = Monsters
    BY CreatedIsFaction DEF Init
  <1>2. \A a \in Actors : health[a] > 0
    BY InitTypes, KindFacts DEF Init, TypeOK
  <1>3. enemyFaction # <<>>
    <2>1. 1 \in Monsters
      BY ActorFacts DEF Monsters
    <2> QED
      BY <1>1, <2>1, MembersOfNone
  <1> QED
    BY <1>1, <1>2, <1>3, ActorFacts DEF Init, LivingInv, StrikerIsAlive

(* A strike takes health from nobody but its target. *)
LEMMA StrikeHurts ==
  ASSUME TypeOK, Hit \/ Miss
  PROVE  /\ \A a \in Actors : health'[a] <= health[a]
         /\ \A a \in Actors : a # Target => health'[a] = health[a]
  <1>1. health \in [Actors -> Nat] /\ Striker \in Actors /\ Target \in Actors
    BY StrikeTypes DEF TypeOK, ActorsOK
  <1>2. CASE Hit
    <2>1. PICK damage \in 1..Damage[KindOf(Striker)] :
            health' = [health EXCEPT ![Target] = IF @ < damage THEN 0 ELSE @ - damage]
      BY <1>2 DEF Hit
    <2>2. damage \in Nat
      BY <1>1, KindFacts DEF TypeOK
    <2>3. health'[Target] = IF health[Target] < damage THEN 0 ELSE health[Target] - damage
      BY <1>1, <2>1
    <2>4. health[Target] \in Nat /\ health'[Target] <= health[Target]
      BY <1>1, <2>2, <2>3
    <2>5. \A a \in Actors : a # Target => health'[a] = health[a]
      BY <1>1, <2>1
    <2>6. ASSUME NEW a \in Actors PROVE health'[a] <= health[a]
      <3>1. CASE a = Target
        BY <2>4, <3>1
      <3>2. CASE a # Target
        BY <1>1, <2>5, <3>2
      <3> QED
        BY <3>1, <3>2
    <2> QED
      BY <2>5, <2>6
  <1>3. CASE Miss
    BY <1>1, <1>3 DEF Miss
  <1> QED
    BY <1>2, <1>3

(* After a strike that does not end the fight, the target strikes, and it  *)
(* is alive.                                                               *)
LEMMA TargetStrikesNext ==
  ASSUME TypeOK, Hit \/ Miss, pc' = "fight"
  PROVE  /\ Striker' = Target /\ health'[Target] > 0
         /\ UNCHANGED <<self, foe>>
  <1>1. /\ health' \in [Actors -> Nat] /\ Target \in Actors
        /\ AfterStrike /\ retaliates \in BOOLEAN
    BY StrikeTypes DEF TypeOK, FightOK
  <1>2. health'[Target] # 0 /\ retaliates' = ~retaliates /\ UNCHANGED <<self, foe>>
    BY <1>1 DEF AfterStrike, Advance
  <1>3. Striker' = Target
    BY <1>1, <1>2 DEF Striker, Target
  <1>4. health'[Target] > 0
    BY <1>1, <1>2
  <1> QED
    BY <1>2, <1>3, <1>4
(* The one who opens a fight strikes first. *)
LEMMA FightOpens ==
  ASSUME TypeOK, HeroPlays \/ MonsterPlays, pc' = "fight"
  PROVE  /\ Striker' = self' /\ UNCHANGED <<health, enemyFaction>>
         /\ HeroPlays => self' = Hero
         /\ MonsterPlays => self' = order[cursor]
  <1>1. CASE HeroPlays
    <2>1. enemyFaction # <<>>
      BY <1>1 DEF HeroPlays, Advance
    <2>2. self' = Hero /\ retaliates' = FALSE
      BY <1>1, <2>1 DEF HeroPlays, Chase, AttackFoe, Advance
    <2> QED
      BY <1>1, <2>2 DEF HeroPlays, MonsterPlays, Striker
  <1>2. CASE MonsterPlays
    <2>1. self' = order[cursor] /\ retaliates' = FALSE
      BY <1>2, MonsterFindsFoe DEF Chase, AttackFoe, Advance
    <2> QED
      BY <1>2, <2>1 DEF HeroPlays, MonsterPlays, Striker
  <1> QED
    BY <1>1, <1>2

LEMMA NextLiving == TypeOK /\ LivingInv /\ [Next]_vars => LivingInv'
  <1> SUFFICES ASSUME TypeOK, LivingInv, [Next]_vars PROVE LivingInv'
    OBVIOUS
  <1>0. /\ health \in [Actors -> Nat] /\ enemyFaction \in Factions
        /\ Members(enemyFaction) \subseteq Monsters
    BY FactionIsSeq DEF TypeOK, ActorsOK, TurnOK
  <1>1. CASE HeroPlays
    <2>1. pc' \in {"actors", "fight"} /\ pc = "turn" /\ UNCHANGED <<health, enemyFaction>>
      BY <1>1 DEF HeroPlays, Chase, AttackFoe, Advance
    <2>2. StrikerIsAlive'
      BY <1>1, <2>1, FightOpens DEF LivingInv, StrikerIsAlive
    <2> QED
      BY <2>1, <2>2 DEF LivingInv
  <1>2. CASE DeadIsSkipped
    BY <1>2 DEF DeadIsSkipped, Advance, LivingInv, StrikerIsAlive
  <1>3. CASE MonsterPlays
    <2>1. /\ pc' \in {"actors", "fight"} /\ UNCHANGED <<health, enemyFaction>>
          /\ health[order[cursor]] > 0
      BY <1>3, MonsterFindsFoe DEF Chase, AttackFoe, Advance
    <2>2. StrikerIsAlive'
      BY <1>3, <2>1, FightOpens DEF StrikerIsAlive
    <2> QED
      BY <2>1, <2>2 DEF LivingInv
  <1>4. CASE Hit \/ Miss
    <2>1. /\ pc' \in {"actors", "fight"} /\ UNCHANGED enemyFaction
          /\ health' \in [Actors -> Nat]
      BY <1>4, StrikeTypes
    <2>2. ASSUME NEW m \in Monsters, health'[m] > 0
          PROVE  m \in Members(enemyFaction)
      <3>1. health'[m] \in Nat /\ health[m] \in Nat /\ health'[m] <= health[m]
        BY <1>0, <1>4, <2>1, StrikeHurts, ActorFacts
      <3>2. health[m] > 0
        BY <2>2, <3>1
      <3> QED
        BY <3>2 DEF LivingInv
    <2>3. StrikerIsAlive'
      BY <1>4, TargetStrikesNext DEF StrikerIsAlive
    <2> QED
      BY <2>1, <2>2, <2>3 DEF LivingInv
  <1>5. CASE EndTurn
    <2>1. /\ UNCHANGED health
          /\ Members(enemyFaction') = {m \in Members(enemyFaction) : ~IsDead(m)}
          /\ pc' = IF IsDead(Hero) \/ enemyFaction' = <<>> THEN "over" ELSE "turn"
      BY <1>5 DEF EndTurn, TurnIsReset
    <2>2. \A a \in Actors : IsDead(a) <=> ~(health[a] > 0)
      BY <1>0 DEF IsDead
    <2>3. \A m \in Monsters : health'[m] > 0 => m \in Members(enemyFaction')
      BY <2>1, <2>2, ActorFacts DEF LivingInv
    <2>4. \A m \in Members(enemyFaction') : health'[m] > 0
      BY <1>0, <2>1, <2>2, ActorFacts
    <2>5. pc' = "turn" => enemyFaction' # <<>> /\ health'[Hero] > 0
      BY <2>1, <2>2, ActorFacts
    <2>6. pc' = "over" => health'[Hero] = 0 \/ enemyFaction' = <<>>
      BY <2>1 DEF IsDead
    <2>7. pc' # "fight"
      BY <2>1
    <2> QED
      BY <2>3, <2>4, <2>5, <2>6, <2>7 DEF LivingInv, StrikerIsAlive
  <1>6. CASE UNCHANGED vars
    BY <1>6 DEF vars, fight, LivingInv, StrikerIsAlive, Striker
  <1> QED
    BY <1>1, <1>2, <1>3, <1>4, <1>5, <1>6 DEF Next, Ended

LEMMA LivingHolds == Spec => []LivingInv
  BY InitLiving, NextLiving, TypeCorrect, PTL DEF Spec

(* Nobody strikes when dead. *)
THEOREM TheDeadDoNotStrike == Spec => []StrikerIsAlive
  <1>1. LivingInv => StrikerIsAlive
    BY DEF LivingInv
  <1> QED
    BY <1>1, LivingHolds, PTL

(* Between two turns the faction lists exactly the living monsters. *)
THEOREM FactionIsExact == Spec => []FactionIsTheLiving
  <1>1. TypeOK /\ LivingInv => FactionIsTheLiving
    <2> SUFFICES ASSUME TypeOK, LivingInv, pc = "turn"
                 PROVE  /\ Members(enemyFaction) = {m \in Monsters : health[m] > 0}
                        /\ enemyFaction # <<>> /\ health[Hero] > 0
      BY DEF FactionIsTheLiving
    <2>1. Members(enemyFaction) \subseteq Monsters
      BY FactionIsSeq DEF TypeOK, TurnOK
    <2> QED
      BY <2>1 DEF LivingInv
  <1> QED
    BY <1>1, TypeCorrect, LivingHolds, PTL

(* A victory of the hero leaves no monster alive. *)
THEOREM VictoryIsDecided == Spec => []VictoryIsReal
  <1>1. TypeOK /\ LivingInv => VictoryIsReal
    <2> SUFFICES ASSUME TypeOK, LivingInv, pc = "over", health[Hero] > 0,
                        NEW m \in Monsters
                 PROVE  health[m] = 0
      BY DEF VictoryIsReal
    <2>1. Members(enemyFaction) = {}
      BY MembersOfNone DEF LivingInv
    <2>2. health[m] \in Nat
      BY ActorFacts DEF TypeOK, ActorsOK
    <2> QED
      BY <2>1, <2>2 DEF LivingInv
  <1> QED
    BY <1>1, TypeCorrect, LivingHolds, PTL
-----------------------------------------------------------------------------
(* What a turn achieves. *)

AtOrigin == \A a \in Actors : location[a] = 0

(* The fight between two actors is over with a death, once it is over. *)
SomeoneDied ==
  health[Hero] = 0 \/ \E m \in Members(enemyFaction) : health[m] = 0

(* Everyone stays at the origin, so the hero reaches the weakest enemy; he  *)
(* fights him to a death; and whoever plays later in the turn, plays after *)
(* that death.                                                             *)
TurnInv ==
  /\ AtOrigin
  /\ pc = "fight" /\ self = Hero => foe \in Members(enemyFaction)
  /\ HeroFightsTheWeakest
  /\ pc = "actors" => SomeoneDied
  /\ pc = "fight" /\ self # Hero => SomeoneDied

(* At the origin a chase reaches its foe and moves nobody. *)
LEMMA ChaseAtOrigin ==
  ASSUME TypeOK, AtOrigin, NEW a \in Actors, NEW f \in Actors, NEW fs, NEW i,
         Chase(a, f, fs, i)
  PROVE  AtOrigin' /\ AttackFoe(a, f, fs)
  <1>1. location \in [Actors -> Int] /\ Movement[KindOf(a)] \in Nat
    BY KindFacts DEF TypeOK, ActorsOK
  <1>2. Closest(location[a], location[f], Movement[KindOf(a)]) = 0
    <2>1. location[a] = 0 /\ location[f] = 0
      BY DEF AtOrigin
    <2> DEFINE m == Movement[KindOf(a)]
    <2>2. /\ location[f] - location[a] \in (-m)..m
          /\ ~(location[f] - location[a] > m)
      BY <1>1, <2>1
    <2> QED
      BY <2>1, <2>2 DEF Closest
  <1>3. location' = [location EXCEPT ![a] = location[a] + 0]
    BY <1>2 DEF Chase
  <1>4. AtOrigin'
    BY <1>1, <1>3 DEF AtOrigin
  <1>5. AttackFoe(a, f, fs)
    BY <1>2 DEF Chase, AtOrigin
  <1> QED
    BY <1>4, <1>5

LEMMA InitTurn == Init => TurnInv
  BY DEF Init, TurnInv, AtOrigin, HeroFightsTheWeakest

LEMMA HeroTurn ==
  ASSUME TypeOK, LivingInv, TurnInv, HeroPlays
  PROVE  TurnInv'
  <1>1. /\ pc = "turn" /\ enemyFaction # <<>> /\ UNCHANGED <<health, enemyFaction>>
        /\ enemyFaction \in Factions /\ AtOrigin
        /\ health \in [Actors -> Nat]
    BY DEF HeroPlays, LivingInv, TypeOK, TurnOK, TurnInv, ActorsOK
  <1>2. PICK i \in 1..Len(enemyFaction) :
          /\ IsWeakest(i, enemyFaction)
          /\ enemyFaction[i] \in Monsters
          /\ enemyFaction[i] \in Members(enemyFaction)
          /\ Chase(Hero, enemyFaction[i], enemyFaction, Len(enemyFaction))
    BY <1>1, HeroChases
  <1>3. AtOrigin' /\ AttackFoe(Hero, enemyFaction[i], enemyFaction)
    BY <1>1, <1>2, ChaseAtOrigin, ActorFacts
  <1>4. pc' = "fight" /\ self' = Hero /\ foe' = enemyFaction[i]
    BY <1>2, <1>3 DEF AttackFoe
  <1>5. health[enemyFaction[i]] > 0
    BY <1>1, <1>2 DEF LivingInv
  <1>6. ASSUME NEW m \in Monsters, health[m] > 0
        PROVE  health[enemyFaction[i]] <= health[m]
    <2>1. PICK j \in 1..Len(enemyFaction) : enemyFaction[j] = m
      BY <1>6 DEF LivingInv, Members
    <2> QED
      BY <1>2, <2>1 DEF IsWeakest
  <1>7. HeroFightsTheWeakest'
    BY <1>1, <1>4, <1>5, <1>6 DEF HeroFightsTheWeakest
  <1> QED
    BY <1>1, <1>2, <1>3, <1>4, <1>7 DEF TurnInv

LEMMA MonsterTurn ==
  ASSUME TypeOK, LivingInv, TurnInv, MonsterPlays
  PROVE  TurnInv'
  <1>1. /\ pc = "actors" /\ order[cursor] \in Monsters
        /\ UNCHANGED <<setup, health, enemyFaction>>
        /\ AtOrigin /\ SomeoneDied
    BY MonsterFindsFoe DEF TurnInv
  <1>2. SomeoneDied'
    BY <1>1 DEF SomeoneDied
  <1>3. pc' \in {"actors", "fight"} /\ (pc' = "fight" => self' # Hero)
    BY <1>1, MonsterFindsFoe, FightOpens, ActorFacts DEF Chase, AttackFoe, Advance
  <1>4. AtOrigin'
    <2>1. CASE UNCHANGED location
      BY <1>1, <2>1 DEF AtOrigin
    <2>2. CASE /\ NextFoe(foes', index) \in Actors
               /\ Chase(order[cursor], NextFoe(foes', index), foes', index + 1)
      BY <1>1, <2>2, ChaseAtOrigin, ActorFacts
    <2> QED
      BY <2>1, <2>2, MonsterFindsFoe
  <1> QED
    BY <1>2, <1>3, <1>4 DEF TurnInv, HeroFightsTheWeakest

LEMMA StrikeTurn ==
  ASSUME TypeOK, LivingInv, TurnInv, Hit \/ Miss
  PROVE  TurnInv'
  <1>1. /\ health \in [Actors -> Nat] /\ health' \in [Actors -> Nat]
        /\ pc = "fight" /\ pc' \in {"fight", "actors"} /\ AfterStrike
        /\ UNCHANGED <<location, enemyFaction>> /\ UNCHANGED <<self, foe>>
        /\ self \in Actors /\ foe \in Actors /\ Target \in {self, foe}
        /\ Members(enemyFaction) \subseteq Monsters
    <2>1. UNCHANGED <<self, foe>>
      BY StrikeTypes DEF AfterStrike, fight
    <2> QED
      BY <2>1, StrikeTypes, FactionIsSeq
      DEF TypeOK, ActorsOK, TurnOK, FightOK, Target
  <1>2. ASSUME NEW a \in Actors, health[a] = 0 PROVE health'[a] = 0
    <2>1. health'[a] \in Nat /\ health'[a] <= 0
      BY <1>1, <1>2, StrikeHurts
    <2> QED
      BY <2>1
  <1>3. SomeoneDied => SomeoneDied'
    BY <1>1, <1>2, ActorFacts DEF SomeoneDied
  <1>4. CASE self = Hero
    <2>1. foe \in Members(enemyFaction) /\ foe \in Monsters /\ foe # Hero
      BY <1>1, <1>4, ActorFacts DEF TurnInv
    <2>2. pc' = "actors" => SomeoneDied'
      <3>1. pc' = "actors" => health'[Target] = 0
        BY <1>1 DEF AfterStrike
      <3> QED
        BY <1>1, <1>4, <2>1, <3>1 DEF SomeoneDied
    <2>3. ASSUME pc' = "fight" PROVE health'[foe] > 0
      <3>1. CASE Target = foe
        BY <2>3, <3>1, TargetStrikesNext
      <3>2. CASE Target # foe
        BY <1>1, <1>4, <3>2, StrikeHurts DEF TurnInv, HeroFightsTheWeakest
      <3> QED
        BY <3>1, <3>2
    <2>4. ASSUME NEW m \in Monsters, health'[m] > 0
          PROVE  health'[foe] <= health'[m]
      <3>1. CASE m = foe
        BY <1>1, <3>1
      <3>2. CASE m # foe
        <4>1. m \in Actors /\ health'[m] = health[m]
          BY <1>1, <1>4, <3>2, StrikeHurts, ActorFacts
        <4>2. health[foe] <= health[m] /\ health'[foe] <= health[foe]
          BY <1>1, <1>4, <2>4, <4>1, StrikeHurts DEF TurnInv, HeroFightsTheWeakest
        <4> QED
          BY <1>1, <4>1, <4>2
      <3> QED
        BY <3>1, <3>2
    <2>5. HeroFightsTheWeakest'
      BY <1>1, <2>3, <2>4 DEF HeroFightsTheWeakest
    <2> QED
      BY <1>1, <1>4, <2>1, <2>2, <2>5 DEF TurnInv, AtOrigin
  <1>5. CASE self # Hero
    BY <1>1, <1>3, <1>5 DEF TurnInv, AtOrigin, HeroFightsTheWeakest
  <1> QED
    BY <1>4, <1>5

LEMMA NextTurn == TypeOK /\ LivingInv /\ TurnInv /\ [Next]_vars => TurnInv'
  <1> SUFFICES ASSUME TypeOK, LivingInv, TurnInv, [Next]_vars PROVE TurnInv'
    OBVIOUS
  <1>1. CASE DeadIsSkipped
    BY <1>1 DEF DeadIsSkipped, Advance, TurnInv, AtOrigin, SomeoneDied,
                HeroFightsTheWeakest
  <1>2. CASE EndTurn
    BY <1>2 DEF EndTurn, TurnIsReset, TurnInv, AtOrigin, HeroFightsTheWeakest
  <1>3. CASE UNCHANGED vars
    BY <1>3 DEF vars, fight, TurnInv, AtOrigin, SomeoneDied, HeroFightsTheWeakest
  <1> QED
    BY <1>1, <1>2, <1>3, HeroTurn, MonsterTurn, StrikeTurn DEF Next, Ended

LEMMA TurnInvHolds == Spec => []TurnInv
  BY InitTurn, NextTurn, TypeCorrect, LivingHolds, PTL DEF Spec

(* The hero fights a living enemy that nobody living is weaker than. *)
THEOREM HeroPicksTheWeakest == Spec => []HeroFightsTheWeakest
  <1>1. TurnInv => HeroFightsTheWeakest
    BY DEF TurnInv
  <1> QED
    BY <1>1, TurnInvHolds, PTL

LEMMA TurnKills ==
  ASSUME TypeOK, LivingInv, TurnInv, [Next]_vars, pc = "actors", pc' = "turn"
  PROVE  Len(enemyFaction') < Len(enemyFaction)
  <1>1. EndTurn
    <2>1. ~HeroPlays /\ ~Hit /\ ~Miss /\ ~Ended /\ ~UNCHANGED vars
      BY DEF HeroPlays, Hit, Miss, Ended, vars
    <2>2. ~DeadIsSkipped
      BY DEF DeadIsSkipped, Advance
    <2>3. ~MonsterPlays
      BY MonsterFindsFoe DEF Chase, AttackFoe, Advance
    <2> QED
      BY <2>1, <2>2, <2>3 DEF Next
  <1>2. /\ enemyFaction \in Factions /\ enemyFaction' \in Factions
        /\ Members(enemyFaction') = {m \in Members(enemyFaction) : ~IsDead(m)}
        /\ ~IsDead(Hero)
    BY <1>1 DEF EndTurn, TypeOK, TurnOK
  <1>3. PICK m \in Members(enemyFaction) : health[m] = 0
    BY <1>2 DEF TurnInv, SomeoneDied, IsDead
  <1>4. m \notin Members(enemyFaction')
    BY <1>2, <1>3 DEF IsDead
  <1> QED
    BY <1>2, <1>3, <1>4, SmallerFaction

(* Every turn but the last removes an enemy. *)
THEOREM TurnsKill == Spec => EveryTurnKills
  <1>1. TypeOK /\ LivingInv /\ TurnInv /\ [Next]_vars =>
          [pc = "actors" /\ pc' = "turn" => Len(enemyFaction') < Len(enemyFaction)]_vars
    BY TurnKills
  <1> QED
    BY <1>1, TypeCorrect, LivingHolds, TurnInvHolds, PTL DEF Spec, EveryTurnKills
-----------------------------------------------------------------------------
(* The way to the end of the game.                                         *)

(* The first step of a turn opens the hero's fight.                        *)
LEMMA HeroComesNearer ==
  ASSUME TypeOK, LivingInv, TurnInv, HeroPlays
  PROVE  ComesNearer
  <1>1. /\ pc = "turn" /\ enemyFaction # <<>> /\ AtOrigin
        /\ UNCHANGED <<health, enemyFaction>>
    BY DEF HeroPlays, LivingInv, TurnInv
  <1>2. PICK i \in 1..Len(enemyFaction) :
          /\ enemyFaction[i] \in Monsters
          /\ enemyFaction[i] \in Members(enemyFaction)
          /\ Chase(Hero, enemyFaction[i], enemyFaction, Len(enemyFaction))
    BY <1>1, HeroChases
  <1>3. AttackFoe(Hero, enemyFaction[i], enemyFaction)
    BY <1>1, <1>2, ChaseAtOrigin, ActorFacts
  <1>4. pc' = "fight" /\ UNCHANGED cursor
    BY <1>2, <1>3 DEF AttackFoe
  <1> QED
    BY <1>1, <1>4 DEF ComesNearer

(* A monster that plays opens a fight, or its pass is over.                *)
LEMMA MonsterComesNearer ==
  ASSUME TypeOK, MonsterPlays
  PROVE  ComesNearer
  <1>1. pc = "actors" /\ cursor \in Int /\ UNCHANGED <<health, enemyFaction>>
    BY MonsterFindsFoe DEF TypeOK, TurnOK
  <1>2. \/ cursor' = cursor + 1
        \/ pc' = "fight" /\ UNCHANGED cursor
    BY MonsterFindsFoe DEF Chase, AttackFoe, Advance
  <1>3. cursor' = cursor + 1 => cursor' > cursor
    BY <1>1
  <1> QED
    BY <1>1, <1>2, <1>3 DEF ComesNearer

(* A hit costs health, and the strike that kills ends the fight.           *)
LEMMA StrikeComesNearer ==
  ASSUME TypeOK, Hit \/ Miss
  PROVE  OnlyMisses \/ ComesNearer
  <1>1. /\ health \in [Actors -> Nat] /\ cursor \in Int
        /\ UNCHANGED <<setup, location, enemyFaction, turn>> /\ AfterStrike
        /\ Striker \in Actors /\ Target \in Actors /\ Target \in {self, foe}
    BY StrikeTypes DEF TypeOK, ActorsOK, TurnOK, Target
  <1>2. CASE health'[Target] = 0
    <2>1. cursor' = cursor + 1
      BY <1>1, <1>2 DEF AfterStrike, Advance
    <2>2. cursor' > cursor
      BY <1>1, <2>1
    <2> QED
      BY <1>1, <2>2 DEF ComesNearer
  <1>3. CASE health'[Target] # 0
    <2>1. UNCHANGED <<pc, cursor, self, foe>>
      BY <1>1, <1>3 DEF AfterStrike
    <2>2. CASE Hit
      <3>1. PICK damage \in 1..Damage[KindOf(Striker)] :
              health' = [health EXCEPT ![Target] = IF @ < damage THEN 0 ELSE @ - damage]
        BY <2>2 DEF Hit
      <3>2. damage \in Nat /\ damage > 0 /\ health[Target] \in Nat
        BY <1>1, KindFacts DEF TypeOK
      <3>3. health'[Target] = health[Target] - damage
        BY <1>1, <1>3, <3>1
      <3>4. health'[Target] < health[Target]
        BY <3>2, <3>3
      <3> QED
        BY <1>1, <2>1, <2>2, <3>4, StrikeHurts DEF ComesNearer
    <2>3. CASE Miss
      BY <1>1, <2>1, <2>3 DEF Miss, OnlyMisses
    <2> QED
      BY <2>2, <2>3
  <1> QED
    BY <1>2, <1>3

(* The end of a turn ends the game or removes an enemy.                    *)
LEMMA EndTurnComesNearer ==
  ASSUME TypeOK, LivingInv, TurnInv, EndTurn
  PROVE  ComesNearer
  <1>1. pc = "actors" /\ pc' \in {"over", "turn"} /\ [Next]_vars
    BY DEF EndTurn, Next
  <1> QED
    BY <1>1, TurnKills DEF ComesNearer

LEMMA NextComesNearer ==
  TypeOK /\ LivingInv /\ TurnInv /\ [Next]_vars => [OnlyMisses \/ ComesNearer]_vars
  <1> SUFFICES ASSUME TypeOK, LivingInv, TurnInv, Next, ~UNCHANGED vars
               PROVE  OnlyMisses \/ ComesNearer
    OBVIOUS
  <1>1. CASE DeadIsSkipped
    <2>1. cursor' = cursor + 1 /\ cursor \in Int /\ UNCHANGED enemyFaction
      BY <1>1 DEF DeadIsSkipped, Advance, TypeOK, TurnOK
    <2>2. cursor' > cursor
      BY <2>1
    <2> QED
      BY <2>1, <2>2 DEF ComesNearer
  <1> QED
    BY <1>1, HeroComesNearer, MonsterComesNearer, StrikeComesNearer,
       EndTurnComesNearer DEF Next, Ended

(* Whatever the stats and the number of monsters, the battle comes nearer  *)
(* to its end with every step that is not a miss.                          *)
THEOREM OnlyMissesHoldUp == Spec => OnlyMissesDelay
  BY NextComesNearer, TypeCorrect, LivingHolds, TurnInvHolds, PTL
  DEF Spec, OnlyMissesDelay

(* Only the hero and the chasers open a fight.                             *)
OpenerInv == pc = "fight" => KindOf(self) \in Chasers \cup {HeroKind}

LEMMA NextOpener == TypeOK /\ OpenerInv /\ [Next]_vars => OpenerInv'
  <1> SUFFICES ASSUME TypeOK, OpenerInv, [Next]_vars, pc' = "fight"
               PROVE  KindOf(self)' \in Chasers \cup {HeroKind}
    BY DEF OpenerInv
  <1>1. CASE HeroPlays
    BY <1>1, FightOpens DEF KindOf
  <1>2. CASE MonsterPlays
    <2>1. self' = order[cursor] /\ UNCHANGED kind /\ order[cursor] \in Monsters
      BY <1>2, FightOpens, MonsterFindsFoe DEF setup
    <2>2. kind[order[cursor]] \in Chasers
      BY <1>2 DEF MonsterPlays, Advance
    <2> QED
      BY <2>1, <2>2, ActorFacts DEF KindOf
  <1>3. CASE Hit \/ Miss
    <2>1. pc = "fight" /\ UNCHANGED kind /\ UNCHANGED self
      BY <1>3, StrikeTypes, TargetStrikesNext DEF setup
    <2> QED
      BY <2>1 DEF OpenerInv, KindOf
  <1>4. CASE UNCHANGED vars
    BY <1>4 DEF vars, setup, fight, OpenerInv, KindOf
  <1> QED
    BY <1>1, <1>2, <1>3, <1>4
    DEF Next, DeadIsSkipped, Advance, EndTurn, Ended

(* Whoever opens a fight can win it, if the attack of the hero and of the  *)
(* chasers is more than 1.                                                 *)
THEOREM NoHopelessFight == Spec => []AttackerCanHit
  <1>1. Init => OpenerInv
    BY DEF Init, OpenerInv
  <1>2. TypeOK /\ OpenerInv => AttackerCanHit
    <2> SUFFICES ASSUME TypeOK, OpenerInv, pc = "fight",
                        \A k \in Chasers \cup {HeroKind} : Attack[k] > 1
                 PROVE  CanHit(self, foe)
      BY DEF AttackerCanHit
    <2>1. /\ KindOf(foe) \in AllKinds /\ KindOf(self) \in AllKinds
          /\ Attack[KindOf(self)] > 1
      BY KindFacts DEF TypeOK, FightOK, OpenerInv
    <2>2. 1 \in Rolls(Attack[KindOf(self)]) /\ 0 \in Rolls(Defense[KindOf(foe)])
      BY <2>1 DEF Rolls
    <2> QED
      BY <2>2 DEF CanHit
  <1> QED
    BY <1>1, <1>2, NextOpener, TypeCorrect, PTL DEF Spec
=============================================================================
