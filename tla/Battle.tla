------------------------------- MODULE Battle -------------------------------
(***************************************************************************)
(* The battle of great_game/BattleManager.cpp, with the turns of           *)
(* object_model/Turn.cpp, the hero of great_game/Hero.cpp and the monsters *)
(* of the plugins.                                                         *)
(*                                                                         *)
(* The behaviour starts when go() has created the monsters and enters its  *)
(* loop.  One Turn object serves all the actors of a turn: its list of     *)
(* foes grows with every monster that plays, and the position of its       *)
(* iterator is the one the previous actor left.  The list of friends grows *)
(* in the same way; no actor reads it, and it is left out.                 *)
(***************************************************************************)
EXTENDS Integers, Sequences

CONSTANTS
  MonsterCount,  (* MONSTER_COUNT                                           *)
  Kinds,         (* the monster types that are registered                   *)
  Chasers,       (* those whose play() chases its first foe (the phantom);  *)
                 (* the play() of the others does nothing                   *)
  HeroKind,      (* the hero, who is of no monster type                     *)
  Attack,        (* what getInitialInfo() sets, by kind                     *)
  Damage,
  Defense,
  Health,
  Movement

AllKinds == Kinds \cup {HeroKind}

ASSUME BattleAssumption ==
  /\ MonsterCount \in Nat \ {0}
  /\ Chasers \subseteq Kinds
  /\ HeroKind \notin Kinds
  /\ Attack   \in [AllKinds -> Nat \ {0}]
  /\ Damage   \in [AllKinds -> Nat \ {0}]
  /\ Defense  \in [AllKinds -> Nat \ {0}]
  /\ Health   \in [AllKinds -> Nat \ {0}]
  /\ Movement \in [AllKinds -> Nat]

(* Actors are their ids: the hero is 0, a monster its place of creation. *)
Hero == 0
Monsters == 1..MonsterCount
Actors == {Hero} \cup Monsters

(* The null pointer next() returns at the end of the foes. *)
NoActor == -1

VARIABLES
  kind,          (* [Monsters -> Kinds], drawn at random                     *)
  order,         (* the monsters as actors_ iterates over them: by address   *)
  health,        (* [Actors -> Nat]                                          *)
  location,      (* [Actors -> Int], one coordinate stands for both          *)
  enemyFaction,  (* the enemies, in order of creation                        *)
  pc,            (* "turn", "actors", "fight", "over" or "crashed"           *)
  cursor,        (* the place in order of the actor that plays, 0 for Hero   *)
  foes,          (* the foes of the Turn object                              *)
  index,         (* the position of their iterator                           *)
  self, foe,     (* the two sides of the fight, the attacker first           *)
  retaliates     (* whether the next strike is the foe's                     *)

setup == <<kind, order>>
turn  == <<foes, index>>
fight == <<self, foe, retaliates>>
vars  == <<setup, health, location, enemyFaction, pc, cursor, turn, fight>>

KindOf(a) == IF a = Hero THEN HeroKind ELSE kind[a]

IsDead(a) == health[a] = 0

Members(s) == {s[i] : i \in 1..Len(s)}

(* The lists of monsters in order of creation. *)
Factions ==
  {s \in UNION {[1..n -> Monsters] : n \in 0..MonsterCount} :
     \A i, j \in 1..Len(s) : i < j => s[i] < s[j]}

(* The monsters in order of creation. *)
Created == [i \in Monsters |-> i]

Orders == {o \in [Monsters -> Monsters] : \A i, j \in Monsters : o[i] = o[j] => i = j}

(* go() up to its loop: every actor starts at the origin, because every    *)
(* getInitialInfo() leaves location_x and location_y at 0.                 *)
Init ==
  /\ kind \in [Monsters -> Kinds]
  /\ order \in Orders
  /\ health = [a \in Actors |-> Health[KindOf(a)]]
  /\ location = [a \in Actors |-> 0]
  /\ enemyFaction = Created
  /\ pc = "turn"
  /\ cursor = 0
  /\ foes = <<>>
  /\ index = 0
  /\ self = Hero
  /\ foe = Hero
  /\ retaliates = FALSE

-----------------------------------------------------------------------------
(* ActorInfoContainer::next() on foes f at position i. *)
NextFoe(f, i) == IF i >= Len(f) THEN NoActor ELSE f[i + 1]

(* findClosest(), on a line. *)
Closest(p, q, m) ==
  CASE q - p \in (-m)..m -> q
    [] q - p > m         -> p + m
    [] OTHER             -> p - m

(* The rest of an actor's play() is over: the loop goes to the next one. *)
Advance ==
  /\ pc' = "actors"
  /\ cursor' = cursor + 1

(* Turn::attack(id) by actor a on the foes fs: it looks for the id from the *)
(* start, leaves the iterator behind it, and fights only a foe it finds.   *)
AttackFoe(a, id, fs) ==
  IF id \in Members(fs)
    THEN /\ \E i \in 1..Len(fs) :
              /\ fs[i] = id
              /\ \A j \in 1..(i - 1) : fs[j] # id
              /\ index' = i
         /\ pc' = "fight"
         /\ self' = a
         /\ foe' = id
         /\ retaliates' = FALSE
         /\ UNCHANGED cursor
    ELSE /\ index' = Len(fs)
         /\ Advance
         /\ UNCHANGED fight

(* Move towards f and attack it when it is reached, as the hero and the    *)
(* phantom do; i is where the iterator over fs stands.  Turn::move() adds  *)
(* to the location the location it is given.                               *)
Chase(a, f, fs, i) ==
  LET closest == Closest(location[a], location[f], Movement[KindOf(a)]) IN
    /\ location' = [location EXCEPT ![a] = @ + closest]
    /\ IF closest = location[f]
         THEN AttackFoe(a, f, fs)
         ELSE index' = i /\ Advance /\ UNCHANGED fight

(* A mutant: the comparison is the wrong way round. *)
IsStrongest(i, s) ==
  /\ \A j \in 1..Len(s) : health[s[i]] >= health[s[j]]
  /\ \A j \in 1..(i - 1) : health[s[i]] > health[s[j]]

(* The enemy with the poorest health, the first one of several. *)
IsWeakest(i, s) ==
  /\ \A j \in 1..Len(s) : health[s[i]] <= health[s[j]]
  /\ \A j \in 1..(i - 1) : health[s[i]] < health[s[j]]

(* The start of playTurn(): a new Turn object, and Hero::play(), which     *)
(* iterates over all the foes.                                             *)
HeroPlays ==
  /\ pc = "turn"
  /\ foes' = enemyFaction
  /\ IF enemyFaction = <<>>
       THEN index' = 0 /\ Advance /\ UNCHANGED <<location, fight>>
       ELSE \E i \in 1..Len(enemyFaction) :
              /\ IsWeakest(i, enemyFaction)
              /\ Chase(Hero, enemyFaction[i], enemyFaction, Len(enemyFaction))
  /\ UNCHANGED <<setup, health, enemyFaction>>

(* One pass of the loop over actors_, for a dead monster. *)
DeadIsSkipped ==
  /\ pc = "actors"
  /\ cursor \in Monsters
  /\ IsDead(order[cursor])
  /\ Advance
  /\ UNCHANGED <<setup, health, location, enemyFaction, turn, fight>>

(* A mutant: every monster gets its own list of foes, but the iterator     *)
(* stays where it is.                                                      *)
MonsterPlaysAlone ==
  /\ pc = "actors"
  /\ cursor \in Monsters
  /\ ~IsDead(order[cursor])
  /\ foes' = <<Hero>>
  /\ Advance
  /\ UNCHANGED <<setup, health, enemyFaction, location, index, fight>>

(* A mutant: the hero is not appended to the foes. *)
MonsterPlaysOn ==
  /\ pc = "actors"
  /\ cursor \in Monsters
  /\ ~IsDead(order[cursor])
  /\ LET m == order[cursor]
         f == NextFoe(foes, index)
     IN CASE kind[m] \notin Chasers ->
               Advance /\ UNCHANGED <<location, index, fight>>
          [] kind[m] \in Chasers /\ f = NoActor ->
               pc' = "crashed" /\ UNCHANGED <<location, cursor, index, fight>>
          [] OTHER -> Chase(m, f, foes, index + 1)
  /\ UNCHANGED <<setup, health, enemyFaction, foes>>

(* One pass for a living one: the hero is appended to the foes, whatever   *)
(* they were, and the monster plays.  The phantom attacks the foe at the   *)
(* iterator, and dereferences it unchecked.                                *)
MonsterPlays ==
  /\ pc = "actors"
  /\ cursor \in Monsters
  /\ ~IsDead(order[cursor])
  /\ foes' = Append(foes, Hero)
  /\ LET m == order[cursor]
         f == NextFoe(foes', index)
     IN CASE kind[m] \notin Chasers ->
               Advance /\ UNCHANGED <<location, index, fight>>
          [] kind[m] \in Chasers /\ f = NoActor ->
               pc' = "crashed" /\ UNCHANGED <<location, cursor, index, fight>>
          [] OTHER -> Chase(m, f, foes', index + 1)
  /\ UNCHANGED <<setup, health, enemyFaction>>

-----------------------------------------------------------------------------
(* doSingleFightSequence() and the loop of Turn::attack().                 *)

Striker == IF retaliates THEN foe ELSE self
Target  == IF retaliates THEN self ELSE foe

Rolls(n) == 0..(n - 1)

(* rand() % attack - rand() % defense > 0 is a possible outcome. *)
CanHit(a, d) ==
  \E x \in Rolls(Attack[KindOf(a)]), y \in Rolls(Defense[KindOf(d)]) : x - y > 0

CanMiss(a, d) ==
  \E x \in Rolls(Attack[KindOf(a)]), y \in Rolls(Defense[KindOf(d)]) : x - y <= 0

(* A mutant: the other side strikes even when it is dead. *)
AfterStrikeOfAny ==
  IF retaliates /\ health'[Target] = 0
    THEN Advance /\ UNCHANGED fight
    ELSE retaliates' = ~retaliates /\ UNCHANGED <<pc, cursor, self, foe>>

(* A mutant: a fight is one exchange of strikes. *)
AfterStrikeOnce ==
  IF retaliates \/ health'[Target] = 0
    THEN Advance /\ UNCHANGED fight
    ELSE retaliates' = ~retaliates /\ UNCHANGED <<pc, cursor, self, foe>>

(* After a strike: the fight is over when the target is dead, and          *)
(* otherwise the other side strikes.                                       *)
AfterStrike ==
  IF health'[Target] = 0
    THEN Advance /\ UNCHANGED fight
    ELSE retaliates' = ~retaliates /\ UNCHANGED <<pc, cursor, self, foe>>

Hit ==
  /\ pc = "fight"
  /\ CanHit(Striker, Target)
  /\ \E damage \in 1..Damage[KindOf(Striker)] :
       health' = [health EXCEPT ![Target] = IF @ < damage THEN 0 ELSE @ - damage]
  /\ AfterStrike
  /\ UNCHANGED <<setup, location, enemyFaction, turn>>

Miss ==
  /\ pc = "fight"
  /\ CanMiss(Striker, Target)
  /\ UNCHANGED health
  /\ AfterStrike
  /\ UNCHANGED <<setup, location, enemyFaction, turn>>

TurnIsReset ==
  /\ cursor' = 0
  /\ foes' = <<>>
  /\ index' = 0
  /\ self' = Hero
  /\ foe' = Hero
  /\ retaliates' = FALSE
  /\ UNCHANGED <<setup, health, location>>

(* A mutant: the dead stay in the faction. *)
EndTurnWithTheDead ==
  /\ pc = "actors"
  /\ cursor = MonsterCount + 1
  /\ UNCHANGED enemyFaction
  /\ pc' = IF IsDead(Hero) \/ enemyFaction = <<>> THEN "over" ELSE "turn"
  /\ TurnIsReset

(* A mutant: the game is over when one enemy is left. *)
EndTurnTooEarly ==
  /\ pc = "actors"
  /\ cursor = MonsterCount + 1
  /\ enemyFaction' \in
       {s \in Factions : Members(s) = {m \in Members(enemyFaction) : ~IsDead(m)}}
  /\ pc' = IF IsDead(Hero) \/ Len(enemyFaction') <= 1 THEN "over" ELSE "turn"
  /\ TurnIsReset

(* The end of playTurn(): the dead leave the faction, the others keep their *)
(* order, and the game is over if the hero is dead or no enemy is left.    *)
EndTurn ==
  /\ pc = "actors"
  /\ cursor = MonsterCount + 1
  /\ enemyFaction' \in
       {s \in Factions : Members(s) = {m \in Members(enemyFaction) : ~IsDead(m)}}
  /\ pc' = IF IsDead(Hero) \/ enemyFaction' = <<>> THEN "over" ELSE "turn"
  /\ TurnIsReset

(* go() has announced the winner and the program has ended. *)
Ended == pc = "over" /\ UNCHANGED vars

Next ==
  \/ HeroPlays
  \/ DeadIsSkipped
  \/ MonsterPlays
  \/ Hit
  \/ Miss
  \/ EndTurn
  \/ Ended

Spec == Init /\ [][Next]_vars

(* The program runs on, and rand() does not let the side that attacks miss *)
(* for ever.                                                               *)
AttackerHits == ~retaliates /\ Hit

FairSpec == Spec /\ WF_vars(Next) /\ SF_vars(AttackerHits)

-----------------------------------------------------------------------------
(* Properties.                                                             *)

SetupOK ==
  /\ kind \in [Monsters -> Kinds]
  /\ order \in [Monsters -> Monsters]

ActorsOK ==
  /\ health \in [Actors -> Nat]
  /\ location \in [Actors -> Int]

TurnOK ==
  /\ enemyFaction \in Factions
  /\ foes \in Seq(Actors)
  /\ index \in 0..Len(foes)
  /\ cursor \in 0..(MonsterCount + 1)
  /\ pc \in {"turn", "fight"} => cursor <= MonsterCount

FightOK ==
  /\ self \in Actors
  /\ foe \in Actors
  /\ retaliates \in BOOLEAN

(* The type invariant: besides the sets, that the iterator never stands     *)
(* behind the end of the foes and the faction stays in order of creation.  *)
TypeOK ==
  /\ pc \in {"turn", "actors", "fight", "over", "crashed"}
  /\ SetupOK
  /\ ActorsOK
  /\ TurnOK
  /\ FightOK

(* A phantom always finds a foe at the iterator it inherits, so the pointer *)
(* that FidgetyPhantom::play() dereferences unchecked is never null.       *)
PhantomFindsFoe == pc # "crashed"

(* Nobody strikes when dead: not the hero at the start of a turn, not a    *)
(* monster killed earlier in the turn, not a foe that was struck down      *)
(* before it could retaliate, not even a phantom that fights itself.       *)
StrikerIsAlive == pc = "fight" => health[Striker] > 0

(* Between two turns the enemy faction lists exactly the living monsters,  *)
(* and the hero is alive.                                                  *)
FactionIsTheLiving ==
  pc = "turn" =>
    /\ Members(enemyFaction) = {m \in Monsters : health[m] > 0}
    /\ enemyFaction # <<>>
    /\ health[Hero] > 0

(* The game ends only when it is decided: if the hero is alive, as go()    *)
(* announces, no monster is.                                               *)
VictoryIsReal ==
  pc = "over" /\ health[Hero] > 0 => \A m \in Monsters : health[m] = 0

(* The hero fights a living enemy, and none that lives has less health     *)
(* ("Find enemy with the poorest health", Hero.cpp:35).                    *)
HeroFightsTheWeakest ==
  pc = "fight" /\ self = Hero =>
    /\ health[foe] > 0
    /\ \A m \in Monsters : health[m] > 0 => health[foe] <= health[m]

(* Every turn that does not end the game removes an enemy, so there are at *)
(* most MonsterCount turns.                                                *)
EveryTurnKills ==
  [][pc = "actors" /\ pc' = "turn" => Len(enemyFaction') < Len(enemyFaction)]_vars

(* A step that only hands the strike to the other side. *)
OnlyMisses ==
  UNCHANGED <<setup, health, location, enemyFaction, pc, cursor, turn, self, foe>>

(* A step nearer to the end of the game: it decides it, or removes an enemy, *)
(* or, in the same faction, lets the turn go on to the next actor, or opens *)
(* the fight of an actor, or costs one of the two that fight some health.  *)
ComesNearer ==
  \/ pc' = "over"
  \/ Len(enemyFaction') < Len(enemyFaction)
  \/ UNCHANGED enemyFaction /\ cursor' > cursor
  \/ UNCHANGED <<enemyFaction, cursor, health>> /\ pc # "fight" /\ pc' = "fight"
  \/ /\ UNCHANGED <<enemyFaction, cursor, pc, self, foe>>
     /\ \A a \in Actors : health'[a] <= health[a]
     /\ \E a \in {self, foe} : health'[a] < health[a]

(* Nothing but misses keeps the battle from its end: every other step comes *)
(* nearer to it in an order that has no infinite descent, so the loops of  *)
(* go(), playTurn() and attack() can run for ever only if rand() misses    *)
(* for ever.                                                               *)
OnlyMissesDelay == [][OnlyMisses \/ ComesNearer]_vars

(* The side that opens a fight can hit the other, if its attack is more    *)
(* than 1: a fight whose every strike must miss would never end.           *)
AttackerCanHit ==
  (\A k \in Chasers \cup {HeroKind} : Attack[k] > 1) =>
    (pc = "fight" => CanHit(self, foe))

(* The battle ends: the loop of go() is left. *)
BattleEnds == <>(pc = "over")

-----------------------------------------------------------------------------
(* "Attack only foes" (Turn.cpp:99): a monster that fights, fights the     *)
(* hero.  The comment is wrong: the foes of a monster's turn start with    *)
(* its own faction.                                                        *)
MonstersFightHero == pc = "fight" /\ self # Hero => foe = Hero
=============================================================================
