# Verification of blogspace

blogspace is a blog whose articles carry code. Most of that code is small
samples; one part is a program of its own, the plugin framework and the game
that is built on it (`plugin-framework/PluginFramework/projects`). This
directory holds TLA+ modules of that program, of the concurrent samples, of a
memory manager and of a fixed point library, the TLC runs that check them and
the proofs TLAPS checks.

## Inventory

### The plugin framework and the game

| Component | State | Operations | Interacts with |
|---|---|---|---|
| Plugin manager, `plugin_framework/PluginManager.cpp` | `exactMatchMap_`, `wildCardVec_`, `exitFuncVec_`, `dynamicLibraryMap_`, `platformServices_` | `registerObject`, `initializePlugin`, `loadByPath`, `loadAll`, `createObject`, `shutdown` | calls the init and create functions of plugins, which call `registerObject` back |
| Plugins, `static_plugin`, `c_plugin`, `cpp_plugin`, `wrapper_plugin` | none | `PF_initPlugin`, create, destroy, exit | register with the manager, make actors |
| Adapters, `ObjectAdapter.h`, `ActorAdapter.h`, `ActorBaseTemplate.h` | the wrapped actor and its destroy function | `adapt`, forwarding, an exception barrier | between manager, host and C plugins |
| Battle, `great_game/BattleManager.cpp` | `actors_`, the factions, `gameOver_` | `go`, `playTurn` | creates monsters through the manager, calls `play` of the actors |
| Turn, `object_model/Turn.cpp`, `ActorInfoContainer.h` | self, friends, foes and the position of their iterators | `move`, `attack`, `next`, `reset` | handed to every actor that plays |
| Actors, `Hero.cpp`, `FidgetyPhantom.cpp`, five other monsters | their `ActorInfo` | `getInitialInfo`, `play` | act through the turn |
| Paths, directories, dynamic libraries | none, the file system | partly stubs | used by `loadAll` and `loadByPath` |

The program has one thread. What is hard in it is control that leaves a
function in the middle: the manager calls a plugin, the plugin calls the
manager; the battle calls an actor, the actor calls the turn. State that was
read before such a call is used after it (an exact match, an index into the
wildcards, an iterator that the previous actor has moved, a monster that was
alive when the list of foes was made), and a step may fail after others have
been done (the third registration of a plugin, the promotion of a wildcard
whose object exists already).

What makes the components correct:

- *manager*: one owner per type for ever; an object comes from the owner of its
  type; an initialized plugin keeps what it registered and is not initialized
  twice; an object that is not handed out is destroyed by its own plugin; a
  failed plugin leaves nothing; `shutdown` calls every exit function;
- *battle and turn*: no null foe; nobody strikes when dead; the faction is the
  set of living monsters at the start of a turn; the winner is the winner;
  every turn brings the end nearer, and the battle ends;
- *actors*: the hero fights the weakest living enemy; monsters fight the hero.

### The samples

| Component | What is hard in it |
|---|---|
| `hierarchical_mutex.cpp` | the thread's level after unlocking in any order; deadlock freedom |
| `ATM/messaging.cpp`, `threadsave_queue.4.5.cpp`, `condition_vari-4.1.cpp` | condition variables, wakeups that find the queue empty, the end of the dispatcher |
| `antelope/concurrency.cpp`, `cv_example` | two threads on one condition variable, termination, an unlocked read |
| `antelope/block_mgr.inl`, `old_stl_block_allocator.cpp` | free lists, exhaustion, blocks smaller than a pointer |
| `copy_control/Message_Folder.cpp`, `string_vector.cpp`, `operator/StrBlobPtr.cpp` | symmetry of two-way links, growth, dangling weak pointers |
| `oop/TextQuery2` | set operations of queries |
| `Fixed Point Arithmetic`, `arithmetic_types.h` | width of intermediate results, rounding with either sign, the sign and the digits of what is written |
| the other files of `thread-master` and `antelope` | one-page demonstrations and benchmarks of the standard library |

The Boost and APR headers under `PluginFramework/include` are third-party code.

## Plan

1. *Done*: `PluginRegistry` (abstract), `PluginManager` (detailed), their
   instance, refinement and proofs; `Battle`, its instance and proofs.
2. *Done*: `LockOrder` (abstract) and `HierarchicalMutex` (detailed), its
   instance, the refinement, and its proofs up to deadlock freedom.
3. *Done*: `Channel` (abstract) and `MessageQueue` (detailed), with refinement
   and proofs.
4. *Done*: `CvExample`, which refines `Channel` too, and its proofs.
5. *Done*: `BlockPool` (abstract) and `BlockManager` (detailed), the free list
   over its arena, with the size of a pointer as a parameter, and the refinement
   and proofs for blocks not smaller than a pointer.
6. *Done*: `FixedPoint`, the operators of the fixed point classes against the
   exact arithmetic, and its proofs for every width and scale.
7. *Left*: `Game` (the manager and the battle composed, with the services of
   the actors), `Movement` (`findClosest` and `Turn::move` on the plane), and the
   two-way links of messages and folders.

Bounds will stay at two to four processes or blocks: every hazard listed in
`PROJECT.json` needs at most three actors.

## Modules

| Module | What it is |
|---|---|
| `PluginRegistry` | what the manager promises: a write-once registry of owners, and objects made by them |
| `PluginManager` | the manager, in the detail of its control |
| `MCPluginManager` | four plugins for TLC |
| `PluginManagerProofs` | theorems about `PluginManager`, with the refinement of `PluginRegistry` |
| `Battle` | the battle, the turns, the hero and the monsters |
| `MCBattle` | three kinds of actors for TLC |
| `BattleProofs` | theorems about `Battle` |
| `LockOrder` | what a hierarchy of locks promises: one holder each, taken downwards |
| `HierarchicalMutex` | threads that lock, try and unlock hierarchical mutexes |
| `MCHierarchicalMutex` | four mutexes of three levels for TLC |
| `HierarchicalMutexProofs` | theorems about `HierarchicalMutex`, with the refinement of `LockOrder` |
| `Channel` | what a message queue promises: each message once, in order |
| `MessageQueue` | threads that push and wait on one of the three queues |
| `MessageQueueProofs` | theorems about `MessageQueue`, with the refinement of `Channel` |
| `CvExample` | producer, consumer and main thread of `cv_example()` |
| `CvExampleProofs` | theorems about `CvExample`, with the refinement of `Channel` |
| `BlockPool` | what a memory manager promises: a block is free or taken, the one returned last goes out first |
| `BlockManager` | a class-specific memory manager and the objects in its arena |
| `BlockManagerProofs` | theorems about `BlockManager`, with the refinement of `BlockPool` |
| `FixedPoint` | a program that computes with one of the fixed point types |
| `FixedPointProofs` | theorems about `FixedPoint` |

### PluginManager

The variables `exactMatchMap` to `invokeService` are the members of the class.
`pc` names the callback that is running (`init`, or `exact` and `wild` for the
create function of an exact match or of the wildcard at index `wild`), and the
variables `plugin`, `registered`, `failed` and `objectType` are the locals of
the functions below it. `handedOut`, `destroyed` and `exited` are history: the
objects the host has received, the objects that `createObject` destroyed and
the exit functions that were called. No guard reads them.

| Action | Code |
|---|---|
| `InitializePlugin`, `LoadByPath` | the functions up to the call of the init function |
| `InitRegisters` | one call of `registerObject` by an init function; a plugin written by hand stops at the first refusal, one written with `PluginHelper` goes on (`Persistent`) |
| `InitSucceeds`, `InitFails` | the return of the init function and the rest of `initializePlugin` |
| `CreateObject` | `createObject` up to the first create function |
| `CreateRegisters` | a create function calls `registerObject` through the services it holds |
| `ExactCreates`, `ExactDeclines`, `WildcardCreates`, `WildcardDeclines`, `NoneCreates` | the return of a create function with or without an object, and what `createObject` does up to the next call or its own return |
| `SetInvokeService`, `LoadAll`, `Shutdown` | the functions; the last two as they are compiled today |

A factory is a `PF_RegisterParams`. An early return that changes nothing is a
guard. `AbsPaths` are the paths `Path::isAbsolute` accepts: in the sources as
they are it accepts none, with its commented body the usual ones, and the model
covers both. `loadAll` never reaches its loop, because `isDirectory` returns
false; `exists` has no return statement, and either value leads to the same
result. A create function that registers `*` could move `wildCardVec_` under the
reference `createObject` holds; the assumption on `Reentries` leaves that out.

### Battle

The initial states are those in which `go` enters its loop: any kinds of
monsters, in any order of their addresses, which is the order in which
`actors_` is iterated. `HeroPlays` is `playTurn` up to the return of
`Hero::play` or its attack; `DeadIsSkipped` and `MonsterPlays` are the passes of
the loop; `Hit` and `Miss` are single strikes, so that a fight is as many steps
as it has strikes; `EndTurn` is the cleanup and the test for the end. The `Turn`
object lives as long as a turn: `foes` and `index` keep what earlier actors left.

Left out: the friends (no actor reads them), names and output. Both coordinates
are one, because every `getInitialInfo` puts its actor at the origin, where
everyone stays (`AtOrigin` in the proofs). `erase` in a loop over a list is the
removal of the dead. `MonsterCount` and the stats are constants, so the proofs
cover the program's ten monsters and its values.

### HierarchicalMutex

`owner` is the state of the inner `mtx`, `this_hcl_val` the `thread_local`, `pc`
and `mutex` say in which call of which mutex a thread is, and `held` lists the
mutexes it has a `lock_guard` of.

| Action | Code |
|---|---|
| `Lock`, `Acquire` | `lock()` up to the wait for `mtx`, and the end of the wait |
| `TryLock` | `try_lock()` that takes `mtx` |
| `Update` | `update_hierarchy_value()` and the return of either |
| `Unlock`, `Release` | `unlock()`: the level is restored, then `mtx` is free |

The level is the thread's own and `pre_hcl_val` belongs to who has `mtx`, so no
other thread sees the steps between these. A check that throws and a `try_lock()`
that fails change nothing. Threads are more general than the file's: they lock
whatever mutex the check allows, in any nesting; but as there, they do it by
`lock_guard`, so they unlock the innermost first. `unlock()` does not check
this; a thread that unlocked in another order would get a wrong level, and no
property here speaks of that.

`held` is also the state of `LockOrder`: a mutex is taken when `Update` adds it to
the thread's guards, and let go when `Unlock` removes it. The abstract step
demands that no other thread holds the mutex and that it is below *all* that the
thread holds; the code has only compared its level with one number, some steps
earlier, and has waited for `mtx` in between.

### MessageQueue

The three queues have the same control and differ in two points, which the
variable `notify` chooses once: `threadsave_queue` and the program of
`condition_vari-4.1.cpp` call `notify_one()`, `messaging::queue` calls
`notify_all()`, and only there is a `close_queue` message, which makes a
dispatcher leave its loop. `m`, `q` and `pc` are the mutex, the queue and the
place of each thread; `sent` and `received` are history.

| Action | Code |
|---|---|
| `LockPush`, `Push`, `Notify`, `Unlock` | `push()` |
| `LockPop`, `Test`, `Sleep`, `WakeUp`, `Pop`, `Unlock` | `wait_and_pop()`; `wait(lk, p)` is `while (!p()) wait(lk)`, which gives the mutex back and sleeps in one step (`Sleep`) and gets it again (`LockPop`) |

`Unlock` also ends the function: a receiver goes back to waiting, as the
loops of `data_process_thread` and `wait_and_dispatch` do.

### CvExample

The variables are the locals of `cv_example()`, `m` the owner of the mutex;
`consumed`, the items in the order of their consumption, is history. The workers' loops are `Start`, then rounds of `Produce`
or `Consume` and `Wait`, `Sleep`, `Resume`, until `Break`; the main thread is
`Terminate`, `PrintTotal`, `NotifyAll`, `Join`. Of these only `Terminate` needs
the mutex. `notify_one()` can only reach the other worker, because the caller is
awake. As a `Channel`, what was sent are the numbers from 1 to the last item the
producer made (`Produced`), and what was received is `consumed`.

### BlockManager

`freePtr` and `blockSize` are the members of `fixed_block_memory_manager`,
`arenaBlockSize` is the `block_size_` of its `fixed_arena_controller`, and `held`
the objects the program has. Addresses are offsets into the arena. Of the bytes
there only the links matter: `link` has those that are whole, by address, and
whatever writes over one of their bytes removes them. `stride` (the distance at
which the blocks were laid out) and `starved` (the sizes that were refused with
an empty list) are history.

| Action | Code |
|---|---|
| `NewInFreshArena` | `allocate()` with an empty list and an arena not in use: both `allocate` functions, the layout of the links, and the first block |
| `New` | `allocate()` that takes the head of the list |
| `RefusedWhenEmpty` | `allocate()` that finds the list empty and throws, after both `block_size_` were assigned |
| `Delete` | `deallocate()` of an object that is held |
| `Use` | an object writes to its own bytes |
| `Clear` | `clear()`, by a program that is done with its objects |

A refusal that finds blocks in the list (line 24) and `deallocate(nullptr)` change nothing.
A link that was overwritten is read as `Wild`; a program that has to follow it
is lost, and the model goes no further than that. The code links blocks at
steps of the size asked for but computes their number with at least the size of
a pointer, and both are modelled as they are.

As a `BlockPool`, the size of the blocks is `stride`, the taken blocks are where
the objects of `held` are, and the free ones are `FreeList`: the list that the
links in the arena spell out from `free_ptr_` on. Nothing in the manager lists the
free blocks except these links, so the refinement says that none of them is ever
lost, doubled or overwritten, and in which order `allocate()` gives them out.

The properties hold under `Orderly`, which names the use the manager is good for:
blocks that can hold a link, and no request for more than a block when the list
is empty. The run has the other uses too; there the manager fails (see
*Known limits*).

### FixedPoint

A behaviour is a program that computes with one number: `type` is the instance
of the template it uses (ten of them: `rounding`, and `fixed_decimal` and
`fixed_binary` with either policy, all over `long` or `unsigned long`), `rep` is
`rep_`, and `sum` the exact result of the additions and subtractions since the
last product or quotient. The operand of each operation is any number.

| Action | Code |
|---|---|
| `Add`, `Subtract` | `operator+=`, `operator-=` |
| `Multiply` | `operator*=`, by `scaled_multiplication` |
| `Divide` | `operator/=`, by `rounded_division` |

`Narrow` and `Widen` are the conversions to `rep_t` and `intermed_t`; they wrap
around, which is what the build the code was written for does (`long` has 32
bits there, and `long long` 64). Its division traps on zero and on the least number
divided by -1: no step. The rounding is that of the code, with its
doubled remainder and the comparison by sign, once for `long` and once for
`unsigned long`.

`Printed` is the number that `operator<<` writes, in units of its last digit: of a
`rounding` the value of `get()`, of the others the characteristic with its sign and, behind
the point, `Written`. A `fixed_decimal` writes its fraction as it is. A `fixed_binary`
multiplies it by `FractionScale` (10 to the power of N, but at most of 3), at
the width of `rep_t`, and rounds the quotient by the scale; with the default N = 7,
1/128 is written as 0.008. A quotient that rounds to a whole one is not carried
into the characteristic: the first character is then `':'`, which `OnlyDigits` excludes.

## Runs

| Run | What it checks | Result |
|---|---|---|
| `plugin_manager` | type invariant, four safety invariants, refinement of `PluginRegistry` | holds, 1.6 million states |
| `failed_init` | "registrations of a failed plugin are discarded" (`pluginFramework.md:905-910`) | violated: nothing is discarded |
| `shutdown` | "`shutdown` calls the exit functions" (`pluginFramework.md:923-926`) | violated: its body is compiled out |
| `destroy_adapter` | "the destroy function destroys the object of its create function" (`pluginFramework.md:758-760`, `938-940`) | violated: it gets the adapter |
| `battle` | type invariant, five safety invariants, `OnlyMissesDelay`, and `BattleEnds` under `FairSpec` | holds |
| `friendly_fire` | "Attack only foes" (`Turn.cpp:99`) | violated: phantoms attack monsters |
| `cv_example` | type invariant, `NoLostWakeup`, `ItemsAreKept`, refinement of `Channel`, `Returns` under `FairSpec` | holds |
| `cv_total` | "total items consumed" (`concurrency.cpp:206`) | violated: it is the number of the next item |
| `message_queue` | type invariant, `PopsAMessage`, `NoLostWakeup`, refinement of `Channel`, `EveryMessageIsReceived` under `FairSpec` | holds, 20 thousand states |
| `hierarchical_mutex` | type invariant, `GuardsOwn`, `LevelIsInnermost`, refinement of `LockOrder`, `NoCycle` and deadlock | holds, 32 thousand states up to symmetry |
| `block_manager` | type invariant, `ObjectsDoNotOverlap`, refinement of `BlockPool`, `LinksOutsideObjects`, `NoNeedlessRefusal` | holds, 0.5 million states |
| `fixed_point` | type invariant, `QuotientsAreNearest`, `ProductsAreNearest`, `DividingIsUndone`, `SumsHeal`, `PrintedIsNearest` | holds, 3610 states with every operand in each |

*Bounds of `plugin_manager`.* Two plugins want the type `t1` and two the type
`t2`; one plugin goes on after a refusal, one has a wildcard of another API
version, one has two wildcards, of which one is a C plugin's. Two plugins are
linked in, two come from libraries, and there are a file that is no library and a
relative path. Create functions may register `t2` or the empty type at any time.
`MaxWild` bounds the wildcards and `MaxExits` the stored exit functions: they
keep a plugin that registers only wildcards, which may be initialized again and
again, from growing the state for ever. Each property needs two plugins and one
type to fail, so there is room for a third that interferes. Deadlock is checked;
a program that was shut down stays so (`Ended`).

*Bounds of `battle`.* Four monsters, each a phantom or a golem, in each order: so
there are turns with the first, the middle or the last of them dead, with a
phantom before and behind the dead, and fights of a phantom with itself. The
stats are smaller than the program's, but keep what matters: the hero hits
everyone, the golem no one, everyone can miss, and nobody dies of one strike
except the weakest. `friendly_fire` needs only two monsters.

*Bounds of `hierarchical_mutex`.* Three threads, so that a cycle may have one
thread outside it and a mutex may be locked by a third between the unlock and
the next lock of another. The levels of the program's three mutexes in their
order, and a fourth mutex with the level of the middle one, which the check has
to keep apart from its equal. Threads are interchangeable, hence the symmetry.

*Bounds of `message_queue` and `cv_example`.* A wakeup is lost or stolen among
two sleepers and one thread that comes late, hence three receivers; two senders
so that one pushes before those woken by the other have the mutex. `MaxSent` is
the number of receivers, so that all may be woken for a message each, or one
message may be overtaken. `MaxItems` ends the counting of the producer, which
rests after four items until it is told to end: the handover repeats after the
first.

*Bounds of `block_manager`.* Nine bytes and pointers of two: blocks of 1, 2, 3 and 4
are smaller than a pointer, equal to it or larger, and fill the arena (3) or
leave a rest; 10 does not fit at all. There are up to four blocks, so
blocks may be returned to an empty list or to one with others, in any order.

*Bounds of `fixed_point`.* Integers of seven bits instead of 32, with `Half = 64`, and
for each type all numbers and all operands. The scales 10 and 16 leave numbers on
both sides of every limit the properties name: quotients and products in and out of
range, remainders above and below a quarter of it, divisors above half of it.
Binary fractions are written in eighths instead of thousandths, half as fine as the
scale: so they are rounded, 15/16 rounds to a whole one, and the scaled fraction overflows a
`long` from 8/16 on but never an `unsigned long`.
`MaxSum` lets sums leave the range in both directions and come back. No
property depends on the width, and the theorems are for all.

*Fairness of the threads.* Whoever has a mutex goes on (weak fairness), and a
thread that is offered a mutex again and again gets it at last (strong fairness
of `LockPop`, `Start`, `Resume` and `Terminate`). The library does not promise
the second; a scheduler that preempts gives it. In `CvExample` the main thread
sleeps a second first, so the workers do not keep it out. No wakeup happens by
itself in a fair behaviour, and nobody has to send.

*Fairness of the battle.* `FairSpec` has `WF(Next)`, the program runs on, and strong fairness of
`AttackerHits`: the side that opened a fight does not miss for ever. `rand()`
gives a hit with a positive probability in every strike, so a fight in which it
never does has probability zero. Nothing is assumed of the retaliating side,
which may be a golem that can never hit.

Each property has a mutant of the code that breaks it. Mutants stand in front of
the definitions they change and are used by no specification.

## Findings

1. **Failed plugins keep their registrations** (`PluginManager.cpp:116`). The
   documentation describes temporary maps; the header declares them and nothing
   uses them. `InitializedHoldsAll` still holds, but the types of a failed plugin
   are taken for ever, by factories nobody will clean up.
2. **`shutdown` does nothing** (`PluginManager.cpp:140`), nor does the destructor.
3. **The destroy function of a C wildcard gets the adapter**
   (`PluginManager.cpp:253`) when the promotion is refused: `object` was replaced in
   line 245. The promotion is refused for the type `""`, or when the create function
   has registered the type itself. `DestroyedOnConflictOnly` shows that there is no
   other way.
4. **Monsters fight each other** (`BattleManager.cpp:119`): one `Turn` is reused
   and its lists only grow. It is also what saves the phantom from a null pointer:
   the hero is appended behind whatever the iterator has passed (`PhantomFindsFoe`).

5. **The total is not the number of consumed items** (`concurrency.cpp:206`):
   `ItemsAreKept` says that `counter` is one more, or two when an item waits in
   `shared_data`, and if the workers start late it may be 0 or 1. The access
   without the mutex is a race only with that late start: once `terminate` is set
   under the mutex, `counter` does not change any more.

## Known limits

The following are limits the properties state in their conditions. No document
says otherwise, so they are no findings.

- *Blocks smaller than a pointer* (`block_mgr.inl:68`): the links of the fresh
  arena spoil each other, and `deallocate()` writes over the neighbour. The
  sample's own test does this where a pointer has eight bytes: its class has
  four.
- *A request that meets an empty list* (`block_mgr.inl:19`) sets `block_size_`, also when it is
  refused. A later one is compared with that: it may get a block too small for
  it, or be refused one that fits.
- *A first request larger than the arena* (`block_mgr.inl:61`) marks the arena as
  in use: every request is refused until `clear()`.
- *Rounding with a wide intermediate type* (`arithmetic_types.h:116`): the
  remainder is doubled at the width of a `long`, so a remainder of a quarter of
  the range or more is rounded wrongly. With the narrow type (line 74) the same overflow is
  undone by the subtraction that follows. `QuotientsAreNearest` says exactly when.
- *Rounding of unsigned numbers* (lines 94 and 136) compares by the sign of a
  wrapped difference, which is wrong for some divisors above half the range.
- *The dividend of `fixed_decimal`* (line 294) is multiplied before it is widened,
  that of `fixed_binary` (line 367) after, so only the second gains range by the
  long policy.
- *Negative numbers as text* (lines 319 and 395): a `fixed_decimal` between -1
  and 0 loses its sign, and a negative `fixed_binary` is written as a floor with
  a positive fraction behind it, unless that fraction rounds to 0.
- *Binary fractions as text* (line 394): `fixed_binary` writes at most three
  decimals, rounded to the nearest. A fraction that rounds to a whole one is not
  carried but begins with `':'` (possible from N = 11 on), and the fraction times
  1000 may overflow (from N = 22 on with `long`, 23 with `unsigned long`).
  `PrintedIsNearest` says exactly when the text is not the nearest number: in
  these cases, those of negative numbers, and no others.

## Proofs

TLAPS checks the following for every value of the constants that satisfies
the named assumption of its module (`ManagerAssumption`, `BattleAssumption`,
`MutexAssumption`, `QueueAssumption`, `ItemsAssumption`, `BlockAssumption`,
`NumberAssumption`).

`PluginManagerProofs`:

- `TypeCorrect`. `TypeOK` is inductive: it says of the running callback that its
  plugin, its exact match or its wildcard exists, and `RegistryGrows` (an owner
  stays, the wildcards only get longer) keeps that true across callbacks.
- `ObjectsComeFromOwners` is inductive with `TypeOK`, by `RegistryGrows`.
- `DestroyedOverType` needs `WildcardsValid`: what was accepted as a wildcard has
  its functions and the right version, so the promotion can fail for no other
  reason than the type.
- `InitializedPluginsHold` and `InitializedAtMostOnce` come from `InitInv`: the
  registrations made so far by the running, not refused init function hold
  (`InitProgress`), and past a registration by name its plugin's exit function
  is not stored yet (`InitFirst`): else the first run would hold the type and
  the second be refused.
- `OwnersAreLegitimate` (`OwnersWereRegistered`) follows `OriginInv`: the init
  function that runs is that of a plugin that is linked in or whose library was
  loaded, and every wildcard was registered as one by such a plugin; libraries are
  never unloaded (`PresentStays`), so a plugin of the program stays one. With
  `ObjectsComeFromOwners`, every object the host has received was made by a factory
  that was registered in this way.
- `RegistryImplemented`: every step is `Claim`, `HandOut`, `Adopt` or a stutter.

`BattleProofs`:

- `TypeCorrect`, with `FoesDoNotRunOut`: the iterator is never behind the end of
  the foes, so after the hero was appended there is one more to find.
- `TheDeadDoNotStrike`, `FactionIsExact`, `VictoryIsDecided` from `LivingInv`:
  the living are in the faction at all times, the faction is the living at the
  start of a turn, and the next striker is the target that survived.
- `HeroPicksTheWeakest` and `TurnsKill` from `TurnInv`: everyone is at the
  origin, so the hero reaches his enemy, and after his fight somebody is dead;
  `SmallerFaction` turns a lost member into a shorter list, by the cardinality
  theorems.
- `OnlyMissesHoldUp` (`OnlyMissesDelay`) is what remains of the end of the battle
  without fairness: every step is a miss, which only changes who strikes next, or
  comes nearer to the end, in the order of the length of the faction, then the place in
  `actors_`, then whether the actor fights already, then the health of the two.
  There is no infinite descent in this order, so the loops of `go`, `playTurn` and
  `attack` can run for ever only by missing for ever.
- `NoHopelessFight` (`AttackerCanHit`) says that the side that opened a fight can
  always hit, if the hero and the chasers attack with more than 1, as those of
  the program do (8 and 15): only they open fights (`OpenerInv`). So the strong
  fairness of `AttackerHits` asks nothing impossible of `rand()`.

`HierarchicalMutexProofs`, for every `MutexAssumption`, also infinitely many
threads:

- `TypeOK`, `OwnInv` and `LevelInv` are inductive together. `OwnInv` says that
  what is owned is under a guard of the owner or in its call, never both;
  `LevelInv` that a check once passed stays true until the level is updated
  (`Passed`) and that a guarded mutex stores the level of the guard outside it
  (`SavedLevels`). That a popped mutex is under no other guard of the thread
  comes from the strict order of the levels, so neither holds without the other.
- `TypeCorrect`, `GuardsExclude`, `LevelIsRestored` and `HierarchyHolds` are
  parts of it.
- `HierarchyIsLockOrder` (`ImplementsLockOrder`): `Update` is `Take`, because
  the level that the check compared is that of the innermost guard
  (`LevelInv`), all other guards are above it (`HeldDescends`), and nobody else has
  the inner mutex (`OwnInv`); `Unlock` is `LetGo`, all else stutters (`OrderStep`).
- `DeadlockFree`: if the owner of what `t` waits for waits itself, it waits for a
  lower mutex (`OwnerWaitsLower`); in a set of threads that all wait for each
  other, the one that waits for the lowest mutex contradicts this.

`MessageQueueProofs`, for every number of threads:

- `TypeCorrect` and `PopsFind` are inductive together: what a receiver has tested
  stays true until it acts on it, because it has the mutex (`TestInv`).
- `WakeupsSuffice`: `NoLostWakeup` counts the threads that are awake for messages
  (`Awake`). Steps that only add to them lose nothing (`NothingLost`); a push is
  paid for by the notification that follows, a `Pop` takes one message and one
  thread away, and who goes to sleep has seen an empty queue.
- `NeverDeadlocked` (`SomebodyGoesOn`): while a message waits, a thread has the
  mutex or a receiver is about to take it, unless all dispatchers have ended. It
  follows from `NoLostWakeup` by counting.
- `ClosesEndOne` (`OneEndPerClose`): as many dispatchers have ended as
  `close_queue` messages were received, although `notify_all()` wakes them all.
- `QueueIsChannel`: the queue is what was sent and not received (`RestInv`), so
  every step is `Send`, `Receive` or a stutter.

`CvExampleProofs`, for every number of items:

- `TypeCorrect`, and `WakeupsArrive` with `WaitInv`, which carries what a worker saw
  when it called `cv.wait()` to the step in which it sleeps.
- `ItemsAccounted`: `counter`, `shared_data` and what was consumed fit together.
- `IntegerIsChannel` (`ImplementsChannel`): with `ItemsAccounted`, `Produce` is
  `Send` and `Consume` is `Receive`; that what `Produce` makes is one of the messages
  comes from `ProducerInv`.
- `NeverDeadlocked` (`SomebodyGoesOn`): until `main` has returned, some thread can
  take a step that is not a spurious wakeup. It follows from `NoLostWakeup`: one of
  two sleeping workers would have reason to be awake.

`BlockManagerProofs`, for every arena, pointer and set of sizes:

- `TypeOK` and `LayoutInv` (an arena that is laid out has the block size of its
  layout, and `block_size_` is one of the refused sizes or the layout's) are
  inductive without any condition; `Tidy` is inductive where `Orderly` holds,
  which once false stays so until `clear()`.
- `Tidy` has three parts: every object starts at a block of its own and fits in
  it (`HeldInBlocks`), links are only in free blocks (`LinksInFreeBlocks`), and
  there is a list of the free blocks that the links spell out (`HasFreeList`). An
  allocation takes its head, a return puts one before it (`NewTidy`, `DeleteTidy`);
  a write within a block touches no other (`WriteApart`, from `BlocksApart`).
- `TypeCorrect`, `ObjectsApart`, `ListIsWhole`, `LinksKeptOut` and
  `RefusalsJustified` follow from these.
- `ManagerIsPool` (`ImplementsPool`). The mapping chooses the list that the links
  spell out; there is only one (`FreeListIsOne`, because two lists with the same first
  block and the same links cannot differ at a first place: `OneList`). With it,
  `NewInFreshArena` is `Open`, `New` is `Take`, `Delete` is `GiveBack`, `Clear` is
  `Clear` (`FreshOpens`, `NewTakes`, `DeleteGivesBack`, `ClearClears`), and the
  rest stutters (`ListStays`). The statement is about the steps that end in orderly
  use; `OrderlyUseIsPool` is its consequence for a program that uses the manager in order
  throughout: `Spec /\ []Orderly => Pool!Spec`.

`FixedPointProofs`, for every width, every scale of at most a quarter of the
range, and every bound on the sums:

- The only invariant needed is that `rep` is a `rep_t` that differs from `sum`
  by a multiple of the range. `SumsAreRight` is then that two numbers in the
  range with such a difference are equal (`NarrowIs`).
- `Truncation` says what `/` and `%` give for all signs, `RoundingRule` what a
  correction by one makes of it, `NearestUnique` that there is one nearest
  number. `Comparison` is the core: the code's sign test, with all its
  wraparounds, is the comparison of the doubled remainder with the divisor exactly
  under `DoubleFits`. `RoundedIsNearest` joins them.
- `QuotientsRounded` applies this to the division, `ProductsRounded` to the scaling of a
  product, where the divisor is small enough to fit (`SmallDivisorFits`),
  `DivisionsUndone` to both in a row: the error of the first is less than what
  the second rounds away.
- `PrintsRightly`: a `fixed_decimal` is written exactly or without its sign. For a
  `fixed_binary`, a small divisor always has a nearest quotient in the range
  (`NearestExists`), so `Written` is the narrowed fraction rounded. `Fractions`
  says what that is: where the scaled fraction is a `rep_t`, a whole one or nothing exactly
  when it is within half a unit of them; where it is not, too small by the range or more.

Every property of a passing run that is not a liveness property is stated by a
theorem. Eight theorems state a property that no run has: `TurnsKill`
(`EveryTurnKills`), `NoHopelessFight`, `HierarchyHolds` (`HeldDescends`),
`NeverDeadlocked` of both threaded modules, `ClosesEndOne`, `ListIsWhole`
(`FreeListIsWhole`) and `OwnersAreLegitimate`. TLC finds all of these true of the
instances of the runs; what the runs have in their place is stronger, or is
what they follow from. `OrderlyUseIsPool` is a consequence of `ManagerIsPool`.

Only model-checked: `BattleEnds`, `Returns` and `EveryMessageIsReceived`, because
liveness under fairness, and ENABLED with it, is out of the prover's reach. What is
proved in their place are the safety properties that they rest on: that only
misses delay the battle and that whoever opened a fight can hit
(`OnlyMissesHoldUp`, `NoHopelessFight`), and that in the threaded modules somebody
can always go on (`NeverDeadlocked`). That `EndTurn` can always be taken, because a
list without the dead always exists, would need an induction over data; the proofs
speak of the steps that are taken, and the run of `battle` shows that it is never
stuck. The violated properties are counterexamples, not theorems.

## Not modelled

See the components in `PROJECT.json` with their reasons. Most lines of the
repository are the Boost and APR headers under `PluginFramework/include`, which
are third-party code that the program hardly uses: the modules cover a good part
of the repository's own stateful code, and next to nothing of its total.

- *Creation of monsters through the manager* (`BattleManager.cpp:84`), with its two
  unchecked results (no type registered, no object made): the initial state of
  `Battle` is the one after it. It is left for `Game`, with the copies of
  `invokeService` in the actors.
- *`findClosest` on the plane*: everyone stays at the origin; left for `Movement`.
- *Adapters*: the exception barrier, and their lifetime, which nothing ends.
- *Exceptions, paths, directories*: formatting, string handling and file I/O,
  much of it stubs.
- *The other memory managers*: `block_o_memory` in `old_stl_block_allocator.cpp`
  is an array of flags without links, `mem_mgr_fixed.cpp` is compiled out, and the
  allocators of the headers forward to the library.
- *Fixed point*: conversions from and to `double`, the layout of the text,
  comparisons, and the benchmarks.
- *Copy control samples*: `Message::operator=` and `swap` leave the folders as
  they are, and no program uses them; `string_vector` and
  `StrBlobPtr` are single objects that own or observe one buffer.
- *Text queries*: expressions over the results of the library's set operations.
- *The remaining one-page samples and benchmarks* show features of the standard
  library and keep no state.
