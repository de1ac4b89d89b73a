------------------------- MODULE PluginManagerProofs -------------------------
(***************************************************************************)
(* Proofs about PluginManager for every set of plugins, types, factories   *)
(* and libraries, and for every bound.                                     *)
(***************************************************************************)
EXTENDS PluginManager, TLAPS

USE ManagerAssumption

(* registerObject() keeps the types of the two registration structures. *)
LEMMA RegisterObjectTypes ==
  ASSUME RegistryOK, NEW type \in Names, NEW f \in Factories,
         RegisterObject(type, f)
  PROVE  /\ RegistryOK'
         /\ Len(wildCardVec') >= Len(wildCardVec)
  BY DEF RegistryOK, RegisterObject, Accepts, IsValid, Names

(* registerObject() is write-once: an owner stays, and a type gains one    *)
(* only through a registration of that type that is accepted.              *)
LEMMA RegisterObjectWritesOnce ==
  ASSUME RegistryOK, NEW type \in Names, NEW f \in Factories,
         RegisterObject(type, f), NEW t \in Types
  PROVE  /\ exactMatchMap[t] # NoFactory => exactMatchMap'[t] = exactMatchMap[t]
         /\ exactMatchMap'[t] \in {exactMatchMap[t], f}
         /\ type = t /\ Accepts(exactMatchMap, type, f) => exactMatchMap'[t] = f
  BY DEF RegistryOK, RegisterObject, Accepts, IsValid, Names

(* What a step leaves alone keeps its type. *)
LEMMA RegistryKept == RegistryOK /\ UNCHANGED registry => RegistryOK'
  BY DEF RegistryOK, registry

LEMMA ObjectsKept == ObjectsOK /\ UNCHANGED objects => ObjectsOK'
  BY DEF ObjectsOK, objects

LEMMA LibraryKept == LibraryOK /\ UNCHANGED library => LibraryOK'
  BY DEF LibraryOK, library

(* The call of an init function sets up its frame. *)
LEMMA EnterInitTypes ==
  ASSUME TypeOK, NEW p \in Plugins, EnterInit(p)
  PROVE  pc' = "init" /\ InitFrameOK' /\ CreateFrameOK'
  <1>1. Len(Script[p]) \in Nat
    BY DEF Registrations
  <1>2. InitFrameOK'
    <2>1. plugin' = p /\ registered' = 0 /\ failed' = FALSE
      BY DEF EnterInit
    <2>2. p # NoPlugin /\ 0 <= Len(Script[p])
      BY <1>1
    <2> QED
      BY <2>1, <2>2 DEF InitFrameOK
  <1>3. pc' = "init" /\ CreateFrameOK'
    BY DEF EnterInit, TypeOK, CreateFrameOK
  <1> QED
    BY <1>2, <1>3

(* The return to the host clears the frame of createObject(). *)
LEMMA LeaveCreateTypes ==
  ASSUME TypeOK, LeaveCreate
  PROVE  pc' = "idle" /\ LibraryOK' /\ InitFrameOK' /\ CreateFrameOK'
  BY LibraryKept DEF LeaveCreate, TypeOK, InitFrameOK, CreateFrameOK

-----------------------------------------------------------------------------
(* Type correctness. *)

LEMMA InitTypes == Init => TypeOK
  <1> SUFFICES ASSUME Init PROVE TypeOK
    OBVIOUS
  <1>1. RegistryOK /\ LibraryOK
    BY DEF Init, RegistryOK, LibraryOK
  <1>2. InitFrameOK
    BY DEF Init, InitFrameOK
  <1>3. CreateFrameOK
    BY DEF Init, CreateFrameOK
  <1>4. ObjectsOK
    BY DEF Init, ObjectsOK
  <1> QED
    BY <1>1, <1>2, <1>3, <1>4 DEF Init, TypeOK

LEMMA NextTypes == TypeOK /\ [Next]_vars => TypeOK'
  <1> SUFFICES ASSUME TypeOK, [Next]_vars PROVE TypeOK'
    OBVIOUS
  <1> USE DEF TypeOK
  <1>1. ASSUME NEW p \in Static, InitializePlugin(p) PROVE TypeOK'
    <2>1. UNCHANGED registry /\ UNCHANGED library /\ UNCHANGED objects
      BY <1>1 DEF InitializePlugin
    <2>2. EnterInit(p)
      BY <1>1 DEF InitializePlugin
    <2> QED
      BY <2>1, <2>2, EnterInitTypes, RegistryKept, LibraryKept, ObjectsKept
  <1>2. ASSUME NEW path \in Paths, LoadByPath(path) PROVE TypeOK'
    <2>1. UNCHANGED registry /\ UNCHANGED objects
      BY <1>2 DEF LoadByPath
    <2>2. LibraryOK'
      BY <1>2 DEF LoadByPath, LibraryOK
    <2>3. CASE path \in Loadable /\ EntryPoint[path] # NoPlugin
      <3>1. EntryPoint[path] \in Plugins /\ EnterInit(EntryPoint[path])
        BY <1>2, <2>3 DEF LoadByPath
      <3> QED
        BY <2>1, <2>2, <3>1, EnterInitTypes, RegistryKept, ObjectsKept
    <2>4. CASE ~(path \in Loadable /\ EntryPoint[path] # NoPlugin)
      <3>1. UNCHANGED <<pc, frame>>
        BY <1>2, <2>4 DEF LoadByPath
      <3>2. InitFrameOK' /\ CreateFrameOK'
        BY <2>1, <3>1 DEF InitFrameOK, CreateFrameOK, frame, registry
      <3> QED
        BY <2>1, <2>2, <3>1, <3>2, RegistryKept, ObjectsKept
    <2> QED
      BY <2>3, <2>4
  <1>3. CASE InitRegisters
    <2> DEFINE r == Script[plugin][registered + 1]
    <2>1. plugin \in Plugins /\ registered + 1 \in 1..Len(Script[plugin])
      BY <1>3 DEF InitRegisters, InitFrameOK, Registrations
    <2>2. r \in Registrations
      BY <2>1
    <2>3. r.type \in Names /\ r.factory \in Factories
      BY <2>2 DEF Registrations
    <2>4. RegistryOK'
      BY <1>3, <2>3, RegisterObjectTypes DEF InitRegisters
    <2>5. InitFrameOK'
      BY <1>3, <2>1 DEF InitRegisters, InitFrameOK
    <2>6. CreateFrameOK' /\ UNCHANGED pc
      BY <1>3 DEF InitRegisters, CreateFrameOK
    <2> QED
      BY <1>3, <2>4, <2>5, <2>6, LibraryKept, ObjectsKept DEF InitRegisters
  <1>4. CASE InitReturns
    <2>1. LeaveInit
      BY <1>4 DEF InitReturns, InitSucceeds, InitFails
    <2>2. LibraryOK'
      BY <1>4, <2>1 DEF InitReturns, InitSucceeds, InitFails, LeaveInit,
                        LibraryOK, InitFrameOK
    <2>3. InitFrameOK' /\ CreateFrameOK'
      BY <2>1 DEF LeaveInit, InitFrameOK, CreateFrameOK
    <2> QED
      BY <2>1, <2>2, <2>3, RegistryKept, ObjectsKept DEF LeaveInit
  <1>5. ASSUME NEW type \in Names, CreateObject(type) PROVE TypeOK'
    <2>1. InitFrameOK' /\ pc' \in {"exact", "wild"}
      BY <1>5 DEF CreateObject, InitFrameOK
    <2>2. CreateFrameOK'
      BY <1>5 DEF CreateObject, CreateFrameOK, RegistryOK, registry, Names
    <2> QED
      BY <1>5, <2>1, <2>2, RegistryKept, LibraryKept, ObjectsKept DEF CreateObject
  <1>6. ASSUME NEW r \in Reentries, CreateRegisters(r) PROVE TypeOK'
    <2>1. /\ r.type \in Names /\ r.factory \in Factories
          /\ RegisterObject(r.type, r.factory)
          /\ UNCHANGED library /\ UNCHANGED <<pc, frame>> /\ UNCHANGED objects
      BY <1>6 DEF CreateRegisters, Names
    <2>2. RegistryOK' /\ Len(wildCardVec') >= Len(wildCardVec)
      BY <2>1, RegisterObjectTypes
    <2>3. InitFrameOK'
      BY <2>1 DEF InitFrameOK, frame
    <2>4. pc = "exact" => exactMatchMap'[objectType] = exactMatchMap[objectType]
      BY <2>1, RegisterObjectWritesOnce DEF CreateFrameOK
    <2>5. CreateFrameOK'
      BY <2>1, <2>2, <2>4 DEF CreateFrameOK, RegistryOK, frame
    <2> QED
      BY <2>1, <2>2, <2>3, <2>5, LibraryKept, ObjectsKept
  <1>7. CASE CreateReturns
    <2>1. CASE ExactCreates
      <3> DEFINE f == exactMatchMap[objectType]
      <3>1. f \in Factories /\ objectType \in Types
        BY <2>1 DEF CreateFrameOK, RegistryOK, ExactCreates
      <3>2. ObjectsOK'
        BY <2>1, <3>1 DEF ObjectsOK, ExactCreates, Adapted
      <3> QED
        BY <2>1, <3>2, RegistryKept, LeaveCreateTypes DEF ExactCreates
    <2>2. CASE ExactDeclines
      <3>1. InitFrameOK' /\ CreateFrameOK' /\ pc' = "wild"
        BY <2>2 DEF ExactDeclines, InitFrameOK, CreateFrameOK, RegistryOK, registry
      <3> QED
        BY <2>2, <3>1, RegistryKept, LibraryKept, ObjectsKept DEF ExactDeclines
    <2>3. CASE WildcardCreates
      <3> DEFINE f == wildCardVec[wild]
      <3>1. f \in Factories /\ objectType \in Names
        BY <2>3 DEF CreateFrameOK, RegistryOK, WildcardCreates, Names
      <3>2. RegistryOK'
        BY <2>3, <3>1, RegisterObjectTypes DEF WildcardCreates
      <3>3. Accepts(exactMatchMap, objectType, f) => objectType \in Types
        BY DEF CreateFrameOK, Accepts, IsValid
      <3>4. ObjectsOK'
        BY <2>3, <3>1, <3>3 DEF ObjectsOK, CreateFrameOK, WildcardCreates, Adapted
      <3> QED
        BY <2>3, <3>2, <3>4, LeaveCreateTypes DEF WildcardCreates
    <2>4. CASE WildcardDeclines
      <3>1. InitFrameOK' /\ CreateFrameOK' /\ UNCHANGED pc
        BY <2>4 DEF WildcardDeclines, InitFrameOK, CreateFrameOK, RegistryOK, registry
      <3> QED
        BY <2>4, <3>1, RegistryKept, LibraryKept, ObjectsKept DEF WildcardDeclines
    <2>5. CASE NoneCreates
      BY <2>5, LeaveCreateTypes, RegistryKept, ObjectsKept DEF NoneCreates
    <2> QED
      BY <1>7, <2>1, <2>2, <2>3, <2>4, <2>5 DEF CreateReturns
  <1>8. ASSUME NEW s \in Services, SetInvokeService(s) \/ LoadAll(s) PROVE TypeOK'
    <2>1. LibraryOK' /\ UNCHANGED registry /\ UNCHANGED objects /\ UNCHANGED <<pc, frame>>
      BY <1>8 DEF SetInvokeService, LoadAll, LibraryOK
    <2>2. InitFrameOK' /\ CreateFrameOK'
      BY <2>1 DEF InitFrameOK, CreateFrameOK, frame, registry
    <2> QED
      BY <2>1, <2>2, RegistryKept, ObjectsKept
  <1>9. CASE Shutdown
    <2>1. InitFrameOK' /\ CreateFrameOK' /\ pc' = "down"
      BY <1>9 DEF Shutdown, InitFrameOK, CreateFrameOK, frame, registry
    <2> QED
      BY <1>9, <2>1, RegistryKept, LibraryKept, ObjectsKept DEF Shutdown
  <1>10. CASE Ended \/ UNCHANGED vars
    <2>1. UNCHANGED vars
      BY <1>10 DEF Ended
    <2>2. InitFrameOK' /\ CreateFrameOK' /\ UNCHANGED pc
      BY <2>1 DEF vars, InitFrameOK, CreateFrameOK, frame, registry
    <2> QED
      BY <2>1, <2>2, RegistryKept, LibraryKept, ObjectsKept DEF vars
  <1> QED
    BY <1>1, <1>2, <1>3, <1>4, <1>5, <1>6, <1>7, <1>8, <1>9, <1>10 DEF Next

(* The variables keep their types in every reachable state. *)
THEOREM TypeCorrect == Spec => []TypeOK
  BY InitTypes, NextTypes, PTL DEF Spec

-----------------------------------------------------------------------------
(* What every step does to the registry. *)

(* A step leaves the registrations alone or is one call of registerObject(). *)
LEMMA RegistryStep ==
  ASSUME TypeOK, [Next]_vars
  PROVE  \/ UNCHANGED registry
         \/ \E type \in Names, f \in Factories : RegisterObject(type, f)
  <1>1. CASE InitRegisters
    <2> DEFINE r == Script[plugin][registered + 1]
    <2>1. plugin \in Plugins /\ registered + 1 \in 1..Len(Script[plugin])
      BY <1>1 DEF InitRegisters, TypeOK, InitFrameOK, Registrations
    <2>2. r \in Registrations
      BY <2>1
    <2> QED
      BY <1>1, <2>2 DEF InitRegisters, Registrations
  <1>2. ASSUME NEW r \in Reentries, CreateRegisters(r)
        PROVE  \E type \in Names, f \in Factories : RegisterObject(type, f)
    BY <1>2 DEF CreateRegisters, Names
  <1>3. CASE WildcardCreates
    BY <1>3 DEF WildcardCreates, TypeOK, CreateFrameOK, RegistryOK, Names
  <1> QED
    BY <1>1, <1>2, <1>3
    DEF Next, vars, InitializePlugin, LoadByPath, InitReturns, InitSucceeds,
        InitFails, LeaveInit, CreateObject, CreateReturns, ExactCreates,
        ExactDeclines, WildcardDeclines, NoneCreates, SetInvokeService, LoadAll,
        Shutdown, Ended

(* The registry only grows: an owner is never replaced or removed, and the *)
(* wildcards keep their places.                                            *)
LEMMA RegistryGrows ==
  ASSUME TypeOK, [Next]_vars
  PROVE  /\ \A t \in Types : exactMatchMap[t] # NoFactory =>
                             exactMatchMap'[t] = exactMatchMap[t]
         /\ \A i \in 1..Len(wildCardVec) :
              i \in 1..Len(wildCardVec') /\ wildCardVec'[i] = wildCardVec[i]
  <1>1. CASE UNCHANGED registry
    BY <1>1 DEF registry
  <1>2. ASSUME NEW type \in Names, NEW f \in Factories, RegisterObject(type, f)
        PROVE  /\ \A t \in Types : exactMatchMap[t] # NoFactory =>
                                   exactMatchMap'[t] = exactMatchMap[t]
               /\ \A i \in 1..Len(wildCardVec) :
                    i \in 1..Len(wildCardVec') /\ wildCardVec'[i] = wildCardVec[i]
    <2>1. \A t \in Types : exactMatchMap[t] # NoFactory =>
                           exactMatchMap'[t] = exactMatchMap[t]
      BY <1>2, RegisterObjectWritesOnce DEF TypeOK
    <2>2. \A i \in 1..Len(wildCardVec) :
             i \in 1..Len(wildCardVec') /\ wildCardVec'[i] = wildCardVec[i]
      BY <1>2 DEF RegisterObject, TypeOK, RegistryOK
    <2> QED
      BY <2>1, <2>2
  <1> QED
    BY <1>1, <1>2, RegistryStep

(* A step hands out at most one object, and only in the two returns of     *)
(* createObject().                                                         *)
LEMMA HandedOutStep ==
  ASSUME TypeOK, [Next]_vars
  PROVE  \/ UNCHANGED handedOut
         \/ ExactCreates
         \/ WildcardCreates
  BY DEF Next, vars, objects, InitializePlugin, LoadByPath, InitRegisters,
         InitReturns, InitSucceeds, InitFails, LeaveInit, CreateObject,
         CreateRegisters, CreateReturns, ExactDeclines, WildcardDeclines,
         NoneCreates, SetInvokeService, LoadAll, Shutdown, Ended

(* What an exact match hands out: an object of the type's owner. *)
LEMMA ExactHandsOut ==
  ASSUME TypeOK, ExactCreates
  PROVE  LET f == exactMatchMap[objectType] IN
           /\ objectType \in Types /\ f \in Factories /\ f # NoFactory
           /\ handedOut' = handedOut \cup
                {[type |-> objectType, maker |-> f, as |-> Adapted(f)]}
           /\ UNCHANGED exactMatchMap
  BY DEF ExactCreates, TypeOK, CreateFrameOK, RegistryOK, registry

(* What a wildcard does: either its factory becomes the owner of the type  *)
(* and the object is handed out, or neither changes.                       *)
LEMMA WildcardHandsOut ==
  ASSUME TypeOK, WildcardCreates
  PROVE  LET f == wildCardVec[wild] IN
           /\ f \in Factories
           /\ \/ /\ Accepts(exactMatchMap, objectType, f)
                 /\ objectType \in Types
                 /\ exactMatchMap[objectType] = NoFactory
                 /\ exactMatchMap' = [exactMatchMap EXCEPT ![objectType] = f]
                 /\ handedOut' = handedOut \cup
                      {[type |-> objectType, maker |-> f, as |-> Adapted(f)]}
              \/ /\ ~Accepts(exactMatchMap, objectType, f)
                 /\ UNCHANGED <<exactMatchMap, handedOut>>
  <1> DEFINE f == wildCardVec[wild]
  <1>1. f \in Factories /\ objectType \in Types \cup {Empty}
    BY DEF WildcardCreates, TypeOK, CreateFrameOK, RegistryOK
  <1>2. CASE Accepts(exactMatchMap, objectType, f)
    <2>1. objectType \in Types
      BY <1>1, <1>2 DEF Accepts, IsValid
    <2>2. objectType # Star
      BY <2>1
    <2> QED
      BY <1>1, <1>2, <2>1, <2>2 DEF WildcardCreates, RegisterObject, Accepts
  <1>3. CASE ~Accepts(exactMatchMap, objectType, f)
    BY <1>1, <1>3 DEF WildcardCreates, RegisterObject
  <1> QED
    BY <1>2, <1>3

-----------------------------------------------------------------------------
(* Objects and owners. *)

LEMMA NextHandedOut ==
  TypeOK /\ HandedOutByOwner /\ [Next]_vars => HandedOutByOwner'
  <1> SUFFICES ASSUME TypeOK, HandedOutByOwner, [Next]_vars,
                      NEW o \in handedOut'
               PROVE  exactMatchMap'[o.type] = o.maker
    BY DEF HandedOutByOwner
  <1>1. CASE o \in handedOut
    <2>1. o.type \in Types /\ o.maker \in Factories
      BY <1>1 DEF TypeOK, ObjectsOK
    <2>2. exactMatchMap[o.type] = o.maker /\ o.maker # NoFactory
      BY <1>1, <2>1 DEF HandedOutByOwner
    <2> QED
      BY <2>1, <2>2, RegistryGrows
  <1>2. CASE o \notin handedOut
    <2>1. CASE ExactCreates
      BY <1>2, <2>1, ExactHandsOut
    <2>2. CASE WildcardCreates
      BY <1>2, <2>2, WildcardHandsOut DEF TypeOK, RegistryOK
    <2> QED
      BY <1>2, <2>1, <2>2, HandedOutStep
  <1> QED
    BY <1>1, <1>2

(* Every object the host holds was made by the factory registered for its  *)
(* type.                                                                   *)
THEOREM ObjectsComeFromOwners == Spec => []HandedOutByOwner
  <1>1. Init => HandedOutByOwner
    BY DEF Init, HandedOutByOwner
  <1> QED
    BY <1>1, NextHandedOut, TypeCorrect, PTL DEF Spec

-----------------------------------------------------------------------------
(* The refinement of PluginRegistry. *)

Handed == {[type |-> o.type, maker |-> o.maker] : o \in handedOut}

LEMMA HandedGrows ==
  ASSUME NEW type, NEW f, NEW form,
         handedOut' = handedOut \cup {[type |-> type, maker |-> f, as |-> form]}
  PROVE  Handed' = Handed \cup {[type |-> type, maker |-> f]}
  <1> DEFINE new == [type |-> type, maker |-> f, as |-> form]
  <1>1. new.type = type /\ new.maker = f
    OBVIOUS
  <1> HIDE DEF new
  <1>2. Handed' = {[type |-> o.type, maker |-> o.maker] : o \in handedOut \cup {new}}
    BY DEF Handed, new
  <1> QED
    BY <1>1, <1>2 DEF Handed

LEMMA NextRefines ==
  TypeOK /\ [Next]_vars => [Registry!Next]_(Registry!registryVars)
  <1> SUFFICES ASSUME TypeOK, [Next]_vars
               PROVE  Registry!Next \/ UNCHANGED <<exactMatchMap, Handed>>
    BY DEF Registry!registryVars, Handed
  <1>1. CASE ExactCreates
    <2> DEFINE f == exactMatchMap[objectType]
    <2>1. objectType \in Types /\ f # NoFactory /\ UNCHANGED exactMatchMap
      BY <1>1, ExactHandsOut
    <2>2. Handed' = Handed \cup {[type |-> objectType, maker |-> f]}
      BY <1>1, ExactHandsOut, HandedGrows
    <2>3. PICK t \in Types : t = objectType
      BY <2>1
    <2>4. Registry!HandOut(t)
      BY <2>1, <2>2, <2>3 DEF Registry!HandOut, Handed
    <2> QED
      BY <2>4 DEF Registry!Next
  <1>2. CASE WildcardCreates
    <2> DEFINE f == wildCardVec[wild]
    <2>1. CASE Accepts(exactMatchMap, objectType, f)
      <3>1. /\ f \in Factories /\ objectType \in Types
            /\ exactMatchMap[objectType] = NoFactory
            /\ exactMatchMap' = [exactMatchMap EXCEPT ![objectType] = f]
        BY <1>2, <2>1, WildcardHandsOut
      <3>2. Handed' = Handed \cup {[type |-> objectType, maker |-> f]}
        BY <1>2, <2>1, WildcardHandsOut, HandedGrows
      <3>3. PICK t \in Types, g \in Factories : t = objectType /\ g = f
        BY <3>1
      <3>4. Registry!Adopt(t, g)
        BY <3>1, <3>2, <3>3 DEF Registry!Adopt, Handed
      <3> QED
        BY <3>4 DEF Registry!Next
    <2>2. CASE ~Accepts(exactMatchMap, objectType, f)
      BY <1>2, <2>2, WildcardHandsOut DEF Handed
    <2> QED
      BY <2>1, <2>2
  <1>3. CASE UNCHANGED handedOut
    <2>1. Handed' = Handed
      BY <1>3 DEF Handed
    <2>2. CASE UNCHANGED registry
      BY <2>1, <2>2 DEF registry
    <2>3. ASSUME NEW type \in Names, NEW f \in Factories, RegisterObject(type, f)
          PROVE  Registry!Next \/ UNCHANGED <<exactMatchMap, Handed>>
      <3>1. CASE type \in Types /\ Accepts(exactMatchMap, type, f)
        <4>1. /\ exactMatchMap[type] = NoFactory
              /\ exactMatchMap' = [exactMatchMap EXCEPT ![type] = f]
          BY <2>3, <3>1 DEF RegisterObject, Accepts
        <4>2. Registry!Claim(type, f)
          BY <2>1, <4>1 DEF Registry!Claim, Handed
        <4> QED
          BY <3>1, <4>2 DEF Registry!Next
      <3>2. CASE ~(type \in Types /\ Accepts(exactMatchMap, type, f))
        BY <2>1, <2>3, <3>2 DEF RegisterObject, Accepts, IsValid, Names
      <3> QED
        BY <3>1, <3>2
    <2> QED
      BY <2>2, <2>3, RegistryStep
  <1> QED
    BY <1>1, <1>2, <1>3, HandedOutStep

(* The manager implements the write-once registry. *)
THEOREM RegistryImplemented == Spec => ImplementsRegistry
  <1>1. Init => Registry!Init
    BY DEF Init, Registry!Init
  <1> QED
    BY <1>1, NextRefines, TypeCorrect, PTL DEF Spec, ImplementsRegistry, Registry!Spec

-----------------------------------------------------------------------------
(* Objects that are thrown away. *)

(* A wildcard passed the checks of registerObject() when it was accepted,  *)
(* so that the promotion can only trip over the type.                      *)
WildcardsValid ==
  \A i \in 1..Len(wildCardVec) :
    wildCardVec[i] \in Complete /\ Major[wildCardVec[i]] = ApiMajor

LEMMA NextWildcardsValid ==
  TypeOK /\ WildcardsValid /\ [Next]_vars => WildcardsValid'
  <1> SUFFICES ASSUME TypeOK, WildcardsValid, [Next]_vars PROVE WildcardsValid'
    OBVIOUS
  <1>1. CASE UNCHANGED registry
    BY <1>1 DEF registry, WildcardsValid
  <1>2. ASSUME NEW type \in Names, NEW f \in Factories, RegisterObject(type, f)
        PROVE  WildcardsValid'
    BY <1>2 DEF RegisterObject, Accepts, IsValid, WildcardsValid, TypeOK, RegistryOK
  <1> QED
    BY <1>1, <1>2, RegistryStep

LEMMA DestroyedStep ==
  ASSUME TypeOK, [Next]_vars
  PROVE  UNCHANGED destroyed \/ WildcardCreates
  BY DEF Next, vars, objects, InitializePlugin, LoadByPath, InitRegisters,
         InitReturns, InitSucceeds, InitFails, LeaveInit, CreateObject,
         CreateRegisters, CreateReturns, ExactCreates, ExactDeclines,
         WildcardDeclines, NoneCreates, SetInvokeService, LoadAll, Shutdown,
         Ended

LEMMA NextDestroyed ==
  TypeOK /\ WildcardsValid /\ DestroyedOnConflictOnly /\ [Next]_vars
    => DestroyedOnConflictOnly'
  <1> SUFFICES ASSUME TypeOK, WildcardsValid, DestroyedOnConflictOnly, [Next]_vars,
                      NEW d \in destroyed', d.type # Empty
               PROVE  exactMatchMap'[d.type] # NoFactory
    BY DEF DestroyedOnConflictOnly
  <1>1. CASE d \in destroyed
    <2>1. d.type \in Types /\ exactMatchMap[d.type] # NoFactory
      BY <1>1 DEF TypeOK, ObjectsOK, DestroyedOnConflictOnly
    <2> QED
      BY <2>1, RegistryGrows
  <1>2. CASE d \notin destroyed
    <2> DEFINE f == wildCardVec[wild]
    <2>1. WildcardCreates
      BY <1>2, DestroyedStep
    <2>2. d.type = objectType /\ ~Accepts(exactMatchMap, objectType, f)
      BY <1>2, <2>1 DEF WildcardCreates
    <2>3. f \in Complete /\ Major[f] = ApiMajor
      BY <2>1 DEF WildcardCreates, WildcardsValid, TypeOK, CreateFrameOK
    <2>4. exactMatchMap[objectType] # NoFactory
      BY <2>2, <2>3 DEF Accepts, IsValid
    <2> QED
      BY <2>1, <2>2, <2>4, WildcardHandsOut
  <1> QED
    BY <1>1, <1>2

(* An object is destroyed by createObject() only over its type. *)
THEOREM DestroyedOverType == Spec => []DestroyedOnConflictOnly
  <1>1. Init => WildcardsValid /\ DestroyedOnConflictOnly
    BY DEF Init, WildcardsValid, DestroyedOnConflictOnly
  <1> QED
    BY <1>1, NextWildcardsValid, NextDestroyed, TypeCorrect, PTL DEF Spec

-----------------------------------------------------------------------------
(* Where the owners come from. *)

(* The init function that runs is that of a plugin of the program, and the *)
(* wildcards were registered as such.                                      *)
OriginInv ==
  /\ pc = "init" => Present(plugin)
  /\ \A i \in 1..Len(wildCardVec) : WasRegistered(Star, wildCardVec[i])
  /\ OwnersWereRegistered

(* Libraries are loaded and never unloaded. *)
LEMMA PresentStays ==
  ASSUME TypeOK, [Next]_vars
  PROVE  /\ \A p : Present(p) => Present(p)'
         /\ \A type, f : WasRegistered(type, f) => WasRegistered(type, f)'
  <1>1. dynamicLibraryMap \subseteq dynamicLibraryMap'
    BY DEF Next, vars, library, InitializePlugin, LoadByPath, InitRegisters,
           InitReturns, InitSucceeds, InitFails, LeaveInit, CreateObject,
           CreateRegisters, CreateReturns, LeaveCreate, ExactCreates,
           ExactDeclines, WildcardCreates, WildcardDeclines, NoneCreates,
           SetInvokeService, LoadAll, Shutdown, Ended
  <1>2. \A p : Present(p) => Present(p)'
    BY <1>1 DEF Present
  <1> QED
    BY <1>2 DEF WasRegistered

(* The init function a step calls is that of a plugin of the program. *)
LEMMA NextRunning ==
  ASSUME TypeOK, OriginInv, [Next]_vars, pc' = "init"
  PROVE  Present(plugin)'
  <1>1. ASSUME NEW p \in Static, InitializePlugin(p) PROVE Present(plugin)'
    BY <1>1 DEF InitializePlugin, EnterInit, Present
  <1>2. ASSUME NEW path \in Paths, LoadByPath(path) PROVE Present(plugin)'
    <2>1. CASE path \in Loadable /\ EntryPoint[path] # NoPlugin
      BY <1>2, <2>1 DEF LoadByPath, EnterInit, Present
    <2>2. CASE ~(path \in Loadable /\ EntryPoint[path] # NoPlugin)
      <3>1. pc = "init" /\ UNCHANGED plugin
        BY <1>2, <2>2 DEF LoadByPath, frame
      <3> QED
        BY <3>1, PresentStays DEF OriginInv, Present
    <2> QED
      BY <2>1, <2>2
  <1>3. CASE pc = "init" /\ UNCHANGED plugin
    <2>1. Present(plugin)
      BY <1>3 DEF OriginInv
    <2> QED
      BY <1>3, <2>1, PresentStays DEF Present
  <1> QED
    BY <1>1, <1>2, <1>3
    DEF Next, vars, frame, InitRegisters, InitReturns, InitSucceeds, InitFails,
        LeaveInit, CreateObject, CreateRegisters, CreateReturns, LeaveCreate,
        ExactCreates, ExactDeclines, WildcardCreates, WildcardDeclines,
        NoneCreates, SetInvokeService, LoadAll, Shutdown, Ended

(* What registerObject() is called with: a registration of the running     *)
(* init or create function, or a wildcard for another type.                *)
LEMMA RegistrySource ==
  ASSUME TypeOK, OriginInv, [Next]_vars
  PROVE  \/ UNCHANGED registry
         \/ \E type \in Names, f \in Factories :
              /\ RegisterObject(type, f)
              /\ \/ WasRegistered(type, f)
                 \/ type # Star /\ WasRegistered(Star, f)
  <1>1. CASE InitRegisters
    <2> DEFINE r == Script[plugin][registered + 1]
    <2>1. plugin \in Plugins /\ registered + 1 \in 1..Len(Script[plugin])
      BY <1>1 DEF InitRegisters, TypeOK, InitFrameOK, Registrations
    <2>2. r \in Registrations
      BY <2>1
    <2>3. r = [type |-> r.type, factory |-> r.factory]
      BY <2>2 DEF Registrations
    <2>4. WasRegistered(r.type, r.factory)
      BY <1>1, <2>1, <2>3 DEF InitRegisters, OriginInv, WasRegistered
    <2> QED
      BY <1>1, <2>2, <2>4 DEF InitRegisters, Registrations
  <1>2. ASSUME NEW r \in Reentries, CreateRegisters(r)
        PROVE  \E type \in Names, f \in Factories :
                 RegisterObject(type, f) /\ WasRegistered(type, f)
    <2>1. r = [type |-> r.type, factory |-> r.factory]
          /\ r.type \in Names /\ r.factory \in Factories
      BY DEF Names
    <2>2. WasRegistered(r.type, r.factory)
      BY <2>1 DEF WasRegistered
    <2> QED
      BY <1>2, <2>1, <2>2 DEF CreateRegisters
  <1>3. CASE WildcardCreates
    <2>1. wild \in 1..Len(wildCardVec) /\ wildCardVec[wild] \in Factories
      BY <1>3 DEF WildcardCreates, TypeOK, CreateFrameOK, RegistryOK
    <2>2. WasRegistered(Star, wildCardVec[wild])
      BY <2>1 DEF OriginInv
    <2>3. objectType \in Names /\ objectType # Star
      BY DEF TypeOK, CreateFrameOK, Names
    <2> QED
      BY <1>3, <2>1, <2>2, <2>3 DEF WildcardCreates
  <1> QED
    BY <1>1, <1>2, <1>3
    DEF Next, vars, InitializePlugin, LoadByPath, InitReturns, InitSucceeds,
        InitFails, LeaveInit, CreateObject, CreateReturns, ExactCreates,
        ExactDeclines, WildcardDeclines, NoneCreates, SetInvokeService, LoadAll,
        Shutdown, Ended

LEMMA NextOrigin == TypeOK /\ OriginInv /\ [Next]_vars => OriginInv'
  <1> SUFFICES ASSUME TypeOK, OriginInv, [Next]_vars PROVE OriginInv'
    OBVIOUS
  <1>1. \A type, f : WasRegistered(type, f) => WasRegistered(type, f)'
    BY PresentStays
  <1>2. CASE UNCHANGED registry
    <2>1. (\A i \in 1..Len(wildCardVec) : WasRegistered(Star, wildCardVec[i]))'
      BY <1>1, <1>2 DEF OriginInv, registry
    <2>2. OwnersWereRegistered'
      BY <1>1, <1>2 DEF OriginInv, OwnersWereRegistered, registry
    <2> QED
      BY <2>1, <2>2, NextRunning DEF OriginInv
  <1>3. ASSUME NEW type \in Names, NEW f \in Factories, RegisterObject(type, f),
               WasRegistered(type, f) \/ (type # Star /\ WasRegistered(Star, f))
        PROVE  OriginInv'
    <2>1. ASSUME NEW i \in 1..Len(wildCardVec')
          PROVE  WasRegistered(Star, wildCardVec[i])'
      <3>1. \/ i \in 1..Len(wildCardVec) /\ wildCardVec'[i] = wildCardVec[i]
            \/ type = Star /\ wildCardVec'[i] = f
        BY <1>3, <2>1 DEF RegisterObject, TypeOK, RegistryOK
      <3>2. PICK g : g = wildCardVec'[i] /\ WasRegistered(Star, g)
        BY <1>3, <3>1 DEF OriginInv
      <3>3. WasRegistered(Star, g)'
        BY <1>1, <3>2
      <3> QED
        BY <3>2, <3>3 DEF WasRegistered
    <2>2. ASSUME NEW t \in Types, exactMatchMap'[t] # NoFactory
          PROVE  LET g == exactMatchMap'[t] IN
                   /\ WasRegistered(t, g) \/ WasRegistered(Star, g)
                   /\ g \in Complete /\ Major[g] = ApiMajor
      <3>1. CASE exactMatchMap'[t] = exactMatchMap[t]
        BY <2>2, <3>1 DEF OriginInv, OwnersWereRegistered
      <3>2. CASE exactMatchMap'[t] # exactMatchMap[t]
        <4>1. type = t /\ exactMatchMap'[t] = f /\ Accepts(exactMatchMap, type, f)
          BY <1>3, <3>2 DEF RegisterObject, TypeOK, RegistryOK
        <4> QED
          BY <1>3, <4>1 DEF Accepts, IsValid
      <3> QED
        BY <3>1, <3>2
    <2>3. ASSUME NEW t \in Types, exactMatchMap'[t] # NoFactory
          PROVE  (LET g == exactMatchMap[t] IN
                    /\ WasRegistered(t, g) \/ WasRegistered(Star, g)
                    /\ g \in Complete /\ Major[g] = ApiMajor)'
      <3>1. PICK g : /\ g = exactMatchMap'[t] /\ g \in Complete /\ Major[g] = ApiMajor
                     /\ WasRegistered(t, g) \/ WasRegistered(Star, g)
        BY <2>2, <2>3
      <3>2. WasRegistered(t, g)' \/ WasRegistered(Star, g)'
        BY <1>1, <3>1
      <3> QED
        BY <3>1, <3>2 DEF WasRegistered
    <2>4. OwnersWereRegistered'
      BY <2>3 DEF OwnersWereRegistered
    <2> QED
      BY <2>1, <2>4, NextRunning DEF OriginInv
  <1> QED
    BY <1>2, <1>3, RegistrySource

LEMMA OriginHolds == Spec => []OriginInv
  <1>1. Init => OriginInv
    BY DEF Init, OriginInv, OwnersWereRegistered
  <1> QED
    BY <1>1, NextOrigin, TypeCorrect, PTL DEF Spec

(* Every owner of a type was registered for it, or for "*", by a plugin    *)
(* that is in the program, and can serve it.                               *)
THEOREM OwnersAreLegitimate == Spec => []OwnersWereRegistered
  <1>1. OriginInv => OwnersWereRegistered
    BY DEF OriginInv
  <1> QED
    BY <1>1, OriginHolds, PTL

-----------------------------------------------------------------------------
(* Initialized plugins and their registrations. *)

(* The registrations of the plugin that is being initialized, as far as it *)
(* has come without a refusal; and a plugin that has come past a           *)
(* registration by name was not initialized before.                        *)
InitProgress ==
  pc = "init" /\ ~failed =>
    \A j \in 1..registered : Holds(Script[plugin][j])

InitFirst ==
  pc = "init" /\ ~failed =>
    \A j \in 1..registered : Script[plugin][j].type # Star =>
      \A i \in 1..Len(exitFuncVec) : exitFuncVec[i] # plugin

InitInv ==
  InitializedHoldsAll /\ InitProgress /\ InitFirst /\ NamedPluginInitializedOnce

(* What a script is made of. *)
LEMMA ScriptTypes ==
  ASSUME NEW p \in Plugins
  PROVE  /\ Len(Script[p]) \in Nat
         /\ \A j \in 1..Len(Script[p]) :
              /\ Script[p][j] \in Registrations
              /\ Script[p][j].type \in Names
              /\ Script[p][j].factory \in Factories
  <1>1. Script[p] \in Seq(Registrations)
    OBVIOUS
  <1>2. \A j \in 1..Len(Script[p]) : Script[p][j] \in Registrations
    BY <1>1
  <1> QED
    BY <1>1, <1>2 DEF Registrations

(* A registration that holds goes on holding. *)
LEMMA HoldsIsStable ==
  ASSUME TypeOK, [Next]_vars, NEW r \in Registrations, Holds(r)
  PROVE  Holds(r)'
  <1>1. CASE r.type = Star
    <2>1. \E i \in 1..Len(wildCardVec) : wildCardVec[i] = r.factory
      BY <1>1 DEF Holds
    <2>2. \E i \in 1..Len(wildCardVec') : wildCardVec'[i] = r.factory
      BY <2>1, RegistryGrows
    <2> QED
      BY <1>1, <2>2 DEF Holds
  <1>2. CASE r.type \in Types
    <2>1. /\ r.type # Star /\ exactMatchMap[r.type] = r.factory
          /\ exactMatchMap[r.type] # NoFactory
      BY <1>2 DEF Holds, Registrations
    <2>2. exactMatchMap'[r.type] = r.factory
      BY <1>2, <2>1, RegistryGrows
    <2> QED
      BY <1>2, <2>2 DEF Holds
  <1> QED
    BY <1>1, <1>2 DEF Holds

(* No step of an init function: it is not running after the step, or the   *)
(* step has just called it, or has left it alone.                          *)
Quiet ==
  /\ UNCHANGED exitFuncVec
  /\ pc' = "init" => \/ registered' = 0
                     \/ pc = "init" /\ UNCHANGED <<plugin, registered, failed>>

LEMMA InitStep ==
  ASSUME TypeOK, [Next]_vars
  PROVE  InitRegisters \/ InitSucceeds \/ Quiet
  BY DEF Quiet, Next, vars, library, frame, InitializePlugin, LoadByPath,
         EnterInit, InitReturns, InitFails, LeaveInit, CreateObject,
         CreateRegisters, CreateReturns, LeaveCreate, ExactCreates,
         ExactDeclines, WildcardCreates, WildcardDeclines, NoneCreates,
         SetInvokeService, LoadAll, Shutdown, Ended

(* One registration of an init function: if it is accepted, it holds, and  *)
(* a type it names had no owner.                                           *)
LEMMA InitRegistersOne ==
  ASSUME TypeOK, InitRegisters
  PROVE  \E r \in Registrations :
           /\ r = Script[plugin][registered + 1]
           /\ plugin \in Plugins /\ registered + 1 \in 1..Len(Script[plugin])
           /\ registered' = registered + 1
           /\ UNCHANGED <<pc, plugin, exitFuncVec>> /\ pc = "init"
           /\ ~failed' => ~failed /\ Holds(r)'
           /\ ~failed' /\ r.type # Star => exactMatchMap[r.type] = NoFactory
                                         /\ r.type \in Types
  <1>1. /\ plugin \in Plugins /\ registered + 1 \in 1..Len(Script[plugin])
        /\ registered \in Nat /\ failed \in BOOLEAN
    BY DEF InitRegisters, TypeOK, InitFrameOK, Registrations
  <1>2. PICK r \in Registrations : r = Script[plugin][registered + 1]
    BY <1>1, ScriptTypes
  <1>a. r.type \in Names /\ r.factory \in Factories
    BY DEF Registrations
  <1>3. /\ registered' = registered + 1 /\ pc = "init"
        /\ UNCHANGED <<pc, plugin, exitFuncVec>>
        /\ RegisterObject(r.type, r.factory)
        /\ failed' = (failed \/ ~Accepts(exactMatchMap, r.type, r.factory))
    BY <1>2 DEF InitRegisters, library
  <1>4. ~failed' => ~failed /\ Accepts(exactMatchMap, r.type, r.factory)
    BY <1>3
  <1>5. ASSUME Accepts(exactMatchMap, r.type, r.factory)
        PROVE  /\ Holds(r)'
               /\ r.type # Star => exactMatchMap[r.type] = NoFactory /\ r.type \in Types
    <2>1. CASE r.type = Star
      <3>1. wildCardVec' = Append(wildCardVec, r.factory) /\ wildCardVec \in Seq(Factories)
        BY <1>3, <1>5, <2>1 DEF RegisterObject, TypeOK, RegistryOK
      <3>2. /\ Len(wildCardVec') \in 1..Len(wildCardVec')
            /\ wildCardVec'[Len(wildCardVec')] = r.factory
        BY <1>a, <3>1
      <3> QED
        BY <2>1, <3>2 DEF Holds
    <2>2. CASE r.type # Star
      <3>1. r.type \in Types /\ exactMatchMap[r.type] = NoFactory
        BY <1>a, <1>5, <2>2 DEF Accepts, IsValid, Names
      <3>2. exactMatchMap'[r.type] = r.factory
        BY <1>a, <1>3, <1>5, <3>1, RegisterObjectWritesOnce DEF TypeOK
      <3> QED
        BY <2>2, <3>1, <3>2 DEF Holds
    <2> QED
      BY <2>1, <2>2
  <1> QED
    BY <1>1, <1>2, <1>3, <1>4, <1>5
LEMMA ScriptHoldsIsStable ==
  ASSUME TypeOK, [Next]_vars, NEW p \in Plugins, NEW j \in 1..Len(Script[p]),
         Holds(Script[p][j])
  PROVE  Holds(Script[p][j])'
  <1>1. PICK r \in Registrations : r = Script[p][j]
    BY ScriptTypes
  <1>2. Holds(r)
    BY <1>1
  <1>3. Holds(r)'
    BY <1>2, HoldsIsStable
  <1> QED
    BY <1>1, <1>3

(* A stored exit function was stored before, or is that of the plugin whose *)
(* initialization has just succeeded.                                      *)
LEMMA StoredExit ==
  ASSUME TypeOK, [Next]_vars, NEW i \in 1..Len(exitFuncVec')
  PROVE  /\ exitFuncVec'[i] \in Plugins
         /\ \/ i \in 1..Len(exitFuncVec) /\ exitFuncVec'[i] = exitFuncVec[i]
            \/ /\ InitSucceeds /\ pc = "init" /\ ~failed
               /\ registered = Len(Script[plugin])
               /\ i = Len(exitFuncVec) + 1 /\ exitFuncVec'[i] = plugin
  <1>1. exitFuncVec \in Seq(Plugins)
    BY DEF TypeOK, LibraryOK
  <1>2. CASE UNCHANGED exitFuncVec
    BY <1>1, <1>2
  <1>3. CASE InitSucceeds
    <2>1. /\ plugin \in Plugins /\ exitFuncVec' = Append(exitFuncVec, plugin)
          /\ pc = "init" /\ ~failed /\ registered = Len(Script[plugin])
      BY <1>3 DEF InitSucceeds, TypeOK, InitFrameOK
    <2> QED
      BY <1>1, <1>3, <2>1
  <1> QED
    BY <1>2, <1>3, InitStep DEF Quiet, InitRegisters, library

LEMMA NextHoldsAll ==
  ASSUME TypeOK, InitInv, [Next]_vars
  PROVE  InitializedHoldsAll'
  <1>1. SUFFICES ASSUME NEW i \in 1..Len(exitFuncVec'), NEW p \in Plugins,
                        p = exitFuncVec'[i], NEW j \in 1..Len(Script[p])
                 PROVE  Holds(Script[p][j])'
    BY StoredExit DEF InitializedHoldsAll, Holds
  <1>2. Holds(Script[p][j])
    <2>1. CASE i \in 1..Len(exitFuncVec) /\ p = exitFuncVec[i]
      BY <2>1 DEF InitInv, InitializedHoldsAll
    <2>2. CASE pc = "init" /\ ~failed /\ registered = Len(Script[p]) /\ p = plugin
      BY <2>2 DEF InitInv, InitProgress
    <2> QED
      BY <1>1, <2>1, <2>2, StoredExit
  <1> QED
    BY <1>2, ScriptHoldsIsStable

LEMMA NextProgress ==
  ASSUME TypeOK, InitInv, [Next]_vars
  PROVE  InitProgress'
  <1>1. SUFFICES ASSUME pc' = "init", ~failed', NEW p \in Plugins, p = plugin',
                        NEW j \in 1..registered', j \in 1..Len(Script[p])
                 PROVE  Holds(Script[p][j])'
    <2>1. pc' = "init" => plugin' \in Plugins /\ registered' \in Nat
                          /\ registered' <= Len(Script[plugin'])
      BY NextTypes DEF TypeOK, InitFrameOK
    <2> QED
      BY <2>1, ScriptTypes DEF InitProgress, Holds
  <1>2. CASE Quiet
    <2>1. pc = "init" /\ ~failed /\ p = plugin /\ j \in 1..registered
      BY <1>1, <1>2 DEF Quiet
    <2>2. Holds(Script[p][j])
      BY <2>1 DEF InitInv, InitProgress
    <2> QED
      BY <1>1, <2>2, ScriptHoldsIsStable
  <1>3. CASE InitRegisters
    <2>1. PICK r \in Registrations :
            /\ r = Script[p][registered + 1] /\ p = plugin /\ pc = "init"
            /\ registered' = registered + 1 /\ ~failed /\ Holds(r)'
      BY <1>1, <1>3, InitRegistersOne
    <2>2. CASE j = registered + 1
      BY <2>1, <2>2
    <2>3. CASE j \in 1..registered
      <3>1. Holds(Script[p][j])
        BY <2>1, <2>3 DEF InitInv, InitProgress
      <3> QED
        BY <1>1, <3>1, ScriptHoldsIsStable
    <2> QED
      BY <2>1, <2>2, <2>3 DEF TypeOK, InitFrameOK
  <1>4. CASE InitSucceeds
    BY <1>1, <1>4 DEF InitSucceeds, LeaveInit
  <1> QED
    BY <1>2, <1>3, <1>4, InitStep

LEMMA NextFirst ==
  ASSUME TypeOK, InitInv, [Next]_vars
  PROVE  InitFirst'
  <1>1. SUFFICES ASSUME pc' = "init", ~failed', NEW j \in 1..registered',
                        Script[plugin'][j].type # Star,
                        NEW i \in 1..Len(exitFuncVec'), exitFuncVec'[i] = plugin'
                 PROVE  FALSE
    BY DEF InitFirst
  <1>2. CASE Quiet
    BY <1>1, <1>2 DEF Quiet, InitInv, InitFirst
  <1>3. CASE InitRegisters
    <2>1. PICK r \in Registrations :
            /\ r = Script[plugin][registered + 1]
            /\ registered + 1 \in 1..Len(Script[plugin])
            /\ UNCHANGED <<plugin, exitFuncVec>> /\ pc = "init"
            /\ registered' = registered + 1 /\ ~failed
            /\ r.type # Star => exactMatchMap[r.type] = NoFactory
                                /\ r.type \in Types
      BY <1>1, <1>3, InitRegistersOne
    <2>2. CASE j = registered + 1
      <3>1. Holds(Script[plugin][j])
        BY <1>1, <2>1, <2>2 DEF InitInv, InitializedHoldsAll
      <3>2. r.type # Star /\ exactMatchMap[r.type] = r.factory
        BY <1>1, <2>1, <2>2, <3>1 DEF Holds
      <3> QED
        BY <2>1, <3>2 DEF Registrations
    <2>3. CASE j \in 1..registered
      BY <1>1, <2>1, <2>3 DEF InitInv, InitFirst
    <2> QED
      BY <2>1, <2>2, <2>3 DEF TypeOK, InitFrameOK
  <1>4. CASE InitSucceeds
    BY <1>1, <1>4 DEF InitSucceeds, LeaveInit
  <1> QED
    BY <1>2, <1>3, <1>4, InitStep

LEMMA NextOnce ==
  ASSUME TypeOK, InitInv, [Next]_vars
  PROVE  NamedPluginInitializedOnce'
  <1>1. SUFFICES ASSUME NEW i \in 1..Len(exitFuncVec'),
                        NEW j \in 1..Len(exitFuncVec'),
                        i < j, exitFuncVec'[i] = exitFuncVec'[j],
                        NEW k \in 1..Len(Script[exitFuncVec'[i]])
                 PROVE  Script[exitFuncVec'[i]][k].type = Star
    BY StoredExit DEF NamedPluginInitializedOnce
  <1>2. exitFuncVec \in Seq(Plugins)
    BY DEF TypeOK, LibraryOK
  <1>3. i \in 1..Len(exitFuncVec) /\ exitFuncVec'[i] = exitFuncVec[i]
    BY <1>1, <1>2, StoredExit DEF InitSucceeds
  <1>4. CASE j \in 1..Len(exitFuncVec) /\ exitFuncVec'[j] = exitFuncVec[j]
    <2>1. /\ i # j /\ exitFuncVec[i] = exitFuncVec[j]
          /\ k \in 1..Len(Script[exitFuncVec[i]])
      <3>1. i # j
        BY <1>1
      <3>2. exitFuncVec[i] = exitFuncVec[j]
        BY <1>1, <1>3, <1>4
      <3>3. k \in 1..Len(Script[exitFuncVec[i]])
        BY <1>1, <1>3, Zenon
      <3> QED
        BY <3>1, <3>2, <3>3
    <2>2. Script[exitFuncVec[i]][k].type = Star
      BY <1>3, <1>4, <2>1 DEF InitInv, NamedPluginInitializedOnce
    <2> QED
      BY <1>3, <2>2
  <1>5. CASE /\ pc = "init" /\ ~failed /\ registered = Len(Script[plugin])
             /\ exitFuncVec'[j] = plugin
    BY <1>1, <1>3, <1>5 DEF InitInv, InitFirst
  <1> QED
    BY <1>4, <1>5, StoredExit

LEMMA NextInitInv == TypeOK /\ InitInv /\ [Next]_vars => InitInv'
  BY NextHoldsAll, NextProgress, NextFirst, NextOnce DEF InitInv

LEMMA InitInvHolds == Spec => []InitInv
  <1>1. Init => InitInv
    BY DEF Init, InitInv, InitializedHoldsAll, InitProgress, InitFirst,
           NamedPluginInitializedOnce
  <1> QED
    BY <1>1, NextInitInv, TypeCorrect, PTL DEF Spec

(* A plugin whose exit function is stored holds all it registered. *)
THEOREM InitializedPluginsHold == Spec => []InitializedHoldsAll
  <1>1. InitInv => InitializedHoldsAll
    BY DEF InitInv
  <1> QED
    BY <1>1, InitInvHolds, PTL

(* A plugin that registers a type by name is initialized at most once. *)
THEOREM InitializedAtMostOnce == Spec => []NamedPluginInitializedOnce
  <1>1. InitInv => NamedPluginInitializedOnce
    BY DEF InitInv
  <1> QED
    BY <1>1, InitInvHolds, PTL
=============================================================================
