---------------------------- MODULE PluginManager ----------------------------
(***************************************************************************)
(* The plugin manager of plugin_framework/PluginManager.cpp.               *)
(*                                                                         *)
(* The program has one thread, but control crosses the plugin boundary in  *)
(* callbacks: the manager calls a plugin's init function, which calls      *)
(* registerObject() back any number of times before it returns, and the    *)
(* manager calls a factory's create function, which holds the platform     *)
(* services and may register types before it returns.  pc says which       *)
(* callback, if any, is running; the manager's own code between two        *)
(* callbacks is one step.                                                  *)
(***************************************************************************)
EXTENDS Naturals, Sequences

CONSTANTS
  Types,        (* object types other than "*" and ""                          *)
  Star, Empty,  (* the type strings "*" and ""                                 *)
  Factories,    (* the PF_RegisterParams plugins register                      *)
  NoFactory,    (* absence of an entry in exactMatchMap_                       *)
  Language,     (* [Factories -> {"C", "CPP"}], programmingLanguage            *)
  Major,        (* [Factories -> Nat], version.major                           *)
  Complete,     (* the factories whose create and destroy functions are set    *)
  Plugins,      (* the init functions (PF_InitFunc)                            *)
  NoPlugin,     (* no init function: also a library without PF_initPlugin      *)
  Script,       (* [Plugins -> Seq(Registrations)], what each init registers   *)
  Persistent,   (* the plugins that go on after a failure (PluginHelper)       *)
  Static,       (* the plugins linked into the program                         *)
  Reentries,    (* the registrations a create function may make                *)
  Paths,        (* library paths                                               *)
  AbsPaths,     (* the paths Path::isAbsolute() accepts                        *)
  Loadable,     (* the paths the system loader can load                        *)
  EntryPoint,   (* [Paths -> Plugins \cup {NoPlugin}], PF_initPlugin           *)
  Services,     (* the invokeService functions                                 *)
  NoService,    (* the null invokeService                                      *)
  MaxWild,      (* bound of the model: length of wildCardVec_                  *)
  MaxExits      (* bound of the model: length of exitFuncVec_                  *)

Names == Types \cup {Star, Empty}

Registrations == [type : Names, factory : Factories]

ASSUME ManagerAssumption ==
  /\ Star \notin Types /\ Empty \notin Types /\ Star # Empty
  /\ NoFactory \notin Factories
  /\ Complete \subseteq Factories
  /\ NoPlugin \notin Plugins /\ Static \subseteq Plugins
  /\ Script \in [Plugins -> Seq(Registrations)]
  /\ EntryPoint \in [Paths -> Plugins \cup {NoPlugin}]
  /\ NoService \in Services
  (* A create function that registers "*" may move wildCardVec_ under the   *)
  (* reference createObject() holds: left to the plugin contract.           *)
  /\ Reentries \subseteq [type : Types \cup {Empty}, factory : Factories]

VARIABLES
  exactMatchMap,      (* [Types -> Factories \cup {NoFactory}]               *)
  wildCardVec,        (* Seq(Factories)                                      *)
  exitFuncVec,        (* Seq(Plugins): plugins whose exit function is stored *)
  dynamicLibraryMap,  (* the paths in the library map                        *)
  invokeService,      (* platformServices_.invokeService                     *)
  pc,                 (* the callback that is running                        *)
  plugin,             (* the plugin whose init function is running           *)
  registered,         (* how many registrations that init function has made  *)
  failed,             (* whether one of them was refused                     *)
  objectType,         (* the type createObject() was asked for               *)
  wild,               (* the index of its loop over wildCardVec_             *)
  handedOut,          (* the objects createObject() returned to the host     *)
  destroyed,          (* the calls of destroy functions                      *)
  exited              (* the plugins whose exit function was called          *)

registry == <<exactMatchMap, wildCardVec>>
library  == <<exitFuncVec, dynamicLibraryMap, invokeService, exited>>
frame    == <<plugin, registered, failed, objectType, wild>>
objects  == <<handedOut, destroyed>>
vars     == <<registry, library, pc, frame, objects>>

-----------------------------------------------------------------------------
(* isValid() and the version check of registerObject().  The manager's own  *)
(* major version is 1.                                                      *)
ApiMajor == 1

IsValid(type, f) == type # Empty /\ f \in Complete

(* Mutants: a type that is taken is given away again; a wildcard is taken  *)
(* before the version is checked; the owner may register again.            *)
AcceptsTaken(map, type, f) ==
  IsValid(type, f) /\ Major[f] = ApiMajor

AcceptsAnyWildcard(map, type, f) ==
  /\ IsValid(type, f)
  /\ type = Star \/ (Major[f] = ApiMajor /\ map[type] = NoFactory)

AcceptsAgain(map, type, f) ==
  /\ IsValid(type, f)
  /\ Major[f] = ApiMajor
  /\ type = Star \/ map[type] \in {NoFactory, f}

(* registerObject() returns 0. *)
Accepts(map, type, f) ==
  /\ IsValid(type, f)
  /\ Major[f] = ApiMajor
  /\ type = Star \/ map[type] = NoFactory

(* What registerObject() leaves behind, refused or not. *)
RegisterObject(type, f) ==
  /\ exactMatchMap' =
       IF Accepts(exactMatchMap, type, f) /\ type # Star
         THEN [exactMatchMap EXCEPT ![type] = f] ELSE exactMatchMap
  /\ wildCardVec' =
       IF Accepts(exactMatchMap, type, f) /\ type = Star
         THEN Append(wildCardVec, f) ELSE wildCardVec

(* What the host or a destroy function receives for an object of f: the    *)
(* object itself, or the adapter around it when f is written in C.         *)
Adapted(f) == IF Language[f] = "C" THEN "adapter" ELSE "object"

Init ==
  /\ exactMatchMap = [t \in Types |-> NoFactory]
  /\ wildCardVec = <<>>
  /\ exitFuncVec = <<>>
  /\ dynamicLibraryMap = {}
  /\ invokeService = NoService
  /\ pc = "idle"
  /\ plugin = NoPlugin
  /\ registered = 0
  /\ failed = FALSE
  /\ objectType = Empty
  /\ wild = 0
  /\ handedOut = {}
  /\ destroyed = {}
  /\ exited = {}

-----------------------------------------------------------------------------
(* Initialization of plugins.                                              *)

StarCount(p) == Len(SelectSeq(Script[p], LAMBDA r : r.type = Star))

(* The call of a plugin's init function. *)
EnterInit(p) ==
  /\ Len(wildCardVec) + StarCount(p) <= MaxWild
  /\ Len(exitFuncVec) < MaxExits
  /\ pc' = "init"
  /\ plugin' = p
  /\ registered' = 0
  /\ failed' = FALSE
  /\ UNCHANGED <<objectType, wild>>

(* initializePlugin(), called by the host for a plugin it is linked with.  *)
InitializePlugin(p) ==
  /\ pc = "idle"
  /\ EnterInit(p)
  /\ UNCHANGED <<registry, library, objects>>

(* loadByPath().  A relative path becomes "" in makeAbsolute(), which       *)
(* DynamicLibrary::load() refuses.  A library that does not load, or has no *)
(* entry point, stays in the map.                                           *)
LoadByPath(path) ==
  /\ pc = "idle"
  /\ path \notin dynamicLibraryMap
  /\ path \in AbsPaths
  /\ dynamicLibraryMap' = dynamicLibraryMap \cup {path}
  /\ IF path \in Loadable /\ EntryPoint[path] # NoPlugin
       THEN EnterInit(EntryPoint[path])
       ELSE UNCHANGED <<pc, frame>>
  /\ UNCHANGED <<registry, exitFuncVec, invokeService, exited, objects>>

(* The init function registers its next type.  One written by hand stops   *)
(* at the first refusal, one written with PluginHelper goes on.            *)
InitRegisters ==
  /\ pc = "init"
  /\ registered < Len(Script[plugin])
  /\ failed => plugin \in Persistent
  /\ LET r == Script[plugin][registered + 1] IN
       /\ RegisterObject(r.type, r.factory)
       /\ failed' = (failed \/ ~Accepts(exactMatchMap, r.type, r.factory))
  /\ registered' = registered + 1
  /\ UNCHANGED <<library, pc, plugin, objectType, wild, objects>>

LeaveInit ==
  /\ pc' = "idle"
  /\ plugin' = NoPlugin
  /\ registered' = 0
  /\ failed' = FALSE
  /\ UNCHANGED <<registry, dynamicLibraryMap, invokeService, objectType, wild,
                 objects, exited>>

(* A mutant: the results of the registrations are not looked at. *)
InitSucceedsUnchecked ==
  /\ pc = "init"
  /\ registered = Len(Script[plugin])
  /\ exitFuncVec' = Append(exitFuncVec, plugin)
  /\ LeaveInit

(* The init function returns an exit function, which is stored. *)
InitSucceeds ==
  /\ pc = "init"
  /\ registered = Len(Script[plugin])
  /\ ~failed
  /\ exitFuncVec' = Append(exitFuncVec, plugin)
  /\ LeaveInit

(* The init function returns NULL, after a refusal or for a reason of its  *)
(* own.                                                                    *)
InitFails ==
  /\ pc = "init"
  /\ failed /\ plugin \in Persistent => registered = Len(Script[plugin])
  /\ LeaveInit
  /\ UNCHANGED exitFuncVec

-----------------------------------------------------------------------------
(* Creation of objects.                                                    *)

(* createObject(): the create function of the exact match is called, or    *)
(* else the loop over the wildcards starts.  "*" returns at once.          *)
CreateObject(type) ==
  /\ pc = "idle"
  /\ type # Star
  /\ objectType' = type
  /\ IF type # Empty /\ exactMatchMap[type] # NoFactory
       THEN pc' = "exact" /\ wild' = 0
       ELSE pc' = "wild" /\ wild' = 1
  /\ UNCHANGED <<registry, library, plugin, registered, failed, objects>>

(* A create function registers a type through the platform services. *)
CreateRegisters(r) ==
  /\ \/ pc = "exact"
     \/ pc = "wild" /\ wild <= Len(wildCardVec)
  /\ RegisterObject(r.type, r.factory)
  /\ UNCHANGED <<library, pc, frame, objects>>

LeaveCreate ==
  /\ pc' = "idle"
  /\ objectType' = Empty
  /\ wild' = 0
  /\ UNCHANGED <<library, plugin, registered, failed>>

(* The exact match made the object: it is adapted and returned. *)
ExactCreates ==
  /\ pc = "exact"
  /\ LET f == exactMatchMap[objectType] IN
       handedOut' = handedOut \cup
         {[type |-> objectType, maker |-> f, as |-> Adapted(f)]}
  /\ LeaveCreate
  /\ UNCHANGED <<registry, destroyed>>

(* The exact match returned NULL: the wildcards are tried. *)
ExactDeclines ==
  /\ pc = "exact"
  /\ pc' = "wild"
  /\ wild' = 1
  /\ UNCHANGED <<registry, library, plugin, registered, failed, objectType,
                 objects>>

(* A mutant: the promotion's refusal is ignored. *)
WildcardCreatesAnyway ==
  /\ pc = "wild"
  /\ wild <= Len(wildCardVec)
  /\ LET f == wildCardVec[wild] IN
       /\ RegisterObject(objectType, f)
       /\ handedOut' = handedOut \cup
            {[type |-> objectType, maker |-> f, as |-> Adapted(f)]}
  /\ UNCHANGED destroyed
  /\ LeaveCreate

(* A wildcard made the object.  Its registration is promoted to an exact   *)
(* match; when that is refused the object is destroyed and nothing is      *)
(* returned.                                                               *)
WildcardCreates ==
  /\ pc = "wild"
  /\ wild <= Len(wildCardVec)
  /\ LET f == wildCardVec[wild] IN
       /\ RegisterObject(objectType, f)
       /\ IF Accepts(exactMatchMap, objectType, f)
            THEN /\ handedOut' = handedOut \cup
                      {[type |-> objectType, maker |-> f, as |-> Adapted(f)]}
                 /\ UNCHANGED destroyed
            ELSE /\ destroyed' = destroyed \cup
                      {[type |-> objectType, maker |-> f, as |-> Adapted(f)]}
                 /\ UNCHANGED handedOut
  /\ LeaveCreate

(* A mutant: the end of wildCardVec_ is not looked at. *)
WildcardDeclinesForEver ==
  /\ pc = "wild"
  /\ wild' = wild + 1
  /\ UNCHANGED <<registry, library, pc, plugin, registered, failed,
                 objectType, objects>>

(* The wildcard's create function returned NULL. *)
WildcardDeclines ==
  /\ pc = "wild"
  /\ wild <= Len(wildCardVec)
  /\ wild' = wild + 1
  /\ UNCHANGED <<registry, library, pc, plugin, registered, failed,
                 objectType, objects>>

(* No factory can create this type. *)
NoneCreates ==
  /\ pc = "wild"
  /\ wild > Len(wildCardVec)
  /\ LeaveCreate
  /\ UNCHANGED <<registry, objects>>

-----------------------------------------------------------------------------
(* The host sets invokeService through getPlatformServices(). *)
SetInvokeService(s) ==
  /\ pc = "idle"
  /\ invokeService' = s
  /\ UNCHANGED <<registry, exitFuncVec, dynamicLibraryMap, exited, pc, frame,
                 objects>>

(* loadAll() with a non-empty directory: the service is replaced before    *)
(* the directory is looked at, and isDirectory() then always refuses it.   *)
LoadAll(func) ==
  /\ pc = "idle"
  /\ invokeService' = func
  /\ UNCHANGED <<registry, exitFuncVec, dynamicLibraryMap, exited, pc, frame,
                 objects>>

(* shutdown(), whose body is compiled out: it calls and clears nothing.    *)
(* It runs last, from the host or from the destructor.                     *)
Shutdown ==
  /\ pc = "idle"
  /\ pc' = "down"
  /\ UNCHANGED <<registry, library, frame, objects>>

(* After the program has ended. *)
Ended == pc = "down" /\ UNCHANGED vars

-----------------------------------------------------------------------------
InitReturns == InitSucceeds \/ InitFails

CreateReturns ==
  \/ ExactCreates
  \/ ExactDeclines
  \/ WildcardCreates
  \/ WildcardDeclines
  \/ NoneCreates

Next ==
  \/ \E p \in Static : InitializePlugin(p)
  \/ \E path \in Paths : LoadByPath(path)
  \/ InitRegisters
  \/ InitReturns
  \/ \E type \in Names : CreateObject(type)
  \/ \E r \in Reentries : CreateRegisters(r)
  \/ CreateReturns
  \/ \E s \in Services : SetInvokeService(s) \/ LoadAll(s)
  \/ Shutdown
  \/ Ended

Spec == Init /\ [][Next]_vars

-----------------------------------------------------------------------------
(* Properties.                                                             *)

RegistryOK ==
  /\ exactMatchMap \in [Types -> Factories \cup {NoFactory}]
  /\ wildCardVec \in Seq(Factories)

LibraryOK ==
  /\ exitFuncVec \in Seq(Plugins)
  /\ dynamicLibraryMap \subseteq AbsPaths
  /\ invokeService \in Services
  /\ exited \subseteq Plugins

InitFrameOK ==
  /\ plugin \in Plugins \cup {NoPlugin}
  /\ registered \in Nat
  /\ failed \in BOOLEAN
  /\ pc = "init" => plugin # NoPlugin /\ registered <= Len(Script[plugin])

CreateFrameOK ==
  /\ objectType \in Types \cup {Empty}
  /\ wild \in Nat
  /\ pc = "exact" => objectType # Empty /\ exactMatchMap[objectType] # NoFactory
  /\ pc = "wild" => wild \in 1..(Len(wildCardVec) + 1)

ObjectsOK ==
  /\ handedOut \subseteq [type : Types, maker : Factories,
                         as : {"object", "adapter"}]
  /\ destroyed \subseteq [type : Types \cup {Empty}, maker : Factories,
                         as : {"object", "adapter"}]

(* The type invariant: besides the sets the variables range over, that the *)
(* callback that runs has what it needs (a plugin and a place in its       *)
(* script, an exact match, a place in the wildcards).                      *)
TypeOK ==
  /\ pc \in {"idle", "init", "exact", "wild", "down"}
  /\ RegistryOK
  /\ LibraryOK
  /\ InitFrameOK
  /\ CreateFrameOK
  /\ ObjectsOK

(* Every object the host has received, of any type, was made by the factory *)
(* that is registered for that type now: whatever a create function         *)
(* registered while it ran, and whether the object came from an exact match *)
(* or from a promoted wildcard.  ("only one can handle", registerObject.)   *)
HandedOutByOwner ==
  \A o \in handedOut : exactMatchMap[o.type] = o.maker

(* An object that was made is thrown away only because its type has another *)
(* exact registration or no name: a wildcard that was accepted once cannot  *)
(* be refused by the promotion for its version or its functions.            *)
DestroyedOnConflictOnly ==
  \A d \in destroyed : d.type = Empty \/ exactMatchMap[d.type] # NoFactory

Holds(r) ==
  \/ r.type = Star /\ \E i \in 1..Len(wildCardVec) : wildCardVec[i] = r.factory
  \/ r.type \in Types /\ exactMatchMap[r.type] = r.factory

(* A plugin whose exit function is stored holds every registration its init *)
(* function made: no other plugin, promotion or callback has taken one, and *)
(* a plugin that was refused one is not taken for initialized.              *)
InitializedHoldsAll ==
  \A i \in 1..Len(exitFuncVec) :
    LET p == exitFuncVec[i] IN
      \A j \in 1..Len(Script[p]) : Holds(Script[p][j])

(* A plugin that registers a type by name is initialized at most once, even *)
(* if the host calls its init function again or loads it from two paths:    *)
(* its exit function is never stored twice.                                 *)
NamedPluginInitializedOnce ==
  \A i, j \in 1..Len(exitFuncVec) :
    i # j /\ exitFuncVec[i] = exitFuncVec[j] =>
      \A k \in 1..Len(Script[exitFuncVec[i]]) :
        Script[exitFuncVec[i]][k].type = Star

(* The plugins of the running program: linked into it, or the entry point  *)
(* of a library it has loaded.                                             *)
Present(p) ==
  \/ p \in Static
  \/ \E path \in dynamicLibraryMap \cap Loadable : EntryPoint[path] = p

(* Such a plugin asks for this registration, or a create function does. *)
WasRegistered(type, f) ==
  \/ \E p \in Plugins :
       Present(p) /\ \E j \in 1..Len(Script[p]) :
                       Script[p][j] = [type |-> type, factory |-> f]
  \/ [type |-> type, factory |-> f] \in Reentries

(* Whoever owns a type was registered for it by name, or for "*", by a     *)
(* plugin that is in the program (or by a create function), and can serve  *)
(* it: a promotion gives a type only to such a wildcard, and a library that *)
(* did not load has left nothing.                                          *)
OwnersWereRegistered ==
  \A t \in Types : exactMatchMap[t] # NoFactory =>
    LET f == exactMatchMap[t] IN
      /\ WasRegistered(t, f) \/ WasRegistered(Star, f)
      /\ f \in Complete /\ Major[f] = ApiMajor

(* The manager implements the write-once registry. *)
Registry == INSTANCE PluginRegistry WITH
  owner  <- exactMatchMap,
  handed <- {[type |-> o.type, maker |-> o.maker] : o \in handedOut}

(* Seen through the exact-match map and the objects handed out, every step  *)
(* is a step of PluginRegistry or changes nothing: an owner is never        *)
(* replaced or removed, and an object appears only from its type's owner.   *)
ImplementsRegistry == Registry!Spec

-----------------------------------------------------------------------------
(* What the documentation promises and the code does not do.               *)

(* Registrations "come from successfully initialized plugins": those of a  *)
(* plugin whose initialization failed are discarded                        *)
(* (plugin-framework/pluginFramework.md:905-910).                          *)
FailedInitLeavesNothing ==
  pc = "idle" =>
    \A t \in Types : exactMatchMap[t] # NoFactory =>
      \E i \in 1..Len(exitFuncVec) :
        \E j \in 1..Len(Script[exitFuncVec[i]]) :
          Script[exitFuncVec[i]][j].factory = exactMatchMap[t]

(* shutdown() calls the exit function of every plugin                      *)
(* (plugin-framework/pluginFramework.md:923-926).                          *)
ShutdownCallsExitFuncs ==
  pc = "down" => \A i \in 1..Len(exitFuncVec) : exitFuncVec[i] \in exited

(* The destroy function of a registration receives the object its create   *)
(* function made (plugin-framework/pluginFramework.md:758-760 and 938-940). *)
DestroyGetsItsObject ==
  \A d \in destroyed : d.as = "object"
=============================================================================
