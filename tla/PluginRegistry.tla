--------------------------- MODULE PluginRegistry ---------------------------
(***************************************************************************)
(* What the plugin manager promises its host, without plugins, wildcards,  *)
(* callbacks or libraries: an object type has at most one owner, the owner *)
(* never changes once it is set, and every object of a type the host       *)
(* receives was made by the owner of that type.                            *)
(***************************************************************************)

CONSTANTS
  Types,       (* the object types plugins implement                         *)
  Factories,   (* registrations: a create/destroy function pair and language *)
  NoFactory    (* no registration                                            *)

VARIABLES
  owner,       (* the factory that serves each type, or NoFactory            *)
  handed       (* the objects handed to the host: their type and their maker *)

registryVars == <<owner, handed>>

Init ==
  /\ owner = [t \in Types |-> NoFactory]
  /\ handed = {}

(* A plugin becomes the owner of a type nobody owns. *)
Claim(t, f) ==
  /\ owner[t] = NoFactory
  /\ owner' = [owner EXCEPT ![t] = f]
  /\ UNCHANGED handed

(* The owner of a type makes an object for the host. *)
HandOut(t) ==
  /\ owner[t] # NoFactory
  /\ handed' = handed \cup {[type |-> t, maker |-> owner[t]]}
  /\ UNCHANGED owner

(* A factory that was ready for any type makes an object of a type nobody  *)
(* owns, and becomes its owner in the same step.                           *)
Adopt(t, f) ==
  /\ owner[t] = NoFactory
  /\ owner' = [owner EXCEPT ![t] = f]
  /\ handed' = handed \cup {[type |-> t, maker |-> f]}

Next ==
  \E t \in Types :
    \/ HandOut(t)
    \/ \E f \in Factories : Claim(t, f) \/ Adopt(t, f)

Spec == Init /\ [][Next]_registryVars
=============================================================================
