--------------------------- MODULE MCPluginManager ---------------------------
(***************************************************************************)
(* PluginManager on a small set of plugins that meet each other:           *)
(*   "phantom"  registers t1 by hand, from C++ (static_plugin.cpp);        *)
(*   "wrapper"  registers t1 and t2 with PluginHelper, so it fails after   *)
(*              phantom, and phantom after it (wrapper_plugin.cpp);        *)
(*   "python"   registers a C wildcard, then a second one;                 *)
(*   "future"   registers "*" for another API version, then t2.            *)
(***************************************************************************)
EXTENDS PluginManager

Reg(t, f) == [type |-> t, factory |-> f]

MCTypes == {"t1", "t2"}
MCFactories == {"phantom", "golem", "piranea", "pyC", "pyCPP", "new"}

MCLanguage ==
  [f \in MCFactories |-> IF f \in {"golem", "pyC"} THEN "C" ELSE "CPP"]
MCMajor == [f \in MCFactories |-> IF f = "new" THEN 2 ELSE 1]

MCPlugins == {"phantom", "wrapper", "python", "future"}
MCScript ==
  [p \in MCPlugins |->
    CASE p = "phantom" -> <<Reg("t1", "phantom")>>
      [] p = "wrapper" -> <<Reg("t1", "golem"), Reg("t2", "piranea")>>
      [] p = "python"  -> <<Reg("*", "pyC"), Reg("*", "pyCPP")>>
      [] p = "future"  -> <<Reg("*", "new"), Reg("t2", "phantom")>>]

(* A library for each plugin that is not static, a file that is no library *)
(* and a relative path.                                                    *)
MCPaths == {"/wrapper", "/future", "/text", "relative"}
MCEntryPoint ==
  [path \in MCPaths |->
    CASE path = "/wrapper" -> "wrapper"
      [] path = "/future"  -> "future"
      [] OTHER             -> "none"]

MCReentries == {Reg("t2", "phantom"), Reg("", "phantom")}
=============================================================================
