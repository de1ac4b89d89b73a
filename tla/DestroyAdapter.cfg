SPECIFICATION Spec
CONSTANTS
  Types <- MCTypes
  Star = "*"
  Empty = ""
  Factories <- MCFactories
  NoFactory = "none"
  Language <- MCLanguage
  Major <- MCMajor
  Complete <- MCFactories
  Plugins <- MCPlugins
  NoPlugin = "none"
  Script <- MCScript
  Persistent = {"wrapper", "future"}
  Static = {"phantom", "python"}
  Paths <- MCPaths
  AbsPaths = {"/wrapper", "/future", "/text"}
  Loadable = {"/wrapper", "/future"}
  EntryPoint <- MCEntryPoint
  Services = {"null", "dummy"}
  NoService = "null"
  MaxWild = 2
  MaxExits = 3
  Reentries <- MCReentries
INVARIANT DestroyGetsItsObject
