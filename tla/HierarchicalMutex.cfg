SPECIFICATION Spec
CONSTANTS
  Threads = {a, b, c}
  high_level_mutex = high_level_mutex
  low_level_mutex = low_level_mutex
  same_level_mutex = same_level_mutex
  other_mutex = other_mutex
  Mutexes <- MCMutexes
  hcl_val <- MCLevels
  Top = 4
  NoThread = NoThread
  NoMutex = NoMutex
SYMMETRY Symmetry
INVARIANTS
  TypeOK
  GuardsOwn
  LevelIsInnermost
  NoCycle
PROPERTY ImplementsLockOrder
