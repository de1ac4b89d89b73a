SPECIFICATION FairSpec
CONSTANT MaxItems = 4
INVARIANTS
  TypeOK
  NoLostWakeup
  ItemsAreKept
PROPERTIES
  ImplementsChannel
  Returns
