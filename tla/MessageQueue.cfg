SPECIFICATION FairSpec
CONSTANTS
  Senders = {s1, s2}
  Receivers = {r1, r2, r3}
  Messages = {m1, m2, close_queue}
  close_queue = close_queue
  NoThread = NoThread
  MaxSent = 3
INVARIANTS
  TypeOK
  PopsAMessage
  NoLostWakeup
PROPERTIES
  ImplementsChannel
  EveryMessageIsReceived
