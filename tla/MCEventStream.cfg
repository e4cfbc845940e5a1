CONSTANTS
  MaxEvents = 3
  MaxDue = 2
  Room = 2
  Characters <- Letters
  Programs <- SmallPrograms
SPECIFICATION SourceSpec
INVARIANTS
  TypeOK
  NothingBetweenIsLost
  NoLostWakeup
  HeardAsMeant
PROPERTIES
  EventsGoFirst
  IdleStreamIsKeptAlive
  ImplementsDelivery
