SPECIFICATION FairSpec
CONSTANTS
  Producers = {p1}
  Items = {a, b}
  NoItem = NoItem
  Capacity = 4
  IndexValues = 8
INVARIANTS TypeOK NoSlotRace
PROPERTIES ImplementsQueue ItemsArrive
