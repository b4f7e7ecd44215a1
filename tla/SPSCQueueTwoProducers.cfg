SPECIFICATION Spec
CONSTANTS
  Producers = {p1, p2}
  Items = {a, b}
  NoItem = NoItem
  Capacity = 4
  IndexValues = 8
PROPERTIES PushQueues
