\* README.md:197 against remove: the last merge deletes the new root.
CONSTANTS
  v = v
  w = w
  s = s
  Key = {1, 2, 3, 4, 5}
  Value = {v}
  Entries <- MCEntriesAlike
  Nodes = {1, 2, 3, 4, 5, 6, 7, 8, 9, 10, 11, 12, 13}
  MaxKeys = 2
  MinKeys = 1
  Scanner = {}
  Null = Null
SPECIFICATION Spec
INVARIANTS StructuralIntegrity
CHECK_DEADLOCK FALSE
