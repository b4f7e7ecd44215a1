\* One writer and one scan, every insertion and removal of five keys.
CONSTANTS
  v = v
  w = w
  s = s
  Key = {1, 2, 3, 4, 5}
  Value = {v, w}
  Entries <- MCEntries
  Nodes = {1, 2, 3, 4, 5, 6, 7, 8, 9, 10, 11, 12}
  MaxKeys = 2
  MinKeys = 1
  Scanner = {s}
  Null = Null
SPECIFICATION Spec
INVARIANTS TypeOK SearchFinds ChainInOrder WellFormed
PROPERTIES ScanComplete
\* The writer stops for good after a recursive lock or at a tree without root.
CHECK_DEADLOCK FALSE
