SPECIFICATION Spec
CONSTANTS
  Values = {a, b}
  NoStatement = NoStatement
  MaxStatements = 4
  MaxCrashes = 2
INVARIANTS TypeOK RowsReadable OthersUntouched AtLeastOnce TreesMatchTable
