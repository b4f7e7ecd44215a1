SPECIFICATION Spec
CONSTANTS
  Values = {a, b}
  NoStatement = NoStatement
  MaxStatements = 2
  MaxCrashes = 2
INVARIANT VacuumCrashConsistent
