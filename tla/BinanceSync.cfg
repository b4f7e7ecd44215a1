\* One resync, six updates in every cut into frames, frames lost by the exchange.
CONSTANTS
  MaxUpdates = 6
  max_resync_attempts = 1
SPECIFICATION Spec
INVARIANTS TypeOK LiveIsContiguous FedByOneThread BookHasOneOwner NothingCarriedOver 
PROPERTIES CyclesEnd
\* execute() returns, or waits for a frame that never comes.
CHECK_DEADLOCK FALSE
