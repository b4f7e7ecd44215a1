--------------------------- MODULE MatchingEngine ---------------------------
(***************************************************************************)
(* What the order book promises its users, without lists, levels, pools or *)
(* ladders: a set of resting orders, at most one order being matched, and  *)
(* trades that follow strict price-time priority (README.md section 3,     *)
(* "Strict Price-Time Priority (FIFO)").  Ids are arrival times.           *)
(***************************************************************************)
EXTENDS Integers, Functions

VARIABLES
  resting,     \* set of [id, side, price, remaining]
  active       \* set of at most one [id, side, type, price, remaining]

engineVars == <<resting, active>>

Crosses(side, limit, price) == IF side = "BUY" THEN price <= limit ELSE price >= limit

\* The resting orders that order o may trade with.
Matchable(o, rest) == {r \in rest : r.side # o.side /\ Crosses(o.side, o.price, r.price)}

\* r trades before s against an order of the given side.
Precedes(side, r, s) ==
  \/ Crosses(side, s.price, r.price) /\ r.price # s.price
  \/ r.price = s.price /\ r.id < s.id

Priority(o, r) == \A s \in Matchable(o, resting) \ {r} : Precedes(o.side, r, s)

Depth(rest) == SumFunction([r \in rest |-> r.remaining])

Reduce(o, qty) == [o EXCEPT !.remaining = @ - qty]

EngineInit == resting = {} /\ active = {}

\* An order is taken in: it is newer than every resting one, and a
\* fill-or-kill order is taken in only if it can be filled at once.
Accept(o) ==
  /\ active = {}
  /\ o.remaining > 0
  /\ \A r \in resting : r.id < o.id
  /\ o.type = "FOK" => Depth(Matchable(o, resting)) >= o.remaining
  /\ active' = {o}
  /\ UNCHANGED resting

\* The active order trades with the order of highest priority.
Trade(o, r) ==
  LET qty == IF o.remaining < r.remaining THEN o.remaining ELSE r.remaining
  IN  /\ o \in active
      /\ o.remaining > 0
      /\ r \in Matchable(o, resting)
      /\ Priority(o, r)
      /\ active' = {Reduce(o, qty)}
      /\ resting' = (resting \ {r}) \cup {s \in {Reduce(r, qty)} : s.remaining > 0}

\* The order leaves, filled or with nothing left to trade with.  Only a rest
\* of a LIMIT order stays in the book, and a FOK order never leaves part filled.
Leave(o) ==
  /\ o \in active
  /\ o.remaining = 0 \/ Matchable(o, resting) = {}
  /\ o.type = "FOK" => o.remaining = 0
  /\ active' = {}
  /\ resting' = resting \cup
       {r \in {[id |-> o.id, side |-> o.side, price |-> o.price, remaining |-> o.remaining]} :
          o.type = "LIMIT" /\ o.remaining > 0}

Withdrawn(r) ==
  /\ active = {}
  /\ r \in resting
  /\ resting' = resting \ {r}
  /\ UNCHANGED active

Emptied ==
  /\ active = {}
  /\ resting' = {}
  /\ UNCHANGED active

\* The order taken in is the one active afterwards.
EngineNext ==
  \/ \E o \in active' : Accept(o)
  \/ \E o \in active, r \in resting : Trade(o, r)
  \/ \E o \in active : Leave(o)
  \/ \E r \in resting : Withdrawn(r)
  \/ Emptied

EngineSpec == EngineInit /\ [][EngineNext]_engineVars

=============================================================================
