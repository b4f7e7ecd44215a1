------------------------------ MODULE OrderBook -----------------------------
(***************************************************************************)
(* Book::OrderBook, the price-time priority matching engine of             *)
(* hft_clean/src/order_book.cpp.                                           *)
(*                                                                         *)
(* The engine is single threaded and a call runs to its end before the     *)
(* next starts, but add_order() fires callbacks between fills, so a call   *)
(* is a chain of steps that pc drives: "add" (validation, allocation,      *)
(* admission), "sweep" (head of the loop over price levels), "walk" (the   *)
(* loop over the orders of one level) and "finish" (what happens to the    *)
(* taker).  No other call may start until pc is "idle" again.              *)
(*                                                                         *)
(* Orders of a level form a doubly linked list threaded through the        *)
(* orders by id, 0 standing for no order, exactly as prev, next, head and  *)
(* tail do in the code.  Timestamps, symbol, exchange, trade ids and the   *)
(* statistics counters are left out: no decision depends on them.          *)
(***************************************************************************)
EXTENDS Functions, FiniteSetsExt, MemoryPool

CONSTANTS
  OrderTypes,     \* the order types the callers submit
  Prices,         \* the prices they pass, valid or not
  Quantities,     \* the quantities they pass, valid or not
  PRICE_MIN,      \* numeric_limits<Price>::min()
  PRICE_MAX,      \* numeric_limits<Price>::max()
  MaxOrderId      \* model bound on ids issued between two clear() calls

ASSUME BookAssumption ==
  /\ OrderTypes \subseteq {"LIMIT", "MARKET", "IOC", "FOK", "POST_ONLY"}
  /\ Prices \subseteq Int
  /\ Quantities \subseteq Int
  /\ PRICE_MIN \in Int /\ PRICE_MAX \in Int
  /\ \A p \in Prices : PRICE_MIN <= p /\ p <= PRICE_MAX
  /\ MaxOrderId \in Nat

VARIABLES
  orders,         \* order_map_ : id -> Order
  ladder,         \* bid_ladder_ (BUY) and ask_ladder_ (SELL) : price -> PriceLevel
  order_id_seq,   \* order_id_seq_
  bbo,            \* the BBO that on_bbo_update() last reported
  pc,             \* where the call in progress stands
  call,           \* its arguments
  at,             \* it->first : the price level being walked
  cur,            \* cur_id : the next maker of that level
  fills           \* result.fills.size()

bookVars == <<orders, ladder, order_id_seq, free_list, free_top>>
callVars == <<call, at, cur, fills>>
vars == <<bookVars, bbo, pc, callVars>>

-----------------------------------------------------------------------------
Sides == {"BUY", "SELL"}
Opposite(side) == IF side = "BUY" THEN "SELL" ELSE "BUY"

NoOrder == 0
OrderIds == 1 .. MaxOrderId
BookPrices == Prices \cup {PRICE_MIN, PRICE_MAX}

Order == [side : Sides, type : OrderTypes, price : BookPrices,
          remaining : Int, status : {"NEW", "PARTIAL", "FILLED"},
          prev : OrderIds \cup {NoOrder}, next : OrderIds \cup {NoOrder},
          slot : Slots]

PriceLevel == [total_qty : Int, order_count : Nat,
               head : OrderIds \cup {NoOrder}, tail : OrderIds \cup {NoOrder}]

Call == [side : Sides, type : OrderTypes, price : Prices, qty : Quantities]

IsActive(o) == o.status \in {"NEW", "PARTIAL"}

NewLevel == [total_qty |-> 0, order_count |-> 0, head |-> NoOrder, tail |-> NoOrder]

\* The ladders' orderings: std::greater for the bids, std::less for the asks.
Better(side, p, q) == IF side = "BUY" THEN p > q ELSE p < q

\* Is p the price of ladder.begin()?
IsBest(side, lad, p) == \A q \in DOMAIN lad : q = p \/ Better(side, p, q)

\* Mutant of Reaches: an order at exactly the limit does not trade.
ReachesStrictly(side, limit, p) == IF side = "BUY" THEN p < limit ELSE p > limit

\* May a taker with this limit trade at price p?
Reaches(side, limit, p) == IF side = "BUY" THEN p <= limit ELSE p >= limit

BestBBO(lads) ==
  [side \in Sides |->
     IF DOMAIN lads[side] = {} THEN [price |-> 0, qty |-> 0]
     ELSE LET p == CHOOSE q \in DOMAIN lads[side] : IsBest(side, lads[side], q)
          IN  [price |-> p, qty |-> lads[side][p].total_qty]]

notify_bbo == bbo' = BestBBO(ladder')

-----------------------------------------------------------------------------
(* Price levels *)

\* Mutant of UnlinkedLevel: the head is not advanced.
UnlinkedLevelKeepingHead(lvl, o) ==
  [lvl EXCEPT !.order_count = IF @ > 0 THEN @ - 1 ELSE 0,
              !.tail = IF o.next = NoOrder THEN o.prev ELSE @]

\* level_remove_order_links: the level and the neighbours forget order o.
UnlinkedLevel(lvl, o) ==
  [total_qty   |-> lvl.total_qty,
   order_count |-> IF lvl.order_count > 0 THEN lvl.order_count - 1 ELSE 0,
   head        |-> IF o.prev = NoOrder THEN o.next ELSE lvl.head,
   tail        |-> IF o.next = NoOrder THEN o.prev ELSE lvl.tail]

\* Mutant of UnlinkedOrders: the successor still names the order as its predecessor.
UnlinkedOrdersOneWay(ords, o) ==
  [i \in DOMAIN ords |-> [ords[i] EXCEPT !.next = IF i = o.prev THEN o.next ELSE @]]

UnlinkedOrders(ords, o) ==
  [i \in DOMAIN ords |->
     [ords[i] EXCEPT !.next = IF i = o.prev THEN o.next ELSE @,
                     !.prev = IF i = o.next THEN o.prev ELSE @]]

\* An emptied level leaves the ladder, any other is stored back.
StoreLevel(lad, p, lvl) ==
  IF lvl.order_count = 0 THEN Restrict(lad, DOMAIN lad \ {p})
                         ELSE [lad EXCEPT ![p] = lvl]

\* Mutant of AppendedLevel: the level counts the quantity asked for, not what remains.
AppendedLevelOfFullQty(lvl, id, o) ==
  [total_qty |-> lvl.total_qty + call.qty, order_count |-> lvl.order_count + 1,
   head |-> IF lvl.tail = NoOrder THEN id ELSE lvl.head, tail |-> id]

\* level_add_order, after operator[] created the level if it was missing.
AppendedLevel(lvl, id, o) ==
  [total_qty |-> lvl.total_qty + o.remaining, order_count |-> lvl.order_count + 1,
   head |-> IF lvl.tail = NoOrder THEN id ELSE lvl.head, tail |-> id]

LevelAt(lad, p) == IF p \in DOMAIN lad THEN lad[p] ELSE NewLevel

Erased(ords, id) == Restrict(ords, DOMAIN ords \ {id})

-----------------------------------------------------------------------------
Idle == [side |-> "BUY", type |-> "NONE", price |-> 0, qty |-> 0]

Init ==
  /\ PoolInit
  /\ orders = << >>
  /\ ladder = [side \in Sides |-> << >>]
  /\ order_id_seq = 0
  /\ bbo = BestBBO(ladder)
  /\ pc = "idle"
  /\ call = Idle /\ at = 0 /\ cur = NoOrder /\ fills = 0

Return ==
  /\ pc' = "idle"
  /\ call' = Idle /\ at' = 0 /\ cur' = NoOrder /\ fills' = 0

\* The bound on ids; the code's sequence is 64 bits wide.
IdsLeft == order_id_seq < MaxOrderId

add_order(side, type, price, qty) ==
  /\ pc = "idle" /\ IdsLeft
  /\ pc' = "add"
  /\ call' = [side |-> side, type |-> type, price |-> price, qty |-> qty]
  /\ UNCHANGED <<bookVars, bbo, at, cur, fills>>

\* What cancel_order does to an active order; an order that no level of its
\* price holds is only dropped from the map and the pool.
Withdraw(id) ==
  LET o    == orders[id]
      lad  == ladder[o.side]
      lvl  == [lad[o.price] EXCEPT !.total_qty = @ - o.remaining]
      held == o.price \in DOMAIN lad
  IN  /\ orders' = Erased(IF held THEN UnlinkedOrders(orders, o) ELSE orders, id)
      /\ ladder' = IF held
                   THEN [ladder EXCEPT ![o.side] =
                           StoreLevel(lad, o.price, UnlinkedLevel(lvl, o))]
                   ELSE ladder
      /\ Deallocate(o.slot)
      /\ notify_bbo

cancel_order(id) ==
  /\ pc = "idle"
  /\ IsActive(orders[id])
  /\ Withdraw(id)
  /\ UNCHANGED <<order_id_seq, pc, callVars>>

\* modify_order: cancel, then add with the old side and type.  An order that
\* is no longer active is not cancelled, but its replacement is still added.
modify_order(id, new_price, new_qty) ==
  /\ pc = "idle" /\ IdsLeft
  /\ pc' = "add"
  /\ call' = [side |-> orders[id].side, type |-> orders[id].type,
              price |-> new_price, qty |-> new_qty]
  /\ \/ IsActive(orders[id]) /\ Withdraw(id)
     \/ ~IsActive(orders[id]) /\ UNCHANGED <<orders, ladder, poolVars, bbo>>
  /\ UNCHANGED <<order_id_seq, at, cur, fills>>

\* Mutant of clear: the order map is forgotten.
clear_ladders ==
  /\ pc = "idle"
  /\ ladder' = [side \in Sides |-> << >>]
  /\ PoolReset
  /\ order_id_seq' = 0
  /\ notify_bbo
  /\ UNCHANGED <<orders, pc, callVars>>

clear ==
  /\ pc = "idle"
  /\ orders' = << >>
  /\ ladder' = [side \in Sides |-> << >>]
  /\ PoolReset
  /\ order_id_seq' = 0
  /\ notify_bbo
  /\ UNCHANGED <<pc, callVars>>

-----------------------------------------------------------------------------
(* add_order: admission *)

Invalid == call.qty <= 0 \/ (call.type = "LIMIT" /\ call.price <= 0)

\* A market order gets an extreme price so that it sweeps the whole book.
LimitPrice ==
  IF call.type # "MARKET" THEN call.price
  ELSE IF call.side = "BUY" THEN PRICE_MAX ELSE PRICE_MIN

LevelTotalsOf(side) == [p \in DOMAIN ladder[side] |-> ladder[side][p].total_qty]

\* Mutant of can_fill_fok: the depth of the whole side counts, within the limit or not.
can_fill_at_any_price ==
  SumFunction(LevelTotalsOf(Opposite(call.side))) >= call.qty

\* can_fill_fok adds up level totals from the best price on, within the limit,
\* and stops as soon as they reach the quantity.
can_fill_fok ==
  LET opp == Opposite(call.side)
      within(p) == {q \in DOMAIN ladder[opp] : q = p \/ Better(opp, q, p)}
  IN  \E p \in DOMAIN ladder[opp] :
        /\ Reaches(call.side, LimitPrice, p)
        /\ SumFunctionOnSet(LevelTotalsOf(opp), within(p)) >= call.qty

\* Refused before an id is issued: bad arguments or no free slot.
RejectOrder ==
  /\ pc = "add"
  /\ Invalid \/ PoolExhausted
  /\ Return
  /\ UNCHANGED <<bookVars, bbo>>

\* A fill-or-kill order that cannot be filled: its slot is given back, its id is spent.
KillOrder ==
  /\ pc = "add"
  /\ ~Invalid /\ ~PoolExhausted
  /\ call.type = "FOK" /\ ~can_fill_fok
  /\ order_id_seq' = order_id_seq + 1
  /\ Return
  /\ UNCHANGED <<orders, ladder, poolVars, bbo>>

TakerOrder ==
  [side |-> call.side, type |-> call.type, price |-> LimitPrice,
   remaining |-> call.qty, status |-> "NEW",
   prev |-> NoOrder, next |-> NoOrder, slot |-> NextSlot]

AdmitOrder ==
  /\ pc = "add"
  /\ ~Invalid
  /\ call.type = "FOK" => can_fill_fok
  /\ Allocate
  /\ order_id_seq' = order_id_seq + 1
  /\ orders' = [i \in DOMAIN orders \cup {order_id_seq + 1} |->
                  IF i = order_id_seq + 1 THEN TakerOrder ELSE orders[i]]
  /\ pc' = "sweep"
  /\ UNCHANGED <<ladder, bbo, callVars>>

-----------------------------------------------------------------------------
(* add_order: match_order and fill_order *)

taker == order_id_seq                    \* the order being added has the latest id
MakerSide == Opposite(orders[taker].side)

CanReach(p) == Reaches(orders[taker].side, orders[taker].price, p)

\* The loop goes on with the best level of the other side if the taker reaches it ...
EnterLevel ==
  /\ pc = "sweep"
  /\ orders[taker].remaining > 0
  /\ \E p \in DOMAIN ladder[MakerSide] :
       /\ IsBest(MakerSide, ladder[MakerSide], p)
       /\ CanReach(p)
       /\ at' = p
       /\ cur' = ladder[MakerSide][p].head
  /\ pc' = "walk"
  /\ UNCHANGED <<bookVars, bbo, call, fills>>

\* ... and ends when the taker is filled, or reaches no level: the best is out
\* of its limit, hence all are, or there is none.
EndSweep ==
  /\ pc = "sweep"
  /\ orders[taker].remaining <= 0 \/ \A p \in DOMAIN ladder[MakerSide] : ~CanReach(p)
  /\ pc' = "finish"
  /\ UNCHANGED <<bookVars, bbo, callVars>>

Lesser(a, b) == IF a < b THEN a ELSE b

\* An order, taker or maker, after trading this quantity.
Filled(o, qty) ==
  [o EXCEPT !.remaining = @ - qty,
            !.status = IF o.remaining = qty THEN "FILLED" ELSE "PARTIAL"]

\* fill_order on the maker under the cursor; the cursor moves to the
\* successor read before the fill.
fill_order ==
  LET maker == orders[cur]
      qty   == Lesser(orders[taker].remaining, maker.remaining)
      done  == maker.remaining = qty
      lad   == ladder[MakerSide]
      held  == maker.price \in DOMAIN lad
      lvl   == [lad[maker.price] EXCEPT !.total_qty = @ - qty]
      traded == [orders EXCEPT ![taker] = Filled(@, qty), ![cur] = Filled(@, qty)]
  IN  /\ orders' = IF ~done THEN traded
                   ELSE Erased(IF held THEN UnlinkedOrders(traded, maker) ELSE traded, cur)
      /\ ladder' = IF ~held THEN ladder
                   ELSE [ladder EXCEPT ![MakerSide] =
                           IF done THEN StoreLevel(lad, maker.price, UnlinkedLevel(lvl, maker))
                                   ELSE [lad EXCEPT ![maker.price] = lvl]]
      /\ IF done THEN Deallocate(maker.slot) ELSE UNCHANGED poolVars
      /\ cur' = maker.next

FillMaker ==
  /\ pc = "walk"
  /\ cur \in DOMAIN orders /\ orders[taker].remaining > 0
  /\ fill_order
  /\ fills' = fills + 1
  /\ UNCHANGED <<order_id_seq, bbo, pc, call, at>>

\* The clean-up after a walk reads it->first.  If fill_order erased that
\* level, `it` points to a freed node and the price read is arbitrary: any
\* level of the ladder, or none.
CheckedPrices == IF at \in DOMAIN ladder[MakerSide] THEN {at}
                 ELSE DOMAIN ladder[MakerSide] \cup {at}

LeaveLevel ==
  /\ pc = "walk"
  /\ cur \notin DOMAIN orders \/ orders[taker].remaining = 0
  /\ \E p \in CheckedPrices :
       ladder' = IF p \in DOMAIN ladder[MakerSide]
                 THEN [ladder EXCEPT ![MakerSide] = StoreLevel(@, p, @[p])]
                 ELSE ladder
  /\ pc' = "sweep"
  /\ UNCHANGED <<orders, order_id_seq, poolVars, bbo, callVars>>

-----------------------------------------------------------------------------
(* add_order: what becomes of the taker *)

\* Mutant of RetireTaker: the slot is not given back.
RetireTakerLeaking ==
  /\ orders' = Erased(orders, taker)
  /\ UNCHANGED <<ladder, order_id_seq, poolVars>>

RetireTaker ==
  /\ orders' = Erased(orders, taker)
  /\ Deallocate(orders[taker].slot)
  /\ UNCHANGED <<ladder, order_id_seq>>

\* Mutant of RefusePostOnly: the slot of a filled order is given back, the map keeps the order.
RefusePostOnlyFreeing ==
  /\ pc = "finish"
  /\ call.type = "POST_ONLY" /\ fills > 0
  /\ IF IsActive(orders[taker]) THEN RetireTaker
     ELSE Deallocate(orders[taker].slot) /\ UNCHANGED <<orders, ladder, order_id_seq>>
  /\ Return
  /\ UNCHANGED bbo

\* A POST_ONLY order that crossed.  Its trades stand, an unfilled rest is
\* dropped, and nobody is told about the new BBO; a filled one is left in the map.
RefusePostOnly ==
  /\ pc = "finish"
  /\ call.type = "POST_ONLY" /\ fills > 0
  /\ IF IsActive(orders[taker]) THEN RetireTaker ELSE UNCHANGED bookVars
  /\ Return
  /\ UNCHANGED bbo

\* Mutant of CompleteTaker: the callbacks are not told of the new BBO.
CompleteTakerSilently ==
  /\ pc = "finish"
  /\ ~(call.type = "POST_ONLY" /\ fills > 0)
  /\ orders[taker].remaining = 0 \/ call.type \in {"IOC", "FOK"}
  /\ RetireTaker
  /\ Return
  /\ UNCHANGED bbo

\* The taker traded in full, or is an IOC or FOK order whose rest is dropped.
CompleteTaker ==
  /\ pc = "finish"
  /\ ~(call.type = "POST_ONLY" /\ fills > 0)
  /\ orders[taker].remaining = 0 \/ call.type \in {"IOC", "FOK"}
  /\ RetireTaker
  /\ notify_bbo
  /\ Return

RestTaker ==
  LET o   == orders[taker]
      lvl == LevelAt(ladder[o.side], o.price)
  IN  /\ pc = "finish"
      /\ o.remaining # 0 /\ call.type = "LIMIT"
      /\ orders' = [i \in DOMAIN orders |->
                      IF i = taker THEN [o EXCEPT !.prev = lvl.tail, !.next = NoOrder]
                      ELSE IF i = lvl.tail THEN [orders[i] EXCEPT !.next = taker]
                      ELSE orders[i]]
      /\ ladder' = [ladder EXCEPT ![o.side] =
                      [p \in DOMAIN @ \cup {o.price} |->
                         IF p = o.price THEN AppendedLevel(lvl, taker, o) ELSE @[p]]]
      /\ notify_bbo
      /\ Return
      /\ UNCHANGED <<order_id_seq, poolVars>>

\* The rest of a MARKET order, or a POST_ONLY order that did not cross: no
\* branch handles it, so it stays in the map and the pool and in no ladder.
AbandonTaker ==
  /\ pc = "finish"
  /\ orders[taker].remaining # 0
  /\ call.type = "MARKET" \/ (call.type = "POST_ONLY" /\ fills = 0)
  /\ Return
  /\ UNCHANGED <<bookVars, bbo>>

-----------------------------------------------------------------------------
CallStart ==
  \/ \E side \in Sides, type \in OrderTypes, price \in Prices, qty \in Quantities :
       add_order(side, type, price, qty)
  \/ \E id \in DOMAIN orders : cancel_order(id)
  \/ \E id \in DOMAIN orders, price \in Prices, qty \in Quantities :
       modify_order(id, price, qty)
  \/ clear

CallStep ==
  \/ RejectOrder \/ KillOrder \/ AdmitOrder
  \/ EnterLevel \/ FillMaker \/ LeaveLevel \/ EndSweep
  \/ RefusePostOnly \/ CompleteTaker \/ RestTaker \/ AbandonTaker

Next == CallStart \/ CallStep

Spec == Init /\ [][Next]_vars

\* A call that has started keeps running: it never blocks and nothing preempts it.
FairSpec == Spec /\ WF_vars(CallStep)

-----------------------------------------------------------------------------
(* Properties *)

\* Is order i the one being added?
InFlight(i) == pc \in {"sweep", "walk", "finish"} /\ i = taker

\* The orders that belong into the levels: LIMIT orders whose add_order has ended.
RestingIds == {i \in DOMAIN orders : orders[i].type = "LIMIT" /\ ~InFlight(i)}
RestingAt(side, p) == {i \in RestingIds : orders[i].side = side /\ orders[i].price = p}

\* Types of the state, and the shape of the two indexes of orders.
TypeOK ==
  /\ PoolTypeOK
  /\ DOMAIN orders \subseteq 1 .. order_id_seq
  /\ \A i \in DOMAIN orders : orders[i] \in Order
  /\ DOMAIN ladder = Sides
  /\ \A side \in Sides : DOMAIN ladder[side] \subseteq Prices
  /\ \A side \in Sides : \A p \in DOMAIN ladder[side] : ladder[side][p] \in PriceLevel
  /\ order_id_seq \in 0 .. MaxOrderId
  /\ pc \in {"idle", "add", "sweep", "walk", "finish"}
  /\ pc \in {"idle", "add"} \/ taker \in DOMAIN orders
  /\ IF pc = "idle" THEN call = Idle ELSE call \in Call
  /\ at \in Prices \cup {0}
  /\ cur \in OrderIds \cup {NoOrder}
  /\ fills \in Nat

\* Every slot of order_pool_ is either free or owned by exactly one order of
\* order_map_: nothing leaks, nothing is handed out twice, on any path that
\* allocates or deallocates.
PoolPartition ==
  /\ \A i, j \in DOMAIN orders : orders[i].slot = orders[j].slot => i = j
  /\ PoolSound({orders[i].slot : i \in DOMAIN orders})

\* The best bid stays below the best ask, also between the fills of a sweep,
\* where the trade callbacks see the book.
NotCrossed == \A b \in DOMAIN ladder["BUY"], a \in DOMAIN ladder["SELL"] : b < a

\* The list of each level, read by its links, is the resting orders of that
\* side and price in order of arrival; there is no level without orders, so
\* the clean-up that reads a freed node (LeaveLevel) has nothing to remove.
LevelsListOrders ==
  \A side \in Sides :
    /\ DOMAIN ladder[side] = {orders[i].price : i \in {j \in RestingIds : orders[j].side = side}}
    /\ \A p \in DOMAIN ladder[side] :
         LET R == RestingAt(side, p)
         IN  /\ ladder[side][p].head = Min(R)
             /\ ladder[side][p].tail = Max(R)
             /\ \A i \in R :
                  /\ LET older == {j \in R : j < i}
                     IN  orders[i].prev = IF older = {} THEN NoOrder ELSE Max(older)
                  /\ LET newer == {j \in R : j > i}
                     IN  orders[i].next = IF newer = {} THEN NoOrder ELSE Min(newer)

\* price_level.hpp: total_qty is the sum of all resting Order::remaining at
\* the price, and order_count their number.
LevelTotals ==
  \A side \in Sides : \A p \in DOMAIN ladder[side] :
    LET R == RestingAt(side, p)
    IN  /\ ladder[side][p].total_qty = SumFunction([i \in R |-> orders[i].remaining])
        /\ ladder[side][p].order_count = Cardinality(R)

\* Between calls, the last BBO reported to the callbacks is the BBO of the book.
BboCurrent == pc = "idle" => bbo = BestBBO(ladder)

\* Every call returns: the sweep ends although it walks lists that it takes
\* apart as it goes.
CallsReturn == (pc # "idle") ~> (pc = "idle")

\* The book implements the matching engine: whatever the lists and totals
\* hold, trades happen in price-time priority, FOK orders fill or do
\* nothing, and what rests is what did not trade.
Engine == INSTANCE MatchingEngine WITH
  resting <- {[id |-> i, side |-> orders[i].side, price |-> orders[i].price,
               remaining |-> orders[i].remaining] : i \in RestingIds},
  active  <- {[id |-> i, side |-> orders[i].side, type |-> orders[i].type,
               price |-> orders[i].price, remaining |-> orders[i].remaining] :
               i \in {j \in DOMAIN orders : InFlight(j)}}
ImplementsEngine == Engine!EngineSpec

=============================================================================
